----------------------------- MODULE MediaItem ------------------------------
(***************************************************************************)
(* The two writes every handler makes to a row of media_items: ApplyStage  *)
(* (store/transitions.go) and BumpItemCycle (store/media.go), as operators *)
(* from an item to an item.                                                *)
(*                                                                         *)
(* An item is the attempt ("cycle") it is in, the stage it is shown at,    *)
(* its rows of stage_transitions as a set of <<cycle, stage>> pairs (their *)
(* UNIQUE constraint makes the table a set) and its last error.            *)
(***************************************************************************)
EXTENDS Stages

CONSTANT NoError  (* the last_error of an item that has none               *)

Item(Errors) == [cycle : Nat \ {0}, stage : StageKeys,
                 hist : SUBSET (Nat \X StageKeys), err : Errors]

NewItem == [cycle |-> 1, stage |-> "requested", hist |-> {}, err |-> NoError]

\* The WHERE clause of ApplyStage's UPDATE: a higher cycle always wins, and
\* within a cycle only a stage with a higher ordinal.
Ahead(it, c, s) ==
  \/ it.cycle < c
  \/ it.cycle = c /\ Ordinal[it.stage] < Ordinal[s]

\* Mutant: the pointer takes whatever arrived last.
ApplyStageLastWins(it, c, s) ==
  [it EXCEPT !.hist = @ \union {<<c, s>>}, !.cycle = c, !.stage = s]

\* INSERT OR IGNORE into stage_transitions, then the conditional UPDATE.
ApplyStage(it, c, s) ==
  [it EXCEPT !.hist  = @ \union {<<c, s>>},
             !.cycle = IF Ahead(it, c, s) THEN c ELSE @,
             !.stage = IF Ahead(it, c, s) THEN s ELSE @]

\* ApplyStage's result "applied": the transition was not recorded before.
Applies(it, c, s) == <<c, s>> \notin it.hist

\* A new attempt: the next cycle, the pointer reset, the error cleared.
BumpItemCycle(it) ==
  [it EXCEPT !.cycle = @ + 1, !.stage = "requested", !.err = NoError]

\* SetItemError.
SetItemError(it, e) == [it EXCEPT !.err = e]

\* The item is at stage s or beyond it.
Reached(it, s) == Ordinal[it.stage] >= Ordinal[s]
=============================================================================
