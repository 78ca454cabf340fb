------------------------------ MODULE Timeline ------------------------------
(***************************************************************************)
(* What Journarr promises of the timeline it shows for a media item,       *)
(* whatever the order, the number and the source of the reports it gets:   *)
(*                                                                         *)
(*   - attempts are numbered 1, 2, 3... and never go back;                 *)
(*   - the history only grows, and only in attempts that have begun;       *)
(*   - the stage shown is the furthest the current attempt has entered;    *)
(*   - a client download id belongs to one attempt of an item, for good,   *)
(*     and an attempt belongs to one client download id.                   *)
(*                                                                         *)
(* The specification says nothing of how: handlers, download rows, cycle   *)
(* links and the incremental pointer are Pipeline's.                       *)
(***************************************************************************)
EXTENDS Stages

CONSTANTS Items,  (* the movies and episodes that can be tracked           *)
          Keys    (* the client download ids                               *)

VARIABLES attempt,  (* attempt[i]: the attempt item i is in                *)
          seen,     (* seen[i]: its history, a set of <<attempt, stage>>   *)
          shown,    (* shown[i]: the stage shown for it                    *)
          claim     (* claim[i][k]: the attempt download k served, or 0    *)

vars == <<attempt, seen, shown, claim>>

Init ==
  /\ attempt = [i \in Items |-> 1]
  /\ seen    = [i \in Items |-> {}]
  /\ shown   = [i \in Items |-> "requested"]
  /\ claim   = [i \in Items |-> [k \in Keys |-> 0]]

\* New history of item i, in attempts that have begun; possibly none.
Report(i) ==
  /\ attempt'[i] = attempt[i]
  /\ seen[i] \subseteq seen'[i]
  /\ seen'[i] \subseteq seen[i] \union ((1..attempt[i]) \X StageKeys)

\* A new attempt begins: empty (a retry), or with the first grab of a download.
Begin(i) ==
  /\ attempt'[i] = attempt[i] + 1
  /\ \/ seen'[i] = seen[i]
     \/ /\ seen'[i] = seen[i] \union {<<attempt'[i], "grabbed">>}
        /\ \E k \in Keys : claim[i][k] = 0 /\ claim'[i][k] = attempt'[i]

\* A download is claimed by the attempt the step leaves the item in, and by
\* it alone; a claim never changes.
Claims(i) ==
  \A k \in Keys :
    \/ claim'[i][k] = claim[i][k]
    \/ /\ claim[i][k] = 0
       /\ claim'[i][k] = attempt'[i]
       /\ \A l \in Keys \ {k} : claim'[i][l] # attempt'[i]

Next ==
  \A i \in Items :
    /\ Report(i) \/ Begin(i)
    /\ Claims(i)
    /\ shown'[i] = Furthest(seen'[i], attempt'[i])

Spec == Init /\ [][Next]_vars
=============================================================================
