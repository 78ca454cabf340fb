------------------------------- MODULE Drain --------------------------------
(***************************************************************************)
(* One movie through the projector's drain loop (pipeline/projector.go),   *)
(* statement by statement: handlers read a row, decide and write it in     *)
(* separate statements, ApplyStage itself is two (store/transitions.go),   *)
(* an event is marked in another, and the status is rolled up when the     *)
(* batch is over.  The user's Retry and Cancel (actions) go statement by   *)
(* statement too, on goroutines of their own, and the process may die      *)
(* between any two statements.  Pipeline takes whole handlers for steps;   *)
(* this module is what it leaves out.                                      *)
(*                                                                         *)
(* The movie was grabbed: its first attempt has the one download row.      *)
(* Later attempts are searched for and find nothing.  Bytes, errors of the *)
(* database other than a failed mark, a failed fetch of the next batch or  *)
(* a failed rollup, and the fan-outs that run after a drain are left out.  *)
(***************************************************************************)
EXTENDS MediaItem, Sequences, FiniteSets

CONSTANTS MaxEvents,  (* bound on the events inserted                      *)
          MaxRetries, (* bound on the user's retries                       *)
          MaxFaults,  (* bound on crashes, failed marks, fetches, rollups  *)
          BatchSize   (* the limit of FetchUnprocessed, 100 in the code    *)

ASSUME BoundsAssumption ==
  MaxEvents \in Nat /\ MaxRetries \in Nat /\ MaxFaults \in Nat
ASSUME BatchAssumption == BatchSize \in Nat \ {0}

VARIABLES log,     (* the events, by id                                    *)
          marked,  (* those with processed_at set                          *)
          item,    (* rows of media_items and stage_transitions            *)
          row,     (* the state of the download linked to attempt 1        *)
          status,  (* of the request                                       *)
          told,    (* the transitions OnStage was called for               *)
          pc,      (* where the projector is,                              *)
          batch,   (* FetchUnprocessed: the ids still to handle,           *)
          full,    (* and whether it returned as many as it may            *)
          d,       (* handler: dl.State as read                            *)
          c,       (* handler: the cycle it writes to, or 0                *)
          fresh,   (* ApplyStage: the INSERT was not ignored               *)
          touched, (* the request is in the touched set                    *)
          seen,    (* RecomputeRequestStatus: status as read...            *)
          next,    (* ...and as derived                                    *)
          missed,  (* a crash or a failed rollup lost the touch of a       *)
                   (* transition, and no rollup came since                 *)
          rt, cn,  (* where the user's Retry and Cancel are                *)
          retries, faults, crashes  (* how often so far                    *)

tables  == <<item, row, status, told>>
fetched == <<batch, full>>
handler == <<d, c, fresh>>
flush   == <<seen, next>>
user    == <<rt, cn, retries>>
counts  == <<faults, crashes>>
vars == <<log, marked, tables, pc, fetched, handler, touched, flush, missed, user, counts>>

Kinds == {"ready", "failed", "available"}
Terminal == {"imported", "failed", "canceled"}
Link == 1  (* the cycle of the download's row in download_items            *)

Init ==
  /\ log = <<>> /\ marked = {}
  /\ item = [cycle |-> 1, stage |-> "grabbed", hist |-> {<<1, "grabbed">>}, err |-> NoError]
  /\ row = "grabbed" /\ status = "active" /\ told = {<<1, "grabbed">>}
  /\ pc = "wait" /\ batch = {} /\ full = FALSE
  /\ d = "grabbed" /\ c = 0 /\ fresh = FALSE
  /\ touched = FALSE /\ seen = "active" /\ next = "active" /\ missed = FALSE
  /\ rt = "no" /\ cn = "no"
  /\ retries = 0 /\ faults = 0 /\ crashes = 0

Unprocessed == DOMAIN log \ marked
\* FetchUnprocessed: the oldest of them, up to the limit.
Oldest == {i \in Unprocessed : Cardinality({j \in Unprocessed : j < i}) < BatchSize}
\* The event at hand; the loop takes the batch in the order of the ids.
Event == CHOOSE i \in batch : \A j \in batch : i <= j
Kind  == log[Event]
Goto(l) == pc' = l

(* Ingest: webhooks and pollers --------------------------------------------*)

InsertEvent(k) ==
  /\ Len(log) < MaxEvents
  /\ log' = Append(log, k)
  /\ UNCHANGED <<marked, tables, pc, fetched, handler, touched, flush, missed, user, counts>>

(* The projector: drain ----------------------------------------------------*)

FetchBatch == batch' = Oldest /\ full' = (Cardinality(Oldest) = BatchSize)

Fetch ==
  /\ pc = "wait" /\ Unprocessed # {}
  /\ FetchBatch /\ touched' = FALSE /\ Goto("next")
  /\ UNCHANGED <<log, marked, tables, handler, flush, missed, user, counts>>

\* The next event of the batch is taken up; findArrarrDownload reads the row.
Take ==
  /\ pc = "next" /\ batch # {}
  /\ IF Kind = "available" THEN Goto("read") /\ UNCHANGED d
                           ELSE Goto("row") /\ d' = row
  /\ UNCHANGED <<log, marked, tables, fetched, c, fresh, touched, flush, missed, user, counts>>

\* Mutant: a state that is behind is written, too.
AdvancedAnyway == CASE Kind = "ready"  -> "downloaded"
                    [] Kind = "failed" -> "failed"
\* SetDownloadState, by the state as it was read.
Advanced == CASE Kind = "ready" /\ d = "grabbed"   -> "downloaded"
              [] Kind = "failed" /\ d # "imported" -> "failed"
              [] OTHER                             -> row
WriteRow ==
  /\ pc = "row" /\ Goto("read")
  /\ row' = Advanced
  /\ UNCHANGED <<log, marked, item, status, told, fetched, handler, touched, flush, missed, user, counts>>

\* Mutant: a job is taken for one of the current attempt.
CycleIsCurrent == item.cycle
\* CycleForItemDownload for a job, GetMediaItem for the others.
CycleOf == IF Kind = "available" THEN item.cycle ELSE Link

ReadItem ==
  /\ pc = "read" /\ Kind # "failed"
  /\ c' = CycleOf /\ Goto("insert")
  /\ UNCHANGED <<log, marked, tables, fetched, d, fresh, touched, flush, missed, user, counts>>

\* annotateDownloadItems: an error, in the attempt the download serves.
Annotate ==
  /\ pc = "read" /\ Kind = "failed"
  /\ touched' = TRUE /\ Goto("mark")
  /\ UNCHANGED <<log, marked, tables, fetched, handler, flush, missed, user, counts>>

Stage == IF Kind = "ready" THEN "downloaded" ELSE "available"

\* ApplyStage: INSERT OR IGNORE into stage_transitions...
Record == item' = [item EXCEPT !.hist = @ \union {<<c, Stage>>}]

InsertTransition ==
  /\ pc = "insert"
  /\ fresh' = Applies(item, c, Stage) /\ Record
  /\ Goto("advance")
  /\ UNCHANGED <<log, marked, row, status, told, fetched, d, c, touched, flush, missed, user, counts>>

\* Mutant: nothing to do for a transition that was there.
AdvanceIfFresh ==
  item' = IF fresh /\ Ahead(item, c, Stage) THEN [item EXCEPT !.stage = Stage] ELSE item
\* ...then the UPDATE of the pointer, in any case.  No transition is ever
\* recorded in an attempt that has not begun, so the cycle stays.
Advance ==
  item' = IF Ahead(item, c, Stage) THEN [item EXCEPT !.stage = Stage] ELSE item

\* Mutant: only what moves the pointer is announced.
AnnouncesIfAhead == fresh /\ Ahead(item, c, Stage)
Announces == fresh

AdvancePointer ==
  /\ pc = "advance" /\ Advance
  /\ Goto(IF Announces THEN "publish" ELSE "mark")
  /\ UNCHANGED <<log, marked, row, status, told, fetched, handler, touched, flush, missed, user, counts>>

\* publishStage and touch, for a transition that is new.
PublishStage ==
  /\ pc = "publish" /\ Goto("mark")
  /\ told' = told \union {<<c, Stage>>} /\ touched' = TRUE
  /\ UNCHANGED <<log, marked, item, row, status, fetched, handler, flush, missed, user, counts>>

\* A handler's locals are gone when it returns.
Forget == d' = "grabbed" /\ c' = 0 /\ fresh' = FALSE
MarkProcessed ==
  /\ pc = "mark" /\ Forget
  /\ marked' = marked \union {Event} /\ batch' = batch \ {Event} /\ Goto("next")
  /\ UNCHANGED <<log, tables, full, touched, flush, missed, user, counts>>

Fault == faults < MaxFaults /\ faults' = faults + 1

\* Mutant: the drain goes on with the next event.
GoOn == batch' = batch \ {Event} /\ Goto("next") /\ UNCHANGED full
\* Mutant: the projector's loop ends, not only the drain.
GiveUpForGood == batch' = {} /\ full' = FALSE /\ Goto("stopped")
\* Mutant: an early return skips the flush.
GiveUpUnflushed == batch' = {} /\ full' = FALSE /\ Goto("wait")
\* The drain returns; the whole batch is retried after the next wake.
GiveUp == batch' = {} /\ full' = FALSE /\ Goto("flush")

MarkFails ==
  /\ pc = "mark" /\ Fault /\ GiveUp /\ Forget
  /\ UNCHANGED <<log, marked, tables, touched, flush, missed, user, crashes>>

(* The projector: flushTouched ---------------------------------------------*)

\* A full batch is followed by the next in the same drain.
EndBatch ==
  /\ pc = "next" /\ batch = {}
  /\ \/ full /\ Unprocessed # {} /\ FetchBatch /\ UNCHANGED pc
     \/ ~(full /\ Unprocessed # {}) /\ full' = FALSE /\ Goto("flush") /\ UNCHANGED batch
  /\ UNCHANGED <<log, marked, tables, handler, touched, flush, missed, user, counts>>

\* FetchUnprocessed fails between two batches: the drain returns, too.
FetchFails ==
  /\ pc = "next" /\ batch = {} /\ full /\ Fault /\ GiveUp
  /\ UNCHANGED <<log, marked, tables, handler, touched, flush, missed, user, crashes>>

\* RecomputeRequestStatus: the status...
ReadStatus ==
  /\ pc = "flush"
  /\ LET goes == touched /\ status # "canceled" IN
       /\ Goto(IF goes THEN "count" ELSE "wait")
       /\ seen' = IF goes THEN status ELSE seen
       /\ touched' = goes
  /\ UNCHANGED <<log, marked, tables, fetched, handler, next, missed, user, counts>>

\* ...the count of the items at "available"...
CountItems ==
  /\ pc = "count" /\ Goto("write")
  /\ next' = IF Reached(item, "available") THEN "completed" ELSE "active"
  /\ UNCHANGED <<log, marked, tables, fetched, handler, touched, seen, missed, user, counts>>

\* ...and the write, if the two differ.
WriteStatus ==
  /\ pc = "write" /\ Goto("wait")
  /\ status' = IF next # seen THEN next ELSE status
  /\ touched' = FALSE /\ missed' = FALSE /\ seen' = "active" /\ next' = "active"
  /\ UNCHANGED <<log, marked, item, row, told, fetched, handler, user, counts>>

\* An error in any of the three is logged, and the touch is dropped with the set.
RollupFails ==
  /\ pc \in {"flush", "count", "write"} /\ touched /\ Fault
  /\ Goto("wait")
  /\ touched' = FALSE /\ missed' = TRUE /\ seen' = "active" /\ next' = "active"
  /\ UNCHANGED <<log, marked, tables, fetched, handler, user, crashes>>

(* The user ----------------------------------------------------------------*)

\* Retry reads the movie, and the download of its current attempt...
RetryReads ==
  /\ rt = "no" /\ retries < MaxRetries /\ retries' = retries + 1
  /\ rt' = IF item.cycle = Link /\ row \notin Terminal THEN "row" ELSE "bump"
  /\ UNCHANGED <<log, marked, tables, pc, fetched, handler, touched, flush, missed, cn, counts>>
\* ...gives the download up, and begins an attempt.
RetryWrites ==
  /\ rt = "row" /\ rt' = "bump"
  /\ row' = "canceled"
  /\ UNCHANGED <<log, marked, item, status, told, pc, fetched, handler, touched, flush, missed, cn, retries, counts>>
RetryBumps ==
  /\ rt = "bump" /\ rt' = "no"
  /\ item' = BumpItemCycle(item)
  /\ UNCHANGED <<log, marked, row, status, told, pc, fetched, handler, touched, flush, missed, cn, retries, counts>>

\* Cancel reads the status and the download...
CancelReads ==
  /\ cn = "no" /\ status = "active"
  /\ cn' = IF row \notin Terminal THEN "row" ELSE "set"
  /\ UNCHANGED <<log, marked, tables, pc, fetched, handler, touched, flush, missed, rt, retries, counts>>
\* ...gives it up, and sets the status.
CancelWrites ==
  /\ cn = "row" /\ cn' = "set"
  /\ row' = "canceled"
  /\ UNCHANGED <<log, marked, item, status, told, pc, fetched, handler, touched, flush, missed, rt, retries, counts>>
CancelSets ==
  /\ cn = "set" /\ cn' = "done"
  /\ status' = "canceled"
  /\ UNCHANGED <<log, marked, item, row, told, pc, fetched, handler, touched, flush, missed, rt, retries, counts>>

(* The process -------------------------------------------------------------*)

\* An event at hand is handled again; a touch is not made again.
Crash ==
  /\ Fault /\ crashes' = crashes + 1
  /\ missed' = (missed \/ touched \/ (fresh /\ pc \in {"advance", "publish"}))
  /\ Goto("wait") /\ batch' = {} /\ full' = FALSE
  /\ Forget /\ touched' = FALSE /\ seen' = "active" /\ next' = "active"
  /\ rt' = "no" /\ cn' = IF cn = "done" THEN cn ELSE "no"
  /\ UNCHANGED <<log, marked, tables, retries>>

(***************************************************************************)

ProjectorNext ==
  \/ Fetch \/ Take \/ WriteRow \/ ReadItem \/ Annotate
  \/ InsertTransition \/ AdvancePointer \/ PublishStage \/ MarkProcessed
  \/ EndBatch \/ ReadStatus \/ CountItems \/ WriteStatus
UserNext == RetryReads \/ RetryWrites \/ RetryBumps \/ CancelReads \/ CancelWrites \/ CancelSets

Next == \/ ProjectorNext \/ MarkFails \/ FetchFails \/ RollupFails \/ UserNext \/ Crash
        \/ \E k \in Kinds : InsertEvent(k)

Spec == Init /\ [][Next]_vars

\* The projector's goroutine keeps running.
FairSpec == Spec /\ WF_vars(ProjectorNext)

(* Properties --------------------------------------------------------------*)

TypeOK ==
  /\ log \in Seq(Kinds) /\ Len(log) <= MaxEvents /\ marked \subseteq DOMAIN log
  /\ item \in Item({NoError}) /\ item.cycle <= 1 + MaxRetries
  /\ row \in {"grabbed", "downloaded", "failed", "canceled"}
  /\ status \in {"active", "completed", "canceled"} /\ told \subseteq item.hist
  /\ pc \in {"wait", "next", "row", "read", "insert", "advance", "publish", "mark",
             "flush", "count", "write"}
  /\ batch \subseteq DOMAIN log \ marked /\ full \in BOOLEAN
  /\ d \in {"grabbed", "downloaded", "failed", "canceled"}
  /\ c \in 0..item.cycle /\ fresh \in BOOLEAN /\ touched \in BOOLEAN /\ missed \in BOOLEAN
  /\ seen \in {"active", "completed", "canceled"} /\ next \in {"active", "completed"}
  /\ rt \in {"no", "row", "bump"} /\ cn \in {"no", "row", "set", "done"}
  /\ retries \in 0..MaxRetries /\ faults \in 0..MaxFaults /\ crashes \in 0..faults

Quiet == pc = "wait" /\ marked = DOMAIN log

\* The drain keeps what EventLog promises: no event is overtaken, none is done
\* with before what it says is on record, and nothing else gets there.
Says == [k \in Kinds |-> CASE k = "ready"     -> {"downloaded"}
                           [] k = "available" -> {"available"}
                           [] k = "failed"    -> {}]
Own == [k \in Kinds |-> IF k = "available" THEN Nat ELSE {Link}]
Log == INSTANCE EventLog WITH done <- marked, attempt <- item.cycle, record <- item.hist
KeepsLog == Log!Spec

\* What an event says is on record once it is marked, in an attempt that had
\* begun; and a job's only in the attempt its download was grabbed for, though
\* the user may begin another between the read and the write.
OwnAttempt ==
  /\ \A i \in marked : log[i] # "failed" =>
       \E a \in 1..item.cycle : <<a, IF log[i] = "ready" THEN "downloaded" ELSE "available">> \in item.hist
  /\ \A h \in item.hist : h[2] = "downloaded" => h[1] = Link

\* The stage shown is the furthest of the current attempt whenever the log is
\* drained: a crash between the two statements of ApplyStage is made good.
PointerCatchesUp == Quiet => item.stage = Furthest(item.hist, item.cycle)

\* The rollup says completed when a movie is available and the log is drained,
\* unless a crash came between the record and the rollup, or the rollup failed.
CompletionReported == Quiet /\ ~missed /\ Reached(item, "available") => status # "active"

\* A crash loses the OnStage call of at most one transition, a replay makes
\* none again, and nothing else loses one.
InHand == {h \in item.hist : pc \in {"advance", "publish"} /\ fresh /\ h = <<c, Stage>>}
OneHookPerCrash == Cardinality(item.hist \ (told \union InHand)) <= crashes

\* What a Cancel or a Retry has written is written over by none who reads after
\* it: only by a rollup or a handler that was between its read and its write.
RollupHasRead  == pc \in {"count", "write"}
HandlerHasRead == pc = "row" /\ d \notin Terminal
OnlyStaleReadsOverwrite ==
  [][/\ status = "canceled" /\ ~RollupHasRead => status' = "canceled" /\ ~RollupHasRead'
     /\ row \in Terminal /\ ~HandlerHasRead => row' \in Terminal /\ ~HandlerHasRead']_vars

\* Every event is taken up in the end, through failures and crashes.
EventsProcessed == \A i \in 1..MaxEvents : i \in DOMAIN log ~> i \in marked

(* What the sources say of the drain and it does not do --------------------*)

\* requests.go:122-124: canceled is set explicitly, "never derived".  But the
\* rollup may write over a cancellation that came after it read the status.
CanceledSticks == [][status = "canceled" => status' = "canceled"]_status

\* arrarr.go:70-71: "Only advance the download state -- never regress it".  But a
\* download given up between the read and the write is revived.
TerminalRowsStay == [][(row \in Terminal) => (row' \in Terminal)]_row
=============================================================================
