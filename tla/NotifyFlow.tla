----------------------------- MODULE NotifyFlow -----------------------------
(***************************************************************************)
(* The completion notice of one request (backend/internal/flow): the       *)
(* projector goroutine enqueues a durable task when an item reaches the    *)
(* notify stage, the controller goroutine claims it, sends one grouped     *)
(* message and records a "notified" event, which the projector applies.    *)
(* Both go statement by statement over the one database connection, so     *)
(* every store call and the network call are steps of their own; a user    *)
(* may queue the notice again, an attempt may begin, the process may die.  *)
(*                                                                         *)
(* Delays (60 s before a send, 2 min before another try, 30 min between    *)
(* revivals) are not modelled: a due task may wait for any time, a step    *)
(* may take any time.  Requests have disjoint tasks, keys and messages;    *)
(* one is modelled.                                                        *)
(***************************************************************************)
EXTENDS MediaItem, Sequences, FiniteSets

CONSTANTS Items,        (* the items of the request                        *)
          NotifyStage,  (* setting notify_stage                            *)
          ReportStages, (* the stages the other services report            *)
          Slots,        (* bound on the live rows of flow_tasks            *)
          MaxAttempts,  (* const maxAttempts                               *)
          Faults,       (* what can go wrong, of AllFaults                 *)
          MaxCycle,     (* bounds on the attempts of the items             *)
          MaxEvents,    (* bound on the unprocessed "notified" events      *)
          MaxMishaps    (* bound on the crashes and failed store calls     *)

AllFaults == {"error",    (* the notifier refuses or cannot be reached     *)
              "timeout",  (* it delivers, and the answer is lost           *)
              "insert"}   (* three inserts of the event fail in a row      *)

ASSUME StagesAssumption ==
  /\ ReportStages \subseteq StageKeys \ {"notified"}
  /\ NotifyStage \in ReportStages
ASSUME FlowAssumption ==
  /\ Slots \in Nat \ {0} /\ MaxAttempts \in Nat \ {0}
  /\ Faults \subseteq AllFaults
  /\ MaxCycle \in [Items -> Nat] /\ MaxEvents \in Nat /\ MaxMishaps \in Nat

VARIABLES item,      (* rows of media_items and stage_transitions          *)
          events,    (* "notified" events not processed, as sets of items  *)
          left,      (* applyNotified: items still to advance              *)
          owed,      (* apply: committed, OnStageApplied not yet called    *)
          task,      (* flow_tasks, finished rows freed                    *)
          pc,        (* where the controller is                            *)
          todo,      (* drain, reviveDeadNotifies: the listed tasks        *)
          cur,       (* the one at hand                                    *)
          pending,   (* execNotify: pending (and sent, the same items)     *)
          toSend,    (* execNotify: toSend                                 *)
          delivered, (* the messages sent, by idempotency key              *)
          mishaps    (* crashes, and store calls that failed, so far       *)

projVars == <<events, left, owed>>
execVars == <<pending, toSend>>
ctlVars  == <<pc, todo, cur, execVars>>
vars     == <<item, projVars, task, ctlVars, delivered, mishaps>>

Tasks == 1..Slots
Free  == [st |-> "free",    keyed |-> FALSE, attempts |-> 0]
Due   == [st |-> "pending", keyed |-> TRUE,  attempts |-> 0]
In(st) == {t \in Tasks : task[t].st = st}
First(S) == CHOOSE t \in S : \A u \in S : t <= u

Init ==
  /\ item = [i \in Items |-> NewItem]
  /\ events = <<>> /\ left = {} /\ owed = FALSE
  /\ task = [t \in Tasks |-> Free]
  /\ pc = "idle" /\ todo = {} /\ cur = 0 /\ pending = {} /\ toSend = {}
  /\ delivered = {} /\ mishaps = 0

(* flow_tasks --------------------------------------------------------------*)

\* EnqueueFlowTask: INSERT OR IGNORE under the request's dedupe key.
Enqueue ==
  IF \E t \in Tasks : task[t].keyed THEN UNCHANGED task
  ELSE In("free") # {} /\ task' = [task EXCEPT ![First(In("free"))] = Due]

\* The bound on live tasks stops what would enqueue, before the table is full.
Room == ~owed /\ Cardinality(In("free")) > 2

\* A crash, or a statement that fails.
Mishap == mishaps < MaxMishaps /\ mishaps' = mishaps + 1

(* The projector -----------------------------------------------------------*)

ProjectorFree == ~owed /\ left = {}

\* apply(), up to the commit of ApplyStage.
Enter(i, s) ==
  /\ ProjectorFree /\ Room
  /\ item' = [item EXCEPT ![i] = ApplyStage(@, @.cycle, s)]
  /\ owed' = (s = NotifyStage /\ Applies(item[i], item[i].cycle, s))
  /\ UNCHANGED <<events, left, task, ctlVars, delivered, mishaps>>

\* apply(), publishStage: the call of OnStageApplied.
OnStageApplied ==
  /\ owed /\ owed' = FALSE
  /\ Enqueue
  /\ UNCHANGED <<item, events, left, ctlVars, delivered, mishaps>>

\* An insert that fails is ignored.
OnStageAppliedFails ==
  /\ owed /\ owed' = FALSE
  /\ Mishap
  /\ UNCHANGED <<item, events, left, task, ctlVars, delivered>>

\* applyNotified takes up an event, and advances its items one by one; the
\* event is marked processed after the last.
TakeNotified ==
  /\ ProjectorFree /\ events # <<>>
  /\ left' = Head(events)
  /\ UNCHANGED <<item, events, owed, task, ctlVars, delivered, mishaps>>
ApplyNotified(i) ==
  /\ i \in left
  /\ item' = [item EXCEPT ![i] = ApplyStage(@, @.cycle, "notified")]
  /\ left' = left \ {i}
  /\ events' = IF left' = {} THEN Tail(events) ELSE events
  /\ UNCHANGED <<owed, task, ctlVars, delivered, mishaps>>

(* Another attempt, a resend -----------------------------------------------*)

\* A re-grab (projector) or a retry (user) begins an attempt.
NextAttempt(i) ==
  /\ item[i].cycle < MaxCycle[i]
  /\ item' = [item EXCEPT ![i] = BumpItemCycle(@)]
  /\ UNCHANGED <<projVars, task, ctlVars, delivered, mishaps>>

ResendNotify ==
  /\ Room /\ Enqueue
  /\ UNCHANGED <<item, projVars, ctlVars, delivered, mishaps>>

(* The controller: drain and execNotify ------------------------------------*)

Claim ==
  /\ pc = "idle" /\ In("pending") # {}
  /\ todo' = In("pending") /\ pc' = "next"
  /\ UNCHANGED <<item, projVars, task, cur, execVars, delivered, mishaps>>

At(i) == item[i].stage = NotifyStage

\* ListItemsForRequest.
List(t) ==
  /\ pc = "next" /\ t \in todo
  /\ cur' = t /\ todo' = todo \ {t}
  /\ pending' = {i \in Items : At(i)}
  /\ pc' = IF pending' = {} THEN "done" ELSE "listed"
  /\ UNCHANGED <<item, projVars, task, toSend, delivered, mishaps>>

\* GetRequest fails, which is taken for a request that is gone: the task is done.
RequestUnread(t) ==
  /\ pc = "next" /\ t \in todo /\ Mishap
  /\ cur' = t /\ todo' = todo \ {t} /\ pc' = "gone"
  /\ UNCHANGED <<item, projVars, task, execVars, delivered>>

\* ListItemsForRequest or NotifiedItemIDs fails, and with it the task.
ItemsUnread(t) ==
  /\ pc = "next" /\ t \in todo /\ Mishap
  /\ cur' = t /\ todo' = todo \ {t} /\ pc' = "failed"
  /\ UNCHANGED <<item, projVars, task, execVars, delivered>>

\* Mutant: only a notice of this attempt counts as one.
NotifiedThisCycle == {i \in Items : <<item[i].cycle, "notified">> \in item[i].hist}
\* NotifiedItemIDs, in any attempt.
NotifiedItemIDs == {i \in Items : \E h \in item[i].hist : h[2] = "notified"}

Select ==
  /\ pc = "listed"
  /\ toSend' = pending \ NotifiedItemIDs
  /\ pc' = IF toSend' = {} THEN "record" ELSE "send"
  /\ UNCHANGED <<item, projVars, task, todo, cur, pending, delivered, mishaps>>

\* SendNotification.  The idempotency key is made of the items, so a message
\* about the same items is the same message.
Send ==
  /\ pc = "send"
  /\ delivered' = delivered \union {toSend}
  /\ pc' = "record"
  /\ UNCHANGED <<item, projVars, task, todo, cur, execVars, mishaps>>

\* Mutant: a failed send is recorded like any other.
SendFailsUnnoticed ==
  /\ pc = "send" /\ "error" \in Faults
  /\ pc' = "record"
  /\ UNCHANGED <<item, projVars, task, todo, cur, execVars, delivered, mishaps>>
SendFails ==
  /\ pc = "send" /\ "error" \in Faults
  /\ pc' = "failed"
  /\ UNCHANGED <<item, projVars, task, todo, cur, execVars, delivered, mishaps>>

SendTimesOut ==
  /\ pc = "send" /\ "timeout" \in Faults
  /\ delivered' = delivered \union {toSend}
  /\ pc' = "failed"
  /\ UNCHANGED <<item, projVars, task, todo, cur, execVars, mishaps>>

\* InsertEvent, up to three times.
Record ==
  /\ pc = "record"
  /\ \/ Len(events) < MaxEvents /\ events' = Append(events, pending)
     \/ "insert" \in Faults /\ UNCHANGED events
  /\ pc' = "recheck"
  /\ UNCHANGED <<item, left, owed, task, todo, cur, execVars, delivered, mishaps>>

\* The items are listed again; a straggler has the key released (either may
\* fail, which is ignored)...
Recheck ==
  /\ pc = "recheck"
  /\ \/ /\ \E i \in Items \ pending : At(i)
        /\ pc' = "requeue" /\ task' = [task EXCEPT ![cur].keyed = FALSE]
        /\ UNCHANGED mishaps
     \/ /\ IF \A i \in Items \ pending : ~At(i) THEN UNCHANGED mishaps ELSE Mishap
        /\ pc' = "done" /\ UNCHANGED task
  /\ UNCHANGED <<item, projVars, todo, cur, execVars, delivered>>
\* ...and a task of its own.
Requeue ==
  /\ pc = "requeue" /\ pc' = "done"
  /\ (Enqueue /\ UNCHANGED mishaps) \/ (Mishap /\ UNCHANGED task)
  /\ UNCHANGED <<item, projVars, todo, cur, execVars, delivered>>

\* Back in drain: what becomes of the task at hand.
Return(row) ==
  /\ task' = [task EXCEPT ![cur] = row]
  /\ pc' = IF todo = {} THEN "idle" ELSE "next"
  /\ cur' = 0 /\ pending' = {} /\ toSend' = {}
  /\ UNCHANGED <<item, projVars, todo, delivered, mishaps>>

Finish == pc \in {"done", "gone"} /\ Return(Free)

Exhausted(row) == row.attempts + 1 >= MaxAttempts
\* Mutant: an exhausted notice is dropped, as any other task is.
Dropped(row) == Free
\* Mutant: a dead task keeps the key.
DeadKeyed(row) == [st |-> "dead", keyed |-> TRUE, attempts |-> row.attempts]
\* FinishFlowTask with statusDead.
Dead(row) == [st |-> "dead", keyed |-> FALSE, attempts |-> row.attempts]

Fail ==
  /\ pc = "failed"
  /\ Return(IF Exhausted(task[cur]) THEN Dead(task[cur])
            ELSE [task[cur] EXCEPT !.attempts = @ + 1])

(* The controller: reviveDeadNotifies --------------------------------------*)

\* The notifier reports up; dead tasks are listed.
Revive ==
  /\ pc = "idle" /\ In("dead") # {}
  /\ todo' = In("dead") /\ pc' = "revive"
  /\ UNCHANGED <<item, projVars, task, cur, execVars, delivered, mishaps>>
\* A fresh task for the request, unless one is pending...
Reenqueue(t) ==
  /\ pc = "revive" /\ t \in todo
  /\ Enqueue
  /\ cur' = t /\ todo' = todo \ {t} /\ pc' = "revived"
  /\ UNCHANGED <<item, projVars, execVars, delivered, mishaps>>
\* (an insert that fails leaves the dead one for the next revival)...
ReenqueueFails(t) ==
  /\ pc = "revive" /\ t \in todo /\ Mishap
  /\ todo' = todo \ {t}
  /\ pc' = IF todo' = {} THEN "idle" ELSE "revive"
  /\ UNCHANGED <<item, projVars, task, cur, execVars, delivered>>
\* ...and the dead one is done with.
MarkRevived ==
  /\ pc = "revived"
  /\ task' = [task EXCEPT ![cur] = Free]
  /\ pc' = IF todo = {} THEN "idle" ELSE "revive"
  /\ cur' = 0
  /\ UNCHANGED <<item, projVars, todo, execVars, delivered, mishaps>>

\* The process dies and starts again: the tables and the messages stay.
Crash ==
  /\ Mishap
  /\ left' = {} /\ owed' = FALSE
  /\ pc' = "idle" /\ todo' = {} /\ cur' = 0 /\ pending' = {} /\ toSend' = {}
  /\ UNCHANGED <<item, events, task, delivered>>

(***************************************************************************)

ReportNext    == \E i \in Items : NextAttempt(i) \/ \E s \in ReportStages : Enter(i, s)
ProjectorNext == \/ OnStageApplied \/ OnStageAppliedFails \/ TakeNotified
                 \/ \E i \in Items : ApplyNotified(i)
ExecNext      == \/ Select \/ SendFails \/ SendTimesOut \/ Record \/ Recheck
                 \/ Requeue \/ Finish \/ Fail
                 \/ \E t \in Tasks : List(t) \/ RequestUnread(t) \/ ItemsUnread(t)
ReenqueueNext == \E t \in Tasks : Reenqueue(t)
ReviveNext    == \/ Revive \/ MarkRevived \/ ReenqueueNext
                 \/ \E t \in Tasks : ReenqueueFails(t)
ControllerNext == Claim \/ Send \/ ExecNext \/ ReviveNext

Next == ReportNext \/ ProjectorNext \/ ControllerNext \/ ResendNotify \/ Crash

Spec == Init /\ [][Next]_vars

\* Both goroutines keep running; a notifier that is tried again and again
\* accepts a message again and again; the loop sweeps between drains.
FairSpec ==
  /\ Spec
  /\ WF_vars(ProjectorNext) /\ WF_vars(ControllerNext)
  /\ SF_vars(Send) /\ SF_vars(Claim) /\ SF_vars(Revive)

(* Properties --------------------------------------------------------------*)

TypeOK ==
  /\ item \in [Items -> Item({NoError})]
  /\ events \in Seq((SUBSET Items) \ {{}}) /\ left \subseteq Items /\ owed \in BOOLEAN
  /\ task \in [Tasks -> [st : {"free", "pending", "dead"}, keyed : BOOLEAN,
                         attempts : 0..(MaxAttempts - 1)]]
  /\ pc \in {"idle", "next", "listed", "send", "record", "recheck", "requeue",
             "done", "gone", "failed", "revive", "revived"}
  /\ todo \subseteq Tasks /\ cur \in Tasks \union {0}
  /\ pending \subseteq Items /\ toSend \subseteq pending
  /\ delivered \subseteq SUBSET Items /\ mishaps \in 0..MaxMishaps

EverNotified(i) == \E h \in item[i].hist : h[2] = "notified"
Announced(i)    == \E M \in delivered : i \in M

\* No item is shown as notified unless a message about it went out, through
\* refused messages, retries, revivals, later attempts and crashes.
RecordedWasDelivered == \A i \in Items : EverNotified(i) => Announced(i)

\* An item on record as notified is in no message that is not already under
\* way: no retry, upgrade, revival, resend or crash announces it again.
KeepsQuiet ==
  \A i \in Items :
    EverNotified(i) /\ i \notin toSend
      => i \notin toSend' /\ \A M \in delivered' \ delivered : i \notin M
QuietOnceRecorded == [][KeepsQuiet]_vars

\* A notice that is queued, or parked as dead, arrives: an item that is at the
\* notify stage before its task is run is announced, or leaves the stage, or
\* the request cannot be read when the task is run.
Waiting == \E t \in Tasks : task[t].st # "free" /\ (t # cur \/ pc = "revived")
QueuedNoticeArrives ==
  \A i \in Items : At(i) /\ Waiting ~> Announced(i) \/ ~At(i) \/ pc = "gone"

\* A notice is dropped by nothing but a failed read of its request.  An item at
\* the notify stage that a task still to be run will find stays served, through
\* refused messages, failed queries and inserts, dead letters, revivals and
\* crashes: by a task, by the one at hand, or by a message that went out.  And
\* the call of OnStageApplied serves it, unless a task is being run.
Served(i) == \/ Waiting \/ Announced(i)
             \/ cur # 0 /\ (i \in pending \/ pc = "failed")
KeepsNotice ==
  /\ \A i \in Items : At(i) /\ Served(i) => Served(i)' \/ pc' = "gone"
  /\ OnStageApplied /\ (cur = 0 \/ pc = "revived") => Waiting'
NoticeKept == [][KeepsNotice]_vars

(* What the sources say of the controller and it does not do ---------------*)

\* controller.go:264-266: stragglers of the send window are queued again, "so
\* they aren't lost".  When a message was sent and nothing is left to run,
\* nobody waits unannounced.
NothingLost ==
  /\ delivered # {}
  /\ pc = "idle" /\ ProjectorFree /\ events = <<>>
  /\ \A t \in Tasks : task[t].st = "free"
  => \A i \in Items : At(i) => Announced(i)

\* controller.go:185-187: a task whose request is not there is finished, "request
\* gone - nothing to do"; a request that merely could not be read is taken for
\* one, and its notice dropped.
DroppedOnlyUnneeded ==
  [][\A i \in Items : At(i) /\ Served(i) => Served(i)']_vars

\* controller.go:280-282: a retry after a timeout is "recognised by notifyarr
\* as the same message rather than sent twice".
AnnouncedOnce ==
  \A M, N \in delivered : M # N => M \intersect N = {}
=============================================================================
