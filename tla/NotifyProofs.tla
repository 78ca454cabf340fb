---------------------------- MODULE NotifyProofs ----------------------------
(***************************************************************************)
(* Proofs about NotifyFlow, for any number of items, tasks, attempts and   *)
(* crashes, and every combination of faults: what is recorded as notified  *)
(* was delivered, what is recorded is not announced again, and a queued    *)
(* notice is dropped by nothing but a failed read of its request.          *)
(***************************************************************************)
EXTENDS NotifyFlow, WellFoundedInduction, TLAPS

(* The inductive invariant -------------------------------------------------*)

\* The items that some message named.
Told == UNION delivered

\* The "notified" events that are written, and the one that is being applied,
\* name items that were announced.
EventsTold ==
  /\ events \in Seq(SUBSET Items)
  /\ \A n \in 1..Len(events) : events[n] \subseteq Told
  /\ left \subseteq Told
  /\ left # {} => events # <<>>

\* So does the one the controller is about to write: what it leaves out of
\* the message is on record already.
PendingTold ==
  /\ pending \subseteq Items
  /\ pc = "send" => pending \subseteq Told \union toSend
  /\ pc = "record" => pending \subseteq Told

RecordTold ==
  /\ item \in [Items -> Item({NoError})]
  /\ \A i \in Items : EverNotified(i) => i \in Told

IInv == EventsTold /\ PendingTold /\ RecordTold

(* What the writes do to the record ----------------------------------------*)

\* A stage other than "notified" puts no item on record, an attempt neither;
\* "notified" does.
LEMMA WriteFacts ==
  ASSUME NEW it \in Item({NoError}), NEW s \in StageKeys
  PROVE  /\ ApplyStage(it, it.cycle, s) \in Item({NoError})
         /\ ApplyStage(it, it.cycle, s).hist = it.hist \union {<<it.cycle, s>>}
         /\ BumpItemCycle(it) \in Item({NoError})
         /\ BumpItemCycle(it).hist = it.hist
<1>1. /\ it.cycle \in Nat \ {0} /\ it.stage \in StageKeys
      /\ it.hist \in SUBSET (Nat \X StageKeys) /\ it.err = NoError
  BY DEF Item
<1>2. "requested" \in StageKeys /\ it.cycle + 1 \in Nat \ {0}
  BY <1>1 DEF StageKeys
<1>3. /\ ApplyStage(it, it.cycle, s) \in Item({NoError})
      /\ ApplyStage(it, it.cycle, s).hist = it.hist \union {<<it.cycle, s>>}
  <2> DEFINE ahead == Ahead(it, it.cycle, s)
  <2>1. it.hist \union {<<it.cycle, s>>} \in SUBSET (Nat \X StageKeys)
    BY <1>1
  <2> HIDE DEF ahead
  <2>2. ApplyStage(it, it.cycle, s) =
          [it EXCEPT !.hist = @ \union {<<it.cycle, s>>}, !.cycle = @,
                     !.stage = IF ahead THEN s ELSE @]
    BY DEF ApplyStage, ahead
  <2> QED
    BY <1>1, <2>1, <2>2 DEF Item
<1>4. /\ BumpItemCycle(it) \in Item({NoError})
      /\ BumpItemCycle(it).hist = it.hist
  BY <1>1, <1>2 DEF BumpItemCycle, Item
<1> QED
  BY <1>3, <1>4

LEMMA ReportStagesFacts ==
  /\ ReportStages \subseteq StageKeys /\ "notified" \notin ReportStages
  /\ "notified" \in StageKeys
BY StagesAssumption DEF StageKeys

(* Every step keeps the invariant ------------------------------------------*)

LEMMA InitInv == Init => IInv
<1> SUFFICES ASSUME Init PROVE IInv
  OBVIOUS
<1>1. NewItem \in Item({NoError}) /\ NewItem.hist = {}
  BY DEF NewItem, Item, StageKeys
<1>2. EventsTold
  BY DEF Init, EventsTold
<1>3. PendingTold
  BY DEF Init, PendingTold
<1>4. RecordTold
  BY <1>1 DEF Init, RecordTold, EverNotified
<1> QED
  BY <1>2, <1>3, <1>4 DEF IInv

\* A message that is sent, or a stage that is not "notified", disturbs nothing.
LEMMA EnterKeeps ==
  ASSUME IInv, NEW i \in Items, NEW s \in ReportStages, Enter(i, s)
  PROVE  IInv'
<1>1. item[i] \in Item({NoError}) /\ s \in StageKeys /\ s # "notified"
  BY ReportStagesFacts DEF IInv, RecordTold
<1>2. /\ item'[i] \in Item({NoError})
      /\ item'[i].hist = item[i].hist \union {<<item[i].cycle, s>>}
      /\ \A j \in Items \ {i} : item'[j] = item[j]
      /\ item' \in [Items -> Item({NoError})]
  BY <1>1, WriteFacts DEF Enter, IInv, RecordTold
<1>3. Told' = Told
  BY DEF Enter, Told
<1>4. \A j \in Items : EverNotified(j)' => EverNotified(j)
  BY <1>1, <1>2 DEF EverNotified
<1>5. RecordTold'
  BY <1>2, <1>3, <1>4 DEF IInv, RecordTold
<1>6. EventsTold' /\ PendingTold'
  BY <1>3 DEF IInv, EventsTold, PendingTold, Enter, ctlVars, execVars
<1> QED
  BY <1>5, <1>6 DEF IInv

LEMMA NextAttemptKeeps ==
  ASSUME IInv, NEW i \in Items, NextAttempt(i)
  PROVE  IInv'
<1>1. item[i] \in Item({NoError}) /\ "notified" \in StageKeys
  BY ReportStagesFacts DEF IInv, RecordTold
<1>2. /\ item'[i] \in Item({NoError})
      /\ item'[i].hist = item[i].hist
      /\ \A j \in Items \ {i} : item'[j] = item[j]
      /\ item' \in [Items -> Item({NoError})]
  BY <1>1, WriteFacts DEF NextAttempt, IInv, RecordTold
<1>3. Told' = Told
  BY DEF NextAttempt, Told
<1>4. \A j \in Items : EverNotified(j)' => EverNotified(j)
  BY <1>2 DEF EverNotified
<1>5. RecordTold'
  BY <1>2, <1>3, <1>4 DEF IInv, RecordTold
<1>6. EventsTold' /\ PendingTold'
  BY <1>3 DEF IInv, EventsTold, PendingTold, NextAttempt, projVars, ctlVars, execVars
<1> QED
  BY <1>5, <1>6 DEF IInv

\* The projector takes up an event, and advances an item of it.
LEMMA TakeNotifiedKeeps ==
  ASSUME IInv, TakeNotified
  PROVE  IInv'
<1>1. Told' = Told /\ events' = events /\ item' = item
  BY DEF TakeNotified, Told
<1>2. left' \subseteq Told
  <2>1. Head(events) = events[1] /\ 1 \in 1..Len(events)
    BY DEF TakeNotified, IInv, EventsTold
  <2> QED
    BY <2>1 DEF TakeNotified, IInv, EventsTold
<1>3. EventsTold'
  BY <1>1, <1>2 DEF IInv, EventsTold, TakeNotified
<1>4. PendingTold' /\ RecordTold'
  BY <1>1 DEF IInv, PendingTold, RecordTold, EverNotified, TakeNotified,
              ctlVars, execVars
<1> QED
  BY <1>3, <1>4 DEF IInv

LEMMA ApplyNotifiedKeeps ==
  ASSUME IInv, NEW i \in Items, ApplyNotified(i)
  PROVE  IInv'
<1>1. item[i] \in Item({NoError}) /\ "notified" \in StageKeys
  BY ReportStagesFacts DEF IInv, RecordTold
<1>2. /\ item'[i] \in Item({NoError})
      /\ \A j \in Items \ {i} : item'[j] = item[j]
      /\ item' \in [Items -> Item({NoError})]
  BY <1>1, WriteFacts DEF ApplyNotified, IInv, RecordTold
<1>3. Told' = Told /\ i \in Told /\ left' \subseteq left
  BY DEF ApplyNotified, Told, IInv, EventsTold
<1>4. \A j \in Items : EverNotified(j)' => EverNotified(j) \/ j = i
  BY <1>2 DEF EverNotified
<1>5. RecordTold'
  BY <1>2, <1>3, <1>4 DEF IInv, RecordTold
<1>6. EventsTold'
  <2>1. CASE events' = events
    BY <1>3, <2>1 DEF IInv, EventsTold
  <2>2. CASE left' = {} /\ events' = Tail(events)
    <3>0. events # <<>>
      BY DEF IInv, EventsTold, ApplyNotified
    <3>1. /\ events' \in Seq(SUBSET Items) /\ Len(events') = Len(events) - 1
          /\ \A n \in 1..Len(events') : events'[n] = events[n + 1] /\ n + 1 \in 1..Len(events)
      BY <2>2, <3>0 DEF IInv, EventsTold
    <3> QED
      BY <1>3, <2>2, <3>1 DEF IInv, EventsTold
  <2> QED
    BY <2>1, <2>2 DEF ApplyNotified
<1>7. PendingTold'
  BY <1>3 DEF IInv, PendingTold, ApplyNotified, ctlVars, execVars
<1> QED
  BY <1>5, <1>6, <1>7 DEF IInv

\* The controller decides what to send, sends it, and writes the event.
LEMMA SelectKeeps ==
  ASSUME IInv, Select
  PROVE  IInv'
<1>1. Told' = Told /\ events' = events /\ left' = left /\ item' = item /\ pending' = pending
  BY DEF Select, Told, projVars
<1>2. ASSUME NEW i \in pending, i \in NotifiedItemIDs PROVE i \in Told
  BY <1>2 DEF NotifiedItemIDs, IInv, RecordTold, EverNotified
<1>3. PendingTold'
  <2>1. pending \subseteq Told \union toSend'
    BY <1>2 DEF Select
  <2>2. pc' = "record" => toSend' = {}
    BY DEF Select
  <2> QED
    BY <1>1, <2>1, <2>2 DEF Select, IInv, PendingTold
<1>4. EventsTold' /\ RecordTold'
  BY <1>1 DEF IInv, EventsTold, RecordTold, EverNotified
<1> QED
  BY <1>3, <1>4 DEF IInv

LEMMA SendKeeps ==
  ASSUME IInv, delivered' = delivered \union {toSend}, pc = "send",
         pc' \in {"record", "failed"},
         UNCHANGED <<item, projVars, task, todo, cur, execVars, mishaps>>
  PROVE  IInv'
<1>1. Told' = Told \union toSend
  BY DEF Told
<1>2. EventsTold'
  BY <1>1 DEF IInv, EventsTold, projVars
<1>3. PendingTold'
  BY <1>1 DEF IInv, PendingTold, execVars
<1>4. RecordTold'
  BY <1>1 DEF IInv, RecordTold, EverNotified
<1> QED
  BY <1>2, <1>3, <1>4 DEF IInv

LEMMA RecordKeeps ==
  ASSUME IInv, Record
  PROVE  IInv'
<1>1. Told' = Told /\ left' = left /\ item' = item /\ pc = "record" /\ pc' = "recheck"
  BY DEF Record, Told
<1>2. EventsTold'
  <2>1. CASE events' = events
    BY <1>1, <2>1 DEF IInv, EventsTold
  <2>2. CASE events' = Append(events, pending)
    <3>1. /\ events' \in Seq(SUBSET Items) /\ Len(events') = Len(events) + 1
          /\ \A n \in 1..Len(events') :
               events'[n] = IF n \in 1..Len(events) THEN events[n] ELSE pending
      BY <2>2 DEF IInv, EventsTold, PendingTold
    <3> QED
      BY <1>1, <3>1 DEF IInv, EventsTold, PendingTold
  <2> QED
    BY <2>1, <2>2 DEF Record
<1>3. PendingTold' /\ RecordTold'
  BY <1>1 DEF IInv, PendingTold, RecordTold, EverNotified, Record, execVars
<1> QED
  BY <1>2, <1>3 DEF IInv

\* List takes a snapshot of the items.
LEMMA ListKeeps ==
  ASSUME IInv, NEW t \in Tasks, List(t)
  PROVE  IInv'
<1>1. /\ Told' = Told /\ events' = events /\ left' = left /\ item' = item
      /\ pending' \subseteq Items /\ pc' \in {"done", "listed"}
  BY DEF List, Told, projVars
<1> QED
  BY <1>1 DEF IInv, EventsTold, PendingTold, RecordTold, EverNotified

\* The other steps touch neither record nor messages, and lead to no send.
Elsewhere ==
  /\ UNCHANGED <<item, events, delivered>>
  /\ left' = left \/ left' = {}
  /\ pending' = pending \/ pending' = {}
  /\ (pc' = pc /\ UNCHANGED execVars) \/ pc' \notin {"send", "record"}

LEMMA ElsewhereKeeps ==
  ASSUME IInv, Elsewhere
  PROVE  IInv'
<1>1. Told' = Told
  BY DEF Elsewhere, Told
<1> QED
  BY <1>1 DEF IInv, EventsTold, PendingTold, RecordTold, EverNotified,
              Elsewhere, execVars

LEMMA StepKeeps ==
  ASSUME IInv, [Next]_vars
  PROVE  IInv'
<1>1. CASE ReportNext
  BY <1>1, EnterKeeps, NextAttemptKeeps DEF ReportNext
<1>2. CASE ProjectorNext
  <2>1. ASSUME OnStageApplied PROVE Elsewhere
    BY <2>1 DEF OnStageApplied, Elsewhere, ctlVars, execVars
  <2>2. ASSUME OnStageAppliedFails PROVE Elsewhere
    BY <2>2 DEF OnStageAppliedFails, Elsewhere, ctlVars, execVars
  <2> QED
    BY <1>2, <2>1, <2>2, ElsewhereKeeps, TakeNotifiedKeeps, ApplyNotifiedKeeps
       DEF ProjectorNext
<1>3. CASE Send \/ SendTimesOut
  BY <1>3, SendKeeps DEF Send, SendTimesOut
<1>4. CASE Select \/ Record \/ \E t \in Tasks : List(t)
  BY <1>4, SelectKeeps, RecordKeeps, ListKeeps
<1>5. ASSUME NEW row, Return(row) PROVE Elsewhere
  BY <1>5 DEF Return, Elsewhere, projVars
<1>6. CASE SendFails \/ Recheck \/ Requeue \/ Finish \/ Fail
  <2>1. CASE SendFails \/ Recheck \/ Requeue
    BY <2>1, ElsewhereKeeps DEF SendFails, Recheck, Requeue, Elsewhere, projVars,
                               execVars
  <2>2. CASE Finish \/ Fail
    BY <1>5, <2>2, ElsewhereKeeps DEF Finish, Fail
  <2> QED
    BY <1>6, <2>1, <2>2
<1>7. CASE Claim \/ ReviveNext \/ ResendNotify \/ Crash \/ UNCHANGED vars
  BY <1>7, ElsewhereKeeps
     DEF Claim, ReviveNext, Revive, ReenqueueNext, Reenqueue, ReenqueueFails,
         MarkRevived, ResendNotify, Crash, Elsewhere, vars, projVars, ctlVars, execVars
<1>8. CASE \E t \in Tasks : RequestUnread(t) \/ ItemsUnread(t)
  BY <1>8, ElsewhereKeeps
     DEF RequestUnread, ItemsUnread, Elsewhere, projVars, execVars
<1> QED
  BY <1>1, <1>2, <1>3, <1>4, <1>6, <1>7, <1>8 DEF Next, ControllerNext, ExecNext

LEMMA Inductive == Spec => []IInv
BY InitInv, StepKeeps, PTL DEF Spec

(* The types ---------------------------------------------------------------*)

\* Where the controller is tells what its locals hold: a task from the moment
\* one is listed, items as long as there is something to send or to write, and
\* nothing to send before the selection.
Places ==
  /\ pc \in {"listed", "send", "record", "recheck", "requeue", "done", "gone",
             "failed", "revived"} => cur \in Tasks
  /\ pc \in {"listed", "send", "record"} => pending # {}
  /\ pc \in {"idle", "next", "revive", "revived"} => toSend = {}

TaskRows == [st : {"free", "pending", "dead"}, keyed : BOOLEAN,
             attempts : 0..(MaxAttempts - 1)]
PlaceNames == {"idle", "next", "listed", "send", "record", "recheck", "requeue",
               "done", "gone", "failed", "revive", "revived"}
LocalsOK ==
  /\ pc \in PlaceNames /\ todo \subseteq Tasks /\ cur \in Tasks \union {0}
  /\ pending \subseteq Items /\ toSend \subseteq pending
  /\ Places
TasksOK == task \in [Tasks -> TaskRows]
TablesOK ==
  /\ events \in Seq((SUBSET Items) \ {{}}) /\ left \subseteq Items /\ owed \in BOOLEAN
  /\ delivered \subseteq SUBSET Items /\ mishaps \in 0..MaxMishaps

TInv == LocalsOK /\ TasksOK /\ TablesOK

LEMMA RowFacts == Free \in TaskRows /\ Due \in TaskRows
BY FlowAssumption DEF Free, Due, TaskRows

LEMMA EnqueueTyped ==
  ASSUME TasksOK, Enqueue
  PROVE  TasksOK'
BY RowFacts DEF TasksOK, Enqueue

LEMMA InitTyped == Init => TInv
<1> SUFFICES ASSUME Init PROVE TInv
  OBVIOUS
<1>1. LocalsOK
  BY DEF Init, LocalsOK, Places, PlaceNames
<1>2. TasksOK
  BY RowFacts DEF Init, TasksOK
<1>3. TablesOK
  <2>1. MaxMishaps \in Nat
    BY FlowAssumption
  <2>2. mishaps \in 0..MaxMishaps
    BY <2>1 DEF Init
  <2>3. owed \in BOOLEAN
    BY DEF Init
  <2> QED
    BY <2>2, <2>3 DEF Init, TablesOK
<1> QED
  BY <1>1, <1>2, <1>3 DEF TInv

\* The locals: only the controller and a crash move them.
LEMMA LocalsTyped ==
  ASSUME TInv, [Next]_vars
  PROVE  LocalsOK'
<1> USE DEF TInv, LocalsOK, Places, PlaceNames
<1>1. CASE UNCHANGED ctlVars
  BY <1>1 DEF ctlVars, execVars
<1>2. CASE Claim \/ Revive \/ Crash
  BY <1>2 DEF Claim, Revive, Crash, execVars, In
<1>3. ASSUME NEW t \in Tasks, List(t) \/ RequestUnread(t) \/ ItemsUnread(t)
      PROVE  LocalsOK'
  BY <1>3 DEF List, RequestUnread, ItemsUnread, execVars
<1>4. CASE Select
  BY <1>4 DEF Select
<1>5. CASE Send \/ SendFails \/ SendTimesOut
  BY <1>5 DEF Send, SendFails, SendTimesOut, execVars
<1>6. CASE Record \/ Recheck \/ Requeue
  BY <1>6 DEF Record, Recheck, Requeue, execVars
<1>7. ASSUME NEW row, Return(row) PROVE LocalsOK'
  BY <1>7 DEF Return
<1>8. CASE Finish \/ Fail
  BY <1>7, <1>8 DEF Finish, Fail
<1>9. ASSUME NEW t \in Tasks, Reenqueue(t) \/ ReenqueueFails(t) PROVE LocalsOK'
  BY <1>9 DEF Reenqueue, ReenqueueFails, execVars
<1>10. CASE MarkRevived
  BY <1>10 DEF MarkRevived, execVars
<1>11. CASE ReportNext \/ ProjectorNext \/ ResendNotify \/ UNCHANGED vars
  <2>1. UNCHANGED ctlVars
    BY <1>11 DEF ReportNext, Enter, NextAttempt, ProjectorNext, OnStageApplied,
                 OnStageAppliedFails, TakeNotified, ApplyNotified, ResendNotify, vars
  <2> QED
    BY <1>1, <2>1
<1> QED
  BY <1>2, <1>3, <1>4, <1>5, <1>6, <1>8, <1>9, <1>10, <1>11
     DEF Next, ControllerNext, ExecNext, ReviveNext, ReenqueueNext

\* The tasks: an exhausted one is parked before its attempts pass the limit.
LEMMA TasksTyped ==
  ASSUME TInv, [Next]_vars
  PROVE  TasksOK'
<1>1. CASE UNCHANGED task
  BY <1>1 DEF TInv, TasksOK
<1>2. CASE OnStageApplied \/ ResendNotify \/ Requeue \/ \E t \in Tasks : Reenqueue(t)
  BY <1>2, <1>1, EnqueueTyped DEF TInv, OnStageApplied, ResendNotify, Requeue, Reenqueue
<1>3. CASE Recheck
  BY <1>3 DEF TInv, TasksOK, TaskRows, Recheck
<1>4. CASE Finish \/ MarkRevived
  BY <1>4, RowFacts DEF TInv, TasksOK, Finish, Return, MarkRevived
<1>5. CASE Fail
  <2> DEFINE row == IF Exhausted(task[cur]) THEN Dead(task[cur])
                    ELSE [task[cur] EXCEPT !.attempts = @ + 1]
  <2>1. task[cur] \in TaskRows
    BY <1>5 DEF Fail, TInv, LocalsOK, Places, TasksOK
  <2>2. row \in TaskRows
    BY <2>1, FlowAssumption DEF TaskRows, Exhausted, Dead
  <2>3. task' = [task EXCEPT ![cur] = row]
    BY <1>5 DEF Fail, Return
  <2> QED
    BY <2>2, <2>3 DEF TInv, TasksOK
<1>6. CASE ReportNext \/ OnStageAppliedFails \/ Crash \/ UNCHANGED vars
  BY <1>1, <1>6 DEF ReportNext, Enter, NextAttempt, OnStageAppliedFails, Crash, vars
<1>7. CASE TakeNotified \/ \E i \in Items : ApplyNotified(i)
  BY <1>1, <1>7 DEF TakeNotified, ApplyNotified
<1>8. CASE Claim \/ Select \/ Send \/ SendFails \/ SendTimesOut \/ Record \/ Revive
           \/ \E t \in Tasks : List(t)
  BY <1>1, <1>8 DEF Claim, Select, Send, SendFails, SendTimesOut, Record, Revive, List
<1>9. CASE \E t \in Tasks : RequestUnread(t) \/ ItemsUnread(t) \/ ReenqueueFails(t)
  BY <1>1, <1>9 DEF RequestUnread, ItemsUnread, ReenqueueFails
<1> QED
  BY <1>2, <1>3, <1>4, <1>5, <1>6, <1>7, <1>8, <1>9
     DEF Next, ProjectorNext, ControllerNext, ExecNext, ReviveNext, ReenqueueNext

\* The other tables, and the projector's locals.
LEMMA TablesTyped ==
  ASSUME IInv, TInv, [Next]_vars
  PROVE  TablesOK'
<1>1. CASE UNCHANGED <<projVars, delivered, mishaps>>
  BY <1>1 DEF TInv, TablesOK, projVars
<1>2. ASSUME NEW i \in Items, NEW s \in ReportStages, Enter(i, s) PROVE TablesOK'
  BY <1>2 DEF TInv, TablesOK, Enter, Applies
<1>0. ASSUME Mishap PROVE mishaps' \in 0..MaxMishaps
  BY <1>0, FlowAssumption DEF Mishap, TInv, TablesOK
<1>3. CASE OnStageApplied \/ OnStageAppliedFails
  BY <1>0, <1>3 DEF TInv, TablesOK, OnStageApplied, OnStageAppliedFails
<1>4. CASE TakeNotified
  <2>1. Head(events) \in SUBSET Items
    BY <1>4 DEF TakeNotified, TInv, TablesOK
  <2> QED
    BY <1>4, <2>1 DEF TInv, TablesOK, TakeNotified
<1>5. ASSUME NEW i \in Items, ApplyNotified(i) PROVE TablesOK'
  <2>1. events # <<>>
    BY <1>5 DEF ApplyNotified, IInv, EventsTold
  <2>2. Tail(events) \in Seq((SUBSET Items) \ {{}})
    BY <2>1 DEF TInv, TablesOK
  <2> QED
    BY <1>5, <2>2 DEF TInv, TablesOK, ApplyNotified
<1>6. CASE Send \/ SendTimesOut
  BY <1>6 DEF TInv, TablesOK, LocalsOK, Send, SendTimesOut, projVars
<1>7. CASE Record
  <2>1. pending \in (SUBSET Items) \ {{}}
    BY <1>7 DEF Record, TInv, LocalsOK, Places
  <2>2. Append(events, pending) \in Seq((SUBSET Items) \ {{}})
    BY <2>1 DEF TInv, TablesOK
  <2> QED
    BY <1>7, <2>2 DEF TInv, TablesOK, Record
<1>8. CASE Crash
  <2>2. mishaps' \in 0..MaxMishaps
    BY <1>0, <1>8 DEF Crash
  <2>3. owed' \in BOOLEAN
    BY <1>8 DEF Crash
  <2> QED
    BY <1>8, <2>2, <2>3 DEF TInv, TablesOK, Crash
<1>9. ASSUME NEW row, Return(row) PROVE UNCHANGED <<projVars, delivered, mishaps>>
  BY <1>9 DEF Return
<1>10. CASE Finish \/ Fail
  BY <1>1, <1>9, <1>10 DEF Finish, Fail
<1>11. CASE \/ ResendNotify \/ Claim \/ Select \/ SendFails \/ Revive \/ ReenqueueNext
            \/ MarkRevived \/ (\E t \in Tasks : List(t)) \/ (\E i \in Items : NextAttempt(i))
            \/ UNCHANGED vars
  BY <1>1, <1>11 DEF ResendNotify, Claim, Select, SendFails, ReenqueueNext,
         Revive, Reenqueue, MarkRevived, List, NextAttempt, vars
\* What may fail counts when it does.
<1>12. ASSUME UNCHANGED <<projVars, delivered>>, Mishap \/ UNCHANGED mishaps
       PROVE  TablesOK'
  BY <1>0, <1>12 DEF TInv, TablesOK, projVars
<1>13. CASE \/ Recheck \/ Requeue
            \/ \E t \in Tasks : RequestUnread(t) \/ ItemsUnread(t) \/ ReenqueueFails(t)
  BY <1>12, <1>13 DEF Recheck, Requeue, RequestUnread, ItemsUnread, ReenqueueFails
<1> QED
  BY <1>2, <1>3, <1>4, <1>5, <1>6, <1>7, <1>8, <1>10, <1>11, <1>13
     DEF Next, ReportNext, ProjectorNext, ControllerNext, ExecNext, ReviveNext

(* Notices that are queued -------------------------------------------------*)

Running == {"listed", "send", "record", "recheck", "requeue", "done", "gone", "failed"}

\* What the controller may rely on of the tasks: the keyed one is pending, those
\* it listed are as it listed them, and the one at hand is none of them.  Before
\* a dead task is done with, another holds the key.
TasksTrue ==
  /\ \A t \in Tasks : task[t].keyed => task[t].st = "pending"
  /\ pc \in Running \union {"next"} => todo \subseteq In("pending")
  /\ pc \in {"revive", "revived"} => todo \subseteq In("dead")
  /\ pc \in Running \union {"revived"} => cur \notin todo
  /\ pc \in Running => task[cur].st = "pending"
  /\ pc = "revived" => task[cur].st = "dead" /\ \E u \in Tasks : task[u].keyed
  /\ pc \in {"idle", "next", "revive"} => cur = 0
  /\ pc \in {"idle", "next", "gone", "revive", "revived"} => pending = {}

\* What is about to be finished was announced.
DoneTold == pc \in {"record", "recheck", "requeue", "done"} => pending \subseteq Told

KInv == TasksTrue /\ DoneTold

\* A set of tasks has a first one.
LEMMA FirstIn ==
  ASSUME NEW S \in SUBSET Tasks, S # {}
  PROVE  First(S) \in S
<1> DEFINE R == {ss \in Nat \X Nat : ss[1] < ss[2]}
<1>1. IsWellFoundedOn(R, Nat)
  BY NatLessThanWellFounded, Zenon DEF OpToRel
<1>2. \A i, j \in Nat : <<j, i>> \notin R => i <= j
  OBVIOUS
<1>3. S \subseteq Nat
  BY FlowAssumption DEF Tasks
<1> HIDE DEF R
<1>4. PICK i \in S : \A j \in S : <<j, i>> \notin R
  BY <1>1, <1>3, WFMin, Zenon
<1>5. \A j \in S : i <= j
  BY <1>2, <1>3, <1>4
<1> QED
  BY <1>5 DEF First

\* Enqueue leaves the live tasks alone, and one holds the key when it is over.
LEMMA EnqueueFacts ==
  ASSUME TasksOK, Enqueue, \A t \in Tasks : task[t].keyed => task[t].st = "pending"
  PROVE  /\ \A t \in Tasks : task[t].st # "free" => task'[t] = task[t]
         /\ \A t \in Tasks : task'[t].keyed => task'[t].st = "pending"
         /\ \E u \in Tasks : task'[u].keyed
<1>1. CASE \E t \in Tasks : task[t].keyed
  BY <1>1 DEF Enqueue
<1>2. CASE ~\E t \in Tasks : task[t].keyed
  <2>1. /\ In("free") # {} /\ In("free") \subseteq Tasks
        /\ task' = [task EXCEPT ![First(In("free"))] = Due]
    BY <1>2 DEF Enqueue, In
  <2>2. First(In("free")) \in In("free")
    BY <2>1, FirstIn
  <2>3. Due.keyed /\ Due.st = "pending"
    BY DEF Due
  <2> QED
    BY <1>2, <2>1, <2>2, <2>3 DEF TasksOK, In
<1> QED
  BY <1>1, <1>2

\* The steps that touch no task and not the controller.
LEMMA ElsewhereTrue ==
  ASSUME KInv, UNCHANGED <<task, ctlVars, delivered>>
  PROVE  KInv'
BY DEF KInv, TasksTrue, DoneTold, Told, In, ctlVars, execVars

\* A task is enqueued beside the controller.
LEMMA EnqueueTrue ==
  ASSUME TInv, KInv, Enqueue, UNCHANGED <<ctlVars, delivered>>
  PROVE  KInv'
<1>1. /\ \A t \in Tasks : task[t].st # "free" => task'[t] = task[t]
      /\ \A t \in Tasks : task'[t].keyed => task'[t].st = "pending"
      /\ \E u \in Tasks : task'[u].keyed
  BY EnqueueFacts DEF TInv, KInv, TasksTrue
<1>2. In("pending") \subseteq In("pending")' /\ In("dead") \subseteq In("dead")'
  BY <1>1 DEF In
<1>3. pc \in Running \union {"revived"} => cur \in Tasks
  BY DEF TInv, LocalsOK, Places, Running
<1>4. TasksTrue'
  BY <1>1, <1>2, <1>3 DEF KInv, TasksTrue, Running, ctlVars, execVars
<1> QED
  BY <1>4 DEF KInv, DoneTold, Told, ctlVars, execVars

\* drain and execNotify.
LEMMA ExecTrue ==
  ASSUME IInv, IInv', TInv, KInv,
         Claim \/ Send \/ ExecNext
  PROVE  KInv'
<1> USE DEF KInv, TasksTrue, DoneTold, Told, Running
<1>c. pc \in Running => cur \in Tasks
  BY DEF TInv, LocalsOK, Places
<1>k. task \in [Tasks -> TaskRows] /\ todo \subseteq Tasks
  BY DEF TInv, TasksOK, LocalsOK
<1>1. CASE Claim
  BY <1>1 DEF Claim, In, execVars
<1>2. ASSUME NEW t \in Tasks, List(t) \/ RequestUnread(t) \/ ItemsUnread(t) PROVE KInv'
  BY <1>2 DEF List, RequestUnread, ItemsUnread, In, execVars
<1>3. CASE Select \/ Send \/ SendFails \/ SendTimesOut
  <2>1. pc' = "record" => pending' \subseteq Told'
    BY DEF IInv, PendingTold
  <2> QED
    BY <1>3, <2>1 DEF Select, Send, SendFails, SendTimesOut, In, execVars
<1>4. CASE Record
  BY <1>4 DEF Record, In, execVars
<1>5. CASE Recheck
  <2>1. /\ pc = "recheck" /\ pc' \in {"requeue", "done"}
        /\ UNCHANGED <<todo, cur, pending, delivered>>
        /\ \/ UNCHANGED task
           \/ task' = [task EXCEPT ![cur].keyed = FALSE]
    BY <1>5 DEF Recheck, execVars
  <2>2. \A t \in Tasks : task'[t].st = task[t].st /\ (task'[t].keyed => task[t].keyed)
    BY <2>1, <1>c, <1>k DEF TaskRows
  <2>3. In("pending")' = In("pending")
    BY <2>2 DEF In
  <2> QED
    BY <2>1, <2>2, <2>3, <1>c
<1>6. CASE Requeue
  <2>1. /\ pc = "requeue" /\ pc' = "done" /\ (Enqueue \/ UNCHANGED task)
        /\ UNCHANGED <<todo, cur, pending, delivered>>
    BY <1>6 DEF Requeue, execVars
  <2>2. /\ \A t \in Tasks : task[t].st # "free" => task'[t] = task[t]
        /\ \A t \in Tasks : task'[t].keyed => task'[t].st = "pending"
    BY <2>1, EnqueueFacts DEF TInv
  <2>3. In("pending") \subseteq In("pending")'
    BY <2>2 DEF In
  <2> QED
    BY <2>1, <2>2, <2>3, <1>c
<1>7. ASSUME NEW row \in TaskRows, Return(row), pc \in Running,
             row.keyed => row.st = "pending"
      PROVE  KInv'
  <2>1. /\ task' = [task EXCEPT ![cur] = row]
        /\ pc' \in {"idle", "next"} /\ cur' = 0 /\ pending' = {} /\ todo' = todo
    BY <1>7 DEF Return
  <2>2. \A t \in Tasks : task'[t] = IF t = cur THEN row ELSE task[t]
    BY <2>1, <1>k
  <2>3. todo' \subseteq In("pending")'
    BY <1>7, <1>k, <2>1, <2>2 DEF In
  <2> QED
    BY <1>7, <2>1, <2>2, <2>3
<1>8. CASE Finish
  <2>1. Free \in TaskRows /\ ~Free.keyed
    BY RowFacts DEF Free
  <2> QED
    BY <1>7, <1>8, <2>1 DEF Finish
<1>9. CASE Fail
  <2> DEFINE row == IF Exhausted(task[cur]) THEN Dead(task[cur])
                    ELSE [task[cur] EXCEPT !.attempts = @ + 1]
  <2>1. task[cur] \in TaskRows /\ (task[cur].keyed => task[cur].st = "pending")
    BY <1>9, <1>c, <1>k DEF Fail
  <2>2. row \in TaskRows /\ (row.keyed => row.st = "pending")
    BY <2>1, FlowAssumption DEF TaskRows, Exhausted, Dead
  <2>3. Return(row) /\ pc \in Running
    BY <1>9 DEF Fail
  <2> HIDE DEF row
  <2> QED
    BY <1>7, <2>2, <2>3
<1> QED
  BY <1>1, <1>2, <1>3, <1>4, <1>5, <1>6, <1>8, <1>9 DEF ExecNext

\* reviveDeadNotifies, and a crash.
LEMMA ReviveTrue ==
  ASSUME TInv, KInv, ReviveNext \/ Crash
  PROVE  KInv'
<1> USE DEF KInv, TasksTrue, DoneTold, Running
<1>k. task \in [Tasks -> TaskRows] /\ todo \subseteq Tasks
  BY DEF TInv, TasksOK, LocalsOK
<1>1. CASE Revive \/ Crash
  BY <1>1 DEF Revive, Crash, In, execVars
<1>2. ASSUME NEW t \in Tasks, Reenqueue(t) PROVE KInv'
  <2>1. /\ pc = "revive" /\ t \in todo /\ Enqueue
        /\ cur' = t /\ todo' = todo \ {t} /\ pc' = "revived" /\ pending' = pending
    BY <1>2 DEF Reenqueue, execVars
  <2>2. /\ \A u \in Tasks : task[u].st # "free" => task'[u] = task[u]
        /\ \A u \in Tasks : task'[u].keyed => task'[u].st = "pending"
        /\ \E u \in Tasks : task'[u].keyed
    BY <2>1, EnqueueFacts DEF TInv
  <2>3. In("dead") \subseteq In("dead")' /\ task'[t].st = "dead"
    BY <2>1, <2>2 DEF In
  <2> QED
    BY <2>1, <2>2, <2>3
<1>3. CASE MarkRevived
  <2>1. /\ pc = "revived" /\ task' = [task EXCEPT ![cur] = Free]
        /\ pc' \in {"idle", "revive"} /\ cur' = 0 /\ pending' = pending /\ todo' = todo
    BY <1>3 DEF MarkRevived, execVars
  <2>2. \A u \in Tasks : task'[u] = IF u = cur THEN Free ELSE task[u]
    BY <2>1, <1>k
  <2>3. ~Free.keyed
    BY DEF Free
  <2>4. todo' \subseteq In("dead")'
    BY <1>k, <2>1, <2>2 DEF In
  <2> QED
    BY <2>1, <2>2, <2>3, <2>4
<1>4. ASSUME NEW t \in Tasks, ReenqueueFails(t) PROVE KInv'
  BY <1>4 DEF ReenqueueFails, In, execVars, Told
<1> QED
  BY <1>1, <1>2, <1>3, <1>4 DEF ReviveNext, ReenqueueNext

LEMMA StepTrue ==
  ASSUME IInv, IInv', TInv, KInv, [Next]_vars
  PROVE  KInv'
<1>1. CASE \/ ReportNext \/ OnStageAppliedFails \/ TakeNotified
           \/ (\E i \in Items : ApplyNotified(i)) \/ UNCHANGED vars
  <2>1. UNCHANGED <<task, ctlVars, delivered>>
    BY <1>1 DEF ReportNext, Enter, NextAttempt, OnStageAppliedFails, TakeNotified,
                ApplyNotified, vars
  <2> QED
    BY <2>1, ElsewhereTrue
<1>2. CASE OnStageApplied \/ ResendNotify
  BY <1>2, EnqueueTrue DEF OnStageApplied, ResendNotify
<1> QED
  BY <1>1, <1>2, ExecTrue, ReviveTrue DEF Next, ProjectorNext, ControllerNext

\* An item that is served stays so, unless its request cannot be read.
LEMMA StepServes ==
  ASSUME IInv, TInv, KInv, [Next]_vars, NEW i \in Items, At(i), Served(i)
  PROVE  Served(i)' \/ pc' = "gone"
<1>k. task \in [Tasks -> TaskRows] /\ 0 \notin Tasks
  BY FlowAssumption DEF TInv, TasksOK, Tasks
<1>d. delivered \subseteq delivered'
  BY DEF Next, ReportNext, Enter, NextAttempt, ProjectorNext, OnStageApplied,
       OnStageAppliedFails, TakeNotified, ApplyNotified, ControllerNext, Claim, Send,
       ExecNext, List, RequestUnread, ItemsUnread, Select, SendFails, SendTimesOut, Record,
       Recheck, Requeue, Finish, Fail, Return, ReviveNext, Revive, ReenqueueNext, Reenqueue,
       ReenqueueFails, MarkRevived, ResendNotify, Crash, vars
<1>a. ASSUME Announced(i) PROVE Served(i)'
  BY <1>a, <1>d DEF Served, Announced
\* The tasks that live stay, and the controller with the one it has.
<1>b. ASSUME \A t \in Tasks : task[t].st # "free" => task'[t].st # "free",
             cur' = cur, pending' = pending, pc = "revived" <=> pc' = "revived",
             pc # "failed"
      PROVE  Served(i)'
  BY <1>a, <1>b DEF Served, Waiting
\* They stay, and the controller has none any more.
<1>z. ASSUME cur' = 0, \E t \in Tasks : task'[t].st # "free"
      PROVE  Served(i)'
  BY <1>z, <1>k DEF Served, Waiting
<1>r. pc \in Running \/ pending = {}
  BY DEF TInv, LocalsOK, PlaceNames, KInv, TasksTrue, Running
<1>c. pc \in Running \union {"revived"} => cur \in Tasks
  BY DEF TInv, LocalsOK, Places, Running
<1>0. ASSUME \A t \in Tasks : task[t].st # "free" => task'[t].st # "free", UNCHANGED ctlVars
      PROVE  Served(i)'
  BY <1>a, <1>0 DEF Served, Waiting, ctlVars, execVars
<1>1. CASE \/ ReportNext \/ OnStageAppliedFails \/ TakeNotified
           \/ (\E j \in Items : ApplyNotified(j)) \/ UNCHANGED vars
  <2>1. UNCHANGED <<task, ctlVars>>
    BY <1>1 DEF ReportNext, Enter, NextAttempt, OnStageAppliedFails, TakeNotified,
                ApplyNotified, vars
  <2> QED
    BY <2>1, <1>0
<1>2. CASE OnStageApplied \/ ResendNotify \/ Requeue
  <2>1. \A t \in Tasks : task[t].st # "free" => task'[t] = task[t]
    BY <1>2, EnqueueFacts DEF OnStageApplied, ResendNotify, Requeue, TInv, KInv, TasksTrue
  <2>2. CASE OnStageApplied \/ ResendNotify
    BY <2>1, <2>2, <1>0 DEF OnStageApplied, ResendNotify
  <2>3. CASE Requeue
    BY <2>1, <2>3, <1>b DEF Requeue, execVars
  <2> QED
    BY <1>2, <2>2, <2>3
<1>3. CASE Claim \/ Revive \/ Select \/ Send \/ SendFails \/ SendTimesOut \/ Record
  BY <1>3, <1>b DEF Claim, Revive, Select, Send, SendFails, SendTimesOut, Record, execVars
<1>4. CASE Recheck
  <2>1. \A t \in Tasks : task'[t].st = task[t].st
    BY <1>4, <1>k, <1>c DEF Recheck, Running, TaskRows
  <2> QED
    BY <1>4, <2>1, <1>b DEF Recheck, execVars
<1>5. ASSUME NEW t \in Tasks, List(t) \/ ItemsUnread(t) PROVE Served(i)'
  BY <1>5, <1>k DEF List, ItemsUnread, Served
<1>6. CASE Finish
  <2>0. pc # "failed"
    BY <1>6 DEF Finish
  <2>1. CASE Waiting
    <3>1. PICK t \in Tasks : task[t].st # "free" /\ t # cur
      BY <1>6, <2>1 DEF Finish, Waiting
    <3>2. task'[t] = task[t] /\ cur' = 0
      BY <1>6, <1>k, <3>1 DEF Finish, Return
    <3> QED
      BY <3>1, <3>2, <1>z
  <2>2. CASE i \in pending
    <3>1. Announced(i)
      BY <1>6, <2>2 DEF Finish, KInv, TasksTrue, DoneTold, Told, Announced
    <3> QED
      BY <1>a, <3>1
  <2> QED
    BY <1>a, <2>0, <2>1, <2>2 DEF Served
<1>7. CASE Fail
  <2>1. task[cur] \in TaskRows /\ task[cur].st = "pending" /\ cur \in Tasks
    BY <1>7, <1>k, <1>c DEF Fail, KInv, TasksTrue, Running
  <2>2. task'[cur].st \in {"pending", "dead"} /\ cur' = 0
    BY <1>7, <1>k, <2>1 DEF Fail, Return, Dead, TaskRows
  <2> QED
    BY <2>1, <2>2, <1>z
<1>8. ASSUME NEW t \in Tasks, Reenqueue(t) PROVE Served(i)'
  <2>1. task[t].st = "dead" /\ pc' = "revived"
    BY <1>8 DEF Reenqueue, KInv, TasksTrue, In
  <2>2. task'[t] = task[t]
    BY <1>8, <2>1, EnqueueFacts DEF Reenqueue, TInv, KInv, TasksTrue
  <2> QED
    BY <2>1, <2>2 DEF Served, Waiting
<1>9. CASE MarkRevived
  <2>1. PICK u \in Tasks : task[u].keyed
    BY <1>9 DEF MarkRevived, KInv, TasksTrue
  <2>2. task[u].st = "pending" /\ u # cur
    BY <1>9, <2>1 DEF MarkRevived, KInv, TasksTrue
  <2>3. task'[u] = task[u] /\ cur' = 0
    BY <1>9, <1>k, <2>2 DEF MarkRevived
  <2> QED
    BY <2>2, <2>3, <1>z
<1>10. CASE Crash
  <2>1. UNCHANGED task /\ cur' = 0
    BY <1>10 DEF Crash
  <2>2. CASE Waiting
    BY <2>1, <2>2, <1>z DEF Waiting
  <2>3. CASE i \in pending \/ pc = "failed"
    <3>1. cur \in Tasks /\ task[cur].st = "pending"
      BY <2>3, <1>r, <1>c DEF KInv, TasksTrue, Running
    <3> QED
      BY <2>1, <3>1, <1>z
  <2> QED
    BY <1>a, <2>2, <2>3 DEF Served
<1>11. ASSUME NEW t \in Tasks, ReenqueueFails(t) PROVE Served(i)'
  BY <1>11, <1>b DEF ReenqueueFails, execVars
<1>12. ASSUME NEW t \in Tasks, RequestUnread(t) PROVE pc' = "gone"
  BY <1>12 DEF RequestUnread
<1> QED
  BY <1>1, <1>2, <1>3, <1>4, <1>5, <1>6, <1>7, <1>8, <1>9, <1>10, <1>11, <1>12
     DEF Next, ProjectorNext, ControllerNext, ExecNext, ReviveNext, ReenqueueNext

\* OnStageApplied serves an item, unless a task is being run.
LEMMA StepAsks ==
  ASSUME TInv, KInv, OnStageApplied, cur = 0 \/ pc = "revived"
  PROVE  Waiting'
<1>1. \E u \in Tasks : task'[u].keyed /\ task'[u].st = "pending"
  BY EnqueueFacts DEF OnStageApplied, TInv, KInv, TasksTrue
<1> QED
  BY <1>1, FlowAssumption DEF OnStageApplied, Waiting, Tasks, ctlVars

(* The theorems ------------------------------------------------------------*)

LEMMA TypesInductive == Spec => []TInv
<1>1. IInv /\ TInv /\ [Next]_vars => TInv'
  BY LocalsTyped, TasksTyped, TablesTyped DEF TInv
<1> QED
  BY <1>1, InitTyped, Inductive, PTL DEF Spec

\* Every variable keeps its type: no event is empty, no task is tried more often
\* than the limit, and what is to be sent is part of what was listed.
THEOREM TypeCorrect == Spec => []TypeOK
<1>1. IInv /\ TInv => TypeOK
  BY DEF IInv, RecordTold, TInv, LocalsOK, TasksOK, TablesOK, TaskRows, PlaceNames, TypeOK
<1> QED
  BY <1>1, TypesInductive, Inductive, PTL

\* No item is shown as notified unless a message about it went out, whatever
\* is refused, lost, retried, revived or cut short by a crash.
THEOREM RecordCorrect == Spec => []RecordedWasDelivered
<1>1. IInv => RecordedWasDelivered
  BY DEF IInv, RecordTold, RecordedWasDelivered, Told, Announced
<1> QED
  BY <1>1, Inductive, PTL

\* An item on record as notified is announced no more, except by a message
\* that was already under way.
THEOREM QuietCorrect == Spec => QuietOnceRecorded
<1>1. ASSUME Next, NEW i \in Items, EverNotified(i), i \notin toSend
      PROVE  i \notin toSend' /\ \A M \in delivered' \ delivered : i \notin M
  <2>1. CASE Select
    BY <1>1, <2>1 DEF Select, NotifiedItemIDs, EverNotified
  <2>2. CASE Send \/ SendTimesOut
    BY <1>1, <2>2 DEF Send, SendTimesOut, execVars
  <2>3. CASE toSend' \in {toSend, {}} /\ delivered' = delivered
    BY <1>1, <2>3
  <2>4. ASSUME NEW row, Return(row) PROVE toSend' = {} /\ delivered' = delivered
    BY <2>4 DEF Return
  <2>5. CASE Finish \/ Fail
    BY <1>1, <2>4, <2>5 DEF Finish, Fail
  <2>6. Select \/ Send \/ SendTimesOut \/ Finish \/ Fail
          \/ (toSend' \in {toSend, {}} /\ delivered' = delivered)
    BY <1>1 DEF Next, ReportNext, Enter, NextAttempt, ProjectorNext,
         OnStageApplied, OnStageAppliedFails, TakeNotified, ApplyNotified,
         ControllerNext, Claim, ExecNext, List, RequestUnread, ItemsUnread, SendFails,
         Record, Recheck, Requeue, ReviveNext, Revive, ReenqueueNext, Reenqueue,
         ReenqueueFails, MarkRevived, ResendNotify, Crash, ctlVars, execVars
  <2> QED
    BY <2>1, <2>2, <2>3, <2>5, <2>6
<1>2. [Next]_vars => [KeepsQuiet]_vars
  BY <1>1 DEF KeepsQuiet
<1> QED
  BY <1>2, PTL DEF Spec, QuietOnceRecorded

\* A notice that is queued is dropped by nothing but a failed read of its
\* request: the item is announced, or a task that will list it lives, whatever
\* else fails and wherever the process dies.
THEOREM KeptCorrect == Spec => NoticeKept
<1>1. Init => KInv
  BY DEF Init, KInv, TasksTrue, DoneTold, Running, Free
<1>2. IInv /\ IInv' /\ TInv /\ KInv /\ [Next]_vars => KInv'
  BY StepTrue
<1>3. IInv /\ TInv /\ KInv /\ [Next]_vars => [KeepsNotice]_vars
  BY StepServes, StepAsks DEF KeepsNotice
<1> QED
  BY <1>1, <1>2, <1>3, Inductive, TypesInductive, PTL DEF Spec, NoticeKept
=============================================================================
