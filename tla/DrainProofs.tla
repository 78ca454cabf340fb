---------------------------- MODULE DrainProofs -----------------------------
(***************************************************************************)
(* Theorems about Drain, for any number of events, retries, crashes and    *)
(* failed marks and any size of a batch: what holds of the movie whatever  *)
(* statement of whom comes next, and that the drain implements EventLog.   *)
(*                                                                         *)
(* The inductive invariant says what each half-done piece of work owes:    *)
(* which events are still open, what a handler between two statements has  *)
(* already written, which stage is ahead of the pointer and who will move  *)
(* it, and what a rollup under way may rely on.                            *)
(***************************************************************************)
EXTENDS Drain, MediaItemProofs, FiniteSetTheorems, WellFoundedInduction

(* The inductive invariant -------------------------------------------------*)

\* An attempt is begun by a retry that is counted.
Attempts == item.cycle + (IF rt = "no" THEN 0 ELSE 1) <= 1 + retries

Working == pc \in {"row", "read", "insert", "advance", "publish", "mark"}

\* A batch leaves out no open event before one that is in it.
BatchInv ==
  /\ pc \in {"wait", "flush", "count", "write"} => batch = {}
  /\ Working => batch # {}
  /\ \A i \in Unprocessed : \A j \in batch : i < j => i \in batch

\* What the handler holds: an attempt that has begun, the download's own for
\* a job; from the INSERT on the transition is on record, from the UPDATE on
\* the pointer is not behind it.
HandInv ==
  /\ pc \in {"insert", "advance", "publish"} => Kind # "failed"
  /\ pc \in {"insert", "advance", "publish", "mark"} /\ Kind # "failed" =>
       /\ c \in 1..item.cycle
       /\ Kind = "ready" => c = Link
  /\ pc \in {"advance", "publish", "mark"} /\ Kind # "failed" => <<c, Stage>> \in item.hist
  /\ pc \in {"insert", "advance"} /\ c # item.cycle => <<item.cycle, Stage>> \notin item.hist
  /\ pc \in {"publish", "mark"} /\ Kind # "failed" /\ <<item.cycle, Stage>> \in item.hist
       => Ordinal[Stage] <= Ordinal[item.stage]
  /\ pc = "publish" => fresh

\* Only a stage that an open event will report again is ahead of the pointer.
PointerInv ==
  /\ item.stage \in EnteredIn(item.hist, item.cycle) \union {"requested"}
  /\ \A h \in item.hist : h[1] \in 1..item.cycle
  /\ \A t \in EnteredIn(item.hist, item.cycle) :
       \/ Ordinal[t] <= Ordinal[item.stage]
       \/ \E i \in Unprocessed : t \in Says[log[i]]

\* A rollup under way is of a touched request, and what it read still holds
\* but for a cancellation.
FlushInv ==
  /\ pc = "wait" => ~touched
  /\ pc \in {"count", "write"} =>
       /\ touched /\ seen \in {"active", "completed"}
       /\ seen = "completed" => status # "active"
  /\ pc \notin {"count", "write"} => seen = "active"
  /\ pc = "write" /\ Reached(item, "available") => next = "completed"

Behind == <<item.cycle, "available">> \in item.hist /\ ~Reached(item, "available")
OldestIs(k) == \E i \in Unprocessed : log[i] = k /\ \A j \in Unprocessed : i <= j

\* A pointer behind "available" is about to be advanced, for the first time or
\* again; in the second case the crash is on record, and nothing else will be
\* touched or rolled up before.
BehindInv ==
  Behind =>
    \/ pc = "advance" /\ fresh /\ Kind = "available" /\ c = item.cycle
    \/ /\ missed /\ ~touched
       /\ OldestIs("available")
       /\ pc \in {"wait", "next", "read", "insert", "advance"}
       /\ pc # "wait" => batch # {}
       /\ pc \in {"insert", "advance"} => c = item.cycle

\* A movie that is available is reported, or a touch is kept for it.
ToldInv ==
  Reached(item, "available") /\ status = "active" => missed \/ touched \/ pc = "publish"

HookInv == IsFiniteSet(item.hist) /\ OneHookPerCrash

IInv == /\ TypeOK /\ Attempts /\ BatchInv /\ HandInv /\ OwnAttempt /\ PointerInv
        /\ FlushInv /\ BehindInv /\ ToldInv /\ HookInv

(* The log and the batch ---------------------------------------------------*)

\* Numbers have a least.
LEMMA LeastIn ==
  ASSUME NEW S \in SUBSET Nat, S # {}
  PROVE  \E i \in S : \A j \in S : i <= j
<1> DEFINE R == {ss \in Nat \X Nat : ss[1] < ss[2]}
<1>1. IsWellFoundedOn(R, Nat)
  BY NatLessThanWellFounded, Zenon DEF OpToRel
<1>2. \A i, j \in Nat : <<j, i>> \notin R => i <= j
  OBVIOUS
<1> HIDE DEF R
<1>3. PICK i \in S : \A j \in S : <<j, i>> \notin R
  BY <1>1, WFMin, Zenon
<1> QED
  BY <1>2, <1>3

\* The log is a sequence of kinds, and its open ids are numbers.
LEMMA LogFacts ==
  ASSUME TypeOK
  PROVE  /\ Len(log) \in Nat /\ DOMAIN log = 1..Len(log)
         /\ \A i \in DOMAIN log : log[i] \in Kinds
         /\ Unprocessed \subseteq DOMAIN log /\ Unprocessed \subseteq Nat
<1>1. log \in Seq(Kinds)
  BY DEF TypeOK
<1>2. Len(log) \in Nat /\ DOMAIN log = 1..Len(log) /\ \A i \in 1..Len(log) : log[i] \in Kinds
  BY <1>1
<1> QED
  BY <1>2 DEF Unprocessed

\* The event at hand is the oldest of the batch.
LEMMA EventIs ==
  ASSUME TypeOK, batch # {}
  PROVE  /\ Event \in batch /\ Event \in Unprocessed /\ Event \in Nat
         /\ \A j \in batch : Event <= j
         /\ Kind \in Kinds
<1>1. batch \subseteq Unprocessed /\ batch \subseteq Nat
  BY LogFacts DEF TypeOK, Unprocessed
<1>2. \E i \in batch : \A j \in batch : i <= j
  BY <1>1, LeastIn
<1>3. Event \in batch /\ \A j \in batch : Event <= j
  BY <1>2 DEF Event
<1> QED
  BY <1>1, <1>3, LogFacts DEF Kind, Unprocessed

\* It is the oldest of all that are open.
LEMMA EventIsOldest ==
  ASSUME TypeOK, BatchInv, batch # {}
  PROVE  \A i \in Unprocessed : Event <= i
<1> SUFFICES ASSUME NEW i \in Unprocessed, ~(Event <= i) PROVE FALSE
  OBVIOUS
<1>1. i \in Nat /\ Event \in Nat /\ Event \in batch /\ \A j \in batch : Event <= j
  BY LogFacts, EventIs
<1>2. i < Event
  BY <1>1
<1>3. i \in batch
  BY <1>1, <1>2 DEF BatchInv
<1> QED
  BY <1>1, <1>2, <1>3

\* A fetch takes the oldest, without a gap.
LEMMA OldestFacts ==
  ASSUME TypeOK
  PROVE  /\ Oldest \subseteq Unprocessed
         /\ Unprocessed # {} => Oldest # {}
         /\ \A i \in Unprocessed : \A j \in Oldest : i < j => i \in Oldest
<1> DEFINE Older(i) == {j \in Unprocessed : j < i}
<1>0. 1 \in Int /\ Len(log) \in Int /\ Unprocessed \subseteq 1..Len(log)
  BY LogFacts
<1>1. Unprocessed \subseteq Nat /\ IsFiniteSet(Unprocessed)
  <2>1. IsFiniteSet(1..Len(log))
    BY <1>0, FS_Interval
  <2> QED
    BY <1>0, <2>1, LogFacts, FS_Subset
<1>2. ASSUME Unprocessed # {} PROVE Oldest # {}
  <2>1. PICK i \in Unprocessed : \A j \in Unprocessed : i <= j
    BY <1>1, <1>2, LeastIn
  <2>2. Older(i) = {}
    <3>1. \A j \in Unprocessed : ~(j < i)
      BY <1>1, <2>1
    <3> QED
      BY <3>1
  <2>3. Cardinality(Older(i)) < BatchSize
    BY <2>2, FS_EmptySet, BatchAssumption
  <2> QED
    BY <2>1, <2>3 DEF Oldest
<1>3. ASSUME NEW i \in Unprocessed, NEW j \in Oldest, i < j PROVE i \in Oldest
  <2>1. j \in Unprocessed /\ Cardinality(Older(j)) < BatchSize
    BY DEF Oldest
  <2>2. Older(i) \subseteq Older(j)
    <3>1. \A m \in Unprocessed : m < i => m < j
      BY <1>1, <1>3, <2>1
    <3> QED
      BY <3>1
  <2>3. IsFiniteSet(Older(j)) /\ IsFiniteSet(Older(i))
    BY <1>1, FS_Subset
  <2>4. Cardinality(Older(i)) <= Cardinality(Older(j))
    BY <2>2, <2>3, FS_Subset
  <2>5. Cardinality(Older(i)) \in Nat /\ Cardinality(Older(j)) \in Nat
    BY <2>3, FS_CardinalityType
  <2>6. Cardinality(Older(i)) < BatchSize
    BY <2>1, <2>4, <2>5, BatchAssumption
  <2> QED
    BY <2>6 DEF Oldest
<1> QED
  BY <1>2, <1>3 DEF Oldest

\* What depends on log and batch alone.
LEMMA SameEvent ==
  ASSUME log' = log, batch' = batch
  PROVE  Event' = Event /\ Kind' = Kind /\ Stage' = Stage
BY DEF Event, Kind, Stage

\* A new event changes nothing for the one at hand.
LEMMA InsertFacts ==
  ASSUME TypeOK, NEW k \in Kinds, InsertEvent(k)
  PROVE  /\ log' \in Seq(Kinds) /\ Len(log') = Len(log) + 1
         /\ DOMAIN log' = DOMAIN log \union {Len(log) + 1}
         /\ \A i \in DOMAIN log : log'[i] = log[i] /\ i < Len(log) + 1
         /\ Unprocessed' = Unprocessed \union {Len(log) + 1}
         /\ batch # {} => Event' = Event /\ Kind' = Kind /\ Stage' = Stage
<1>1. /\ log' \in Seq(Kinds) /\ Len(log') = Len(log) + 1
      /\ DOMAIN log' = 1..(Len(log) + 1) /\ Len(log) \in Nat
      /\ \A i \in 1..Len(log) : log'[i] = log[i]
  BY DEF InsertEvent, TypeOK
<1>2. /\ DOMAIN log = 1..Len(log)
      /\ DOMAIN log' = DOMAIN log \union {Len(log) + 1}
      /\ marked' = marked /\ batch' = batch /\ marked \subseteq DOMAIN log
  BY <1>1, LogFacts DEF InsertEvent, fetched, TypeOK
<1>3. Unprocessed' = Unprocessed \union {Len(log) + 1}
  BY <1>1, <1>2 DEF Unprocessed
<1>4. ASSUME batch # {} PROVE Event' = Event /\ Kind' = Kind /\ Stage' = Stage
  <2>1. Event' = Event
    BY <1>2 DEF Event
  <2>2. Event \in DOMAIN log
    BY <1>4, EventIs DEF Unprocessed
  <2>3. Kind' = Kind
    BY <1>1, <1>2, <2>1, <2>2 DEF Kind
  <2> QED
    BY <2>1, <2>3 DEF Stage
<1> QED
  BY <1>1, <1>2, <1>3, <1>4

USE DEF tables, fetched, handler, flush, user, counts, Goto, Forget

(* The item ----------------------------------------------------------------*)

\* The three steps that write it.
LEMMA ItemFacts ==
  ASSUME TypeOK, HandInv
  PROVE  /\ item.cycle \in Nat \ {0} /\ item.stage \in StageKeys
         /\ item.hist \in SUBSET (Nat \X StageKeys)
         /\ Stage \in StageKeys
         /\ InsertTransition =>
              /\ item' \in Item({NoError})
              /\ item'.cycle = item.cycle /\ item'.stage = item.stage
              /\ item'.hist = item.hist \union {<<c, Stage>>}
         /\ AdvancePointer =>
              /\ item' \in Item({NoError})
              /\ item'.cycle = item.cycle /\ item'.hist = item.hist
              /\ item'.stage = IF c = item.cycle /\ Ordinal[item.stage] < Ordinal[Stage]
                               THEN Stage ELSE item.stage
         /\ RetryBumps =>
              /\ item' \in Item({NoError})
              /\ item'.cycle = item.cycle + 1 /\ item'.stage = "requested"
              /\ item'.hist = item.hist
<1>1. /\ item = [cycle |-> item.cycle, stage |-> item.stage,
                 hist |-> item.hist, err |-> item.err]
      /\ item.cycle \in Nat \ {0} /\ item.stage \in StageKeys
      /\ item.hist \in SUBSET (Nat \X StageKeys) /\ item.err \in {NoError}
  BY DEF TypeOK, Item
<1>2. Stage \in StageKeys /\ "requested" \in StageKeys
  BY DEF Stage, StageKeys
<1>3. ASSUME InsertTransition
      PROVE  /\ item' \in Item({NoError})
             /\ item'.cycle = item.cycle /\ item'.stage = item.stage
             /\ item'.hist = item.hist \union {<<c, Stage>>}
  <2>1. c \in Nat
    BY <1>1 DEF TypeOK
  <2>2. item' = [cycle |-> item.cycle, stage |-> item.stage,
                 hist |-> item.hist \union {<<c, Stage>>}, err |-> item.err]
    BY <1>1, <1>3 DEF InsertTransition, Record
  <2>3. item.hist \union {<<c, Stage>>} \in SUBSET (Nat \X StageKeys)
    BY <1>1, <1>2, <2>1
  <2> QED
    BY <1>1, <2>2, <2>3 DEF Item
<1>4. ASSUME AdvancePointer
      PROVE  /\ item' \in Item({NoError})
             /\ item'.cycle = item.cycle /\ item'.hist = item.hist
             /\ item'.stage = IF c = item.cycle /\ Ordinal[item.stage] < Ordinal[Stage]
                              THEN Stage ELSE item.stage
  <2>1. c \in Nat /\ c <= item.cycle
    BY <1>1 DEF TypeOK
  <2>2. Ahead(item, c, Stage) <=> c = item.cycle /\ Ordinal[item.stage] < Ordinal[Stage]
    BY <1>1, <2>1 DEF Ahead
  <2>3. CASE Ahead(item, c, Stage)
    <3>1. item' = [cycle |-> item.cycle, stage |-> Stage,
                   hist |-> item.hist, err |-> item.err]
      BY <1>1, <1>4, <2>3 DEF AdvancePointer, Advance
    <3> QED
      BY <1>1, <1>2, <2>2, <2>3, <3>1 DEF Item
  <2>4. CASE ~Ahead(item, c, Stage)
    <3>1. item' = item
      BY <1>4, <2>4 DEF AdvancePointer, Advance
    <3> QED
      BY <2>2, <2>4, <3>1 DEF TypeOK
  <2> QED
    BY <2>3, <2>4
<1>5. ASSUME RetryBumps
      PROVE  /\ item' \in Item({NoError})
             /\ item'.cycle = item.cycle + 1 /\ item'.stage = "requested"
             /\ item'.hist = item.hist
  <2>1. item' = [cycle |-> item.cycle + 1, stage |-> "requested",
                 hist |-> item.hist, err |-> NoError]
    BY <1>1, <1>5 DEF RetryBumps, BumpItemCycle
  <2>2. item.cycle + 1 \in Nat \ {0}
    BY <1>1
  <2> QED
    BY <1>1, <1>2, <2>1, <2>2 DEF Item
<1> QED
  BY <1>1, <1>2, <1>3, <1>4, <1>5

(* Types -------------------------------------------------------------------*)

LogType ==
  /\ log \in Seq(Kinds) /\ Len(log) <= MaxEvents /\ marked \subseteq DOMAIN log
  /\ batch \subseteq DOMAIN log \ marked /\ full \in BOOLEAN

ItemType ==
  /\ item \in Item({NoError}) /\ item.cycle <= 1 + MaxRetries /\ told \subseteq item.hist
  /\ c \in 0..item.cycle

RestType ==
  /\ row \in {"grabbed", "downloaded", "failed", "canceled"}
  /\ status \in {"active", "completed", "canceled"}
  /\ pc \in {"wait", "next", "row", "read", "insert", "advance", "publish", "mark",
             "flush", "count", "write"}
  /\ d \in {"grabbed", "downloaded", "failed", "canceled"}
  /\ fresh \in BOOLEAN /\ touched \in BOOLEAN /\ missed \in BOOLEAN
  /\ seen \in {"active", "completed", "canceled"} /\ next \in {"active", "completed"}
  /\ rt \in {"no", "row", "bump"} /\ cn \in {"no", "row", "set", "done"}
  /\ retries \in 0..MaxRetries /\ faults \in 0..MaxFaults /\ crashes \in 0..faults

\* The log only grows, and batches and marks hold ids that are in it.
LEMMA StepLogType ==
  ASSUME IInv, [Next]_vars
  PROVE  LogType'
<1> USE DEF LogType
<1>i. LogType /\ TypeOK /\ BatchInv
  BY DEF IInv, TypeOK
<1>o. Oldest \subseteq DOMAIN log \ marked
  BY <1>i, OldestFacts DEF Unprocessed
<1>1. ASSUME NEW k \in Kinds, InsertEvent(k) PROVE LogType'
  BY <1>1, <1>i, InsertFacts, LogFacts, BoundsAssumption DEF InsertEvent
<1>2. CASE Fetch \/ EndBatch
  BY <1>2, <1>i, <1>o DEF Fetch, EndBatch, FetchBatch
<1>3. CASE MarkProcessed
  <2>1. Event \in DOMAIN log
    BY <1>3, <1>i, EventIs DEF MarkProcessed, Unprocessed, BatchInv, Working
  <2> QED
    BY <1>3, <1>i, <2>1 DEF MarkProcessed
<1>4. CASE MarkFails \/ FetchFails \/ Crash
  BY <1>4, <1>i DEF MarkFails, FetchFails, GiveUp, Crash
<1>5. CASE UNCHANGED <<log, marked, fetched>>
  BY <1>5, <1>i
<1>6. \/ \E k \in Kinds : InsertEvent(k)
      \/ Fetch \/ EndBatch \/ MarkProcessed \/ MarkFails \/ FetchFails \/ Crash
      \/ UNCHANGED <<log, marked, fetched>>
  BY DEF Next, ProjectorNext, UserNext, Take, WriteRow, ReadItem, Annotate,
     InsertTransition, AdvancePointer, PublishStage, ReadStatus, CountItems, WriteStatus, RollupFails,
     RetryReads, RetryWrites, RetryBumps, CancelReads, CancelWrites, CancelSets, vars
<1> QED
  BY <1>1, <1>2, <1>3, <1>4, <1>5, <1>6

\* What is announced is on record, and a handler writes to an attempt that has
\* begun.
LEMMA StepItemType ==
  ASSUME IInv, [Next]_vars
  PROVE  ItemType'
<1> USE DEF ItemType
<1>i. ItemType /\ TypeOK /\ HandInv /\ Attempts
  BY DEF IInv, TypeOK
<1>t. item.cycle \in Nat \ {0} /\ MaxRetries \in Nat /\ retries \in 0..MaxRetries
  BY <1>i, ItemFacts, BoundsAssumption DEF TypeOK
<1>1. CASE ReadItem
  BY <1>1, <1>i, <1>t DEF ReadItem, CycleOf, Link
<1>2. CASE InsertTransition
  BY <1>2, <1>i, ItemFacts DEF InsertTransition
<1>3. CASE AdvancePointer
  BY <1>3, <1>i, ItemFacts DEF AdvancePointer
<1>4. CASE PublishStage
  BY <1>4, <1>i DEF PublishStage, HandInv
<1>5. CASE MarkProcessed \/ MarkFails \/ Crash
  <2>1. item' = item /\ told' = told /\ c' = 0
    BY <1>5 DEF MarkProcessed, MarkFails, Crash
  <2> QED
    BY <1>i, <1>t, <2>1
<1>6. CASE RetryBumps
  BY <1>6, <1>i, <1>t, ItemFacts DEF RetryBumps, Attempts
<1>7. CASE UNCHANGED <<item, told, c>>
  BY <1>7, <1>i
<1>8. \/ ReadItem \/ InsertTransition \/ AdvancePointer \/ PublishStage \/ MarkProcessed
      \/ MarkFails \/ Crash \/ RetryBumps
      \/ UNCHANGED <<item, told, c>>
  BY DEF Next, ProjectorNext, UserNext, InsertEvent, Fetch, FetchFails, Take, WriteRow,
     Annotate, EndBatch, ReadStatus, CountItems, WriteStatus, RollupFails, RetryReads, RetryWrites,
     CancelReads, CancelWrites, CancelSets, vars
<1> QED
  BY <1>1, <1>2, <1>3, <1>4, <1>5, <1>6, <1>7, <1>8

\* The variables that range over a fixed set.
LEMMA StepRestType ==
  ASSUME IInv, [Next]_vars
  PROVE  RestType'
<1> USE DEF RestType
<1>i. RestType
  BY DEF IInv, TypeOK
<1>t. MaxRetries \in Nat /\ MaxFaults \in Nat
  BY BoundsAssumption
<1>1. CASE Fetch \/ EndBatch \/ \E k \in Kinds : InsertEvent(k)
  BY <1>1, <1>i DEF Fetch, EndBatch, InsertEvent
<1>2. CASE Take
  BY <1>2, <1>i DEF Take
<1>3. CASE WriteRow
  BY <1>3, <1>i DEF WriteRow, Advanced
<1>4. CASE ReadItem \/ Annotate
  BY <1>4, <1>i DEF ReadItem, Annotate
<1>5. CASE InsertTransition \/ AdvancePointer \/ PublishStage
  BY <1>5, <1>i DEF InsertTransition, Applies, AdvancePointer, PublishStage
<1>6. CASE MarkProcessed
  <2>1. (fresh \in BOOLEAN /\ touched \in BOOLEAN /\ missed \in BOOLEAN)'
    BY <1>6, <1>i DEF MarkProcessed
  <2> QED
    BY <1>6, <1>i, <2>1 DEF MarkProcessed
<1>7. CASE MarkFails \/ FetchFails
  <2>1. faults' \in 0..MaxFaults /\ crashes' \in 0..faults'
    BY <1>7, <1>i, <1>t DEF MarkFails, FetchFails, Fault
  <2>2. (fresh \in BOOLEAN /\ touched \in BOOLEAN /\ missed \in BOOLEAN)'
    BY <1>7, <1>i DEF MarkFails, FetchFails
  <2> QED
    BY <1>7, <1>i, <2>1, <2>2 DEF MarkFails, FetchFails, GiveUp
<1>8. CASE ReadStatus
  BY <1>8, <1>i DEF ReadStatus
<1>9. CASE CountItems \/ WriteStatus
  BY <1>9, <1>i DEF CountItems, WriteStatus
<1>10. CASE RetryReads
  BY <1>10, <1>i, <1>t DEF RetryReads
<1>11. CASE RetryWrites \/ RetryBumps
  BY <1>11, <1>i DEF RetryWrites, RetryBumps
<1>12. CASE CancelReads \/ CancelWrites \/ CancelSets
  BY <1>12, <1>i DEF CancelReads, CancelWrites, CancelSets
<1>13. CASE Crash
  <2>1. faults' \in 0..MaxFaults /\ crashes' \in 0..faults'
    BY <1>13, <1>i, <1>t DEF Crash, Fault
  <2>2. missed' \in BOOLEAN
    BY <1>13, <1>i DEF Crash
  <2> QED
    BY <1>13, <1>i, <2>1, <2>2 DEF Crash
<1>14. CASE RollupFails
  <2>1. faults' \in 0..MaxFaults /\ crashes' \in 0..faults'
    BY <1>14, <1>i, <1>t DEF RollupFails, Fault
  <2> QED
    BY <1>14, <1>i, <2>1 DEF RollupFails
<1>15. CASE UNCHANGED vars
  BY <1>15, <1>i DEF vars
<1> QED
  BY <1>1, <1>2, <1>3, <1>4, <1>5, <1>6, <1>7, <1>8, <1>9, <1>10, <1>11, <1>12, <1>13, <1>14,
     <1>15
     DEF Next, ProjectorNext, UserNext

\* So every variable keeps its type.
LEMMA StepType ==
  ASSUME IInv, [Next]_vars
  PROVE  TypeOK'
BY StepLogType, StepItemType, StepRestType DEF LogType, ItemType, RestType, TypeOK

(* Attempts and batches ----------------------------------------------------*)

\* The account is moved by a retry alone; a crash gives one back that was not used.
LEMMA StepAttempts ==
  ASSUME IInv, [Next]_vars
  PROVE  Attempts'
<1> USE DEF Attempts
<1>i. Attempts /\ TypeOK /\ HandInv
  BY DEF IInv
<1>t. item.cycle \in Nat /\ retries \in Nat
  BY <1>i, ItemFacts, BoundsAssumption DEF TypeOK
<1>1. CASE InsertTransition \/ AdvancePointer
  BY <1>1, <1>i, ItemFacts DEF InsertTransition, AdvancePointer
<1>2. CASE RetryReads \/ RetryWrites
  BY <1>2, <1>i, <1>t DEF RetryReads, RetryWrites
<1>3. CASE RetryBumps
  BY <1>3, <1>i, <1>t, ItemFacts DEF RetryBumps
<1>4. CASE Crash
  BY <1>4, <1>i, <1>t DEF Crash
<1>5. CASE UNCHANGED <<item, rt, retries>>
  BY <1>5, <1>i
<1>6. \/ InsertTransition \/ AdvancePointer \/ RetryReads \/ RetryWrites \/ RetryBumps
      \/ Crash
      \/ UNCHANGED <<item, rt, retries>>
  BY DEF Next, ProjectorNext, UserNext, InsertEvent, Fetch, Take, WriteRow, ReadItem,
     Annotate, PublishStage, MarkProcessed, MarkFails, FetchFails, EndBatch, ReadStatus,
     CountItems, WriteStatus, RollupFails, CancelReads, CancelWrites, CancelSets, vars
<1> QED
  BY <1>1, <1>2, <1>3, <1>4, <1>5, <1>6

\* New ids come last, a fetch leaves no gap, and events leave a batch in order.
LEMMA StepBatch ==
  ASSUME IInv, [Next]_vars
  PROVE  BatchInv'
<1> USE DEF BatchInv, Working
<1>i. BatchInv /\ TypeOK /\ batch \subseteq Unprocessed
  BY DEF IInv, TypeOK, Unprocessed
<1>1. ASSUME NEW k \in Kinds, InsertEvent(k) PROVE BatchInv'
  <2>1. batch' = batch /\ pc' = pc
    BY <1>1 DEF InsertEvent
  <2>2. ASSUME NEW i \in Unprocessed', NEW j \in batch, i < j PROVE i \in batch
    <3>1. j < Len(log) + 1 /\ Len(log) \in Nat /\ j \in Nat
      BY <1>i, <1>1, InsertFacts, LogFacts
    <3>2. i \in Unprocessed
      BY <1>i, <1>1, <2>2, <3>1, InsertFacts
    <3> QED
      BY <1>i, <2>2, <3>2
  <2> QED
    BY <1>i, <2>1, <2>2
<1>2. CASE Fetch \/ EndBatch
  <2>1. log' = log /\ marked' = marked /\ Unprocessed' = Unprocessed
    BY <1>2 DEF Fetch, EndBatch, Unprocessed
  <2>2. CASE FetchBatch /\ pc' = "next"
    BY <1>i, <2>1, <2>2, OldestFacts DEF FetchBatch
  <2>3. CASE batch' = batch /\ batch = {} /\ pc' = "flush"
    BY <2>3
  <2> QED
    BY <1>2, <2>2, <2>3 DEF Fetch, EndBatch
<1>3. CASE MarkProcessed
  <2>1. Unprocessed' = Unprocessed \ {Event} /\ batch' = batch \ {Event} /\ pc' = "next"
    BY <1>3 DEF MarkProcessed, Unprocessed
  <2> QED
    BY <1>i, <2>1
<1>4. CASE MarkFails \/ FetchFails \/ Crash
  BY <1>4, <1>i DEF MarkFails, FetchFails, GiveUp, Crash
<1>5. CASE UNCHANGED <<log, marked, batch, pc>>
  BY <1>5, <1>i DEF Unprocessed
<1>6. CASE Take \/ WriteRow \/ ReadItem \/ Annotate \/ InsertTransition \/ AdvancePointer
           \/ PublishStage \/ ReadStatus \/ CountItems \/ WriteStatus \/ RollupFails
  <2>1. UNCHANGED <<log, marked, batch>> /\ Unprocessed' = Unprocessed
    BY <1>6 DEF Take, WriteRow, ReadItem, Annotate, InsertTransition, AdvancePointer,
       PublishStage, ReadStatus, CountItems, WriteStatus, RollupFails, Unprocessed
  <2>2. /\ pc' \in {"wait", "flush", "count", "write"} => batch = {}
        /\ Working' => batch # {}
    BY <1>6, <1>i DEF Take, WriteRow, ReadItem, Annotate, InsertTransition, AdvancePointer,
       PublishStage, ReadStatus, CountItems, WriteStatus, RollupFails
  <2> QED
    BY <1>i, <2>1, <2>2
<1>7. \/ \E k \in Kinds : InsertEvent(k)
      \/ Fetch \/ EndBatch \/ MarkProcessed \/ MarkFails \/ FetchFails \/ Crash
      \/ UNCHANGED <<log, marked, batch, pc>>
      \/ Take \/ WriteRow \/ ReadItem \/ Annotate \/ InsertTransition \/ AdvancePointer
      \/ PublishStage \/ ReadStatus \/ CountItems \/ WriteStatus \/ RollupFails
  BY DEF Next, ProjectorNext, UserNext, RetryReads, RetryWrites, RetryBumps,
     CancelReads, CancelWrites, CancelSets, vars
<1> QED
  BY <1>1, <1>2, <1>3, <1>4, <1>5, <1>6, <1>7

(* What the handler holds --------------------------------------------------*)

\* What an event says, and the stage its handler records.
LEMMA SaidFacts ==
  /\ Kind = "failed" => Says[Kind] = {}
  /\ Kind \in {"ready", "available"} => Says[Kind] = {Stage}
  /\ Kind = "ready" => Stage = "downloaded"
  /\ Kind = "available" => Stage = "available"
  /\ Kind \in Kinds /\ Kind # "failed" => Kind \in {"ready", "available"}
BY DEF Says, Stage, Kinds

\* The places where a handler is at its transition.
Placing == pc \in {"insert", "advance", "publish", "mark"}

\* The handler's own steps build this up; of the user's only a new attempt
\* touches it, and nothing is on record there.
LEMMA StepHand ==
  ASSUME IInv, [Next]_vars
  PROVE  HandInv'
<1>i. /\ HandInv /\ TypeOK /\ BatchInv /\ OwnAttempt /\ PointerInv
      /\ item.cycle \in Nat \ {0} /\ item.stage \in StageKeys /\ Stage \in StageKeys
      /\ c \in Nat
  BY ItemFacts DEF IInv, TypeOK
<1>k. Working => Kind \in Kinds
  BY <1>i, EventIs DEF BatchInv
<1>1. ASSUME NEW k \in Kinds, InsertEvent(k) PROVE HandInv'
  <2>1. UNCHANGED <<pc, item, c, fresh>>
    BY <1>1 DEF InsertEvent
  <2>2. Placing => Kind' = Kind /\ Stage' = Stage
    BY <1>i, <1>1, InsertFacts DEF BatchInv, Working, Placing
  <2> QED
    BY <1>i, <2>1, <2>2 DEF HandInv, Placing
<1>2. CASE ~Placing'
  BY <1>2 DEF HandInv, Placing
<1>3. CASE ReadItem
  <2>1. Kind' = Kind /\ Stage' = Stage /\ item' = item /\ pc' = "insert" /\ Kind # "failed"
    BY <1>3, SameEvent DEF ReadItem
  <2>2. Kind \in {"ready", "available"}
    BY <1>3, <1>k, <2>1, SaidFacts DEF ReadItem, Working
  <2>3. c' = (IF Kind = "available" THEN item.cycle ELSE 1)
    BY <1>3 DEF ReadItem, CycleOf, Link
  <2>4. c' \in 1..item.cycle /\ (Kind = "ready" => c' = 1)
    BY <1>i, <2>2, <2>3
  <2>5. c' # item.cycle => <<item.cycle, Stage>> \notin item.hist
    <3> SUFFICES ASSUME c' # item.cycle, <<item.cycle, Stage>> \in item.hist PROVE FALSE
      OBVIOUS
    <3>1. Stage = "downloaded" /\ item.cycle # 1
      BY <2>2, <2>3, SaidFacts
    <3> QED
      BY <1>i, <3>1 DEF OwnAttempt, Link
  <2> QED
    BY <2>1, <2>4, <2>5 DEF HandInv, Link
<1>4. CASE Annotate
  BY <1>4, SameEvent DEF Annotate, HandInv
<1>5. CASE InsertTransition
  <2>1. /\ Kind' = Kind /\ Stage' = Stage /\ c' = c /\ pc = "insert" /\ pc' = "advance"
        /\ item'.cycle = item.cycle /\ item'.hist = item.hist \union {<<c, Stage>>}
    BY <1>i, <1>5, SameEvent, ItemFacts DEF InsertTransition
  <2> QED
    BY <1>i, <2>1 DEF HandInv
<1>6. CASE AdvancePointer
  <2>1. /\ Kind' = Kind /\ Stage' = Stage /\ c' = c /\ fresh' = fresh /\ pc = "advance"
        /\ item'.cycle = item.cycle /\ item'.hist = item.hist
    BY <1>i, <1>6, SameEvent, ItemFacts DEF AdvancePointer
  <2>2. pc' = (IF fresh THEN "publish" ELSE "mark")
    BY <1>6 DEF AdvancePointer, Announces
  <2>3. <<item.cycle, Stage>> \in item.hist => c = item.cycle
    BY <1>i, <2>1 DEF HandInv
  <2>4. item'.stage = IF c = item.cycle /\ Ordinal[item.stage] < Ordinal[Stage]
                      THEN Stage ELSE item.stage
    BY <1>i, <1>6, ItemFacts
  <2>5. <<item.cycle, Stage>> \in item.hist => Ordinal[Stage] <= Ordinal[item'.stage]
    BY <1>i, <2>3, <2>4, OrdinalFacts
  <2> QED
    BY <1>i, <2>1, <2>2, <2>5 DEF HandInv
<1>7. CASE PublishStage
  BY <1>7, <1>i, SameEvent DEF PublishStage, HandInv
<1>8. CASE RetryBumps
  <2>1. /\ Kind' = Kind /\ Stage' = Stage /\ c' = c /\ fresh' = fresh /\ pc' = pc
        /\ item'.cycle = item.cycle + 1 /\ item'.hist = item.hist
    BY <1>i, <1>8, SameEvent, ItemFacts DEF RetryBumps
  <2>2. <<item.cycle + 1, Stage>> \notin item.hist
    BY <1>i DEF PointerInv
  <2> QED
    BY <1>i, <2>1, <2>2 DEF HandInv
<1>9. CASE UNCHANGED <<log, batch, pc, item, c, fresh>>
  BY <1>9, <1>i, SameEvent DEF HandInv
<1>10. \/ ~Placing'
       \/ ReadItem \/ Annotate \/ InsertTransition \/ AdvancePointer \/ PublishStage
       \/ RetryBumps
       \/ \E k \in Kinds : InsertEvent(k)
       \/ UNCHANGED <<log, batch, pc, item, c, fresh>>
  BY <1>i DEF Next, ProjectorNext, UserNext, Fetch, Take, WriteRow, MarkProcessed,
     MarkFails, FetchFails, GiveUp, EndBatch, ReadStatus, CountItems, WriteStatus, RollupFails,
     RetryReads, RetryWrites, CancelReads, CancelWrites, CancelSets, Crash, vars, Placing
<1> QED
  BY <1>1, <1>2, <1>3, <1>4, <1>5, <1>6, <1>7, <1>8, <1>9, <1>10

\* The mark is where it is gained, the INSERT where the second half could be lost.
LEMMA StepOwnAttempt ==
  ASSUME IInv, [Next]_vars
  PROVE  OwnAttempt'
<1> DEFINE Told(l) == IF l = "ready" THEN "downloaded" ELSE "available"
<1>i. /\ HandInv /\ TypeOK /\ BatchInv /\ OwnAttempt /\ PointerInv
      /\ item.cycle \in Nat \ {0} /\ marked \subseteq DOMAIN log
  BY ItemFacts DEF IInv, TypeOK
<1>k. Working => Event \in DOMAIN log /\ Kind \in Kinds
  BY <1>i, EventIs DEF BatchInv, Unprocessed
<1>1. ASSUME NEW k \in Kinds, InsertEvent(k) PROVE OwnAttempt'
  <2>1. item' = item /\ marked' = marked
    BY <1>1 DEF InsertEvent
  <2>2. \A i \in marked : log'[i] = log[i]
    BY <1>i, <1>1, InsertFacts
  <2> QED
    BY <1>i, <2>1, <2>2 DEF OwnAttempt
<1>2. CASE InsertTransition
  <2>1. /\ item'.cycle = item.cycle /\ item'.hist = item.hist \union {<<c, Stage>>}
        /\ log' = log /\ marked' = marked
    BY <1>i, <1>2, ItemFacts DEF InsertTransition
  <2>2. Stage = "downloaded" => c = Link
    BY <1>i, <1>2, <1>k, SaidFacts DEF InsertTransition, HandInv, Working
  <2> QED
    BY <1>i, <2>1, <2>2 DEF OwnAttempt
<1>3. CASE AdvancePointer
  <2>1. item'.cycle = item.cycle /\ item'.hist = item.hist /\ log' = log /\ marked' = marked
    BY <1>i, <1>3, ItemFacts DEF AdvancePointer
  <2> QED
    BY <1>i, <2>1 DEF OwnAttempt
<1>4. CASE RetryBumps
  <2>1. item'.cycle = item.cycle + 1 /\ item'.hist = item.hist /\ log' = log /\ marked' = marked
    BY <1>i, <1>4, ItemFacts DEF RetryBumps
  <2>2. 1..item.cycle \subseteq 1..(item.cycle + 1)
    BY <1>i
  <2> QED
    BY <1>i, <2>1, <2>2 DEF OwnAttempt
<1>5. CASE MarkProcessed
  <2>1. log' = log /\ item' = item /\ marked' = marked \union {Event} /\ pc = "mark"
    BY <1>5 DEF MarkProcessed
  <2>2. Kind # "failed" => c \in 1..item.cycle /\ <<c, Stage>> \in item.hist
    BY <1>i, <2>1 DEF HandInv
  <2>3. Kind # "failed" => Stage = Told(Kind)
    BY <1>k, <2>1, SaidFacts DEF Working
  <2>4. \A i \in marked \union {Event} : log[i] # "failed" =>
          \E a \in 1..item.cycle : <<a, Told(log[i])>> \in item.hist
    BY <1>i, <2>2, <2>3 DEF OwnAttempt, Kind
  <2> QED
    BY <1>i, <2>1, <2>4 DEF OwnAttempt
<1>6. CASE UNCHANGED <<log, marked, item>>
  BY <1>6, <1>i DEF OwnAttempt
<1>7. \/ \E k \in Kinds : InsertEvent(k)
      \/ InsertTransition \/ AdvancePointer \/ RetryBumps \/ MarkProcessed
      \/ UNCHANGED <<log, marked, item>>
  BY DEF Next, ProjectorNext, UserNext, Fetch, Take, WriteRow, ReadItem, Annotate,
     PublishStage, MarkFails, FetchFails, EndBatch, ReadStatus, CountItems, WriteStatus, RollupFails,
     RetryReads, RetryWrites, CancelReads, CancelWrites, CancelSets, Crash, vars
<1> QED
  BY <1>1, <1>2, <1>3, <1>4, <1>5, <1>6, <1>7

\* The INSERT puts a stage ahead of the pointer and has the event at hand for a
\* witness; the mark takes the witness away when the pointer has caught up.
LEMMA StepPointer ==
  ASSUME IInv, [Next]_vars
  PROVE  PointerInv'
<1>i. /\ HandInv /\ TypeOK /\ BatchInv /\ PointerInv
      /\ item.cycle \in Nat \ {0} /\ item.stage \in StageKeys /\ Stage \in StageKeys
  BY ItemFacts DEF IInv
<1>k. Working => Event \in Unprocessed /\ Kind \in Kinds
  BY <1>i, EventIs DEF BatchInv
<1>1. ASSUME NEW k \in Kinds, InsertEvent(k) PROVE PointerInv'
  <2>1. item' = item
    BY <1>1 DEF InsertEvent
  <2>2. \A i \in Unprocessed : i \in Unprocessed' /\ log'[i] = log[i]
    BY <1>i, <1>1, InsertFacts, LogFacts
  <2> QED
    BY <1>i, <2>1, <2>2 DEF PointerInv
<1>2. CASE InsertTransition
  <2>1. /\ item'.cycle = item.cycle /\ item'.stage = item.stage
        /\ item'.hist = item.hist \union {<<c, Stage>>}
        /\ log' = log /\ Unprocessed' = Unprocessed
    BY <1>i, <1>2, ItemFacts DEF InsertTransition, Unprocessed
  <2>2. c \in 1..item.cycle /\ Kind # "failed"
    BY <1>i, <1>2 DEF InsertTransition, HandInv
  <2>3. Event \in Unprocessed /\ Stage \in Says[log[Event]]
    BY <1>2, <1>k, <2>2, SaidFacts DEF InsertTransition, Working, Kind
  <2>4. EnteredIn(item'.hist, item.cycle) \subseteq EnteredIn(item.hist, item.cycle) \union {Stage}
    BY <2>1 DEF EnteredIn
  <2>5. EnteredIn(item.hist, item.cycle) \subseteq EnteredIn(item'.hist, item.cycle)
    BY <2>1 DEF EnteredIn
  <2>6. \A t \in EnteredIn(item'.hist, item.cycle) :
          \/ Ordinal[t] <= Ordinal[item.stage]
          \/ \E i \in Unprocessed : t \in Says[log[i]]
    BY <1>i, <2>3, <2>4 DEF PointerInv
  <2>7. \A h \in item'.hist : h[1] \in 1..item.cycle
    BY <1>i, <2>1, <2>2 DEF PointerInv
  <2> QED
    BY <1>i, <2>1, <2>5, <2>6, <2>7 DEF PointerInv
<1>3. CASE AdvancePointer
  <2>1. /\ item'.cycle = item.cycle /\ item'.hist = item.hist
        /\ log' = log /\ Unprocessed' = Unprocessed
        /\ item'.stage = IF c = item.cycle /\ Ordinal[item.stage] < Ordinal[Stage]
                         THEN Stage ELSE item.stage
    BY <1>i, <1>3, ItemFacts DEF AdvancePointer, Unprocessed
  <2>2. c = item.cycle => Stage \in EnteredIn(item.hist, item.cycle)
    BY <1>i, <1>3 DEF AdvancePointer, HandInv, EnteredIn
  <2>3. /\ Ordinal[item.stage] <= Ordinal[item'.stage]
        /\ item'.stage \in EnteredIn(item.hist, item.cycle) \union {"requested"}
    BY <1>i, <2>1, <2>2, OrdinalFacts DEF PointerInv
  <2>4. item'.stage \in StageKeys /\ EnteredIn(item.hist, item.cycle) \subseteq StageKeys
    BY <1>i, <2>1 DEF EnteredIn
  <2>5. \A t \in EnteredIn(item.hist, item.cycle) :
          Ordinal[t] <= Ordinal[item.stage] => Ordinal[t] <= Ordinal[item'.stage]
    BY <1>i, <2>3, <2>4, OrdinalFacts
  <2> QED
    BY <1>i, <2>1, <2>3, <2>5 DEF PointerInv
<1>4. CASE RetryBumps
  <2>1. /\ item'.cycle = item.cycle + 1 /\ item'.hist = item.hist /\ item'.stage = "requested"
    BY <1>i, <1>4, ItemFacts
  <2>2. EnteredIn(item.hist, item.cycle + 1) = {}
    BY <1>i DEF PointerInv, EnteredIn
  <2>3. 1..item.cycle \subseteq 1..(item.cycle + 1)
    BY <1>i
  <2> QED
    BY <1>i, <2>1, <2>2, <2>3 DEF PointerInv
<1>5. CASE MarkProcessed
  <2>1. /\ item' = item /\ log' = log /\ pc = "mark"
        /\ Unprocessed' = Unprocessed \ {Event}
    BY <1>5 DEF MarkProcessed, Unprocessed
  <2>2. ASSUME NEW t \in EnteredIn(item.hist, item.cycle), t \in Says[Kind]
        PROVE  Ordinal[t] <= Ordinal[item.stage]
    <3>1. t = Stage /\ Kind # "failed"
      BY <1>k, <2>1, <2>2, SaidFacts DEF Working
    <3> QED
      BY <1>i, <2>1, <2>2, <3>1 DEF HandInv, EnteredIn
  <2>3. ASSUME NEW t \in EnteredIn(item.hist, item.cycle), ~(Ordinal[t] <= Ordinal[item.stage])
        PROVE  \E i \in Unprocessed \ {Event} : t \in Says[log[i]]
    BY <1>i, <2>2, <2>3 DEF PointerInv, Kind
  <2> QED
    BY <1>i, <2>1, <2>3 DEF PointerInv
<1>6. CASE UNCHANGED <<log, marked, item>>
  BY <1>6, <1>i DEF PointerInv, Unprocessed
<1>7. \/ \E k \in Kinds : InsertEvent(k)
      \/ InsertTransition \/ AdvancePointer \/ RetryBumps \/ MarkProcessed
      \/ UNCHANGED <<log, marked, item>>
  BY DEF Next, ProjectorNext, UserNext, Fetch, Take, WriteRow, ReadItem, Annotate,
     PublishStage, MarkFails, FetchFails, EndBatch, ReadStatus, CountItems, WriteStatus, RollupFails,
     RetryReads, RetryWrites, CancelReads, CancelWrites, CancelSets, Crash, vars
<1> QED
  BY <1>1, <1>2, <1>3, <1>4, <1>5, <1>6, <1>7

(* The rollup --------------------------------------------------------------*)

\* Of the stages recorded here only "available" reaches it.
LEMMA AvailableFacts ==
  /\ ~(Ordinal["requested"] >= Ordinal["available"])
  /\ \A s \in {"downloaded", "available"} : Ordinal[s] >= Ordinal["available"] => s = "available"
BY DEF Ordinal, StageKeys

\* Nothing moves a movie to "available" while a rollup is at work, and a Cancel is
\* the only other writer of the status.
LEMMA StepFlush ==
  ASSUME IInv, [Next]_vars
  PROVE  FlushInv'
<1> USE DEF FlushInv
<1>i. FlushInv /\ TypeOK /\ HandInv /\ BatchInv
  BY DEF IInv
<1>1. CASE ReadStatus
  BY <1>1, <1>i DEF ReadStatus, TypeOK
<1>2. CASE CountItems
  BY <1>2, <1>i DEF CountItems
<1>3. CASE WriteStatus \/ RollupFails
  BY <1>3 DEF WriteStatus, RollupFails
<1>4. CASE Fetch \/ EndBatch
  BY <1>4, <1>i DEF Fetch, EndBatch
<1>5. CASE Take \/ WriteRow \/ ReadItem \/ Annotate \/ PublishStage \/ MarkProcessed
           \/ MarkFails \/ FetchFails
  BY <1>5, <1>i DEF Take, WriteRow, ReadItem, Annotate, PublishStage, MarkProcessed,
     MarkFails, FetchFails, GiveUp
<1>6. CASE InsertTransition \/ AdvancePointer
  BY <1>6, <1>i DEF InsertTransition, AdvancePointer
<1>7. CASE RetryBumps
  <2>1. ~Reached(item, "available")'
    BY <1>7, <1>i, ItemFacts, AvailableFacts DEF Reached
  <2>2. UNCHANGED <<status, pc, touched, seen, next>>
    BY <1>7 DEF RetryBumps
  <2> QED
    BY <1>i, <2>1, <2>2
<1>8. CASE CancelSets
  BY <1>8, <1>i DEF CancelSets, Reached
<1>9. CASE Crash
  BY <1>9, <1>i DEF Crash
<1>10. CASE UNCHANGED <<item, status, pc, touched, seen, next>>
  BY <1>10, <1>i DEF Reached
<1>11. \/ ReadStatus \/ CountItems \/ WriteStatus \/ RollupFails \/ Fetch \/ EndBatch
       \/ Take \/ WriteRow \/ ReadItem \/ Annotate \/ PublishStage \/ MarkProcessed
       \/ MarkFails \/ FetchFails
       \/ InsertTransition \/ AdvancePointer \/ RetryBumps \/ CancelSets \/ Crash
       \/ UNCHANGED <<item, status, pc, touched, seen, next>>
  BY DEF Next, ProjectorNext, UserNext, InsertEvent, RetryReads, RetryWrites,
     CancelReads, CancelWrites, vars
<1> QED
  BY <1>1, <1>2, <1>3, <1>4, <1>5, <1>6, <1>7, <1>8, <1>9, <1>10, <1>11

\* An event at hand is of the kind the oldest open one is.
LEMMA OldestKind ==
  ASSUME TypeOK, BatchInv, batch # {}
  PROVE  OldestIs(Kind) /\ \A k \in Kinds : OldestIs(k) => Kind = k
<1>1. /\ Event \in Unprocessed /\ Event \in Nat /\ \A i \in Unprocessed : Event <= i
      /\ Unprocessed \subseteq Nat
  BY EventIs, EventIsOldest, LogFacts
<1>2. ASSUME NEW k \in Kinds, OldestIs(k) PROVE Kind = k
  <2>1. PICK i \in Unprocessed : log[i] = k /\ \A j \in Unprocessed : i <= j
    BY <1>2 DEF OldestIs
  <2>2. i = Event
    BY <1>1, <2>1
  <2> QED
    BY <2>1, <2>2 DEF Kind
<1> QED
  BY <1>1, <1>2 DEF OldestIs, Kind

\* The places from which the pointer may be seen behind "available".
LEMMA StepBehind ==
  ASSUME IInv, [Next]_vars
  PROVE  BehindInv'
<1> DEFINE First == pc = "advance" /\ fresh /\ Kind = "available" /\ c = item.cycle
           Again == /\ missed /\ ~touched
                    /\ OldestIs("available")
                    /\ pc \in {"wait", "next", "read", "insert", "advance"}
                    /\ pc # "wait" => batch # {}
                    /\ pc \in {"insert", "advance"} => c = item.cycle
<1>i. /\ BehindInv /\ TypeOK /\ HandInv /\ BatchInv /\ PointerInv
      /\ item.cycle \in Nat \ {0} /\ item.stage \in StageKeys /\ "available" \in Kinds
  BY ItemFacts DEF IInv, Kinds
<1>b. Behind => First \/ Again
  BY <1>i DEF BehindInv
<1>k. OldestIs("available") /\ batch # {} => Kind = "available"
  BY <1>i, OldestKind
<1> SUFFICES ASSUME Behind' PROVE (First \/ Again)'
  BY DEF BehindInv
<1>1. ASSUME NEW k \in Kinds, InsertEvent(k) PROVE (First \/ Again)'
  <2>1. UNCHANGED <<item, pc, batch, c, fresh, touched, missed>> /\ Behind
    BY <1>1 DEF InsertEvent, Behind, Reached
  <2>2. pc = "advance" => Kind' = Kind
    BY <1>1, <1>i, InsertFacts DEF BatchInv, Working
  <2>3. OldestIs("available") => OldestIs("available")'
    <3>1. ASSUME NEW i \in Unprocessed PROVE log'[i] = log[i] /\ i <= Len(log) + 1
      BY <1>1, <1>i, InsertFacts, LogFacts
    <3> QED
      BY <1>1, <1>i, <3>1, InsertFacts DEF OldestIs
  <2> QED
    BY <1>b, <2>1, <2>2, <2>3
<1>2. CASE Fetch
  <2>1. /\ Behind /\ pc = "wait" /\ pc' = "next" /\ touched' = FALSE
        /\ missed' = missed /\ batch' = Oldest /\ OldestIs("available")' = OldestIs("available")
    BY <1>2 DEF Fetch, FetchBatch, Behind, Reached, OldestIs, Unprocessed
  <2>2. Oldest # {}
    BY <1>2, <1>i, OldestFacts DEF Fetch
  <2> QED
    BY <1>b, <2>1, <2>2
<1>3. CASE Take \/ ReadItem
  <2>1. /\ Behind /\ pc \in {"next", "read"} /\ UNCHANGED <<log, marked, item, batch, touched, missed>>
        /\ OldestIs("available")' = OldestIs("available")
    BY <1>3 DEF Take, ReadItem, Behind, Reached, OldestIs, Unprocessed
  <2>2. Again /\ Kind = "available"
    BY <1>b, <1>k, <2>1
  <2>3. pc' = "read" \/ (pc' = "insert" /\ c' = item.cycle)
    BY <1>3, <2>2 DEF Take, ReadItem, CycleOf
  <2> QED
    BY <2>1, <2>2, <2>3
<1>4. CASE Annotate
  <2>1. Behind /\ pc = "read" /\ Kind = "failed"
    BY <1>4 DEF Annotate, Behind, Reached
  <2> QED
    BY <1>b, <1>k, <2>1
<1>5. CASE InsertTransition
  <2>1. /\ item'.cycle = item.cycle /\ item'.stage = item.stage
        /\ item'.hist = item.hist \union {<<c, Stage>>}
        /\ pc = "insert" /\ pc' = "advance" /\ c' = c
        /\ UNCHANGED <<log, marked, batch, touched, missed>>
        /\ OldestIs("available")' = OldestIs("available") /\ Kind' = Kind
    BY <1>5, <1>i, ItemFacts, SameEvent DEF InsertTransition, OldestIs, Unprocessed
  <2>2. CASE Behind
    BY <1>b, <2>1, <2>2
  <2>3. CASE ~Behind
    <3>1. <<item.cycle, "available">> = <<c, Stage>> /\ <<c, Stage>> \notin item.hist
      BY <2>1, <2>3 DEF Behind, Reached
    <3>2. c = item.cycle /\ Stage = "available" /\ fresh'
      BY <1>5, <3>1 DEF InsertTransition, Applies
    <3>3. Kind = "available"
      <4>1. Kind # "ready" /\ Kind # "failed"
        BY <1>5, <1>i, <3>2, SaidFacts DEF InsertTransition, HandInv
      <4> QED
        BY <1>i, <2>1, <4>1, EventIs, SaidFacts DEF BatchInv, Working
    <3> QED
      BY <2>1, <3>2, <3>3
  <2> QED
    BY <2>2, <2>3
<1>6. CASE AdvancePointer
  <2>1. /\ item'.cycle = item.cycle /\ item'.hist = item.hist /\ pc = "advance"
        /\ item'.stage = IF c = item.cycle /\ Ordinal[item.stage] < Ordinal[Stage]
                         THEN Stage ELSE item.stage
    BY <1>6, <1>i, ItemFacts DEF AdvancePointer
  <2>2. Stage \in StageKeys
    BY <1>i, ItemFacts
  <2>3. ~(Ordinal[item'.stage] >= Ordinal["available"])
    BY DEF Behind, Reached
  <2>4. ~(Ordinal[item.stage] >= Ordinal["available"])
    BY <1>i, <2>1, <2>2, <2>3, OrdinalFacts, AvailableFacts DEF StageKeys
  <2>5. Behind
    BY <2>1, <2>4 DEF Behind, Reached
  <2>6. c = item.cycle /\ Stage = "available"
    BY <1>b, <1>k, <2>1, <2>5, SaidFacts
  <2>7. Ordinal[item.stage] \in Int /\ Ordinal[Stage] \in Int
    BY <1>i, <2>2, OrdinalFacts
  <2>8. Ordinal[item.stage] < Ordinal[Stage]
    BY <2>4, <2>6, <2>7
  <2> QED
    BY <2>1, <2>3, <2>6, <2>7, <2>8
<1>7. CASE RetryBumps
  <2>1. item'.cycle = item.cycle + 1 /\ item'.hist = item.hist
    BY <1>7, <1>i, ItemFacts
  <2>2. <<item.cycle + 1, "available">> \notin item.hist
    BY <1>i DEF PointerInv
  <2> QED
    BY <2>1, <2>2 DEF Behind
<1>8. CASE WriteRow \/ PublishStage \/ MarkProcessed \/ MarkFails \/ FetchFails \/ EndBatch
           \/ ReadStatus
           \/ CountItems \/ WriteStatus \/ RollupFails
  <2>1. Behind /\ (pc = "next" => batch = {})
        /\ pc \in {"row", "publish", "mark", "next", "flush", "count", "write"}
    BY <1>8 DEF WriteRow, PublishStage, MarkProcessed, MarkFails, FetchFails, EndBatch,
       ReadStatus, CountItems, WriteStatus, RollupFails, Behind, Reached
  <2> QED
    BY <1>b, <2>1
<1>9. CASE Crash
  <2>1. /\ Behind /\ pc' = "wait" /\ touched' = FALSE
        /\ OldestIs("available")' = OldestIs("available")
    BY <1>9 DEF Crash, Behind, Reached, OldestIs, Unprocessed
  <2>2. missed' = (missed \/ touched \/ (fresh /\ pc \in {"advance", "publish"}))
    BY <1>9 DEF Crash
  <2>3. First => OldestIs("available")
    BY <1>i, OldestKind DEF BatchInv, Working
  <2> QED
    BY <1>b, <2>1, <2>2, <2>3
<1>10. CASE UNCHANGED <<log, marked, item, pc, batch, c, fresh, touched, missed>>
  <2>1. Kind' = Kind /\ Behind /\ OldestIs("available")' = OldestIs("available")
    BY <1>10, SameEvent DEF Behind, Reached, OldestIs, Unprocessed
  <2> QED
    BY <1>b, <1>10, <2>1
<1>11. \/ \E k \in Kinds : InsertEvent(k)
       \/ Fetch \/ Take \/ ReadItem \/ Annotate \/ InsertTransition \/ AdvancePointer
       \/ RetryBumps
       \/ WriteRow \/ PublishStage \/ MarkProcessed \/ MarkFails \/ FetchFails \/ EndBatch
       \/ ReadStatus
       \/ CountItems \/ WriteStatus \/ RollupFails \/ Crash
       \/ UNCHANGED <<log, marked, item, pc, batch, c, fresh, touched, missed>>
  BY DEF Next, ProjectorNext, UserNext, RetryReads, RetryWrites, CancelReads, CancelWrites,
     CancelSets, vars
<1> QED
  BY <1>1, <1>2, <1>3, <1>4, <1>5, <1>6, <1>7, <1>8, <1>9, <1>10, <1>11

\* The pointer reaches "available" for a transition that is news, which will be
\* touched, or after a crash that is on record.
LEMMA StepTold ==
  ASSUME IInv, [Next]_vars
  PROVE  ToldInv'
<1> USE DEF ToldInv
<1>i. /\ ToldInv /\ BehindInv /\ FlushInv /\ TypeOK /\ HandInv /\ BatchInv
      /\ item.stage \in StageKeys
  BY ItemFacts DEF IInv
<1>1. CASE InsertTransition
  <2>1. Reached(item, "available")' = Reached(item, "available")
    BY <1>1, <1>i, ItemFacts DEF Reached
  <2> QED
    BY <1>1, <1>i, <2>1 DEF InsertTransition
<1>2. CASE AdvancePointer
  <2>1. /\ pc = "advance" /\ UNCHANGED <<status, touched, missed>>
        /\ pc' = (IF fresh THEN "publish" ELSE "mark")
    BY <1>2 DEF AdvancePointer, Announces
  <2>2. CASE Reached(item, "available")
    BY <1>i, <2>1, <2>2
  <2>3. CASE item' = item
    BY <1>i, <2>1, <2>3 DEF Reached
  <2>4. CASE fresh
    BY <2>1, <2>4
  <2>5. CASE ~Reached(item, "available") /\ item' # item /\ ~fresh
    <3> SUFFICES ASSUME Reached(item, "available")' PROVE missed
      BY <2>1
    <3>1. c = item.cycle /\ item'.stage = Stage /\ <<item.cycle, Stage>> \in item.hist
      BY <1>2, <1>i, <2>5, ItemFacts DEF AdvancePointer, Advance, Ahead, TypeOK, HandInv,
         Reached
    <3>2. Stage \in {"downloaded", "available"} /\ Ordinal[Stage] >= Ordinal["available"]
      BY <3>1 DEF Reached, Stage
    <3>3. Stage = "available"
      BY <3>2, AvailableFacts
    <3>4. Behind
      BY <2>5, <3>1, <3>3 DEF Behind
    <3> QED
      BY <1>i, <2>5, <3>4 DEF BehindInv
  <2> QED
    BY <2>2, <2>3, <2>4, <2>5
<1>3. CASE RetryBumps
  BY <1>3, <1>i, ItemFacts, AvailableFacts DEF Reached
<1>4. CASE WriteStatus
  <2>1. /\ pc = "write" /\ status' = (IF next # seen THEN next ELSE status) /\ item' = item
    BY <1>4 DEF WriteStatus
  <2> SUFFICES ASSUME Reached(item, "available"), status' = "active" PROVE FALSE
    BY <2>1 DEF Reached
  <2> QED
    BY <1>i, <2>1 DEF FlushInv
<1>5. CASE ReadStatus
  BY <1>5, <1>i DEF ReadStatus, Reached
<1>6. CASE Fetch \/ Annotate \/ PublishStage
  BY <1>6, <1>i DEF Fetch, Annotate, PublishStage, Reached, FlushInv
<1>7. CASE Crash \/ RollupFails
  BY <1>7, <1>i DEF Crash, RollupFails, Reached, HandInv
<1>8. CASE CancelSets
  BY <1>8 DEF CancelSets
<1>9. CASE Take \/ WriteRow \/ ReadItem \/ MarkProcessed \/ MarkFails \/ FetchFails
           \/ EndBatch \/ CountItems
  BY <1>9, <1>i DEF Take, WriteRow, ReadItem, MarkProcessed, MarkFails, FetchFails,
     EndBatch, CountItems, Reached
<1>10. CASE UNCHANGED <<item, status, pc, touched, missed>>
  BY <1>10, <1>i DEF Reached
<1>11. \/ InsertTransition \/ AdvancePointer \/ RetryBumps \/ WriteStatus \/ ReadStatus
       \/ RollupFails
       \/ Fetch \/ Annotate \/ PublishStage \/ Crash \/ CancelSets
       \/ Take \/ WriteRow \/ ReadItem \/ MarkProcessed \/ MarkFails \/ FetchFails
       \/ EndBatch \/ CountItems
       \/ UNCHANGED <<item, status, pc, touched, missed>>
  BY DEF Next, ProjectorNext, UserNext, InsertEvent, RetryReads, RetryWrites, CancelReads,
     CancelWrites, vars
<1> QED
  BY <1>1, <1>2, <1>3, <1>4, <1>5, <1>6, <1>7, <1>8, <1>9, <1>10, <1>11

(* The OnStage calls -------------------------------------------------------*)

Untold == item.hist \ (told \union InHand)

\* Only a crash adds to what is not announced, and one transition at most.
LEMMA StepHook ==
  ASSUME IInv, [Next]_vars
  PROVE  HookInv'
<1>i. /\ IsFiniteSet(item.hist) /\ Cardinality(Untold) <= crashes
      /\ TypeOK /\ HandInv /\ BatchInv /\ crashes \in Nat
  BY BoundsAssumption DEF IInv, HookInv, OneHookPerCrash, Untold, TypeOK
<1>u. IsFiniteSet(Untold) /\ Cardinality(Untold) \in Nat
  BY <1>i, FS_Subset, FS_CardinalityType DEF Untold
<1>s. ASSUME IsFiniteSet(item'.hist), Untold' \subseteq Untold, crashes' = crashes
      PROVE  HookInv'
  <2>1. Cardinality(Untold') <= Cardinality(Untold) /\ Cardinality(Untold') \in Nat
    BY <1>u, <1>s, FS_Subset, FS_CardinalityType
  <2> QED
    BY <1>i, <1>u, <1>s, <2>1 DEF HookInv, OneHookPerCrash, Untold
<1>1. ASSUME NEW k \in Kinds, InsertEvent(k) PROVE HookInv'
  <2>1. UNCHANGED <<item, told, pc, fresh, c, crashes>>
    BY <1>1 DEF InsertEvent
  <2>2. pc \in {"advance", "publish"} => Stage' = Stage
    BY <1>1, <1>i, InsertFacts DEF BatchInv, Working
  <2>3. InHand' = InHand
    BY <2>1, <2>2 DEF InHand
  <2> QED
    BY <1>i, <1>s, <2>1, <2>3 DEF Untold
<1>2. CASE InsertTransition
  <2>1. /\ item'.hist = item.hist \union {<<c, Stage>>} /\ UNCHANGED <<told, c, crashes>>
        /\ Stage' = Stage /\ pc = "insert" /\ pc' = "advance"
        /\ fresh' = (<<c, Stage>> \notin item.hist)
    BY <1>2, <1>i, ItemFacts, SameEvent DEF InsertTransition, Applies
  <2>2. Untold' \subseteq Untold
    BY <2>1 DEF Untold, InHand
  <2>3. IsFiniteSet(item'.hist)
    BY <1>i, <2>1, FS_AddElement
  <2> QED
    BY <1>s, <2>1, <2>2, <2>3
<1>3. CASE AdvancePointer
  <2>1. /\ item'.hist = item.hist /\ UNCHANGED <<told, c, fresh, crashes>>
        /\ Stage' = Stage /\ pc = "advance" /\ pc' = (IF fresh THEN "publish" ELSE "mark")
    BY <1>3, <1>i, ItemFacts, SameEvent DEF AdvancePointer, Announces
  <2>2. Untold' = Untold
    BY <2>1 DEF Untold, InHand
  <2> QED
    BY <1>i, <1>s, <2>1, <2>2
<1>4. CASE PublishStage
  <2>1. /\ item' = item /\ told' = told \union {<<c, Stage>>} /\ crashes' = crashes
    BY <1>4 DEF PublishStage
  <2>2. Untold' \subseteq Untold
    BY <2>1 DEF Untold, InHand
  <2> QED
    BY <1>i, <1>s, <2>1, <2>2
<1>5. CASE RetryBumps
  <2>1. item'.hist = item.hist /\ Stage' = Stage /\ UNCHANGED <<told, pc, c, fresh, crashes>>
    BY <1>5, <1>i, ItemFacts, SameEvent DEF RetryBumps
  <2>2. Untold' = Untold
    BY <2>1 DEF Untold, InHand
  <2> QED
    BY <1>i, <1>s, <2>1, <2>2
<1>6. CASE Crash
  <2>1. item' = item /\ told' = told /\ pc' = "wait" /\ crashes' = crashes + 1
    BY <1>6 DEF Crash
  <2> DEFINE Lost == Untold \union {<<c, Stage>>}
  <2>2. Untold' \subseteq Lost
    BY <2>1 DEF Untold, InHand
  <2>3. /\ IsFiniteSet(Lost) /\ Cardinality(Lost) \in Nat
        /\ Cardinality(Lost) = Cardinality(Untold) \/ Cardinality(Lost) = Cardinality(Untold) + 1
    <3>1. /\ IsFiniteSet(Lost)
          /\ Cardinality(Lost) = IF <<c, Stage>> \in Untold THEN Cardinality(Untold)
                                                           ELSE Cardinality(Untold) + 1
      BY <1>u, FS_AddElement, Zenon
    <3> QED
      BY <1>u, <3>1
  <2> HIDE DEF Lost
  <2>4. Cardinality(Untold') <= Cardinality(Lost) /\ Cardinality(Untold') \in Nat
    BY <2>2, <2>3, FS_Subset, FS_CardinalityType
  <2>5. Cardinality(Untold') <= crashes'
    BY <1>i, <1>u, <2>1, <2>3, <2>4
  <2> QED
    BY <1>i, <2>1, <2>5 DEF HookInv, OneHookPerCrash, Untold
<1>7. CASE /\ UNCHANGED <<item, told, crashes>>
           /\ pc \notin {"advance", "publish"} \/ ~fresh
           /\ pc' \notin {"advance", "publish"}
  <2>1. Untold' = Untold
    BY <1>7 DEF Untold, InHand
  <2> QED
    BY <1>i, <1>7, <1>s, <2>1
<1>8. CASE UNCHANGED <<log, batch, item, told, pc, c, fresh, crashes>>
  <2>1. Untold' = Untold
    BY <1>8, SameEvent DEF Untold, InHand
  <2> QED
    BY <1>i, <1>8, <1>s, <2>1
<1>9. \/ \E k \in Kinds : InsertEvent(k)
      \/ InsertTransition \/ AdvancePointer \/ PublishStage \/ RetryBumps \/ Crash
      \/ /\ UNCHANGED <<item, told, crashes>>
         /\ pc \notin {"advance", "publish"} /\ pc' \notin {"advance", "publish"}
      \/ UNCHANGED <<log, batch, item, told, pc, c, fresh, crashes>>
  BY DEF Next, ProjectorNext, UserNext, Fetch, Take, WriteRow, ReadItem, Annotate,
     MarkProcessed, MarkFails, FetchFails, GiveUp, EndBatch, ReadStatus, CountItems,
     WriteStatus, RollupFails, RetryReads, RetryWrites, CancelReads, CancelWrites, CancelSets, vars
<1> QED
  BY <1>1, <1>2, <1>3, <1>4, <1>5, <1>6, <1>7, <1>8, <1>9

(* The theorems ------------------------------------------------------------*)

\* The movie was grabbed, and that is on record and announced.
LEMMA InitInv ==
  ASSUME Init
  PROVE  IInv
<1> USE DEF Init
<1>1. /\ item.cycle = 1 /\ item.stage = "grabbed" /\ item.hist = {<<1, "grabbed">>}
      /\ item \in Item({NoError})
  BY DEF Item, StageKeys
<1>2. log \in Seq(Kinds) /\ Len(log) = 0 /\ DOMAIN log = {} /\ Unprocessed = {}
  BY DEF Unprocessed
<1>3. TypeOK
  <2>1. LogType
    <3>1. marked = {} /\ batch = {} /\ full = FALSE /\ 0 <= MaxEvents
      BY BoundsAssumption
    <3> HIDE DEF Init
    <3> QED
      BY <1>2, <3>1 DEF LogType
  <2>2. ItemType
    BY <1>1, BoundsAssumption DEF ItemType
  <2>3. 0 \in 0..MaxRetries /\ 0 \in 0..MaxFaults /\ 0 \in 0..0
    BY BoundsAssumption
  <2>4. RestType
    BY <2>3 DEF RestType
  <2> QED
    BY <2>1, <2>2, <2>4 DEF TypeOK, LogType, ItemType, RestType
<1>4. Attempts /\ BatchInv /\ HandInv /\ FlushInv
  BY <1>1, <1>2 DEF Attempts, BatchInv, Working, HandInv, FlushInv
<1>5. OwnAttempt
  BY <1>1 DEF OwnAttempt
<1>6. EnteredIn(item.hist, item.cycle) = {"grabbed"}
  BY <1>1 DEF EnteredIn, StageKeys
<1>7. PointerInv
  BY <1>1, <1>6, OrdinalFacts DEF PointerInv, StageKeys
<1>8. BehindInv
  BY <1>1 DEF BehindInv, Behind
<1>9. ToldInv
  BY <1>1 DEF ToldInv, Reached, Ordinal, StageKeys
<1>10. HookInv
  <2>1. item.hist \ (told \union InHand) = {} /\ crashes = 0
    BY <1>1
  <2>2. Cardinality({}) <= 0
    BY FS_EmptySet
  <2> QED
    BY <1>1, <2>1, <2>2, FS_Singleton, Zenon DEF HookInv, OneHookPerCrash
<1> QED
  BY <1>3, <1>4, <1>5, <1>7, <1>8, <1>9, <1>10 DEF IInv

\* The invariant is inductive.
THEOREM Inductive == Spec => []IInv
<1>1. Init => IInv
  BY InitInv
<1>2. IInv /\ [Next]_vars => IInv'
  BY StepType, StepAttempts, StepBatch, StepHand, StepOwnAttempt, StepPointer, StepFlush,
     StepBehind, StepTold, StepHook DEF IInv
<1> QED
  BY <1>1, <1>2, PTL DEF Spec

\* Every variable keeps its type: a batch holds only ids that are still open,
\* and the projector stays at a place of its loop.
THEOREM TypeCorrect == Spec => []TypeOK
<1>1. IInv => TypeOK
  BY DEF IInv
<1> QED
  BY <1>1, Inductive, PTL

\* A marked event is on record, in an attempt that has begun, and a job in the
\* one its download was grabbed for.
THEOREM OwnAttemptCorrect == Spec => []OwnAttempt
<1>1. IInv => OwnAttempt
  BY DEF IInv
<1> QED
  BY <1>1, Inductive, PTL

\* Once the log is drained, whatever has crashed, failed or been retried, the
\* movie is shown at the furthest stage of its attempt.
THEOREM PointerCorrect == Spec => []PointerCatchesUp
<1>1. ASSUME IInv, Quiet PROVE item.stage = Furthest(item.hist, item.cycle)
  <2>1. Unprocessed = {}
    BY <1>1 DEF Quiet, Unprocessed
  <2> QED
    BY <1>1, <2>1, TopIsFurthest DEF IInv, PointerInv
<1>2. IInv => PointerCatchesUp
  BY <1>1 DEF PointerCatchesUp
<1> QED
  BY <1>2, Inductive, PTL

\* A movie that is available is reported, unless a crash lost the touch.
THEOREM CompletionCorrect == Spec => []CompletionReported
<1>1. IInv => CompletionReported
  BY DEF IInv, CompletionReported, ToldInv, FlushInv, Quiet
<1> QED
  BY <1>1, Inductive, PTL

\* A crash costs the OnStage call of one transition at most.
THEOREM HooksCorrect == Spec => []OneHookPerCrash
<1>1. IInv => OneHookPerCrash
  BY DEF IInv, HookInv
<1> QED
  BY <1>1, Inductive, PTL

(* The refinement ----------------------------------------------------------*)

\* The event at hand is the oldest open one in the abstract log, too.
LEMMA EventIsLogOldest ==
  ASSUME TypeOK, BatchInv, batch # {}
  PROVE  Event \in DOMAIN log /\ Log!Oldest(Event)
<1>1. /\ Event \in Unprocessed /\ Event \in Nat
      /\ \A i \in Unprocessed : Event <= i
      /\ DOMAIN log = 1..Len(log) /\ Len(log) \in Nat
  BY EventIs, EventIsOldest, LogFacts
<1>2. ASSUME NEW i \in 1..(Event - 1) PROVE i \in marked
  BY <1>1 DEF Unprocessed
<1> QED
  BY <1>1, <1>2 DEF Log!Oldest, Unprocessed

\* Each of the four statements that show is a step of EventLog.
LEMMA StepKeepsLog ==
  ASSUME IInv, [Next]_vars
  PROVE  [Log!Next]_(Log!vars)
<1>i. /\ TypeOK /\ BatchInv /\ HandInv /\ item.cycle \in Nat \ {0}
  BY ItemFacts DEF IInv
<1>k. Working => batch # {} /\ Kind \in Kinds /\ Event \in DOMAIN log /\ Log!Oldest(Event)
  BY <1>i, EventIs, EventIsLogOldest DEF BatchInv
<1>o. ASSUME Kind \in {"ready", "available"}, c \in 1..item.cycle, Kind = "ready" => c = Link
      PROVE  c \in Own[Kind] /\ Says[Kind] = {Stage}
  BY <1>i, <1>o, SaidFacts DEF Own, Kinds
<1>1. ASSUME NEW k \in Kinds, InsertEvent(k) PROVE Log!Next
  BY <1>1 DEF InsertEvent, Log!Next, Log!Insert
<1>2. CASE InsertTransition
  <2>1. /\ item'.cycle = item.cycle /\ item'.hist = item.hist \union {<<c, Stage>>}
        /\ log' = log /\ marked' = marked /\ Working
    BY <1>2, <1>i, ItemFacts DEF InsertTransition, Working
  <2>2. /\ c \in 1..item.cycle
        /\ Kind = "ready" => c = Link
        /\ Kind \in {"ready", "available"}
    BY <1>2, <1>i, <1>k, <2>1, SaidFacts DEF InsertTransition, HandInv
  <2>3. c \in 1..item.cycle /\ Stage \in Says[log[Event]] /\ c \in Own[log[Event]]
    BY <1>o, <2>2 DEF Kind
  <2>4. Log!Apply(Event, c, Stage)
    BY <1>k, <2>1, <2>3 DEF Log!Apply
  <2> QED
    BY <1>k, <2>1, <2>3, <2>4 DEF Log!Next
<1>3. CASE AdvancePointer
  <2>1. item'.cycle = item.cycle /\ item'.hist = item.hist /\ log' = log /\ marked' = marked
    BY <1>3, <1>i, ItemFacts DEF AdvancePointer
  <2> QED
    BY <2>1 DEF Log!vars
<1>4. CASE RetryBumps
  <2>1. item'.cycle = item.cycle + 1 /\ item'.hist = item.hist /\ log' = log /\ marked' = marked
    BY <1>4, <1>i, ItemFacts DEF RetryBumps
  <2> QED
    BY <2>1 DEF Log!Next, Log!Begin
<1>5. CASE MarkProcessed
  <2>1. item' = item /\ log' = log /\ marked' = marked \union {Event} /\ Working
    BY <1>5 DEF MarkProcessed, Working
  <2>2. Kind = "failed" \/ Kind \in {"ready", "available"}
    BY <1>k, <2>1 DEF Kinds
  <2>3. \A s \in Says[Kind] :
          \E a \in 1..item.cycle : a \in Own[Kind] /\ <<a, s>> \in item.hist
    <3>1. CASE Kind = "failed"
      BY <3>1, SaidFacts
    <3>2. CASE Kind \in {"ready", "available"}
      <4>1. /\ c \in 1..item.cycle
            /\ Kind = "ready" => c = Link
            /\ <<c, Stage>> \in item.hist
        BY <1>5, <1>i, <3>2 DEF MarkProcessed, HandInv
      <4> QED
        BY <1>o, <3>2, <4>1
    <3> QED
      BY <2>2, <3>1, <3>2
  <2>4. Log!Done(Event)
    BY <1>k, <2>1, <2>3 DEF Log!Done, Kind
  <2> QED
    BY <1>k, <2>1, <2>4 DEF Log!Next
<1>6. CASE UNCHANGED <<log, marked, item>>
  BY <1>6 DEF Log!vars
<1>7. \/ \E k \in Kinds : InsertEvent(k)
      \/ InsertTransition \/ AdvancePointer \/ RetryBumps \/ MarkProcessed
      \/ UNCHANGED <<log, marked, item>>
  BY DEF Next, ProjectorNext, UserNext, Fetch, Take, WriteRow, ReadItem, Annotate,
     PublishStage, MarkFails, FetchFails, EndBatch, ReadStatus, CountItems, WriteStatus, RollupFails,
     RetryReads, RetryWrites, CancelReads, CancelWrites, CancelSets, Crash, vars
<1> QED
  BY <1>1, <1>2, <1>3, <1>4, <1>5, <1>6, <1>7

\* The drain implements EventLog: of its statements only four show, and those
\* in between, the crashes and the faults are stutters.
THEOREM Refinement == Spec => KeepsLog
<1>1. Init => Log!Init
  BY DEF Init, Log!Init
<1>2. IInv /\ [Next]_vars => [Log!Next]_(Log!vars)
  BY StepKeepsLog
<1> QED
  BY <1>1, <1>2, Inductive, PTL DEF Spec, KeepsLog, Log!Spec
\* What EventLog promises amounts to this of every log that keeps it: the part
\* that is done with is a prefix, it is on record, and nothing else is.
LEMMA LogFaithful == Log!Spec => []Log!Faithful
<1> DEFINE attempt == item.cycle
           record  == item.hist
           LogIs   == log \in Seq(Kinds) /\ marked \subseteq DOMAIN log /\ attempt \in Nat
           Prefix  == \A i \in marked : 1..i \subseteq marked
           Put(l, k, h)   == h[1] \in Own[l[k]] /\ h[2] \in Says[l[k]]
           Recorded == \A i \in marked : \A s \in Says[log[i]] :
                         \E a \in 1..attempt : a \in Own[log[i]] /\ <<a, s>> \in record
           Said == \A h \in record \ {<<1, "grabbed">>} : \E i \in DOMAIN log :
                     1..(i - 1) \subseteq marked /\ Put(log, i, h)
           LInv == LogIs /\ Prefix /\ Recorded /\ Said
<1>1. Log!Init => LInv
  BY DEF Log!Init
<1>2. ASSUME LInv, [Log!Next]_(Log!vars) PROVE LInv'
  <2>0. Len(log) \in Nat /\ DOMAIN log = 1..Len(log)
    BY <1>2
  <2>1. ASSUME NEW k \in Kinds, Log!Insert(k) PROVE LInv'
    <3>1. /\ log' \in Seq(Kinds) /\ DOMAIN log' = 1..(Len(log) + 1)
          /\ \A i \in DOMAIN log : log'[i] = log[i]
          /\ marked' = marked /\ record' = record /\ attempt' = attempt
      BY <1>2, <2>0, <2>1 DEF Log!Insert
    <3>2. DOMAIN log \subseteq DOMAIN log'
      BY <2>0, <3>1
    <3>3. LogIs' /\ Prefix' /\ Recorded'
      BY <1>2, <3>1, <3>2
    <3>4. Said'
      BY <1>2, <3>1, <3>2
    <3> QED
      BY <3>3, <3>4
  <2>2. CASE Log!Begin
    <3>1. /\ attempt' = attempt + 1 /\ UNCHANGED <<log, marked, record>>
          /\ 1..attempt \subseteq 1..(attempt + 1) /\ attempt + 1 \in Nat
      BY <1>2, <2>2 DEF Log!Begin
    <3> QED
      BY <1>2, <3>1
  <2>3. ASSUME NEW i \in DOMAIN log, NEW a \in 1..attempt, NEW s \in Says[log[i]],
               Log!Apply(i, a, s)
        PROVE  LInv'
    <3>1. /\ log' = log /\ marked' = marked /\ record' = record \union {<<a, s>>}
          /\ attempt' = attempt /\ 1..(i - 1) \subseteq marked /\ a \in Own[log[i]]
      BY <2>3 DEF Log!Apply, Log!Oldest
    <3>2. Recorded'
      BY <1>2, <3>1
    <3>3. Said'
      <4>1. Put(log, i, <<a, s>>)
        BY <2>3, <3>1
      <4> HIDE DEF Put
      <4> QED
        BY <1>2, <3>1, <4>1
    <3> QED
      BY <1>2, <3>1, <3>2, <3>3
  <2>4. ASSUME NEW i \in DOMAIN log, Log!Done(i) PROVE LInv'
    <3>1. /\ log' = log /\ marked' = marked \union {i} /\ record' = record
          /\ 1..(i - 1) \subseteq marked
          /\ attempt' = attempt
          /\ \A s \in Says[log[i]] :
               \E a \in 1..attempt : a \in Own[log[i]] /\ <<a, s>> \in record
      BY <2>4 DEF Log!Done, Log!Oldest
    <3>2. 1..i \subseteq marked \union {i}
      BY <2>0, <3>1
    <3>3. LogIs' /\ Prefix'
      BY <1>2, <2>4, <3>1, <3>2
    <3>4. Recorded'
      BY <1>2, <3>1
    <3>5. Said'
      <4> HIDE DEF Put
      <4> QED
        BY <1>2, <3>1
    <3> QED
      BY <3>3, <3>4, <3>5
  <2>5. CASE UNCHANGED Log!vars
    BY <1>2, <2>5 DEF Log!vars
  <2> QED
    BY <1>2, <2>1, <2>2, <2>3, <2>4, <2>5 DEF Log!Next
<1>3. LInv => Log!Faithful
  BY DEF Log!Faithful
<1> QED
  BY <1>1, <1>2, <1>3, PTL DEF Log!Spec

\* So the drain inherits it: the marked events are a prefix of the log and on
\* record, and what is on record was said by an event all before it are done with.
THEOREM LogCorrect == Spec => []Log!Faithful
BY Refinement, LogFaithful, PTL DEF KeepsLog

\* A cancellation and a row given up are safe from all who read after them.
THEOREM OverwritesCorrect == Spec => OnlyStaleReadsOverwrite
<1> DEFINE Kept ==
      /\ status = "canceled" /\ ~RollupHasRead => status' = "canceled" /\ ~RollupHasRead'
      /\ row \in Terminal /\ ~HandlerHasRead => row' \in Terminal /\ ~HandlerHasRead'
<1>1. ASSUME IInv, [Next]_vars PROVE [Kept]_vars
  <2> USE DEF RollupHasRead, HandlerHasRead, Terminal
  <2>i. TypeOK /\ BatchInv
    BY <1>1 DEF IInv
  <2>1. CASE WriteRow
    <3>1. Kind \in Kinds
      BY <2>1, <2>i, EventIs DEF WriteRow, BatchInv, Working
    <3> QED
      BY <2>1, <3>1 DEF WriteRow, Advanced, Kinds
  <2>2. CASE Take
    BY <2>2 DEF Take
  <2>3. CASE ReadStatus
    BY <2>3 DEF ReadStatus
  <2>4. CASE CountItems \/ WriteStatus \/ RollupFails
    BY <2>4 DEF CountItems, WriteStatus, RollupFails
  <2>5. CASE RetryWrites \/ CancelWrites \/ CancelSets
    BY <2>5 DEF RetryWrites, CancelWrites, CancelSets
  <2>6. CASE /\ UNCHANGED <<status, row>>
             /\ pc' \notin {"row", "count", "write"} \/ UNCHANGED <<pc, d>>
    BY <2>6
  <2>7. \/ WriteRow \/ Take \/ ReadStatus \/ CountItems \/ WriteStatus \/ RollupFails
        \/ RetryWrites \/ CancelWrites \/ CancelSets
        \/ /\ UNCHANGED <<status, row>>
           /\ pc' \notin {"row", "count", "write"} \/ UNCHANGED <<pc, d>>
    BY <1>1 DEF Next, ProjectorNext, UserNext, InsertEvent, Fetch, ReadItem, Annotate,
       InsertTransition, AdvancePointer, PublishStage, MarkProcessed, MarkFails,
       FetchFails, GiveUp, EndBatch, RetryReads, RetryBumps, CancelReads, Crash, vars
  <2> QED
    BY <2>1, <2>2, <2>3, <2>4, <2>5, <2>6, <2>7
<1> QED
  BY <1>1, Inductive, PTL DEF Spec, OnlyStaleReadsOverwrite
=============================================================================
