---------------------------- MODULE StuckProofs -----------------------------
(***************************************************************************)
(* Proofs about Stuck, for any number of stalls, failed searches, crashes  *)
(* and attempts by others.                                                 *)
(***************************************************************************)
EXTENDS Stuck, FiniteSets, FiniteSetTheorems, TLAPS

(* The inductive invariant -------------------------------------------------*)

One(b) == IF b THEN 1 ELSE 0

\* A retry of the current attempt is queued, or about to be.
Covered == \/ \E t \in tasks : t.key = item.cycle
           \/ pc = "enqueue" /\ listed = item.cycle

\* The attempts automatic retries may still begin: one for every task that did
\* not begin its own, for a task about to be queued, and for a stall no task
\* answers yet.
Claims == Cardinality(tasks) + One(pc = "enqueue")
            + One((quiet \/ stuck) /\ ~Covered) - One(pc = "search")

Paid == Automatic + Claims <= stalls + faults

\* A task names an attempt there was, and once it began another, an old one.
TasksTrue ==
  /\ IsFiniteSet(tasks) /\ \A t \in tasks : t.key <= item.cycle
  /\ pc \in {"retry", "search"} => cur \in tasks
  /\ pc = "search" => cur.key < item.cycle
  /\ listed <= item.cycle /\ (pc = "enqueue" => listed \in 1..item.cycle)

Bounded == faults + manual <= MaxUpsets

IInv == /\ TypeOK /\ TasksTrue /\ Paid /\ Bounded
        /\ NotStuckWhileWaiting /\ CanceledIsQuiet

(* Counting ----------------------------------------------------------------*)

LEMMA Added ==
  ASSUME NEW S, IsFiniteSet(S), NEW x
  PROVE  /\ IsFiniteSet(S \union {x}) /\ Cardinality(S \union {x}) \in Nat
         /\ Cardinality(S \union {x}) <= Cardinality(S) + 1
<1>1. Cardinality(S) \in Nat
  BY FS_CardinalityType
<1>2. IsFiniteSet(S \union {x}) /\ Cardinality(S \union {x}) \in Nat
  BY FS_AddElement, FS_CardinalityType
<1> QED
  BY <1>1, <1>2, FS_AddElement

LEMMA Taken ==
  ASSUME NEW S, IsFiniteSet(S), NEW x \in S
  PROVE  /\ IsFiniteSet(S \ {x}) /\ Cardinality(S \ {x}) \in Nat
         /\ Cardinality(S) \in Nat /\ Cardinality(S \ {x}) = Cardinality(S) - 1
BY FS_RemoveElement, FS_CardinalityType

LEMMA InitInv == Init => IInv
<1> SUFFICES ASSUME Init PROVE IInv
  OBVIOUS
<1>1. tasks = {} /\ item.cycle = 1 /\ item.stage = "requested" /\ item.err = NoError
  BY DEF Init
<1>2. IsFiniteSet(tasks) /\ Cardinality(tasks) = 0
  BY <1>1, FS_EmptySet
<1>3. MaxCycle \in Nat /\ 1 <= MaxCycle /\ MaxUpsets \in Nat /\ MaxStalls \in Nat
  BY BoundsAssumption DEF MaxCycle
<1>4. TypeOK
  <2>1. found \in [1..MaxCycle -> {"no", "new", "applied"}]
    BY DEF Init
  <2>2. item \in [cycle : 1..MaxCycle, stage : StageKeys, err : {NoError, AnError}]
    BY <1>3 DEF Init, StageKeys
  <2>3. 0 \in 0..MaxCycle /\ 0 \in 0..MaxStalls /\ 0 \in 0..MaxUpsets
    BY <1>3
  <2> QED
    BY <1>1, <2>1, <2>2, <2>3 DEF Init, TypeOK
<1>5. TasksTrue
  BY <1>1, <1>2 DEF Init, TasksTrue
<1>6. Paid
  BY <1>1, <1>2 DEF Init, Paid, Claims, One, Automatic, Covered
<1>7. Bounded /\ NotStuckWhileWaiting /\ CanceledIsQuiet
  BY <1>3 DEF Init, Bounded, NotStuckWhileWaiting, CanceledIsQuiet
<1> QED
  BY <1>4, <1>5, <1>6, <1>7 DEF IInv

\* What is paid for bounds the attempts there can be.
LEMMA Arithmetic ==
  ASSUME NEW c \in Nat, NEW m \in Nat, NEW f \in Nat, NEW s \in 0..MaxStalls, NEW k \in Nat,
         c - 1 - m + k <= s + f, f + m <= MaxUpsets
  PROVE  c <= MaxCycle /\ f \in 0..MaxUpsets /\ m \in 0..MaxUpsets
BY BoundsAssumption DEF MaxCycle

LEMMA CyclesBounded ==
  ASSUME TasksTrue', Paid', Bounded', item'.cycle \in Nat,
         stalls' \in 0..MaxStalls, faults' \in Nat, manual' \in Nat
  PROVE  item'.cycle <= MaxCycle /\ faults' \in 0..MaxUpsets /\ manual' \in 0..MaxUpsets
<1>1. PICK n \in Nat : Cardinality(tasks') = n
  BY FS_CardinalityType DEF TasksTrue
<1>2. pc' = "search" => n # 0
  BY <1>1, FS_EmptySet DEF TasksTrue
<1>3. PICK k \in Nat : Claims' = k
  <2>1. PICK a \in {0, 1}, b \in {0, 1} : Claims' = n + a + b - One(pc' = "search")
    <3>1. \A x \in BOOLEAN : One(x) \in {0, 1}
      BY DEF One
    <3>2. Claims' = n + One(pc' = "enqueue") + One((quiet' \/ stuck') /\ ~Covered')
                      - One(pc' = "search")
      BY <1>1 DEF Claims
    <3> QED
      BY <3>1, <3>2
  <2>2. CASE pc' = "search"
    BY <1>2, <2>1, <2>2 DEF One
  <2>3. CASE pc' # "search"
    BY <2>1, <2>3 DEF One
  <2> QED
    BY <2>2, <2>3
<1>4. item'.cycle - 1 - manual' + k <= stalls' + faults' /\ faults' + manual' <= MaxUpsets
  BY <1>3 DEF Paid, Bounded, Automatic
<1> QED
  BY <1>4, Arithmetic

(* The row, the request and the pollers ------------------------------------*)

\* What a step of anyone but the controller may do to the row: begin an
\* attempt nobody pays for, which no stall is in, or nothing but stall.
RowStep ==
  \/ /\ item'.cycle = item.cycle /\ UNCHANGED <<faults, manual>>
     /\ \/ stalls' = stalls /\ (quiet' \/ stuck' => quiet \/ stuck)
        \/ stalls' = stalls + 1
  \/ /\ item'.cycle = item.cycle + 1 /\ manual' = manual + 1
     /\ UNCHANGED <<stalls, faults>> /\ ~quiet' /\ ~stuck'

LEMMA RowStepPays ==
  ASSUME IInv, UNCHANGED flowVars, RowStep
  PROVE  TasksTrue' /\ Paid'
<1>1. /\ item.cycle \in Nat /\ stalls \in Nat /\ faults \in Nat /\ manual \in Nat
      /\ \A t \in tasks : t.key \in Nat
      /\ listed \in Nat /\ cur \in tasks \union {NoTask} /\ NoTask.key \in Nat
  <2>1. /\ item \in [cycle : 1..MaxCycle, stage : StageKeys, err : {NoError, AnError}]
        /\ tasks \subseteq [key : 1..MaxCycle, attempts : 0..(MaxAttempts - 1)]
        /\ listed \in 0..MaxCycle /\ cur \in tasks \union {NoTask}
        /\ stalls \in 0..MaxStalls /\ faults \in 0..MaxUpsets /\ manual \in 0..MaxUpsets
    BY DEF IInv, TypeOK
  <2> QED
    BY <2>1 DEF NoTask
<1>2. UNCHANGED <<tasks, pc, cur, listed>>
  BY DEF flowVars
<1>3. item'.cycle \in Nat /\ item.cycle <= item'.cycle
  BY <1>1 DEF RowStep
<1>4. TasksTrue'
  <2>1. \A t \in tasks : t.key <= item'.cycle
    BY <1>1, <1>3 DEF IInv, TasksTrue
  <2>2. pc = "search" => cur.key < item'.cycle
    BY <1>1, <1>3 DEF IInv, TasksTrue
  <2> QED
    BY <1>1, <1>2, <1>3, <2>1, <2>2 DEF IInv, TasksTrue
<1>5. Cardinality(tasks) \in Nat
  BY FS_CardinalityType DEF IInv, TasksTrue
<1>6. item'.cycle = item.cycle => Covered' = Covered
  BY <1>2 DEF Covered
<1>7. Paid'
  <2>1. CASE item'.cycle = item.cycle
    BY <1>1, <1>2, <1>5, <1>6, <2>1 DEF IInv, RowStep, Paid, Claims, Automatic, One
  <2>2. CASE item'.cycle # item.cycle
    BY <1>1, <1>2, <1>5, <2>2 DEF IInv, RowStep, Paid, Claims, Automatic, One
  <2> QED
    BY <2>1, <2>2
<1> QED
  BY <1>4, <1>7

\* The rows an item may be.
Rows == [cycle : 1..MaxCycle, stage : StageKeys, err : {NoError, AnError}]

LEMMA RowType ==
  ASSUME IInv
  PROVE  /\ item \in Rows /\ item.cycle \in 1..MaxCycle /\ MaxCycle \in Nat
         /\ SetItemError(item, AnError).cycle = item.cycle
         /\ SetItemError(item, AnError) \in Rows
         /\ BumpItemCycle(item).cycle = item.cycle + 1
         /\ (item.cycle + 1 <= MaxCycle => BumpItemCycle(item) \in Rows)
<1>1. item \in Rows
  BY DEF IInv, TypeOK, Rows
<1>2. MaxCycle \in Nat
  BY BoundsAssumption DEF MaxCycle
<1>3. SetItemError(item, AnError).cycle = item.cycle /\ SetItemError(item, AnError) \in Rows
  BY <1>1 DEF SetItemError, Rows
<1>4. BumpItemCycle(item).cycle = item.cycle + 1
  BY <1>1 DEF BumpItemCycle, Rows
<1>5. ASSUME item.cycle + 1 <= MaxCycle PROVE BumpItemCycle(item) \in Rows
  <2>1. item.cycle + 1 \in 1..MaxCycle /\ "requested" \in StageKeys
    BY <1>1, <1>2, <1>5 DEF Rows, StageKeys
  <2> QED
    BY <1>1, <2>1 DEF BumpItemCycle, Rows
<1> QED
  BY <1>1, <1>2, <1>3, <1>4, <1>5 DEF Rows

\* ApplyStage never flags, stalls or begins an attempt.
LEMMA AdvanceRow ==
  ASSUME IInv, NEW s \in StageKeys, Advance(s)
  PROVE  /\ item'.cycle = item.cycle /\ stuck' \in BOOLEAN /\ quiet' \in BOOLEAN
         /\ item' \in Rows /\ (stuck' => stuck) /\ (quiet' => quiet)
<1>1. item \in Rows /\ stuck \in BOOLEAN /\ quiet \in BOOLEAN
  BY RowType DEF IInv, TypeOK
<1>2. [item EXCEPT !.stage = s] \in Rows /\ [item EXCEPT !.stage = s].cycle = item.cycle
  BY <1>1 DEF Rows
<1> QED
  BY <1>1, <1>2 DEF Advance

LEMMA OthersKeep ==
  ASSUME IInv, OthersNext \/ Flush \/ PresenceEvents
  PROVE  IInv'
<1>1. UNCHANGED flowVars /\ RowStep
  <2>1. CASE \E s \in ReportStages : Report(s)
    BY <2>1, AdvanceRow, ReportsAssumption DEF Report, RowStep, counts
  <2>2. CASE PresenceEvents
    BY <2>2, AdvanceRow DEF PresenceEvents, ApplyPresence, RowStep, counts, StageKeys
  <2>3. CASE Failure
    BY <2>3, RowType DEF Failure, RowStep, counts
  <2>4. CASE Again
    BY <2>4, RowType DEF Again, NewAttempt, RowStep
  <2>5. CASE TimePasses
    BY <2>5 DEF TimePasses, RowStep
  <2>6. CASE Progress
    BY <2>6 DEF Progress, RowStep, counts
  <2>7. CASE Released \/ FileArrives \/ Flush
    BY <2>7 DEF Released, FileArrives, Flush, RowStep, counts, rowVars
  <2>8. CASE SetsThenClears
    BY <2>8 DEF SetsThenClears, RowStep, counts, rowVars
  <2> QED
    BY <2>1, <2>2, <2>3, <2>4, <2>5, <2>6, <2>7, <2>8 DEF OthersNext
<1>2. TasksTrue' /\ Paid'
  BY <1>1, RowStepPays
<1>3. faults' \in Nat /\ manual' \in Nat /\ stalls' \in 0..MaxStalls /\ Bounded'
  <2>1. stalls \in 0..MaxStalls /\ faults \in Nat /\ manual \in Nat /\ MaxStalls \in Nat /\ MaxUpsets \in Nat
    BY BoundsAssumption DEF IInv, TypeOK
  <2>2. CASE Again
    BY <2>1, <2>2 DEF Again, Upset, Bounded
  <2>3. CASE TimePasses
    BY <2>1, <2>3 DEF TimePasses, IInv, Bounded
  <2>4. CASE UNCHANGED counts
    BY <2>1, <2>4 DEF counts, IInv, Bounded
  <2>5. Again \/ TimePasses \/ UNCHANGED counts
    BY DEF OthersNext, Failure, Progress, Released, FileArrives, SetsThenClears, Report,
           PresenceEvents, ApplyPresence, Flush
  <2> QED
    BY <2>2, <2>3, <2>4, <2>5
<1>4. item'.cycle <= MaxCycle /\ faults' \in 0..MaxUpsets /\ manual' \in 0..MaxUpsets
  <2>1. item'.cycle \in Nat
    BY <1>1, RowType DEF RowStep
  <2> QED
    BY <1>2, <1>3, <2>1, CyclesBounded
<1>5. TypeOK'
  <2>1. /\ item' \in Rows
        /\ stuck' \in BOOLEAN /\ quiet' \in BOOLEAN /\ stamp' = stamp
    <3>1. CASE (\E s \in ReportStages : Report(s)) \/ PresenceEvents
      BY <3>1, AdvanceRow, ReportsAssumption
         DEF Report, PresenceEvents, ApplyPresence, StageKeys
    <3>2. CASE Failure
      BY <3>2, RowType DEF Failure, IInv, TypeOK
    <3>3. CASE Again
      BY <3>3, <1>4, RowType DEF Again, NewAttempt
    <3>4. CASE UNCHANGED <<item, stamp>>
      BY <3>4 DEF OthersNext, Flush, Progress, TimePasses, SetsThenClears, Released,
                  FileArrives, rowVars, IInv, TypeOK, Again, NewAttempt, Failure, Report,
                  PresenceEvents, ApplyPresence, Advance, Rows
    <3> QED
      BY <3>1, <3>2, <3>3, <3>4 DEF OthersNext, Flush, Progress, TimePasses,
                  SetsThenClears, Released, FileArrives, rowVars
  <2>2. /\ status' \in {"active", "completed", "canceled"} /\ touched' \in BOOLEAN
        /\ cancel' \in {"no", "half", "done", "cut"}
        /\ out' \in BOOLEAN /\ onDisk' \in BOOLEAN
    BY DEF OthersNext, Flush, Progress, TimePasses, SetsThenClears, Released, FileArrives,
           Again, Failure, Report, PresenceEvents, ApplyPresence, requestVars, radarrVars,
           IInv, TypeOK
  <2>3. /\ UNCHANGED <<release, seen>>
        /\ found' \in [1..MaxCycle -> {"no", "new", "applied"}]
    BY DEF OthersNext, Flush, Progress, TimePasses, SetsThenClears, Released, FileArrives,
           Again, Failure, Report, PresenceEvents, ApplyPresence, pollVars, IInv, TypeOK
  <2> QED
    BY <1>1, <1>3, <1>4, <2>1, <2>2, <2>3 DEF IInv, TypeOK, flowVars, Rows
<1>6. NotStuckWhileWaiting' /\ CanceledIsQuiet'
  <2>1. CASE (\E s \in ReportStages : Report(s)) \/ PresenceEvents
    BY <2>1, AdvanceRow, ReportsAssumption
       DEF Report, PresenceEvents, ApplyPresence, StageKeys, IInv, NotStuckWhileWaiting,
           CanceledIsQuiet
  <2>2. CASE Failure \/ Again
    BY <2>2 DEF Failure, Again, NewAttempt, requestVars, IInv, NotStuckWhileWaiting,
           CanceledIsQuiet
  <2>3. CASE UNCHANGED item /\ ~PresenceEvents /\ ~(\E s \in ReportStages : Report(s))
    BY <2>3 DEF OthersNext, Flush, Progress, TimePasses, SetsThenClears, Released, Failure,
           FileArrives, Again, NewAttempt, rowVars, requestVars, IInv, TypeOK,
           NotStuckWhileWaiting, CanceledIsQuiet
  <2> QED
    BY <2>1, <2>2, <2>3 DEF OthersNext, Flush, Progress, TimePasses,
                  SetsThenClears, Released, FileArrives, rowVars
<1> QED
  BY <1>2, <1>3, <1>5, <1>6 DEF IInv

LEMMA WatchersKeep ==
  ASSUME IInv, MarkStuck \/ ReleaseNext \/ PresenceNext
  PROVE  IInv'
<1>1. UNCHANGED <<item, quiet, requestVars, radarrVars, flowVars, counts>>
  BY DEF MarkStuck, ReleaseNext, ReleaseLists, ReleaseLooks, ReleaseSets, ReleaseClears,
         PresenceNext, PresenceLists, PresenceEmits, SetAwaitingRelease, rowVars
<1>2. stuck' => stuck \/ quiet
  BY DEF MarkStuck, Stalled, ReleaseNext, ReleaseLists, ReleaseLooks, ReleaseSets,
         ReleaseClears, PresenceNext, PresenceLists, PresenceEmits, SetAwaitingRelease, rowVars
<1>3. TasksTrue' /\ Paid'
  BY <1>1, <1>2, RowStepPays DEF RowStep, counts
<1>4. TypeOK'
  <2>1. stuck' \in BOOLEAN /\ stamp' \in BOOLEAN
    BY DEF MarkStuck, ReleaseNext, ReleaseLists, ReleaseLooks, ReleaseSets, ReleaseClears,
           PresenceNext, PresenceLists, PresenceEmits, SetAwaitingRelease, rowVars, IInv, TypeOK
  <2>2. release' \in {"idle", "listed", "set", "clear"}
    BY DEF MarkStuck, ReleaseNext, ReleaseLists, ReleaseLooks, ReleaseSets, ReleaseClears,
           PresenceNext, PresenceLists, PresenceEmits, pollVars, IInv, TypeOK
  <2>3. seen' \in 0..MaxCycle /\ found' \in [1..MaxCycle -> {"no", "new", "applied"}]
    <3>1. seen \in 0..MaxCycle /\ item.cycle \in 1..MaxCycle /\ MaxCycle \in Nat
          /\ found \in [1..MaxCycle -> {"no", "new", "applied"}]
      BY RowType DEF IInv, TypeOK
    <3> QED
      BY <3>1 DEF MarkStuck, ReleaseNext, ReleaseLists, ReleaseLooks, ReleaseSets,
           ReleaseClears, PresenceNext, PresenceLists, PresenceEmits, pollVars, KeyOf
  <2> QED
    BY <1>1, <2>1, <2>2, <2>3 DEF IInv, TypeOK, requestVars, radarrVars, flowVars, counts
<1>5. Bounded'
  BY <1>1 DEF IInv, Bounded, counts
<1>6. NotStuckWhileWaiting' /\ CanceledIsQuiet'
  BY <1>1 DEF MarkStuck, Stalled, ReleaseNext, ReleaseLists, ReleaseLooks, ReleaseSets,
         ReleaseClears, PresenceNext, PresenceLists, PresenceEmits, SetAwaitingRelease,
         rowVars, requestVars, IInv, NotStuckWhileWaiting, CanceledIsQuiet
<1> QED
  BY <1>3, <1>4, <1>5, <1>6 DEF IInv

(* The controller ----------------------------------------------------------*)

\* What every step of the controller leaves true, whatever becomes of the flag.
LEMMA ControllerTypes ==
  ASSUME IInv, UNCHANGED <<stamp, requestVars, radarrVars, pollVars, stalls, manual>>,
         stuck' \in BOOLEAN, stuck' => stuck, quiet' \in BOOLEAN,
         TasksTrue', Paid', Bounded', faults' \in Nat, item'.cycle \in Nat,
         item'.cycle <= MaxCycle => item' \in Rows,
         pc' \in {"idle", "enqueue", "clear", "retry", "search"},
         cur' \in tasks' \union {NoTask},
         item'.cycle <= MaxCycle => listed' \in 0..MaxCycle,
         item'.cycle <= MaxCycle =>
           tasks' \subseteq [key : 1..MaxCycle, attempts : 0..(MaxAttempts - 1)]
  PROVE  IInv'
<1>1. stalls' \in 0..MaxStalls /\ manual' \in Nat
  BY DEF IInv, TypeOK
<1>2. item'.cycle <= MaxCycle /\ faults' \in 0..MaxUpsets /\ manual' \in 0..MaxUpsets
  BY <1>1, CyclesBounded
<1>3. TypeOK'
  BY <1>1, <1>2 DEF IInv, TypeOK, Rows, requestVars, radarrVars, pollVars
<1>4. NotStuckWhileWaiting' /\ CanceledIsQuiet'
  BY DEF IInv, NotStuckWhileWaiting, CanceledIsQuiet, requestVars
<1> QED
  BY <1>3, <1>4 DEF IInv

\* The types the steps below need, in one place.
LEMMA FlowTypes ==
  ASSUME IInv
  PROVE  /\ item.cycle \in Nat /\ stalls \in Nat /\ faults \in Nat /\ manual \in Nat
         /\ Cardinality(tasks) \in Nat /\ IsFiniteSet(tasks)
         /\ \A t \in tasks : t.key \in Nat /\ t.attempts \in Nat
         /\ tasks \subseteq [key : 1..MaxCycle, attempts : 0..(MaxAttempts - 1)]
         /\ item \in Rows /\ stuck \in BOOLEAN /\ quiet \in BOOLEAN
         /\ listed \in 0..MaxCycle /\ 0 <= item.cycle /\ MaxCycle \in Nat
<1>1. item \in Rows /\ MaxCycle \in Nat /\ item.cycle \in 1..MaxCycle
  BY RowType
<1>2. /\ stalls \in 0..MaxStalls /\ faults \in 0..MaxUpsets /\ manual \in 0..MaxUpsets
      /\ tasks \subseteq [key : 1..MaxCycle, attempts : 0..(MaxAttempts - 1)]
      /\ stuck \in BOOLEAN /\ quiet \in BOOLEAN /\ listed \in 0..MaxCycle
  BY DEF IInv, TypeOK
<1>3. IsFiniteSet(tasks) /\ Cardinality(tasks) \in Nat
  BY FS_CardinalityType DEF IInv, TasksTrue
<1>4. \A t \in tasks : t.key \in Nat /\ t.attempts \in Nat
  BY <1>2
<1> QED
  BY <1>1, <1>2, <1>3, <1>4

LEMMA SweepKeeps ==
  ASSUME IInv, SweepLists \/ SweepEnqueues \/ SweepClears
  PROVE  IInv'
<1> USE FlowTypes
<1>1. UNCHANGED <<item, stamp, quiet, requestVars, radarrVars, cur, pollVars, counts>>
  BY DEF SweepLists, SweepEnqueues, SweepClears, rowVars
<1>2. UNCHANGED <<stalls, manual, faults>>
  BY <1>1 DEF counts
<1>3. CASE SweepLists
  <2>1. /\ stuck /\ ~Covered /\ Covered' /\ pc = "idle" /\ pc' = "enqueue"
        /\ UNCHANGED <<tasks, stuck>> /\ listed' = item.cycle
    BY <1>1, <1>3 DEF SweepLists, Covered, rowVars
  <2>2. TasksTrue'
    <3>1. item.cycle \in 1..item.cycle
      BY DEF Rows
    <3> QED
      BY <1>1, <2>1, <3>1 DEF IInv, TasksTrue
  <2>3. Paid'
    BY <1>1, <1>2, <2>1 DEF IInv, Paid, Claims, Automatic, One
  <2> QED
    BY <1>1, <1>2, <2>1, <2>2, <2>3, ControllerTypes DEF IInv, TypeOK, Bounded
<1>4. CASE SweepEnqueues
  <2> DEFINE new == [key |-> listed, attempts |-> 0]
  <2>1. /\ pc = "enqueue" /\ pc' = "clear" /\ tasks' = tasks \union {new}
        /\ UNCHANGED <<stuck, listed>>
    BY <1>4 DEF SweepEnqueues, rowVars
  <2>2. /\ listed \in 1..item.cycle /\ new \in [key : 1..MaxCycle, attempts : 0..(MaxAttempts - 1)]
    BY <2>1, BoundsAssumption DEF IInv, TasksTrue, Rows
  <2>3. PICK n \in Nat : Cardinality(tasks') = n /\ n <= Cardinality(tasks) + 1
    BY <2>1, Added
  <2>4. IsFiniteSet(tasks') /\ Cardinality(tasks') = n
    BY <2>1, <2>3, Added
  <2>5. Covered => Covered'
    <3>1. new \in tasks' /\ new.key = listed /\ tasks \subseteq tasks'
      BY <2>1
    <3> HIDE DEF new
    <3> QED
      BY <1>1, <2>1, <3>1 DEF Covered
  <2>6. TasksTrue'
    <3>1. \A t \in tasks' : t.key <= item.cycle
      BY <2>1, <2>2 DEF IInv, TasksTrue
    <3> QED
      BY <1>1, <2>1, <2>4, <3>1 DEF IInv, TasksTrue
  <2>7. Paid'
    BY <1>1, <1>2, <2>1, <2>3, <2>5 DEF IInv, Paid, Claims, Automatic, One
  <2> QED
    BY <1>1, <1>2, <2>1, <2>2, <2>6, <2>7, ControllerTypes DEF IInv, TypeOK, Bounded
<1>5. CASE SweepClears
  <2>1. /\ pc = "clear" /\ pc' = "idle" /\ stuck' = FALSE /\ listed' = 0 /\ UNCHANGED tasks
    BY <1>5 DEF SweepClears
  <2>2. Covered' = Covered
    BY <1>1, <2>1 DEF Covered
  <2>3. TasksTrue'
    BY <1>1, <2>1 DEF IInv, TasksTrue
  <2>4. Paid'
    BY <1>1, <1>2, <2>1, <2>2 DEF IInv, Paid, Claims, Automatic, One
  <2>5. /\ 0 \in 0..MaxCycle /\ stuck' \in BOOLEAN /\ (stuck' => stuck) /\ item' \in Rows
        /\ quiet' \in BOOLEAN /\ item'.cycle \in Nat
    <3>1. 0 \in 0..MaxCycle /\ item' \in Rows /\ item'.cycle \in Nat /\ quiet' \in BOOLEAN
      BY <1>1
    <3>2. stuck' \in BOOLEAN /\ (stuck' => stuck)
      BY <2>1, Zenon
    <3> QED
      BY <3>1, <3>2
  <2>6. cur' \in tasks' \union {NoTask} /\ Bounded' /\ faults' \in Nat
    BY <1>1, <1>2, <2>1 DEF IInv, TypeOK, Bounded
  <2> QED
    BY <1>1, <1>2, <2>1, <2>3, <2>4, <2>5, <2>6, ControllerTypes
<1> QED
  BY <1>3, <1>4, <1>5

LEMMA RetryKeeps ==
  ASSUME IInv, (\E t \in tasks : Claim(t)) \/ RetryBumps
  PROVE  IInv'
<1> USE FlowTypes
<1>1. /\ UNCHANGED <<stamp, requestVars, radarrVars, tasks, listed, pollVars, counts>>
      /\ UNCHANGED <<stalls, manual, faults>>
  BY DEF Claim, RetryBumps, rowVars, counts
<1>2. CASE \E t \in tasks : Claim(t)
  <2>1. /\ pc = "idle" /\ pc' = "retry" /\ cur' \in tasks /\ UNCHANGED <<item, stuck, quiet>>
    BY <1>2 DEF Claim, rowVars
  <2>2. Covered' = Covered
    BY <1>1, <2>1 DEF Covered
  <2>3. TasksTrue'
    BY <1>1, <2>1 DEF IInv, TasksTrue
  <2>4. Paid'
    BY <1>1, <2>1, <2>2 DEF IInv, Paid, Claims, Automatic, One
  <2> QED
    BY <1>1, <2>1, <2>3, <2>4, ControllerTypes DEF IInv, TypeOK, Bounded
<1>3. CASE RetryBumps
  <2>1. /\ pc = "retry" /\ pc' = "search" /\ cur' = cur /\ cur \in tasks
        /\ item'.cycle = item.cycle + 1 /\ stuck' = FALSE /\ quiet' = FALSE
        /\ (item.cycle + 1 <= MaxCycle => item' \in Rows)
    BY <1>3, RowType DEF RetryBumps, NewAttempt, IInv, TasksTrue
  <2>2. TasksTrue'
    <3>1. \A t \in tasks : t.key <= item.cycle + 1 /\ t.key < item.cycle + 1
      BY DEF IInv, TasksTrue
    <3> QED
      BY <1>1, <2>1, <3>1 DEF IInv, TasksTrue
  <2>3. Paid'
    BY <1>1, <2>1 DEF IInv, Paid, Claims, Automatic, One
  <2>4. /\ item'.cycle \in Nat /\ (item'.cycle <= MaxCycle => item' \in Rows)
        /\ stuck' \in BOOLEAN /\ quiet' \in BOOLEAN /\ (stuck' => stuck)
    <3>1. item'.cycle \in Nat /\ (item'.cycle <= MaxCycle => item' \in Rows)
      BY <2>1
    <3>2. stuck' \in BOOLEAN /\ quiet' \in BOOLEAN /\ (stuck' => stuck)
      BY <2>1, Zenon
    <3> QED
      BY <3>1, <3>2
  <2>5. /\ faults' \in Nat /\ Bounded' /\ cur' \in tasks' \union {NoTask}
        /\ listed' \in 0..MaxCycle
        /\ tasks' \subseteq [key : 1..MaxCycle, attempts : 0..(MaxAttempts - 1)]
    BY <1>1, <2>1 DEF IInv, TypeOK, Bounded
  <2> QED
    BY <1>1, <2>1, <2>2, <2>3, <2>4, <2>5, ControllerTypes
<1> QED
  BY <1>2, <1>3

LEMMA ReturnKeeps ==
  ASSUME IInv, Finish \/ Reschedule
  PROVE  IInv'
<1> USE FlowTypes
<1> DEFINE later == [cur EXCEPT !.attempts = @ + 1]
           rest  == tasks \ {cur}
<1>1. /\ pc = "search" /\ pc' = "idle" /\ cur' = NoTask /\ cur \in tasks /\ cur.key < item.cycle
      /\ UNCHANGED <<item, stuck, stamp, quiet, requestVars, radarrVars, listed, pollVars>>
      /\ UNCHANGED <<stalls, manual>>
  BY DEF Finish, Reschedule, Return, rowVars, IInv, TasksTrue
<1>2. /\ IsFiniteSet(rest) /\ Cardinality(rest) = Cardinality(tasks) - 1
      /\ rest \subseteq tasks
  BY <1>1, Taken
<1>3. later.key = cur.key /\ (PutOff => later \in [key : 1..MaxCycle, attempts : 0..(MaxAttempts - 1)])
  <2>1. cur \in [key : 1..MaxCycle, attempts : 0..(MaxAttempts - 1)]
    BY <1>1
  <2>2. PutOff => cur.attempts + 1 \in 0..(MaxAttempts - 1)
    BY <2>1, BoundsAssumption DEF PutOff
  <2> QED
    BY <2>1, <2>2
<1>4. \/ tasks' = rest /\ faults' = faults
      \/ tasks' = rest /\ faults' = faults + 1 /\ Upset
      \/ tasks' = rest \union {later} /\ faults' = faults + 1 /\ Upset /\ PutOff
  BY DEF Finish, Reschedule, Return, Fault
<1> HIDE DEF rest, later
<1>5. PICK n \in Nat : /\ IsFiniteSet(tasks') /\ Cardinality(tasks') = n
                       /\ n <= Cardinality(tasks) /\ (faults' = faults => n <= Cardinality(tasks) - 1)
  <2>1. CASE tasks' = rest
    BY <1>1, <1>2, <2>1, Taken DEF rest
  <2>2. CASE tasks' = rest \union {later} /\ faults' = faults + 1
    <3>1. Cardinality(rest) \in Nat /\ Cardinality(rest \union {later}) \in Nat
          /\ Cardinality(rest \union {later}) <= Cardinality(rest) + 1
          /\ IsFiniteSet(rest \union {later})
      BY <1>2, Added, FS_CardinalityType
    <3> QED
      BY <1>2, <2>2, <3>1
  <2> QED
    BY <1>4, <2>1, <2>2
<1>6. /\ \A t \in tasks' : t \in rest \/ t = later
      /\ rest \subseteq tasks'
  BY <1>4
<1>7. Covered => Covered'
  <2>1. \A t \in tasks : t.key = item.cycle => t \in rest
    BY <1>1 DEF rest
  <2> QED
    BY <1>1, <1>6, <2>1 DEF Covered
<1>8. TasksTrue'
  <2>1. \A t \in tasks' : t.key <= item.cycle
    BY <1>1, <1>2, <1>3, <1>6 DEF IInv, TasksTrue
  <2> QED
    BY <1>1, <1>5, <2>1 DEF IInv, TasksTrue
<1>9. Paid'
  BY <1>1, <1>4, <1>5, <1>7 DEF IInv, Paid, Claims, Automatic, One
<1>10. faults' \in Nat /\ Bounded'
  BY <1>1, <1>4, BoundsAssumption DEF IInv, Bounded, Upset
<1>11. tasks' \subseteq [key : 1..MaxCycle, attempts : 0..(MaxAttempts - 1)]
  BY <1>2, <1>3, <1>4
<1> QED
  BY <1>1, <1>8, <1>9, <1>10, <1>11, ControllerTypes DEF IInv, TypeOK

LEMMA CrashKeeps ==
  ASSUME IInv, Crash
  PROVE  IInv'
<1> USE FlowTypes
<1>1. /\ pc' = "idle" /\ cur' = NoTask /\ listed' = 0
      /\ UNCHANGED <<item, stuck, stamp, quiet, status, out, onDisk, tasks, found>>
      /\ UNCHANGED <<stalls, manual>>
      /\ faults' = faults + 1 /\ Upset
      /\ release' = "idle" /\ seen' = 0 /\ touched' = FALSE
      /\ cancel' \in {cancel, "cut"}
  BY DEF Crash, Fault, rowVars, radarrVars
<1>2. Covered' = (\E t \in tasks : t.key = item.cycle)
  BY <1>1 DEF Covered
<1>3. TasksTrue'
  BY <1>1 DEF IInv, TasksTrue
<1>4. Paid'
  <2>1. CASE pc = "enqueue"
    BY <1>1, <2>1 DEF IInv, Paid, Claims, Automatic, One
  <2>2. CASE pc # "enqueue"
    <3>1. Covered' = Covered
      BY <1>2, <2>2 DEF Covered
    <3> QED
      BY <1>1, <2>2, <3>1 DEF IInv, Paid, Claims, Automatic, One
  <2> QED
    BY <2>1, <2>2
<1>5. faults' \in Nat /\ Bounded'
  BY <1>1, BoundsAssumption DEF IInv, Bounded, Upset
<1>6. stalls' \in 0..MaxStalls /\ manual' \in Nat /\ item'.cycle \in Nat
  BY <1>1 DEF IInv, TypeOK
<1>7. faults' \in 0..MaxUpsets /\ manual' \in 0..MaxUpsets
  BY <1>3, <1>4, <1>5, <1>6, CyclesBounded
<1>8. TypeOK'
  <2>1. 0 \in 0..MaxCycle /\ cancel' \in {"no", "half", "done", "cut"}
    BY <1>1 DEF IInv, TypeOK
  <2> QED
    BY <1>1, <1>6, <1>7, <2>1 DEF IInv, TypeOK
<1>9. NotStuckWhileWaiting' /\ CanceledIsQuiet'
  BY <1>1 DEF IInv, NotStuckWhileWaiting, CanceledIsQuiet
<1> QED
  BY <1>3, <1>4, <1>5, <1>8, <1>9 DEF IInv

(* The theorems ------------------------------------------------------------*)

LEMMA StepKeeps ==
  ASSUME IInv, [Next]_vars
  PROVE  IInv'
<1>1. CASE OthersNext \/ Flush \/ PresenceEvents
  BY <1>1, OthersKeep
<1>2. CASE MarkStuck \/ ReleaseNext \/ PresenceNext
  BY <1>2, WatchersKeep
<1>3. CASE ControllerNext
  BY <1>3, SweepKeeps, RetryKeeps, ReturnKeeps DEF ControllerNext
<1>4. CASE Crash
  BY <1>4, CrashKeeps
<1>5. CASE UNCHANGED vars
  BY <1>5 DEF vars, rowVars, requestVars, radarrVars, flowVars, pollVars, counts, IInv, TypeOK,
     TasksTrue, Paid, Claims, Covered, One, Automatic, Bounded, NotStuckWhileWaiting,
     CanceledIsQuiet
<1> QED
  BY <1>1, <1>2, <1>3, <1>4, <1>5 DEF Next

\* The inductive invariant holds of every behavior.
THEOREM Invariance == Spec => []IInv
<1>1. Init => IInv
  BY InitInv
<1>2. IInv /\ [Next]_vars => IInv'
  BY StepKeeps
<1> QED
  BY <1>1, <1>2, PTL DEF Spec

\* Rows, requests, tasks and goroutines keep their types, and no attempt
\* exceeds the bound that follows from who may begin one.
THEOREM TypeCorrect == Spec => []TypeOK
<1>1. IInv => TypeOK
  BY DEF IInv
<1> QED
  BY <1>1, Invariance, PTL

\* sweep, Retry and drain: the attempts nobody asked for never exceed the
\* thresholds that ran out, the failed searches and the crashes.
THEOREM RetriesBounded == Spec => []RetriesAreEarned
<1>1. IInv => RetriesAreEarned
  <2> SUFFICES ASSUME IInv PROVE RetriesAreEarned
    OBVIOUS
  <2> USE FlowTypes
  <2>1. pc = "search" => Cardinality(tasks) # 0
    BY FS_EmptySet DEF IInv, TasksTrue
  <2>2. \A x \in BOOLEAN : One(x) \in {0, 1}
    BY DEF One
  <2>3. PICK a \in {0, 1}, b \in {0, 1} :
          Claims = Cardinality(tasks) + a + b - One(pc = "search")
    BY <2>2 DEF Claims
  <2>4. Claims \in Nat
    <3>1. CASE pc = "search"
      BY <2>1, <2>3, <3>1 DEF One
    <3>2. CASE pc # "search"
      BY <2>3, <3>2 DEF One
    <3> QED
      BY <3>1, <3>2
  <2> QED
    BY <2>4 DEF IInv, Paid, RetriesAreEarned, Automatic
<1> QED
  BY <1>1, Invariance, PTL

\* MarkStuck against the release poller: an unreleased movie is not flagged.
THEOREM WaitingUnflagged == Spec => []NotStuckWhileWaiting
<1>1. IInv => NotStuckWhileWaiting
  BY DEF IInv
<1> QED
  BY <1>1, Invariance, PTL

\* MarkStuck against Cancel: a canceled request is not flagged again.
THEOREM CanceledUnflagged == Spec => []CanceledIsQuiet
<1>1. IInv => CanceledIsQuiet
  BY DEF IInv
<1> QED
  BY <1>1, Invariance, PTL

\* Both: whatever the sweeper, the release poller and Cancel interleave, no
\* badge is left on a movie that nothing can be done for.
THEOREM NoFalseBadgeCorrect == Spec => []NoFalseBadge
<1>1. NotStuckWhileWaiting /\ CanceledIsQuiet => NoFalseBadge
  BY DEF NoFalseBadge
<1> QED
  BY <1>1, WaitingUnflagged, CanceledUnflagged, PTL
=============================================================================
