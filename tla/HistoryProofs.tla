---------------------------- MODULE HistoryProofs ----------------------------
(***************************************************************************)
(* The cursor of the history poller passes nothing over but what a page    *)
(* boundary hides within a date, for pages and windows of any size and     *)
(* histories of any length.                                                *)
(***************************************************************************)
EXTENDS HistoryPoller, TLAPS

\* A pass works from the stored cursor on.
Resumes == pc # "idle" => since = saved

\* A later record has no earlier date.
DatesFollow == \A m, n \in 1..top : m <= n => date[m] <= date[n]

\* The records fetched so far have no gap above the pages still to come, but for
\* dates the pages had in part.
NoGap ==
  pc = "fetch" =>
    /\ cursor = since
    /\ \A r \in records : since < r
    /\ \A r \in records : \A n \in 1..r :
         n > since /\ n > top - offset => n \in records \union split

\* Nothing is missing between the cursor and the last record to insert, except
\* what the pass left out; what is behind the cursor is dealt with.
Ordered ==
  pc = "insert" =>
    /\ \A r \in records : cursor < r
    /\ FirstRun => records \subseteq excused
    /\ \A r \in records : \A n \in Relevant :
         cursor < n /\ n <= r => n \in records \union excused \union torn
Behind ==
  pc \in {"insert", "save"} =>
    \A n \in Relevant : n <= cursor => n \in log \union excused \union torn

IInv == /\ TypeOK /\ NothingPassedOver /\ Resumes /\ DatesFollow
        /\ NoGap /\ Ordered /\ Behind

LEMMA InitInv == Init => IInv
BY LimitsAssumption, RelevantAssumption
   DEF Init, IInv, TypeOK, NothingPassedOver, Resumes, DatesFollow, NoGap,
       Ordered, Behind

\* A pass that ends, or is cut off, leaves nothing to keep track of.
LEMMA IdleKeeps ==
  ASSUME IInv, Idle, UNCHANGED <<arrVars, log, excused, torn>>,
         saved' \in 0..top, crashes' \in 0..MaxCrashes,
         saved' = saved \/ (pc = "save" /\ saved' = cursor)
  PROVE  IInv'
BY DEF IInv, TypeOK, NothingPassedOver, Resumes, DatesFollow, NoGap, Ordered,
       Behind, Idle, arrVars

LEMMA NewRecordKeeps == ASSUME IInv, NewRecord PROVE IInv'
<1> USE DEF NewRecord, IInv, passVars
<1>0. PICK d \in Dates : date' = [n \in 1..top' |-> IF n = top' THEN d ELSE date[n]]
  OBVIOUS
<1>1. top \in Nat /\ top' = top + 1 /\ d \in Nat /\ date \in [1..top -> Nat]
  BY <1>0 DEF Dates, TypeOK
<1>2. \A n \in 1..top : date'[n] = date[n] /\ date[n] <= d
  BY <1>0, <1>1 DEF Dates, DatesFollow
<1>3. date' \in [1..top' -> Nat]
  BY <1>0, <1>1
<1>4. date'[top'] = d
  BY <1>0, <1>1
<1>5. TypeOK'
  BY <1>1, <1>3, LimitsAssumption DEF TypeOK
<1>6. DatesFollow'
  <2> SUFFICES ASSUME NEW m \in 1..top', NEW n \in 1..top', m <= n
               PROVE  date'[m] <= date'[n]
    BY DEF DatesFollow
  <2>1. CASE n = top' /\ m # top'
    BY <1>1, <1>2, <1>4, <2>1
  <2>2. CASE n # top'
    BY <1>1, <1>2, <2>2 DEF DatesFollow
  <2>3. CASE n = top' /\ m = top'
    BY <1>1, <1>4, <2>3
  <2> QED
    BY <2>1, <2>2, <2>3
<1>7. NothingPassedOver' /\ Resumes'
  BY DEF NothingPassedOver, Resumes
<1>8. NoGap'
  BY <1>1 DEF NoGap, TypeOK
<1>9. Ordered' /\ Behind'
  BY DEF Ordered, Behind, FirstRun
<1> QED
  BY <1>5, <1>6, <1>7, <1>8, <1>9

LEMMA BeginKeeps == ASSUME IInv, Begin PROVE IInv'
BY DEF Begin, IInv, TypeOK, NothingPassedOver, Resumes, DatesFollow, NoGap,
       Ordered, Behind, arrVars

\* Of a date that is not split a page has what is in the slice, and a record of a
\* split date stands for one of the same date that is.
LEMMA PageOf ==
  ASSUME IInv, NEW P \in Pages
  PROVE  /\ P \subseteq 1..top
         /\ \A n \in (1..top) \ Split : n \in P <=> n \in Slice
         /\ \A n \in P : \E m \in Slice : date[m] = date[n]
<1>1. PICK Q \in SUBSET Split : P = (Slice \ Split) \union Q
  BY DEF Pages
<1>2. \A n \in Split : n \in 1..top /\ \E m \in Slice : date[m] = date[n]
  BY DEF Split, At, Slice
<1>3. Slice \subseteq 1..top
  BY DEF Slice
<1> QED
  BY <1>1, <1>2, <1>3

\* Two records of one date, one on the slice and one not, are split.
LEMMA Parted ==
  ASSUME NEW m \in Slice, NEW n \in (1..top) \ Slice, date[m] = date[n]
  PROVE  n \in Split
BY DEF Split, At, Slice

\* The next page closes up to the ones before it, wherever it has shifted to.
LEMMA CollectedHasNoGap ==
  ASSUME IInv, pc = "fetch", NEW P \in Pages
  PROVE  \A r \in Collected(P) : \A n \in 1..r :
           n > since /\ n > top - (offset + PageSize)
             => n \in Collected(P) \union split \union Split
<1> SUFFICES ASSUME NEW r \in Collected(P), NEW n \in 1..r,
                    n > since, n > top - (offset + PageSize),
                    n \notin split \union Split
             PROVE  n \in Collected(P)
  OBVIOUS
<1>1. /\ r \in 1..top /\ n \in 1..top /\ top \in Nat /\ offset \in Nat
      /\ date \in [1..top -> Nat] /\ n <= r
  BY PageOf DEF IInv, TypeOK, Collected
<1>2. CASE n <= top - offset
  <2>1. n \in Slice
    BY <1>1, <1>2 DEF Slice
  <2> QED
    BY <1>1, <2>1, PageOf DEF Collected
<1>3. CASE n > top - offset
  <2>1. n \notin Slice
    BY <1>1, <1>3 DEF Slice
  <2>2. CASE r \in records
    BY <1>3, <2>2 DEF IInv, NoGap, Collected
  <2>3. CASE r \in P
    <3>1. PICK m \in Slice : date[m] = date[r]
      BY <2>3, PageOf
    <3>2. m \in 1..top /\ m <= n
      BY <1>1, <1>3 DEF Slice
    <3>3. date[m] <= date[n] /\ date[n] <= date[r]
      BY <1>1, <3>2 DEF IInv, DatesFollow
    <3>4. date[m] = date[n]
      BY <1>1, <3>1, <3>2, <3>3
    <3> QED
      BY <1>1, <2>1, <3>4, Parted
  <2> QED
    BY <2>2, <2>3 DEF Collected
<1> QED
  BY <1>1, <1>2, <1>3

\* What is behind a complete page is known, or its date is split.
LEMMA CompleteIsAll ==
  ASSUME IInv, pc = "fetch", NEW P \in Pages, Complete(P),
         NEW n \in 1..top, n > since, n <= top - (offset + PageSize)
  PROVE  n \in Split
<1>1. /\ top \in Nat /\ offset \in Nat /\ since \in Nat
      /\ date \in [1..top -> Nat] /\ PageSize \in Nat
  BY SizesAssumption DEF IInv, TypeOK
<1>2. PICK k \in P : k <= since
  BY <1>1 DEF Complete
<1>3. PICK m \in Slice : date[m] = date[k]
  BY PageOf
<1>4. k \in 1..top /\ m \in 1..top /\ k <= n /\ n <= m /\ n \notin Slice
  BY <1>1, <1>2, PageOf DEF Slice
<1>5. date[k] <= date[n] /\ date[n] <= date[m]
  BY <1>4 DEF IInv, DatesFollow
<1>6. date[m] = date[n]
  BY <1>1, <1>3, <1>4, <1>5
<1> QED
  BY <1>4, <1>6, Parted

LEMMA CollectedType ==
  ASSUME IInv, NEW P \in Pages
  PROVE  Collected(P) \subseteq 1..top /\ Split \subseteq 1..top
BY PageOf DEF IInv, TypeOK, Collected, Split

LEMMA FetchPageKeeps == ASSUME IInv, FetchPage PROVE IInv'
<1> USE DEF FetchPage, IInv, arrVars
<1>0. PICK P \in Pages : records' = Collected(P)
  OBVIOUS
<1>1. TypeOK'
  <2>1. offset + PageSize \in Nat
    BY SizesAssumption DEF TypeOK
  <2> QED
    BY <1>0, <2>1, CollectedType DEF TypeOK
<1>2. NoGap'
  <2>1. \A r \in Collected(P) : since < r
    BY DEF NoGap, Collected
  <2> QED
    BY <1>0, <2>1, CollectedHasNoGap DEF NoGap
<1> QED
  BY <1>1, <1>2 DEF NothingPassedOver, Resumes, DatesFollow, Ordered, Behind

\* What a last page leaves out is older than the window, or its date is split.
LEMMA LeftOutIsOld ==
  ASSUME IInv, NEW P \in Pages, LastPage(P), NEW n \in LeftOut(P), since # 0
  PROVE  top - n >= Window \/ n \in Hidden(P)
<1>1. PICK r \in Collected(P) : n <= r
  BY DEF LeftOut, Reached
<1>2. /\ n \in 1..top /\ r \in 1..top /\ n > since
      /\ n \notin Collected(P) /\ WindowEnds
  BY CollectedType DEF LastPage, LeftOut, Reached, FirstRun
<1>3. CASE n <= top - (offset + PageSize)
  <2>1. Window \in Int
    BY SizesAssumption DEF Window
  <2> QED
    BY <1>2, <1>3, <2>1, SizesAssumption DEF WindowEnds, IInv, TypeOK
<1>4. CASE n > top - (offset + PageSize)
  BY <1>1, <1>2, <1>4, CollectedHasNoGap DEF LastPage, Hidden
<1> QED
  BY <1>2, <1>3, <1>4, SizesAssumption DEF IInv, TypeOK

LEMMA LastPageKeeps == ASSUME IInv, NEW P \in Pages, LastPage(P) PROVE IInv'
<1> USE DEF LastPage, IInv
<1>1. /\ LeftOut(P) \subseteq 1..top /\ Hidden(P) \subseteq 1..top
      /\ Collected(P) \subseteq 1..top
  BY CollectedType DEF LeftOut, Reached, Hidden, TypeOK
<1>2. TypeOK'
  <2>1. /\ excused \union LeftOut(P) \subseteq 1..top
        /\ torn \union Hidden(P) \subseteq 1..top
    BY <1>1 DEF TypeOK
  <2>2. CASE Collected(P) = {}
    BY <2>1, <2>2 DEF TypeOK, Idle, arrVars
  <2>3. CASE Collected(P) # {}
    <3>1. /\ records' = Collected(P) /\ pc' = "insert" /\ offset' = 0 /\ split' = {}
          /\ excused' = excused \union LeftOut(P) /\ torn' = torn \union Hidden(P)
          /\ UNCHANGED <<since, cursor, top, date, log, saved, crashes>>
      BY <2>3 DEF arrVars
    <3> HIDE DEF LastPage
    <3> QED
      BY <1>1, <2>1, <3>1 DEF TypeOK
  <2> QED
    BY <2>2, <2>3
<1>3. NothingPassedOver' /\ Resumes' /\ DatesFollow' /\ NoGap'
  BY DEF NothingPassedOver, Resumes, DatesFollow, NoGap, Idle, arrVars
<1>4. Behind'
  BY DEF Behind, NothingPassedOver, Resumes, NoGap, Idle, arrVars
<1>5. Ordered'
  <2> SUFFICES ASSUME pc' = "insert" PROVE Ordered'
    BY DEF Ordered
  <2>1. /\ records' = Collected(P) /\ cursor' = since /\ since' = since
        /\ excused' = excused \union LeftOut(P) /\ torn' = torn \union Hidden(P)
    BY DEF NoGap, Idle, arrVars
  <2>2. \A r \in Collected(P) : since < r
    BY DEF NoGap, Collected
  <2>3. ASSUME NEW r \in Collected(P), NEW n \in Relevant, since < n, n <= r
        PROVE  n \in Collected(P) \union LeftOut(P) \union Hidden(P)
    <3>1. n \in 1..top /\ r \in 1..top /\ n \in 1..r /\ n \in Reached(P)
      BY <1>1, <2>3, RelevantAssumption DEF TypeOK, Reached
    <3>2. CASE n > top - (offset + PageSize)
      BY <2>3, <3>1, <3>2, CollectedHasNoGap DEF Hidden
    <3>3. CASE n <= top - (offset + PageSize)
      <4>1. CASE Complete(P)
        BY <2>3, <3>1, <3>3, <4>1, CompleteIsAll DEF Hidden
      <4>2. CASE ~Complete(P)
        BY <3>1, <4>2 DEF LeftOut
      <4> QED
        BY <4>1, <4>2
    <3> QED
      BY <3>1, <3>2, <3>3, SizesAssumption DEF TypeOK
  <2>4. FirstRun' => Collected(P) \subseteq LeftOut(P)
    <3>1. \A r \in Collected(P) : r \in 1..top /\ r <= r
      BY <1>1 DEF TypeOK
    <3> QED
      BY <2>1, <2>2, <3>1 DEF FirstRun, LeftOut, Reached
  <2> QED
    BY <2>1, <2>2, <2>3, <2>4 DEF Ordered, FirstRun
<1> QED
  BY <1>2, <1>3, <1>4, <1>5

\* The oldest record goes, and the cursor takes its place.
LEMMA AdvanceKeeps ==
  ASSUME IInv, NEW n \in records, pc = "insert", Oldest(n), Advance(n),
         log' \subseteq Relevant \intersect 1..top, log \subseteq log',
         n \in Relevant => n \in log' \union excused \union torn
  PROVE  IInv'
<1> USE DEF IInv, Advance, arrVars
<1>0. n \in 1..top /\ top \in Nat /\ records \subseteq 1..top
  BY DEF TypeOK
<1>1. TypeOK'
  BY <1>0 DEF TypeOK
<1>2. NothingPassedOver' /\ Resumes' /\ DatesFollow' /\ NoGap'
  BY DEF NothingPassedOver, Resumes, DatesFollow, NoGap
<1>3. Behind'
  <2>1. ASSUME NEW m \in Relevant, m <= n, m # n
        PROVE  m \in log' \union excused \union torn
    <3>1. CASE m <= cursor
      BY <2>1, <3>1 DEF Behind
    <3>2. CASE m > cursor
      <4>1. m \in records \union excused \union torn
        BY <2>1, <3>2 DEF Ordered
      <4>2. m \notin records
        BY <1>0, <2>1, RelevantAssumption DEF Oldest, TypeOK
      <4> QED
        BY <4>1, <4>2
    <3> QED
      BY <2>1, <3>1, <3>2, <1>0, RelevantAssumption DEF TypeOK
  <2> QED
    BY <2>1 DEF Behind
<1>4. Ordered'
  <2>1. ASSUME NEW r \in records, r # n PROVE n < r
    BY <1>0, <2>1 DEF Oldest
  <2>2. ASSUME NEW r \in records \ {n}, NEW m \in Relevant, n < m, m <= r
        PROVE  m \in (records \ {n}) \union excused \union torn
    BY <1>0, <2>2, RelevantAssumption DEF Ordered, TypeOK
  <2> QED
    BY <2>1, <2>2 DEF Ordered, FirstRun
<1> QED
  BY <1>1, <1>2, <1>3, <1>4

LEMMA InsertKeeps == ASSUME IInv, NEW n \in records, Insert(n) PROVE IInv'
<1>1. CASE Emits(n)
  BY <1>1, AdvanceKeeps DEF Insert, Emits, IInv, TypeOK
<1>2. CASE ~Emits(n)
  <2>1. n \in Relevant => n \in excused
    BY <1>2 DEF Insert, Emits, IInv, Ordered
  <2> QED
    BY <1>2, <2>1, AdvanceKeeps DEF Insert, IInv, TypeOK
<1> QED
  BY <1>1, <1>2

LEMMA InsertFailsKeeps == ASSUME IInv, NEW n \in records, InsertFails(n) PROVE IInv'
<1>1. CASE cursor = since
  BY <1>1, IdleKeeps DEF InsertFails, IInv, TypeOK
<1>2. CASE cursor # since
  BY <1>2 DEF InsertFails, IInv, TypeOK, NothingPassedOver, Resumes, DatesFollow,
       NoGap, Ordered, Behind, arrVars
<1> QED
  BY <1>1, <1>2

LEMMA StepKeeps == ASSUME IInv, [Next]_vars PROVE IInv'
<1>1. CASE UNCHANGED vars
  BY <1>1 DEF vars, arrVars, passVars, IInv, TypeOK, NothingPassedOver, Resumes,
       DatesFollow, NoGap, Ordered, Behind, FirstRun
<1>2. CASE Save \/ SaveFails \/ FetchFails
  BY <1>2, IdleKeeps DEF Save, SaveFails, FetchFails, IInv, TypeOK
<1>3. CASE Crash
  <2>1. crashes' \in 0..MaxCrashes /\ saved' \in 0..top
    BY <1>3, LimitsAssumption DEF Crash, IInv, TypeOK
  <2> QED
    BY <1>3, <2>1, IdleKeeps DEF Crash
<1> QED
  BY <1>1, <1>2, <1>3, NewRecordKeeps, BeginKeeps, FetchPageKeeps, LastPageKeeps,
     InsertKeeps, InsertFailsKeeps
     DEF Next, FetchNext, LastNext, InsertNext, FailNext

LEMMA Inductive == Spec => []IInv
BY InitInv, StepKeeps, PTL DEF Spec

\* Every variable keeps its type.
THEOREM TypeCorrect == Spec => []TypeOK
<1>1. IInv => TypeOK
  BY DEF IInv
<1> QED
  BY <1>1, Inductive, PTL

\* No record of interest is behind the stored cursor without an event, unless
\* it was left out knowingly, or a page had its date in part.
THEOREM CursorCorrect == Spec => []NothingPassedOver
<1>1. IInv => NothingPassedOver
  BY DEF IInv
<1> QED
  BY <1>1, Inductive, PTL

\* After the first run, what is left out is beyond the page budget, or of a date
\* a page had in part.
THEOREM WindowCorrect == Spec => WindowHonoured
<1>1. ASSUME IInv, Next PROVE LeavesOutOnlyBeyondWindow
  <2>1. ASSUME NEW P \in Pages, LastPage(P) PROVE LeavesOutOnlyBeyondWindow
    BY <1>1, <2>1, LeftOutIsOld DEF LastPage, LeavesOutOnlyBeyondWindow
  <2>2. CASE excused' = excused
    BY <2>2 DEF LeavesOutOnlyBeyondWindow
  <2> QED
    BY <1>1, <2>1, <2>2 DEF Next, FetchNext, LastNext, InsertNext, FailNext,
         NewRecord, Begin, FetchPage, Insert, Advance, InsertFails, Save,
         SaveFails, FetchFails, Crash
<1>2. IInv /\ [Next]_vars => [LeavesOutOnlyBeyondWindow]_vars
  BY <1>1
<1> QED
  BY <1>2, Inductive, PTL DEF Spec, WindowHonoured
=============================================================================
