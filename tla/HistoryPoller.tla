---------------------------- MODULE HistoryPoller ----------------------------
(***************************************************************************)
(* ArrHistoryPoller (backend/internal/poll/arrhistory.go) over the history *)
(* of Sonarr or Radarr: pages are fetched newest first down to the stored  *)
(* cursor, the records go into the event log oldest first, the cursor      *)
(* follows what is in the log.  Pages shift while the arr adds records;    *)
(* a request, an insert or the save of the cursor may fail; the process    *)
(* may die between any two of them.                                        *)
(*                                                                         *)
(* The poller compares ids, the arr sorts by date: records are named by    *)
(* the rank of their id, a later one has the same date or a later one.     *)
(* No record is deleted while the poller runs.                             *)
(***************************************************************************)
EXTENDS Integers, FiniteSets

CONSTANTS PageSize,   (* records on a page, 100 in the code                *)
          MaxPages,   (* pages of one pass, 10 in the code                 *)
          Relevant,   (* the records normalize() makes an event of         *)
          MaxRecords, (* bound on the records of the arr                   *)
          Ties,       (* bound on the records with the date of the one     *)
                      (* before them                                       *)
          MaxCrashes  (* bound on the crashes                              *)

ASSUME SizesAssumption == PageSize \in Nat \ {0} /\ MaxPages \in Nat \ {0}
ASSUME RelevantAssumption == Relevant \subseteq Nat \ {0}
ASSUME LimitsAssumption == MaxRecords \in Nat /\ MaxCrashes \in Nat

VARIABLES top,      (* the newest record of the arr                        *)
          date,     (* their dates                                         *)
          log,      (* the records with an event                           *)
          saved,    (* poll_state.cursor, 0 when there is none             *)
          pc,       (* where the pass is                                   *)
          since,    (* pass: sinceID                                       *)
          offset,   (* HistorySince: records on the pages fetched          *)
          records,  (* HistorySince: collected; pass: still to insert      *)
          split,    (* history: records of a date that was partly on a     *)
                    (* page of this pass                                   *)
          cursor,   (* pass: cursor                                        *)
          excused,  (* history: records a pass left out knowingly, in a    *)
                    (* first run or with the "window truncated" error      *)
          torn,     (* history: records a pass did not find on its pages   *)
                    (* because their date was split                        *)
          crashes   (* crashes so far                                      *)

arrVars  == <<top, date>>
passVars == <<since, offset, records, split, cursor>>
vars == <<arrVars, log, saved, pc, passVars, excused, torn, crashes>>

Window == MaxPages * PageSize

Init ==
  /\ top = 0 /\ date = <<>> /\ log = {} /\ saved = 0
  /\ pc = "idle" /\ since = 0 /\ offset = 0 /\ records = {} /\ split = {}
  /\ cursor = 0 /\ excused = {} /\ torn = {} /\ crashes = 0

\* The date of the newest record, or a later one.
Dates == IF top = 0 THEN {0}
         ELSE {date[top] + 1} \union {d \in {date[top]} : top + 1 \in Ties}

\* The arr adds a record, between passes or between pages.
NewRecord ==
  /\ top < MaxRecords
  /\ top' = top + 1
  /\ \E d \in Dates : date' = [n \in 1..top' |-> IF n = top' THEN d ELSE date[n]]
  /\ UNCHANGED <<log, saved, pc, passVars, excused, torn, crashes>>

\* The pass is over, its locals are gone.
Idle ==
  /\ pc' = "idle" /\ since' = 0 /\ offset' = 0
  /\ records' = {} /\ split' = {} /\ cursor' = 0

\* GetPollCursor.
Begin ==
  /\ pc = "idle" /\ pc' = "fetch"
  /\ since' = saved /\ cursor' = saved
  /\ offset' = 0 /\ records' = {} /\ split' = {}
  /\ UNCHANGED <<arrVars, log, saved, excused, torn, crashes>>

(* HistorySince ------------------------------------------------------------*)

\* The page in order of date and id.
Slice == {n \in 1..top : top - (offset + PageSize) < n /\ n <= top - offset}
At(d) == {n \in 1..top : date[n] = d}

\* The records of a date this page has in part.
Split == {n \in 1..top : ~(At(date[n]) \subseteq Slice)
                          /\ At(date[n]) \intersect Slice # {}}

\* Records of one date come in any order, for each request anew: of a date that
\* is split the page has any, as many as the slice.
Pages ==
  LET cut == Split
      part(P, n) == Cardinality(P \intersect At(date[n]))
  IN  {(Slice \ cut) \union Q : Q \in {Q \in SUBSET cut :
         \A n \in cut : part(Q, n) = part(Slice, n)}}

Collected(P) == records \union {n \in P : n > since}

\* The page holds a record that is known, or is not full: nothing is left.
Complete(P) == (\E n \in P : n <= since) \/ top - offset < PageSize
\* Mutant: one page too few.
WindowEndsEarly == offset + 2 * PageSize >= Window
WindowEnds == offset + PageSize >= Window

FetchPage ==
  /\ pc = "fetch" /\ ~WindowEnds
  /\ \E P \in Pages : ~Complete(P) /\ records' = Collected(P)
  /\ offset' = offset + PageSize
  /\ split'  = split \union Split
  /\ UNCHANGED <<arrVars, log, saved, pc, since, cursor, excused, torn, crashes>>

FirstRun == since = 0

\* What the cursor will pass.
Reached(P) == {n \in 1..top : n > since /\ \E r \in Collected(P) : n <= r}
\* What the pass leaves out: everything in a first run, and what it did not find
\* of a truncated window.
LeftOut(P) ==
  {n \in Reached(P) : FirstRun \/ (~Complete(P) /\ n \notin Collected(P))}
\* What it did not find because pages had their dates in part.
Hidden(P) == {n \in split \union Split : n > since /\ n \notin Collected(P)}

LastPage(P) ==
  /\ pc = "fetch" /\ (Complete(P) \/ WindowEnds)
  /\ excused' = excused \union LeftOut(P)
  /\ torn'    = torn \union Hidden(P)
  /\ IF Collected(P) = {} THEN Idle
     ELSE /\ pc' = "insert" /\ records' = Collected(P)
          /\ offset' = 0 /\ split' = {}
          /\ UNCHANGED <<since, cursor>>
  /\ UNCHANGED <<arrVars, log, saved, crashes>>

FetchFails ==
  /\ pc = "fetch" /\ Idle
  /\ UNCHANGED <<arrVars, log, saved, excused, torn, crashes>>

(* pass: the records, oldest first -----------------------------------------*)

Oldest(n) == n \in records /\ \A r \in records : n <= r
\* normalize() makes an event of it; a first run only moves the cursor.
Emits(n) == n \in Relevant /\ ~FirstRun

Advance(n) ==
  /\ records' = records \ {n}
  /\ cursor'  = n
  /\ pc' = IF records' = {} THEN "save" ELSE "insert"
  /\ UNCHANGED <<arrVars, saved, since, offset, split, excused, torn, crashes>>

\* InsertEvent under the record's dedupe key, if the record makes an event.
Insert(n) ==
  /\ pc = "insert" /\ Oldest(n)
  /\ log' = IF Emits(n) THEN log \union {n} ELSE log
  /\ Advance(n)

\* Mutant: a failed insert is skipped.
InsertSkips(n) ==
  /\ pc = "insert" /\ Oldest(n) /\ Emits(n)
  /\ Advance(n)
  /\ UNCHANGED log
\* A failed insert ends the loop, and the pass when nothing was inserted.
InsertFails(n) ==
  /\ pc = "insert" /\ Oldest(n) /\ Emits(n)
  /\ IF cursor = since THEN Idle
     ELSE /\ pc' = "save" /\ records' = {}
          /\ UNCHANGED <<since, offset, split, cursor>>
  /\ UNCHANGED <<arrVars, log, saved, excused, torn, crashes>>

\* SetPollCursor.
Save ==
  /\ pc = "save" /\ saved' = cursor /\ Idle
  /\ UNCHANGED <<arrVars, log, excused, torn, crashes>>

SaveFails ==
  /\ pc = "save" /\ Idle
  /\ UNCHANGED <<arrVars, log, saved, excused, torn, crashes>>

Crash ==
  /\ crashes < MaxCrashes /\ crashes' = crashes + 1
  /\ Idle
  /\ UNCHANGED <<arrVars, log, saved, excused, torn>>

InsertNext == \E n \in records : Insert(n)
FailNext   == FetchFails \/ SaveFails \/ \E n \in records : InsertFails(n)
LastNext   == \E P \in Pages : LastPage(P)
FetchNext  == FetchPage \/ LastNext

Next == \/ NewRecord \/ Begin \/ FetchNext \/ InsertNext \/ Save
        \/ FailNext \/ Crash

Spec == Init /\ [][Next]_vars

\* The ticker starts pass after pass; what is tried again and again succeeds
\* again and again.
FairSpec ==
  /\ Spec
  /\ WF_vars(Begin) /\ SF_vars(FetchPage) /\ SF_vars(LastNext)
  /\ SF_vars(InsertNext) /\ SF_vars(Save)

(* Properties --------------------------------------------------------------*)

TypeOK ==
  /\ top \in 0..MaxRecords
  /\ date \in [1..top -> Nat]
  /\ log \subseteq Relevant \intersect 1..top
  /\ saved \in 0..top /\ since \in 0..top /\ cursor \in 0..top
  /\ pc \in {"idle", "fetch", "insert", "save"}
  /\ offset \in Nat
  /\ records \subseteq 1..top /\ excused \subseteq 1..top /\ torn \subseteq 1..top
  /\ split \subseteq 1..top
  /\ crashes \in 0..MaxCrashes

\* arrhistory.go:68-71: the stored cursor never passes a record that should
\* have made an event and did not, whatever fails and wherever the process
\* dies, unless the pass left it out knowingly or its date lay across the end of
\* a page: a date that is whole on one page is passed over in no order.
NothingPassedOver ==
  \A n \in Relevant : n <= saved => n \in log \union excused \union torn

\* After the first run a record whose date is whole on a page is left out only
\* when more than the page budget is newer than it, pages that shift while they
\* are fetched included.
LeavesOutOnlyBeyondWindow ==
  \A n \in excused' \ excused : since = 0 \/ top - n >= Window \/ n \in torn'
WindowHonoured == [][LeavesOutOnlyBeyondWindow]_vars

\* Every record that should make an event makes one in the end, or is left out
\* knowingly, or its date lay across the end of a page.
RecordArrives ==
  \A n \in Relevant : n <= top ~> n \in log \union excused \union torn

(* What the sources say ----------------------------------------------------*)

\* arrhistory.go:68-71 without the exception.  Broken by a date across two
\* pages: a known record on the first ends the loop as complete
\* (arrmedia.go:277-280), and a newer one on the second is passed over.
CursorPassesNothing ==
  \A n \in Relevant : n <= saved => n \in log \union excused
=============================================================================
