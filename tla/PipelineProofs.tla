--------------------------- MODULE PipelineProofs ---------------------------
(***************************************************************************)
(* Theorems about Pipeline, for any number of items, requests, downloads   *)
(* and attempts.                                                           *)
(*                                                                         *)
(* Every handler but the grab is "quiet": it leaves the links and the keys *)
(* of the downloads alone, and moves each item by at most one stage or one *)
(* attempt.  What the grab does to the links is where the ownership of     *)
(* attempts is decided, and has a section of its own.                      *)
(*                                                                         *)
(* The last part says what reports, retries and rollups amount to:         *)
(* cancellations stick, a row is closed when nothing it holds is missing,  *)
(* a pack moves together, an error is one of the current attempt, and no   *)
(* completion is missed.                                                   *)
(***************************************************************************)
EXTENDS Pipeline, MediaItemProofs, WellFoundedInduction

(* The inductive invariant -------------------------------------------------*)

AllTop == \A i \in Items : IsTop(item[i])

\* A link is to an attempt that has begun and was grabbed, from a row that
\* exists; a row that exists has a client id.
LinkFacts ==
  /\ \A d \in Rows : state[d] # "absent" => key[d] \in Keys
  /\ \A d \in Rows : \A i \in Items :
       link[d][i] # 0 =>
         /\ state[d] # "absent"
         /\ link[d][i] \in 1..item[i].cycle
         /\ <<link[d][i], "grabbed">> \in item[i].hist

IInv == TypeOK /\ AllTop /\ LinkFacts /\ AttemptOwnership /\ OneActiveRow

(* Highest -----------------------------------------------------------------*)

\* A set of numbers with a bound has a highest one.
LEMMA HighestIn ==
  ASSUME NEW N \in Nat, NEW S \in SUBSET (0..N), S # {}
  PROVE  Highest(S) \in S /\ \A n \in S : n <= Highest(S)
<1> DEFINE T == {N - n : n \in S}
           R == {ss \in Nat \X Nat : ss[1] < ss[2]}
<1>1. T \subseteq Nat
  OBVIOUS
<1>2. T # {}
  OBVIOUS
<1>3. IsWellFoundedOn(R, Nat)
  BY NatLessThanWellFounded, Zenon DEF OpToRel
<1>4. \A t, u \in Nat : <<u, t>> \notin R => t <= u
  OBVIOUS
<1> HIDE DEF T, R
<1>5. PICK t \in T : \A u \in T : <<u, t>> \notin R
  BY <1>1, <1>2, <1>3, WFMin, Zenon
<1>6. \A u \in T : t <= u
  BY <1>1, <1>4, <1>5
<1>7. N - t \in S /\ \A n \in S : n <= N - t
  <2>1. PICK m \in S : t = N - m
    BY <1>5 DEF T
  <2>2. \A n \in S : N - n \in T
    BY DEF T
  <2> QED
    BY <1>6, <2>1, <2>2
<1> QED
  BY <1>7 DEF Highest

(* Correlation under the invariant -----------------------------------------*)

\* The attempt of a link is the one its client id is claimed by.
LEMMA ClaimOfLink ==
  ASSUME IInv, NEW i \in Items, NEW k \in Keys,
         NEW d \in RowsOf(k), link[d][i] # 0
  PROVE  Claim(i, k) = link[d][i]
<1> DEFINE S == {0} \union {link[e][i] : e \in RowsOf(k)}
<1>1. \A e \in RowsOf(k) : link[e][i] \in Nat
                           /\ (link[e][i] # 0 => link[e][i] = link[d][i])
  BY DEF IInv, TypeOK, AttemptOwnership, RowsOf
<1>2. /\ link[d][i] \in S /\ link[d][i] \in Nat
      /\ \A n \in S : n \in Nat /\ n <= link[d][i]
  BY <1>1
<1> HIDE DEF S
<1>3. Highest(S) = link[d][i]
  BY <1>2 DEF Highest
<1> QED
  BY <1>3 DEF Claim, S

\* Without a link there is no claim.
LEMMA NoLinkNoClaim ==
  ASSUME NEW i \in Items, NEW k, \A d \in RowsOf(k) : link[d][i] = 0
  PROVE  Claim(i, k) = 0
<1>1. {0} \union {link[e][i] : e \in RowsOf(k)} = {0}
  OBVIOUS
<1>2. Highest({0}) = 0
  BY DEF Highest
<1> QED
  BY <1>1, <1>2 DEF Claim

\* A claim is an attempt that has begun and was grabbed, or none.
LEMMA ClaimFacts ==
  ASSUME IInv, NEW i \in Items, NEW k \in Keys \union {NoKey}
  PROVE  /\ Claim(i, k) \in 0..item[i].cycle
         /\ ReportCycle(i, k) \in 1..item[i].cycle
         /\ Claim(i, k) # 0 => <<Claim(i, k), "grabbed">> \in item[i].hist
         /\ k = NoKey => Claim(i, k) = 0
<1>1. item[i].cycle \in Nat \ {0}
  BY DEF IInv, TypeOK, Item
<1>2. /\ Claim(i, k) \in 0..item[i].cycle
      /\ Claim(i, k) # 0 => <<Claim(i, k), "grabbed">> \in item[i].hist
      /\ k = NoKey => Claim(i, k) = 0
  <2>1. CASE \A d \in RowsOf(k) : link[d][i] = 0
    BY <1>1, <2>1, NoLinkNoClaim
  <2>2. CASE \E d \in RowsOf(k) : link[d][i] # 0
    <3>1. PICK d \in RowsOf(k) : link[d][i] # 0
      BY <2>2
    <3>2. d \in Rows /\ key[d] = k /\ k \in Keys
      BY <3>1 DEF RowsOf, IInv, LinkFacts
    <3>3. Claim(i, k) = link[d][i]
      BY <3>1, <3>2, ClaimOfLink
    <3> QED
      BY <3>1, <3>2, <3>3, <1>1, KeysAssumption DEF IInv, LinkFacts
  <2> QED
    BY <2>1, <2>2
<1> QED
  BY <1>1, <1>2 DEF ReportCycle

\* The owner of an attempt is the client id of any row linked at it.
LEMMA OwnerOfLink ==
  ASSUME IInv, NEW i \in Items, NEW c \in Nat \ {0}, NEW d \in LinkedAt(i, c)
  PROVE  Owner(i, c) = key[d]
<1>1. LinkedAt(i, c) \in SUBSET (0..MaxRows) /\ LinkedAt(i, c) # {}
  BY BoundsAssumption DEF LinkedAt, Rows
<1>2. Highest(LinkedAt(i, c)) \in LinkedAt(i, c)
  BY <1>1, HighestIn, BoundsAssumption
<1>3. \A e \in LinkedAt(i, c) : key[e] = key[d]
  BY DEF LinkedAt, IInv, AttemptOwnership
<1> QED
  BY <1>1, <1>2, <1>3 DEF Owner

\* The row an upsert returns is new, or the one active row of its id.
LEMMA UpsertedFacts ==
  ASSUME IInv, NEW k, NEW d \in Upserted(k)
  PROVE  /\ d \in Rows
         /\ \/ d \in ActiveRows(k)
            \/ state[d] = "absent" /\ ActiveRows(k) = {}
<1>1. CASE ActiveRows(k) = {}
  BY <1>1 DEF Upserted, FreshRows
<1>2. CASE ActiveRows(k) # {}
  <2>1. ActiveRows(k) \in SUBSET (0..MaxRows)
    BY BoundsAssumption DEF ActiveRows, RowsOf, Rows
  <2>2. Highest(ActiveRows(k)) \in ActiveRows(k)
    BY <1>2, <2>1, HighestIn, BoundsAssumption
  <2> QED
    BY <1>2, <2>2 DEF Upserted, ActiveRows, RowsOf
<1> QED
  BY <1>1, <1>2

\* The newest row of a client id is a row of it.
LEMMA NewestRowIn ==
  ASSUME NEW k, NEW d \in NewestRow(k)
  PROVE  d \in RowsOf(k) /\ d \in Rows
<1>1. RowsOf(k) \in SUBSET (0..MaxRows) /\ RowsOf(k) # {}
  BY BoundsAssumption DEF NewestRow, RowsOf, Rows
<1>2. Highest(RowsOf(k)) \in RowsOf(k)
  BY <1>1, HighestIn, BoundsAssumption
<1> QED
  BY <1>1, <1>2 DEF NewestRow, RowsOf

(* Quiet steps -------------------------------------------------------------*)

\* An item moves by reports to attempts that have begun, or by one attempt.
Moves(it, jt) ==
  /\ jt \in Item(Errors) /\ IsTop(jt)
  /\ \/ /\ jt.cycle = it.cycle
        /\ it.hist \subseteq jt.hist
        /\ jt.hist \subseteq it.hist \union ((1..it.cycle) \X StageKeys)
     \/ jt.cycle = it.cycle + 1 /\ jt.hist = it.hist

QuietItems ==
  /\ item' \in [Items -> Item(Errors)]
  /\ \A i \in Items : Moves(item[i], item'[i])

QuietRows ==
  /\ UNCHANGED <<key, link>>
  /\ state' \in [Rows -> DownloadStates \union {"absent"}]
  /\ \A d \in Rows :
       /\ state'[d] = "absent" <=> state[d] = "absent"
       /\ state[d] \in Terminal => state'[d] \in Terminal
       /\ state[d] = "imported" => state'[d] = "imported"

RequestTypes ==
  /\ status \in [Requests -> {"none", "active", "completed", "canceled"}]
  /\ seerr \subseteq Requests /\ fanq \subseteq Requests
  /\ touched \subseteq Requests
  /\ known \subseteq Items

Quiet == QuietItems /\ QuietRows /\ RequestTypes'

LEMMA ErrorsFacts == NoError \in Errors /\ SeerrError \in Errors /\ NoKey \in Errors
                     /\ Keys \subseteq Errors
BY DEF Errors

LEMMA MovesStutter ==
  ASSUME NEW it \in Item(Errors), IsTop(it)
  PROVE  Moves(it, it)
BY DEF Moves

LEMMA MovesStage ==
  ASSUME NEW it \in Item(Errors), IsTop(it),
         NEW c \in 1..it.cycle, NEW s \in StageKeys
  PROVE  Moves(it, ApplyStage(it, c, s))
<1>1. <<c, s>> \in (1..it.cycle) \X StageKeys
  OBVIOUS
<1> QED
  BY <1>1, ApplyStageKeepsTop DEF Moves

LEMMA MovesBump ==
  ASSUME NEW it \in Item(Errors), IsTop(it)
  PROVE  Moves(it, BumpItemCycle(it))
BY BumpKeepsTop, ErrorsFacts DEF Moves

LEMMA MovesError ==
  ASSUME NEW it \in Item(Errors), IsTop(it), NEW e \in Errors
  PROVE  Moves(it, SetItemError(it, e))
BY SetErrorKeepsTop DEF Moves

LEMMA MovesApplied ==
  ASSUME NEW it \in Item(Errors), IsTop(it), NEW s \in StageKeys
  PROVE  Moves(it, Applied(it, s)) /\ Applied(it, s).cycle = it.cycle
<1>1. it.cycle \in 1..it.cycle
  BY DEF Item
<1> QED
  BY <1>1, MovesStage, ApplyStageKeepsTop DEF Applied

LEMMA MovesApproved ==
  ASSUME NEW it \in Item(Errors), IsTop(it)
  PROVE  Moves(it, Approved(it))
<1> DEFINE jt == Applied(it, "requested")
           lt == Applied(jt, "approved")
<1>1. "requested" \in StageKeys /\ "approved" \in StageKeys
  BY DEF StageKeys
<1>2. Moves(it, jt) /\ jt.cycle = it.cycle
  BY <1>1, MovesApplied
<1>3. jt \in Item(Errors) /\ IsTop(jt)
  BY <1>2 DEF Moves
<1>4. Moves(jt, lt) /\ lt.cycle = jt.cycle
  BY <1>1, <1>3, MovesApplied
<1>5. it.cycle # it.cycle + 1
  BY DEF Item
<1> HIDE DEF jt, lt
<1>6. Moves(it, lt)
  BY <1>2, <1>4, <1>5 DEF Moves
<1> QED
  BY <1>6 DEF Approved, jt, lt

\* Under the invariant every item is well typed and at its top.
LEMMA ItemFacts ==
  ASSUME IInv, NEW i \in Items
  PROVE  item[i] \in Item(Errors) /\ IsTop(item[i]) /\ item[i].cycle \in Nat \ {0}
BY DEF IInv, TypeOK, AllTop, Item

\* A quiet step keeps the invariant.
LEMMA QuietKeepsInv ==
  ASSUME IInv, Quiet
  PROVE  IInv'
<1> USE DEF IInv, Quiet
<1>1. TypeOK'
  BY DEF TypeOK, QuietItems, QuietRows, RequestTypes
<1>2. AllTop'
  BY DEF AllTop, QuietItems, Moves
<1>3. \A i \in Items : item[i].cycle \in Nat /\ item'[i].cycle \in Nat
                       /\ item[i].cycle <= item'[i].cycle
                       /\ item[i].hist \subseteq item'[i].hist
  <2> SUFFICES ASSUME NEW i \in Items
               PROVE  item[i].cycle \in Nat /\ item'[i].cycle \in Nat
                       /\ item[i].cycle <= item'[i].cycle
                       /\ item[i].hist \subseteq item'[i].hist
    OBVIOUS
  <2>1. item[i].cycle \in Nat
    BY ItemFacts
  <2> QED
    BY <2>1 DEF QuietItems, Moves
<1>4. LinkFacts'
  <2>1. \A d \in Rows : state'[d] # "absent" => key'[d] \in Keys
    BY DEF LinkFacts, QuietRows
  <2>2. ASSUME NEW d \in Rows, NEW i \in Items, link'[d][i] # 0
        PROVE  /\ state'[d] # "absent"
               /\ link'[d][i] \in 1..item'[i].cycle
               /\ <<link'[d][i], "grabbed">> \in item'[i].hist
    <3>1. /\ link'[d][i] = link[d][i]
          /\ state[d] # "absent" /\ state'[d] # "absent"
          /\ link[d][i] \in 1..item[i].cycle
          /\ <<link[d][i], "grabbed">> \in item[i].hist
      BY <2>2 DEF LinkFacts, QuietRows
    <3> QED
      BY <3>1, <1>3
  <2> QED
    BY <2>1, <2>2 DEF LinkFacts
<1>5. AttemptOwnership'
  BY DEF AttemptOwnership, QuietRows
<1>6. OneActiveRow'
  <2>1. \A k \in Keys : ActiveRows(k)' \subseteq ActiveRows(k)
    BY DEF ActiveRows, RowsOf, QuietRows
  <2> QED
    BY <2>1 DEF OneActiveRow
<1> QED
  BY <1>1, <1>2, <1>4, <1>5, <1>6

(* Every action but the grab is quiet --------------------------------------*)

\* Steps that leave the items, or the rows, alone.
LEMMA ItemsAlone ==
  ASSUME IInv, UNCHANGED item
  PROVE  QuietItems
BY ItemFacts, MovesStutter DEF QuietItems, IInv, TypeOK

LEMMA RowsAlone ==
  ASSUME IInv, UNCHANGED downloadVars
  PROVE  QuietRows
BY DEF QuietRows, IInv, TypeOK, downloadVars

LEMMA EnterQuiet ==
  ASSUME IInv, NEW S, NEW s \in StageKeys, Enter(S, s)
  PROVE  QuietItems
<1>1. ASSUME NEW i \in Items PROVE Moves(item[i], item'[i])
  BY ItemFacts, MovesStutter, MovesApplied DEF Enter
<1>2. \A i \in Items : item'[i] \in Item(Errors)
  BY <1>1 DEF Moves
<1> QED
  BY <1>1, <1>2 DEF QuietItems, Enter

LEMMA ApproveQuiet ==
  ASSUME IInv, NEW S, Approve(S)
  PROVE  QuietItems
<1>1. ASSUME NEW i \in Items PROVE Moves(item[i], item'[i])
  BY ItemFacts, MovesStutter, MovesApproved DEF Approve
<1>2. \A i \in Items : item'[i] \in Item(Errors)
  BY <1>1 DEF Moves
<1> QED
  BY <1>1, <1>2 DEF QuietItems, Approve

LEMMA MarkQuiet ==
  ASSUME IInv, NEW S, NEW k \in Errors, MarkItems(S, k)
  PROVE  QuietItems
<1>1. ASSUME NEW i \in Items PROVE Moves(item[i], item'[i])
  BY ItemFacts, MovesStutter, MovesError DEF MarkItems
<1>2. \A i \in Items : item'[i] \in Item(Errors)
  BY <1>1 DEF Moves
<1> QED
  BY <1>1, <1>2 DEF QuietItems, MarkItems

LEMMA CreatedType ==
  ASSUME IInv, NEW r \in Requests
  PROVE  Created(r) \in [Requests -> {"none", "active", "completed", "canceled"}]
BY DEF Created, IInv, TypeOK

LEMMA FanoutDoneFacts ==
  ASSUME IInv, NEW r \in Requests, NEW S, FanoutDone(r, S)
  PROVE  QuietItems /\ known' \subseteq Items /\ fanq' \subseteq Requests
BY ApproveQuiet DEF FanoutDone, IInv, TypeOK

LEMMA FanoutQueuedFacts ==
  ASSUME IInv, NEW r \in Requests, FanoutQueued(r)
  PROVE  QuietItems /\ known' \subseteq Items /\ fanq' \subseteq Requests
BY ItemsAlone DEF FanoutQueued, IInv, TypeOK, itemVars

LEMMA SeerrQuiet ==
  ASSUME IInv, NEW r \in Requests,
         \/ SeerrPending(r)   \/ SeerrApproved(r) \/ SeerrDeclined(r)
         \/ SeerrAvailable(r) \/ SeerrFailed(r)
  PROVE  Quiet
<1> DEFINE ST == {"none", "active", "completed", "canceled"}
<1>t. /\ status \in [Requests -> ST] /\ seerr \subseteq Requests
      /\ fanq \subseteq Requests /\ touched \subseteq Requests
      /\ known \subseteq Items /\ MovieItems(r) \subseteq Items
  BY DEF IInv, TypeOK, MovieItems
<1>u. ASSUME Upsert(r)
      PROVE  seerr' \subseteq Requests /\ touched' \subseteq Requests
  BY <1>t, <1>u DEF Upsert
<1>s. /\ "requested" \in StageKeys /\ "available" \in StageKeys
  BY DEF StageKeys
<1>c. Created(r) \in [Requests -> ST]
  BY CreatedType
<1> HIDE DEF ST
<1>1. CASE SeerrPending(r)
  <2>1. QuietItems
    BY <1>1, <1>s, EnterQuiet DEF SeerrPending
  <2>2. QuietRows
    BY <1>1, RowsAlone DEF SeerrPending
  <2>3. RequestTypes'
    BY <1>1, <1>t, <1>u, <1>c DEF SeerrPending, RequestTypes, ST
  <2> QED
    BY <2>1, <2>2, <2>3 DEF Quiet
<1>2. CASE SeerrApproved(r)
  <2>1. QuietItems /\ known' \subseteq Items /\ fanq' \subseteq Requests
    <3>1. CASE /\ known' = known \union MovieItems(r)
               /\ Approve(MovieItems(r)) /\ UNCHANGED fanq
      BY <3>1, <1>t, ApproveQuiet
    <3>2. CASE \E S \in SUBSET Items : FanoutDone(r, S)
      BY <3>2, FanoutDoneFacts
    <3>3. CASE FanoutQueued(r)
      BY <3>3, FanoutQueuedFacts
    <3> QED
      BY <1>2, <3>1, <3>2, <3>3 DEF SeerrApproved
  <2>2. QuietRows
    BY <1>2, RowsAlone DEF SeerrApproved
  <2>3. RequestTypes'
    BY <1>2, <2>1, <1>t, <1>u, <1>c DEF SeerrApproved, RequestTypes, ST
  <2> QED
    BY <2>1, <2>2, <2>3 DEF Quiet
<1>3. CASE SeerrDeclined(r)
  <2>1. QuietItems
    BY <1>3, ItemsAlone DEF SeerrDeclined, itemVars
  <2>2. QuietRows
    BY <1>3, RowsAlone DEF SeerrDeclined
  <2>3. RequestTypes'
    BY <1>3, <1>t, <1>u DEF SeerrDeclined, RequestTypes, ST, itemVars
  <2> QED
    BY <2>1, <2>2, <2>3 DEF Quiet
<1>4. CASE SeerrAvailable(r)
  <2>1. QuietItems
    BY <1>4, <1>s, EnterQuiet DEF SeerrAvailable
  <2>2. QuietRows
    BY <1>4, RowsAlone DEF SeerrAvailable
  <2>3. RequestTypes'
    BY <1>4, <1>t, <1>u, <1>c DEF SeerrAvailable, RequestTypes, ST, ItemsOf
  <2> QED
    BY <2>1, <2>2, <2>3 DEF Quiet
<1>5. CASE SeerrFailed(r)
  <2>1. QuietItems
    <3>1. ASSUME NEW i \in Items PROVE Moves(item[i], item'[i])
      BY <1>5, ItemFacts, MovesStutter, MovesError, ErrorsFacts DEF SeerrFailed
    <3>2. \A i \in Items : item'[i] \in Item(Errors)
      BY <3>1 DEF Moves
    <3> QED
      BY <1>5, <3>1, <3>2 DEF QuietItems, SeerrFailed
  <2>2. QuietRows
    BY <1>5, RowsAlone DEF SeerrFailed
  <2>3. RequestTypes'
    BY <1>5, <1>t, <1>u, <1>c DEF SeerrFailed, RequestTypes, ST
  <2> QED
    BY <2>1, <2>2, <2>3 DEF Quiet
<1> QED
  BY <1>1, <1>2, <1>3, <1>4, <1>5

\* The projector's other handlers: imports, failures, jobs, later stages.
LEMMA ImportQuiet ==
  ASSUME IInv, NEW r \in Requests, NEW k \in ReportIds,
         NEW S \in Named(r, k), Import(r, S, k)
  PROVE  Quiet
<1>k. k \in Keys \union {NoKey}
  BY KeysAssumption
<1>S. S \subseteq Items
  BY <1>k, KeysAssumption DEF Named
<1>1. QuietItems
  <2>1. ASSUME NEW i \in Items PROVE Moves(item[i], item'[i])
    <3>1. Moves(item[i], Imported(i, k))
      BY <1>k, ItemFacts, ClaimFacts, MovesStage DEF Imported, StageKeys
    <3> QED
      BY <3>1, ItemFacts, MovesStutter DEF Import
  <2>2. \A i \in Items : item'[i] \in Item(Errors)
    BY <2>1 DEF Moves
  <2> QED
    BY <2>1, <2>2 DEF QuietItems, Import
<1>2. QuietRows
  <2>1. \A d \in Rows : state'[d] = ImportedState(d, k, item')
    BY DEF Import
  <2>2. \A d \in NewestRow(k) : state[d] # "absent"
    BY NewestRowIn DEF RowsOf
  <2>3. \A d \in Rows :
          \/ state'[d] = state[d]
          \/ state[d] \notin {"absent", "failed", "canceled"} /\ state'[d] = "imported"
    BY <2>1, <2>2 DEF ImportedState
  <2>4. state' \in [Rows -> DownloadStates \union {"absent"}]
    BY <2>3 DEF Import, IInv, TypeOK, DownloadStates, Rank
  <2> QED
    BY <2>3, <2>4 DEF QuietRows, Import, Terminal
<1>3. RequestTypes'
  BY <1>S, CreatedType DEF Import, Resolve, TouchIf, RequestTypes, IInv, TypeOK
<1> QED
  BY <1>1, <1>2, <1>3 DEF Quiet

LEMMA FailureOfRowQuiet ==
  ASSUME IInv, NEW k \in Keys, NEW soft \in BOOLEAN, FailureOfRow(k, soft)
  PROVE  Quiet
<1>1. PICK d \in NewestRow(k) :
        /\ state'   = [state EXCEPT ![d] = FailedState(d, soft)]
        /\ MarkItems(LinkedItems(d), k)
        /\ touched' = touched \union {RequestOf[i] : i \in LinkedItems(d)}
        /\ UNCHANGED <<requestVars, known, key, link, fanq>>
  BY DEF FailureOfRow
<1>2. d \in Rows /\ state[d] # "absent"
  BY NewestRowIn DEF RowsOf
<1>3. QuietItems
  BY <1>1, MarkQuiet, ErrorsFacts
<1>4. QuietRows
  BY <1>1, <1>2 DEF QuietRows, FailedState, IInv, TypeOK, DownloadStates, Rank, Terminal
<1>5. RequestTypes'
  BY <1>1, RequestsAssumption
     DEF RequestTypes, requestVars, LinkedItems, IInv, TypeOK
<1> QED
  BY <1>3, <1>4, <1>5 DEF Quiet

LEMMA FailureByNameQuiet ==
  ASSUME IInv, NEW r \in Requests, NEW k \in ReportIds,
         NEW S \in Named(r, k), FailureByName(r, S, k)
  PROVE  Quiet
<1>k. k \in Errors
  BY KeysAssumption DEF Errors
<1>S. S \subseteq Items
  BY KeysAssumption DEF Named
<1>1. QuietItems
  BY <1>k, MarkQuiet DEF FailureByName
<1>2. QuietRows
  BY RowsAlone DEF FailureByName
<1>3. RequestTypes'
  BY <1>S, CreatedType DEF FailureByName, Resolve, RequestTypes, IInv, TypeOK
<1> QED
  BY <1>1, <1>2, <1>3 DEF Quiet

LEMMA JobEndedQuiet ==
  ASSUME IInv, NEW k \in Keys, NEW to, JobEnded(k, to)
  PROVE  Quiet
<1>1. PICK d \in NewestRow(k) :
        /\ state' = [state EXCEPT ![d] = EndedState(d, to)]
        /\ item'  = [i \in Items |-> IF link[d][i] = item[i].cycle
                                     THEN SetItemError(item[i], k) ELSE item[i]]
        /\ touched' = touched \union {RequestOf[i] : i \in LinkedItems(d)}
  BY DEF JobEnded
<1>2. d \in Rows /\ state[d] # "absent"
  BY NewestRowIn DEF RowsOf
<1>3. QuietItems
  <2>1. ASSUME NEW i \in Items PROVE Moves(item[i], item'[i])
    BY <1>1, ItemFacts, MovesStutter, MovesError, ErrorsFacts
  <2>2. \A i \in Items : item'[i] \in Item(Errors)
    BY <2>1 DEF Moves
  <2> QED
    BY <1>1, <2>1, <2>2 DEF QuietItems
<1>4. QuietRows
  <2>1. \/ state'[d] = state[d]
        \/ state[d] # "imported" /\ state'[d] \in {"canceled", "failed"}
    BY <1>1, <1>2 DEF EndedState, IInv, TypeOK
  <2>2. \A e \in Rows : e # d => state'[e] = state[e]
    BY <1>1 DEF IInv, TypeOK
  <2>3. state' \in [Rows -> DownloadStates \union {"absent"}]
    BY <1>1, <1>2, <2>1 DEF IInv, TypeOK, DownloadStates, Rank
  <2> QED
    BY <1>2, <2>1, <2>2, <2>3 DEF QuietRows, JobEnded, Terminal
<1>5. RequestTypes'
  BY <1>1, RequestsAssumption
     DEF JobEnded, RequestTypes, requestVars, LinkedItems, IInv, TypeOK
<1> QED
  BY <1>3, <1>4, <1>5 DEF Quiet

LEMMA JobAdvancedQuiet ==
  ASSUME IInv, NEW k \in Keys, NEW to \in JobStates, JobAdvanced(k, to)
  PROVE  Quiet
<1>1. PICK d \in NewestRow(k) :
        /\ state' = [state EXCEPT ![d] = Advanced(@, to)]
        /\ item'  = [i \in Items |->
                       IF link[d][i] # 0
                       THEN ApplyStage(item[i], ReportCycle(i, k), StageOfJob(to))
                       ELSE item[i]]
        /\ touched' = touched \union
             {RequestOf[i] : i \in {j \in LinkedItems(d) :
                Applies(item[j], ReportCycle(j, k), StageOfJob(to))}}
  BY DEF JobAdvanced
<1>2. d \in Rows /\ state[d] # "absent"
  BY NewestRowIn DEF RowsOf
<1>3. StageOfJob(to) \in StageKeys \intersect {"submitted", "cloud_downloading",
                                             "pulling", "downloaded"}
  <2>1. to \in {"SUBMITTED", "DOWNLOADING", "COMPLETED_TORBOX", "READY"}
    BY SourcesAssumption DEF JobAdvanced, AllJobStates
  <2> QED
    BY <2>1 DEF StageOfJob, StageKeys
<1>4. QuietItems
  <2>1. ASSUME NEW i \in Items PROVE Moves(item[i], item'[i])
    BY <1>1, <1>3, ItemFacts, ClaimFacts, MovesStutter, MovesStage
  <2>2. \A i \in Items : item'[i] \in Item(Errors)
    BY <2>1 DEF Moves
  <2> QED
    BY <1>1, <2>1, <2>2 DEF QuietItems
<1>5. QuietRows
  <2>1. state[d] \in DownloadStates
    BY <1>2 DEF IInv, TypeOK
  <2>2. \/ state'[d] = state[d]
        \/ /\ Rank[state[d]] >= 0
           /\ Rank[StageOfJob(to)] > Rank[state[d]]
           /\ state'[d] = StageOfJob(to)
    BY <1>1, <1>2 DEF Advanced, IInv, TypeOK
  <2>3. state[d] \in Terminal => state'[d] = state[d]
    BY <1>3, <2>1, <2>2 DEF Rank, Terminal
  <2>4. state'[d] \in DownloadStates
    BY <1>3, <2>1, <2>2 DEF Rank, DownloadStates
  <2>5. \A e \in Rows : e # d => state'[e] = state[e]
    BY <1>1 DEF IInv, TypeOK
  <2>6. state' \in [Rows -> DownloadStates \union {"absent"}]
    BY <1>1, <1>2, <2>4 DEF IInv, TypeOK
  <2>7. "absent" \notin DownloadStates
    BY DEF DownloadStates, Rank
  <2>8. ASSUME NEW e \in Rows
        PROVE  /\ state'[e] = "absent" <=> state[e] = "absent"
               /\ state[e] \in Terminal => state'[e] \in Terminal
               /\ state[e] = "imported" => state'[e] = "imported"
    BY <1>2, <2>3, <2>4, <2>5, <2>7 DEF Terminal
  <2> QED
    BY <2>6, <2>8 DEF QuietRows, JobAdvanced
<1>6. RequestTypes'
  BY <1>1, RequestsAssumption
     DEF JobAdvanced, RequestTypes, requestVars, LinkedItems, IInv, TypeOK
<1> QED
  BY <1>4, <1>5, <1>6 DEF Quiet

LEMMA EntersQuiet ==
  ASSUME IInv, NEW S \in SUBSET Items, NEW s \in StageKeys, Enters(S, s)
  PROVE  Quiet
<1>1. QuietItems
  BY EnterQuiet DEF Enters
<1>2. QuietRows
  BY RowsAlone DEF Enters
<1>3. RequestTypes'
  BY RequestsAssumption DEF Enters, RequestTypes, requestVars, IInv, TypeOK
<1> QED
  BY <1>1, <1>2, <1>3 DEF Quiet

LEMMA StageQuiet ==
  ASSUME IInv, StageNext
  PROVE  Quiet
<1>1. {"transcode", "available", "notified"} \subseteq StageKeys
  BY DEF StageKeys
<1> QED
  BY <1>1, EntersQuiet
     DEF StageNext, ApplyTranscode, ApplyAvailable, ApplyNotified

\* The rollup is a status.
LEMMA RollupType ==
  ASSUME IInv, NEW r \in Requests, NEW its, NEW done
  PROVE  Rollup(r, its, done) \in {"none", "active", "completed", "canceled"}
BY DEF Rollup, IInv, TypeOK

LEMMA ProjectorQuiet ==
  ASSUME IInv, ProjectorNext
  PROVE  Quiet
<1> DEFINE ST == {"none", "active", "completed", "canceled"}
<1>t. \A r \in Requests : \A its, done : Rollup(r, its, done) \in ST
  BY RollupType
<1>1. CASE Flush
  <2>1. QuietItems /\ QuietRows
    BY <1>1, ItemsAlone, RowsAlone DEF Flush, itemVars
  <2>2. status' \in [Requests -> ST]
    BY <1>1, <1>t DEF Flush, IInv, TypeOK
  <2>3. RequestTypes'
    BY <1>1, <2>2 DEF Flush, RequestTypes, IInv, TypeOK, itemVars
  <2> QED
    BY <2>1, <2>3 DEF Quiet
<1>2. ASSUME NEW r \in Requests, RetryFanout(r)
      PROVE  Quiet
  <2>1. QuietRows
    BY <1>2, RowsAlone DEF RetryFanout
  <2>2. /\ QuietItems /\ known' \subseteq Items /\ fanq' \subseteq Requests
        /\ status' \in [Requests -> ST]
    <3>1. CASE FanoutQueued(r) /\ UNCHANGED status
      BY <3>1, FanoutQueuedFacts DEF IInv, TypeOK
    <3>2. ASSUME NEW S \in SUBSET Items, FanoutDone(r, S),
                 status' = IF \E i \in S : item[i].hist # Approved(item[i]).hist
                           THEN [status EXCEPT ![r] =
                                  Rollup(r, ItemsOf(r) \union S, DoneItems(item'))]
                           ELSE status
          PROVE  /\ QuietItems /\ known' \subseteq Items /\ fanq' \subseteq Requests
                 /\ status' \in [Requests -> ST]
      <4>1. QuietItems /\ known' \subseteq Items /\ fanq' \subseteq Requests
        BY <3>2, FanoutDoneFacts
      <4>2. status \in [Requests -> ST]
        BY DEF IInv, TypeOK
      <4> QED
        BY <3>2, <4>1, <4>2, <1>t
    <3> QED
      BY <1>2, <3>1, <3>2 DEF RetryFanout
  <2>3. RequestTypes'
    BY <1>2, <2>2 DEF RetryFanout, RequestTypes, IInv, TypeOK
  <2> QED
    BY <2>1, <2>2, <2>3 DEF Quiet
<1>3. ASSUME NEW r \in Requests, GiveUpFanout(r)
      PROVE  Quiet
  <2>1. QuietItems /\ QuietRows
    BY <1>3, ItemsAlone, RowsAlone DEF GiveUpFanout, itemVars
  <2>2. RequestTypes'
    BY <1>3 DEF GiveUpFanout, RequestTypes, requestVars, itemVars, IInv, TypeOK
  <2> QED
    BY <2>1, <2>2 DEF Quiet
<1> QED
  BY <1>1, <1>2, <1>3 DEF ProjectorNext

LEMMA ActionQuiet ==
  ASSUME IInv, ActionNext
  PROVE  Quiet
<1>1. ASSUME NEW i \in Items, Retry(i)
      PROVE  Quiet
  <2>1. QuietItems
    <3>1. ASSUME NEW j \in Items PROVE Moves(item[j], item'[j])
      BY <1>1, ItemFacts, MovesStutter, MovesBump DEF Retry
    <3>2. \A j \in Items : item'[j] \in Item(Errors)
      BY <3>1 DEF Moves
    <3> QED
      BY <1>1, <3>1, <3>2 DEF QuietItems, Retry
  <2>2. \A d \in InFlight(i) : d \in Rows /\ state[d] \notin Terminal \union {"absent"}
    <3>1. item[i].cycle # 0
      BY ItemFacts
    <3> QED
      BY <3>1 DEF InFlight, LinkedAt, IInv, LinkFacts
  <2>3. QuietRows
    BY <1>1, <2>2 DEF Retry, QuietRows, IInv, TypeOK, DownloadStates, Rank, Terminal
  <2>4. RequestTypes'
    BY <1>1 DEF Retry, RequestTypes, requestVars, IInv, TypeOK
  <2> QED
    BY <2>1, <2>3, <2>4 DEF Quiet
<1>2. ASSUME NEW r \in Requests, Cancel(r)
      PROVE  Quiet
  <2>1. QuietItems
    BY <1>2, ItemsAlone DEF Cancel, itemVars
  <2>2. QuietRows
    BY <1>2 DEF Cancel, QuietRows, IInv, TypeOK, DownloadStates, Rank, Terminal
  <2>3. RequestTypes'
    BY <1>2 DEF Cancel, RequestTypes, itemVars, IInv, TypeOK
  <2> QED
    BY <2>1, <2>2, <2>3 DEF Quiet
<1> QED
  BY <1>1, <1>2 DEF ActionNext

(* The grab ----------------------------------------------------------------*)

\* What a grab makes of an item it names.
LEMMA GrabbedFacts ==
  ASSUME IInv, NEW i \in Items, NEW k \in Keys \union {NoKey}
  PROVE  /\ Grabbed(i, k) \in Item(Errors) /\ IsTop(Grabbed(i, k))
         /\ Grabbed(i, k).cycle = item[i].cycle + (IF IsRegrab(i, k) THEN 1 ELSE 0)
         /\ Grabbed(i, k).hist = item[i].hist \union {<<GrabCycle(i, k), "grabbed">>}
         /\ GrabCycle(i, k) \in 1..Grabbed(i, k).cycle
         /\ IsRegrab(i, k) => GrabCycle(i, k) = item[i].cycle + 1
         /\ ~IsRegrab(i, k) => GrabCycle(i, k) \in 1..item[i].cycle
<1>1. "grabbed" \in StageKeys
  BY DEF StageKeys
<1>2. /\ item[i] \in Item(Errors) /\ IsTop(item[i]) /\ item[i].cycle \in Nat \ {0}
      /\ ReportCycle(i, k) \in 1..item[i].cycle
  BY ItemFacts, ClaimFacts
<1>3. CASE IsRegrab(i, k)
  <2> DEFINE bt == BumpItemCycle(item[i])
  <2>1. /\ bt \in Item(Errors) /\ IsTop(bt)
        /\ bt.cycle = item[i].cycle + 1 /\ bt.hist = item[i].hist
    BY <1>2, BumpKeepsTop, ErrorsFacts
  <2>2. GrabCycle(i, k) = item[i].cycle + 1 /\ GrabCycle(i, k) \in 1..bt.cycle
    BY <1>2, <1>3, <2>1 DEF GrabCycle
  <2>3. Grabbed(i, k) = ApplyStage(bt, GrabCycle(i, k), "grabbed")
    BY <1>3 DEF Grabbed
  <2> HIDE DEF bt
  <2> QED
    BY <1>1, <1>2, <1>3, <2>1, <2>2, <2>3, ApplyStageKeepsTop
<1>4. CASE ~IsRegrab(i, k)
  <2>1. GrabCycle(i, k) = ReportCycle(i, k)
    BY <1>4 DEF GrabCycle
  <2>2. Grabbed(i, k) = ApplyStage(item[i], GrabCycle(i, k), "grabbed")
    BY <1>4 DEF Grabbed
  <2> QED
    BY <1>1, <1>2, <1>4, <2>1, <2>2, ApplyStageKeepsTop
<1> QED
  BY <1>3, <1>4

\* The attempt a grab lands in is owned by its download, or by none yet.
LEMMA GrabCycleOwned ==
  ASSUME IInv, NEW i \in Items, NEW k \in Keys,
         NEW e \in Rows, link[e][i] # 0
  PROVE  key[e] = k <=> link[e][i] = GrabCycle(i, k)
<1>1. /\ item[i].cycle \in Nat \ {0}
      /\ link[e][i] \in 1..item[i].cycle /\ link[e][i] \in Nat \ {0}
      /\ <<link[e][i], "grabbed">> \in item[i].hist
      /\ state[e] # "absent" /\ key[e] \in Keys
  BY ItemFacts DEF IInv, LinkFacts
<1>2. key[e] = k => Claim(i, k) = link[e][i] /\ Claim(i, k) # 0
  BY <1>1, ClaimOfLink DEF RowsOf
<1>3. CASE Claim(i, k) # 0
  <2>1. PICK d \in RowsOf(k) : link[d][i] # 0
    BY <1>3, NoLinkNoClaim
  <2>2. GrabCycle(i, k) = link[d][i]
    <3>1. Claim(i, k) = link[d][i]
      BY <2>1, ClaimOfLink
    <3>2. Claim(i, k) > 0
      <4>1. Claim(i, k) \in 0..item[i].cycle
        BY ClaimFacts
      <4> QED
        BY <1>1, <1>3, <4>1
    <3> QED
      BY <1>3, <3>1, <3>2 DEF GrabCycle, IsRegrab, ReportCycle
  <2> QED
    BY <2>1, <2>2 DEF RowsOf, IInv, AttemptOwnership
<1>4. CASE Claim(i, k) = 0
  <2>1. key[e] # k
    BY <1>2, <1>4
  <2>2. CASE IsRegrab(i, k)
    <3>1. GrabCycle(i, k) = item[i].cycle + 1
      BY <2>2 DEF GrabCycle
    <3> QED
      BY <1>1, <2>1, <3>1
  <2>3. CASE ~IsRegrab(i, k)
    <3>1. GrabCycle(i, k) = item[i].cycle
      BY <1>4, <2>3 DEF GrabCycle, ReportCycle
    <3>2. ASSUME link[e][i] = item[i].cycle PROVE FALSE
      <4>1. Owner(i, item[i].cycle) = key[e]
        BY <1>1, <3>2, OwnerOfLink DEF LinkedAt
      <4> QED
        BY <1>1, <1>4, <2>1, <2>3, <3>2, <4>1, KeysAssumption DEF IsRegrab
    <3> QED
      BY <2>1, <3>1, <3>2
  <2> QED
    BY <2>2, <2>3
<1> QED
  BY <1>3, <1>4

\* The row of the grab, and what the grab makes of the links.
GrabsRow(S, k, d) ==
  /\ d \in Rows
  /\ d \in ActiveRows(k) \/ (state[d] = "absent" /\ ActiveRows(k) = {})
  /\ key'   = [key EXCEPT ![d] = k]
  /\ state' = [state EXCEPT ![d] = IF @ = "absent" THEN "grabbed" ELSE @]
  /\ link'  = [link EXCEPT ![d] =
                [i \in Items |-> IF i \in S /\ @[i] = 0
                                 THEN GrabCycle(i, k) ELSE @[i]]]

LEMMA GrabFacts ==
  ASSUME IInv, NEW r \in Requests, NEW k \in ReportIds,
         NEW S \in Named(r, k), Grab(r, S, k)
  PROVE  /\ S \subseteq Items /\ k \in Keys \union {NoKey}
         /\ RequestTypes'
         /\ item' \in [Items -> Item(Errors)]
         /\ \A i \in Items : item'[i] = IF i \in S THEN Grabbed(i, k) ELSE item[i]
         /\ AllTop'
         /\ \/ k = NoKey /\ UNCHANGED downloadVars
            \/ k \in Keys /\ \E d \in Rows : GrabsRow(S, k, d)
<1>1. S \subseteq Items /\ k \in Keys \union {NoKey}
  BY KeysAssumption DEF Named
<1>2. RequestTypes'
  BY <1>1, CreatedType DEF Grab, Resolve, TouchIf, RequestTypes, IInv, TypeOK
<1>3. \A i \in Items : item'[i] = IF i \in S THEN Grabbed(i, k) ELSE item[i]
  BY DEF Grab
<1>4. \A i \in Items : item'[i] \in Item(Errors) /\ IsTop(item'[i])
  BY <1>1, <1>3, ItemFacts, GrabbedFacts
<1>5. item' \in [Items -> Item(Errors)]
  BY <1>4 DEF Grab
<1>6. \/ k = NoKey /\ UNCHANGED downloadVars
      \/ k \in Keys /\ \E d \in Rows : GrabsRow(S, k, d)
  <2>1. CASE k = NoKey /\ UNCHANGED downloadVars
    BY <2>1
  <2>2. CASE \E d \in IF k = NoKey THEN {} ELSE Upserted(k) :
               /\ key'   = [key EXCEPT ![d] = k]
               /\ state' = [state EXCEPT ![d] = IF @ = "absent" THEN "grabbed" ELSE @]
               /\ link'  = [link EXCEPT ![d] =
                             [i \in Items |-> IF i \in S /\ @[i] = 0
                                              THEN GrabCycle(i, k) ELSE @[i]]]
    <3>1. k # NoKey /\ k \in Keys
      BY <1>1, <2>2
    <3> QED
      BY <2>2, <3>1, UpsertedFacts DEF GrabsRow
  <2> QED
    BY <2>1, <2>2 DEF Grab
<1> QED
  BY <1>1, <1>2, <1>3, <1>4, <1>5, <1>6 DEF AllTop

\* What the links are after the grab, row by row.
LEMMA GrabbedLinks ==
  ASSUME IInv, NEW S, NEW k \in Keys, NEW d \in Rows, GrabsRow(S, k, d),
         NEW i \in Items, NEW e \in Rows
  PROVE  /\ link'[e][i] = IF e = d /\ i \in S THEN GrabCycle(i, k) ELSE link[e][i]
         /\ key'[e] = IF e = d THEN k ELSE key[e]
         /\ state[e] # "absent" => key'[e] = key[e] /\ state'[e] = state[e]
         /\ state[e] = "absent" /\ e # d => state'[e] = "absent"
         /\ state'[d] \notin Terminal \union {"absent"}
         /\ state'[e] = state[e] \/ (e = d /\ state[e] = "absent" /\ state'[e] = "grabbed")
<1>1. /\ key \in [Rows -> Keys \union {NoKey}]
      /\ state \in [Rows -> DownloadStates \union {"absent"}]
      /\ link \in [Rows -> [Items -> Nat]]
  BY DEF IInv, TypeOK
<1>2. state[d] # "absent" => d \in ActiveRows(k) /\ key[d] = k /\ state[d] \notin Terminal
  BY DEF GrabsRow, ActiveRows, RowsOf
<1>3. link[d][i] # 0 => link[d][i] = GrabCycle(i, k)
  <2>1. ASSUME link[d][i] # 0 PROVE key[d] = k
    BY <1>2, <2>1 DEF IInv, LinkFacts
  <2> QED
    BY <2>1, GrabCycleOwned
<1>4. link'[d][i] = IF i \in S /\ link[d][i] = 0 THEN GrabCycle(i, k) ELSE link[d][i]
  BY <1>1 DEF GrabsRow
<1>5. e # d => link'[e] = link[e]
  BY <1>1 DEF GrabsRow
<1>6. link'[e][i] = IF e = d /\ i \in S THEN GrabCycle(i, k) ELSE link[e][i]
  BY <1>3, <1>4, <1>5
<1>7. "grabbed" \notin Terminal \union {"absent"}
  BY DEF Terminal
<1> QED
  BY <1>1, <1>2, <1>6, <1>7 DEF GrabsRow

\* A grab keeps the invariant.
LEMMA GrabKeepsInv ==
  ASSUME IInv, NEW r \in Requests, NEW k \in ReportIds,
         NEW S \in Named(r, k), Grab(r, S, k)
  PROVE  IInv'
<1>1. /\ S \subseteq Items /\ k \in Keys \union {NoKey}
      /\ RequestTypes'
      /\ item' \in [Items -> Item(Errors)]
      /\ \A i \in Items : item'[i] = IF i \in S THEN Grabbed(i, k) ELSE item[i]
      /\ AllTop'
  BY GrabFacts
<1>2. ASSUME NEW i \in Items
      PROVE  /\ item[i].cycle \in Nat \ {0} /\ item'[i].cycle \in Nat \ {0}
             /\ item[i].cycle <= item'[i].cycle
             /\ item[i].hist \subseteq item'[i].hist
             /\ i \in S => /\ <<GrabCycle(i, k), "grabbed">> \in item'[i].hist
                           /\ GrabCycle(i, k) \in 1..item'[i].cycle
  BY <1>1, GrabbedFacts, ItemFacts
<1>3. CASE k = NoKey /\ UNCHANGED downloadVars
  <2>1. TypeOK'
    BY <1>1, <1>3 DEF TypeOK, RequestTypes, IInv, downloadVars
  <2>2. LinkFacts'
    <3>1. ASSUME NEW d \in Rows, NEW i \in Items, link'[d][i] # 0
          PROVE  /\ state'[d] # "absent"
                 /\ link'[d][i] \in 1..item'[i].cycle
                 /\ <<link'[d][i], "grabbed">> \in item'[i].hist
      <4>1. /\ state[d] # "absent" /\ link[d][i] \in 1..item[i].cycle
            /\ <<link[d][i], "grabbed">> \in item[i].hist
            /\ link'[d][i] = link[d][i] /\ state'[d] = state[d]
        BY <1>3, <3>1 DEF IInv, LinkFacts, downloadVars
      <4>2. /\ item[i].cycle \in Nat /\ item'[i].cycle \in Nat
            /\ item[i].cycle <= item'[i].cycle
        BY <1>2
      <4>3. link'[d][i] \in 1..item'[i].cycle
        BY <4>1, <4>2
      <4>4. <<link'[d][i], "grabbed">> \in item'[i].hist
        BY <4>1, <1>2
      <4> QED
        BY <4>1, <4>3, <4>4
    <3> QED
      BY <1>3, <3>1 DEF LinkFacts, IInv, downloadVars
  <2>3. AttemptOwnership' /\ OneActiveRow'
    BY <1>3 DEF IInv, AttemptOwnership, OneActiveRow, ActiveRows, RowsOf, downloadVars
  <2> QED
    BY <1>1, <2>1, <2>2, <2>3 DEF IInv
<1>4. ASSUME k \in Keys, NEW d \in Rows, GrabsRow(S, k, d)
      PROVE  IInv'
  <2>1. \A e \in Rows : \A i \in Items :
          /\ link'[e][i] = IF e = d /\ i \in S THEN GrabCycle(i, k) ELSE link[e][i]
          /\ key'[e] = IF e = d THEN k ELSE key[e]
          /\ state[e] # "absent" => key'[e] = key[e] /\ state'[e] = state[e]
          /\ state[e] = "absent" /\ e # d => state'[e] = "absent"
          /\ state'[d] \notin Terminal \union {"absent"}
    BY <1>4, GrabbedLinks
  <2>2. TypeOK'
    <3>1. key' \in [Rows -> Keys \union {NoKey}]
      BY <1>4 DEF GrabsRow, IInv, TypeOK
    <3>2. state' \in [Rows -> DownloadStates \union {"absent"}]
      BY <1>4 DEF GrabsRow, IInv, TypeOK, DownloadStates, Rank
    <3>3. ASSUME NEW i \in S PROVE GrabCycle(i, k) \in Nat
      <4>1. i \in Items
        BY <1>1
      <4>2. GrabCycle(i, k) \in 1..item'[i].cycle /\ item'[i].cycle \in Nat
        BY <1>2, <4>1
      <4> QED
        BY <4>2
    <3>4. link' \in [Rows -> [Items -> Nat]]
      BY <1>4, <3>3 DEF GrabsRow, IInv, TypeOK
    <3> QED
      BY <1>1, <3>1, <3>2, <3>4 DEF TypeOK, RequestTypes
  <2>3. LinkFacts'
    <3>1. \A e \in Rows : state'[e] # "absent" => key'[e] \in Keys
      BY <1>4 DEF GrabsRow, IInv, TypeOK, LinkFacts
    <3>2. ASSUME NEW e \in Rows, NEW i \in Items, link'[e][i] # 0
          PROVE  /\ state'[e] # "absent"
                 /\ link'[e][i] \in 1..item'[i].cycle
                 /\ <<link'[e][i], "grabbed">> \in item'[i].hist
      <4>1. CASE e = d /\ i \in S
        BY <1>2, <2>1, <4>1
      <4>2. CASE ~(e = d /\ i \in S)
        <5>1. link'[e][i] = link[e][i]
          BY <2>1, <4>2
        <5>2. /\ state[e] # "absent" /\ link[e][i] \in 1..item[i].cycle
              /\ <<link[e][i], "grabbed">> \in item[i].hist
          BY <3>2, <5>1 DEF IInv, LinkFacts
        <5>3. state'[e] # "absent"
          BY <2>1, <5>2
        <5>4. /\ item[i].cycle \in Nat /\ item'[i].cycle \in Nat
              /\ item[i].cycle <= item'[i].cycle
          BY <1>2
        <5>5. link'[e][i] \in 1..item'[i].cycle
          BY <5>1, <5>2, <5>4
        <5>6. <<link'[e][i], "grabbed">> \in item'[i].hist
          BY <1>2, <5>1, <5>2
        <5> QED
          BY <5>3, <5>5, <5>6
      <4> QED
        BY <4>1, <4>2
    <3> QED
      BY <3>1, <3>2 DEF LinkFacts
  <2>4. AttemptOwnership'
    <3>1. ASSUME NEW i \in Items, NEW e \in Rows, link'[e][i] # 0, i \in S
          PROVE  key'[e] = k <=> link'[e][i] = GrabCycle(i, k)
      <4>1. CASE e = d
        BY <2>1, <3>1, <4>1
      <4>2. CASE e # d
        BY <1>4, <2>1, <3>1, <4>2, GrabCycleOwned
      <4> QED
        BY <4>1, <4>2
    <3>2. ASSUME NEW i \in Items, NEW e \in Rows, NEW f \in Rows,
                 link'[e][i] # 0, link'[f][i] # 0
          PROVE  key'[e] = key'[f] <=> link'[e][i] = link'[f][i]
      <4>1. CASE i \in S /\ (e = d \/ f = d)
        <5>1. key'[d] = k /\ link'[d][i] = GrabCycle(i, k)
          BY <2>1, <4>1
        <5> QED
          BY <3>1, <3>2, <4>1, <5>1
      <4>2. CASE ~(i \in S /\ (e = d \/ f = d))
        <5>1. link'[e][i] = link[e][i] /\ link'[f][i] = link[f][i]
          BY <2>1, <4>2
        <5>2. key'[e] = key[e] /\ key'[f] = key[f]
          BY <2>1, <3>2, <5>1 DEF IInv, LinkFacts
        <5> QED
          BY <3>2, <5>1, <5>2 DEF IInv, AttemptOwnership
      <4> QED
        BY <4>1, <4>2
    <3> QED
      BY <3>2 DEF AttemptOwnership
  <2>5. OneActiveRow'
    <3>1. /\ key \in [Rows -> Keys \union {NoKey}]
          /\ state \in [Rows -> DownloadStates \union {"absent"}]
      BY DEF IInv, TypeOK
    <3>2. ASSUME NEW l \in Keys, NEW e \in ActiveRows(l)', e # d
          PROVE  l # k \/ ActiveRows(k) # {}
      BY <1>4, <3>1, <3>2 DEF ActiveRows, RowsOf, GrabsRow
    <3>3. ASSUME NEW l \in Keys, NEW e \in ActiveRows(l)'
          PROVE  e \in ActiveRows(l) \/ (l = k /\ e = d)
      BY <1>4, <3>1, <3>3 DEF ActiveRows, RowsOf, GrabsRow
    <3>4. ActiveRows(k) # {} => d \in ActiveRows(k)
      BY <1>4 DEF GrabsRow
    <3> QED
      BY <3>3, <3>4 DEF OneActiveRow, IInv
  <2> QED
    BY <1>1, <2>2, <2>3, <2>4, <2>5 DEF IInv
<1> QED
  BY <1>3, <1>4, GrabFacts

(* The invariant and what follows from it ----------------------------------*)

GrabStep ==
  \E r \in Requests, k \in ReportIds : \E S \in Named(r, k) : Grab(r, S, k)

LEMMA NextCases ==
  ASSUME IInv, Next
  PROVE  Quiet \/ GrabStep
<1>1. CASE SeerrNext
  BY <1>1, SeerrQuiet DEF SeerrNext
<1>2. CASE ArrNext
  BY <1>2, ImportQuiet, FailureOfRowQuiet, FailureByNameQuiet DEF ArrNext, GrabStep
<1>3. CASE JobNext
  BY <1>3, JobEndedQuiet, JobAdvancedQuiet DEF JobNext
<1> QED
  BY <1>1, <1>2, <1>3, StageQuiet, ProjectorQuiet, ActionQuiet DEF Next

LEMMA StutterQuiet ==
  ASSUME IInv, UNCHANGED vars
  PROVE  Quiet
<1>1. QuietItems /\ QuietRows
  BY ItemsAlone, RowsAlone DEF vars, itemVars
<1>2. RequestTypes'
  BY DEF vars, requestVars, itemVars, RequestTypes, IInv, TypeOK
<1> QED
  BY <1>1, <1>2 DEF Quiet

LEMMA InitInv == Init => IInv
<1> SUFFICES ASSUME Init PROVE IInv
  OBVIOUS
<1>1. NewItem \in Item(Errors) /\ IsTop(NewItem)
  BY ErrorsFacts DEF NewItem, Item, IsTop, EnteredIn, StageKeys
<1>2. TypeOK
  BY <1>1, RequestsAssumption DEF Init, TypeOK
<1>3. AllTop
  BY <1>1 DEF Init, AllTop
<1>4. LinkFacts /\ AttemptOwnership
  BY DEF Init, LinkFacts, AttemptOwnership
<1>5. OneActiveRow
  BY DEF Init, OneActiveRow, ActiveRows, RowsOf
<1> QED
  BY <1>2, <1>3, <1>4, <1>5 DEF IInv

LEMMA StepKeepsInv ==
  ASSUME IInv, [Next]_vars
  PROVE  IInv'
<1>1. Quiet \/ GrabStep
  BY NextCases, StutterQuiet
<1> QED
  BY <1>1, QuietKeepsInv, GrabKeepsInv DEF GrabStep

\* The strengthening of the invariants below that every step keeps.
THEOREM Inductive == Spec => []IInv
<1>1. Init => IInv
  BY InitInv
<1>2. IInv /\ [Next]_vars => IInv'
  BY StepKeepsInv
<1> QED
  BY <1>1, <1>2, PTL DEF Spec

\* Every variable keeps its type, whatever is reported and in what order.
THEOREM TypeCorrect == Spec => []TypeOK
<1>1. IInv => TypeOK
  BY DEF IInv
<1> QED
  BY <1>1, Inductive, PTL

\* The stage shown is the furthest of the current attempt, for any number of
\* items, downloads and attempts.
THEOREM PointerCorrect == Spec => []PointerIsTop
<1>1. IInv => PointerIsTop
  BY TopIsFurthest DEF IInv, AllTop, IsTop, PointerIsTop
<1> QED
  BY <1>1, Inductive, PTL

\* An attempt of an item and a client download id belong to one another.
THEOREM OwnershipCorrect == Spec => []AttemptOwnership
<1>1. IInv => AttemptOwnership
  BY DEF IInv
<1> QED
  BY <1>1, Inductive, PTL

\* At most one row of a client download id is in flight.
THEOREM OneActiveRowCorrect == Spec => []OneActiveRow
<1>1. IInv => OneActiveRow
  BY DEF IInv
<1> QED
  BY <1>1, Inductive, PTL

LEMMA StepKeepsTerminal ==
  ASSUME IInv, [Next]_vars, NEW d \in Rows
  PROVE  /\ state[d] \in Terminal => state'[d] \in Terminal
         /\ state[d] = "imported" => state'[d] = "imported"
<1>1. CASE Quiet
  BY <1>1 DEF Quiet, QuietRows
<1>2. CASE GrabStep
  <2>1. PICK r \in Requests, k \in ReportIds : \E S \in Named(r, k) : Grab(r, S, k)
    BY <1>2 DEF GrabStep
  <2>2. PICK S \in Named(r, k) : Grab(r, S, k)
    BY <2>1
  <2>3. CASE UNCHANGED downloadVars
    BY <2>3 DEF downloadVars
  <2>4. ASSUME NEW f \in Rows, GrabsRow(S, k, f)
        PROVE  state[d] \in Terminal => state'[d] = state[d]
    BY <2>4 DEF GrabsRow, IInv, TypeOK, Terminal
  <2> QED
    BY <2>2, <2>3, <2>4, GrabFacts DEF Terminal
<1> QED
  BY <1>1, <1>2, NextCases, StutterQuiet

\* No late job, failure or cancellation revives a terminal download, and none
\* takes an imported one back.
THEOREM TerminalRowsCorrect == Spec => TerminalRowsStay
<1>1. IInv /\ [Next]_vars => [KeepsTerminalRows]_vars
  BY StepKeepsTerminal DEF KeepsTerminalRows
<1> QED
  BY <1>1, Inductive, PTL DEF Spec, TerminalRowsStay

(* Claims ------------------------------------------------------------------*)

\* The claims of an item are those of the rows, and no others.
LEMMA ClaimIs ==
  ASSUME NEW T, NEW c \in Nat, \A n \in T : n = c \/ n = 0, c \in T \union {0}
  PROVE  Highest({0} \union T) = c
<1> DEFINE Z == {0} \union T
<1>1. c \in Z /\ \A n \in Z : n \in Nat /\ n <= c
  OBVIOUS
<1> HIDE DEF Z
<1>2. Highest(Z) \in Z /\ \A n \in Z : n <= Highest(Z)
  BY <1>1 DEF Highest
<1>3. Highest(Z) = c
  <2>1. Highest(Z) \in Nat /\ Highest(Z) <= c
    BY <1>1, <1>2
  <2>2. c <= Highest(Z)
    BY <1>1, <1>2
  <2> QED
    BY <2>1, <2>2
<1> QED
  BY <1>3 DEF Z

\* A step that leaves links, keys and the existence of rows alone leaves the
\* claims alone.
LEMMA QuietClaims ==
  ASSUME IInv, QuietRows, NEW i \in Items, NEW k
  PROVE  Claim(i, k)' = Claim(i, k)
<1>1. RowsOf(k)' = RowsOf(k)
  BY DEF QuietRows, RowsOf
<1>2. link' = link
  BY DEF QuietRows
<1> QED
  BY <1>1, <1>2 DEF Claim

\* What a grab does to the claims: its download gets the attempt it landed in.
LEMMA GrabClaims ==
  ASSUME IInv, NEW S, NEW k \in Keys, NEW d \in Rows, GrabsRow(S, k, d),
         NEW i \in Items, NEW l \in Keys, GrabCycle(i, k) \in Nat
  PROVE  Claim(i, l)' = IF l = k /\ i \in S THEN GrabCycle(i, k) ELSE Claim(i, l)
<1> DEFINE T == {link[e][i] : e \in RowsOf(l)}
           U == {link'[e][i] : e \in RowsOf(l)'}
<1> HIDE DEF T, U
<1>0. \A e \in Rows : link[e][i] # 0 => state[e] # "absent"
  BY DEF IInv, LinkFacts
<1>1. ASSUME NEW e \in Rows
      PROVE
        /\ link'[e][i] = IF e = d /\ i \in S THEN GrabCycle(i, k) ELSE link[e][i]
        /\ key'[e] = IF e = d THEN k ELSE key[e]
        /\ state[e] # "absent" => key'[e] = key[e] /\ state'[e] = state[e]
        /\ state[e] = "absent" /\ e # d => state'[e] = "absent"
        /\ state'[d] \notin Terminal \union {"absent"}
        /\ link[e][i] # 0 => state[e] # "absent"
  <2>1. link[e][i] # 0 => state[e] # "absent"
    BY <1>0
  <2>2. /\ link'[e][i] = IF e = d /\ i \in S THEN GrabCycle(i, k) ELSE link[e][i]
        /\ key'[e] = IF e = d THEN k ELSE key[e]
        /\ state[e] # "absent" => key'[e] = key[e] /\ state'[e] = state[e]
        /\ state[e] = "absent" /\ e # d => state'[e] = "absent"
        /\ state'[d] \notin Terminal \union {"absent"}
        /\ \/ state'[e] = state[e]
           \/ e = d /\ state[e] = "absent" /\ state'[e] = "grabbed"
    BY GrabbedLinks, Zenon
  <2> QED
    BY <2>1, <2>2
<1>2. Claim(i, l)' = Highest({0} \union U) /\ Claim(i, l) = Highest({0} \union T)
  BY DEF Claim, T, U
<1>3. CASE l = k /\ i \in S
  <2>1. d \in RowsOf(l)'
    BY <1>1, <1>3 DEF RowsOf
  <2>2. GrabCycle(i, k) \in U
    BY <1>1, <1>3, <2>1 DEF U
  <2>3. ASSUME NEW e \in RowsOf(l)' PROVE link'[e][i] \in {0, GrabCycle(i, k)}
    <3>1. e \in Rows /\ key'[e] = k
      BY <1>3, <2>3 DEF RowsOf
    <3>2. CASE e = d
      BY <1>1, <1>3, <3>2
    <3>3. CASE e # d
      <4>1. link'[e][i] = link[e][i] /\ key[e] = k
        BY <1>1, <3>1, <3>3
      <4> QED
        BY <3>1, <4>1, GrabCycleOwned
    <3> QED
      BY <3>2, <3>3
  <2>4. \A n \in U : n = GrabCycle(i, k) \/ n = 0
    BY <2>3 DEF U
  <2>5. Highest({0} \union U) = GrabCycle(i, k)
    BY <2>2, <2>4, ClaimIs
  <2> QED
    BY <1>2, <1>3, <2>5
<1>4. CASE ~(l = k /\ i \in S)
  <2>1. ASSUME NEW n, n # 0, n \in U PROVE n \in T
    <3>1. PICK e \in RowsOf(l)' : n = link'[e][i]
      BY <2>1 DEF U
    <3>2. e \in Rows /\ key'[e] = l
      BY DEF RowsOf
    <3>3. link'[e][i] = link[e][i]
      BY <1>1, <1>4, <3>2
    <3>4. state[e] # "absent" /\ key[e] = l
      BY <1>1, <2>1, <3>1, <3>2, <3>3
    <3> QED
      BY <3>1, <3>2, <3>3, <3>4 DEF RowsOf, T
  <2>2. ASSUME NEW n, n \in T PROVE n \in U
    <3>1. PICK e \in RowsOf(l) : n = link[e][i]
      BY <2>2 DEF T
    <3>2. e \in Rows /\ state[e] # "absent" /\ key[e] = l
      BY DEF RowsOf
    <3>3. e \in RowsOf(l)'
      BY <1>1, <3>2 DEF RowsOf
    <3>4. link'[e][i] = link[e][i]
      BY <1>1, <1>4, <3>2
    <3> QED
      BY <3>1, <3>3, <3>4 DEF U
  <2>3. {0} \union U = {0} \union T
    BY <2>1, <2>2
  <2> QED
    BY <1>2, <1>4, <2>3
<1> QED
  BY <1>3, <1>4

(* Pipeline implements Timeline --------------------------------------------*)

\* Every handler is a step of the timeline of each item, or leaves it alone.

\* What a step of the timeline asks of one item.
ItemStep(i) ==
  /\ \/ /\ item'[i].cycle = item[i].cycle
        /\ item[i].hist \subseteq item'[i].hist
        /\ item'[i].hist \subseteq item[i].hist \union ((1..item[i].cycle) \X StageKeys)
     \/ /\ item'[i].cycle = item[i].cycle + 1
        /\ \/ item'[i].hist = item[i].hist
           \/ /\ item'[i].hist = item[i].hist \union {<<item'[i].cycle, "grabbed">>}
              /\ \E k \in Keys : Claim(i, k) = 0 /\ Claim(i, k)' = item'[i].cycle
  /\ \A k \in Keys :
       \/ Claim(i, k)' = Claim(i, k)
       \/ /\ Claim(i, k) = 0
          /\ Claim(i, k)' = item'[i].cycle
          /\ \A l \in Keys \ {k} : Claim(i, l)' # item'[i].cycle
  /\ item'[i].stage = Furthest(item'[i].hist, item'[i].cycle)

LEMMA QuietItemStep ==
  ASSUME IInv, Quiet, NEW i \in Items
  PROVE  ItemStep(i)
<1>1. Moves(item[i], item'[i])
  BY DEF Quiet, QuietItems
<1>2. \A k \in Keys : Claim(i, k)' = Claim(i, k)
  BY QuietClaims DEF Quiet
<1>3. item'[i].stage = Furthest(item'[i].hist, item'[i].cycle)
  BY <1>1, TopIsFurthest DEF Moves, IsTop
<1> QED
  BY <1>1, <1>2, <1>3 DEF Moves, ItemStep

LEMMA GrabItemStep ==
  ASSUME IInv, GrabStep, NEW i \in Items
  PROVE  ItemStep(i)
<1>1. PICK r \in Requests, k \in ReportIds : \E S \in Named(r, k) : Grab(r, S, k)
  BY DEF GrabStep
<1>2. PICK S \in Named(r, k) : Grab(r, S, k)
  BY <1>1
<1>3. /\ k \in Keys \union {NoKey}
      /\ item'[i] = IF i \in S THEN Grabbed(i, k) ELSE item[i]
      /\ IsTop(item'[i])
      /\ \/ k = NoKey /\ UNCHANGED downloadVars
         \/ k \in Keys /\ \E d \in Rows : GrabsRow(S, k, d)
  BY <1>2, GrabFacts DEF AllTop
<1> DEFINE c == GrabCycle(i, k)
<1>4. /\ item[i].cycle \in Nat \ {0}
      /\ Grabbed(i, k).cycle = item[i].cycle + (IF IsRegrab(i, k) THEN 1 ELSE 0)
      /\ Grabbed(i, k).hist = item[i].hist \union {<<c, "grabbed">>}
      /\ c \in 1..Grabbed(i, k).cycle
      /\ IsRegrab(i, k) => c = item[i].cycle + 1
      /\ ~IsRegrab(i, k) => c \in 1..item[i].cycle
  BY <1>3, ItemFacts, GrabbedFacts
<1>5. "grabbed" \in StageKeys /\ c \in Nat
  BY <1>4 DEF StageKeys
<1>6. item'[i].stage = Furthest(item'[i].hist, item'[i].cycle)
  BY <1>3, TopIsFurthest DEF IsTop
<1>7. CASE k = NoKey /\ UNCHANGED downloadVars
  <2>1. ~IsRegrab(i, k)
    BY <1>7 DEF IsRegrab
  <2>2. \A l : Claim(i, l)' = Claim(i, l)
    BY <1>7 DEF downloadVars, Claim, RowsOf
  <2>3. /\ item'[i].cycle = item[i].cycle
        /\ item[i].hist \subseteq item'[i].hist
        /\ item'[i].hist \subseteq item[i].hist \union ((1..item[i].cycle) \X StageKeys)
    BY <1>3, <1>4, <1>5, <2>1
  <2> QED
    BY <1>6, <2>2, <2>3 DEF ItemStep
<1>8. ASSUME k \in Keys, NEW d \in Rows, GrabsRow(S, k, d)
      PROVE  ItemStep(i)
  <2>1. ASSUME NEW l \in Keys
        PROVE  Claim(i, l)' = IF l = k /\ i \in S THEN c ELSE Claim(i, l)
    BY <1>5, <1>8, GrabClaims
  <2>2. CASE i \notin S
    <3>1. item'[i] = item[i]
      BY <1>3, <2>2
    <3> QED
      BY <1>6, <2>1, <2>2, <3>1 DEF ItemStep
  <2>3. CASE i \in S
    <3>1. item'[i] = Grabbed(i, k)
      BY <1>3, <2>3
    <3>2. /\ Claim(i, k) # 0 => c = Claim(i, k)
          /\ Claim(i, k) = 0 => c = item'[i].cycle
          /\ IsRegrab(i, k) => Claim(i, k) = 0
      <4>1. Claim(i, k) # 0 => Claim(i, k) > 0
        <5>1. Claim(i, k) \in 0..item[i].cycle
          BY <1>8, ClaimFacts
        <5> QED
          BY <1>4, <5>1
      <4>2. IsRegrab(i, k) => Claim(i, k) = 0
        BY DEF IsRegrab
      <4>3. Claim(i, k) # 0 => c = Claim(i, k)
        BY <4>1, <4>2 DEF GrabCycle, ReportCycle
      <4>4. Claim(i, k) = 0 => c = item'[i].cycle
        <5>1. Claim(i, k) = 0 /\ ~IsRegrab(i, k) => c = item[i].cycle
          BY DEF GrabCycle, ReportCycle
        <5> QED
          BY <1>4, <3>1, <5>1
      <4> QED
        BY <4>2, <4>3, <4>4
    <3>3. ASSUME NEW l \in Keys \ {k}, Claim(i, k) = 0
          PROVE  Claim(i, l)' # item'[i].cycle
      <4>1. Claim(i, l)' = Claim(i, l) /\ c = item'[i].cycle /\ c # 0
        BY <1>4, <2>1, <3>2, <3>3
      <4>2. CASE \A e \in RowsOf(l) : link[e][i] = 0
        BY <4>1, <4>2, NoLinkNoClaim
      <4>3. CASE \E e \in RowsOf(l) : link[e][i] # 0
        <5>1. PICK e \in RowsOf(l) : link[e][i] # 0
          BY <4>3
        <5>2. Claim(i, l) = link[e][i] /\ e \in Rows /\ key[e] = l
          BY <5>1, ClaimOfLink DEF RowsOf
        <5>3. link[e][i] # c
          BY <1>8, <5>1, <5>2, GrabCycleOwned
        <5> QED
          BY <4>1, <5>2, <5>3
      <4> QED
        BY <4>2, <4>3
    <3>4. \A l \in Keys :
            \/ Claim(i, l)' = Claim(i, l)
            \/ /\ Claim(i, l) = 0
               /\ Claim(i, l)' = item'[i].cycle
               /\ \A m \in Keys \ {l} : Claim(i, m)' # item'[i].cycle
      BY <2>1, <2>3, <3>2, <3>3
    <3>5. CASE IsRegrab(i, k)
      <4>1. /\ item'[i].cycle = item[i].cycle + 1
            /\ item'[i].hist = item[i].hist \union {<<item'[i].cycle, "grabbed">>}
            /\ Claim(i, k) = 0 /\ Claim(i, k)' = item'[i].cycle
        BY <1>4, <1>8, <2>1, <2>3, <3>1, <3>2, <3>5
      <4> QED
        BY <1>6, <1>8, <3>4, <4>1 DEF ItemStep
    <3>6. CASE ~IsRegrab(i, k)
      <4>1. item'[i].cycle = item[i].cycle
        BY <1>4, <3>1, <3>6
      <4>2. <<c, "grabbed">> \in (1..item[i].cycle) \X StageKeys
        BY <1>4, <1>5, <3>6
      <4>3. /\ item[i].hist \subseteq item'[i].hist
            /\ item'[i].hist \subseteq item[i].hist \union ((1..item[i].cycle) \X StageKeys)
        BY <1>4, <3>1, <4>2
      <4> QED
        BY <1>6, <3>4, <4>1, <4>3 DEF ItemStep
    <3> QED
      BY <3>5, <3>6
  <2> QED
    BY <2>2, <2>3
<1> QED
  BY <1>3, <1>7, <1>8

\* The initial states of the pipeline are initial states of the timeline.
LEMMA InitRefines == Init => Promise!Init
<1> SUFFICES ASSUME Init PROVE Promise!Init
  OBVIOUS
<1>1. ASSUME NEW i \in Items, NEW k \in Keys PROVE Claim(i, k) = 0
  <2>1. RowsOf(k) = {}
    BY DEF Init, RowsOf
  <2> QED
    BY <2>1, NoLinkNoClaim
<1>2. \A i \in Items : item[i] = NewItem
  BY DEF Init
<1> QED
  BY <1>1, <1>2 DEF Promise!Init, NewItem

\* The stage catalogue that Timeline is instantiated with is this one.
LEMMA SameCatalogue ==
  /\ Promise!StageKeys = StageKeys
  /\ \A h, c : Promise!Furthest(h, c) = Furthest(h, c)
<1>1. Promise!StageKeys = StageKeys
  BY DEF StageKeys, Promise!StageKeys
<1>2. Promise!Ordinal = Ordinal
  BY <1>1, Zenon DEF Ordinal, Promise!Ordinal
<1>3. \A h, c : Promise!EnteredIn(h, c) = EnteredIn(h, c)
  BY <1>1 DEF EnteredIn, Promise!EnteredIn
<1>4. \A h, c : Promise!Furthest(h, c) = Furthest(h, c)
  BY <1>2, <1>3, Zenon DEF Furthest, Promise!Furthest
<1> QED
  BY <1>1, <1>4

\* Every step of the pipeline is one of the timeline.
LEMMA StepRefines ==
  ASSUME IInv, [Next]_vars
  PROVE  [Promise!Next]_(Promise!vars)
<1>1. ASSUME NEW i \in Items PROVE ItemStep(i)
  BY NextCases, StutterQuiet, QuietItemStep, GrabItemStep
<1>2. ASSUME NEW i \in Items PROVE Promise!Report(i) \/ Promise!Begin(i)
  BY <1>1, <1>2, SameCatalogue DEF ItemStep, Promise!Report, Promise!Begin
<1>3. ASSUME NEW i \in Items PROVE Promise!Claims(i)
  BY <1>1, <1>3 DEF ItemStep, Promise!Claims
<1>4. ASSUME NEW i \in Items
      PROVE  [j \in Items |-> item[j].stage]'[i] =
               Promise!Furthest([j \in Items |-> item[j].hist]'[i],
                                [j \in Items |-> item[j].cycle]'[i])
  BY <1>1, <1>4, SameCatalogue DEF ItemStep
<1>5. Promise!Next
  BY <1>2, <1>3, <1>4 DEF Promise!Next
<1> QED
  BY <1>5

\* Every behaviour of the pipeline is one of the timeline, for any number of
\* items, requests, downloads and attempts.
THEOREM Refinement == Spec => KeepsPromise
<1>1. Init => Promise!Init
  BY InitRefines
<1>2. IInv /\ [Next]_vars => [Promise!Next]_(Promise!vars)
  BY StepRefines
<1> QED
  BY <1>1, <1>2, Inductive, PTL DEF Spec, KeepsPromise, Promise!Spec

(* Stages that are entered -------------------------------------------------*)

\* What apply() makes of an item; a stage on record changes nothing.
LEMMA AppliedFacts ==
  ASSUME NEW it \in Item(Errors), IsTop(it), NEW s \in StageKeys
  PROVE  /\ Applied(it, s) \in Item(Errors) /\ IsTop(Applied(it, s))
         /\ Applied(it, s).cycle = it.cycle /\ Applied(it, s).err = it.err
         /\ Applied(it, s).hist = it.hist \union {<<it.cycle, s>>}
         /\ <<it.cycle, s>> \in it.hist => Applied(it, s) = it
<1>1. it.cycle \in 1..it.cycle
  BY DEF Item
<1> QED
  BY <1>1, ApplyStageKeepsTop, ApplyStageAgain DEF Applied

\* What an approval makes of an item, and when it is no news.
LEMMA ApprovedFacts ==
  ASSUME NEW it \in Item(Errors), IsTop(it)
  PROVE  /\ Approved(it).cycle = it.cycle /\ Approved(it).err = it.err
         /\ <<it.cycle, "approved">> \in Approved(it).hist
         /\ Approved(it).hist = it.hist => Approved(it) = it
<1> DEFINE jt == Applied(it, "requested")
<1>1. "requested" \in StageKeys /\ "approved" \in StageKeys
  BY DEF StageKeys
<1>2. /\ jt \in Item(Errors) /\ IsTop(jt) /\ jt.cycle = it.cycle /\ jt.err = it.err
      /\ jt.hist = it.hist \union {<<it.cycle, "requested">>}
      /\ <<it.cycle, "requested">> \in it.hist => jt = it
  BY <1>1, AppliedFacts
<1> HIDE DEF jt
<1>3. /\ Applied(jt, "approved").cycle = it.cycle /\ Applied(jt, "approved").err = it.err
      /\ Applied(jt, "approved").hist = jt.hist \union {<<it.cycle, "approved">>}
      /\ <<it.cycle, "approved">> \in jt.hist => Applied(jt, "approved") = jt
  BY <1>1, <1>2, AppliedFacts
<1>4. Approved(it) = Applied(jt, "approved")
  BY DEF Approved, jt
<1>5. ASSUME Approved(it).hist = it.hist PROVE Approved(it) = it
  <2>1. <<it.cycle, "requested">> \in it.hist /\ <<it.cycle, "approved">> \in it.hist
    BY <1>2, <1>3, <1>4, <1>5
  <2> QED
    BY <1>2, <1>3, <1>4, <2>1
<1> QED
  BY <1>3, <1>4, <1>5

(* Cancellations -----------------------------------------------------------*)

\* Only a request without items can leave "canceled".
LEMMA StepKeepsCanceled ==
  ASSUME IInv, [Next]_vars, NEW r \in Requests,
         status[r] = "canceled", ItemsOf(r) # {}
  PROVE  status'[r] = "canceled"
<1>t. status \in [Requests -> {"none", "active", "completed", "canceled"}]
  BY DEF IInv, TypeOK
<1>c. \A q \in Requests : Created(q)[r] = "canceled"
  BY <1>t DEF Created
<1>r. ASSUME NEW its, NEW done PROVE Rollup(r, its, done) = "canceled"
  BY DEF Rollup
<1>1. CASE SeerrNext
  <2>1. PICK q \in Requests :
          \/ SeerrPending(q)   \/ SeerrApproved(q) \/ SeerrDeclined(q)
          \/ SeerrAvailable(q) \/ SeerrFailed(q)
    BY <1>1 DEF SeerrNext
  <2>2. CASE SeerrPending(q) \/ SeerrApproved(q) \/ SeerrFailed(q)
    BY <2>2, <1>c DEF SeerrPending, SeerrApproved, SeerrFailed
  <2>3. CASE SeerrDeclined(q)
    BY <2>3, <1>t DEF SeerrDeclined
  <2>4. CASE SeerrAvailable(q)
    <3>1. status' = Created(q) \/ (q # r /\ status' = [status EXCEPT ![q] = "completed"])
      BY <2>4 DEF SeerrAvailable
    <3> QED
      BY <3>1, <1>c, <1>t
  <2> QED
    BY <2>1, <2>2, <2>3, <2>4
<1>2. CASE ArrNext
  <2>1. (\E q \in Requests : status' = Created(q)) \/ status' = status
    BY <1>2 DEF ArrNext, Grab, Import, FailureByName, FailureOfRow, Resolve, requestVars
  <2> QED
    BY <2>1, <1>c
<1>3. CASE JobNext \/ StageNext
  BY <1>3 DEF JobNext, JobEnded, JobAdvanced, StageNext, ApplyTranscode,
              ApplyAvailable, ApplyNotified, Enters, requestVars
<1>4. CASE ProjectorNext
  <2>1. CASE Flush
    BY <2>1, <1>r DEF Flush
  <2>2. ASSUME NEW q \in Requests, RetryFanout(q)
        PROVE  status'[r] = "canceled"
    <3>1. status' = status \/ \E its, done : status' = [status EXCEPT ![q] = Rollup(q, its, done)]
      BY <2>2 DEF RetryFanout
    <3> QED
      BY <3>1, <1>t, <1>r
  <2>3. CASE \E q \in Requests : GiveUpFanout(q)
    BY <2>3 DEF GiveUpFanout, requestVars
  <2> QED
    BY <1>4, <2>1, <2>2, <2>3 DEF ProjectorNext
<1>5. CASE ActionNext
  BY <1>5, <1>t DEF ActionNext, Retry, Cancel, requestVars
<1>6. CASE UNCHANGED vars
  BY <1>6 DEF vars, requestVars
<1> QED
  BY <1>1, <1>2, <1>3, <1>4, <1>5, <1>6 DEF Next

\* No report, no rollup and no fan-out takes a cancellation back.
THEOREM CanceledCorrect == Spec => CanceledSticks
<1>1. IInv /\ [Next]_vars => [KeepsCanceled]_vars
  BY StepKeepsCanceled DEF KeepsCanceled
<1> QED
  BY <1>1, Inductive, PTL DEF Spec, CanceledSticks

(* Imported rows -----------------------------------------------------------*)

\* A row is closed by an import that leaves nothing of it unimported.
LEMMA ClosedComplete ==
  ASSUME IInv, Next, NEW d \in Rows, state'[d] = "imported", state[d] # "imported"
  PROVE  link' = link /\ Unimported(d, item') = {}
<1>t. state \in [Rows -> DownloadStates \union {"absent"}]
  BY DEF IInv, TypeOK
<1>1. ~UNCHANGED downloadVars
  BY DEF downloadVars
<1>2. ~SeerrNext /\ ~StageNext /\ ~ProjectorNext
  BY <1>1 DEF SeerrNext, SeerrPending, SeerrApproved, SeerrDeclined, SeerrAvailable,
              SeerrFailed, StageNext, ApplyTranscode, ApplyAvailable, ApplyNotified,
              Enters, ProjectorNext, Flush, RetryFanout, GiveUpFanout
<1>3. CASE ArrNext
  <2>1. ASSUME NEW r \in Requests, NEW k \in ReportIds, NEW S \in Named(r, k),
               Grab(r, S, k)
        PROVE  FALSE
    <3>1. \/ UNCHANGED downloadVars
          \/ \E e \in Rows : state' = [state EXCEPT ![e] = IF @ = "absent" THEN "grabbed"
                                                                           ELSE @]
      BY <2>1, GrabFacts DEF GrabsRow
    <3> QED
      BY <1>1, <1>t, <3>1
  <2>2. ASSUME NEW r \in Requests, NEW k \in ReportIds, NEW S \in Named(r, k),
               Import(r, S, k)
        PROVE  link' = link /\ Unimported(d, item') = {}
    <3>1. state'[d] = ImportedState(d, k, item')
      BY <2>2 DEF Import
    <3> QED
      BY <2>2, <3>1 DEF Import, ImportedState
  <2>3. ASSUME NEW k \in Keys, NEW soft \in BOOLEAN, FailureOfRow(k, soft)
        PROVE  FALSE
    BY <2>3, <1>t DEF FailureOfRow, FailedState
  <2> QED
    BY <1>1, <1>3, <2>1, <2>2, <2>3 DEF ArrNext, FailureByName
<1>4. CASE JobNext
  <2>1. PICK k \in Keys, to \in JobStates : JobEnded(k, to) \/ JobAdvanced(k, to)
    BY <1>4 DEF JobNext
  <2>2. CASE JobEnded(k, to)
    BY <2>2, <1>t DEF JobEnded, EndedState
  <2>3. CASE JobAdvanced(k, to)
    <3>1. to \in {"SUBMITTED", "DOWNLOADING", "COMPLETED_TORBOX", "READY"}
      BY <2>3, SourcesAssumption DEF JobAdvanced, AllJobStates
    <3>2. StageOfJob(to) # "imported"
      BY <3>1 DEF StageOfJob
    <3> QED
      BY <2>3, <3>2, <1>t DEF JobAdvanced, Advanced
  <2> QED
    BY <2>1, <2>2, <2>3
<1>5. CASE ActionNext
  BY <1>5 DEF ActionNext, Retry, Cancel
<1> QED
  BY <1>2, <1>3, <1>4, <1>5 DEF Next

\* The history of an item only grows.
LEMMA HistoryGrows ==
  ASSUME IInv, [Next]_vars, NEW i \in Items
  PROVE  item[i].hist \subseteq item'[i].hist
<1>1. CASE Quiet
  BY <1>1 DEF Quiet, QuietItems, Moves
<1>2. CASE GrabStep
  <2>1. PICK r \in Requests, k \in ReportIds : \E S \in Named(r, k) : Grab(r, S, k)
    BY <1>2 DEF GrabStep
  <2>2. PICK S \in Named(r, k) : Grab(r, S, k)
    BY <2>1
  <2>3. k \in Keys \union {NoKey} /\ item'[i] = IF i \in S THEN Grabbed(i, k) ELSE item[i]
    BY <2>2, GrabFacts
  <2> QED
    BY <2>3, GrabbedFacts
<1> QED
  BY <1>1, <1>2, NextCases, StutterQuiet

\* The links of a closed row stay.
LEMMA ClosedLinksStay ==
  ASSUME IInv, [Next]_vars, NEW d \in Rows, state[d] = "imported", NEW i \in Items
  PROVE  link'[d][i] = link[d][i]
<1>1. CASE Quiet
  BY <1>1 DEF Quiet, QuietRows
<1>2. CASE GrabStep
  <2>1. PICK r \in Requests, k \in ReportIds : \E S \in Named(r, k) : Grab(r, S, k)
    BY <1>2 DEF GrabStep
  <2>2. PICK S \in Named(r, k) : Grab(r, S, k)
    BY <2>1
  <2>3. CASE UNCHANGED downloadVars
    BY <2>3 DEF downloadVars
  <2>4. ASSUME NEW f \in Rows, GrabsRow(S, k, f), k \in Keys
        PROVE  link'[d][i] = link[d][i]
    <3>1. f # d
      BY <2>4 DEF GrabsRow, ActiveRows, Terminal
    <3>2. /\ link'[d][i] = IF d = f /\ i \in S THEN GrabCycle(i, k) ELSE link[d][i]
          /\ key'[d] = IF d = f THEN k ELSE key[d]
          /\ state[d] # "absent" => key'[d] = key[d] /\ state'[d] = state[d]
          /\ state[d] = "absent" /\ d # f => state'[d] = "absent"
          /\ state'[f] \notin Terminal \union {"absent"}
          /\ state'[d] = state[d] \/ (d = f /\ state[d] = "absent" /\ state'[d] = "grabbed")
      BY <2>4, GrabbedLinks, Zenon
    <3> QED
      BY <3>1, <3>2
  <2> QED
    BY <2>2, <2>3, <2>4, GrabFacts
<1> QED
  BY <1>1, <1>2, NextCases, StutterQuiet

\* A closed row stays complete, and is complete when it closes.
LEMMA StepKeepsComplete ==
  ASSUME IInv, ImportedRowIsComplete, [Next]_vars
  PROVE  ImportedRowIsComplete'
<1> SUFFICES ASSUME NEW d \in Rows, state'[d] = "imported", NEW i \in Items,
                    link'[d][i] # 0
             PROVE  <<link'[d][i], "imported">> \in item'[i].hist
  BY DEF ImportedRowIsComplete, Unimported, LinkedItems
<1>1. CASE state[d] = "imported"
  <2>1. link'[d][i] = link[d][i]
    BY <1>1, ClosedLinksStay
  <2>2. <<link[d][i], "imported">> \in item[i].hist
    BY <1>1, <2>1 DEF ImportedRowIsComplete, Unimported, LinkedItems
  <2> QED
    BY <2>1, <2>2, HistoryGrows
<1>2. CASE state[d] # "imported"
  <2>1. link' = link /\ Unimported(d, item') = {}
    BY <1>2, ClosedComplete DEF vars, downloadVars
  <2> QED
    BY <2>1 DEF Unimported, LinkedItems
<1> QED
  BY <1>1, <1>2

\* Whatever part of a pack is imported, in whatever order: its row is closed
\* when nothing it holds is missing.
THEOREM ImportedRowCorrect == Spec => []ImportedRowIsComplete
<1>1. Init => ImportedRowIsComplete
  BY DEF Init, ImportedRowIsComplete
<1>2. IInv /\ ImportedRowIsComplete /\ [Next]_vars => ImportedRowIsComplete'
  BY StepKeepsComplete
<1> QED
  BY <1>1, <1>2, Inductive, PTL DEF Spec

(* Retries of a pack -------------------------------------------------------*)

\* A row that exists holds what it is linked to; one that does not, nothing.
LEMMA StepMovesTogether ==
  ASSUME IInv, [Next]_vars, NEW d \in Rows, NEW i \in LinkedItems(d),
         NEW j \in LinkedItems(d), state[d] \notin Terminal, state'[d] = "canceled",
         item'[i].cycle > item[i].cycle
  PROVE  item'[j].cycle > item[j].cycle
<1>t. /\ state \in [Rows -> DownloadStates \union {"absent"}]
      /\ state[d] # "absent" /\ state[d] # "canceled"
      /\ i \in Items /\ j \in Items
      /\ item[i].cycle \in Nat /\ item[j].cycle \in Nat
  BY ItemFacts DEF IInv, TypeOK, LinkFacts, LinkedItems, Terminal
<1>1. state' # state /\ ~UNCHANGED item
  <2>1. ~(item[i].cycle > item[i].cycle)
    BY <1>t
  <2> QED
    BY <1>t, <2>1
<1>2. ~SeerrNext /\ ~StageNext /\ ~ProjectorNext /\ ~UNCHANGED vars
  BY <1>1 DEF SeerrNext, SeerrPending, SeerrApproved, SeerrDeclined, SeerrAvailable,
              SeerrFailed, StageNext, ApplyTranscode, ApplyAvailable, ApplyNotified,
              Enters, ProjectorNext, Flush, RetryFanout, GiveUpFanout, vars, downloadVars
<1>3. ~ArrNext
  <2>1. ASSUME NEW r \in Requests, NEW k \in ReportIds, NEW S \in Named(r, k),
               Grab(r, S, k)
        PROVE  FALSE
    <3>1. \/ UNCHANGED downloadVars
          \/ \E e \in Rows : state' = [state EXCEPT ![e] = IF @ = "absent" THEN "grabbed"
                                                                           ELSE @]
      BY <2>1, GrabFacts DEF GrabsRow
    <3> QED
      BY <1>1, <1>t, <3>1 DEF downloadVars
  <2>2. ASSUME NEW r \in Requests, NEW k \in ReportIds, NEW S \in Named(r, k),
               Import(r, S, k)
        PROVE  FALSE
    <3>1. state'[d] = ImportedState(d, k, item')
      BY <2>2 DEF Import
    <3> QED
      BY <1>t, <3>1 DEF ImportedState
  <2>3. ASSUME NEW k \in Keys, NEW soft \in BOOLEAN, FailureOfRow(k, soft)
        PROVE  FALSE
    BY <2>3, <1>t DEF FailureOfRow, FailedState
  <2> QED
    BY <1>1, <2>1, <2>2, <2>3 DEF ArrNext, FailureByName, downloadVars
<1>4. ~JobNext
  <2>1. ASSUME NEW k \in Keys, NEW to \in JobStates, JobEnded(k, to)
        PROVE  FALSE
    <3>1. item'[i] = item[i] \/ item'[i] = SetItemError(item[i], k)
      BY <2>1, <1>t DEF JobEnded
    <3>2. k \in Errors /\ item[i] \in Item(Errors) /\ IsTop(item[i])
      BY <1>t, ItemFacts, ErrorsFacts
    <3>3. item'[i].cycle = item[i].cycle
      BY <3>1, <3>2, SetErrorKeepsTop
    <3> QED
      BY <1>t, <3>3
  <2>2. ASSUME NEW k \in Keys, NEW to \in JobStates, JobAdvanced(k, to)
        PROVE  FALSE
    <3>1. to \in {"SUBMITTED", "DOWNLOADING", "COMPLETED_TORBOX", "READY"}
      BY <2>2, SourcesAssumption DEF JobAdvanced, AllJobStates
    <3>2. StageOfJob(to) # "canceled"
      BY <3>1 DEF StageOfJob
    <3> QED
      BY <2>2, <3>2, <1>t DEF JobAdvanced, Advanced
  <2> QED
    BY <2>1, <2>2 DEF JobNext
<1>5. PICK n \in Items : Retry(n)
  BY <1>1, <1>2, <1>3, <1>4 DEF Next, ActionNext, Cancel, itemVars
<1>6. d \in InFlight(n)
  BY <1>5, <1>t DEF Retry
<1>7. j \in Affected(n)
  BY <1>6 DEF Affected
<1>8. item'[j] = BumpItemCycle(item[j])
  BY <1>5, <1>7, <1>t DEF Retry
<1>9. item'[j].cycle = item[j].cycle + 1
  BY <1>8, <1>t, ItemFacts, BumpKeepsTop, ErrorsFacts
<1> QED
  BY <1>9, <1>t

\* The retry of one episode takes every episode of the canceled pack along.
THEOREM PackCorrect == Spec => PackMovesTogether
<1>1. IInv /\ [Next]_vars => [LeavesNoSibling]_vars
  BY StepMovesTogether DEF LeavesNoSibling
<1> QED
  BY <1>1, Inductive, PTL DEF Spec, PackMovesTogether

(* The error of the current attempt ----------------------------------------*)

\* What a step does to the error of an item: it stays with the attempt, it is
\* cleared, or it is one of the current attempt or of none.
ErrorStep(i) ==
  \/ item'[i].err \notin Keys
  \/ /\ item'[i].cycle = item[i].cycle
     /\ \/ item'[i].err = item[i].err
        \/ Claim(i, item'[i].err) \in {0, item[i].cycle}

\* Attempt and error stay.
LEMMA SameErrorStep ==
  ASSUME NEW i \in Items, item'[i].cycle = item[i].cycle, item'[i].err = item[i].err
  PROVE  ErrorStep(i)
BY DEF ErrorStep

\* markItem writes no error of another attempt.
LEMMA MarkErrorStep ==
  ASSUME IInv, NEW S, NEW k \in Errors, MarkItems(S, k), NEW i \in Items
  PROVE  ErrorStep(i)
<1>1. CASE item'[i] = item[i]
  BY <1>1, SameErrorStep
<1>2. CASE Marks(i, k) /\ item'[i] = SetItemError(item[i], k)
  <2>1. item'[i].cycle = item[i].cycle /\ item'[i].err = k
    BY <1>2, ItemFacts, SetErrorKeepsTop DEF SetItemError, Item
  <2> QED
    BY <1>2, <2>1, KeysAssumption DEF Marks, ErrorStep
<1> QED
  BY <1>1, <1>2 DEF MarkItems

\* Entering a stage leaves attempt and error alone.
LEMMA EnterErrorStep ==
  ASSUME IInv, NEW S, NEW s \in StageKeys, Enter(S, s), NEW i \in Items
  PROVE  ErrorStep(i)
<1>1. item'[i] = item[i] \/ item'[i] = Applied(item[i], s)
  BY DEF Enter
<1>2. item[i] \in Item(Errors) /\ IsTop(item[i])
  BY ItemFacts
<1>3. Applied(item[i], s).cycle = item[i].cycle /\ Applied(item[i], s).err = item[i].err
  BY <1>2, AppliedFacts
<1> QED
  BY <1>1, <1>3, SameErrorStep

\* So does an approval.
LEMMA ApproveErrorStep ==
  ASSUME IInv, NEW S, Approve(S), NEW i \in Items
  PROVE  ErrorStep(i)
<1>1. item'[i] = item[i] \/ item'[i] = Approved(item[i])
  BY DEF Approve
<1> QED
  BY <1>1, ItemFacts, ApprovedFacts, SameErrorStep

\* The error of a failed Seerr request is no download's.
LEMMA SeerrErrorStep ==
  ASSUME IInv, SeerrNext, NEW i \in Items
  PROVE  ErrorStep(i)
<1>1. PICK r \in Requests :
        \/ SeerrPending(r)   \/ SeerrApproved(r) \/ SeerrDeclined(r)
        \/ SeerrAvailable(r) \/ SeerrFailed(r)
  BY DEF SeerrNext
<1>s. "requested" \in StageKeys /\ "available" \in StageKeys
  BY DEF StageKeys
<1>2. CASE SeerrPending(r)
  BY <1>2, <1>s, EnterErrorStep DEF SeerrPending
<1>3. CASE SeerrApproved(r)
  <2>1. (\E S : Approve(S)) \/ UNCHANGED item
    BY <1>3 DEF SeerrApproved, FanoutDone, FanoutQueued, itemVars
  <2> QED
    BY <2>1, ApproveErrorStep, SameErrorStep
<1>4. CASE SeerrDeclined(r)
  BY <1>4, SameErrorStep DEF SeerrDeclined, itemVars
<1>5. CASE SeerrAvailable(r)
  BY <1>5, <1>s, EnterErrorStep DEF SeerrAvailable
<1>6. CASE SeerrFailed(r)
  <2>1. item'[i] = item[i] \/ item'[i] = SetItemError(item[i], SeerrError)
    BY <1>6 DEF SeerrFailed
  <2>2. SetItemError(item[i], SeerrError).err = SeerrError
    BY ItemFacts DEF SetItemError, Item
  <2> QED
    BY <2>1, <2>2, SameErrorStep, KeysAssumption DEF ErrorStep
<1> QED
  BY <1>1, <1>2, <1>3, <1>4, <1>5, <1>6

\* A job that ends marks the items its row serves now, and no others.
LEMMA JobErrorStep ==
  ASSUME IInv, JobNext, NEW i \in Items
  PROVE  ErrorStep(i)
<1>1. PICK k \in Keys, to \in JobStates : JobEnded(k, to) \/ JobAdvanced(k, to)
  BY DEF JobNext
<1>2. CASE JobEnded(k, to)
  <2>1. PICK d \in NewestRow(k) :
          item' = [j \in Items |-> IF link[d][j] = item[j].cycle
                                   THEN SetItemError(item[j], k) ELSE item[j]]
    BY <1>2 DEF JobEnded
  <2>2. CASE item'[i] = item[i]
    BY <2>2, SameErrorStep
  <2>3. CASE link[d][i] = item[i].cycle /\ item'[i] = SetItemError(item[i], k)
    <3>1. item'[i].cycle = item[i].cycle /\ item'[i].err = k /\ item[i].cycle # 0
      BY <2>3, ItemFacts, SetErrorKeepsTop, ErrorsFacts DEF SetItemError, Item
    <3>2. Claim(i, k) = item[i].cycle
      BY <2>3, <3>1, NewestRowIn, ClaimOfLink
    <3> QED
      BY <3>1, <3>2 DEF ErrorStep
  <2> QED
    BY <2>1, <2>2, <2>3
<1>3. CASE JobAdvanced(k, to)
  <2>1. StageOfJob(to) \in StageKeys
    <3>1. to \in {"SUBMITTED", "DOWNLOADING", "COMPLETED_TORBOX", "READY"}
      BY <1>3, SourcesAssumption DEF JobAdvanced, AllJobStates
    <3> QED
      BY <3>1 DEF StageOfJob, StageKeys
  <2>2. \/ item'[i] = item[i]
        \/ item'[i] = ApplyStage(item[i], ReportCycle(i, k), StageOfJob(to))
    BY <1>3 DEF JobAdvanced
  <2>3. /\ item[i] \in Item(Errors) /\ IsTop(item[i])
        /\ ReportCycle(i, k) \in 1..item[i].cycle
    BY <2>1, ItemFacts, ClaimFacts
  <2>4. item'[i].cycle = item[i].cycle /\ item'[i].err = item[i].err
    BY <2>1, <2>2, <2>3, ApplyStageKeepsTop
  <2> QED
    BY <2>4, SameErrorStep
<1> QED
  BY <1>1, <1>2, <1>3

\* The reports of the arrs but the grab.
LEMMA ArrErrorStep ==
  ASSUME IInv, ArrNext, ~GrabStep, NEW i \in Items
  PROVE  ErrorStep(i)
<1>1. ASSUME NEW r \in Requests, NEW k \in ReportIds, NEW S \in Named(r, k),
             Import(r, S, k)
      PROVE  ErrorStep(i)
  <2>1. k \in Keys \union {NoKey} /\ "imported" \in StageKeys
    BY KeysAssumption DEF StageKeys
  <2>2. \/ item'[i] = item[i]
        \/ item'[i] = ApplyStage(item[i], ReportCycle(i, k), "imported")
    BY <1>1 DEF Import, Imported
  <2>3. /\ item[i] \in Item(Errors) /\ IsTop(item[i])
        /\ ReportCycle(i, k) \in 1..item[i].cycle
    BY <2>1, ItemFacts, ClaimFacts
  <2>4. item'[i].cycle = item[i].cycle /\ item'[i].err = item[i].err
    BY <2>1, <2>2, <2>3, ApplyStageKeepsTop
  <2> QED
    BY <2>4, SameErrorStep
<1>2. ASSUME NEW r \in Requests, NEW k \in ReportIds, NEW S \in Named(r, k),
             FailureByName(r, S, k)
      PROVE  ErrorStep(i)
  <2>1. k \in Errors
    BY KeysAssumption DEF Errors
  <2> QED
    BY <1>2, <2>1, MarkErrorStep DEF FailureByName
<1>3. ASSUME NEW k \in Keys, NEW soft \in BOOLEAN, FailureOfRow(k, soft)
      PROVE  ErrorStep(i)
  BY <1>3, MarkErrorStep, ErrorsFacts DEF FailureOfRow
<1> QED
  BY <1>1, <1>2, <1>3 DEF ArrNext, GrabStep

\* Everything else.
LEMMA OtherErrorStep ==
  ASSUME IInv, StageNext \/ ProjectorNext \/ ActionNext \/ UNCHANGED vars,
         NEW i \in Items
  PROVE  ErrorStep(i)
<1>1. CASE StageNext
  <2>1. \E S : Enter(S, "transcode") \/ Enter(S, "available") \/ Enter(S, "notified")
    BY <1>1 DEF StageNext, ApplyTranscode, ApplyAvailable, ApplyNotified, Enters
  <2>2. {"transcode", "available", "notified"} \subseteq StageKeys
    BY DEF StageKeys
  <2> QED
    BY <2>1, <2>2, EnterErrorStep
<1>2. CASE ProjectorNext
  <2>1. (\E S : Approve(S)) \/ UNCHANGED item
    BY <1>2 DEF ProjectorNext, Flush, RetryFanout, GiveUpFanout, FanoutDone,
                FanoutQueued, itemVars
  <2> QED
    BY <2>1, ApproveErrorStep, SameErrorStep
<1>3. CASE ActionNext
  <2>1. item'[i] = item[i] \/ item'[i] = BumpItemCycle(item[i])
    BY <1>3 DEF ActionNext, Retry, Cancel, itemVars
  <2>2. BumpItemCycle(item[i]).err = NoError
    BY ItemFacts DEF BumpItemCycle, Item
  <2> QED
    BY <2>1, <2>2, SameErrorStep, KeysAssumption DEF ErrorStep
<1>4. CASE UNCHANGED vars
  BY <1>4, SameErrorStep DEF vars, itemVars
<1> QED
  BY <1>1, <1>2, <1>3, <1>4

\* A grab begins an attempt without an error, or leaves error and attempt.
LEMMA GrabErrors ==
  ASSUME IInv, ErrorIsCurrent, GrabStep, NEW i \in Items, NEW l \in Keys,
         item'[i].err = l
  PROVE  Claim(i, l)' \in {0, item'[i].cycle}
<1>1. PICK r \in Requests, k \in ReportIds : \E S \in Named(r, k) : Grab(r, S, k)
  BY DEF GrabStep
<1>2. PICK S \in Named(r, k) : Grab(r, S, k)
  BY <1>1
<1>3. /\ k \in Keys \union {NoKey}
      /\ item'[i] = IF i \in S THEN Grabbed(i, k) ELSE item[i]
      /\ \/ k = NoKey /\ UNCHANGED downloadVars
         \/ k \in Keys /\ \E d \in Rows : GrabsRow(S, k, d)
  BY <1>2, GrabFacts
<1>4. item[i].cycle \in Nat \ {0} /\ item[i] \in Item(Errors) /\ IsTop(item[i])
  BY ItemFacts
<1>5. i \in S => ~IsRegrab(i, k)
  <2>1. ASSUME i \in S, IsRegrab(i, k) PROVE FALSE
    <3> DEFINE bt == BumpItemCycle(item[i])
    <3>1. /\ bt \in Item(Errors) /\ IsTop(bt) /\ bt.cycle = item[i].cycle + 1
          /\ bt.err = NoError
      BY <1>4, BumpKeepsTop, ErrorsFacts DEF BumpItemCycle, Item
    <3>2. Grabbed(i, k) = ApplyStage(bt, item[i].cycle + 1, "grabbed")
      BY <2>1 DEF Grabbed, GrabCycle
    <3>3. item[i].cycle + 1 \in 1..bt.cycle /\ "grabbed" \in StageKeys
      BY <1>4, <3>1 DEF StageKeys
    <3> HIDE DEF bt
    <3>4. item'[i].err = NoError
      BY <1>3, <2>1, <3>1, <3>2, <3>3, ApplyStageKeepsTop
    <3> QED
      BY <3>4, KeysAssumption
  <2> QED
    BY <2>1
<1>6. /\ item'[i].cycle = item[i].cycle /\ item'[i].err = item[i].err
      /\ i \in S => GrabCycle(i, k) = ReportCycle(i, k)
      /\ GrabCycle(i, k) \in Nat
  <2>1. i \in S => Grabbed(i, k) = ApplyStage(item[i], ReportCycle(i, k), "grabbed")
                   /\ GrabCycle(i, k) = ReportCycle(i, k)
    BY <1>5 DEF Grabbed, GrabCycle
  <2>2. ReportCycle(i, k) \in 1..item[i].cycle /\ "grabbed" \in StageKeys
    BY <1>3, ClaimFacts DEF StageKeys
  <2>3. GrabCycle(i, k) \in Nat
    BY <1>3, <1>4, GrabbedFacts
  <2> QED
    BY <1>3, <1>4, <2>1, <2>2, <2>3, ApplyStageKeepsTop
<1>7. Claim(i, l) \in {0, item[i].cycle}
  BY <1>6 DEF ErrorIsCurrent
<1>8. CASE UNCHANGED downloadVars
  <2>1. Claim(i, l)' = Claim(i, l)
    BY <1>8 DEF downloadVars, Claim, RowsOf
  <2> QED
    BY <1>6, <1>7, <2>1
<1>9. ASSUME k \in Keys, NEW d \in Rows, GrabsRow(S, k, d)
      PROVE  Claim(i, l)' \in {0, item'[i].cycle}
  <2>1. Claim(i, l)' = IF l = k /\ i \in S THEN GrabCycle(i, k) ELSE Claim(i, l)
    BY <1>6, <1>9, GrabClaims
  <2>2. ASSUME l = k, i \in S PROVE GrabCycle(i, k) = item[i].cycle
    <3>1. GrabCycle(i, k) = ReportCycle(i, k) /\ Claim(i, k) \in {0, item[i].cycle}
      BY <1>6, <1>7, <2>2
    <3> QED
      BY <1>4, <3>1 DEF ReportCycle
  <2> QED
    BY <1>6, <1>7, <2>1, <2>2
<1> QED
  BY <1>3, <1>8, <1>9

\* Errors stay with their attempts: quiet steps keep the claims, and a
\* grab claims for its download the attempt it lands in.
LEMMA StepKeepsErrors ==
  ASSUME IInv, ErrorIsCurrent, [Next]_vars
  PROVE  ErrorIsCurrent'
<1> SUFFICES ASSUME NEW i \in Items, NEW l \in Keys, item'[i].err = l
             PROVE  Claim(i, l)' \in {0, item'[i].cycle}
  BY DEF ErrorIsCurrent
<1>1. CASE GrabStep
  BY <1>1, GrabErrors
<1>2. CASE ~GrabStep
  <2>1. ErrorStep(i)
    BY <1>2, SeerrErrorStep, ArrErrorStep, JobErrorStep, OtherErrorStep DEF Next
  <2>2. Quiet
    BY <1>2, NextCases, StutterQuiet
  <2>3. Claim(i, l)' = Claim(i, l)
    BY <2>2, QuietClaims DEF Quiet
  <2> QED
    BY <2>1, <2>3 DEF ErrorStep, ErrorIsCurrent
<1> QED
  BY <1>1, <1>2

\* A failure that is reported late shows in no attempt but its own.
THEOREM ErrorCorrect == Spec => []ErrorIsCurrent
<1>1. Init => ErrorIsCurrent
  BY KeysAssumption DEF Init, NewItem, ErrorIsCurrent
<1>2. IInv /\ ErrorIsCurrent /\ [Next]_vars => ErrorIsCurrent'
  BY StepKeepsErrors
<1> QED
  BY <1>1, <1>2, Inductive, PTL DEF Spec

(* Completions -------------------------------------------------------------*)

\* An item without a row has entered nothing.
UnknownBlank == \A i \in Items \ known : item[i].hist = {}

\* What a completed request owes.
Lasts(r) == status[r] = "completed" => \A i \in ItemsOf(r) : Stands(item[i])

\* The request is queued for the rollup, or its status is right: closed if it is
\* complete, and completed only if its items stand.
Reports(r) ==
  \/ r \in touched'
  \/ /\ ~Completes(r)' \/ status'[r] \in {"completed", "canceled"}
     /\ Lasts(r)'

\* What every step keeps.
TInv == UnknownBlank /\ CompletionReported /\ CompletionStands

\* So it is enough that every request is told.
LEMMA ToldByAll ==
  ASSUME UnknownBlank', \A r \in Requests : Reports(r)
  PROVE  TInv'
BY DEF Reports, Lasts, TInv, CompletionReported, CompletionStands, Completes

\* An attempt that begins is one nothing is reported of yet.
LEMMA BumpBegins ==
  ASSUME NEW it \in Item(Errors), IsTop(it)
  PROVE  Begun(BumpItemCycle(it)) /\ ~Reached(BumpItemCycle(it), "available")
<1>1. /\ BumpItemCycle(it).cycle = it.cycle + 1 /\ BumpItemCycle(it).stage = "requested"
      /\ BumpItemCycle(it).hist = it.hist /\ it.cycle \in Nat \ {0}
  BY DEF BumpItemCycle, Item
<1>2. ~(Ordinal["requested"] >= Ordinal["available"])
  BY DEF Ordinal, StageKeys
<1>3. ASSUME NEW s \in StageKeys, <<it.cycle + 1, s>> \in it.hist PROVE FALSE
  <2>1. <<it.cycle + 1, s>>[1] \in 1..it.cycle
    BY <1>3 DEF IsTop
  <2> QED
    BY <1>1, <2>1
<1> QED
  BY <1>1, <1>2, <1>3 DEF Begun, EnteredIn, Reached

\* Nothing happened that would complete r or reopen it.
LEMMA KeptReports ==
  ASSUME CompletionReported, CompletionStands, NEW r \in Requests, r \notin touched,
         status[r] \in {"completed", "canceled"} => status'[r] = status[r],
         status'[r] = "completed" => status[r] = "completed",
         \A i \in Items : RequestOf[i] = r => (i \in known' <=> i \in known),
         \A i \in Items : /\ i \in known /\ RequestOf[i] = r
                          /\ Reached(item'[i], "available")
                          => Reached(item[i], "available"),
         \A i \in Items : i \in known /\ RequestOf[i] = r /\ Stands(item[i]) => Stands(item'[i]),
         known \subseteq Items, known' \subseteq Items
  PROVE  Reports(r)
<1>1. ItemsOf(r)' = ItemsOf(r)
  BY DEF ItemsOf
<1>2. ASSUME Completes(r)' PROVE Completes(r)
  <2>1. ItemsOf(r) # {} /\ \A i \in ItemsOf(r) : Reached(item'[i], "available")
    BY <1>1, <1>2 DEF Completes, DoneItems
  <2>2. \A i \in ItemsOf(r) : i \in Items /\ i \in known /\ RequestOf[i] = r
    BY DEF ItemsOf
  <2> QED
    BY <2>1, <2>2 DEF Completes, DoneItems
<1>3. Lasts(r)'
  <2>1. Lasts(r)
    BY DEF CompletionStands, Lasts
  <2>2. ASSUME NEW i \in ItemsOf(r)' PROVE i \in ItemsOf(r) /\ i \in Items /\ i \in known /\ RequestOf[i] = r
    BY <1>1 DEF ItemsOf
  <2> QED
    BY <2>1, <2>2 DEF Lasts
<1> QED
  BY <1>2, <1>3 DEF Reports, Completes, CompletionReported

\* A report about the items of one request.
OneRequest(q) ==
  /\ known \subseteq known' /\ known' \subseteq Items
  /\ touched \subseteq touched'
  /\ \A i \in Items : /\ RequestOf[i] # q => item'[i] = item[i] /\ (i \in known' <=> i \in known)
                      /\ item'[i] # item[i] => i \in known'
  /\ \A r \in Requests \ {q} : status'[r] = status[r]

\* Then the other requests are told as before.
LEMMA OneRequestTold ==
  ASSUME IInv, TInv, NEW q \in Requests, OneRequest(q), Reports(q)
  PROVE  TInv'
<1>1. known \subseteq Items
  BY DEF IInv, TypeOK
<1>2. UnknownBlank'
  BY DEF OneRequest, TInv, UnknownBlank
<1>3. ASSUME NEW r \in Requests, r # q PROVE Reports(r)
  <2>1. CASE r \in touched
    BY <2>1 DEF OneRequest, Reports
  <2>2. CASE r \notin touched
    BY <1>1, <1>3, <2>2, KeptReports DEF OneRequest, TInv
  <2> QED
    BY <2>1, <2>2
<1> QED
  BY <1>2, <1>3, ToldByAll

\* A report about items of any requests, which tells of all that it moves but
\* for attempts that begin.
ManyRequests ==
  /\ status' = status /\ known' = known /\ touched \subseteq touched'
  /\ \A i \in Items : item'[i] # item[i] =>
       /\ i \in known
       /\ \/ RequestOf[i] \in touched'
          \/ Begun(item'[i]) /\ ~Reached(item'[i], "available")

\* Then every request is told.
LEMMA ManyRequestsTold ==
  ASSUME IInv, TInv, ManyRequests
  PROVE  TInv'
<1>1. known \subseteq Items
  BY DEF IInv, TypeOK
<1>2. UnknownBlank'
  BY DEF ManyRequests, TInv, UnknownBlank
<1>3. ASSUME NEW r \in Requests PROVE Reports(r)
  <2>1. CASE r \in touched'
    BY <2>1 DEF Reports
  <2>2. CASE r \notin touched'
    BY <1>1, <2>2, KeptReports DEF ManyRequests, TInv, Stands
  <2> QED
    BY <2>1, <2>2
<1> QED
  BY <1>2, <1>3, ToldByAll

\* Seerr's reports queue their request.
LEMMA SeerrTold ==
  ASSUME IInv, TInv, SeerrNext
  PROVE  TInv'
<1>1. PICK q \in Requests :
        \/ SeerrPending(q)   \/ SeerrApproved(q) \/ SeerrDeclined(q)
        \/ SeerrAvailable(q) \/ SeerrFailed(q)
  BY DEF SeerrNext
<1>t. /\ status \in [Requests -> {"none", "active", "completed", "canceled"}]
      /\ known \subseteq Items
  BY DEF IInv, TypeOK
<1>c. \A r \in Requests \ {q} : Created(q)[r] = status[r]
  BY <1>t DEF Created
<1>m. \A i \in Items : i \in MovieItems(q) => RequestOf[i] = q
  BY DEF MovieItems
<1>u. Upsert(q)
  BY <1>1 DEF SeerrPending, SeerrApproved, SeerrDeclined, SeerrAvailable, SeerrFailed
<1>2. q \in touched' /\ touched \subseteq touched'
  BY <1>u DEF Upsert
<1>f. ASSUME NEW S, FanoutDone(q, S)
      PROVE  /\ known' = known \union S /\ S \subseteq Items
             /\ \A i \in Items : /\ i \in S => RequestOf[i] = q
                                 /\ i \notin S => item'[i] = item[i]
  BY <1>f DEF FanoutDone, Approve
<1>3. OneRequest(q)
  <2>1. CASE SeerrPending(q)
    BY <2>1, <1>t, <1>c, <1>m, <1>2 DEF SeerrPending, OneRequest, Enter, MovieItems
  <2>2. CASE SeerrApproved(q)
    <3>1. \A r \in Requests \ {q} : status'[r] = status[r]
      BY <2>2, <1>c DEF SeerrApproved
    <3>2. CASE known' = known \union MovieItems(q) /\ Approve(MovieItems(q))
      BY <3>1, <3>2, <1>t, <1>m, <1>2 DEF OneRequest, Approve, MovieItems
    <3>3. CASE \E S \in SUBSET Items : FanoutDone(q, S)
      BY <3>1, <3>3, <1>t, <1>f, <1>2 DEF OneRequest
    <3>4. CASE FanoutQueued(q)
      BY <3>1, <3>4, <1>t, <1>2 DEF OneRequest, FanoutQueued, itemVars
    <3> QED
      BY <2>2, <3>2, <3>3, <3>4 DEF SeerrApproved
  <2>3. CASE SeerrDeclined(q)
    BY <2>3, <1>t, <1>2 DEF SeerrDeclined, OneRequest, itemVars
  <2>4. CASE SeerrAvailable(q)
    <3>1. \A r \in Requests \ {q} : status'[r] = status[r]
      BY <2>4, <1>c, <1>t DEF SeerrAvailable
    <3> QED
      BY <2>4, <3>1, <1>t, <1>2 DEF SeerrAvailable, OneRequest, Enter, ItemsOf, MovieItems
  <2>5. CASE SeerrFailed(q)
    BY <2>5, <1>t, <1>c, <1>2 DEF SeerrFailed, OneRequest, ItemsOf
  <2> QED
    BY <1>1, <2>1, <2>2, <2>3, <2>4, <2>5
<1> QED
  BY <1>2, <1>3, OneRequestTold DEF Reports

\* Nothing new was said of the items of q.
LEMMA OldNewsTold ==
  ASSUME IInv, TInv, NEW q \in Requests, OneRequest(q), known' = known,
         \A i \in Items : item'[i] = item[i], status' = Created(q)
  PROVE  TInv'
<1>1. known \subseteq Items
      /\ status \in [Requests -> {"none", "active", "completed", "canceled"}]
  BY DEF IInv, TypeOK
<1>2. /\ status[q] \in {"completed", "canceled"} => status'[q] = status[q]
      /\ status'[q] = "completed" => status[q] = "completed"
  BY <1>1 DEF Created
<1>3. Reports(q)
  <2>1. CASE q \in touched
    BY <2>1 DEF OneRequest, Reports
  <2>2. CASE q \notin touched
    BY <1>1, <1>2, <2>2, KeptReports DEF TInv
  <2> QED
    BY <2>1, <2>2
<1> QED
  BY <1>3, OneRequestTold

\* The items a row is linked to have rows.
LEMMA LinkedKnown ==
  ASSUME IInv, TInv, NEW d \in Rows, NEW i \in Items, link[d][i] # 0
  PROVE  i \in known
BY DEF IInv, LinkFacts, TInv, UnknownBlank

\* A stage that is applied to items S of request r, in attempt c of each, is
\* news to the request or no news at all.
LEMMA StageTold ==
  ASSUME IInv, TInv, NEW r \in Requests, NEW S \in SUBSET Items,
         \A i \in S : RequestOf[i] = r,
         status' = Created(r), known' = known \union S,
         \A i \in Items \ S : item'[i] = item[i],
         NEW news, touched' = (IF news THEN touched \union {r} ELSE touched),
         ~news => \A i \in S : item[i].hist # {} /\ item'[i] = item[i]
  PROVE  TInv'
<1>1. /\ status \in [Requests -> {"none", "active", "completed", "canceled"}]
      /\ known \subseteq Items
  BY DEF IInv, TypeOK
<1>2. OneRequest(r)
  <2>1. \A q \in Requests \ {r} : status'[q] = status[q]
    BY <1>1 DEF Created
  <2> QED
    BY <1>1, <2>1 DEF OneRequest
<1>3. CASE news
  <2>1. r \in touched'
    BY <1>3
  <2> QED
    BY <1>2, <2>1, OneRequestTold DEF Reports
<1>4. CASE ~news
  <2>1. known' = known
    BY <1>1, <1>4 DEF TInv, UnknownBlank
  <2>2. \A i \in Items : item'[i] = item[i]
    BY <1>4
  <2> QED
    BY <1>2, <2>1, <2>2, OldNewsTold
<1> QED
  BY <1>3, <1>4

\* A grab that is a replay changes nothing: a re-grab is always news.
LEMMA GrabAgain ==
  ASSUME IInv, NEW i \in Items, NEW k \in Keys \union {NoKey},
         ~Applies(item[i], GrabCycle(i, k), "grabbed")
  PROVE  item[i].hist # {} /\ Grabbed(i, k) = item[i]
<1>1. /\ item[i] \in Item(Errors) /\ IsTop(item[i]) /\ item[i].cycle \in Nat \ {0}
      /\ ReportCycle(i, k) \in 1..item[i].cycle /\ "grabbed" \in StageKeys
  BY ItemFacts, ClaimFacts DEF StageKeys
<1>2. <<GrabCycle(i, k), "grabbed">> \in item[i].hist
  BY DEF Applies
<1>3. ~IsRegrab(i, k)
  <2>1. ASSUME IsRegrab(i, k) PROVE FALSE
    <3>1. GrabCycle(i, k) = item[i].cycle + 1
      BY <2>1 DEF GrabCycle
    <3>2. <<GrabCycle(i, k), "grabbed">>[1] \in 1..item[i].cycle
      BY <1>1, <1>2 DEF IsTop
    <3> QED
      BY <1>1, <3>1, <3>2
  <2> QED
    BY <2>1
<1>4. GrabCycle(i, k) = ReportCycle(i, k)
      /\ Grabbed(i, k) = ApplyStage(item[i], ReportCycle(i, k), "grabbed")
  BY <1>3 DEF Grabbed, GrabCycle
<1>5. ApplyStage(item[i], ReportCycle(i, k), "grabbed") = item[i]
  BY <1>1, <1>2, <1>4, ApplyStageAgain
<1> QED
  BY <1>2, <1>4, <1>5

\* The arrs: a grab or an import queues the request unless it was no news.
LEMMA ArrTold ==
  ASSUME IInv, TInv, ArrNext
  PROVE  TInv'
<1>1. ASSUME NEW r \in Requests, NEW k \in ReportIds, NEW S \in Named(r, k),
             Grab(r, S, k)
      PROVE  TInv'
  <2>1. S \in SUBSET Items /\ k \in Keys \union {NoKey} /\ \A i \in S : RequestOf[i] = r
    BY KeysAssumption DEF Named
  <2> DEFINE news == \E i \in S : Applies(item[i], GrabCycle(i, k), "grabbed")
  <2>2. /\ status' = Created(r) /\ known' = known \union S
        /\ touched' = (IF news THEN touched \union {r} ELSE touched)
        /\ \A i \in Items : item'[i] = IF i \in S THEN Grabbed(i, k) ELSE item[i]
    BY <1>1 DEF Grab, Resolve, TouchIf
  <2>3. ~news => \A i \in S : item[i].hist # {} /\ item'[i] = item[i]
    BY <2>1, <2>2, GrabAgain
  <2> HIDE DEF news
  <2> QED
    BY <2>1, <2>2, <2>3, StageTold
<1>2. ASSUME NEW r \in Requests, NEW k \in ReportIds, NEW S \in Named(r, k),
             Import(r, S, k)
      PROVE  TInv'
  <2>1. S \in SUBSET Items /\ k \in Keys \union {NoKey} /\ \A i \in S : RequestOf[i] = r
    BY KeysAssumption DEF Named
  <2> DEFINE news == \E i \in S : Applies(item[i], ReportCycle(i, k), "imported")
  <2>2. /\ status' = Created(r) /\ known' = known \union S
        /\ touched' = (IF news THEN touched \union {r} ELSE touched)
        /\ \A i \in Items : item'[i] = IF i \in S THEN Imported(i, k) ELSE item[i]
    BY <1>2 DEF Import, Resolve, TouchIf
  <2>3. ASSUME ~news, NEW i \in S PROVE item[i].hist # {} /\ item'[i] = item[i]
    <3>1. <<ReportCycle(i, k), "imported">> \in item[i].hist /\ "imported" \in StageKeys
      BY <2>3 DEF Applies, StageKeys
    <3>2. /\ item[i] \in Item(Errors) /\ IsTop(item[i])
          /\ ReportCycle(i, k) \in 1..item[i].cycle
      BY <2>1, ItemFacts, ClaimFacts
    <3>3. Imported(i, k) = item[i]
      BY <3>1, <3>2, ApplyStageAgain DEF Imported
    <3> QED
      BY <2>1, <2>2, <3>1, <3>3
  <2> HIDE DEF news
  <2> QED
    BY <2>1, <2>2, <2>3, StageTold
<1>3. ASSUME NEW r \in Requests, NEW k \in ReportIds, NEW S \in Named(r, k),
             FailureByName(r, S, k)
      PROVE  TInv'
  <2>1. S \in SUBSET Items /\ \A i \in S : RequestOf[i] = r
    BY KeysAssumption DEF Named
  <2>2. /\ status' = Created(r) /\ known' = known \union S
        /\ touched' = (IF TRUE THEN touched \union {r} ELSE touched)
        /\ \A i \in Items \ S : item'[i] = item[i]
    BY <1>3 DEF FailureByName, Resolve, MarkItems
  <2> QED
    BY <2>1, <2>2, StageTold
<1>4. ASSUME NEW k \in Keys, NEW soft \in BOOLEAN, FailureOfRow(k, soft)
      PROVE  TInv'
  <2>1. PICK d \in NewestRow(k) :
          /\ MarkItems(LinkedItems(d), k)
          /\ touched' = touched \union {RequestOf[i] : i \in LinkedItems(d)}
          /\ UNCHANGED <<requestVars, known, key, link, fanq>>
    BY <1>4 DEF FailureOfRow
  <2>2. ASSUME NEW i \in Items, item'[i] # item[i]
        PROVE  i \in known /\ RequestOf[i] \in touched'
    <3>1. link[d][i] # 0 /\ i \in LinkedItems(d)
      BY <2>1, <2>2 DEF MarkItems, LinkedItems
    <3> QED
      BY <2>1, <3>1, NewestRowIn, LinkedKnown
  <2>3. ManyRequests
    BY <2>1, <2>2 DEF ManyRequests, requestVars
  <2> QED
    BY <2>3, ManyRequestsTold
<1> QED
  BY <1>1, <1>2, <1>3, <1>4 DEF ArrNext

\* A job queues the request of every item it moves.
LEMMA JobTold ==
  ASSUME IInv, TInv, JobNext
  PROVE  TInv'
<1>1. PICK k \in Keys, to \in JobStates : JobEnded(k, to) \/ JobAdvanced(k, to)
  BY DEF JobNext
<1>2. CASE JobEnded(k, to)
  <2>1. PICK d \in NewestRow(k) :
          /\ item' = [i \in Items |-> IF link[d][i] = item[i].cycle
                                      THEN SetItemError(item[i], k) ELSE item[i]]
          /\ touched' = touched \union {RequestOf[i] : i \in LinkedItems(d)}
    BY <1>2 DEF JobEnded
  <2>2. ASSUME NEW i \in Items, item'[i] # item[i]
        PROVE  i \in known /\ RequestOf[i] \in touched'
    <3>1. link[d][i] = item[i].cycle /\ item[i].cycle # 0
      BY <2>1, <2>2, ItemFacts DEF Item
    <3>2. i \in LinkedItems(d)
      BY <3>1 DEF LinkedItems
    <3> QED
      BY <2>1, <3>1, <3>2, NewestRowIn, LinkedKnown
  <2>3. ManyRequests
    BY <1>2, <2>1, <2>2 DEF JobEnded, ManyRequests, requestVars
  <2> QED
    BY <2>3, ManyRequestsTold
<1>3. CASE JobAdvanced(k, to)
  <2>1. PICK d \in NewestRow(k) :
          /\ item' = [i \in Items |->
                        IF link[d][i] # 0
                        THEN ApplyStage(item[i], ReportCycle(i, k), StageOfJob(to))
                        ELSE item[i]]
          /\ touched' = touched \union
               {RequestOf[i] : i \in {j \in LinkedItems(d) :
                  Applies(item[j], ReportCycle(j, k), StageOfJob(to))}}
    BY <1>3 DEF JobAdvanced
  <2>2. StageOfJob(to) \in StageKeys
    <3>1. to \in {"SUBMITTED", "DOWNLOADING", "COMPLETED_TORBOX", "READY"}
      BY <1>3, SourcesAssumption DEF JobAdvanced, AllJobStates
    <3> QED
      BY <3>1 DEF StageOfJob, StageKeys
  <2>3. ASSUME NEW i \in Items, item'[i] # item[i]
        PROVE  i \in known /\ RequestOf[i] \in touched'
    <3>1. link[d][i] # 0
          /\ item'[i] = ApplyStage(item[i], ReportCycle(i, k), StageOfJob(to))
      BY <2>1, <2>3
    <3>2. i \in known
      BY <3>1, NewestRowIn, LinkedKnown
    <3>3. /\ item[i] \in Item(Errors) /\ IsTop(item[i])
          /\ ReportCycle(i, k) \in 1..item[i].cycle
      BY ItemFacts, ClaimFacts
    <3>4. Applies(item[i], ReportCycle(i, k), StageOfJob(to))
      BY <2>2, <2>3, <3>1, <3>3, ApplyStageAgain DEF Applies
    <3> QED
      BY <2>1, <3>1, <3>2, <3>4 DEF LinkedItems
  <2>4. ManyRequests
    BY <1>3, <2>1, <2>3 DEF JobAdvanced, ManyRequests, requestVars
  <2> QED
    BY <2>4, ManyRequestsTold
<1> QED
  BY <1>1, <1>2, <1>3

\* A later stage queues the request of every item it moves.
LEMMA EntersTold ==
  ASSUME IInv, TInv, NEW S \in SUBSET known, NEW s \in StageKeys, Enters(S, s)
  PROVE  TInv'
<1>1. ASSUME NEW i \in Items, item'[i] # item[i]
      PROVE  i \in known /\ RequestOf[i] \in touched'
  <2>1. i \in S /\ item'[i] = Applied(item[i], s)
    BY <1>1 DEF Enters, Enter
  <2>2. item[i] \in Item(Errors) /\ IsTop(item[i])
    BY ItemFacts
  <2>3. Applies(item[i], item[i].cycle, s)
    BY <1>1, <2>1, <2>2, AppliedFacts DEF Applies
  <2> QED
    BY <2>1, <2>3 DEF Enters
<1>2. ManyRequests
  BY <1>1 DEF Enters, ManyRequests, requestVars
<1> QED
  BY <1>2, ManyRequestsTold

\* The stages after the import.
LEMMA StageNextTold ==
  ASSUME IInv, TInv, StageNext
  PROVE  TInv'
<1>1. {"transcode", "available", "notified"} \subseteq StageKeys
  BY DEF StageKeys
<1> QED
  BY <1>1, EntersTold DEF StageNext, ApplyTranscode, ApplyAvailable, ApplyNotified

\* What a rollup says completed is available.
LEMMA RollupLasts ==
  ASSUME NEW r \in Requests, status'[r] = Rollup(r, ItemsOf(r)', DoneItems(item'))
  PROVE  Lasts(r)'
<1>1. CASE ItemsOf(r)' = {}
  BY <1>1 DEF Lasts
<1>2. CASE ItemsOf(r)' # {} /\ status'[r] = "completed"
  <2>1. ItemsOf(r)' \subseteq DoneItems(item')
    BY <1>2 DEF Rollup
  <2> QED
    BY <2>1 DEF DoneItems, Lasts, Stands
<1>3. CASE status'[r] # "completed"
  BY <1>3 DEF Lasts
<1> QED
  BY <1>1, <1>2, <1>3

\* The flush closes what it takes from the queue.
LEMMA FlushTold ==
  ASSUME IInv, TInv, Flush
  PROVE  TInv'
<1>1. UnknownBlank'
  BY DEF Flush, itemVars, TInv, UnknownBlank
<1>2. ASSUME NEW r \in Requests PROVE Reports(r)
  <2>1. ItemsOf(r)' = ItemsOf(r) /\ DoneItems(item)' = DoneItems(item)
    BY DEF Flush, itemVars, ItemsOf, DoneItems, Reached
  <2>2. Completes(r)' = Completes(r)
    BY <2>1 DEF Completes
  <2>3. CASE r \in touched
    <3>1. status'[r] = Rollup(r, ItemsOf(r), DoneItems(item))
      BY <2>3 DEF Flush
    <3>2. Lasts(r)'
      BY <2>1, <3>1, RollupLasts
    <3> QED
      BY <2>2, <3>1, <3>2 DEF Rollup, Completes, Reports
  <2>4. CASE r \notin touched
    <3>1. status'[r] = status[r] /\ item' = item
      BY <2>4 DEF Flush, itemVars
    <3>2. Lasts(r)'
      BY <2>1, <2>4, <3>1 DEF TInv, CompletionStands, Lasts
    <3> QED
      BY <2>2, <2>4, <3>1, <3>2 DEF TInv, CompletionReported, Completes, Reports
  <2> QED
    BY <2>3, <2>4
<1> QED
  BY <1>1, <1>2, ToldByAll

\* A fan-out flushes itself, unless it brought nothing.
LEMMA RetryFanoutTold ==
  ASSUME IInv, TInv, NEW q \in Requests, RetryFanout(q)
  PROVE  TInv'
<1>t. /\ status \in [Requests -> {"none", "active", "completed", "canceled"}]
      /\ known \subseteq Items
  BY DEF IInv, TypeOK
<1>0. touched = {} /\ touched' = {}
  BY DEF RetryFanout
<1>1. ASSUME FanoutQueued(q), status' = status PROVE TInv'
  <2>1. ManyRequests
    BY <1>0, <1>1 DEF FanoutQueued, itemVars, ManyRequests
  <2> QED
    BY <2>1, ManyRequestsTold
<1>2. ASSUME NEW S \in SUBSET Items, FanoutDone(q, S),
             status' = IF \E i \in S : item[i].hist # Approved(item[i]).hist
                       THEN [status EXCEPT ![q] =
                              Rollup(q, ItemsOf(q) \union S, DoneItems(item'))]
                       ELSE status
      PROVE  TInv'
  <2> DEFINE news == \E i \in S : item[i].hist # Approved(item[i]).hist
  <2>1. /\ \A i \in S : RequestOf[i] = q
        /\ known' = known \union S
        /\ \A i \in Items : item'[i] = IF i \in S THEN Approved(item[i]) ELSE item[i]
    BY <1>2 DEF FanoutDone, Approve
  <2>2. \A r \in Requests \ {q} : status'[r] = status[r]
    BY <1>t, <1>2
  <2>3. OneRequest(q)
    BY <1>0, <1>t, <2>1, <2>2 DEF OneRequest
  <2>4. CASE news
    <3>1. status'[q] = Rollup(q, ItemsOf(q) \union S, DoneItems(item'))
      BY <1>t, <1>2, <2>4
    <3>2. ItemsOf(q)' = ItemsOf(q) \union S
      BY <2>1 DEF ItemsOf
    <3>3. Completes(q)' <=> ItemsOf(q)' # {} /\ ItemsOf(q)' \subseteq DoneItems(item')
      BY DEF Completes, DoneItems
    <3>4. Reports(q)
      BY <3>1, <3>2, <3>3, RollupLasts DEF Rollup, Reports
    <3> QED
      BY <2>3, <3>4, OneRequestTold
  <2>5. CASE ~news
    <3>1. ASSUME NEW i \in S PROVE item[i].hist # {} /\ item'[i] = item[i]
      <4>1. item[i] \in Item(Errors) /\ IsTop(item[i]) /\ Approved(item[i]).hist = item[i].hist
        BY <2>5, ItemFacts
      <4> QED
        BY <2>1, <4>1, ApprovedFacts
    <3>2. known' = known
      BY <2>1, <3>1 DEF TInv, UnknownBlank
    <3>3. \A i \in Items : item'[i] = item[i]
      BY <2>1, <3>1
    <3>4. status' = status
      BY <1>2, <2>5
    <3>5. ManyRequests
      BY <1>0, <3>2, <3>3, <3>4 DEF ManyRequests
    <3> QED
      BY <3>5, ManyRequestsTold
  <2> QED
    BY <2>4, <2>5
<1>3. \/ FanoutQueued(q) /\ status' = status
      \/ \E S \in SUBSET Items :
          /\ FanoutDone(q, S)
          /\ status' = IF \E i \in S : item[i].hist # Approved(item[i]).hist
                       THEN [status EXCEPT ![q] =
                              Rollup(q, ItemsOf(q) \union S, DoneItems(item'))]
                       ELSE status
  BY DEF RetryFanout
<1> QED
  BY <1>1, <1>2, <1>3

\* The projector's own steps.
LEMMA ProjectorTold ==
  ASSUME IInv, TInv, ProjectorNext
  PROVE  TInv'
<1>1. ASSUME NEW q \in Requests, GiveUpFanout(q) PROVE TInv'
  <2>1. ManyRequests
    BY <1>1 DEF GiveUpFanout, requestVars, itemVars, ManyRequests
  <2> QED
    BY <2>1, ManyRequestsTold
<1> QED
  BY <1>1, FlushTold, RetryFanoutTold DEF ProjectorNext

\* A retry takes items back from "available"; a cancellation closes.
LEMMA ActionTold ==
  ASSUME IInv, TInv, ActionNext
  PROVE  TInv'
<1>1. ASSUME NEW i \in Items, Retry(i) PROVE TInv'
  <2>1. ASSUME NEW j \in Items, item'[j] # item[j]
        PROVE  j \in known /\ Begun(item'[j]) /\ ~Reached(item'[j], "available")
    <3>1. /\ j \in Affected(i) /\ item'[j] = BumpItemCycle(item[j])
      BY <1>1, <2>1 DEF Retry
    <3>2. j = i \/ \E d \in InFlight(i) : link[d][j] # 0
      BY <3>1 DEF Affected, LinkedItems
    <3>3. InFlight(i) \subseteq Rows
      BY DEF InFlight, LinkedAt
    <3>4. j \in known
      BY <1>1, <3>2, <3>3, LinkedKnown DEF Retry
    <3> QED
      BY <3>1, <3>4, BumpBegins, ItemFacts
  <2>2. ManyRequests
    BY <1>1, <2>1 DEF Retry, requestVars, ManyRequests
  <2> QED
    BY <2>2, ManyRequestsTold
<1>2. ASSUME NEW q \in Requests, Cancel(q) PROVE TInv'
  <2>1. status \in [Requests -> {"none", "active", "completed", "canceled"}]
        /\ known \subseteq Items
    BY DEF IInv, TypeOK
  <2>2. status'[q] = "canceled" /\ \A r \in Requests \ {q} : status'[r] = status[r]
    BY <1>2, <2>1 DEF Cancel
  <2>3. OneRequest(q)
    BY <1>2, <2>1, <2>2 DEF Cancel, itemVars, OneRequest
  <2> QED
    BY <2>2, <2>3, OneRequestTold DEF Reports, Lasts
<1> QED
  BY <1>1, <1>2 DEF ActionNext

\* Nothing is complete at the start.
LEMMA InitTold == Init => TInv
BY DEF Init, NewItem, TInv, UnknownBlank, CompletionReported, CompletionStands, ItemsOf

\* Every step keeps it.
LEMMA StepKeepsTold ==
  IInv /\ TInv /\ [Next]_vars => TInv'
<1>1. ASSUME IInv, TInv, UNCHANGED vars PROVE TInv'
  <2>1. ManyRequests
    BY <1>1 DEF vars, requestVars, itemVars, ManyRequests
  <2> QED
    BY <1>1, <2>1, ManyRequestsTold
<1> QED
  BY <1>1, SeerrTold, ArrTold, JobTold, StageNextTold, ProjectorTold, ActionTold
     DEF Next

\* Between drains no completion is missed, of any request: whatever completes
\* a request also queues it for the rollup of flushTouched.
THEOREM CompletionCorrect == Spec => []CompletionReported
<1>1. Init => TInv
  BY InitTold
<1>2. IInv /\ TInv /\ [Next]_vars => TInv'
  BY StepKeepsTold
<1>3. TInv => CompletionReported
  BY DEF TInv
<1> QED
  BY <1>1, <1>2, <1>3, Inductive, PTL DEF Spec

\* A completed request stands, but for what a Retry began again and nothing was
\* reported of: the first report queues it for the rollup.
THEOREM CompletionStandsCorrect == Spec => []CompletionStands
<1>1. IInv /\ TInv /\ [Next]_vars => TInv'
  BY StepKeepsTold
<1>2. TInv => CompletionStands
  BY DEF TInv
<1> QED
  BY <1>1, <1>2, InitTold, Inductive, PTL DEF Spec

\* By its links a report finds the row and the attempt it is about.
THEOREM LinksTellCorrect == Spec => []LinksTell
BY OwnershipCorrect, OneActiveRowCorrect, PTL DEF LinksTell
=============================================================================
