--------------------------- MODULE RemovalProofs ----------------------------
(***************************************************************************)
(* Proofs about Removal, for any number of removals under way together,    *)
(* requests, downloads and faults.                                         *)
(***************************************************************************)
EXTENDS Removal, TLAPS

(* The inductive invariant -------------------------------------------------*)

\* What a plan says stays true: the movie is gone once its step is over.
PlanTrue(r) ==
  /\ rm[r].movie <= made
  /\ rm[r].at \in {"seerr", "purge"} => arr # rm[r].movie \/ arr = 0

\* A handler writes rows for a message no tombstone names, until a purge, and
\* downloads for one that has a download.
HandlerTrue ==
  /\ h.at \in {"find", "ensure"} /\ ~h.stale => ~Removed(h.msg)
  /\ h.at = "download" => h.msg.job \in Jobs

IInv == TypeOK /\ HandlerTrue /\ \A r \in Removers : PlanTrue(r)

(* Types -------------------------------------------------------------------*)

LEMMA Constants ==
  /\ NoPlan \in RemovalPlan /\ Idle \in Handler /\ Imported(0) \in Message
  /\ \A k \in Requested : Asked(k) \in Message
  /\ \A a \in 0..MaxArr : Imported(a) \in Message
  /\ \A a \in 0..MaxArr, j \in Jobs : Grabbed(a, j) \in Message
  /\ None \notin SeerrIds /\ None \notin Jobs /\ None # Other /\ Other \notin SeerrIds
BY IdsAssumption DEF NoPlan, RemovalPlan, Idle, Handler, Imported, Grabbed, Asked, Message,
                     Requested, Ids

LEMMA InitInv == Init => IInv
<1> SUFFICES ASSUME Init PROVE IInv
  OBVIOUS
<1>1. TypeOK
  BY Constants, IdsAssumption DEF Init, TypeOK, Tombstones
<1>2. HandlerTrue /\ \A r \in Removers : PlanTrue(r)
  BY DEF Init, HandlerTrue, PlanTrue, Idle, NoPlan
<1> QED
  BY <1>1, <1>2 DEF IInv

\* A step that leaves the tables, the handler and the removals alone, gives no
\* movie an old id and takes no id back.
LEMMA ServiceKeeps ==
  ASSUME IInv, ServiceNext
  PROVE  IInv'
<1>1. UNCHANGED <<tableVars, h, rm, faults>>
  BY DEF ServiceNext, AddMovie, Ask, Grab, Import
<1>2. /\ made' \in 0..MaxArr /\ arr' \in {0, made'} /\ running' \in [Jobs -> 0..MaxArr]
      /\ inSeerr' \subseteq SeerrIds /\ sent' \subseteq Message
      /\ made <= made' /\ arr' \in {arr, 0, made + 1}
  <2>1. CASE AddMovie
    BY <2>1, IdsAssumption DEF AddMovie, IInv, TypeOK
  <2>2. CASE \E k \in Requested : Ask(k)
    BY <2>2, Constants DEF Ask, IInv, TypeOK, radarrVars
  <2>3. ASSUME NEW j \in Jobs, Grab(j) \/ Import(j)
        PROVE  /\ running' \in [Jobs -> 0..MaxArr] /\ sent' \subseteq Message
               /\ UNCHANGED <<arr, made, inSeerr>>
    <3>1. arr \in 0..MaxArr /\ running \in [Jobs -> 0..MaxArr] /\ sent \subseteq Message
      BY IdsAssumption DEF IInv, TypeOK
    <3>2. Imported(arr) \in Message /\ Grabbed(arr, j) \in Message /\ 0 \in 0..MaxArr
      BY <3>1, Constants, IdsAssumption
    <3>3. sent' \subseteq Message /\ UNCHANGED <<arr, made, inSeerr>>
      BY <2>3, <3>1, <3>2 DEF Grab, Import
    <3>4. running' \in [Jobs -> 0..MaxArr]
      BY <2>3, <3>1, <3>2 DEF Grab, Import
    <3> QED
      BY <3>3, <3>4
  <2>4. CASE \E j \in Jobs : Grab(j) \/ Import(j)
    BY <2>3, <2>4, IdsAssumption DEF IInv, TypeOK
  <2> QED
    BY <2>1, <2>2, <2>4 DEF ServiceNext
<1>3. TypeOK'
  BY <1>1, <1>2 DEF IInv, TypeOK, tableVars
<1>4. HandlerTrue'
  BY <1>1 DEF IInv, HandlerTrue, Removed, tableVars
<1>5. ASSUME NEW r \in Removers PROVE PlanTrue(r)'
  <2>1. PlanTrue(r) /\ rm[r] \in RemovalPlan /\ made \in Nat /\ made' \in Nat
    BY <1>2 DEF IInv, TypeOK
  <2>2. rm[r].movie \in Nat
    BY <2>1 DEF RemovalPlan
  <2> QED
    BY <1>1, <1>2, <2>1, <2>2 DEF PlanTrue
<1> QED
  BY <1>3, <1>4, <1>5 DEF IInv

(* The projector -----------------------------------------------------------*)

\* A plan stays true whatever happens to the tables.
LEMMA PlanFrame ==
  ASSUME IInv, UNCHANGED <<arr, made, rm>>
  PROVE  \A r \in Removers : PlanTrue(r)'
BY DEF IInv, PlanTrue

LEMMA TakeKeeps ==
  ASSUME IInv, NEW m \in sent, Take(m)
  PROVE  IInv'
<1>1. h' \in Handler /\ h'.msg = m /\ m \in Message
  BY Constants DEF Take, IInv, TypeOK, Idle, Handler
<1>2. TypeOK'
  BY <1>1 DEF Take, IInv, TypeOK, serviceVars, radarrVars, tableVars
<1>3. HandlerTrue'
  BY <1>1 DEF Take, HandlerTrue, Removed, tableVars
<1>4. \A r \in Removers : PlanTrue(r)'
  BY PlanFrame DEF Take, serviceVars, radarrVars, tableVars
<1> QED
  BY <1>2, <1>3, <1>4 DEF IInv

LEMMA FindKeeps ==
  ASSUME IInv, FindRequest
  PROVE  IInv'
<1>1. /\ h \in Handler /\ h.msg \in Message /\ h.msg.seerr \in Requested \union {None}
      /\ shown \subseteq Ids
      /\ DOMAIN rows \subseteq Ids /\ \A i \in DOMAIN rows : rows[i] \in Row
  BY DEF IInv, TypeOK, Handler, Message
<1>2. PICK i \in Ids :
        /\ h' = [h EXCEPT !.at = "ensure", !.row = i]
        /\ shown' \in {shown, shown \union {i}}
        /\ \/ UNCHANGED rows
           \/ /\ NewId(i)
              /\ rows' = [k \in DOMAIN rows \union {i} |->
                            IF k \in DOMAIN rows THEN rows[k]
                            ELSE [seerr |-> h.msg.seerr, item |-> FALSE, arr |-> 0]]
  BY DEF FindRequest
<1>3. h' \in Handler /\ h'.msg = h.msg /\ h'.stale = h.stale /\ h.at = "find"
  BY <1>1, <1>2 DEF Handler, FindRequest
<1>4. /\ DOMAIN rows \subseteq DOMAIN rows' /\ DOMAIN rows' \subseteq Ids
      /\ \A k \in DOMAIN rows : rows'[k] = rows[k]
      /\ \A k \in DOMAIN rows' : rows'[k] \in Row
  <2>1. [seerr |-> h.msg.seerr, item |-> FALSE, arr |-> 0] \in Row
    BY <1>1, IdsAssumption DEF Row
  <2> QED
    BY <1>1, <1>2, <2>1
<1>5. TypeOK'
  BY <1>1, <1>2, <1>3, <1>4 DEF FindRequest, IInv, TypeOK, serviceVars, radarrVars
<1>6. HandlerTrue'
  BY <1>3 DEF FindRequest, IInv, HandlerTrue, Removed
<1>7. \A r \in Removers : PlanTrue(r)'
  <2>1. UNCHANGED <<arr, made, rm>>
    BY DEF FindRequest, serviceVars, radarrVars
  <2> QED
    BY <1>4, <2>1, PlanFrame
<1> QED
  BY <1>5, <1>6, <1>7 DEF IInv

LEMMA EnsureKeeps ==
  ASSUME IInv, EnsureItem
  PROVE  IInv'
<1>1. /\ h \in Handler /\ h.msg \in Message /\ h.msg.arr \in 0..MaxArr
      /\ DOMAIN rows \subseteq Ids /\ \A i \in DOMAIN rows : rows[i] \in Row
  BY DEF IInv, TypeOK, Handler, Message
<1>2. h' = Idle \/ h' = [h EXCEPT !.at = "download"]
  BY DEF EnsureItem
<1>3. h' \in Handler /\ h'.at \in {"idle", "download"}
  BY <1>1, <1>2, Constants DEF Handler, Idle
<1>4. /\ DOMAIN rows' = DOMAIN rows
      /\ \A k \in DOMAIN rows : rows'[k] \in Row /\ rows'[k].seerr = rows[k].seerr
  <2>1. CASE h.row \in DOMAIN rows
    <3> DEFINE new == IF h.msg.arr = 0 THEN rows[h.row].arr ELSE h.msg.arr
    <3>1. /\ DOMAIN rows' = DOMAIN rows
          /\ \A k \in DOMAIN rows \ {h.row} : rows'[k] = rows[k]
          /\ rows'[h.row] = [rows[h.row] EXCEPT !.item = TRUE, !.arr = new]
      BY <2>1 DEF EnsureItem
    <3>2. rows[h.row] \in Row /\ new \in 0..MaxArr
      BY <1>1, <2>1 DEF Row
    <3> QED
      BY <1>1, <3>1, <3>2 DEF Row
  <2>2. CASE h.row \notin DOMAIN rows
    BY <1>1, <2>2 DEF EnsureItem
  <2> QED
    BY <2>1, <2>2
<1>5. TypeOK'
  BY <1>1, <1>3, <1>4 DEF EnsureItem, IInv, TypeOK, serviceVars, radarrVars
<1>6. HandlerTrue'
  <2>1. CASE h' = Idle
    BY <2>1 DEF HandlerTrue, Idle
  <2>2. CASE h' # Idle
    BY <1>1, <2>2 DEF EnsureItem, HandlerTrue, Handler, Message
  <2> QED
    BY <2>1, <2>2
<1>7. \A r \in Removers : PlanTrue(r)'
  <2>1. UNCHANGED <<arr, made, rm>>
    BY DEF EnsureItem, serviceVars, radarrVars
  <2> QED
    BY <1>4, <2>1, PlanFrame
<1> QED
  BY <1>5, <1>6, <1>7 DEF IInv

LEMMA DownloadKeeps ==
  ASSUME IInv, UpsertDownload \/ LinkDownload
  PROVE  IInv'
<1>1. h \in Handler /\ h.msg.job \in Jobs \union {None}
  BY DEF IInv, TypeOK, Handler, Message
<1>2. h' \in Handler /\ h'.at \in {"idle", "link"}
  BY <1>1, Constants DEF UpsertDownload, LinkDownload, Handler, Idle
<1>3. dls' \subseteq Jobs /\ links' \subseteq dls' \X DOMAIN rows
  <2>1. CASE UpsertDownload
    BY <1>1, <2>1 DEF UpsertDownload, IInv, TypeOK, HandlerTrue
  <2>2. CASE LinkDownload
    BY <2>2 DEF LinkDownload, IInv, TypeOK
  <2> QED
    BY <2>1, <2>2
<1>4. UNCHANGED <<serviceVars, rows, tombs, buried, shown, rm, faults>>
  BY DEF UpsertDownload, LinkDownload
<1>5. TypeOK'
  BY <1>2, <1>3, <1>4 DEF IInv, TypeOK, serviceVars, radarrVars
<1>6. HandlerTrue'
  BY <1>2 DEF HandlerTrue
<1>7. \A r \in Removers : PlanTrue(r)'
  BY <1>4, PlanFrame DEF serviceVars, radarrVars
<1> QED
  BY <1>5, <1>6, <1>7 DEF IInv

(* Remove ------------------------------------------------------------------*)

\* What a step of a removal other than the purge has to show.
LEMMA StepFrame ==
  ASSUME IInv, NEW r \in Removers, UNCHANGED <<tableVars, h, made, sent>>,
         arr' \in {arr, 0}, running' \in [Jobs -> 0..MaxArr], inSeerr' \subseteq SeerrIds,
         faults' \in 0..MaxFaults,
         NEW plan \in RemovalPlan, rm' = [rm EXCEPT ![r] = plan], PlanTrue(r)'
  PROVE  IInv'
<1>1. TypeOK'
  BY DEF IInv, TypeOK, tableVars
<1>2. HandlerTrue'
  BY DEF IInv, HandlerTrue, Removed, tableVars
<1>3. ASSUME NEW q \in Removers \ {r} PROVE PlanTrue(q)'
  <2>1. rm'[q] = rm[q] /\ PlanTrue(q)
    BY DEF IInv, TypeOK
  <2> QED
    BY <2>1 DEF PlanTrue
<1> QED
  BY <1>1, <1>2, <1>3 DEF IInv

\* A removal that stops, for whatever reason.
LEMMA StopKeeps ==
  ASSUME IInv, NEW r \in Removers, UNCHANGED <<tableVars, h, made, sent, inSeerr>>,
         arr' \in {arr, 0}, running' \in [Jobs -> 0..MaxArr],
         faults' \in 0..MaxFaults, rm' = [rm EXCEPT ![r] = NoPlan]
  PROVE  IInv'
<1>1. rm'[r] = NoPlan /\ NoPlan \in RemovalPlan /\ inSeerr' \subseteq SeerrIds /\ made' \in Nat
  BY Constants DEF IInv, TypeOK
<1>2. PlanTrue(r)'
  BY <1>1 DEF PlanTrue, NoPlan
<1> QED
  BY <1>1, <1>2, StepFrame

LEMMA FaultFacts ==
  ASSUME IInv, Fault
  PROVE  faults' \in 0..MaxFaults
BY IdsAssumption DEF IInv, TypeOK, Fault

LEMMA FailsKeeps ==
  ASSUME IInv, NEW r \in Removers, Fails(r)
  PROVE  IInv'
<1>1. running \in [Jobs -> 0..MaxArr] /\ 0 \in 0..MaxArr
  BY IdsAssumption DEF IInv, TypeOK
<1>2. faults' \in 0..MaxFaults
  BY FaultFacts DEF Fails, PlanFails, StepFails, DeleteTimesOut
<1>3. rm' = [rm EXCEPT ![r] = NoPlan]
  BY DEF Fails, PlanFails, StepFails, DeleteTimesOut, Stop, Stopped
<1>4. UNCHANGED <<tableVars, h, made, sent, inSeerr>>
  BY DEF Fails, PlanFails, StepFails, DeleteTimesOut, serviceVars, radarrVars
<1>5. arr' \in {arr, 0} /\ running' \in [Jobs -> 0..MaxArr]
  BY <1>1 DEF Fails, PlanFails, StepFails, DeleteTimesOut, serviceVars, radarrVars
<1> QED
  BY <1>2, <1>3, <1>4, <1>5, StopKeeps

LEMMA ClickKeeps ==
  ASSUME IInv, NEW r \in Removers, NEW i \in Ids, Click(r, i)
  PROVE  IInv'
<1> DEFINE ids  == RequestsForTitle(i)
           asks == {rows[k].seerr : k \in ids} \ {None}
           plan == [NoPlan EXCEPT !.at = "plan", !.own = Own(i), !.ids = ids, !.seerr = asks]
<1>1. ids \subseteq Ids /\ asks \subseteq Requested /\ Own(i) \in BOOLEAN
  <2>1. DOMAIN rows \subseteq Ids /\ \A k \in DOMAIN rows : rows[k].seerr \in Requested \union {None}
    BY DEF IInv, TypeOK, Row
  <2>2. ids \subseteq DOMAIN rows
    BY DEF RequestsForTitle
  <2>3. Own(i) \in BOOLEAN
    BY DEF Own
  <2> HIDE DEF ids
  <2> QED
    BY <2>1, <2>2, <2>3
<1>2. plan \in RemovalPlan /\ plan.movie = 0 /\ plan.at = "plan"
  <2>1. NoPlan.movie = 0
    BY DEF NoPlan
  <2> HIDE DEF ids, asks
  <2> QED
    BY <1>1, <2>1, Constants DEF RemovalPlan
<1>3. rm' = [rm EXCEPT ![r] = plan] /\ UNCHANGED <<serviceVars, tableVars, h, faults>>
  BY DEF Click
<1>4. PlanTrue(r)'
  <2>1. rm'[r] = plan /\ made' \in Nat
    BY <1>3 DEF IInv, TypeOK, serviceVars, radarrVars
  <2> HIDE DEF plan
  <2> QED
    BY <1>2, <2>1 DEF PlanTrue
<1> QED
  <2>1. /\ arr' \in {arr, 0} /\ running' \in [Jobs -> 0..MaxArr] /\ inSeerr' \subseteq SeerrIds
        /\ faults' \in 0..MaxFaults /\ UNCHANGED <<tableVars, h, made, sent>>
    BY <1>3 DEF IInv, TypeOK, serviceVars, radarrVars
  <2> HIDE DEF plan
  <2> QED
    BY <1>2, <1>3, <1>4, <2>1, StepFrame

LEMMA PlanKeeps ==
  ASSUME IInv, NEW r \in Removers, Plan(r)
  PROVE  IInv'
<1>1. /\ rm[r] \in RemovalPlan /\ arr \in 0..MaxArr /\ arr <= made /\ made \in Nat
      /\ rm \in [Removers -> RemovalPlan] /\ \A i \in DOMAIN rows : rows[i] \in Row
  BY IdsAssumption DEF IInv, TypeOK
<1>2. PICK media \in BOOLEAN : rm' = Found(r, media)
  <2>1. (rm[r].own /\ inSeerr # {}) \in BOOLEAN
    OBVIOUS
  <2> QED
    BY <2>1 DEF Plan, Lookup
<1> DEFINE arrs == (Known(r) \union {Movie(r)}) \ {0}
           jobs == {j \in Jobs : Movie(r) # 0 /\ running[j] = Movie(r)}
           plan == [rm[r] EXCEPT !.at = "stop", !.arrs = arrs, !.movie = Movie(r),
                                 !.jobs = jobs, !.media = media]
<1>3. Movie(r) \in 0..MaxArr /\ Movie(r) <= made
  BY <1>1, IdsAssumption DEF Movie
<1>4. arrs \subseteq 1..MaxArr /\ jobs \subseteq Jobs
  BY <1>1, <1>3, IdsAssumption DEF Row, Known
<1>5. rm' = [rm EXCEPT ![r] = plan] /\ UNCHANGED <<serviceVars, tableVars, h>>
  BY <1>1, <1>2 DEF Plan, Found
<1>6. plan \in RemovalPlan /\ plan.at = "stop" /\ plan.movie = Movie(r)
  <2> HIDE DEF arrs, jobs
  <2> QED
    BY <1>1, <1>3, <1>4 DEF RemovalPlan
<1>7. PlanTrue(r)'
  <2>1. rm'[r] = plan /\ UNCHANGED made
    BY <1>1, <1>5 DEF serviceVars, radarrVars
  <2> HIDE DEF plan
  <2> QED
    BY <1>3, <1>6, <2>1 DEF PlanTrue
<1>8. faults' \in 0..MaxFaults
  BY FaultFacts DEF Plan, Lookup, IInv, TypeOK
<1> QED
  <2>1. /\ arr' \in {arr, 0} /\ running' \in [Jobs -> 0..MaxArr] /\ inSeerr' \subseteq SeerrIds
        /\ UNCHANGED <<tableVars, h, made, sent>>
    BY <1>5 DEF IInv, TypeOK, serviceVars, radarrVars
  <2> HIDE DEF plan
  <2> QED
    BY <1>5, <1>6, <1>7, <1>8, <2>1, StepFrame

\* The steps of the cascade change the place, and at most the downloads left.
LEMMA CascadeKeeps ==
  ASSUME IInv, NEW r \in Removers,
         \/ DownloadsStopped(r) \/ DeleteMovie(r) \/ DeleteFromSeerr(r)
         \/ \E j \in Jobs : StopDownload(r, j)
  PROVE  IInv'
<1>1. /\ rm[r] \in RemovalPlan /\ running \in [Jobs -> 0..MaxArr] /\ 0 \in 0..MaxArr
      /\ rm \in [Removers -> RemovalPlan] /\ PlanTrue(r)
      /\ inSeerr \subseteq SeerrIds /\ faults \in 0..MaxFaults
  BY IdsAssumption DEF IInv, TypeOK
<1>2. UNCHANGED <<tableVars, h, made, sent>> /\ arr' \in {arr, 0}
  BY DEF DownloadsStopped, DeleteMovie, DeleteFromSeerr, StopDownload, serviceVars, radarrVars
<1>3. running' \in [Jobs -> 0..MaxArr]
  BY <1>1 DEF DownloadsStopped, DeleteMovie, DeleteFromSeerr, StopDownload, serviceVars, radarrVars
<1>4. inSeerr' \subseteq SeerrIds /\ faults' \in 0..MaxFaults
  <2>1. CASE DeleteFromSeerr(r)
    BY <1>1, <2>1, FaultFacts DEF DeleteFromSeerr
  <2>2. CASE ~DeleteFromSeerr(r)
    BY <1>1, <2>2 DEF DownloadsStopped, DeleteMovie, StopDownload, serviceVars
  <2> QED
    BY <2>1, <2>2
<1>5. PICK plan \in RemovalPlan :
        /\ rm' = [rm EXCEPT ![r] = plan]
        /\ plan.movie = rm[r].movie
        /\ rm[r].at # "idle"
        /\ plan.at \in {"seerr", "purge"}
             => \/ plan.at = "seerr" /\ arr' = IF arr = rm[r].movie THEN 0 ELSE arr
                \/ rm[r].at = "seerr" /\ arr' = arr
  <2>1. CASE DownloadsStopped(r)
    <3> DEFINE p == [rm[r] EXCEPT !.at = "delete"]
    <3>1. p \in RemovalPlan /\ p.at = "delete" /\ p.movie = rm[r].movie
      BY <1>1 DEF RemovalPlan
    <3>2. rm' = [rm EXCEPT ![r] = p] /\ rm[r].at = "stop"
      BY <1>1, <2>1 DEF DownloadsStopped, Goto, At
    <3> HIDE DEF p
    <3> QED
      BY <3>1, <3>2
  <2>2. CASE DeleteMovie(r)
    <3> DEFINE p == [rm[r] EXCEPT !.at = "seerr"]
    <3>1. p \in RemovalPlan /\ p.at = "seerr" /\ p.movie = rm[r].movie
      BY <1>1 DEF RemovalPlan
    <3>2. /\ rm' = [rm EXCEPT ![r] = p] /\ rm[r].at = "delete"
          /\ arr' = IF arr = rm[r].movie THEN 0 ELSE arr
      BY <1>1, <2>2 DEF DeleteMovie, Goto, At
    <3> HIDE DEF p
    <3> QED
      BY <3>1, <3>2
  <2>3. CASE DeleteFromSeerr(r)
    <3> DEFINE p == [rm[r] EXCEPT !.at = "purge"]
    <3>1. p \in RemovalPlan /\ p.at = "purge" /\ p.movie = rm[r].movie
      BY <1>1 DEF RemovalPlan
    <3>2. rm' = [rm EXCEPT ![r] = p] /\ rm[r].at = "seerr" /\ arr' = arr
      BY <1>1, <2>3 DEF DeleteFromSeerr, Goto, At, radarrVars
    <3> HIDE DEF p
    <3> QED
      BY <3>1, <3>2
  <2>4. ASSUME NEW j \in Jobs, StopDownload(r, j)
        PROVE  \E p \in RemovalPlan :
                 /\ rm' = [rm EXCEPT ![r] = p] /\ rm[r].at = "stop" /\ p.at = "stop"
                 /\ p.movie = rm[r].movie
    <3> DEFINE p == [rm[r] EXCEPT !.jobs = @ \ {j}]
    <3>1. p \in RemovalPlan /\ p.at = rm[r].at /\ p.movie = rm[r].movie
      BY <1>1 DEF RemovalPlan
    <3>2. rm' = [rm EXCEPT ![r] = p] /\ rm[r].at = "stop"
      BY <1>1, <2>4 DEF StopDownload, At
    <3> HIDE DEF p
    <3> QED
      BY <3>1, <3>2
  <2> QED
    BY <2>1, <2>2, <2>3, <2>4
<1>6. PlanTrue(r)'
  <2>1. rm'[r] = plan
    BY <1>1, <1>5
  <2> QED
    BY <1>1, <1>2, <1>5, <2>1 DEF PlanTrue
<1> QED
  BY <1>2, <1>3, <1>4, <1>5, <1>6, StepFrame

\* A purge takes its own requests away; a handler under way is marked stale.
LEMMA PurgeKeeps ==
  ASSUME IInv, NEW r \in Removers, Purge(r)
  PROVE  IInv'
<1> DEFINE kept == DOMAIN rows \ rm[r].ids
           gone == OwnDownloads(rm[r].ids)
<1>1. /\ rm \in [Removers -> RemovalPlan] /\ rm[r] \in RemovalPlan /\ h \in Handler
      /\ DOMAIN rows \subseteq Ids /\ \A i \in DOMAIN rows : rows[i] \in Row
      /\ dls \subseteq Jobs /\ links \subseteq dls \X DOMAIN rows /\ tombs \in Tombstones
      /\ made \in 0..MaxArr
  BY DEF IInv, TypeOK
<1>2. /\ rows' = [i \in kept |-> rows[i]] /\ dls' = dls \ gone
      /\ links' = {l \in links : l[1] \notin gone /\ l[2] \in kept}
      /\ h' = [h EXCEPT !.stale = (h.at # "idle")]
      /\ UNCHANGED <<serviceVars, shown, faults>>
  BY DEF Purge, LinkStays
<1>3. /\ DOMAIN rows' \subseteq Ids /\ \A i \in DOMAIN rows' : rows'[i] \in Row
      /\ dls' \subseteq Jobs /\ links' \subseteq dls' \X DOMAIN rows'
  <2> HIDE DEF gone, kept
  <2>1. kept \subseteq DOMAIN rows
    BY DEF kept
  <2> QED
    BY <1>1, <1>2, <2>1
<1>4. tombs' \in Tombstones /\ buried' \subseteq 1..MaxArr
  <2>1. rm[r].seerr \subseteq Requested /\ rm[r].arrs \subseteq 1..MaxArr
    BY <1>1 DEF RemovalPlan
  <2> QED
    BY <1>1, <2>1, IdsAssumption DEF Purge, Bury, Tombstones
<1>5. h' \in Handler /\ h'.at = h.at /\ h'.msg = h.msg /\ h'.stale = (h.at # "idle")
  BY <1>1, <1>2 DEF Handler
<1>6. rm' = [rm EXCEPT ![r] = NoPlan] /\ rm' \in [Removers -> RemovalPlan]
  BY <1>1, Constants DEF Purge, Stop
<1>7. TypeOK'
  BY <1>2, <1>3, <1>4, <1>5, <1>6 DEF IInv, TypeOK, serviceVars, radarrVars
<1>8. HandlerTrue'
  BY <1>5 DEF IInv, HandlerTrue
<1>9. ASSUME NEW q \in Removers PROVE PlanTrue(q)'
  <2>1. PlanTrue(q) /\ UNCHANGED <<arr, made>> /\ made \in Nat
    BY <1>1, <1>2 DEF IInv, serviceVars, radarrVars
  <2>2. rm'[q] = rm[q] \/ rm'[q] = NoPlan
    BY <1>1, <1>6
  <2> QED
    BY <2>1, <2>2 DEF PlanTrue, NoPlan
<1> QED
  BY <1>7, <1>8, <1>9 DEF IInv

LEMMA CrashKeeps ==
  ASSUME IInv, Crash
  PROVE  IInv'
<1>1. h' = Idle /\ rm' = [r \in Removers |-> NoPlan] /\ UNCHANGED <<serviceVars, tableVars>>
  BY DEF Crash
<1>2. TypeOK'
  BY <1>1, FaultFacts, Constants DEF Crash, IInv, TypeOK, serviceVars, radarrVars, tableVars
<1>3. HandlerTrue' /\ \A r \in Removers : PlanTrue(r)'
  <2>1. made' \in Nat
    BY <1>2 DEF TypeOK
  <2> QED
    BY <1>1, <2>1 DEF HandlerTrue, PlanTrue, Idle, NoPlan
<1> QED
  BY <1>2, <1>3 DEF IInv

LEMMA StutterKeeps ==
  ASSUME IInv, UNCHANGED vars
  PROVE  IInv'
<1>1. UNCHANGED <<serviceVars, tableVars, h, rm, faults>>
  BY DEF vars
<1>2. TypeOK'
  BY <1>1 DEF IInv, TypeOK, serviceVars, radarrVars, tableVars
<1>3. HandlerTrue' /\ \A r \in Removers : PlanTrue(r)'
  BY <1>1 DEF IInv, HandlerTrue, PlanTrue, Removed, serviceVars, radarrVars, tableVars
<1> QED
  BY <1>2, <1>3 DEF IInv

LEMMA NextKeeps ==
  ASSUME IInv, [Next]_vars
  PROVE  IInv'
<1>1. CASE ServiceNext
  BY <1>1, ServiceKeeps
<1>2. CASE ProjectorNext
  BY <1>2, TakeKeeps, FindKeeps, EnsureKeeps, DownloadKeeps DEF ProjectorNext, HandlerNext
<1>3. CASE RemoveNext
  <2>1. PICK r \in Removers : (\E i \in Ids : Click(r, i)) \/ GoesOn(r) \/ Fails(r)
    BY <1>3 DEF RemoveNext
  <2> QED
    BY <2>1, ClickKeeps, PlanKeeps, CascadeKeeps, PurgeKeeps, FailsKeeps DEF GoesOn
<1>4. CASE Crash
  BY <1>4, CrashKeeps
<1>5. CASE UNCHANGED vars
  BY <1>5, StutterKeeps
<1> QED
  BY <1>1, <1>2, <1>3, <1>4, <1>5 DEF Next

THEOREM Invariance == Spec => []IInv
<1>1. Init => IInv
  BY InitInv
<1>2. IInv /\ [Next]_vars => IInv'
  BY NextKeeps
<1> QED
  BY <1>1, <1>2, PTL DEF Spec

(* What follows ------------------------------------------------------------*)

\* The tables, the handler and the plans keep their types; a link never
\* outlives its download or its request.
THEOREM TypeCorrect == Spec => []TypeOK
<1>1. IInv => TypeOK
  BY DEF IInv
<1> QED
  BY <1>1, Invariance, PTL

\* However many removals are under way, none lets Seerr or Journarr forget a
\* movie that is still in Radarr.
THEOREM ForgottenLast == Spec => ForgetsLast
<1>1. IInv => [\A r \in Removers : DeleteFromSeerr(r) \/ Purge(r) => arr # rm[r].movie \/ arr = 0]_vars
  BY DEF IInv, PlanTrue, DeleteFromSeerr, Purge, At
<1> QED
  BY <1>1, Invariance, PTL DEF ForgetsLast

\* Only a handler that a purge overtook writes a row for a message about a
\* title in the tombstones.
THEOREM AwayStays == Spec => StaysAway
<1> DEFINE written == \E i \in DOMAIN rows' : i \notin DOMAIN rows \/ rows'[i] # rows[i]
<1>1. ASSUME Next, ~(FindRequest \/ EnsureItem)
      PROVE  ~written
  <2>1. CASE UNCHANGED rows
    BY <2>1
  <2>2. ASSUME NEW r \in Removers, Purge(r) PROVE ~written
    BY <2>2 DEF Purge
  <2>3. CASE RemoveNext
    <3>1. PICK r \in Removers : (\E i \in Ids : Click(r, i)) \/ GoesOn(r) \/ Fails(r)
      BY <2>3 DEF RemoveNext
    <3>2. CASE ~Purge(r)
      BY <2>1, <3>1, <3>2 DEF Click, GoesOn, Fails, Plan, DownloadsStopped, DeleteMovie,
             DeleteFromSeerr, StopDownload, PlanFails, StepFails, DeleteTimesOut, tableVars
    <3> QED
      BY <2>2, <3>2
  <2>4. CASE ServiceNext
    BY <2>1, <2>4 DEF ServiceNext, AddMovie, Ask, Grab, Import, tableVars
  <2>5. CASE ProjectorNext
    BY <1>1, <2>1, <2>5 DEF ProjectorNext, HandlerNext, Take, UpsertDownload, LinkDownload, tableVars
  <2>6. CASE Crash
    BY <2>1, <2>6 DEF Crash, tableVars
  <2> QED
    BY <1>1, <2>3, <2>4, <2>5, <2>6 DEF Next
<1>2. ASSUME IInv, FindRequest \/ EnsureItem
      PROVE  NoComeback
  BY <1>2 DEF IInv, HandlerTrue, Removed, FindRequest, EnsureItem, NoComeback
<1>3. IInv /\ [Next]_vars => [NoComeback]_vars
  <2> HIDE DEF written
  <2> QED
    BY <1>1, <1>2 DEF NoComeback, written
<1> QED
  BY <1>3, Invariance, PTL DEF StaysAway, Spec

\* The links a step takes away are those of the requests it takes away.
THEOREM SharedKept == Spec => KeepsShared
<1>1. ASSUME IInv, Next
      PROVE  \A l \in links : l[2] \in DOMAIN rows' => l \in links'
  <2>1. CASE UNCHANGED links
    BY <2>1
  <2>2. CASE LinkDownload
    BY <2>2 DEF LinkDownload
  <2>3. ASSUME NEW r \in Removers, Purge(r), NEW l \in links, l[2] \in DOMAIN rows'
        PROVE  l \in links'
    <3>1. l[2] \in DOMAIN rows \ rm[r].ids /\ l = <<l[1], l[2]>>
      BY <1>1, <2>3 DEF Purge, IInv, TypeOK
    <3>2. l[1] \notin OwnDownloads(rm[r].ids)
      BY <2>3, <3>1 DEF OwnDownloads, LinkedTo
    <3> QED
      BY <2>3, <3>1, <3>2 DEF Purge, LinkStays
  <2>4. CASE Crash
    BY <2>4 DEF Crash, tableVars
  <2>5. CASE ServiceNext
    BY <2>5 DEF ServiceNext, AddMovie, Ask, Grab, Import, tableVars
  <2>6. CASE ProjectorNext
    BY <2>2, <2>6 DEF ProjectorNext, HandlerNext, Take, FindRequest, EnsureItem, UpsertDownload, tableVars
  <2>7. CASE RemoveNext
    <3>1. PICK r \in Removers : (\E i \in Ids : Click(r, i)) \/ GoesOn(r) \/ Fails(r)
      BY <2>7 DEF RemoveNext
    <3>2. CASE Purge(r)
      BY <2>3, <3>2
    <3>3. CASE ~Purge(r)
      <4>1. UNCHANGED tableVars
        BY <3>1, <3>3 DEF Click, GoesOn, Fails, Plan, DownloadsStopped, DeleteMovie, DeleteFromSeerr,
                          StopDownload, PlanFails, StepFails, DeleteTimesOut
      <4> QED
        BY <4>1 DEF tableVars
    <3> QED
      BY <3>2, <3>3
  <2> QED
    BY <1>1, <2>4, <2>5, <2>6, <2>7 DEF Next
<1>2. IInv /\ [Next]_vars => [\A l \in links : l[2] \in DOMAIN rows' => l \in links']_vars
  BY <1>1
<1> QED
  BY <1>1, Invariance, PTL DEF KeepsShared, Spec
=============================================================================
