------------------------------ MODULE Removal -------------------------------
(***************************************************************************)
(* "Remove everywhere" (backend/internal/actions/remove.go) of one movie,  *)
(* next to what brings the movie back: requests in Seerr, another entry in *)
(* Radarr, and the messages about both, which the projector may get late,  *)
(* twice and in any order (a purge deletes the events that would tell a    *)
(* replay, so only the tombstones are left to stop one).                   *)
(*                                                                         *)
(* A removal is a goroutine of an HTTP handler, and nothing keeps two of   *)
(* them apart.  Every change it makes is a step of its own, and so is      *)
(* every statement of the projector that a purge may come before.  The     *)
(* lookups of the plan are one step: they change nothing, and each has     *)
(* an outcome it would have had at the time of the last.                   *)
(*                                                                         *)
(* An item is part of the row of its request.  A row gets the id after the *)
(* highest in use (INTEGER PRIMARY KEY without AUTOINCREMENT), so ids come *)
(* back; a request for another title stands for all that may get one, and  *)
(* a page that is not fresh still names the movie by the id it had.  The   *)
(* title has a tmdb id and Radarr is configured.  The reaper of tombstones *)
(* is left out: no message is 30 days late.                                *)
(***************************************************************************)
EXTENDS Naturals, FiniteSets

CONSTANTS Removers,  (* removals that may be under way together            *)
          SeerrIds,  (* Seerr's ids of requests for the movie              *)
          Other,     (* ...and of one for another title                    *)
          Jobs,      (* downloads                                          *)
          None,      (* no Seerr request, no download                      *)
          MaxArr,    (* bound on the ids Radarr gives the movie            *)
          MaxId,     (* bound on the ids of requests                       *)
          MaxFaults  (* bound on failed and unanswered calls and crashes  *)

ASSUME IdsAssumption ==
  /\ Other \notin SeerrIds /\ None \notin SeerrIds \union {Other} \union Jobs
  /\ MaxArr \in Nat /\ MaxId \in Nat /\ MaxFaults \in Nat

VARIABLES arr,      (* Radarr: the id of the movie, 0 without one          *)
          made,     (* Radarr: the ids it has given                        *)
          running,  (* Radarr: the movie each queued download is for, or 0 *)
          inSeerr,  (* Seerr: its requests for the movie                   *)
          sent,     (* messages about all this, never used up              *)
          rows,     (* requests with their items, by id                    *)
          dls,      (* downloads                                           *)
          links,    (* download_items                                      *)
          tombs,    (* removed_media                                       *)
          h,        (* the handler of the projector                        *)
          rm,       (* the removals                                        *)
          buried,   (* ids of movies gone from Radarr at the last purge    *)
          shown,    (* ids some page shows, or showed, the movie under     *)
          faults    (* faults so far                                       *)

radarrVars  == <<arr, made, running>>
serviceVars == <<radarrVars, inSeerr, sent>>
tableVars   == <<rows, dls, links, tombs, buried, shown>>
vars        == <<serviceVars, tableVars, h, rm, faults>>

Ids == 1..MaxId
Requested == SeerrIds \union {Other}
Row  == [seerr : Requested \union {None}, item : BOOLEAN, arr : 0..MaxArr]

\* A Seerr webhook has a request, a grab a movie and a download, an import a
\* movie.
Message == [seerr : Requested \union {None}, arr : 0..MaxArr, job : Jobs \union {None}]
Asked(k)      == [seerr |-> k,    arr |-> 0, job |-> None]
Grabbed(a, j) == [seerr |-> None, arr |-> a, job |-> j]
Imported(a)   == Grabbed(a, None)

Tombstones == [seerr : SUBSET Requested, arr : SUBSET (1..MaxArr)]

\* stale: a purge committed in the meantime.
Handler     == [at : {"idle", "find", "ensure", "download", "link"}, msg : Message,
                row : Ids \union {0}, stale : BOOLEAN]
\* own: for the movie, and not for the other title.
RemovalPlan == [at : {"idle", "plan", "stop", "delete", "seerr", "purge"}, own : BOOLEAN,
                ids : SUBSET Ids, seerr : SUBSET Requested, arrs : SUBSET (1..MaxArr),
                movie : 0..MaxArr, jobs : SUBSET Jobs, media : BOOLEAN]

Idle    == [at |-> "idle", msg |-> Imported(0), row |-> 0, stale |-> FALSE]
NoPlan  == [at |-> "idle", own |-> TRUE, ids |-> {}, seerr |-> {}, arrs |-> {},
            movie |-> 0, jobs |-> {}, media |-> FALSE]

Init ==
  /\ arr = 0 /\ made = 0 /\ running = [j \in Jobs |-> 0]
  /\ inSeerr = {} /\ sent = {}
  /\ rows = [i \in {} |-> 0] /\ dls = {} /\ links = {}
  /\ tombs = [seerr |-> {}, arr |-> {}] /\ buried = {} /\ shown = {}
  /\ h = Idle /\ rm = [r \in Removers |-> NoPlan] /\ faults = 0

(* The services ------------------------------------------------------------*)

Ask(k) ==
  /\ Asked(k) \notin sent
  /\ inSeerr' = inSeerr \union ({k} \intersect SeerrIds)
  /\ sent' = sent \union {Asked(k)}
  /\ UNCHANGED <<radarrVars, tableVars, h, rm, faults>>

AddMovie ==
  /\ arr = 0 /\ made < MaxArr
  /\ arr' = made + 1 /\ made' = made + 1
  /\ UNCHANGED <<running, inSeerr, sent, tableVars, h, rm, faults>>

Grab(j) ==
  /\ arr # 0 /\ \A a \in 1..MaxArr : Grabbed(a, j) \notin sent
  /\ running' = [running EXCEPT ![j] = arr]
  /\ sent' = sent \union {Grabbed(arr, j)}
  /\ UNCHANGED <<arr, made, inSeerr, tableVars, h, rm, faults>>

Import(j) ==
  /\ running[j] # 0 /\ running[j] = arr
  /\ running' = [running EXCEPT ![j] = 0]
  /\ sent' = sent \union {Imported(arr)}
  /\ UNCHANGED <<arr, made, inSeerr, tableVars, h, rm, faults>>

(* The projector -----------------------------------------------------------*)

Own(i) == rows[i].seerr # Other
Newest(i, S) == i \in S /\ \A j \in S : j <= i
\* The id of the next row.
NewId(i) == /\ i \in Ids /\ \A j \in DOMAIN rows : j < i
            /\ i = 1 \/ i - 1 \in DOMAIN rows

\* Mutant: requests are not checked against the tombstones.
RemovedArrOnly(m) == m.arr \in tombs.arr
\* IsSeerrRequestRemoved, removed and IsArrRemoved.
Removed(m) == m.seerr \in tombs.seerr \/ m.arr \in tombs.arr

\* An event about a removed title is ignored; any other is taken up.
Take(m) ==
  /\ h.at = "idle" /\ m \in sent /\ ~Removed(m)
  /\ h' = [Idle EXCEPT !.at = "find", !.msg = m]
  /\ UNCHANGED <<serviceVars, tableVars, rm, faults>>

\* UpsertRequest by Seerr's id, FindRequestByTmdb for anything else: the
\* request an event belongs to.
Matches(m) == {i \in DOMAIN rows : IF m.seerr = None THEN Own(i)
                                   ELSE rows[i].seerr = m.seerr}

\* The newest match, or a new row (InsertOrphanRequest).
FindRequest ==
  /\ h.at = "find"
  /\ \E i \in Ids :
       /\ h' = [h EXCEPT !.at = "ensure", !.row = i]
       /\ IF Matches(h.msg) # {} THEN Newest(i, Matches(h.msg)) /\ UNCHANGED <<rows, shown>>
          ELSE /\ NewId(i)
               /\ shown' = IF h.msg.seerr = Other THEN shown ELSE shown \union {i}
               /\ rows' = [k \in DOMAIN rows \union {i} |->
                             IF k \in DOMAIN rows THEN rows[k]
                             ELSE [seerr |-> h.msg.seerr, item |-> FALSE, arr |-> 0]]
  /\ UNCHANGED <<serviceVars, dls, links, tombs, buried, rm, faults>>

\* EnsureMediaItem and GetMediaItem; a foreign key error ends the handler.
EnsureItem ==
  /\ h.at = "ensure"
  /\ IF h.row \in DOMAIN rows
     THEN /\ rows' = [rows EXCEPT ![h.row].item = TRUE,
                        ![h.row].arr = IF h.msg.arr = 0 THEN @ ELSE h.msg.arr]
          /\ h' = IF h.msg.job = None THEN Idle ELSE [h EXCEPT !.at = "download"]
     ELSE h' = Idle /\ UNCHANGED rows
  /\ UNCHANGED <<serviceVars, dls, links, tombs, buried, shown, rm, faults>>

UpsertDownload ==
  /\ h.at = "download" /\ h' = [h EXCEPT !.at = "link"]
  /\ dls' = dls \union {h.msg.job}
  /\ UNCHANGED <<serviceVars, rows, links, tombs, buried, shown, rm, faults>>

\* LinkDownloadItem and ApplyStage: both fail when the item is gone.
LinkDownload ==
  /\ h.at = "link" /\ h' = Idle
  /\ links' = IF h.row \in DOMAIN rows /\ h.msg.job \in dls
              THEN links \union {<<h.msg.job, h.row>>} ELSE links
  /\ UNCHANGED <<serviceVars, rows, dls, tombs, buried, shown, rm, faults>>

(* Remove ------------------------------------------------------------------*)

At(r, step) == rm[r].at = step
Stop(r)     == rm' = [rm EXCEPT ![r] = NoPlan]
Goto(r, step) == rm' = [rm EXCEPT ![r].at = step]

\* RequestsForTitle: by the tmdb id of the row the user named.
RequestsForTitle(i) == {k \in DOMAIN rows : Own(k) = Own(i)}

\* PlanRemoval: the request with the id on the page, and all for its title...
Click(r, i) ==
  /\ At(r, "idle") /\ i \in shown \intersect DOMAIN rows
  /\ LET ids == RequestsForTitle(i) IN
     rm' = [rm EXCEPT ![r] = [NoPlan EXCEPT !.at = "plan", !.own = Own(i), !.ids = ids,
                              !.seerr = {rows[k].seerr : k \in ids} \ {None}]]
  /\ UNCHANGED <<serviceVars, tableVars, h, faults>>

Fault == faults < MaxFaults /\ faults' = faults + 1

\* The movie of the plan, 0 when Radarr has none.
Movie(r) == IF rm[r].own THEN arr ELSE 0
Known(r) == {rows[i].arr : i \in rm[r].ids \intersect DOMAIN rows}
Found(r, media) ==
  [rm EXCEPT ![r].at = "stop",
             ![r].arrs = (Known(r) \union {Movie(r)}) \ {0},
             ![r].movie = Movie(r),
             ![r].jobs = {j \in Jobs : Movie(r) # 0 /\ running[j] = Movie(r)},
             ![r].media = media]

\* Mutant: a movie that is not in Radarr any more cannot be removed.
LookupNeedsMovie(r) ==
  /\ arr # 0
  /\ rm' = Found(r, rm[r].own /\ inSeerr # {}) /\ UNCHANGED faults
\* ...ArrIDsForRequests, MovieByTmdbID, Queue and MediaID; the last may fail.
Lookup(r) ==
  \/ rm' = Found(r, rm[r].own /\ inSeerr # {}) /\ UNCHANGED faults
  \/ rm' = Found(r, FALSE) /\ Fault
Plan(r) ==
  /\ At(r, "plan") /\ Lookup(r)
  /\ UNCHANGED <<serviceVars, tableVars, h>>

\* Radarr cannot be reached, or someone is watching.
PlanFails(r) ==
  /\ At(r, "plan") /\ Fault /\ Stop(r)
  /\ UNCHANGED <<serviceVars, tableVars, h>>

\* Step 2, DeleteQueueItem for each planned download; 404 is as good.
StopDownload(r, j) ==
  /\ At(r, "stop") /\ j \in rm[r].jobs
  /\ running' = [running EXCEPT ![j] = 0]
  /\ rm' = [rm EXCEPT ![r].jobs = @ \ {j}]
  /\ UNCHANGED <<arr, made, inSeerr, sent, tableVars, h, faults>>
DownloadsStopped(r) ==
  /\ At(r, "stop") /\ rm[r].jobs = {} /\ Goto(r, "delete")
  /\ UNCHANGED <<serviceVars, tableVars, h, faults>>

\* Step 3, DeleteMovie; 404 is as good.
DeleteMovie(r) ==
  /\ At(r, "delete") /\ Goto(r, "seerr")
  /\ arr' = IF arr = rm[r].movie THEN 0 ELSE arr
  /\ UNCHANGED <<made, running, inSeerr, sent, tableVars, h, faults>>

\* Mutant: a failed delete of the movie is a warning.
Warned(plan) == IF plan.at = "delete" THEN [plan EXCEPT !.at = "seerr"] ELSE NoPlan
\* A failure of step 2, 3 or 6 stops the cascade...
Stopped(plan) == NoPlan
StepFails(r) ==
  /\ Fault
  /\ \/ At(r, "stop") /\ rm[r].jobs # {}
     \/ At(r, "delete") /\ rm[r].movie # 0
     \/ At(r, "purge")
  /\ rm' = [rm EXCEPT ![r] = Stopped(@)]
  /\ UNCHANGED <<serviceVars, tableVars, h>>
\* ...also one of a call that was obeyed.
DeleteTimesOut(r) ==
  /\ Fault
  /\ \/ /\ At(r, "stop") /\ UNCHANGED arr
        /\ \E j \in rm[r].jobs : running' = [running EXCEPT ![j] = 0]
     \/ /\ At(r, "delete") /\ arr = rm[r].movie /\ arr # 0
        /\ arr' = 0 /\ UNCHANGED running
  /\ rm' = [rm EXCEPT ![r] = Stopped(@)]
  /\ UNCHANGED <<made, inSeerr, sent, tableVars, h>>

\* Step 4 is best effort: DeleteMedia, or DeleteRequest for each request the
\* plan knows.  (So is step 5, a scan of Jellyfin that changes nothing here.)
DeleteFromSeerr(r) ==
  /\ At(r, "seerr") /\ Goto(r, "purge")
  /\ LET known == IF rm[r].media THEN SeerrIds ELSE rm[r].seerr IN
     \/ inSeerr' = inSeerr \ known /\ UNCHANGED faults
     \/ Fault /\ \E kept \in SUBSET (inSeerr \intersect known) :
                   inSeerr' = (inSeerr \ known) \union kept
  /\ UNCHANGED <<radarrVars, sent, tableVars, h>>

LinkedTo(S) == {j \in dls : \E i \in S : <<j, i>> \in links}
\* Mutant: every download of a removed item is deleted.
AllDownloads(ids) == LinkedTo(ids)
\* Downloads linked to these items and to no other.
OwnDownloads(ids) == LinkedTo(ids) \ LinkedTo(DOMAIN rows \ ids)

Bury(r) == [seerr |-> tombs.seerr \union rm[r].seerr,
            arr   |-> tombs.arr \union rm[r].arrs]

\* ON DELETE CASCADE: a link goes with its download and with its item.
LinkStays(l, gone, kept) == l[1] \notin gone /\ l[2] \in kept

\* PurgeRequests, with its cascades.  A handler under way is overtaken.
Purge(r) ==
  /\ At(r, "purge")
  /\ LET kept == DOMAIN rows \ rm[r].ids
         gone == OwnDownloads(rm[r].ids) IN
     /\ rows'  = [i \in kept |-> rows[i]]
     /\ dls'   = dls \ gone
     /\ links' = {l \in links : LinkStays(l, gone, kept)}
  /\ tombs' = Bury(r)
  /\ buried' = (1..made) \ {arr}
  /\ Stop(r)
  /\ h' = [h EXCEPT !.stale = (h.at # "idle")]
  /\ UNCHANGED <<serviceVars, shown, faults>>

\* The process dies and starts again; an event at hand is still unprocessed.
Crash ==
  /\ Fault
  /\ h' = Idle /\ rm' = [r \in Removers |-> NoPlan]
  /\ UNCHANGED <<serviceVars, tableVars>>

(***************************************************************************)

ServiceNext   == AddMovie \/ (\E k \in Requested : Ask(k))
                          \/ (\E j \in Jobs : Grab(j) \/ Import(j))
HandlerNext   == FindRequest \/ EnsureItem \/ UpsertDownload \/ LinkDownload
ProjectorNext == HandlerNext \/ \E m \in sent : Take(m)
GoesOn(r)     == \/ Plan(r) \/ DownloadsStopped(r) \/ DeleteMovie(r)
                 \/ DeleteFromSeerr(r) \/ Purge(r)
                 \/ \E j \in Jobs : StopDownload(r, j)
Fails(r)      == PlanFails(r) \/ StepFails(r) \/ DeleteTimesOut(r)
RemoveNext    == \E r \in Removers : \/ \E i \in Ids : Click(r, i)
                                      \/ GoesOn(r) \/ Fails(r)

Next == ServiceNext \/ ProjectorNext \/ RemoveNext \/ Crash

Spec == Init /\ [][Next]_vars

\* Calls return, and a user whose page is fresh clicks again while the title is
\* there.
ClickAgain(r) == \E i \in Ids : Click(r, i) /\ Own(i)
FairSpec == Spec /\ \A r \in Removers : WF_vars(ClickAgain(r) \/ GoesOn(r))

(* Properties --------------------------------------------------------------*)

TypeOK ==
  /\ made \in 0..MaxArr /\ arr \in {0, made} /\ running \in [Jobs -> 0..MaxArr]
  /\ inSeerr \subseteq SeerrIds /\ sent \subseteq Message
  /\ DOMAIN rows \subseteq Ids /\ \A i \in DOMAIN rows : rows[i] \in Row
  /\ dls \subseteq Jobs /\ links \subseteq dls \X DOMAIN rows
  /\ tombs \in Tombstones /\ buried \subseteq 1..MaxArr /\ shown \subseteq Ids
  /\ h \in Handler /\ rm \in [Removers -> RemovalPlan]
  /\ faults \in 0..MaxFaults

\* Messages about a title whose ids are in the tombstones write no request and
\* no item, however late, often and mixed they come; only a handler that was
\* past the check when the purge committed may still do.
NoComeback ==
  (\E i \in DOMAIN rows' : i \notin DOMAIN rows \/ rows'[i] # rows[i])
    => \/ h.msg.seerr \notin tombs.seerr /\ h.msg.arr \notin tombs.arr
       \/ h.stale
StaysAway == [][NoComeback]_vars

\* Seerr and Journarr forget a title only when the movie the plan found has left
\* Radarr, whatever failed, was repeated or ran beside it.
ForgetsLast ==
  [][\A r \in Removers : DeleteFromSeerr(r) \/ Purge(r) => arr # rm[r].movie \/ arr = 0]_vars

\* A request that stays keeps its downloads, also those it shares with the
\* requests that go.
KeepsShared ==
  [][\A l \in links : l[2] \in DOMAIN rows' => l \in links']_vars

\* A removal that was refused, cut short or answered too late is finished by
\* clicking again: what it did already does not stand in its way.
Tracked == \E i \in DOMAIN rows : Own(i)
RemovalFinishes == Tracked ~> ~Tracked

(* What the sources say of removals and they do not do ---------------------*)

\* grabs.go:123-124: when the movie "was removed everywhere by the user; late
\* grab/import/failure events for it must not recreate it".
LateEventsIgnored ==
  [][\A m \in sent : Take(m) => m.arr \notin buried]_vars

\* remove.go:73 has PlanRemoval resolve "the title of a request".  An id that
\* has come back names another title's request, on a page that shows the old one.
TitleOfPage ==
  [][\A r \in Removers, i \in Ids : Click(r, i) => Own(i)]_vars
=============================================================================
