------------------------------ MODULE Pipeline ------------------------------
(***************************************************************************)
(* The projector's apply functions (backend/internal/pipeline) over the    *)
(* derived tables of the store, together with the two user actions that    *)
(* write the same tables (Retry and Cancel of backend/internal/actions).   *)
(*                                                                         *)
(* One action is one handler run to its end: the projector is a single     *)
(* goroutine and the store a single connection.  The events are not held   *)
(* in a queue: any report may come at any time, again, late or never,      *)
(* which is what webhooks, pollers and a retried batch amount to.          *)
(*                                                                         *)
(* A title is known by one request row; the rows an orphan and a later     *)
(* Seerr request make of one title are not modelled here.                  *)
(***************************************************************************)
EXTENDS MediaItem, FiniteSets

CONSTANTS Items,      (* movies and episodes                               *)
          Requests,   (* rows of table requests                            *)
          RequestOf,  (* the request an item belongs to                    *)
          Movies,     (* the movie requests; the others are tv             *)
          Keys,       (* client download ids                               *)
          NoKey,      (* no download id                                    *)
          ReportIds,  (* the ids the arrs report, NoKey for a report       *)
                      (* without one                                       *)
          SeerrError, (* the last_error of a failed Seerr request          *)
          Carries,    (* the items a client download holds                 *)
          JobStates,  (* the Arrarr job states that are reported           *)
          Connected,  (* the services that report besides the arrs         *)
          MaxRows,    (* bound on the rows of table downloads              *)
          MaxCycle    (* bound on the attempts of an item                  *)

AllJobStates == {"SUBMITTED", "DOWNLOADING", "COMPLETED_TORBOX", "READY",
                 "FAILED", "CANCELED"}
Services     == {"seerr", "jellyfin", "notifier", "tdarr"}

ASSUME RequestsAssumption ==
  /\ RequestOf \in [Items -> Requests]
  /\ Movies \subseteq Requests
  /\ \A r \in Movies : \A i, j \in Items :
       RequestOf[i] = r /\ RequestOf[j] = r => i = j
ASSUME KeysAssumption ==
  /\ NoKey \notin Keys /\ ReportIds \subseteq Keys \union {NoKey}
  /\ NoError \notin Keys \union {NoKey}
  /\ SeerrError \notin Keys \union {NoKey, NoError}
  /\ Carries \in [Keys -> SUBSET Items]
ASSUME SourcesAssumption ==
  JobStates \subseteq AllJobStates /\ Connected \subseteq Services
ASSUME BoundsAssumption == MaxRows \in Nat /\ MaxCycle \in Nat

VARIABLES status,   (* requests.status, "none" before the row exists       *)
          seerr,    (* the requests with a seerr_request_id                *)
          known,    (* the items that have a row                           *)
          item,     (* their rows                                          *)
          key,      (* downloads.client_download_id                        *)
          state,    (* downloads.state, "absent" before the row exists     *)
          link,     (* download_items.cycle by row and item, 0: no link    *)
          touched,  (* Projector.touched: requests to recompute            *)
          fanq      (* Projector.retries: fan-outs to try again            *)

requestVars  == <<status, seerr>>
itemVars     == <<known, item>>
downloadVars == <<key, state, link>>
vars == <<requestVars, itemVars, downloadVars, touched, fanq>>

Rows   == 1..MaxRows
Errors == Keys \union {NoKey, NoError, SeerrError}

(* State of a download -----------------------------------------------------*)

\* downloadStateRank; a terminal row never advances.
Rank == [s \in {"grabbed", "submitted", "cloud_downloading", "pulling",
                "downloaded", "imported", "failed", "canceled"} |->
           CASE s = "grabbed"           -> 0
             [] s = "submitted"         -> 1
             [] s = "cloud_downloading" -> 2
             [] s = "pulling"           -> 3
             [] s = "downloaded"        -> 4
             [] s = "imported"          -> 5
             [] OTHER                   -> -1]
DownloadStates == DOMAIN Rank
Terminal == {"imported", "failed", "canceled"}

\* arrarrStageMap: the download state and the stage have the same name.
StageOfJob(to) ==
  CASE to = "SUBMITTED"        -> "submitted"
    [] to = "DOWNLOADING"      -> "cloud_downloading"
    [] to = "COMPLETED_TORBOX" -> "pulling"
    [] to = "READY"            -> "downloaded"

(* Correlation: which row, which attempt -----------------------------------*)

Highest(S) == CHOOSE m \in S : \A n \in S : n <= m

RowsOf(k)    == {d \in Rows : state[d] # "absent" /\ key[d] = k}
ActiveRows(k) == {d \in RowsOf(k) : state[d] \notin Terminal}
FreshRows    == {d \in Rows : state[d] = "absent"
                              /\ \A e \in Rows : e < d => state[e] # "absent"}

\* The row UpsertDownload returns: the newest active one, or a new one.
Upserted(k) == IF ActiveRows(k) = {} THEN FreshRows
                                     ELSE {Highest(ActiveRows(k))}
\* The row FindDownloadByClientID returns, if any.
NewestRow(k) == IF RowsOf(k) = {} THEN {} ELSE {Highest(RowsOf(k))}

LinkedItems(d)  == {i \in Items : link[d][i] # 0}
LinkedAt(i, c)  == {d \in Rows : link[d][i] = c}

\* CycleForItemDownload: the attempt a client id is linked to, or 0.
Claim(i, k) == Highest({0} \union {link[d][i] : d \in RowsOf(k)})

\* DownloadClientIDForItemCycle, NoKey when nothing is linked.
Owner(i, c) ==
  IF LinkedAt(i, c) = {} THEN NoKey ELSE key[Highest(LinkedAt(i, c))]

\* The attempt a report of download k is about: its own, else the current.
ReportCycle(i, k) == IF Claim(i, k) > 0 THEN Claim(i, k) ELSE item[i].cycle

ItemsOf(r) == {i \in known : RequestOf[i] = r}

Init ==
  /\ status  = [r \in Requests |-> "none"]
  /\ seerr   = {}
  /\ known   = {}
  /\ item    = [i \in Items |-> NewItem]
  /\ key     = [d \in Rows |-> NoKey]
  /\ state   = [d \in Rows |-> "absent"]
  /\ link    = [d \in Rows |-> [i \in Items |-> 0]]
  /\ touched = {}
  /\ fanq    = {}

(* Seerr: the life of a request (applySeerr) -------------------------------*)

\* UpsertRequest, and the touch that follows it.
Upsert(r) ==
  /\ "seerr" \in Connected
  /\ status[r] = "none" \/ r \in seerr
  /\ seerr'   = seerr \union {r}
  /\ touched' = touched \union {r}
Created(r) == [status EXCEPT ![r] = IF @ = "none" THEN "active" ELSE @]

\* apply(): the stage lands in the item's current attempt.
Applied(it, s)  == ApplyStage(it, it.cycle, s)
Approved(it)    == Applied(Applied(it, "requested"), "approved")
\* Every item of S enters stage s of its current attempt.
Enter(S, s) ==
  item' = [i \in Items |-> IF i \in S THEN Applied(item[i], s) ELSE item[i]]
Approve(S) ==
  item' = [i \in Items |-> IF i \in S THEN Approved(item[i]) ELSE item[i]]
MovieItems(r)   == {i \in Items : r \in Movies /\ RequestOf[i] = r}

\* A movie gets its item and enters "requested"; a tv request waits.
SeerrPending(r) ==
  /\ Upsert(r)
  /\ status' = Created(r)
  /\ known'  = known \union MovieItems(r)
  /\ Enter(MovieItems(r), "requested")
  /\ UNCHANGED <<downloadVars, fanq>>

\* fanoutTV over the aired and monitored episodes S that Sonarr lists.
FanoutDone(r, S) ==
  /\ S \subseteq {i \in Items : RequestOf[i] = r}
  /\ known' = known \union S
  /\ Approve(S)
  /\ fanq'  = fanq \ {r}
FanoutQueued(r) == fanq' = fanq \union {r} /\ UNCHANGED itemVars

SeerrApproved(r) ==
  /\ Upsert(r)
  /\ status' = Created(r)
  /\ \/ /\ r \in Movies
        /\ known' = known \union MovieItems(r)
        /\ Approve(MovieItems(r))
        /\ UNCHANGED fanq
     \/ /\ r \notin Movies
        /\ \/ \E S \in SUBSET Items : FanoutDone(r, S)
           \/ FanoutQueued(r)
  /\ UNCHANGED downloadVars

SeerrDeclined(r) ==
  /\ Upsert(r)
  /\ status' = [status EXCEPT ![r] = "canceled"]
  /\ UNCHANGED <<itemVars, downloadVars, fanq>>

\* A tv request nothing was tracked for is closed out.
SeerrAvailable(r) ==
  /\ Upsert(r)
  /\ LET its == ItemsOf(r) \union MovieItems(r)
     IN  /\ status' = IF its = {} THEN [status EXCEPT ![r] = "completed"]
                                  ELSE Created(r)
         /\ known'  = known \union its
         /\ Enter(its, "available")
  /\ UNCHANGED <<downloadVars, fanq>>

SeerrFailed(r) ==
  /\ Upsert(r)
  /\ status' = Created(r)
  /\ item' = [i \in Items |->
                IF i \in ItemsOf(r) /\ ~Reached(item[i], "available")
                THEN SetItemError(item[i], SeerrError) ELSE item[i]]
  /\ UNCHANGED <<known, downloadVars, fanq>>

(* The arrs: grabs, imports, failures --------------------------------------*)

\* The items a report about request r and download k can name.
Named(r, k) ==
  {S \in SUBSET (IF k = NoKey THEN Items ELSE Carries[k]) :
     S # {} /\ \A i \in S : RequestOf[i] = r}

\* resolveEpisodeItems, resolveMovieItem: what is missing is created.
Resolve(r, S) ==
  /\ status' = Created(r)
  /\ known'  = known \union S
  /\ UNCHANGED seerr

TouchIf(r, applied) == touched' = IF applied THEN touched \union {r} ELSE touched

\* The current attempt was grabbed already, from another download.
IsRegrab(i, k) ==
  /\ k # NoKey /\ Claim(i, k) = 0
  /\ <<item[i].cycle, "grabbed">> \in item[i].hist
  /\ Owner(i, item[i].cycle) \notin {NoKey, k}

\* Mutant: a grab always lands in the current attempt.
GrabCycleCurrent(i, k) == item[i].cycle
\* Mutant: a new attempt whenever the current one was grabbed already, a
\* replay included.
GrabCycleNoReplay(i, k) ==
  IF <<item[i].cycle, "grabbed">> \in item[i].hist
  THEN item[i].cycle + 1 ELSE ReportCycle(i, k)

\* The attempt a grab lands in.
GrabCycle(i, k) ==
  IF IsRegrab(i, k) THEN item[i].cycle + 1 ELSE ReportCycle(i, k)

Grabbed(i, k) ==
  ApplyStage(IF IsRegrab(i, k) THEN BumpItemCycle(item[i]) ELSE item[i],
             GrabCycle(i, k), "grabbed")

Grab(r, S, k) ==
  /\ Resolve(r, S)
  /\ \A i \in S : IsRegrab(i, k) => item[i].cycle < MaxCycle
  /\ item' = [i \in Items |-> IF i \in S THEN Grabbed(i, k) ELSE item[i]]
  /\ TouchIf(r, \E i \in S : Applies(item[i], GrabCycle(i, k), "grabbed"))
  /\ \/ k = NoKey /\ UNCHANGED downloadVars
     \/ \E d \in IF k = NoKey THEN {} ELSE Upserted(k) :
          /\ key'   = [key EXCEPT ![d] = k]
          /\ state' = [state EXCEPT ![d] = IF @ = "absent" THEN "grabbed"
                                                           ELSE @]
          /\ link'  = [link EXCEPT ![d] =
                        [i \in Items |-> IF i \in S /\ @[i] = 0
                                         THEN GrabCycle(i, k) ELSE @[i]]]
  /\ UNCHANGED fanq

\* UnimportedItemCount, over the items as the import leaves them.
Unimported(d, its) ==
  {i \in LinkedItems(d) : <<link[d][i], "imported">> \notin its[i].hist}

Imported(i, k) == ApplyStage(item[i], ReportCycle(i, k), "imported")

\* Mutant: one imported item is enough to close the download.
ImportedStateEarly(d, k, its) ==
  IF d \in NewestRow(k) /\ state[d] \notin {"failed", "canceled"}
  THEN "imported" ELSE state[d]

\* The newest row of the download is done once all it holds is imported.
ImportedState(d, k, its) ==
  IF /\ d \in NewestRow(k)
     /\ Unimported(d, its) = {}
     /\ state[d] \notin {"failed", "canceled"}
  THEN "imported" ELSE state[d]

Import(r, S, k) ==
  /\ Resolve(r, S)
  /\ item'  = [i \in Items |-> IF i \in S THEN Imported(i, k) ELSE item[i]]
  /\ state' = [d \in Rows |-> ImportedState(d, k, item')]
  /\ TouchIf(r, \E i \in S : Applies(item[i], ReportCycle(i, k), "imported"))
  /\ UNCHANGED <<key, link, fanq>>

\* Mutant: the failure of an old attempt marks the current one.
MarksAlways(i, k) == TRUE
\* markItem: the failure of download k is one of i's current attempt.
Marks(i, k) ==
  \/ k = NoKey
  \/ Claim(i, k) = item[i].cycle
  \/ Claim(i, k) = 0 /\ Owner(i, item[i].cycle) \in {NoKey, k}

MarkItems(S, k) ==
  item' = [i \in Items |-> IF i \in S /\ Marks(i, k)
                           THEN SetItemError(item[i], k) ELSE item[i]]

FailedState(d, soft) ==
  IF soft \/ state[d] \in {"imported", "canceled"} THEN state[d] ELSE "failed"

\* The download is known: its row fails and its items are marked.
FailureOfRow(k, soft) ==
  \E d \in NewestRow(k) :
    /\ state'   = [state EXCEPT ![d] = FailedState(d, soft)]
    /\ MarkItems(LinkedItems(d), k)
    /\ touched' = touched \union {RequestOf[i] : i \in LinkedItems(d)}
    /\ UNCHANGED <<requestVars, known, key, link, fanq>>

\* It is not: the items are found by what the report names.
FailureByName(r, S, k) ==
  /\ NewestRow(k) = {}
  /\ Resolve(r, S)
  /\ MarkItems(S, k)
  /\ touched' = touched \union {r}
  /\ UNCHANGED <<downloadVars, fanq>>

(* Arrarr: the job behind a download (applyJobTransition) ------------------*)

EndedState(d, to) ==
  IF state[d] = "imported" THEN state[d]
  ELSE IF to = "CANCELED" THEN "canceled" ELSE "failed"

\* FAILED and CANCELED: the row ends, its current items carry the error.
JobEnded(k, to) ==
  /\ to \in {"FAILED", "CANCELED"}
  /\ \E d \in NewestRow(k) :
       /\ state' = [state EXCEPT ![d] = EndedState(d, to)]
       /\ item'  = [i \in Items |-> IF link[d][i] = item[i].cycle
                                    THEN SetItemError(item[i], k) ELSE item[i]]
       /\ touched' = touched \union {RequestOf[i] : i \in LinkedItems(d)}
  /\ UNCHANGED <<requestVars, known, key, link, fanq>>

\* Mutant: the state of the row follows the last report.
AdvancedAnyway(s, to) == StageOfJob(to)
\* The state of a row only moves forward, and a terminal one not at all.
Advanced(s, to) ==
  IF Rank[s] >= 0 /\ Rank[StageOfJob(to)] > Rank[s] THEN StageOfJob(to) ELSE s

JobAdvanced(k, to) ==
  /\ to \notin {"FAILED", "CANCELED"}
  /\ \E d \in NewestRow(k) :
       /\ state' = [state EXCEPT ![d] = Advanced(@, to)]
       /\ item'  = [i \in Items |->
                      IF link[d][i] # 0
                      THEN ApplyStage(item[i], ReportCycle(i, k), StageOfJob(to))
                      ELSE item[i]]
       /\ touched' = touched \union
            {RequestOf[i] : i \in {j \in LinkedItems(d) :
               Applies(item[j], ReportCycle(j, k), StageOfJob(to))}}
  /\ UNCHANGED <<requestVars, known, key, link, fanq>>

(* Tdarr, Jellyfin, the notifier: the stages after the import --------------*)

\* Mutant: the request is not told.
EntersSilently(S, s) ==
  Enter(S, s) /\ UNCHANGED <<requestVars, known, downloadVars, touched, fanq>>
Enters(S, s) ==
  /\ Enter(S, s)
  /\ touched' = touched \union
       {RequestOf[i] : i \in {j \in S : Applies(item[j], item[j].cycle, s)}}
  /\ UNCHANGED <<requestVars, known, downloadVars, fanq>>

ApplyTranscode(i) == "tdarr" \in Connected /\ i \in known /\ Enters({i}, "transcode")
ApplyAvailable(i) == "jellyfin" \in Connected /\ i \in known /\ Enters({i}, "available")
\* A notice names several items; those that are gone are skipped.
ApplyNotified(S)  ==
  "notifier" \in Connected /\ S \subseteq known /\ S # {} /\ Enters(S, "notified")

(* The projector itself ----------------------------------------------------*)

\* Mutant: a completed request is not looked at again.
RollupOnce(r, its, done) ==
  IF status[r] # "active" \/ ~(its \subseteq done) \/ its = {} THEN status[r] ELSE "completed"
\* Mutant: the rollup overrides a cancellation.
RollupAlways(r, its, done) == IF its \subseteq done THEN "completed" ELSE "active"
\* RecomputeRequestStatus, of a request with items its, those in done at
\* "available" or beyond.
Rollup(r, its, done) ==
  IF status[r] = "canceled" \/ its = {} THEN status[r]
  ELSE IF its \subseteq done THEN "completed" ELSE "active"

DoneItems(its) == {i \in Items : Reached(its[i], "available")}

\* flushTouched, at the end of a drain.
Flush ==
  /\ touched # {}
  /\ status'  = [r \in Requests |->
                   IF r \in touched THEN Rollup(r, ItemsOf(r), DoneItems(item))
                                    ELSE status[r]]
  /\ touched' = {}
  /\ UNCHANGED <<seerr, itemVars, downloadVars, fanq>>

\* retryFanouts: the queue, or the sweep over requests without items.  It
\* runs after a drain and flushes after each fan-out.
FanoutDue(r) ==
  \/ r \in fanq
  \/ /\ r \in seerr \ Movies
     /\ status[r] = "active"
     /\ ItemsOf(r) = {}

RetryFanout(r) ==
  /\ touched = {}
  /\ FanoutDue(r)
  /\ \/ \E S \in SUBSET Items :
          /\ FanoutDone(r, S)
          /\ status' = IF \E i \in S : item[i].hist # Approved(item[i]).hist
                       THEN [status EXCEPT ![r] =
                              Rollup(r, ItemsOf(r) \union S, DoneItems(item'))]
                       ELSE status
     \/ FanoutQueued(r) /\ UNCHANGED status
  /\ UNCHANGED <<seerr, downloadVars, touched>>

\* After 120 attempts the queue forgets a request.
GiveUpFanout(r) ==
  /\ r \in fanq
  /\ fanq' = fanq \ {r}
  /\ UNCHANGED <<requestVars, itemVars, downloadVars, touched>>

(* The user, and the controller's automatic retry --------------------------*)

\* The downloads in flight for an item's current attempt.
InFlight(i) == {d \in LinkedAt(i, item[i].cycle) : state[d] \notin Terminal}

\* Mutant: the other episodes of a retried pack keep their attempt.
AffectedAlone(i) == {i}
\* The item and every other the same downloads are linked to.
Affected(i) == {i} \union UNION {LinkedItems(d) : d \in InFlight(i)}

\* Retry: the downloads are canceled, every affected item begins an attempt.
Retry(i) ==
  /\ i \in known
  /\ \A j \in Affected(i) : item[j].cycle < MaxCycle
  /\ state' = [d \in Rows |-> IF d \in InFlight(i) THEN "canceled" ELSE state[d]]
  /\ item'  = [j \in Items |-> IF j \in Affected(i) THEN BumpItemCycle(item[j])
                                                   ELSE item[j]]
  /\ UNCHANGED <<requestVars, known, key, link, touched, fanq>>

\* Cancel: an active request and every download of its items in flight.
Cancel(r) ==
  /\ status[r] = "active"
  /\ status' = [status EXCEPT ![r] = "canceled"]
  /\ state'  = [d \in Rows |->
                  IF /\ state[d] \notin Terminal \union {"absent"}
                     /\ LinkedItems(d) \intersect ItemsOf(r) # {}
                  THEN "canceled" ELSE state[d]]
  /\ UNCHANGED <<seerr, itemVars, key, link, touched, fanq>>

(***************************************************************************)

SeerrNext ==
  \E r \in Requests :
    \/ SeerrPending(r)   \/ SeerrApproved(r) \/ SeerrDeclined(r)
    \/ SeerrAvailable(r) \/ SeerrFailed(r)

ArrNext ==
  \/ \E r \in Requests, k \in ReportIds : \E S \in Named(r, k) :
       Grab(r, S, k) \/ Import(r, S, k) \/ FailureByName(r, S, k)
  \/ \E k \in Keys, soft \in BOOLEAN : FailureOfRow(k, soft)

JobNext ==
  \E k \in Keys, to \in JobStates : JobEnded(k, to) \/ JobAdvanced(k, to)

StageNext ==
  \/ \E i \in Items : ApplyTranscode(i) \/ ApplyAvailable(i)
  \/ \E S \in SUBSET Items : ApplyNotified(S)

ProjectorNext ==
  Flush \/ \E r \in Requests : RetryFanout(r) \/ GiveUpFanout(r)

ActionNext ==
  (\E i \in Items : Retry(i)) \/ (\E r \in Requests : Cancel(r))

Next == \/ SeerrNext \/ ArrNext \/ JobNext \/ StageNext
        \/ ProjectorNext \/ ActionNext

Spec == Init /\ [][Next]_vars

\* Every drain ends with a flush, and the projector drains every 10 seconds.
FairSpec == Spec /\ WF_vars(Flush)

(* Properties --------------------------------------------------------------*)

TypeOK ==
  /\ status \in [Requests -> {"none", "active", "completed", "canceled"}]
  /\ seerr \subseteq Requests /\ fanq \subseteq Requests
  /\ touched \subseteq Requests
  /\ known \subseteq Items
  /\ item \in [Items -> Item(Errors)]
  /\ key \in [Rows -> Keys \union {NoKey}]
  /\ state \in [Rows -> DownloadStates \union {"absent"}]
  /\ link \in [Rows -> [Items -> Nat]]

\* The incremental pointer of ApplyStage and BumpItemCycle is the furthest
\* stage of the current attempt, and no attempt was recorded before it began.
PointerIsTop ==
  \A i \in Items :
    /\ item[i].stage = Furthest(item[i].hist, item[i].cycle)
    /\ \A h \in item[i].hist : h[1] \in 1..item[i].cycle

\* grabs.go tells a replay from a re-grab by the links: an attempt of an item
\* belongs to one client download, a client download to one attempt of it.
AttemptOwnership ==
  \A i \in Items : \A d, e \in Rows :
    link[d][i] # 0 /\ link[e][i] # 0
      => (key[d] = key[e] <=> link[d][i] = link[e][i])

\* UpsertDownload never leaves two rows of one client download in flight.
OneActiveRow == \A k \in Keys : \A d, e \in ActiveRows(k) : d = e

\* The two facts by which a report is taken to the row and the attempt it is
\* about.
LinksTell == AttemptOwnership /\ OneActiveRow

\* A row is closed as imported only when every item it holds was imported in
\* the attempt the row belongs to, partial imports of a pack included.
ImportedRowIsComplete ==
  \A d \in Rows : state[d] = "imported" => Unimported(d, item) = {}

\* A stale failure never smears its error over a later attempt: the error an
\* item shows comes from a download of its current attempt, or from one no
\* attempt ever claimed.
ErrorIsCurrent ==
  \A i \in Items : \A k \in Keys :
    item[i].err = k => Claim(i, k) \in {0, item[i].cycle}

\* Between drains no completion is missed: a request whose items are all
\* available is reported completed, unless it was canceled.
CompletionReported ==
  \A r \in Requests \ touched :
    ItemsOf(r) # {} /\ ItemsOf(r) \subseteq DoneItems(item)
      => status[r] \in {"completed", "canceled"}

\* Between drains a request that is reported completed holds only items that
\* are available, but for those a Retry began again (actions.go:211) as long as
\* nothing is reported of the new attempt.  The first report reopens it.
Begun(it) == it.cycle > 1 /\ EnteredIn(it.hist, it.cycle) = {}
Stands(it) == Reached(it, "available") \/ Begun(it)
CompletionStands ==
  \A r \in Requests \ touched :
    status[r] = "completed" => \A i \in ItemsOf(r) : Stands(item[i])

\* A terminal row never comes back to life, and an imported one stays so,
\* whatever jobs, failures and cancellations are reported late.
KeepsTerminalRows ==
  \A d \in Rows :
    /\ state[d] \in Terminal => state'[d] \in Terminal
    /\ state[d] = "imported" => state'[d] = "imported"
TerminalRowsStay == [][KeepsTerminalRows]_vars

\* No report and no rollup reopens a canceled request that has items.
KeepsCanceled ==
  \A r \in Requests :
    status[r] = "canceled" /\ ItemsOf(r) # {} => status'[r] = "canceled"
CanceledSticks == [][KeepsCanceled]_vars

\* When the retry of one episode cancels a pack, no other episode of it is
\* left behind in the canceled attempt.
LeavesNoSibling ==
  \A d \in Rows : \A i, j \in LinkedItems(d) :
    /\ state[d] \notin Terminal /\ state'[d] = "canceled"
    /\ item'[i].cycle > item[i].cycle
    => item'[j].cycle > item[j].cycle
PackMovesTogether == [][LeavesNoSibling]_vars

\* The pipeline keeps what the timeline promises.
Promise == INSTANCE Timeline
             WITH attempt <- [i \in Items |-> item[i].cycle],
                  seen    <- [i \in Items |-> item[i].hist],
                  shown   <- [i \in Items |-> item[i].stage],
                  claim   <- [i \in Items |-> [k \in Keys |-> Claim(i, k)]]
KeepsPromise == Promise!Spec

\* A request whose items are all available is eventually reported so, unless
\* it is canceled or an item of it begins again or is added.
Completes(r) == ItemsOf(r) # {} /\ ItemsOf(r) \subseteq DoneItems(item)
CompletionSettles ==
  \A r \in Requests :
    Completes(r) ~> (status[r] \in {"completed", "canceled"} \/ ~Completes(r))

(* What the sources say of the pipeline and it does not do -----------------*)

\* downloads.go:68-70: "a later re-grab of the same release gets its own row
\* once the old one is terminal", and Retry begins each attempt "so the
\* incoming grab starts clean" (actions.go:183-184).  A row that a grab opens
\* should then serve the attempt its items are in.  (Were the grab a late
\* replay, it should open no row at all.)
NewRowServesAttempt ==
  [][\A d \in Rows : \A i \in Items :
       state[d] = "absent" /\ link'[d][i] # 0
         => link'[d][i] = item'[i].cycle]_vars

\* requests.go:120-122: the status is "completed when every item reached
\* 'available' or beyond; stays active otherwise".
CompletedMeansAvailable ==
  \A r \in Requests \ touched :
    status[r] = "completed" => ItemsOf(r) \subseteq DoneItems(item)
=============================================================================
