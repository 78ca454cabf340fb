------------------------------- MODULE Stuck --------------------------------
(***************************************************************************)
(* What watches over a movie that makes no progress: the sweeper that      *)
(* flags it (main.go, store/stuck.go), the flow controller's automatic     *)
(* retry (flow, actions), the poller that tells an unreleased movie from a *)
(* stalled one (poll/release.go) and the one that finds the file already   *)
(* on disk (poll/presence.go).  Each is a goroutine that reads a row, asks *)
(* another service and writes later, while the projector advances the      *)
(* movie and the user retries or cancels it.                               *)
(*                                                                         *)
(* Thresholds and poll intervals are not modelled: time may run out        *)
(* whenever nothing was written, and a step may take any time.  The        *)
(* setting auto_retry_stuck_after_secs is on.  The movie's id in Radarr is *)
(* known.  The request is never declined by Seerr.                         *)
(***************************************************************************)
EXTENDS MediaItem

CONSTANTS ReportStages, (* the stages the other services report            *)
          AnError,      (* the last_error of an item whose download failed *)
          MaxStalls,    (* bounds: how often a threshold runs out, and     *)
          MaxUpsets,    (* the failed searches, crashes, re-grabs and      *)
                        (* retries by the user together                    *)
          MaxAttempts   (* const maxAttempts of the flow controller        *)

ASSUME ReportsAssumption ==
  /\ ReportStages \subseteq StageKeys \ {"requested"}
  /\ AnError # NoError
ASSUME BoundsAssumption ==
  /\ MaxStalls \in Nat /\ MaxUpsets \in Nat
  /\ MaxAttempts \in Nat \ {0}

VARIABLES item,    (* the media_items row: cycle, stage and last_error     *)
          stuck,   (* its stuck_since is set                               *)
          stamp,   (* its awaiting_release_at is set                       *)
          quiet,   (* neither the row nor the attempt's download was       *)
                   (* written for as long as the stage's threshold         *)
          status,  (* the request's status                                 *)
          touched, (* the projector's touched set holds the request        *)
          out,     (* Radarr: the movie is released...                     *)
          onDisk,  (* ...and has a file                                    *)
          tasks,   (* pending "retry" rows of flow_tasks: the cycle in     *)
                   (* their key, and their attempts                        *)
          pc,      (* where the controller is,                             *)
          cur,     (* drain: the task at hand,                             *)
          listed,  (* sweep: the cycle of the item as listed               *)
          release, (* where the release poller is,                         *)
          seen,    (* the presence poller: 0, or the cycle as listed       *)
          found,   (* the presence events inserted, by the cycle in their  *)
                   (* dedupe key: not yet applied, or applied              *)
          cancel,  (* where Cancel is                                      *)
          stalls, faults, manual  (* how often so far                      *)

rowVars     == <<item, stuck, stamp, quiet>>
requestVars == <<status, touched, cancel>>
radarrVars  == <<out, onDisk>>
flowVars    == <<tasks, pc, cur, listed>>
pollVars    == <<release, seen, found>>
counts      == <<stalls, faults, manual>>
vars == <<rowVars, requestVars, radarrVars, flowVars, pollVars, counts>>

MaxCycle == 1 + MaxStalls + MaxUpsets
NoTask == [key |-> 0, attempts |-> 0]

Init ==
  /\ item = [cycle |-> 1, stage |-> "requested", err |-> NoError]
  /\ stuck = FALSE /\ stamp = FALSE /\ quiet = FALSE
  /\ status = "active" /\ touched = FALSE /\ cancel = "no"
  /\ out \in BOOLEAN /\ onDisk \in BOOLEAN
  /\ tasks = {} /\ pc = "idle" /\ cur = NoTask /\ listed = 0
  /\ release = "idle" /\ seen = 0 /\ found = [c \in 1..MaxCycle |-> "no"]
  /\ stalls = 0 /\ faults = 0 /\ manual = 0

Upset == faults + manual < MaxUpsets
Early == Ordinal[item.stage] < Ordinal["grabbed"]
Watchable == Reached(item, "available")

(* Writes to the row -------------------------------------------------------*)

\* ApplyStage in the current attempt: the flag goes when the item advances.
Advance(s) ==
  IF Ahead(item, item.cycle, s)
  THEN item' = [item EXCEPT !.stage = s] /\ stuck' = FALSE /\ quiet' = FALSE
  ELSE UNCHANGED <<item, stuck, quiet>>

\* Mutant: the new attempt keeps the flag of the old one.
NewAttemptStaysStuck == item' = BumpItemCycle(item) /\ quiet' = FALSE /\ UNCHANGED stuck
\* BumpItemCycle, as a write to the row.
NewAttempt == item' = BumpItemCycle(item) /\ quiet' = FALSE /\ stuck' = FALSE

(* The projector and the user ----------------------------------------------*)

\* A report is applied to the attempt of the moment; a grab also moves on the
\* download the sweeper looks at.
Report(s) ==
  /\ Advance(s) /\ touched' = TRUE
  /\ UNCHANGED <<stamp, status, cancel, radarrVars, flowVars, pollVars, counts>>

\* A download failed for good, or an import did.
Failure ==
  /\ item.stage # "requested"
  /\ item' = SetItemError(item, AnError) /\ quiet' = FALSE /\ touched' = TRUE
  /\ UNCHANGED <<stuck, stamp, status, cancel, radarrVars, flowVars, pollVars, counts>>

\* The download's byte counters are written: the item's row is not.
Progress ==
  /\ quiet /\ ~Early /\ quiet' = FALSE
  /\ UNCHANGED <<item, stuck, stamp, requestVars, radarrVars, flowVars, pollVars, counts>>

\* flushTouched: RecomputeRequestStatus.
Flush ==
  /\ touched /\ touched' = FALSE
  /\ status' = IF status = "canceled" THEN status
               ELSE IF Watchable THEN "completed" ELSE "active"
  /\ UNCHANGED <<rowVars, cancel, radarrVars, flowVars, pollVars, counts>>

\* A re-grab, or a retry by the user: both begin an attempt whatever the
\* watchdogs are about to do.
Again ==
  /\ Upset /\ manual' = manual + 1
  /\ NewAttempt
  /\ UNCHANGED <<stamp, requestVars, radarrVars, flowVars, pollVars, stalls, faults>>

\* Cancel, once the services were told, sets the status of a request that is
\* not completed, and clears the flags in another statement.
SetsThenClears ==
  \/ /\ cancel = "no" /\ status = "active" /\ cancel' = "half" /\ status' = "canceled"
     /\ UNCHANGED <<rowVars, touched, radarrVars, flowVars, pollVars, counts>>
  \/ /\ cancel = "half" /\ cancel' = "done" /\ stuck' = FALSE
     /\ UNCHANGED <<item, stamp, quiet, status, touched, radarrVars, flowVars, pollVars, counts>>

(* The sweeper -------------------------------------------------------------*)

\* Time passes without a write.
TimePasses ==
  /\ ~quiet /\ stalls < MaxStalls
  /\ quiet' = TRUE /\ stalls' = stalls + 1
  /\ UNCHANGED <<item, stuck, stamp, requestVars, radarrVars, flowVars, pollVars, faults, manual>>

\* Mutant: a stage that is not watched.
ThresholdsButApproved ==
  {"grabbed", "submitted", "cloud_downloading", "pulling", "downloaded", "imported"}
\* The stages main.go gives a threshold.
Thresholds ==
  {"approved", "grabbed", "submitted", "cloud_downloading", "pulling", "downloaded",
   "imported"}

\* The WHERE clause of MarkStuck.
Stalled ==
  /\ item.stage \in Thresholds /\ item.err = NoError
  /\ ~stamp /\ status = "active" /\ quiet

MarkStuck ==
  /\ Stalled /\ ~stuck /\ stuck' = TRUE
  /\ UNCHANGED <<item, stamp, quiet, requestVars, radarrVars, flowVars, pollVars, counts>>

(* The controller: sweep ---------------------------------------------------*)

\* StuckItemsForRetry.  A key that is taken makes the rest of the sweep do
\* nothing; only this goroutine takes or frees keys.
SweepLists ==
  /\ pc = "idle" /\ stuck /\ status = "active"
  /\ \A t \in tasks : t.key # item.cycle
  /\ pc' = "enqueue" /\ listed' = item.cycle
  /\ UNCHANGED <<rowVars, requestVars, radarrVars, tasks, cur, pollVars, counts>>

\* EnqueueFlowTask, under a key of the item and the cycle as listed.
SweepEnqueues ==
  /\ pc = "enqueue" /\ pc' = "clear"
  /\ tasks' = tasks \union {[key |-> listed, attempts |-> 0]}
  /\ UNCHANGED <<rowVars, requestVars, radarrVars, cur, listed, pollVars, counts>>

\* ClearStuckItem.
SweepClears ==
  /\ pc = "clear" /\ pc' = "idle"
  /\ stuck' = FALSE /\ listed' = 0
  /\ UNCHANGED <<item, stamp, quiet, requestVars, radarrVars, tasks, cur, pollVars, counts>>

(* The controller: drain ---------------------------------------------------*)

Claim(t) ==
  /\ pc = "idle" /\ t \in tasks
  /\ pc' = "retry" /\ cur' = t
  /\ UNCHANGED <<rowVars, requestVars, radarrVars, tasks, listed, pollVars, counts>>

\* Retry: the new attempt begins, whatever became of the old one.
RetryBumps ==
  /\ pc = "retry" /\ pc' = "search"
  /\ NewAttempt
  /\ UNCHANGED <<stamp, requestVars, radarrVars, tasks, cur, listed, pollVars, counts>>

\* Back in drain: the row of the task at hand is finished or put off.
Return(rows) ==
  /\ tasks' = (tasks \ {cur}) \union rows
  /\ pc' = "idle" /\ cur' = NoTask
  /\ UNCHANGED <<rowVars, requestVars, radarrVars, listed, pollVars, stalls, manual>>

\* The movie was searched for.
Finish == pc = "search" /\ Return({}) /\ UNCHANGED faults

Fault == Upset /\ faults' = faults + 1

PutOff == cur.attempts + 1 < MaxAttempts
\* The search failed, after the attempt began: another run begins another.
Reschedule ==
  /\ pc = "search" /\ Fault
  /\ Return(IF PutOff THEN {[cur EXCEPT !.attempts = @ + 1]} ELSE {})

(* The release poller ------------------------------------------------------*)

\* Mutant: a movie that is marked is not looked at again.
MarkedOnce == Early /\ status = "active" /\ ~stamp
\* MoviesForReleaseCheck.
ForReleaseCheck == Early /\ status = "active"

ReleaseLists ==
  /\ release = "idle" /\ ForReleaseCheck
  /\ release' = "listed"
  /\ UNCHANGED <<rowVars, requestVars, radarrVars, flowVars, seen, found, counts>>

\* LookupMovieByTmdb and releaseWait: only this poller writes the stamp, so
\* what it read when it listed still holds.
ReleaseLooks ==
  /\ release = "listed"
  /\ release' = CASE ~out /\ ~onDisk /\ ~stamp -> "set"
                  [] (out \/ onDisk) /\ stamp  -> "clear"
                  [] OTHER                     -> "idle"
  /\ UNCHANGED <<rowVars, requestVars, radarrVars, flowVars, seen, found, counts>>

\* Mutant: the stamp leaves the flag alone.
StampOnly == stamp' = TRUE /\ UNCHANGED stuck
\* SetAwaitingRelease: one UPDATE, of both columns.
SetAwaitingRelease == stamp' = TRUE /\ stuck' = FALSE

ReleaseSets ==
  /\ release = "set" /\ release' = "idle"
  /\ SetAwaitingRelease
  /\ UNCHANGED <<item, quiet, requestVars, radarrVars, flowVars, seen, found, counts>>
ReleaseClears ==
  /\ release = "clear" /\ release' = "idle"
  /\ stamp' = FALSE
  /\ UNCHANGED <<item, stuck, quiet, requestVars, radarrVars, flowVars, seen, found, counts>>

(* The presence poller -----------------------------------------------------*)

\* Mutant: one event for an item, whatever the attempt.
KeyOfItem(c) == 1
\* The cycle in the dedupe key "presence:avail:<item>:<cycle>".
KeyOf(c) == c

\* ListUnavailableActiveItems.
PresenceLists ==
  /\ seen = 0 /\ status = "active" /\ ~Watchable
  /\ seen' = item.cycle
  /\ UNCHANGED <<rowVars, requestVars, radarrVars, flowVars, release, found, counts>>

\* MovieByID has a file: InsertEvent, unless the key is on record.
PresenceEmits ==
  /\ seen # 0 /\ seen' = 0
  /\ found' = IF onDisk /\ found[KeyOf(seen)] = "no"
              THEN [found EXCEPT ![KeyOf(seen)] = "new"] ELSE found
  /\ UNCHANGED <<rowVars, requestVars, radarrVars, flowVars, release, counts>>

\* The projector takes the event up: it names the item and not the attempt.
ApplyPresence(c) ==
  /\ found[c] = "new" /\ found' = [found EXCEPT ![c] = "applied"]
  /\ Advance("available") /\ touched' = TRUE
  /\ UNCHANGED <<stamp, status, cancel, radarrVars, flowVars, release, seen, counts>>

(* Radarr, and the process -------------------------------------------------*)

Released ==
  /\ ~out /\ out' = TRUE
  /\ UNCHANGED <<rowVars, requestVars, onDisk, flowVars, pollVars, counts>>
FileArrives ==
  /\ ~onDisk /\ onDisk' = TRUE
  /\ UNCHANGED <<rowVars, requestVars, out, flowVars, pollVars, counts>>

\* The tables stay, what the goroutines were about to do is gone.
Crash ==
  /\ Fault
  /\ pc' = "idle" /\ cur' = NoTask /\ listed' = 0
  /\ release' = "idle" /\ seen' = 0 /\ touched' = FALSE
  /\ cancel' = IF cancel = "half" THEN "cut" ELSE cancel
  /\ UNCHANGED <<rowVars, status, radarrVars, tasks, found, stalls, manual>>

(***************************************************************************)

OthersNext     == \/ Failure \/ Progress \/ Again \/ TimePasses \/ Released \/ FileArrives
                  \/ SetsThenClears \/ \E s \in ReportStages : Report(s)
PresenceEvents == \E c \in 1..MaxCycle : ApplyPresence(c)
ControllerNext == \/ SweepLists \/ SweepEnqueues \/ SweepClears
                  \/ \E t \in tasks : Claim(t)
                  \/ RetryBumps \/ Finish \/ Reschedule
ReleaseNext    == ReleaseLists \/ ReleaseLooks \/ ReleaseSets \/ ReleaseClears
PresenceNext   == PresenceLists \/ PresenceEmits

Next == \/ OthersNext \/ Flush \/ PresenceEvents \/ MarkStuck \/ ControllerNext
        \/ ReleaseNext \/ PresenceNext \/ Crash

Spec == Init /\ [][Next]_vars

\* The watching goroutines keep running, and the projector takes every event up in
\* the end; the other services and the user need not do anything.
FairSpec ==
  /\ Spec
  /\ WF_vars(PresenceEvents) /\ WF_vars(MarkStuck)
  /\ WF_vars(ControllerNext) /\ WF_vars(ReleaseNext) /\ WF_vars(PresenceNext)

(* Properties --------------------------------------------------------------*)

TypeOK ==
  /\ item \in [cycle : 1..MaxCycle, stage : StageKeys, err : {NoError, AnError}]
  /\ stuck \in BOOLEAN /\ stamp \in BOOLEAN /\ quiet \in BOOLEAN
  /\ status \in {"active", "completed", "canceled"} /\ touched \in BOOLEAN
  /\ cancel \in {"no", "half", "done", "cut"}
  /\ out \in BOOLEAN /\ onDisk \in BOOLEAN
  /\ tasks \subseteq [key : 1..MaxCycle, attempts : 0..(MaxAttempts - 1)]
  /\ pc \in {"idle", "enqueue", "clear", "retry", "search"}
  /\ cur \in tasks \union {NoTask} /\ listed \in 0..MaxCycle
  /\ release \in {"idle", "listed", "set", "clear"} /\ seen \in 0..MaxCycle
  /\ found \in [1..MaxCycle -> {"no", "new", "applied"}]
  /\ stalls \in 0..MaxStalls /\ faults \in 0..MaxUpsets /\ manual \in 0..MaxUpsets

\* The attempts an automatic retry began.
Automatic == item.cycle - 1 - manual

\* Clearing the flag on enqueue bounds the retries (controller.go:296-299):
\* the attempts nobody asked for are never more than the thresholds that ran
\* out, the searches that failed and the crashes.
RetriesAreEarned == Automatic <= stalls + faults

\* A movie that waits for its release is not shown as stuck, whatever the
\* sweeper and the poller do in between.
NotStuckWhileWaiting == stamp => ~stuck

\* A request that was canceled to the end does not keep the stuck badge up.
CanceledIsQuiet == cancel = "done" /\ status = "canceled" => ~stuck

\* No badge where there is nothing to do.
NoFalseBadge == NotStuckWhileWaiting /\ CanceledIsQuiet

\* A movie at any stage from "approved" to "imported" that makes no progress is
\* moved on, by an automatic retry if by nothing else: unless it failed, its
\* request is not active, or the stamp of a release it waited for is still set.
Halted ==
  /\ Ordinal[item.stage] \in Ordinal["approved"]..Ordinal["imported"]
  /\ quiet /\ status = "active" /\ item.err = NoError /\ ~stamp
StallIsRetried == Halted ~> ~Halted

\* A movie on disk that was not grabbed for another attempt is shown as
\* available: by the presence poller, if nobody else reports it.
OnDiskIsAvailable ==
  onDisk /\ status = "active" ~> Watchable \/ status # "active"

\* A movie that is out, or on disk, and was not grabbed yet waits no longer.
ReleaseEndsWait ==
  stamp /\ (out \/ onDisk) /\ Early /\ status = "active"
    ~> ~stamp \/ ~Early \/ status # "active"

(* What the sources say of the watchdogs and they do not do ----------------*)

\* stuck.go:8-10: a flag means "no progress since"; a large in-flight download
\* "is healthy, not stuck".  But a download that goes on after it was flagged
\* does not write the row, so the movie stays flagged and is retried.
FlagMeansNoProgress == stuck /\ item.err = NoError => quiet
=============================================================================
