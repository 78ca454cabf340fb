# Journarr in TLA+

Journarr follows every media request through a chain of services (Seerr, Sonarr
and Radarr, Arrarr/TorBox, Tdarr, Jellyfin, a notifier). It is told of the same
events twice or more, by webhooks, by pollers and by its own controller, in any
order, late, and after restarts; from that it keeps one timeline per movie or
episode and acts on it (it sends a completion notice, retries what is stuck).
This directory holds TLA+ specifications of that core, the configurations TLC
checks them with, and proofs that TLAPS checks.

Paths below are relative to `backend/internal/`.

- [1. The system](#1-the-system)
- [2. The modules](#2-the-modules)
- [3. The runs](#3-the-runs)
- [4. The proofs](#4-the-proofs)
- [5. Disagreements between code and comments](#5-disagreements-between-code-and-comments)
- [6. What is abstracted, what is left out](#6-what-is-abstracted-what-is-left-out)
- [7. The plan](#7-the-plan)

## 1. The system

One Go process over one SQLite file. `store.Open` allows a single connection, so
every statement is serialised and every transaction is alone; several
statements of one function are *not* one unit.

```
 webhooks (ingest) --\                                    /--> SSE (api.Broker) --> UI
 pollers (poll) ------+--> events --> projector --> derived tables
 controller (flow) --/   (append-only) |  ^            ^         ^
        ^                              |  | wake       | writes  | reads
        +------- OnStageApplied -------+  |            |         |
                                          +-- actions (user) ----+
```

Goroutines: the projector, the controller, one per poller, one per HTTP request,
and one per check of a health pass. They share the tables, the wake channel, the
broker and the alerter's map.

### Components

| component | state it keeps | operations | what makes it correct |
|---|---|---|---|
| **stage catalogue** (`store/migrations/0001_init.sql`) | table `stages`: eleven keys and ordinals | none at run time | the order is total and never changes |
| **media items, transitions** (`store/media.go`, `store/transitions.go`) | per item: attempt (`current_cycle`), stage shown, `last_error`, `stuck_since`, `awaiting_release_at`; `stage_transitions` unique by item, cycle, stage | `ApplyStage`, `BumpItemCycle`, `SetItemError`, `Ensure...` | the incremental pointer is the furthest stage of the current attempt, whatever the order of reports, and catches up after a crash |
| **downloads, correlation** (`store/downloads.go`, `store/correlate.go`) | rows by client download id with a state; `download_items` links a row and an item to an attempt | `UpsertDownload`, `LinkDownloadItem`, `SetDownloadState`, `CycleForItemDownload`, `DownloadClientIDForItemCycle`, `UnimportedItemCount` | one row in flight per download; links tell a replay from a re-grab; a row is closed when all it holds is in; terminal stays terminal |
| **requests** (`store/requests.go`) | status: active, completed, canceled | `UpsertRequest`, `RecomputeRequestStatus`, `SetRequestStatus` | a completion is never missed, a cancellation never undone |
| **projector** (`pipeline/`) | in memory: `touched` requests, the fan-out queue `retries` | `drain` over unprocessed events, one `apply...` per kind, `flushTouched`, `retryFanouts` | implements one consistent timeline per item; stale reports stay in their own attempt |
| **event log** (`store/events.go`) | append-only rows with a dedupe key, a processed mark and an error | `InsertEvent`, `FetchUnprocessed`, `MarkProcessed` | an event is applied at least once, in order; replays are harmless |
| **user actions** (`actions/actions.go`) | the audit log | `Retry`, `Cancel`, `ResendNotify`, scan, search | a retried pack moves as a whole; a canceled download is not revived |
| **controller, flow tasks** (`flow/`, `store/flow.go`) | `flow_tasks` with a dedupe key, attempts and a status; settings cache | `OnStageApplied`, `drain`, `execNotify`, `reviveDeadNotifies`, `sweep` | nothing is recorded that was not sent, nothing on record is sent again, a queued notice arrives |
| **removal, tombstones** (`actions/remove.go`, `store/removal.go`) | `removals`, `removed_media` | plan, the six-step cascade, `PurgeRequests`, tombstone checks | a failed cascade can be resumed and forgets nothing too early; what is removed stays away; others lose nothing |
| **history poller** (`poll/arrhistory.go`, `clients/arrmedia.go`) | one cursor per arr | `pass` | the cursor never passes a record that is not in the event log |
| **release and presence pollers** (`poll/release.go`, `poll/presence.go`) | `awaiting_release_at`; dedupe keys by item and attempt | `pass` | a movie that is not out is not called stuck; one on disk is shown as available |
| **other pollers** (`poll/`) | cursors | queue, Jellyfin, Seerr, tv waiting | they report only what is so, under keys that make repeats harmless |
| **stuck sweeper** (`cmd/journarr/main.go`, `store/stuck.go`, `flow/controller.go` `sweep`) | `stuck_since` | flag, clear, enqueue a retry | no automatic retry without a cause, and one for whatever halts |
| **webhook ingest** (`ingest/`) | none | parse, dedupe, insert | one operation per payload |
| **health poller** (`poll/health.go`, `store/health.go`) | `service_health` | `pass`, one goroutine per service | what is shown and alerted on was saved first |
| **alerter** (`alert/`) | per service: start of the incident, the status alerted | `Observe` | one alert per incident, again only if it gets worse, recovery only after an alert |
| **SSE broker** (`api/sse.go`) | subscribers with a queue of 32 | `Publish`, subscribe, unsubscribe, `Shutdown` | publishers never block; a slow dashboard catches up; shutdown releases every handler |
| **HTTP API, auth** (`api/`, `auth/`) | sessions | handlers over the rest | renders and forwards |
| **clients** (`clients/`) | none | network calls | what a call may answer is a choice of the model that makes it |
| **storage, updates, registry, config** | caches | read-only views | - |
| **wiring** (`cmd/journarr`) | none | starts and stops the goroutines | shutdown in an order that waits for nobody for good |
| **frontend** (`live.svelte.ts`) | what it shows | the stream, a fetch on every connection | "a lost patch heals itself" |

### What is hard about it

- **Repeats and reordering.** A grab comes by webhook and again by the history
  poller, minutes later, when the item may be in another attempt. Job states of
  Arrarr come late and twice. A failure may be that of a superseded download.
- **Attempts.** A re-grab or a retry begins a new attempt; links between rows
  and attempts are the only thing that tells to which a report belongs. A
  season pack puts several items into one row, in different attempts at times.
- **Derived state in memory.** The status of a request is a rollup computed at
  the end of a drain for the requests touched in it.
- **Several statements, several goroutines.** The controller reads the items,
  sends for up to seconds, and writes; the projector moves items meanwhile. The
  dedupe key of a task is held until it finishes.
- **Stale reads.** Pollers, the sweep and a removal list rows, ask a service, and
  write seconds or minutes later, when the rows may be of another attempt, of
  another state, or of another title.
- **Bounded queues.** The broker drops frames of a slow dashboard; the history
  window drops records.
- **Crashes.** The process may die between any two statements; the tables, the
  outside world and nothing else survive.

`PROJECT.json` lists every such place with its line under `hazards`, with the
properties that cover it, or why none does yet.

## 2. The modules

```
Stages ----+--> Timeline  (abstract: what is promised of an item)
           +--> MediaItem --+--> Pipeline ---> MCMovie, MCPack
                |           |       |  implements Timeline (KeepsPromise)
                |           |       +--> PipelineProofs
                |           +--> NotifyFlow -> MCNotify, NotifyProofs
                |           +--> Drain ---> DrainProofs
                |           |       implements EventLog (KeepsLog)
                |           +--> Stuck ---> StuckProofs
                +--> MediaItemProofs (used by PipelineProofs, DrainProofs)
EventLog  (abstract: what is promised of the event log)
HistoryPoller --> HistoryProofs
Removal --------> RemovalProofs
Health ---------> HealthProofs
```

`Pipeline` has whole handlers for steps and several items, rows and requests;
`Drain` has the same code statement by statement, with crashes, for one movie.
`NotifyFlow`, `Stuck`, `Removal` and `HistoryPoller` each compose one goroutine
(or several) that acts on the tables with the projector that writes them.

**`Stages`**: the catalogue, and `Furthest`, the stage an attempt *should* be
shown at. The code never computes it; it is the reference the pointer is
compared with.

**`MediaItem`**: an item as a record and the writes handlers make to it.
`hist` is the table `stage_transitions` as a set of pairs `<<cycle, stage>>` (its
UNIQUE constraint makes the table a set). `ApplyStage` is the INSERT OR IGNORE and
the conditional UPDATE of `store/transitions.go`; `BumpItemCycle`, `SetItemError`
are those of `store/media.go`.

**`Pipeline`**: the projector's handlers and the user's Retry and Cancel over the
derived tables. One action per handler:

| action | code |
|---|---|
| `SeerrPending`, `SeerrApproved`, `SeerrDeclined`, `SeerrAvailable`, `SeerrFailed` | `applySeerr`, one per notification type |
| `Grab`, with `IsRegrab`, `GrabCycle`, `Upserted` | `applyGrab` |
| `Import`, with `ImportedState` | `applyImport` |
| `FailureOfRow`, `FailureByName`, with `Marks` | `applyFailure`, `markItem` |
| `JobEnded`, `JobAdvanced`, with `Advanced` | `applyJobTransition` |
| `ApplyTranscode`, `ApplyAvailable`, `ApplyNotified` | the handlers of those names |
| `Flush`, `RetryFanout`, `GiveUpFanout` | `flushTouched`, `retryFanouts` |
| `Retry`, `Cancel` | the actions of those names |

`state`, `key` and `link` are `downloads` and `download_items` (`link[d][i]` is
the attempt of item `i` that row `d` serves, 0 when it holds no such item); the
correlation queries are the operators `Claim`, `Owner`, `NewestRow`,
`LinkedItems`, `Unimported`. `touched` and `fanq` are the projector's memory.
Events are not queued: *any* report may be applied at *any* time, any number of
times. That covers every order in which webhooks, pollers and a batch that is
retried can deliver them, lost reports included.

**`Timeline`**: the abstract specification. It knows no handlers, rows or links,
only what the timeline promises: attempts are numbered and never go back,
history only grows and only in attempts that have begun, a download belongs to
one attempt for good and an attempt to one download, and the stage shown is the
furthest. `Pipeline` implements it under the mapping `Promise` (`attempt` is the
cycle, `seen` the history, `shown` the pointer, `claim` what
`CycleForItemDownload` answers).

**`NotifyFlow`**: the completion notice of one request, statement by statement:
the projector's `apply` in two steps (commit, then `OnStageApplied`),
`applyNotified` item by item, and the controller's `drain` and `execNotify` as
`Claim`, `List`, `Select`, `Send` (or a failure of it), `Record`, `Recheck`,
`Requeue`, `Finish`/`Fail`, and `reviveDeadNotifies` as `Revive`, `Reenqueue`,
`MarkRevived`. Each store call may fail, with what the code makes of it:
`RequestUnread` (an error of `GetRequest` is taken for a request that is gone, and
the task is done), `ItemsUnread` (the task fails, and is tried again),
`OnStageAppliedFails`, the failing halves of `Recheck` and `Requeue` (ignored),
`ReenqueueFails` (left for the next revival). `ResendNotify`, the beginning of
another attempt and a crash may come between any two of them. `pc` is the controller's place, `pending`, `toSend`, `todo`, `cur`
its locals, which a crash loses; `item`, `events`, `task` (tables) and
`delivered` (what the notifier accepted, by idempotency key, that is by set of
items) it does not.

**`HistoryPoller`**: one arr's history poller: `Begin` reads the cursor, `FetchPage`
and `LastPage` are the loop of `HistorySince` (`Complete` its second result),
`Insert`/`InsertFails` the loop of `pass` over the records, oldest first, `Save` the
cursor. The poller compares ids, but the arr sorts by date, and records of one
date come in any order, for each request anew: `date` gives each record its own
date or that of the record before it, and a page is one of `Pages`, the slice of
the history it stands for, with any choice of the records whose date the slice
has in part (`Split`). So a record that is known may come on a page before a newer
one of the same date on the next, as the comment of `HistorySince` says of one page.
The arr adds records at any moment, so pages shift while they are
fetched; every call may fail; a crash loses the locals. Two history variables:
`excused` is the records a pass leaves out *knowingly*, in a first run (which only
moves the cursor) or with the "window truncated" error; `torn` is those it did not
find although its pages had part of their date.

**`Drain`**: one movie through `drain`: `Fetch`, then per event `Take` (reads the
row), `WriteRow`, `ReadItem` (reads the cycle), `InsertTransition` and
`AdvancePointer` (the two statements of `ApplyStage`), `PublishStage`,
`MarkProcessed` or `MarkFails`; `EndBatch` fetches the next batch when the last
was full (`FetchFails`: and cannot); at the end `ReadStatus`, `CountItems`,
`WriteStatus` (`RecomputeRequestStatus`), or `RollupFails`: an error in one of them is
logged, and the touch is dropped with the set. `pc` is the projector's place, `batch`
(the ids still to handle), `full`, `d`, `c`, `fresh`, `touched`, `seen`, `next` its
locals. `Retry` and `Cancel` run on
their own goroutines in two or three statements each (`rt`, `cn`), and `Crash`
comes anywhere. `told` is which transitions the `OnStage` hook was called for;
`missed` is a history variable: a crash or a failed rollup lost a touch and no
rollup has been made since.

**`EventLog`**: the abstract specification of the log and whoever works it off. It
knows no handlers, batches or crashes: the log grows, its events are done with
one after the other, each when what it says is on record and not before, and
nothing gets on record but by the oldest open event. `Drain` implements it
(`done` is `marked`, `attempt` the cycle, `record` the history), whatever fails
and whatever the user does between its statements.

**`Removal`**: "remove everywhere" of one movie, per removal `Click`, `Plan`,
`StopDownload`..., `DeleteMovie`, `DeleteFromSeerr`, `Purge`, with `PlanFails`,
`StepFails`, `DeleteTimesOut` (obeyed and not answered) and a crash; next to it the
projector's handler in its four statements, Seerr and Radarr, who go on adding,
grabbing and importing. `sent` holds every message ever sent; any may be
(re)delivered at any time, because a purge deletes the events whose keys would
tell a replay. `arr` is the id the movie has in Radarr, which gives a new one
each time. Request ids are reused as SQLite does (the highest in use plus one), so
what a user clicks is the *id* on a page: `shown` holds the ids some page shows, or
showed, the movie under, and `RequestsForTitle` goes by the title of the row that has
the id now, which may be the other one's (`own` of the plan). `Lookup` may find
nothing in Seerr because the call fails, which is a warning only.
`rm` holds the plans, `buried` what `LateEventsIgnored` is about.

**`Stuck`**: what watches over a movie that makes no progress. `MarkStuck` is the
sweeper's one UPDATE; `SweepLists`, `SweepEnqueues`, `SweepClears` are the
controller's sweep, `Claim`, `RetryBumps`, `Finish`/`Reschedule` its retry task;
`ReleaseLists`, `ReleaseLooks`, `ReleaseSets`/`ReleaseClears` and `PresenceLists`,
`PresenceEmits`, `ApplyPresence` the pollers. `quiet` says that neither the row nor
the attempt's download was written for a threshold; any write to the row makes
it false, as it sets `updated_at`. Everybody else is `Report`, `Failure`,
`Progress`, `Again`, Cancel.

**`Health`**: `BeginPass` starts a goroutine per service (`running`), each of which
probes, saves, publishes and observes; the pass waits for them (`Waited`). The
alerter decides under its mutex (`ObserveUp`, `ObserveAlert`, `ObserveQuiet`) and
sends outside it. `handler`, `queue`, `done` are the broker's side of the
dashboard's connection, `fetch`, `answer`, `shown` the browser's; `Signal`,
`Shutdown`, `Restart`, `Crash` end the process. `lost` is a history variable: a
message, or the incident, was lost since the last message a person got.

**`MCMovie`**, **`MCPack`**, **`MCNotify`** give the parameters their values for
TLC; the other modules take plain values and are instantiated by their `.cfg`.
**`...Proofs`** hold the theorems.

Operators marked "Mutant" in a comment are not part of a specification: each is
a plausible bug, kept beside the definition it would replace, to show that a
property fails when the code is wrong in that way.

## 3. The runs

`movie`, `pack`, `season`, `notify` and `history` check deadlock as well: nothing
there ever has to stop. `removal`, `stuck`, `drain` and `health` do not: what
happens in them is bounded (movies, stalls, events, changes), and when the bounds
are used up and the work is done nothing is left to do.

| run | question | properties |
|---|---|---|
| `movie` (`MCMovie.cfg`) | Two releases of one requested movie, Seerr, an Arrarr job, Jellyfin, retries: one consistent timeline, and no cancellation undone? | `PointerIsTop`, `CompletionStands`, `ErrorIsCurrent`, `TerminalRowsStay`, `CanceledSticks` |
| `pack` | A season pack and a single release of its second episode, grabbed, imported and retried in part | `LinksTell`, `ImportedRowIsComplete`, `PackMovesTogether`, `KeepsPromise` |
| `season` | Episodes appear by fan-out, by retried fan-out and by grab while others finish | `CompletionReported`, `CompletionSettles` (liveness) |
| `notify` | Two episodes, refused and timed-out sends, failed inserts, resends, revivals, an upgrade and a crash or a failed query | `RecordedWasDelivered`, `QuietOnceRecorded`, `NoticeKept`, `QueuedNoticeArrives` (liveness) |
| `history` | Does the cursor pass a record that is not in the log? Shifting pages, equal dates in any order, failed calls, a crash | `NothingPassedOver`, `WindowHonoured`, `RecordArrives` (liveness) |
| `removal` | Failed, unanswered and repeated removals, from pages that may be stale, next to late messages, another request, a second entry in Radarr | `StaysAway`, `ForgetsLast`, `KeepsShared`, `RemovalFinishes` (liveness) |
| `stuck` | An approved or imported movie; sweeper, retry task, release and presence pollers, the user and a crash between their statements | `RetriesAreEarned`, `NoFalseBadge`, `StallIsRetried`, `OnDiskIsAvailable`, `ReleaseEndsWait` (the last three liveness) |
| `drain` | Three events statement by statement, Retry and Cancel beside them, a failed mark, fetch or rollup or a crash | `OwnAttempt`, `PointerCatchesUp`, `CompletionReported`, `OneHookPerCrash`, `KeepsLog`, `OnlyStaleReadsOverwrite`, `EventsProcessed` (liveness) |
| `health` | A service changes, writes and sends fail, the dashboard is slow or reconnects, the process stops or dies | `LastWordStands`, `OncePerIncident`, `OutageIsTold`, `DashboardCatchesUp`, `HandlersReleased` (the last three liveness) |
| `regrab`, `lost_notice`, `resumed_removal` | Disagreements, see section 5 | one each, violated |

A type invariant stands in every module of a component. Where it is proved
(section 4) the runs do not repeat it.

### What the properties say

- `PointerIsTop`: the pointer kept by a conditional UPDATE is always what a
  recomputation from the history would give.
- `LinksTell` (`AttemptOwnership`, `OneActiveRow`): the facts `applyGrab` relies on
  when it tells a replay from a re-grab. They take a re-grab, a retry and partial packs
  to break.
- `ErrorIsCurrent`: the error an item shows comes from a download of its
  current attempt or from one nobody ever claimed; a late failure of a
  superseded download does not smear.
- `ImportedRowIsComplete`: a pack is closed only when every episode in it was
  imported in the attempt the row belongs to.
- `TerminalRowsStay`, `CanceledSticks`, `PackMovesTogether`: what a step may never
  do, whatever arrives late.
- `CompletionReported`: between drains, a request whose items are all available
  is completed unless it was canceled. It relates the items to the touches of
  all the handlers that change them. `CompletionSettles` is its liveness form.
- `CompletionStands`: the converse. Between drains a completed request holds only
  items that are available; only a Retry makes an exception, and only until the
  first report of the new attempt, which must reopen the request.
- `KeepsPromise`: the refinement.
- `RecordedWasDelivered`: nothing is shown as notified that no message named.
- `QuietOnceRecorded`: once an item is on record, no retry, upgrade, revival,
  resend or crash puts it into another message.
- `NoticeKept`: a notice is dropped by nothing but a failed read of its request
  (section 5). An item at the notify stage that a task
  will find stays served by a task, by the one at hand or by a message, and the
  call of `OnStageApplied` serves it unless a task is being run (which is the gap
  of `lost_notice`).
- `QueuedNoticeArrives`: through exhausted retries, dead letters, revival and a
  crash, a notice that was queued before the item was listed is sent, or its
  request could not be read.
- `NothingPassedOver`: no record of interest is behind the stored cursor without an
  event; `WindowHonoured`: what is left out after the first run is older than the
  page budget; `RecordArrives`: every record of interest is logged in the end or
  left out knowingly. All three except the records in `torn`, whose date lay across
  the end of a page; whatever the order of a date that one page has whole, nothing
  of it is lost.
- `OwnAttempt`: what an event says is on record once it is marked, a job's only in
  the attempt its download was grabbed for, though a Retry may come between the
  read of the cycle and the write.
- `PointerCatchesUp`: a crash between the two statements of `ApplyStage` is made
  good by the replay. `CompletionReported` (of `Drain`): a touch is lost by a crash or
  by a rollup that fails only, not by a drain that gives up. `OneHookPerCrash`: a call
  of `OnStageApplied` is lost by a crash only, and one per crash.
- `KeepsLog`: the refinement of `EventLog`. An event that could not be marked is not
  overtaken, none is marked before what it says is on record, nothing else gets
  there. `EventsProcessed`: every event is taken up in the end.
- `OnlyStaleReadsOverwrite`: what a Cancel or a Retry has written is written over
  only by a rollup or a handler that had read before it was written. The window
  is real (section 5); this says that it is the only one.
- `StaysAway`: with its ids in the tombstones a title is written by no message,
  but by a handler that was past the check when the purge committed. `ForgetsLast`:
  Seerr and Journarr forget it only when Radarr has; otherwise nobody would know
  what to delete. `KeepsShared`: a request that stays keeps its downloads.
  `RemovalFinishes`: what a failed click did does not stand in the way of the next.
- `RetriesAreEarned`: every attempt nobody asked for has a stall, a failed search or
  a crash of its own. `StallIsRetried`: whatever halts between "approved" and
  "imported" is moved on. `NoFalseBadge`: no badge on a movie that
  waits for its release or whose request is canceled. `OnDiskIsAvailable`, `ReleaseEndsWait`: what the pollers are
  there for, whatever they had read before.
- `LastWordStands`, `OncePerIncident`: messages decided under a mutex and sent
  outside it keep their order and their number. `OutageIsTold`: a service that
  stays unhealthy is told of though it moves between degraded and down and the
  dashboard never reads. `DashboardCatchesUp`: dropped frames heal.
  `HandlersReleased`: shutdown reaches a handler that subscribes later, too.

### Bounds

- `MaxRows` (rows of `downloads`): two in `movie` and `pack`, so that two
  releases, or a row and the row of a re-grab, coexist; one where a run is about
  something else. `MaxCycle`: two attempts, the least at which "stale" means
  anything; one in `season`, where the fan-out is the question. Reports
  repeat without bound: histories are sets, so that the state space is finite.
- `ReportIds`: reports of the arrs carry a download id in `movie` and `pack` and none in
  `season`; the theorems cover both together.
- `JobStates` and `Connected` choose per run which reports of the services
  appear. Between them the runs have every handler and every disjunct fire; in
  one run together they would multiply the states without adding an
  interaction: job states differ only in rank, and each run keeps one that
  advances and/or one that ends a row.
- `NotifyFlow`: two episodes (a message and a straggler), one of which may be
  upgraded; `Slots` = 4 live tasks (a running one, a straggler's, one parked,
  one free: the key admits one keyed task, the rest are stripped of it);
  `Room` stops what would enqueue when slots are short; `MaxAttempts` = 2 for the code's 4 (first failure, last failure);
  `MaxEvents` = 1 unprocessed event, beyond which `Record` waits as the
  projector does; `MaxMishaps` = 1, a crash or a failed query or insert.
- `HistoryPoller`: two pages of two records and six records: a window of four, one
  record before it for the first run and one to be cut off; one crash. Three of them
  make events (`Relevant`), and the third and the fourth may have the date of the
  one before them (`Ties`), so that a date of two or three records may lie across
  the end of a page. (Safety, with all dates different,
  was also run with nine records, where several arrive between two pages.)
- `Drain`: three events (one to be replayed between two others), one retry, one
  fault, batches of two, so that a full batch is followed by another in the same
  drain. (Safety, with every part of the inductive invariant of section 4, was also
  run with two faults and batches of one and of two: about a million states each.)
- `Removal`: one request for the movie and one for another title, one download, two
  entries in Radarr, two request ids (so that one is used again), one fault, one
  removal at a time. The theorems hold for any number of removals together.
- `Stuck`: one stall, one upset (a failed search, a crash, or an attempt by somebody
  else), two tries of a task. The first stall is flagged and retried, the retry
  fails and is tried again, or the second attempt is the user's. More of either
  is what the theorems are for. The other services report "approved", where the sweeper
  and the release poller meet, and "imported", the last stage with a threshold; the
  stages between differ only in their order (with "grabbed" as well the run passes
  on 478,084 states, and takes almost the five minutes a run may). The presence
  poller makes the movie available.
- `Health`: one service (the services share only the queue), a queue of one frame so
  that frames are dropped (the code's 32 are more than there are services), waits
  of one and two passes, three changes, one fault.
- No symmetry is used.

### Fairness

- `Pipeline`: weak fairness of `Flush` alone. `drain` ends with `flushTouched`
  and the projector drains at least every ten seconds (`projector.go`); nothing
  is assumed of the services.
- `NotifyFlow`: weak fairness of the projector's steps and of the controller's:
  both goroutines keep running. Strong fairness of `Send`: a notifier that is
  tried again and again accepts a message again and again. Were it down for
  good, no notice could arrive. Strong fairness of `Claim` and `Revive`: `Run`
  alternates `drain` and `sweep` on every tick, so neither is passed over for
  ever; for `Revive` this includes that the health probe finds the notifier up
  again and again.
- `HistoryPoller`: weak fairness of `Begin` (the ticker), strong fairness of the
  calls that may fail: one that is tried again and again succeeds in the end.
  `Save` only happens when the cursor has moved, as in the code, so that its
  fairness is not satisfied by saves that change nothing.
- `Drain`: weak fairness of the projector's goroutine.
- `Removal`: weak fairness of a removal's steps and of `ClickAgain`: calls return (the
  clients have timeouts), and a user whose page is fresh clicks again while the
  title is there.
- `Stuck`: weak fairness of the watching goroutines (`MarkStuck`, the controller, both
  pollers) and of the projector taking presence events up. Nothing of the services
  or the user. The setting `auto_retry_stuck_after_secs` is on.
- `Health`: weak fairness of the poller's goroutines (probes and sends have
  timeouts) and of the server's, of `Shutdown` and `Restart`. A client may stop
  reading at any time; `DashboardCatchesUp` names what it needs of one instead:
  that it is connected and its queue is empty again and again when a pass begins.

## 4. The proofs

All of them hold for every set of items, requests, releases and services and
every value of the bounds, under the named assumptions of the modules
(`RequestsAssumption`, `KeysAssumption`, `SourcesAssumption`, `BoundsAssumption`;
`StagesAssumption`, `FlowAssumption`; `SizesAssumption`, `RelevantAssumption`, `LimitsAssumption`;
`IdsAssumption`; `ReportsAssumption`; `BatchAssumption`; `WaitsAssumption`, `QueueAssumption`,
`NoIncidentAssumption`), which say no more than that the parameters
have their types, that the model values differ, that a movie request has one
item, and that a batch holds at least one event.

| theorem | module | shows |
|---|---|---|
| `Inductive`, `TypeCorrect`, `PointerCorrect`, `LinksTellCorrect` | `PipelineProofs` | `[]TypeOK`, `[]PointerIsTop`, `[]LinksTell` |
| `TerminalRowsCorrect`, `Refinement` | `PipelineProofs` | `TerminalRowsStay`, `Spec => KeepsPromise` |
| `CompletionCorrect`, `CompletionStandsCorrect`, `ImportedRowCorrect`, `ErrorCorrect` | `PipelineProofs` | `[]CompletionReported`, `[]CompletionStands`, `[]ImportedRowIsComplete`, `[]ErrorIsCurrent` |
| `CanceledCorrect`, `PackCorrect` | `PipelineProofs` | `CanceledSticks`, `PackMovesTogether` |
| `TypeCorrect`, `RecordCorrect`, `QuietCorrect`, `KeptCorrect` | `NotifyProofs` | `[]TypeOK`, `[]RecordedWasDelivered`, `QuietOnceRecorded`, `NoticeKept` |
| `TypeCorrect`, `CursorCorrect`, `WindowCorrect` | `HistoryProofs` | `[]TypeOK`, `[]NothingPassedOver`, `WindowHonoured` |
| `TypeCorrect`, `ForgottenLast`, `AwayStays`, `SharedKept` | `RemovalProofs` | `[]TypeOK`, `ForgetsLast`, `StaysAway`, `KeepsShared` |
| `TypeCorrect`, `RetriesBounded`, `NoFalseBadgeCorrect` | `StuckProofs` | `[]TypeOK`, `[]RetriesAreEarned`, `[]NoFalseBadge` |
| `TypeCorrect`, `OwnAttemptCorrect`, `PointerCorrect`, `CompletionCorrect`, `HooksCorrect` | `DrainProofs` | `[]TypeOK`, `[]OwnAttempt`, `[]PointerCatchesUp`, `[]CompletionReported`, `[]OneHookPerCrash` |
| `Refinement`, `LogCorrect`, `OverwritesCorrect` | `DrainProofs` | `Spec => KeepsLog`, `[]Log!Faithful`, `OnlyStaleReadsOverwrite` |
| `TypeCorrect`, `LastWord`, `ToldOnce` | `HealthProofs` | `[]TypeOK`, `[]LastWordStands`, `OncePerIncident` |

**Pipeline.** The inductive invariant is

    IInv == TypeOK /\ AllTop /\ LinkFacts /\ AttemptOwnership /\ OneActiveRow

`AllTop` is `PointerIsTop` in a form without CHOOSE (`TopIsFurthest` is the
bridge): the pointer has been entered, or is "requested", and nothing entered in
this attempt is ahead of it. It needs the second half of `PointerIsTop`, that no
attempt is recorded before it begins, because a report into a *future* attempt
would make it current. `AttemptOwnership` alone is not inductive: `applyGrab`
decides by `Owner`, the newest row linked to the attempt, and a row that exists
but has no key, or a link to an attempt that has not begun, would let it claim
an owned attempt. `LinkFacts` excludes those: links go from existing rows to
attempts that have begun and have "grabbed" in their history. That last part is
what makes `IsRegrab` see every owned attempt.

The proof separates what disturbs links from what does not. All actions but
`Grab` are shown "quiet" (`...Quiet` lemmas: items move by `Moves`, which is a
stage, a bump or an error, and the row keys and links stay), and one lemma,
`QuietKeepsInv`, carries the invariant over a quiet step; `GrabKeepsInv` is the case
that matters, on `GrabCycleOwned`: the attempt a grab lands in is owned by its
download or by nobody.

The refinement uses the same split: a quiet step leaves every claim as it is and
reports or begins; a grab makes at most one claim per item, in the attempt it
leaves the item in (`GrabClaims`, `GrabItemStep`).

The last part of `PipelineProofs` proves what this comes to, each from `IInv`. A row is closed
only by an import that finds nothing of it missing (`ClosedComplete`), after which
its links stay and histories only grow, so it stays complete. For the errors, every
step but the grab keeps the claims, and each item's error stays with its attempt,
is cleared, or is one of the current attempt (`ErrorStep`); a grab claims for its
download the very attempt it leaves the item in, and for no other (`GrabErrors`).
`CompletionReported` needs `UnknownBlank`: an item without a row has entered nothing.
With it a report that adds an item to a request is news, and news queues the
request; the converse, that a report which is no news changes nothing at all, is
`ApplyStageAgain`, which is where the pointer being the furthest stage is needed
once more. The steps are then of two kinds: those about one request
(`OneRequest`) and those that move items of several but create none
(`ManyRequests`). `CompletionStands` goes with it, in `TInv`: what a rollup leaves
completed is available (`RollupLasts`), a Retry makes of an item one that has
begun with nothing entered (`BumpBegins`), and whatever enters a stage in the new
attempt queues every request that holds the item (`ToldByAll`).

**NotifyFlow.** `RecordedWasDelivered` needs that every event in the log, and
every item `applyNotified` still has to advance, was announced (`EventsTold`),
and that what `execNotify` is about to record was (`PendingTold`: at "record",
an item of `pending` is announced or on record; it is in `toSend` until sent).
`IInv == EventsTold /\ PendingTold /\ RecordTold`. `QuietOnceRecorded` follows
from the steps alone. `TypeOK` needs `Places`: where the controller is tells what
its locals hold, so that it never writes an empty event or finishes no task.
`NoticeKept` needs `KInv == TasksTrue /\ DoneTold`. `TasksTrue` says what the controller
may rely on: the task that holds the dedupe key is pending, those still to be run
are as they were listed, the one at hand is none of them, and a dead task that was
just revived has left another one with the key, so that it may go. `DoneTold`:
what is about to be finished was announced, but at "gone", where the request could
not be read.

**HistoryPoller.** Pages shift, so "the pages fetched so far" are not the newest
records. What is inductive is `NoGap`: below every record collected there is no gap
down to the start of the next page, wherever that is by now, but for records whose
date was split (`split`); a page that is
fetched closes up to it (`CollectedHasNoGap`): dates follow ids (`DatesFollow`), so a
record missing from a page whose slice is reached has its date on two pages. At the
last page this says that whatever is missing is behind the window, which is
`WindowHonoured`, behind the cursor, or in `torn`. `Ordered` and `Behind` carry it through the inserts: nothing is missing
between the cursor and the last record, and all behind it is dealt with.

**Removal.** `IInv == TypeOK /\ HandlerTrue /\ \A r : PlanTrue(r)`. `PlanTrue` says that
what a plan relies on stays true while the removal goes on: the movie it found
is gone once its step is over (Radarr never gives an id twice, so "gone" stays).
Of the requests it names nothing of the kind holds, because ids come back.
`HandlerTrue`: until a purge a handler writes for a message no tombstone names; a
purge marks the one under way (`stale`).

**Stuck.** The bound on retries is an account. `Claims` counts the attempts that may
still be begun without another cause: one per queued task, one for a task about
to be queued, one for a stall that no task answers yet, less the one a task in
"search" has begun already; `Paid == Automatic + Claims <= stalls + faults`. A stall
adds to both sides; enqueueing moves a claim from the stall to the task, and the
key of item and cycle keeps it from doing so twice (`Covered`); beginning an
attempt moves it to `Automatic`; a failed search and a crash make the task's claim
good again at the price of a fault. `TasksTrue` ties tasks to attempts that were.

**Drain.** The invariant says what each half-done piece of work owes:

    IInv == TypeOK /\ Attempts /\ BatchInv /\ HandInv /\ OwnAttempt /\ PointerInv
            /\ FlushInv /\ BehindInv /\ ToldInv /\ HookInv

`BatchInv`: a batch leaves no gap, so that the event at hand is the oldest open one;
this is what makes a failed mark harmless. `HandInv`: what the handler holds, and
what it has written by now. `PointerInv`: only a stage that some open event will
report again is ahead of the pointer, so that there is none once the log is
drained. For the completion the difficulty is the replay, which finds its
transition on record and touches nothing. `BehindInv` shows that this can only be
so after a crash (a failed rollup sets `missed` as well, at the end of a drain): the pointer is behind "available" either right after a fresh
INSERT, or with the crash on record (`missed`) and the event it interrupted still
the oldest open one, before which nothing is touched and nothing rolled up.
`FlushInv` and `ToldInv` carry the touch through the three statements of the rollup,
where a Cancel may come between. `HookInv` counts: a transition becomes one nobody
was told of only in a crash between INSERT and publish, and only the one at hand.

For the refinement `InsertTransition` is `Apply` or a stutter, `MarkProcessed` is
`Done`, `RetryBumps` is `Begin`, and all else but `InsertEvent` is a stutter.
`LogCorrect` is then proved of the abstract specification alone (`LogFaithful`) and
inherited. `OverwritesCorrect` follows from the steps and the types alone.

**Health.** `OneEach`: no two goroutines are at one service, because a pass waits for
the one before; without it messages could overtake each other. `AllNews`: what is
on its way is what the alerter decided last, and news to the person, unless
something was lost. With `LastWordStands` this is inductive; `OncePerIncident`
follows from `AllNews`, because a message becomes one of `running` with nothing of
that service on its way.

Lemmas of the item operators (`ApplyStageKeepsTop`, `BumpKeepsTop`,
`SetErrorKeepsTop`, `ApplyStageAgain`) are stated once, in `MediaItemProofs`.

**Only model-checked**: the liveness properties (`CompletionSettles`,
`QueuedNoticeArrives`, `RecordArrives`, `RemovalFinishes`, `StallIsRetried`,
`OnDiskIsAvailable`, `ReleaseEndsWait`, `EventsProcessed`, `OutageIsTold`,
`DashboardCatchesUp`, `HandlersReleased`), which under fairness stay with TLC. All the
other properties of passing runs are theorems.

## 5. Disagreements between code and comments

Three runs state what a comment says and have TLC find the behaviour that
contradicts it. The findings in `PROJECT.json` quote the lines.

1. **`regrab`** (`pipeline/grabs.go:181`). The same release grabbed again after a
   retry or failure is taken for a replay: it opens a new row but links it to the
   *old* attempt, so the current one stays at "requested".
2. **`lost_notice`** (`flow/controller.go:268`). An episode that arrives after the
   straggler check and before `FinishFlowTask` is announced by nobody.
3. **`resumed_removal`** (`actions/remove.go:159`). A removal that stopped after the
   movie had left Radarr, clicked again, finds no Radarr id to put into the
   tombstones, and a late grab brings the movie back.

Others are stated in the modules, each by a definition under "What the sources
say", and were found violated by TLC, but have no run of their own here:

- `CompletedMeansAvailable` (`Pipeline`; `actions/actions.go:211`): Retry of an item of a
  completed request leaves the request completed. `CompletionStands` is proved: it
  happens in no other way, and the first report of the new attempt ends it.
- `AnnouncedOnce` (`NotifyFlow`; `flow/controller.go:223`): after a timeout the retry
  lists the items anew; with one more episode its idempotency key differs and the
  first ones are announced twice.
- `DroppedOnlyUnneeded` (`NotifyFlow`; `flow/controller.go:185`): a request that cannot
  be read is taken for one that is gone, "nothing to do", and the task is finished:
  its notice is dropped, while an error of `ListItemsForRequest` two lines on is
  retried. `NoticeKept` is proved: no other failure drops one.
- `CursorPassesNothing` (`HistoryPoller`; `clients/arrmedia.go:277`): the comment of
  `HistorySince` (246-248) has a newer record after a known one *on the same page*,
  and the code allows for that; with their date across two pages the known one
  ends the loop as complete, and the cursor passes the other, against
  `poll/arrhistory.go:68-71`. `NothingPassedOver` is proved: it happens in no other way.
- `TitleOfPage` (`Removal`; `actions/remove.go:73`): "the title of a request" is that of
  the row that has the id now. Without AUTOINCREMENT a purged id comes back, and a
  page that is not fresh then removes another title.
- `CanceledSticks` and `TerminalRowsStay` of `Drain` (`store/requests.go:125`,
  `pipeline/arrarr.go:70`): read, decision and write are separate statements, and a
  Cancel or Retry in between is written over. `OnlyStaleReadsOverwrite` is proved: it
  happens in no other way.
- `FlagMeansNoProgress` (`Stuck`; `store/stuck.go:8`): a download that goes on after it
  was flagged writes its own row and not the item's, so the movie stays flagged
  and is retried.

What the models showed that no doc speaks of: an automatic retry that finds
nothing leaves the item at "requested", which has no threshold, so it is not
flagged again; a stamp of the release poller written after a grab is not cleared
again, and such a movie is not watched until it is early again; the sweep clears
by a row it listed earlier; a presence event is applied to the attempt of the
moment, though its key names the one listed; a service degraded for long is
alerted on as soon as it is down; a failed alert is not repeated, and a restart
forgets incidents, so that one that goes on is alerted on again; a refresh that
was slow may overwrite a newer frame until the next pass.

## 6. What is abstracted, what is left out

In `Pipeline`:

- A handler, a Retry, a Cancel is one step. The interleavings of the projector
  with the two HTTP goroutines at statement level, and a crash inside a drain,
  are what `Drain` is about, for one movie.
- A title is known by one request row. The orphan row a grab may make before
  Seerr reports, and its adoption, are not modelled.
- Columns no decision reads (paths, byte counts, Jellyfin ids, titles, times) are
  left out. Errors are identified by the download that caused them.
- An arr report names items of one request that its download can hold
  (`Named`, `Carries`); the arrs do report so.
- A tv fan-out answers any set of episodes, or fails and is queued.
- Tombstones are not checked; `Removal` is about them.
- Errors of the database are left out: a handler that fails half-way, and a rollup
  that fails and is dropped with the touch (`flushTouched`). `Drain` has the failed
  rollup, and the crash at any statement.

In `NotifyFlow`:

- Time: a due task may wait for any time and a step may take any time, which
  covers the 60 s, 2 min and 30 min delays.
- Finished rows of `flow_tasks` are freed and reused; they are never read again.
- `GetMediaItem` and `ApplyStage` of one `apply` are one step.
- `NextAttempt` stands for a re-grab or a Retry, of which the notice sees only
  that the item begins again.
- Requests have disjoint tasks, keys and messages, so one is modelled.
- An error of `FinishFlowTask` or `RescheduleFlowTask` is ignored by the code and leaves
  the task as a crash before that statement does.
- `ResendNotify` is that of the action: it queues the notice whatever stage the
  items are at.

In `HistoryPoller`: records are named by the rank of their id, and a later one has the
same date or a later one; records of one date come in any order, for each request
anew; nothing is deleted from the history while the poller runs; a first run is one with
cursor 0, as in the code, and repeats until a cursor was saved.

In `Drain`: one movie whose first attempt has the one download; grabs and imports
are `Pipeline`'s. Errors of the database other than a failed mark, a failed fetch of the next
batch and a failed rollup are left out.

In `Removal`: a movie; the tv branch has the same steps with a series. The title has a
tmdb id and Radarr is configured, so that an error of the lookup fails the plan;
without a tmdb id the plan asks by the ids its items carry and ignores errors
(`remove.go:156`), and without Radarr it deletes Journarr's and Seerr's side only
(143-144). The other title has nothing in Radarr. The lookups
of the plan are one step. Step 5 (a Jellyfin scan) changes nothing here. An item
is part of its request's row. The 30-day reaper of tombstones is left out: no
message is that late.

In `Stuck`: thresholds and intervals are any time; the movie's Radarr id is known;
of the transitions only the stage shown is kept, because nothing here reads the
others. The series branch of the presence poller, which asks per series, is left
out.

In `Health`: time is counted in passes; latency, version, details, the heartbeat
and the other events of the stream are left out; the tile of Journarr itself is
never alerted on. The context of a pass ends with the signal to stop, and a probe
that fails for that finds its service down; saving comes first and fails then, so
that it is neither shown nor alerted on.

Not modelled at all, and why: **HTTP API and auth** parse and render (their calls
are the user's actions in the models); **service clients** are I/O whose answers
are choices of the calling model; **storage, updates, registry, config** keep no
state the others read; the **other pollers** only report, and any report is
possible in `Pipeline`; **ingest** is a pure mapping.

## 7. The plan

Done: `Stages`, `MediaItem`, `Timeline`, `Pipeline`, `NotifyFlow`, `HistoryPoller`,
`Removal`, `Stuck`, `EventLog`, `Drain`, `Health`, with the proofs of section 4. Left,
in order:

1. `Drain` with two users' actions at once, and with the import of a row.
2. The series branch of `Removal` and of the presence poller.
3. `Pipeline` composed with the controller: a notice recorded after a retry lands
   in the new attempt.
4. Pure decisions as operators compared with a reference: `releaseWait`, the
   version comparison of `updates`.
