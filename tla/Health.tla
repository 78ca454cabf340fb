------------------------------- MODULE Health -------------------------------
(***************************************************************************)
(* The health of the services: one pass probes them all, on a goroutine    *)
(* each (poll/health.go), saves what it found (store/health.go), hands it  *)
(* to the SSE broker (api/sse.go) and to the alerter (alert/alert.go).  A  *)
(* dashboard (frontend live.svelte.ts) shows what the stream and a fetch   *)
(* on every (re)connection tell it; a person hears what Pushover delivers. *)
(*                                                                         *)
(* Time is counted in passes: the wait of the alerter is a number of       *)
(* passes since the first that found the service not up.  Latency, version *)
(* and detail of a probe, the heartbeat of the stream, the tile of         *)
(* Journarr itself, which is never alerted on, and the other events of the *)
(* stream are left out.                                                    *)
(***************************************************************************)
EXTENDS Integers, Sequences

CONSTANTS Services,      (* the instances that are probed                  *)
          QueueCap,      (* frames a subscriber's channel holds (code: 32) *)
          DownAfter,     (* passes a service is down before an alert,      *)
          DegradedAfter, (* ...and degraded                                *)
          MaxChanges,    (* bound on the changes of a service's health     *)
          MaxFaults,     (* bound on failed writes and sends, and deaths   *)
          NoIncident     (* a service the alerter keeps no state of        *)

ASSUME WaitsAssumption == DownAfter \in Nat /\ DegradedAfter \in Nat
ASSUME QueueAssumption == QueueCap \in Nat \ {0}
ASSUME BoundsAssumption == MaxChanges \in Nat /\ MaxFaults \in Nat
Statuses == {"up", "degraded", "down"}
Alerts == {"degraded", "down"}
ASSUME NoIncidentAssumption == NoIncident \notin [age : Nat, alerted : Alerts \union {"none"}]

severity == [st \in Statuses \union {"none"} |->
               CASE st = "degraded" -> 1 [] st = "down" -> 2 [] OTHER -> 0]

VARIABLES world,     (* how each service really is                         *)
          saved,     (* its row in service_health                          *)
          running,   (* the goroutines of the passes under way             *)
          state,     (* Alerter.state: the incident of each service        *)
          heard,     (* the last message a person got about it             *)
          lost,      (* a message about it was lost since, or its incident *)
          handler,   (* Broker.ServeHTTP for the dashboard's connection    *)
          queue,     (* its channel                                        *)
          frame,     (* the frame it writes                                *)
          done,      (* the broker's channel done is closed                *)
          fetch,     (* the dashboard's GET of the services                *)
          answer,    (* ...what it answered                                *)
          shown,     (* ...and what the dashboard shows                    *)
          stop,      (* how far the process is in stopping                 *)
          changes, faults  (* how often so far                             *)

alerter == <<state, heard, lost>>
stream  == <<handler, queue, frame, done>>
browser == <<fetch, answer, shown>>
vars == <<world, saved, running, alerter, stream, browser, stop, changes, faults>>

NoFrame == <<"none", "up">>
AllUp == [s \in Services |-> "up"]

Init ==
  /\ world = AllUp /\ saved = AllUp /\ shown = AllUp /\ answer = AllUp
  /\ running = {}
  /\ state = [s \in Services |-> NoIncident]
  /\ heard = [s \in Services |-> "none"] /\ lost = [s \in Services |-> FALSE]
  /\ handler = "none" /\ queue = <<>> /\ frame = NoFrame /\ done = FALSE /\ fetch = "no"
  /\ stop = "no" /\ changes = 0 /\ faults = 0

Fault == faults < MaxFaults /\ faults' = faults + 1

(* The services ------------------------------------------------------------*)

Changes(s) ==
  /\ changes < MaxChanges /\ changes' = changes + 1
  /\ \E st \in Statuses \ {world[s]} : world' = [world EXCEPT ![s] = st]
  /\ UNCHANGED <<saved, running, alerter, stream, browser, stop, faults>>

(* The health poller: pass -------------------------------------------------*)

\* Mutant: the pass does not wait for its goroutines.
WaitsNot == TRUE
\* wg.Wait at the end of a pass.
Waited == running = {}

LongestWait == IF DownAfter > DegradedAfter THEN DownAfter ELSE DegradedAfter

\* Ages beyond the longest wait are as good as it.
Older(i) == IF i = NoIncident \/ i.age = LongestWait THEN i ELSE [i EXCEPT !.age = @ + 1]

\* The ticker's next tick: time has passed for the incidents.
BeginPass ==
  /\ stop = "no" /\ Waited
  /\ running' = running \union
       {[svc |-> s, at |-> "probe", status |-> "up", msg |-> "none"] : s \in Services}
  /\ state' = [s \in Services |-> Older(state[s])]
  /\ UNCHANGED <<world, saved, heard, lost, stream, browser, stop, changes, faults>>

Step(r, at) == running' = (running \ {r}) \union {[r EXCEPT !.at = at]}
Return(r) == running' = running \ {r}

\* The context of a pass ends with the signal to stop: what still runs fails.
Canceled == stop # "no"

FaultOrCanceled == IF Canceled THEN UNCHANGED faults ELSE Fault

\* A probe that fails finds its service down.
Probe(r) ==
  /\ r.at = "probe"
  /\ \E st \in {IF Canceled THEN "down" ELSE world[r.svc]} :
       running' = (running \ {r}) \union {[r EXCEPT !.at = "upsert", !.status = st]}
  /\ UNCHANGED <<world, saved, alerter, stream, browser, stop, changes, faults>>

\* Mutant: a status the table had already is not published again.
PublishIfNew(r) == Step(r, IF saved[r.svc] = r.status THEN "observe" ELSE "publish")
ToPublish(r) == Step(r, "publish")

\* UpsertServiceHealth.
Upsert(r) ==
  /\ r.at = "upsert" /\ ~Canceled /\ ToPublish(r)
  /\ saved' = [saved EXCEPT ![r.svc] = r.status]
  /\ UNCHANGED <<world, alerter, stream, browser, stop, changes, faults>>

\* What could not be saved is neither published nor looked at by the alerter.
UpsertFails(r) ==
  /\ r.at = "upsert" /\ FaultOrCanceled /\ Return(r)
  /\ UNCHANGED <<world, saved, alerter, stream, browser, stop, changes>>

Subscribed == handler \in {"loop", "writing"}

\* Mutant: the publisher waits for a subscriber that is slow.
OfferBlocks(f) == IF Subscribed THEN Len(queue) < QueueCap /\ queue' = Append(queue, f)
                                ELSE queue' = queue
\* Broker.Publish: a slow subscriber drops the frame.
Offer(f) == queue' = IF Subscribed /\ Len(queue) < QueueCap THEN Append(queue, f) ELSE queue

Publish(r) ==
  /\ r.at = "publish" /\ Step(r, "observe") /\ Offer(<<r.svc, r.status>>)
  /\ UNCHANGED <<world, saved, alerter, handler, frame, done, browser, stop, changes, faults>>

(* The alerter: Observe ----------------------------------------------------*)

Wait(st) == IF st = "down" THEN DownAfter ELSE DegradedAfter

\* The incident of a service found in st, before it is alerted on.
Incident(s) == IF state[s] = NoIncident THEN [age |-> 0, alerted |-> "none"] ELSE state[s]

\* Mutant: an alert each time the service is found so.
EveryTime(s, st) == Incident(s).age >= Wait(st)
\* Long enough, and not alerted on, or only when it was better.
Due(s, st) ==
  Incident(s).age >= Wait(st) /\ severity[st] > severity[Incident(s).alerted]

Recovers(s) == state[s] # NoIncident /\ state[s].alerted # "none"

\* Under the mutex: the incident, and what there is to say.
ObserveUp(r) ==
  /\ r.at = "observe" /\ r.status = "up"
  /\ state' = [state EXCEPT ![r.svc] = NoIncident]
  /\ IF Recovers(r.svc)
       THEN running' = (running \ {r}) \union {[r EXCEPT !.at = "send", !.msg = "recovered"]}
       ELSE Return(r)
  /\ UNCHANGED <<world, saved, heard, lost, stream, browser, stop, changes, faults>>

ObserveAlert(r) ==
  /\ r.at = "observe" /\ r.status # "up" /\ Due(r.svc, r.status)
  /\ state' = [state EXCEPT ![r.svc] = [Incident(r.svc) EXCEPT !.alerted = r.status]]
  /\ running' = (running \ {r}) \union {[r EXCEPT !.at = "send", !.msg = r.status]}
  /\ UNCHANGED <<world, saved, heard, lost, stream, browser, stop, changes, faults>>

ObserveQuiet(r) ==
  /\ r.at = "observe" /\ r.status # "up" /\ ~Due(r.svc, r.status)
  /\ state' = [state EXCEPT ![r.svc] = Incident(r.svc)]
  /\ Return(r)
  /\ UNCHANGED <<world, saved, heard, lost, stream, browser, stop, changes, faults>>

\* Sender.Send, the mutex released.
Send(r) ==
  /\ r.at = "send" /\ ~Canceled /\ Return(r)
  /\ heard' = [heard EXCEPT ![r.svc] = r.msg] /\ lost' = [lost EXCEPT ![r.svc] = FALSE]
  /\ UNCHANGED <<world, saved, state, stream, browser, stop, changes, faults>>

\* It is logged; the incident stays alerted on.
SendFails(r) ==
  /\ r.at = "send" /\ FaultOrCanceled /\ Return(r)
  /\ lost' = [lost EXCEPT ![r.svc] = TRUE]
  /\ UNCHANGED <<world, saved, state, heard, stream, browser, stop, changes>>

(* The stream and the dashboard --------------------------------------------*)

\* The handler greets, and EventSource's onopen starts a refresh, instead of one
\* that is not back yet.
Connect ==
  /\ stop \in {"no", "signaled"} /\ handler = "none"
  /\ handler' = "greeted" /\ fetch' = "asked"
  /\ UNCHANGED <<world, saved, running, alerter, queue, frame, done, answer, shown, stop, changes, faults>>

Subscribe ==
  /\ handler = "greeted" /\ handler' = "loop" /\ queue' = <<>>
  /\ UNCHANGED <<world, saved, running, alerter, frame, done, browser, stop, changes, faults>>

\* handleServices lists the table...
Answer ==
  /\ fetch = "asked" /\ fetch' = "answered" /\ answer' = saved
  /\ UNCHANGED <<world, saved, running, alerter, stream, shown, stop, changes, faults>>
\* ...and the dashboard takes the list, whatever the stream told it since.
Refresh ==
  /\ fetch = "answered" /\ fetch' = "no" /\ shown' = answer /\ answer' = AllUp
  /\ UNCHANGED <<world, saved, running, alerter, stream, stop, changes, faults>>

Receive ==
  /\ handler = "loop" /\ queue # <<>>
  /\ handler' = "writing" /\ frame' = Head(queue) /\ queue' = Tail(queue)
  /\ UNCHANGED <<world, saved, running, alerter, done, browser, stop, changes, faults>>

\* The write returns once the client reads.
Written ==
  /\ handler = "writing" /\ handler' = "loop" /\ frame' = NoFrame
  /\ shown' = [shown EXCEPT ![frame[1]] = frame[2]]
  /\ UNCHANGED <<world, saved, running, alerter, queue, done, fetch, answer, stop, changes, faults>>

Unsubscribe == handler' = "none" /\ queue' = <<>> /\ frame' = NoFrame

\* The client has gone; EventSource connects again.
Disconnect ==
  /\ Subscribed /\ Unsubscribe
  /\ UNCHANGED <<world, saved, running, alerter, done, browser, stop, changes, faults>>

(* Stopping, and dying -----------------------------------------------------*)

Signal ==
  /\ stop = "no" /\ Fault /\ stop' = "signaled"
  /\ UNCHANGED <<world, saved, running, alerter, stream, browser, changes>>

\* Mutant: done gets one value, for a handler that is waiting for it.
SignalsOnce == done' = (handler = "loop")
Closes == done' = TRUE

\* broker.Shutdown, then srv.Shutdown closes the listener and waits.
Shutdown ==
  /\ stop = "signaled" /\ stop' = "draining" /\ Closes
  /\ UNCHANGED <<world, saved, running, alerter, handler, queue, frame, browser, changes, faults>>

Done ==
  /\ handler = "loop" /\ done /\ Unsubscribe
  /\ UNCHANGED <<world, saved, running, alerter, done, browser, stop, changes, faults>>

\* What the process knew is gone; a person has not been told of it.
Lose ==
  /\ running' = {}
  /\ state' = [s \in Services |-> NoIncident]
  /\ lost' = [s \in Services |->
       \/ lost[s] \/ Recovers(s)
       \/ \E r \in running : r.svc = s /\ r.at = "send"]
  /\ Unsubscribe /\ done' = FALSE /\ fetch' = "no" /\ answer' = AllUp
  /\ UNCHANGED <<world, saved, heard, shown, changes>>

\* srv.Shutdown returns when its handlers are gone, or after ten seconds: longer
\* than a handler's steps take, not than a client may take to read.
Restart ==
  /\ stop = "draining" /\ handler \in {"none", "writing"}
  /\ stop' = "no" /\ Lose /\ UNCHANGED faults

Crash == Fault /\ stop' = "no" /\ Lose

(***************************************************************************)

PollerNext ==
  \/ BeginPass
  \/ \E r \in running :
       \/ Probe(r) \/ Upsert(r) \/ Publish(r)
       \/ ObserveUp(r) \/ ObserveAlert(r) \/ ObserveQuiet(r) \/ Send(r)
Fails == \E r \in running : UpsertFails(r) \/ SendFails(r)
ServerNext == Subscribe \/ Receive \/ Done
BrowserNext == Connect \/ Answer \/ Refresh \/ Written \/ Disconnect

Next ==
  \/ \E s \in Services : Changes(s)
  \/ PollerNext \/ Fails \/ ServerNext \/ BrowserNext
  \/ Signal \/ Shutdown \/ Restart \/ Crash

Spec == Init /\ [][Next]_vars

\* The goroutines of a pass run, a probe and a send end with their timeouts, a
\* signaled process stops and is started again.  A client may stop reading.
FairSpec ==
  /\ Spec /\ WF_vars(PollerNext) /\ WF_vars(ServerNext)
  /\ WF_vars(Shutdown) /\ WF_vars(Restart)

(* Properties --------------------------------------------------------------*)

Incidents == [age : 0..LongestWait, alerted : Alerts \union {"none"}]
Goroutine == [svc : Services, status : Statuses,
              at : {"probe", "upsert", "publish", "observe", "send"},
              msg : Alerts \union {"none", "recovered"}]

TypeOK ==
  /\ world \in [Services -> Statuses] /\ saved \in [Services -> Statuses]
  /\ shown \in [Services -> Statuses] /\ answer \in [Services -> Statuses]
  /\ running \subseteq Goroutine
  /\ state \in [Services -> Incidents \union {NoIncident}]
  /\ heard \in [Services -> Alerts \union {"none", "recovered"}]
  /\ lost \in [Services -> BOOLEAN]
  /\ handler \in {"none", "greeted", "loop", "writing"} /\ fetch \in {"no", "asked", "answered"}
  /\ queue \in Seq(Services \X Statuses) /\ Len(queue) <= QueueCap
  /\ frame \in (Services \X Statuses) \union {NoFrame}
  /\ handler = "writing" => frame \in Services \X Statuses
  /\ done \in BOOLEAN
  /\ stop \in {"no", "signaled", "draining"}
  /\ changes \in 0..MaxChanges /\ faults \in 0..MaxFaults

Sending(s) == \E r \in running : r.svc = s /\ r.at = "send"

\* With nothing about a service on its way and nothing lost, the last message a
\* person got is what the alerter holds: the alert of the incident, or that it
\* is over.  Decided under the mutex and sent outside it, the messages keep
\* their order.
LastWordStands ==
  \A s \in Services : ~Sending(s) /\ ~lost[s] =>
    heard[s] \in (IF Recovers(s) THEN {state[s].alerted} ELSE {"none", "recovered"})

\* "Alert once per incident, again only if it gets worse": what is sent is worse
\* than what a person heard of the incident, and a recovery follows an alert,
\* unless a message or the incident was lost.
OncePerIncident ==
  [][\A r \in running \ running' : r.at = "send" /\ ~lost[r.svc] =>
       IF r.msg = "recovered" THEN heard[r.svc] \in Alerts
       ELSE heard[r.svc] \in Alerts => severity[r.msg] > severity[heard[r.svc]]]_vars

\* A service that stays unhealthy is told of, however slow the dashboard is and
\* however its status moves between degraded and down, unless the message is lost.
OutageIsTold ==
  \A s \in Services :
    <>[](world[s] # "up") => <>[](heard[s] \in Alerts \/ lost[s])

\* "A lost patch heals itself on the next event or reconnect": a dashboard that
\* stays connected, and empties its queue between passes again and again, ends
\* up showing how a service is.
DashboardCatchesUp ==
  \A s \in Services : \A st \in Statuses :
    (<>[](world[s] = st /\ Subscribed) /\ []<><<BeginPass /\ queue = <<>> /\ handler = "loop">>_vars)
      => <>[](shown[s] = st)

\* Shutdown releases every handler, one that subscribes later too, unless its
\* client has stopped reading in the middle of a frame.
HandlersReleased == stop = "draining" ~> stop # "draining" \/ handler \in {"none", "writing"}
=============================================================================
