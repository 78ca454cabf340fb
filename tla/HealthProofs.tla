---------------------------- MODULE HealthProofs ----------------------------
(***************************************************************************)
(* Proofs about Health, for any services, waits, length of the queue and   *)
(* number of faults.                                                       *)
(***************************************************************************)
EXTENDS Health, TLAPS

(* The inductive invariant -------------------------------------------------*)

\* A pass waited for the one before: no two goroutines are at one service.
OneEach == \A r, q \in running : r.svc = q.svc => r = q

\* What is on its way is what the alerter decided last, and news to the person
\* unless something was lost before.
News(r) ==
  IF r.msg = "recovered"
    THEN state[r.svc] = NoIncident /\ (lost[r.svc] \/ heard[r.svc] \in Alerts)
    ELSE /\ r.msg \in Alerts /\ state[r.svc] # NoIncident /\ state[r.svc].alerted = r.msg
         /\ \/ lost[r.svc] \/ heard[r.svc] \notin Alerts
            \/ severity[r.msg] > severity[heard[r.svc]]
AllNews == \A r \in running : r.at = "send" => News(r)

IInv == TypeOK /\ OneEach /\ AllNews /\ LastWordStands

(* Facts -------------------------------------------------------------------*)

LEMMA LongestIsNat == LongestWait \in Nat
BY WaitsAssumption DEF LongestWait

LEMMA NoIncidentIsNone == NoIncident \notin Incidents
<1>1. 0..LongestWait \subseteq Nat
  BY LongestIsNat
<1> QED
  BY <1>1, NoIncidentAssumption, Zenon DEF Incidents

LEMMA IncidentTyped ==
  ASSUME TypeOK, NEW s \in Services
  PROVE  /\ Incident(s) \in Incidents
         /\ Recovers(s) <=> Incident(s).alerted # "none"
         /\ Recovers(s) => Incident(s).alerted = state[s].alerted
BY LongestIsNat DEF TypeOK, Incident, Incidents, Recovers

LEMMA OlderTyped ==
  ASSUME NEW i \in Incidents \union {NoIncident}
  PROVE  /\ Older(i) \in Incidents \union {NoIncident}
         /\ Older(i) = NoIncident <=> i = NoIncident
         /\ i # NoIncident => Older(i).alerted = i.alerted
BY LongestIsNat, NoIncidentIsNone DEF Older, Incidents

LEMMA FaultTyped ==
  ASSUME TypeOK, Fault \/ FaultOrCanceled
  PROVE  faults' \in 0..MaxFaults
BY BoundsAssumption DEF TypeOK, Fault, FaultOrCanceled

LEMMA InitInv == Init => IInv
<1> SUFFICES ASSUME Init PROVE IInv
  OBVIOUS
<1>1. TypeOK
  <2>1. queue \in Seq(Services \X Statuses) /\ Len(queue) <= QueueCap
    BY QueueAssumption DEF Init
  <2>2. /\ world \in [Services -> Statuses] /\ saved \in [Services -> Statuses]
        /\ shown \in [Services -> Statuses] /\ answer \in [Services -> Statuses]
    BY DEF Init, AllUp, Statuses
  <2>3. state \in [Services -> Incidents \union {NoIncident}] /\ lost \in [Services -> BOOLEAN]
    BY DEF Init
  <2>4. frame \in (Services \X Statuses) \union {NoFrame} /\ done \in BOOLEAN
    BY Zenon DEF Init
  <2>5. /\ heard \in [Services -> Alerts \union {"none", "recovered"}] /\ running \subseteq Goroutine
        /\ changes \in 0..MaxChanges /\ faults \in 0..MaxFaults
    BY BoundsAssumption DEF Init
  <2>6. /\ handler \in {"none", "greeted", "loop", "writing"} /\ handler # "writing"
        /\ fetch \in {"no", "asked", "answered"} /\ stop \in {"no", "signaled", "draining"}
    BY DEF Init
  <2> QED
    BY <2>1, <2>2, <2>3, <2>4, <2>5, <2>6, Zenon DEF TypeOK
<1>2. OneEach /\ AllNews /\ LastWordStands
  BY DEF Init, OneEach, AllNews, LastWordStands, Recovers
<1> QED
  BY <1>1, <1>2 DEF IInv

\* What leaves the goroutines and the alerter alone keeps the rest.
LEMMA Untouched ==
  ASSUME IInv, TypeOK', UNCHANGED <<running, alerter>>
  PROVE  IInv'
BY DEF IInv, alerter, OneEach, AllNews, News, LastWordStands, Sending, Recovers

(* The services, the stream and the dashboard ------------------------------*)

LEMMA ChangesKeep ==
  ASSUME IInv, NEW s \in Services, Changes(s)
  PROVE  IInv'
<1>1. TypeOK'
  BY BoundsAssumption DEF IInv, TypeOK, Changes, alerter, stream, browser
<1> QED
  BY <1>1, Untouched DEF Changes

LEMMA StreamKeeps ==
  ASSUME IInv, ServerNext \/ BrowserNext \/ Shutdown
  PROVE  IInv'
<1> USE DEF IInv, TypeOK, alerter, stream, browser
<1>1. CASE Subscribe
  BY <1>1, Untouched, QueueAssumption DEF Subscribe
<1>2. CASE Receive
  <2>1. frame' \in Services \X Statuses /\ queue' \in Seq(Services \X Statuses) /\ Len(queue') <= QueueCap
    BY <1>2, QueueAssumption DEF Receive
  <2> QED
    BY <1>2, <2>1, Untouched DEF Receive
<1>3. CASE Done
  BY <1>3, Untouched, QueueAssumption DEF Done, Unsubscribe
<1>4. CASE Connect
  BY <1>4, Untouched DEF Connect
<1>5. CASE Answer
  BY <1>5, Untouched DEF Answer
<1>6. CASE Refresh
  BY <1>6, Untouched DEF Refresh, AllUp, Statuses
<1>7. CASE Written
  <2>1. frame \in Services \X Statuses
    BY <1>7 DEF Written
  <2>2. shown' \in [Services -> Statuses]
    BY <1>7, <2>1 DEF Written
  <2> QED
    BY <1>7, <2>2, Untouched DEF Written
<1>8. CASE Disconnect
  BY <1>8, Untouched, QueueAssumption DEF Disconnect, Unsubscribe
<1>9. CASE Shutdown
  BY <1>9, Untouched DEF Shutdown, Closes
<1> QED
  BY <1>1, <1>2, <1>3, <1>4, <1>5, <1>6, <1>7, <1>8, <1>9 DEF ServerNext, BrowserNext

LEMMA SignalKeeps ==
  ASSUME IInv, Signal
  PROVE  IInv'
<1>1. faults' \in 0..MaxFaults
  BY FaultTyped DEF IInv, Signal
<1>2. TypeOK'
  BY <1>1 DEF IInv, TypeOK, Signal, alerter, stream, browser
<1> QED
  BY <1>2, Untouched DEF Signal

(* The poller --------------------------------------------------------------*)

LEMMA BeginPassKeeps ==
  ASSUME IInv, BeginPass
  PROVE  IInv'
<1> DEFINE new == {[svc |-> s, at |-> "probe", status |-> "up", msg |-> "none"] : s \in Services}
<1>1. running = {} /\ running' = new
  BY DEF BeginPass, Waited
<1>2. new \subseteq Goroutine
  BY DEF Goroutine, Statuses
<1>3. \A s \in Services :
        /\ state'[s] \in Incidents \union {NoIncident}
        /\ state'[s] = NoIncident <=> state[s] = NoIncident
        /\ state[s] # NoIncident => state'[s].alerted = state[s].alerted
  BY OlderTyped DEF IInv, TypeOK, BeginPass
<1>4. TypeOK'
  <2>1. state' \in [Services -> Incidents \union {NoIncident}]
    BY <1>3 DEF BeginPass
  <2> QED
    BY <1>1, <1>2, <2>1 DEF IInv, TypeOK, BeginPass, stream, browser
<1>5. OneEach' /\ AllNews'
  BY <1>1 DEF OneEach, AllNews
<1>6. LastWordStands'
  <2>1. \A s \in Services : ~Sending(s) /\ (Recovers(s)' <=> Recovers(s))
    BY <1>1, <1>3 DEF Sending, Recovers
  <2> QED
    BY <1>3, <2>1 DEF IInv, LastWordStands, BeginPass, Recovers
<1> QED
  BY <1>4, <1>5, <1>6 DEF IInv

\* A goroutine that goes on, or returns, with nothing to send.
LEMMA GoesOn ==
  ASSUME IInv, TypeOK', NEW r \in running, r.at # "send",
         \/ running' = running \ {r}
         \/ \E q \in Goroutine : /\ q.svc = r.svc /\ q.at # "send"
                                 /\ running' = (running \ {r}) \union {q},
         UNCHANGED <<heard, lost>>,
         \A s \in Services :
           /\ s # r.svc => state'[s] = state[s]
           /\ Recovers(s)' <=> Recovers(s)
           /\ Recovers(s) => state'[s].alerted = state[s].alerted
  PROVE  IInv'
<1>1. \A p \in running' : p \in running \/ (p.svc = r.svc /\ p.at # "send")
  OBVIOUS
<1>2. OneEach'
  BY DEF IInv, OneEach
<1>3. \A p \in running : p # r => p.svc # r.svc
  BY DEF IInv, OneEach
<1>4. AllNews'
  <2> SUFFICES ASSUME NEW p \in running', p.at = "send"
               PROVE  News(p)'
    BY DEF AllNews
  <2>1. p \in running /\ p # r /\ p.svc # r.svc /\ p.svc \in Services
    BY <1>1, <1>3 DEF IInv, TypeOK, Goroutine
  <2>2. state'[p.svc] = state[p.svc] /\ News(p)
    BY <2>1 DEF IInv, AllNews
  <2> QED
    BY <2>2 DEF News
<1>5. LastWordStands'
  <2>1. \A s \in Services : Sending(s)' <=> Sending(s)
    BY <1>1 DEF Sending
  <2> QED
    BY <2>1 DEF IInv, LastWordStands
<1> QED
  BY <1>2, <1>4, <1>5 DEF IInv

LEMMA ProbeKeeps ==
  ASSUME IInv, NEW r \in running, Probe(r) \/ Upsert(r) \/ UpsertFails(r) \/ Publish(r)
  PROVE  IInv'
<1>1. r \in Goroutine /\ r.svc \in Services /\ r.at # "send"
  BY DEF IInv, TypeOK, Goroutine, Probe, Upsert, UpsertFails, Publish
<1>2. UNCHANGED alerter
  BY DEF Probe, Upsert, UpsertFails, Publish
<1>3. \/ running' = running \ {r}
      \/ \E q \in Goroutine : /\ q.svc = r.svc /\ q.at # "send"
                              /\ running' = (running \ {r}) \union {q}
  <2>1. CASE Probe(r)
    <3>1. PICK st \in {IF Canceled THEN "down" ELSE world[r.svc]} :
            running' = (running \ {r}) \union {[r EXCEPT !.at = "upsert", !.status = st]}
      BY <2>1 DEF Probe
    <3>2. st \in Statuses
      BY <1>1, <3>1 DEF IInv, TypeOK, Statuses
    <3>3. /\ [r EXCEPT !.at = "upsert", !.status = st] \in Goroutine
          /\ [r EXCEPT !.at = "upsert", !.status = st].svc = r.svc
          /\ [r EXCEPT !.at = "upsert", !.status = st].at = "upsert"
      BY <1>1, <3>2 DEF Goroutine
    <3> QED
      BY <3>1, <3>3
  <2>2. CASE Upsert(r) \/ Publish(r)
    <3>1. PICK at \in {"publish", "observe"} : running' = (running \ {r}) \union {[r EXCEPT !.at = at]}
      BY <2>2 DEF Upsert, Publish, ToPublish, Step
    <3>2. [r EXCEPT !.at = at] \in Goroutine /\ [r EXCEPT !.at = at].svc = r.svc
          /\ [r EXCEPT !.at = at].at = at
      BY <1>1 DEF Goroutine
    <3> QED
      BY <3>1, <3>2
  <2>3. CASE UpsertFails(r)
    BY <2>3 DEF UpsertFails, Return
  <2> QED
    BY <2>1, <2>2, <2>3
<1>4. running' \subseteq Goroutine
  BY <1>3 DEF IInv, TypeOK
<1>5. TypeOK'
  <2>1. CASE Probe(r)
    BY <1>4, <2>1 DEF IInv, TypeOK, Probe, alerter, stream, browser
  <2>2. CASE Upsert(r)
    BY <1>1, <1>4, <2>2 DEF IInv, TypeOK, Upsert, Goroutine, alerter, stream, browser
  <2>3. CASE UpsertFails(r)
    <3>1. faults' \in 0..MaxFaults
      BY <2>3, FaultTyped DEF IInv, UpsertFails
    <3> QED
      BY <1>4, <2>3, <3>1 DEF IInv, TypeOK, UpsertFails, alerter, stream, browser
  <2>4. CASE Publish(r)
    <3>1. <<r.svc, r.status>> \in Services \X Statuses
      BY <1>1 DEF Goroutine
    <3>2. queue' \in Seq(Services \X Statuses) /\ Len(queue') <= QueueCap
      BY <2>4, <3>1, QueueAssumption DEF IInv, TypeOK, Publish, Offer
    <3> QED
      BY <1>4, <2>4, <3>2 DEF IInv, TypeOK, Publish, alerter, stream, browser
  <2> QED
    BY <2>1, <2>2, <2>3, <2>4
<1> QED
  BY <1>1, <1>2, <1>3, <1>5, GoesOn DEF alerter, Recovers

LEMMA QuietKeeps ==
  ASSUME IInv, NEW r \in running,
         ObserveQuiet(r) \/ (ObserveUp(r) /\ ~Recovers(r.svc))
  PROVE  IInv'
<1>1. r \in Goroutine /\ r.svc \in Services /\ r.at # "send"
  BY DEF IInv, TypeOK, Goroutine, ObserveQuiet, ObserveUp
<1>2. running' = running \ {r} /\ UNCHANGED <<heard, lost>>
  BY DEF ObserveQuiet, ObserveUp, Return
<1>3. /\ state' \in [Services -> Incidents \union {NoIncident}]
      /\ \A s \in Services : s # r.svc => state'[s] = state[s]
      /\ state'[r.svc] = Incident(r.svc) \/ (~Recovers(r.svc) /\ state'[r.svc] = NoIncident)
  BY <1>1, IncidentTyped DEF IInv, TypeOK, ObserveQuiet, ObserveUp
<1>4. Incident(r.svc) # NoIncident
  BY <1>1, IncidentTyped, NoIncidentIsNone DEF IInv
<1>5. \A s \in Services : /\ Recovers(s)' <=> Recovers(s)
                          /\ Recovers(s) => state'[s].alerted = state[s].alerted
  BY <1>1, <1>3, <1>4, IncidentTyped DEF IInv, Recovers
<1>6. TypeOK'
  BY <1>2, <1>3 DEF IInv, TypeOK, ObserveQuiet, ObserveUp, stream, browser
<1> QED
  BY <1>1, <1>2, <1>3, <1>5, <1>6, GoesOn

(* The alerter -------------------------------------------------------------*)

\* A message decided on under the mutex, with what it says of the service.
LEMMA Decides ==
  ASSUME IInv, TypeOK', NEW r \in running, r.at # "send",
         NEW q \in Goroutine, q.svc = r.svc, q.at = "send", News(q)',
         running' = (running \ {r}) \union {q},
         UNCHANGED <<heard, lost>>,
         \A s \in Services \ {r.svc} : state'[s] = state[s]
  PROVE  IInv'
<1>1. \A p \in running : p # r => p.svc # r.svc
  BY DEF IInv, OneEach
<1>2. OneEach'
  BY <1>1 DEF IInv, OneEach
<1>3. AllNews'
  <2> SUFFICES ASSUME NEW p \in running, p # r, p.at = "send" PROVE News(p)'
    BY DEF AllNews
  <2>1. p.svc \in Services \ {r.svc}
    BY <1>1 DEF IInv, TypeOK, Goroutine
  <2> QED
    BY <2>1 DEF IInv, AllNews, News
<1>4. LastWordStands'
  <2> SUFFICES ASSUME NEW s \in Services, ~Sending(s)', ~lost'[s]
               PROVE  heard'[s] \in (IF Recovers(s)' THEN {state'[s].alerted} ELSE {"none", "recovered"})
    BY DEF LastWordStands
  <2>1. s # r.svc
    BY DEF Sending
  <2>2. ~Sending(s) /\ state'[s] = state[s]
    BY <2>1 DEF Sending
  <2> QED
    BY <2>2 DEF IInv, LastWordStands, Recovers
<1> QED
  BY <1>2, <1>3, <1>4 DEF IInv

\* What a person heard, when the goroutine at the service has sent nothing yet.
LEMMA HeardBefore ==
  ASSUME IInv, NEW r \in running, r.at # "send"
  PROVE  /\ r.svc \in Services
         /\ ~lost[r.svc] =>
              heard[r.svc] \in (IF Recovers(r.svc) THEN {state[r.svc].alerted} ELSE {"none", "recovered"})
<1>1. r.svc \in Services
  BY DEF IInv, TypeOK, Goroutine
<1>2. ~Sending(r.svc)
  BY DEF IInv, OneEach, Sending
<1> QED
  BY <1>1, <1>2 DEF IInv, LastWordStands

LEMMA RecoveryKeeps ==
  ASSUME IInv, NEW r \in running, ObserveUp(r), Recovers(r.svc)
  PROVE  IInv'
<1> DEFINE q == [r EXCEPT !.at = "send", !.msg = "recovered"]
<1>1. r \in Goroutine /\ r.svc \in Services /\ r.at # "send"
  BY DEF IInv, TypeOK, Goroutine, ObserveUp
<1>2. q \in Goroutine /\ q.svc = r.svc /\ q.at = "send" /\ q.msg = "recovered"
  BY <1>1 DEF Goroutine
<1>3. /\ running' = (running \ {r}) \union {q} /\ UNCHANGED <<heard, lost>>
      /\ state' = [state EXCEPT ![r.svc] = NoIncident]
  BY DEF ObserveUp
<1>4. state[r.svc].alerted \in Alerts
  BY <1>1 DEF IInv, TypeOK, Recovers, Incidents
<1>5. state'[r.svc] = NoIncident
  BY <1>1, <1>3 DEF IInv, TypeOK
<1>6. News(q)'
  BY <1>1, <1>2, <1>3, <1>4, <1>5, HeardBefore DEF News
<1>7. TypeOK'
  BY <1>2, <1>3 DEF IInv, TypeOK, ObserveUp, stream, browser
<1>8. \A s \in Services \ {r.svc} : state'[s] = state[s]
  BY <1>3 DEF IInv, TypeOK
<1> QED
  BY <1>1, <1>2, <1>3, <1>6, <1>7, <1>8, Decides

LEMMA AlertKeeps ==
  ASSUME IInv, NEW r \in running, ObserveAlert(r)
  PROVE  IInv'
<1> DEFINE q == [r EXCEPT !.at = "send", !.msg = r.status]
<1> DEFINE i == [Incident(r.svc) EXCEPT !.alerted = r.status]
<1>1. r \in Goroutine /\ r.svc \in Services /\ r.at # "send" /\ r.status \in Alerts
  BY DEF IInv, TypeOK, Goroutine, ObserveAlert, Statuses, Alerts
<1>2. q \in Goroutine /\ q.svc = r.svc /\ q.at = "send" /\ q.msg = r.status
  BY <1>1 DEF Goroutine, Alerts
<1>3. Incident(r.svc) \in Incidents
  BY <1>1, IncidentTyped DEF IInv
<1>4. i \in Incidents /\ i.alerted = r.status /\ i # NoIncident
  BY <1>1, <1>3, NoIncidentIsNone DEF Incidents
<1>5. /\ running' = (running \ {r}) \union {q} /\ UNCHANGED <<heard, lost>>
      /\ state' = [state EXCEPT ![r.svc] = i]
  BY DEF ObserveAlert
<1>6. state'[r.svc] = i /\ \A s \in Services \ {r.svc} : state'[s] = state[s]
  BY <1>1, <1>5 DEF IInv, TypeOK
<1>7. \/ lost[r.svc] \/ heard[r.svc] \notin Alerts
      \/ severity[r.status] > severity[heard[r.svc]]
  <2>1. severity[r.status] > severity[Incident(r.svc).alerted]
    BY DEF ObserveAlert, Due
  <2>2. CASE Recovers(r.svc)
    BY <1>1, <2>1, <2>2, HeardBefore, IncidentTyped DEF IInv
  <2>3. CASE ~Recovers(r.svc)
    BY <1>1, <2>3, HeardBefore DEF Alerts
  <2> QED
    BY <2>2, <2>3
<1>8. News(q)'
  BY <1>1, <1>2, <1>4, <1>5, <1>6, <1>7 DEF News, Alerts
<1>9. TypeOK'
  BY <1>2, <1>4, <1>5 DEF IInv, TypeOK, ObserveAlert, stream, browser
<1> QED
  BY <1>1, <1>2, <1>5, <1>6, <1>8, <1>9, Decides

LEMMA SendKeeps ==
  ASSUME IInv, NEW r \in running, Send(r) \/ SendFails(r)
  PROVE  IInv'
<1>1. r \in Goroutine /\ r.svc \in Services /\ r.at = "send" /\ News(r)
  BY DEF IInv, TypeOK, AllNews, Goroutine, Send, SendFails
<1>2. /\ running' = running \ {r} /\ state' = state
      /\ \A s \in Services : s # r.svc => heard'[s] = heard[s] /\ lost'[s] = lost[s]
      /\ lost'[r.svc] \/ heard'[r.svc] = r.msg
  BY <1>1 DEF IInv, TypeOK, Send, SendFails, Return
<1>3. TypeOK'
  <2>1. CASE Send(r)
    <3>1. r.msg \in Alerts \union {"recovered"}
      BY <1>1 DEF News
    <3>2. heard' \in [Services -> Alerts \union {"none", "recovered"}] /\ lost' \in [Services -> BOOLEAN]
      BY <1>1, <2>1, <3>1 DEF IInv, TypeOK, Send
    <3> QED
      BY <1>2, <2>1, <3>2 DEF IInv, TypeOK, Send, stream, browser
  <2>2. CASE SendFails(r)
    <3>1. faults' \in 0..MaxFaults
      BY <2>2, FaultTyped DEF IInv, SendFails
    <3>2. lost' \in [Services -> BOOLEAN]
      BY <1>1, <2>2 DEF IInv, TypeOK, SendFails
    <3> QED
      BY <1>2, <2>2, <3>1, <3>2 DEF IInv, TypeOK, SendFails, stream, browser
  <2> QED
    BY <2>1, <2>2
<1>4. \A p \in running' : p \in running /\ p.svc # r.svc /\ p.svc \in Services
  BY <1>2 DEF IInv, TypeOK, Goroutine, OneEach
<1>5. OneEach'
  BY <1>2 DEF IInv, OneEach
<1>6. AllNews'
  BY <1>2, <1>4 DEF IInv, AllNews, News
<1>7. LastWordStands'
  <2> SUFFICES ASSUME NEW s \in Services, ~Sending(s)', ~lost'[s]
               PROVE  heard'[s] \in (IF Recovers(s)' THEN {state'[s].alerted} ELSE {"none", "recovered"})
    BY DEF LastWordStands
  <2>1. Recovers(s)' <=> Recovers(s)
    BY <1>2 DEF Recovers
  <2>2. CASE s = r.svc
    BY <1>1, <1>2, <2>1, <2>2 DEF News, Recovers, Alerts
  <2>3. CASE s # r.svc
    <3>1. ~Sending(s)
      BY <1>2, <2>3 DEF Sending
    <3> QED
      BY <1>2, <2>1, <2>3, <3>1 DEF IInv, LastWordStands
  <2> QED
    BY <2>2, <2>3
<1> QED
  BY <1>3, <1>5, <1>6, <1>7 DEF IInv

(* The process -------------------------------------------------------------*)

LEMMA LoseKeeps ==
  ASSUME IInv, Restart \/ Crash
  PROVE  IInv'
<1>1. Lose /\ stop' = "no"
  BY DEF Restart, Crash
<1>2. faults' \in 0..MaxFaults
  BY FaultTyped DEF IInv, TypeOK, Restart, Crash
<1>3. \A s \in Services : lost'[s] = \/ lost[s] \/ Recovers(s)
                                     \/ \E r \in running : r.svc = s /\ r.at = "send"
  BY <1>1 DEF Lose
<1>4. TypeOK'
  <2>1. lost' \in [Services -> BOOLEAN]
    BY <1>1, Zenon DEF Lose, IInv, TypeOK, Recovers
  <2>2. queue' \in Seq(Services \X Statuses) /\ Len(queue') <= QueueCap
    BY <1>1, QueueAssumption DEF Lose, Unsubscribe
  <2>3. state' \in [Services -> Incidents \union {NoIncident}] /\ answer' \in [Services -> Statuses]
    BY <1>1 DEF Lose, AllUp, Statuses
  <2> QED
    BY <1>1, <1>2, <2>1, <2>2, <2>3 DEF IInv, TypeOK, Lose, Unsubscribe
<1>5. OneEach' /\ AllNews'
  BY <1>1 DEF Lose, OneEach, AllNews
<1>6. LastWordStands'
  <2> SUFFICES ASSUME NEW s \in Services, ~lost'[s]
               PROVE  heard'[s] \in {"none", "recovered"} /\ ~Recovers(s)'
    BY DEF LastWordStands
  <2>1. ~lost[s] /\ ~Recovers(s) /\ ~Sending(s)
    BY <1>3 DEF Sending
  <2> QED
    BY <1>1, <2>1 DEF IInv, LastWordStands, Lose, Recovers
<1> QED
  BY <1>4, <1>5, <1>6 DEF IInv

(* The theorems ------------------------------------------------------------*)

\* The invariant holds in every state: the goroutines of a pass do not meet
\* those of another at a service, so that decisions taken under the mutex of
\* Alerter.Observe are sent in their order.
THEOREM Invariance == Spec => []IInv
<1>1. IInv /\ [Next]_vars => IInv'
  <2> SUFFICES ASSUME IInv, [Next]_vars PROVE IInv'
    OBVIOUS
  <2>1. CASE \E s \in Services : Changes(s)
    BY <2>1, ChangesKeep
  <2>2. CASE PollerNext \/ Fails
    <3>1. CASE BeginPass
      BY <3>1, BeginPassKeeps
    <3>2. ASSUME NEW r \in running,
                 \/ Probe(r) \/ Upsert(r) \/ Publish(r) \/ UpsertFails(r)
                 \/ ObserveUp(r) \/ ObserveAlert(r) \/ ObserveQuiet(r)
                 \/ Send(r) \/ SendFails(r)
          PROVE  IInv'
      BY <3>2, ProbeKeeps, QuietKeeps, RecoveryKeeps, AlertKeeps, SendKeeps
    <3> QED
      BY <2>2, <3>1, <3>2 DEF PollerNext, Fails
  <2>3. CASE ServerNext \/ BrowserNext \/ Shutdown
    BY <2>3, StreamKeeps
  <2>4. CASE Signal
    BY <2>4, SignalKeeps
  <2>5. CASE Restart \/ Crash
    BY <2>5, LoseKeeps
  <2>6. CASE UNCHANGED vars
    <3>1. TypeOK'
      BY <2>6 DEF vars, IInv, TypeOK, alerter, stream, browser
    <3> QED
      BY <2>6, <3>1, Untouched DEF vars
  <2> QED
    BY <2>1, <2>2, <2>3, <2>4, <2>5, <2>6 DEF Next
<1> QED
  BY <1>1, InitInv, PTL DEF Spec

\* Every variable stays in its type; a subscriber's channel never holds more
\* than its capacity.
THEOREM TypeCorrect == Spec => []TypeOK
<1>1. IInv => TypeOK
  BY DEF IInv
<1> QED
  BY <1>1, Invariance, PTL

\* The last message a person got about a service is what the alerter holds.
THEOREM LastWord == Spec => []LastWordStands
<1>1. IInv => LastWordStands
  BY DEF IInv
<1> QED
  BY <1>1, Invariance, PTL

\* Nobody is told twice of what is no worse, nor of the end of what they were
\* not told of.
THEOREM ToldOnce == Spec => OncePerIncident
<1>1. IInv => \A r \in running : r.at = "send" /\ ~lost[r.svc] =>
        IF r.msg = "recovered" THEN heard[r.svc] \in Alerts
        ELSE heard[r.svc] \in Alerts => severity[r.msg] > severity[heard[r.svc]]
  BY DEF IInv, AllNews, News
<1>2. IInv /\ [Next]_vars =>
        [\A r \in running \ running' : r.at = "send" /\ ~lost[r.svc] =>
           IF r.msg = "recovered" THEN heard[r.svc] \in Alerts
           ELSE heard[r.svc] \in Alerts => severity[r.msg] > severity[heard[r.svc]]]_vars
  BY <1>1
<1> QED
  BY <1>2, Invariance, PTL DEF Spec, OncePerIncident
=============================================================================
