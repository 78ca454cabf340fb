------------------------------ MODULE EventLog ------------------------------
(***************************************************************************)
(* What is promised of the event log and of whoever works it off,          *)
(* whatever fails and however often the process dies:                      *)
(*                                                                         *)
(*   - the log only grows, and what is in it stays;                        *)
(*   - the events are done with one after the other, none overtaken;       *)
(*   - an event is done with when what it says is on record, and not       *)
(*     before;                                                             *)
(*   - the record only grows, by what the oldest open event says, in an    *)
(*     attempt that has begun and that the event can be about.             *)
(*                                                                         *)
(* An event may be taken up again and again until it is done with.  How it *)
(* is applied, and in how many statements, is Drain's.                     *)
(***************************************************************************)
EXTENDS Integers, Sequences

CONSTANTS Kinds,  (* the kinds of event                                    *)
          Says,   (* Says[k]: the stages an event of kind k reports        *)
          Own     (* Own[k]: the attempts it can be about                  *)

VARIABLES log,      (* the events, by id                                   *)
          done,     (* the ids of those that are done with                 *)
          attempt,  (* the attempt the item is in                          *)
          record    (* the transitions on record, as <<attempt, stage>>    *)

vars == <<log, done, attempt, record>>

Init ==
  /\ log = <<>> /\ done = {}
  /\ attempt = 1 /\ record = {<<1, "grabbed">>}

\* Event i is open, and every one before it is done with.
Oldest(i) == i \in DOMAIN log \ done /\ 1..(i - 1) \subseteq done

Insert(k) == log' = Append(log, k) /\ UNCHANGED <<done, attempt, record>>

Begin == attempt' = attempt + 1 /\ UNCHANGED <<log, done, record>>

Apply(i, a, s) ==
  /\ Oldest(i) /\ s \in Says[log[i]] /\ a \in 1..attempt /\ a \in Own[log[i]]
  /\ record' = record \union {<<a, s>>}
  /\ UNCHANGED <<log, done, attempt>>

Done(i) ==
  /\ Oldest(i)
  /\ \A s \in Says[log[i]] : \E a \in 1..attempt : a \in Own[log[i]] /\ <<a, s>> \in record
  /\ done' = done \union {i}
  /\ UNCHANGED <<log, attempt, record>>

Next ==
  \/ Begin
  \/ \E k \in Kinds : Insert(k)
  \/ \E i \in DOMAIN log :
       Done(i) \/ \E a \in 1..attempt : \E s \in Says[log[i]] : Apply(i, a, s)

Spec == Init /\ [][Next]_vars

(* What follows ------------------------------------------------------------*)

\* What is done with is a prefix of the log and on record; and whatever is on
\* record was said by an event that all before it are done with.
Faithful ==
  /\ \A i \in done : 1..i \subseteq done
  /\ \A i \in done : \A s \in Says[log[i]] :
       \E a \in 1..attempt : a \in Own[log[i]] /\ <<a, s>> \in record
  /\ \A h \in record \ {<<1, "grabbed">>} : \E i \in DOMAIN log :
       1..(i - 1) \subseteq done /\ h[1] \in Own[log[i]] /\ h[2] \in Says[log[i]]
=============================================================================
