------------------------------- MODULE Stages -------------------------------
(***************************************************************************)
(* The stage catalogue of migration 0001: the keys of table "stages" and   *)
(* the ordinals every comparison of stages is made with.                   *)
(***************************************************************************)
EXTENDS Integers

StageKeys == {"requested", "approved", "grabbed", "submitted",
              "cloud_downloading", "pulling", "downloaded", "imported",
              "transcode", "available", "notified"}

Ordinal == [s \in StageKeys |->
              CASE s = "requested"         -> 10
                [] s = "approved"          -> 20
                [] s = "grabbed"           -> 30
                [] s = "submitted"         -> 40
                [] s = "cloud_downloading" -> 50
                [] s = "pulling"           -> 60
                [] s = "downloaded"        -> 65
                [] s = "imported"          -> 70
                [] s = "transcode"         -> 80
                [] s = "available"         -> 90
                [] s = "notified"          -> 100]

\* The stages that attempt c entered, by a history of <<cycle, stage>> pairs.
EnteredIn(hist, c) == {s \in StageKeys : <<c, s>> \in hist}

(***************************************************************************)
(* The stage an item in attempt c should be shown at: the furthest stage   *)
(* the attempt has entered, and "requested" before it entered any.  The    *)
(* code never computes it: it keeps a pointer up to date step by step.     *)
(***************************************************************************)
Furthest(hist, c) ==
  CHOOSE s \in EnteredIn(hist, c) \union {"requested"} :
    \A t \in EnteredIn(hist, c) : Ordinal[t] <= Ordinal[s]
=============================================================================
