------------------------------ MODULE MCNotify ------------------------------
(***************************************************************************)
(* NotifyFlow for a request with two episodes.                             *)
(***************************************************************************)
EXTENDS NotifyFlow

CONSTANTS e1, e2  (* the episodes                                          *)

\* One episode may be upgraded.
MCMaxCycle == [i \in Items |-> IF i = e1 THEN 2 ELSE 1]
\* None may.
MCOneCycle == [i \in Items |-> 1]
=============================================================================
