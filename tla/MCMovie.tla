------------------------------ MODULE MCMovie -------------------------------
(***************************************************************************)
(* Pipeline for one movie, every service connected: two releases, a retry  *)
(* or a re-grab, and reports in any order.                                 *)
(***************************************************************************)
EXTENDS Pipeline

CONSTANTS m,        (* the movie                                           *)
          req,      (* its request                                         *)
          k1, k2    (* two releases of it                                  *)

MCRequestOf == [i \in Items |-> req]
MCCarries   == [k \in Keys |-> {m}]
=============================================================================
