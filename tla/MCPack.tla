------------------------------- MODULE MCPack -------------------------------
(***************************************************************************)
(* Pipeline for two episodes of one series: a season pack that holds both  *)
(* and a single release of the second.                                     *)
(***************************************************************************)
EXTENDS Pipeline

CONSTANTS e1, e2,        (* the episodes                                   *)
          req,           (* their request                                  *)
          pack, single   (* the releases                                   *)

MCRequestOf == [i \in Items |-> req]
MCCarries   == [k \in Keys |-> IF k = pack THEN {e1, e2} ELSE {e2}]
=============================================================================
