------------------------------ MODULE MCBeacon ------------------------------
(* A small instance of Beacon for TLC.                                     *)
EXTENDS Beacon

(* With and without net_info, null data, a payload that does not decode,   *)
(* and another path.                                                       *)
SomeBodies ==
  {[path |-> "/rpc", data |-> "map", keys |-> {"net_info", "status"}],
   [path |-> "/rpc", data |-> "map", keys |-> {"status"}],
   [path |-> "/rpc", data |-> "null", keys |-> {}],
   [path |-> "/metrics", data |-> "none", keys |-> {}]}
=============================================================================
