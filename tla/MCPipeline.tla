----------------------------- MODULE MCPipeline -----------------------------
(* Small instances of Pipeline for TLC.                                    *)
EXTENDS Pipeline

CONSTANTS rpc, logs

OneKind == <<rpc>>
TwoKinds == <<rpc, logs>>

(* Enough rpc payloads to overflow a buffer, and another collector's       *)
(* payload that has to wait for their flushes.                             *)
Uneven == [k \in Kinds |-> IF k = rpc THEN 3 ELSE 1]
=============================================================================
