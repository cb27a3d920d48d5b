----------------------------- MODULE MCEmbedded -----------------------------
(***************************************************************************)
(* All engines under both levels the harness knows. Scans of four keys     *)
(* over a channel for one row, so that the goroutine of a buntdb iterator  *)
(* is stuck in a send when its client has had enough.                      *)
(***************************************************************************)
EXTENDS Embedded

CONSTANT v2

MCConfigs == Engines \X {"DEFAULT", "FULL"}

MCPut == [kind |-> "put", ops |-> <<[key |-> 3, val |-> v2]>>]
MCDelete == [kind |-> "delete", ops |-> <<[key |-> 3, val |-> Absent]>>]
MCBatch == [kind |-> "batch", ops |-> <<[key |-> 3, val |-> v2], [key |-> 4, val |-> Absent]>>]
MCCalls == {MCPut, MCDelete, MCBatch}
=============================================================================
