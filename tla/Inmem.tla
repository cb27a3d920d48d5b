------------------------------- MODULE Inmem --------------------------------
(***************************************************************************)
(* What the in-memory engines and their batches share                      *)
(* (adapters/inmem/inmem.go).                                              *)
(***************************************************************************)
CONSTANTS
  Keys, Values, Clients,
  Absent              \* the answer for a key that is not there

ASSUME InmemAssumption == Absent \notin Values

\* An operation memBatch buffers; a Delete is a write of Absent.
Ops == [key : Keys, val : Values \cup {Absent}]
=============================================================================
