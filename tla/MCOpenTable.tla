---------------------------- MODULE MCOpenTable ----------------------------
(***************************************************************************)
(* Tables of four slots that grow to eight, with three keys of which two   *)
(* share the last slot as their home and the third starts at slot 0.       *)
(***************************************************************************)
EXTENDS OpenTable
CONSTANTS k1, k2, k3, v1

MCDesigns == {Faster, Swiss}

MCHash == [k \in Keys |-> CASE k = k1 -> 3 [] k = k2 -> 7 [] OTHER -> 4]

Op(k, v) == [key |-> k, val |-> v]

\* Two colliding inserts, a delete in front of an insert that can reuse its
\* tombstone, and two operations on one key.
MCBatches ==
  {<<Op(k1, v1), Op(k2, v1)>>, <<Op(k2, Absent), Op(k3, v1)>>, <<Op(k1, v1), Op(k1, Absent)>>}
=============================================================================
