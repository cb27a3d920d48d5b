----------------------------- MODULE MCF2Shard -----------------------------
(***************************************************************************)
(* A shard of two slots whose keys collide: k1 and k2 share their tag and  *)
(* their home slot, the last one of two and of four, so that a probe       *)
(* wraps; k3 starts at slot 0, in the middle of their run. Every table but *)
(* the third is soon replaced, for its load or for its arena.              *)
(***************************************************************************)
EXTENDS F2Shard, TLC
CONSTANTS k1, k2, k3

MCHash == [k \in Keys |-> CASE k = k1 -> 3 [] k = k2 -> 7 [] OTHER -> 4]
MCTag == [k \in Keys |-> IF k = k3 THEN 6 ELSE 5]
=============================================================================
