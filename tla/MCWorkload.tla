----------------------------- MODULE MCWorkload -----------------------------
(***************************************************************************)
(* A twelve bit word: the constants are the low twelve bits of those of    *)
(* splitmix64 (0x...C15, 0x...5B9, 0x...1EB) and of the Zipfian scramble   *)
(* (2654435761, 0x5bd1e995), and the shifts are scaled. The low bits of a  *)
(* sum, a product and an exclusive or depend on the low bits only. The     *)
(* square of the recency skew wraps.                                       *)
(***************************************************************************)
EXTENDS Workload, Bitwise

MCAll == DOMAIN Catalog
MCXorBits(x, y) == x ^^ y
MCShiftRight(x, n) == shiftR(x, n)
\* Rounds up, so that the clamp of zipf.next is met.
MCPowRank(r) == (r * Keyspace + 2048) \div 4096
=============================================================================
