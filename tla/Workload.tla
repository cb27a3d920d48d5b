------------------------------ MODULE Workload ------------------------------
(***************************************************************************)
(* The operation streams of workload/workload.go: one Generator for each   *)
(* client goroutine of runMeasured, all seeded from one base seed. Runs    *)
(* are runs of the same cell, on two engines say; within a run the clients *)
(* interleave as they like.                                                *)
(*                                                                         *)
(* Arithmetic is that of words: the generator's has Word values, 2^64 in   *)
(* the code. The bit operations of splitmix64 are the constants XorBits    *)
(* and ShiftRight; what is proved needs no more of them than that they     *)
(* make words of words. A key is its index, a value its random stamp. The  *)
(* floating point curve of the Zipfian distribution is the constant        *)
(* PowRank, with the two cuts before it.                                   *)
(***************************************************************************)
EXTENDS Integers, Sequences, FiniteSets

CONSTANTS
  Runs, ClientIDs,      \* the runs; the clientIDs
  Specs,                \* the workloads, by name
  Seed, Keyspace, OpsPerClient,
  Word, XorBits(_, _), ShiftRight(_, _),
  Gamma, MulA, MulB, ShiftA, ShiftB, ShiftC,
  ZipfMul, ZipfAdd, ZipfCut0, ZipfCut1, PowRank(_)

Words == 0..(Word - 1)

VARIABLES
  spec,     \* the workload of the cell
  gen,      \* gen[r][c]: the state of the Generator of client c
  out       \* out[r][c]: the operations it has returned

streamVars == <<spec, gen, out>>

-----------------------------------------------------------------------------
\* An op mix, in the order pick adds the percentages up.
Kinds == <<"read", "update", "insert", "scan", "rmw", "delete">>

Mix(read, update, insert, scan, rmw, delete) ==
  [read |-> read, update |-> update, insert |-> insert, scan |-> scan,
   rmw |-> rmw, delete |-> delete]

Catalog ==
  LET W(pct, dist, only, seq) == [pct |-> pct, dist |-> dist, writeOnly |-> only, sequential |-> seq]
  IN
  [ycsb_a |-> W(Mix(50, 50, 0, 0, 0, 0), "zipfian", FALSE, FALSE),
   ycsb_b |-> W(Mix(95, 5, 0, 0, 0, 0), "zipfian", FALSE, FALSE),
   ycsb_c |-> W(Mix(100, 0, 0, 0, 0, 0), "zipfian", FALSE, FALSE),
   ycsb_d |-> W(Mix(95, 0, 5, 0, 0, 0), "latest", FALSE, FALSE),
   ycsb_e |-> W(Mix(0, 0, 5, 95, 0, 0), "zipfian", FALSE, FALSE),
   ycsb_f |-> W(Mix(50, 0, 0, 0, 50, 0), "zipfian", FALSE, FALSE),
   fillseq |-> W(Mix(0, 0, 100, 0, 0, 0), "uniform", TRUE, TRUE),
   fillrandom |-> W(Mix(0, 0, 100, 0, 0, 0), "uniform", TRUE, FALSE),
   overwrite |-> W(Mix(0, 100, 0, 0, 0, 0), "uniform", TRUE, FALSE),
   readrandom |-> W(Mix(100, 0, 0, 0, 0, 0), "uniform", FALSE, FALSE),
   readseq |-> W(Mix(0, 0, 0, 100, 0, 0), "uniform", FALSE, FALSE),
   deleterandom |-> W(Mix(0, 0, 0, 0, 0, 100), "uniform", TRUE, FALSE)]

\* Of a dataset of one key zetan is 1, so that every draw is below the first cut.
ASSUME WorkloadAssumption ==
  /\ ClientIDs \subseteq Nat /\ Specs \subseteq DOMAIN Catalog
  /\ Keyspace \in Nat \ {0} /\ OpsPerClient \in Nat
  /\ Word \in Nat \ {0} /\ Seed \in Words
  /\ {Gamma, MulA, MulB, ZipfMul, ZipfAdd, ZipfCut0, ZipfCut1} \subseteq Nat
  /\ Keyspace = 1 => ZipfCut0 >= Word
  /\ \A x \in Words :
       /\ XorBits(Seed, x) \in Words /\ PowRank(x) \in Nat
       /\ \A n \in {ShiftA, ShiftB, ShiftC} : XorBits(x, ShiftRight(x, n)) \in Words

\* The i-th number splitmix64 returns from state s on.
Draw(s, i) ==
  LET z0 == (s + i * Gamma) % Word
      z1 == (XorBits(z0, ShiftRight(z0, ShiftA)) * MulA) % Word
      z2 == (XorBits(z1, ShiftRight(z1, ShiftB)) * MulB) % Word
  IN  XorBits(z2, ShiftRight(z2, ShiftC))

\* The state NewGenerator seeds a client with.
SeedOf(c) == XorBits(Seed, ((c + 1) * Gamma) % Word)

\* The running sums c of pick.
Running(pct) ==
  LET c1 == pct.read
      c2 == c1 + pct.update
      c3 == c2 + pct.insert
      c4 == c3 + pct.scan
      c5 == c4 + pct.rmw
  IN  <<c1, c2, c3, c4, c5, c5 + pct.delete>>

\* Mutant: a number equal to the running sum counts as below it.
MutPickAt(pct, r) ==
  LET hit == {i \in DOMAIN Kinds : r <= Running(pct)[i]}
  IN  IF hit = {} THEN "read" ELSE Kinds[CHOOSE i \in hit : \A j \in hit : i <= j]

\* The kind a number in 0..99 stands for: the first whose running sum exceeds it.
PickAt(pct, r) ==
  LET hit == {i \in DOMAIN Kinds : r < Running(pct)[i]}
  IN  IF hit = {} THEN "read" ELSE Kinds[CHOOSE i \in hit : \A j \in hit : i <= j]

\* pick: a pure write workload has one kind and draws nothing.
PurelyOf(sp) == {k \in {"insert", "update", "delete"} : sp.writeOnly /\ sp.pct[k] = 100}

\* Mutant: the scrambled rank is not reduced again.
MutZipfNext(r) ==
  IF r < ZipfCut0 THEN 0
  ELSE IF r < ZipfCut1 THEN 1
  ELSE LET idx == IF PowRank(r) >= Keyspace THEN Keyspace - 1 ELSE PowRank(r)
       IN  (idx * ZipfMul + ZipfAdd) % Word

\* zipf.next: the two likeliest ranks, or a rank of the curve, clamped and then
\* scrambled.
ZipfNext(r) ==
  IF r < ZipfCut0 THEN 0
  ELSE IF r < ZipfCut1 THEN 1
  ELSE LET idx == IF PowRank(r) >= Keyspace THEN Keyspace - 1 ELSE PowRank(r)
       IN  ((idx * ZipfMul + ZipfAdd) % Word) % Keyspace

\* The key of a read, update, scan, rmw or delete. insertHead is the keyspace
\* for ever, and z * z is a product of words.
SelectKey(dist, r) ==
  LET z == r % Keyspace
  IN  CASE dist = "zipfian" -> ZipfNext(r)
        [] dist = "latest"  -> Keyspace - 1 - (((z * z) % Word) \div Keyspace)
        [] OTHER            -> z

ScanLen(r) == (r % 100) + 1

\* The operation Next returns under the workload sp in generator state g, and
\* the state it leaves.
\* The draws are taken in the order of the code: kind, key, then value or
\* scan length.
Step(sp, g) ==
  LET pure == PurelyOf(sp)
      drawn == IF pure = {} THEN 1 ELSE 0
      kind == IF pure = {} THEN PickAt(sp.pct, Draw(g.s, 1) % 100)
              ELSE CHOOSE k \in pure : TRUE
      cursor == kind = "insert" /\ sp.sequential
      keyAt == IF cursor THEN drawn ELSE drawn + 1
      key == IF cursor THEN g.seqCursor
             ELSE IF kind = "insert" THEN Draw(g.s, keyAt) % Keyspace
             ELSE SelectKey(sp.dist, Draw(g.s, keyAt))
      more == IF kind \in {"read", "delete"} THEN 0 ELSE 1
      tail == IF kind = "scan" THEN ScanLen(Draw(g.s, keyAt + 1))
              ELSE IF more = 1 THEN Draw(g.s, keyAt + 1) ELSE 0
  IN  [op |-> [kind |-> kind, key |-> key, tail |-> tail],
       gen |-> [s |-> (g.s + (keyAt + more) * Gamma) % Word,
                seqCursor |-> g.seqCursor + IF cursor THEN 1 ELSE 0]]

StreamInit ==
  /\ spec \in {Catalog[w] : w \in Specs}
  /\ gen = [r \in Runs |-> [c \in ClientIDs |-> [s |-> SeedOf(c), seqCursor |-> c]]]
  /\ out = [r \in Runs |-> [c \in ClientIDs |-> <<>>]]

\* Mutant: the clients of a run share one splitmix64.
MutNextOp(r, c) ==
  LET st == Step(spec, gen[r][c])
  IN
  /\ Len(out[r][c]) < OpsPerClient
  /\ out' = [out EXCEPT ![r][c] = Append(@, st.op)]
  /\ gen' = [gen EXCEPT ![r] = [d \in ClientIDs |->
               [s |-> st.gen.s, seqCursor |-> IF d = c THEN st.gen.seqCursor ELSE @[d].seqCursor]]]
  /\ UNCHANGED spec

\* A client takes its next operation.
NextOp(r, c) ==
  LET st == Step(spec, gen[r][c])
  IN
  /\ Len(out[r][c]) < OpsPerClient
  /\ out' = [out EXCEPT ![r][c] = Append(@, st.op)]
  /\ gen' = [gen EXCEPT ![r][c] = st.gen]
  /\ UNCHANGED spec

StreamNext == \E r \in Runs, c \in ClientIDs : NextOp(r, c)

StreamSpec == StreamInit /\ [][StreamNext]_streamVars

-----------------------------------------------------------------------------
(***************************************************************************)
(* Properties.                                                             *)
(***************************************************************************)
\* P of every operation that was issued, in any run.
AllIssued(P(_)) == \A r \in Runs, c \in ClientIDs : \A i \in DOMAIN out[r][c] : P(out[r][c][i])

KindSet == {Kinds[i] : i \in DOMAIN Kinds}

Generators == [s : Words, seqCursor : Nat]

Operation(o) ==
  /\ o.kind \in KindSet /\ o.key \in Nat
  /\ o.tail \in IF o.kind = "scan" THEN 1..100 ELSE Words

\* A generator's word stays a word, and the operations are operations.
StreamTypeOK ==
  /\ spec \in {Catalog[w] : w \in Specs}
  /\ gen \in [Runs -> [ClientIDs -> Generators]]
  /\ AllIssued(Operation)

\* The sequence s is the beginning of t.
Begins(s, t) == Len(s) <= Len(t) /\ \A i \in 1..Len(s) : s[i] = t[i]

\* "the same seed reproduces the exact stream so two engines see byte-identical
\* keys, values, and op order": whatever the interleaving of the clients, what a
\* client has issued in one run and in another agrees as far as both have come.
StreamsReproducible ==
  \A r, q \in Runs, c \in ClientIDs :
    Len(out[r][c]) <= Len(out[q][c]) => Begins(out[r][c], out[q][c])

\* Every operation but a sequential fill addresses a key of the loaded dataset,
\* through the clamp and the scramble of zipf.next and the wrapping square of the
\* recency skew.
KeysInRange ==
  LET InRange(o) == o.key < Keyspace
  IN  ~spec.sequential => AllIssued(InRange)

\* Every operation that Next makes is one the loaded dataset can serve.
StreamInv == StreamTypeOK /\ KeysInRange

\* Over the hundred values of pick's number each kind comes up as often as the
\* workload's percentages say, and only the kinds of the workload are issued.
MixExact ==
  LET InMix(o) == spec.pct[o.kind] > 0
  IN  /\ \A k \in KindSet : Cardinality({n \in 0..99 : PickAt(spec.pct, n) = k}) = spec.pct[k]
      /\ AllIssued(InMix)
=============================================================================
