---------------------------- MODULE InmemProofs -----------------------------
(***************************************************************************)
(* The in-memory engines faster and swiss, for any clients, keys and       *)
(* values. First their batches, of any size (MemBatch): a batch is seen    *)
(* whole or not at all, and a Commit that nobody disturbs does exactly     *)
(* what was put in its batch. Then their table (OpenTable), for every hash *)
(* function and however often it grows: a probe ends, it finds the newest  *)
(* write, and what a Get of faster handed out stays as it was.             *)
(***************************************************************************)
EXTENDS OpenTable, MemBatch, SequenceTheorems, FiniteSetTheorems, WellFoundedInduction, TLAPS

(***************************************************************************)
(* Batches.                                                                *)
(***************************************************************************)

\* Before the first operation of a batch a map is what it was.
LEMMA ReplayNone ==
  ASSUME NEW f \in [Keys -> Values \cup {Absent}], NEW ops \in Seq(Ops)
  PROVE  Replayed(f, SubSeq(ops, 1, 0)) = f
<1>1. SubSeq(ops, 1, 0) = <<>>
  BY SubSeqEmpty
<1>2. \A k \in Keys : WritesTo(<<>>, k) = {}
  BY DEF WritesTo
<1> QED
  BY <1>1, <1>2, Zenon DEF Replayed

\* A set of natural numbers that has any has a least one: what the provers need of
\* induction.
LEMMA LeastOf ==
  ASSUME NEW T \in SUBSET Nat, T # {}
  PROVE  \E x \in T : \A y \in T : x <= y
<1>1. PICK R : R = OpToRel(<, Nat)
  BY Zenon
<1>2. IsWellFoundedOn(R, Nat)
  BY <1>1, NatLessThanWellFounded, Zenon
<1>3. \A x, y \in Nat : y < x => <<y, x>> \in R
  BY <1>1 DEF OpToRel
<1>4. PICK x \in T : \A y \in T : ~ (<<y, x>> \in R)
  BY <1>2, WFMin, Zenon
<1>5. \A y \in T : y \in Nat
  OBVIOUS
<1>6. \A y \in T : ~ (y < x)
  BY <1>3, <1>4, <1>5, Zenon
<1> QED BY <1>5, <1>6

\* The last of some operations of a batch is one of them.
LEMMA NonEmptyMax ==
  ASSUME NEW n \in Nat, NEW S \in SUBSET (1..n), S # {}
  PROVE  Max(S) \in S /\ \A y \in S : y <= Max(S)
<1>1. PICK T : T = {n - i : i \in S}
  BY Zenon
<1>2. T \in SUBSET Nat /\ T # {}
  <2>1. \A i \in S : n - i \in Nat
    OBVIOUS
  <2>2. \E i \in S : n - i \in T
    BY <1>1, Zenon
  <2> QED BY <1>1, <2>1, <2>2
<1>3. PICK t \in T : \A y \in T : t <= y
  BY <1>2, LeastOf
<1>4. PICK x \in S : t = n - x
  BY <1>1, <1>3
<1>5. \A y \in S : n - y \in T
  BY <1>1
<1>6. \A y \in S : x >= y
  BY <1>3, <1>4, <1>5
<1> QED BY <1>6, Zenon DEF Max

\* One turn of the loop of applyBatch: the next operation overwrites its key.
LEMMA ReplayOne ==
  ASSUME NEW f \in [Keys -> Values \cup {Absent}], NEW ops \in Seq(Ops),
         NEW n \in Nat, n < Len(ops), NEW o, o = ops[n + 1]
  PROVE  Replayed(f, SubSeq(ops, 1, n + 1)) =
           [Replayed(f, SubSeq(ops, 1, n)) EXCEPT ![o.key] = o.val]
<1>0. PICK p : p = SubSeq(ops, 1, n)
  BY Zenon
<1>1. PICK q : q = SubSeq(ops, 1, n + 1)
  BY Zenon
<1>3. o.key \in Keys
  <2>1. o \in Ops
    OBVIOUS
  <2> QED BY <2>1 DEF Ops
<1>4. /\ DOMAIN p = 1..n /\ DOMAIN q = 1..(n + 1)
      /\ \A i \in 1..n : p[i] = q[i]
      /\ q[n + 1] = o
  BY <1>0, <1>1
<1>5. \A k : /\ WritesTo(p, k) \subseteq 1..n
             /\ WritesTo(q, k) = WritesTo(p, k) \cup {i \in {n + 1} : o.key = k}
  BY <1>4 DEF WritesTo
<1>6. ASSUME NEW k \in Keys, k # o.key
      PROVE  Replayed(f, q)[k] = Replayed(f, p)[k]
  <2>1. WritesTo(q, k) = WritesTo(p, k)
    BY <1>5, <1>6, Zenon
  <2>2. CASE WritesTo(p, k) = {}
    BY <2>1, <2>2 DEF Replayed
  <2>3. CASE WritesTo(p, k) # {}
    <3>1. Max(WritesTo(p, k)) \in WritesTo(p, k)
      BY <2>3, <1>5, NonEmptyMax, Zenon
    <3> QED BY <2>1, <2>3, <3>1, <1>4, <1>5 DEF Replayed
  <2> QED BY <2>2, <2>3
<1>7. Replayed(f, q)[o.key] = o.val
  <2>1. n + 1 \in WritesTo(q, o.key) /\ WritesTo(q, o.key) \subseteq 1..(n + 1)
    BY <1>5
  <2>2. Max(WritesTo(q, o.key)) = n + 1
    BY <2>1 DEF Max
  <2> QED BY <2>1, <2>2, <1>3, <1>4 DEF Replayed
<1>8. DOMAIN Replayed(f, q) = Keys /\ DOMAIN Replayed(f, p) = Keys
  BY DEF Replayed
<1>9. Replayed(f, q) = [Replayed(f, p) EXCEPT ![o.key] = o.val]
  BY <1>3, <1>6, <1>7, <1>8, Zenon DEF Replayed
<1> QED BY <1>0, <1>1, <1>9

\* memBatch.Put and memBatch.Delete come before the Commit.
LEMMA BufferKeeps ==
  ASSUME BatchInv, NEW c \in Clients, NEW o \in Ops, Buffer(c, o)
  PROVE  BatchInv'
<1> USE MemBatchAssumption
<1>1. /\ buf[c] \in Seq(Ops) /\ want[c] \in Seq(Ops)
      /\ Append(buf[c], o) \in Seq(Ops) /\ Append(want[c], o) \in Seq(Ops)
      /\ Len(Append(buf[c], o)) = Len(buf[c]) + 1
  BY DEF BatchInv, TypeOK
<1>2. TypeOK'
  BY <1>1 DEF BatchInv, TypeOK, Buffer
<1>3. LockInv'
  BY DEF BatchInv, TypeOK, LockInv, Buffer
<1>4. SoloCommitExact'
  BY DEF BatchInv, TypeOK, SoloCommitExact, Buffer
<1> QED BY <1>2, <1>3, <1>4 DEF BatchInv

\* memBatch.Commit calls applyBatch.
LEMMA CommitKeeps ==
  ASSUME BatchInv, NEW c \in Clients, Commit(c)
  PROVE  BatchInv'
  BY DEF BatchInv, TypeOK, LockInv, SoloCommitExact, Commit, history

\* applyBatch starts its loop, in faster and swiss once it has the lock.
LEMMA BeginKeeps ==
  ASSUME BatchInv, NEW c \in Clients, Begin(c)
  PROVE  BatchInv'
<1> USE MemBatchAssumption
<1>1. TypeOK'
  BY DEF BatchInv, TypeOK, Begin
<1>2. LockInv'
  BY DEF BatchInv, TypeOK, LockInv, Begin
<1>3. SoloCommitExact'
  <2> SUFFICES ASSUME NEW d \in Clients, pc'[d] = "apply", alone'[d]
               PROVE  /\ pos'[d] <= Len(want'[d])
                      /\ pos'[d] = Len(buf'[d]) => pos'[d] = Len(want'[d])
                      /\ store' = Replayed(before'[d], SubSeq(want'[d], 1, pos'[d]))
    BY DEF SoloCommitExact
  <2>1. buf' = buf /\ want' = want /\ pos' = pos /\ store' = store
    BY DEF Begin
  <2>2. CASE d # c
    BY <2>1, <2>2 DEF BatchInv, TypeOK, SoloCommitExact, Begin
  <2>3. CASE d = c
    <3>1. pos[c] = 0 /\ buf[c] = want[c] /\ want[c] \in Seq(Ops)
      BY DEF BatchInv, TypeOK, LockInv, Begin
    <3>2. before'[c] = store /\ store \in [Keys -> Values \cup {Absent}]
      BY DEF BatchInv, TypeOK, Begin
    <3> QED BY <2>1, <2>3, <3>1, <3>2, ReplayNone
  <2> QED BY <2>2, <2>3
<1> QED BY <1>1, <1>2, <1>3 DEF BatchInv

\* One turn of the loop of applyBatch. In faster and swiss it is the holder's, so
\* nobody else's Commit is disturbed by it.
LEMMA ApplyOpKeeps ==
  ASSUME BatchInv, NEW c \in Clients, ApplyOp(c)
  PROVE  BatchInv'
<1> USE MemBatchAssumption
<1>1. PICK o : o = buf[c][pos[c] + 1]
  OBVIOUS
<1>2. /\ pc[c] = "apply" /\ pos[c] \in Nat /\ pos[c] < Len(buf[c])
      /\ buf[c] \in Seq(Ops) /\ buf[c] = want[c]
      /\ store' = [store EXCEPT ![o.key] = o.val]
      /\ pos' = [pos EXCEPT ![c] = pos[c] + 1]
      /\ alone' = [d \in Clients |-> alone[d] /\ d = c]
      /\ UNCHANGED <<perOp, mu, buf, pc, want, before>>
  BY <1>1 DEF BatchInv, TypeOK, LockInv, ApplyOp
<1>3. o \in Ops
  BY <1>1, <1>2
<1>4. o.key \in Keys /\ o.val \in Values \cup {Absent}
  BY <1>3 DEF Ops
<1>5. TypeOK'
  BY <1>2, <1>4 DEF BatchInv, TypeOK
<1>6. LockInv'
  BY <1>2 DEF BatchInv, TypeOK, LockInv
<1>7. SoloCommitExact'
  <2>1. \A d \in Clients : alone'[d] => d = c /\ alone[c]
    BY <1>2, Zenon
  <2>2. ASSUME alone[c]
        PROVE  store' = Replayed(before[c], SubSeq(want[c], 1, pos[c] + 1))
    <3>1. store = Replayed(before[c], SubSeq(want[c], 1, pos[c]))
      BY <1>2, <2>2 DEF BatchInv, SoloCommitExact
    <3>2. before[c] \in [Keys -> Values \cup {Absent}]
      BY DEF BatchInv, TypeOK
    <3>3. PICK w \in Seq(Ops) : w = want[c]
      BY <1>2
    <3>4. PICK n \in Nat : n = pos[c] /\ n < Len(w) /\ o = w[n + 1]
      BY <1>1, <1>2, <3>3
    <3>5. Replayed(before[c], SubSeq(w, 1, n + 1)) =
            [Replayed(before[c], SubSeq(w, 1, n)) EXCEPT ![o.key] = o.val]
      BY <3>2, <3>4, ReplayOne
    <3> QED BY <1>2, <3>1, <3>3, <3>4, <3>5, Zenon
  <2>3. pos'[c] = pos[c] + 1 /\ pos[c] + 1 <= Len(want[c])
    BY <1>2 DEF BatchInv, TypeOK
  <2> QED BY <1>2, <2>1, <2>2, <2>3 DEF SoloCommitExact
<1> QED BY <1>5, <1>6, <1>7 DEF BatchInv

\* The loop ends, the lock is released, and Commit empties the buffer.
LEMMA FinishKeeps ==
  ASSUME BatchInv, NEW c \in Clients, Finish(c)
  PROVE  BatchInv'
<1> USE MemBatchAssumption
<1>1. TypeOK'
  BY DEF BatchInv, TypeOK, Finish
<1>2. LockInv'
  BY DEF BatchInv, TypeOK, LockInv, Finish
<1>3. SoloCommitExact'
  BY DEF BatchInv, TypeOK, SoloCommitExact, Finish
<1> QED BY <1>1, <1>2, <1>3 DEF BatchInv

\* The clients' operations only read what a step that changes nothing leaves.
LEMMA StutterKeeps ==
  ASSUME BatchInv, UNCHANGED vars
  PROVE  BatchInv'
  BY DEF BatchInv, TypeOK, LockInv, SoloCommitExact, vars

\* Theorem: for any clients, keys and values, a Commit nobody disturbs has done, at
\* every moment of its loop, exactly the operations its client buffered, in order
\* and the last write of a key winning; and the loops of faster and swiss run one
\* at a time.
THEOREM CommitCorrect == Spec => []BatchInv
<1>1. Init => BatchInv
  BY MemBatchAssumption DEF Init, BatchInv, TypeOK, LockInv, SoloCommitExact
<1>2. BatchInv /\ [Next]_vars => BatchInv'
  BY BufferKeeps, CommitKeeps, BeginKeeps, ApplyOpKeeps, FinishKeeps, StutterKeeps DEF Next
<1> QED BY <1>1, <1>2, PTL DEF Spec

\* Theorem: what Gets can see of faster and swiss changes by whole batches only
\* ("AtomicBatch: batch Commit is atomic"), whatever the clients do meanwhile.
THEOREM CommitAtomic == Spec => BatchAtomic
<1> DEFINE Whole == ~perOp /\ Visible' # Visible =>
             \E c \in Clients : pc[c] = "apply" /\ Visible' = Replayed(Visible, want[c])
<1>1. ASSUME BatchInv, NEW c \in Clients, NEW o \in Ops, Buffer(c, o)
      PROVE  Visible' = Visible
  BY <1>1 DEF Buffer, Visible
<1>2. ASSUME BatchInv, NEW c \in Clients, Commit(c)
      PROVE  Visible' = Visible
  BY <1>2 DEF Commit, Visible, history
<1>3. ASSUME BatchInv, NEW c \in Clients, Begin(c), ~perOp
      PROVE  Visible' = Visible
  <2>1. mu = {} /\ mu' = {c} /\ before'[c] = store
    BY <1>3 DEF Begin, BatchInv, TypeOK
  <2> QED BY <2>1 DEF Visible
<1>4. ASSUME BatchInv, NEW c \in Clients, ApplyOp(c), ~perOp
      PROVE  Visible' = Visible
  <2>1. c \in mu /\ mu' = mu /\ before' = before
    BY <1>4 DEF ApplyOp, BatchInv, LockInv
  <2> QED BY <2>1 DEF Visible
<1>5. ASSUME BatchInv, NEW c \in Clients, Finish(c), ~perOp
      PROVE  pc[c] = "apply" /\ Visible' = Replayed(Visible, want[c])
  <2>1. pc[c] = "apply" /\ mu = {c} /\ mu' = {} /\ alone[c] /\ store' = store
    BY <1>5 DEF Finish, BatchInv, LockInv
  <2>2. pos[c] = Len(want[c]) /\ want[c] \in Seq(Ops)
    BY <1>5 DEF Finish, BatchInv, LockInv, TypeOK
  <2>3. store = Replayed(before[c], SubSeq(want[c], 1, Len(want[c])))
    BY <1>5, <2>1, <2>2 DEF BatchInv, SoloCommitExact
  <2>4. store = Replayed(before[c], want[c])
    BY <2>2, <2>3, SubSeqFull, Zenon
  <2>5. Visible = before[c] /\ Visible' = store
    BY <2>1 DEF Visible
  <2> QED BY <2>1, <2>4, <2>5
<1>6. ASSUME UNCHANGED vars
      PROVE  Visible' = Visible
  BY <1>6 DEF vars, Visible
<1>7. BatchInv /\ [Next]_vars => [Whole]_vars
  BY <1>1, <1>2, <1>3, <1>4, <1>5, <1>6 DEF Next
<1> QED BY <1>7, CommitCorrect, PTL DEF Spec, BatchAtomic

-----------------------------------------------------------------------------
(***************************************************************************)
(* The table. Everything the proofs need of the modular walk (i + 1) &     *)
(* mask is in the first lemma.                                             *)
(***************************************************************************)

\* Distances from the home slot number the slots in the order a probe meets them.
LEMMA DistFacts ==
  ASSUME NEW n \in Nat, n >= 2, NEW k \in Keys, NEW i \in SlotNos(n), NEW j \in SlotNos(n)
  PROVE  /\ Dist(n, k, i) \in Nat
         /\ Dist(n, k, i) = Dist(n, k, j) => i = j
         /\ Dist(n, k, i) <= Dist(n, k, j) /\ i # j => Dist(n, k, i) < Dist(n, k, j)
         /\ Dist(n, k, i) < Dist(n, k, j) => ~(Dist(n, k, j) <= Dist(n, k, i))
<1>1. PICK h : h = Home(n, k)
  BY Zenon
<1>2. h \in 0..(n - 1)
  BY <1>1, OpenTableAssumption DEF Home
<1>3. i \in 0..(n - 1) /\ j \in 0..(n - 1)
  BY DEF SlotNos
<1>4. PICK a : a = Dist(n, k, i)
  BY Zenon
<1>5. PICK b : b = Dist(n, k, j)
  BY Zenon
<1>6. a = (IF i >= h THEN i - h ELSE (i - h) + n) /\ b = (IF j >= h THEN j - h ELSE (j - h) + n)
  BY <1>1, <1>4, <1>5, Zenon DEF Dist
<1>7. /\ a \in Nat /\ (a = b => i = j)
      /\ a <= b /\ i # j => a < b
      /\ a < b => ~(b <= a)
  BY <1>2, <1>3, <1>6
<1> QED BY <1>4, <1>5, <1>7, Zenon

\* A probe that may stop at some slots stops at one of them first.
LEMMA FirstExists ==
  ASSUME NEW n \in Nat, n >= 2, NEW k \in Keys, NEW S \in SUBSET SlotNos(n), S # {}
  PROVE  \E i \in S : FirstOf(n, k, S, i)
<1>1. PICK T : T = {Dist(n, k, j) : j \in S}
  BY Zenon
<1>2. \A j \in S : Dist(n, k, j) \in Nat
  BY DistFacts, Zenon
<1>3. T \in SUBSET Nat /\ T # {}
  BY <1>1, <1>2, Zenon
<1>4. PICK x \in T : \A y \in T : x <= y
  BY <1>3, LeastOf, Zenon
<1>5. PICK i \in S : x = Dist(n, k, i)
  BY <1>1, <1>4, Zenon
<1>6. \A j \in S : Dist(n, k, i) <= Dist(n, k, j)
  BY <1>1, <1>4, <1>5, Zenon
<1> QED BY <1>5, <1>6, Zenon DEF FirstOf

\* Slots are finitely many, and there are as many as the table has.
LEMMA SlotCount ==
  ASSUME NEW n \in Nat
  PROVE  IsFiniteSet(SlotNos(n)) /\ Cardinality(SlotNos(n)) = n
<1>1. IsFiniteSet(0..(n - 1)) /\ Cardinality(0..(n - 1)) = IF 0 > n - 1 THEN 0 ELSE (n - 1) - 0 + 1
  BY FS_Interval
<1> QED BY <1>1 DEF SlotNos

\* The slots that count as full or used, in a table.
LEMMA UsedFacts ==
  ASSUME NEW n \in Nat, NEW s, DOMAIN s = SlotNos(n)
  PROVE  /\ Full(s) \subseteq Used(s) /\ Used(s) \subseteq SlotNos(n)
         /\ IsFiniteSet(Full(s)) /\ IsFiniteSet(Used(s))
         /\ Cardinality(Full(s)) \in Nat /\ Cardinality(Used(s)) \in Nat
         /\ Cardinality(Full(s)) <= Cardinality(Used(s))
<1>1. Full(s) \subseteq Used(s) /\ Used(s) \subseteq SlotNos(n)
  BY DEF Full, Used
<1>2. IsFiniteSet(Used(s)) /\ Cardinality(Used(s)) \in Nat
  BY <1>1, SlotCount, FS_Subset, FS_CardinalityType, Zenon
<1>3. IsFiniteSet(Full(s)) /\ Cardinality(Full(s)) \in Nat /\ Cardinality(Full(s)) <= Cardinality(Used(s))
  BY <1>1, <1>2, FS_Subset, FS_CardinalityType, Zenon
<1> QED BY <1>1, <1>2, <1>3, Zenon

\* Counting one slot more, or one less.
LEMMA CountOne ==
  ASSUME NEW S, IsFiniteSet(S), NEW x
  PROVE  /\ x \notin S => Cardinality(S \cup {x}) = Cardinality(S) + 1
         /\ x \in S => Cardinality(S \ {x}) = Cardinality(S) - 1
<1>1. Cardinality(S \cup {x}) = IF x \in S THEN Cardinality(S) ELSE Cardinality(S) + 1
  BY FS_AddElement, Zenon
<1>2. Cardinality(S \ {x}) = IF x \in S THEN Cardinality(S) - 1 ELSE Cardinality(S)
  BY FS_RemoveElement, Zenon
<1> QED BY <1>1, <1>2, Zenon

\* A load factor below one leaves a slot empty.
LEMMA EmptySlot ==
  ASSUME NEW n \in Nat, NEW s, DOMAIN s = SlotNos(n), Cardinality(Used(s)) < n
  PROVE  \E i \in SlotNos(n) : s[i].st = "empty"
<1>1. SUFFICES ASSUME \A i \in SlotNos(n) : s[i].st # "empty"
               PROVE  FALSE
  BY Zenon
<1>2. Used(s) = SlotNos(n)
  BY <1>1, Zenon DEF Used
<1>3. Cardinality(Used(s)) = n
  BY <1>2, SlotCount, Zenon
<1> QED BY <1>3

\* A table of n slots whose probe runs are intact.
IsTable(n, s) == n \in Nat /\ n >= 2 /\ s \in [SlotNos(n) -> Slot] /\ RunsIntact(n, s)

\* No slot has the key k, whose probe ends at the empty slot i.
Misses(n, s, k, i) ==
  /\ s[i].st = "empty" /\ \A j \in Full(s) : s[j].key # k
  /\ \A j \in SlotNos(n) : Dist(n, k, j) < Dist(n, k, i) => s[j].st # "empty"

\* Where the loop of Get, putLocked or deleteLocked ends: at the key's slot, or at an
\* empty slot when no slot has the key.
LEMMA ProbeEnd ==
  ASSUME NEW n, NEW s, IsTable(n, s), NEW k \in Keys, NEW i \in SlotNos(n), EndsProbe(n, s, k, i)
  PROVE  /\ Holds(s, k, i) => i \in Full(s) /\ s[i].key = k
         /\ ~Holds(s, k, i) => Misses(n, s, k, i)
<1>0. n \in Nat /\ n >= 2 /\ RunsIntact(n, s) /\ DOMAIN s = SlotNos(n)
  BY Zenon DEF IsTable
<1>1. Holds(s, k, i) => i \in Full(s) /\ s[i].key = k
  BY <1>0, Zenon DEF Holds, Full
<1>2. ASSUME ~Holds(s, k, i)
      PROVE  s[i].st = "empty"
  BY <1>2, Zenon DEF EndsProbe, FirstOf
<1>3. ASSUME ~Holds(s, k, i), NEW j \in Full(s), s[j].key = k
      PROVE  FALSE
  <2>1. j \in SlotNos(n) /\ s[j].st = "full" /\ Holds(s, k, j)
    BY <1>0, <1>3, Zenon DEF Full, Holds
  <2>2. Dist(n, k, i) <= Dist(n, k, j)
    BY <1>0, <2>1, Zenon DEF EndsProbe, FirstOf
  <2>3. i # j
    BY <1>3, <2>1, Zenon
  <2>4. Dist(n, k, i) < Dist(n, k, j)
    BY <1>0, <2>1, <2>2, <2>3, DistFacts, Zenon
  <2> QED BY <1>0, <1>2, <1>3, <2>4, Zenon DEF RunsIntact
<1>4. ASSUME NEW j \in SlotNos(n), Dist(n, k, j) < Dist(n, k, i), s[j].st = "empty"
      PROVE  FALSE
  <2>1. Dist(n, k, i) <= Dist(n, k, j)
    BY <1>0, <1>4, Zenon DEF EndsProbe, FirstOf
  <2> QED BY <1>0, <1>4, <2>1, DistFacts, Zenon
<1> QED BY <1>1, <1>2, <1>3, <1>4, Zenon DEF Misses

\* A probe for any key ends, as long as a slot is empty.
LEMMA ProbeEnds ==
  ASSUME NEW n \in Nat, n >= 2, NEW s \in [SlotNos(n) -> Slot], Cardinality(Used(s)) < n,
         NEW k \in Keys
  PROVE  \E i \in SlotNos(n) : EndsProbe(n, s, k, i)
<1>1. DOMAIN s = SlotNos(n)
  BY Zenon
<1>2. PICK e \in SlotNos(n) : s[e].st = "empty"
  BY <1>1, EmptySlot, Zenon
<1>3. PICK S : S = {j \in DOMAIN s : s[j].st = "empty" \/ Holds(s, k, j)}
  BY Zenon
<1>4. S \in SUBSET SlotNos(n) /\ S # {}
  BY <1>1, <1>2, <1>3, Zenon
<1>5. PICK i \in S : FirstOf(n, k, S, i)
  BY <1>4, FirstExists, Zenon
<1> QED BY <1>3, <1>4, <1>5, Zenon DEF EndsProbe

\* Slot j is a tombstone the probe for k passed before i, or else empty, and everything
\* before it on the probe is in use.
Vacant(n, s, k, i, j) ==
  /\ s[j].st # "full" /\ (s[j].st = "empty" <=> TombsPassed(n, s, k, i) = {})
  /\ \A m \in SlotNos(n) : Dist(n, k, m) < Dist(n, k, j) => s[m].st # "empty"

\* The slot a new key goes to.
LEMMA InsertSlot ==
  ASSUME NEW n \in Nat, n >= 2, NEW s, NEW k \in Keys,
         NEW i \in SlotNos(n), NEW j \in SlotNos(n), InsertsAt(n, s, k, i, j), Misses(n, s, k, i)
  PROVE  Vacant(n, s, k, i, j)
<1>0. /\ s[i].st = "empty" /\ s[i].st # "full"
      /\ \A m \in SlotNos(n) : Dist(n, k, m) < Dist(n, k, i) => s[m].st # "empty"
  BY DEF Misses
<1>1. CASE TombsPassed(n, s, k, i) = {}
  <2>1. j = i
    BY <1>1, Zenon DEF InsertsAt
  <2> QED BY <1>0, <1>1, <2>1, Zenon DEF Vacant
<1>2. CASE TombsPassed(n, s, k, i) # {}
  <2>1. j \in TombsPassed(n, s, k, i)
    BY <1>2, Zenon DEF InsertsAt, FirstOf
  <2>2. s[j].st = "tomb" /\ Dist(n, k, j) < Dist(n, k, i)
    BY <2>1, Zenon DEF TombsPassed
  <2>3. ASSUME NEW m \in SlotNos(n), Dist(n, k, m) < Dist(n, k, j)
        PROVE  s[m].st # "empty"
    <3>1. Dist(n, k, m) \in Nat /\ Dist(n, k, j) \in Nat /\ Dist(n, k, i) \in Nat
      BY DistFacts, Zenon
    <3>2. Dist(n, k, m) < Dist(n, k, i)
      BY <2>2, <2>3, <3>1
    <3> QED BY <1>0, <3>2, Zenon
  <2>4. s[j].st # "full" /\ s[j].st # "empty"
    BY <2>2
  <2> QED BY <1>2, <2>3, <2>4, Zenon DEF Vacant
<1> QED BY <1>1, <1>2, Zenon

\* Table t is s with a new key in slot j, which was not full and before which the
\* probe for the key finds nothing empty.
Fills(n, s, w, j, t) ==
  /\ n \in Nat /\ n >= 2 /\ s \in [SlotNos(n) -> Slot] /\ RunsIntact(n, s)
  /\ w \in Slot /\ w.st = "full" /\ w.key \in Keys /\ \A i \in Full(s) : s[i].key # w.key
  /\ j \in SlotNos(n) /\ s[j].st # "full"
  /\ \A m \in SlotNos(n) : Dist(n, w.key, m) < Dist(n, w.key, j) => s[m].st # "empty"
  /\ t = [s EXCEPT ![j] = w]

\* What that makes of the table: one full slot more, and one more in use unless the
\* slot was a tombstone.
Filled(n, s, w, j, t) ==
  /\ t \in [SlotNos(n) -> Slot] /\ RunsIntact(n, t)
  /\ t[j] = w /\ \A m \in SlotNos(n) \ {j} : t[m] = s[m]
  /\ j \notin Full(s) /\ Full(t) = Full(s) \cup {j}
  /\ Used(t) = Used(s) \cup {j}
  /\ Cardinality(Full(t)) = Cardinality(Full(s)) + 1
  /\ Cardinality(Used(t)) = Cardinality(Used(s)) + (IF s[j].st = "empty" THEN 1 ELSE 0)

\* A new key in a slot that was not full: an insert, or a slot that grow carries over.
LEMMA FillKeeps ==
  ASSUME NEW n, NEW s, NEW w, NEW j, NEW t, Fills(n, s, w, j, t)
  PROVE  Filled(n, s, w, j, t)
<1>0. /\ n \in Nat /\ n >= 2 /\ s \in [SlotNos(n) -> Slot] /\ RunsIntact(n, s)
      /\ w \in Slot /\ w.st = "full" /\ w.key \in Keys /\ \A i \in Full(s) : s[i].key # w.key
      /\ j \in SlotNos(n) /\ s[j].st # "full"
      /\ \A m \in SlotNos(n) : Dist(n, w.key, m) < Dist(n, w.key, j) => s[m].st # "empty"
      /\ t = [s EXCEPT ![j] = w]
  BY Zenon DEF Fills
<1>1. /\ t \in [SlotNos(n) -> Slot] /\ DOMAIN t = SlotNos(n) /\ DOMAIN s = SlotNos(n)
      /\ t[j] = w /\ \A m \in SlotNos(n) \ {j} : t[m] = s[m]
  BY <1>0, Zenon
<1>2. /\ j \notin Full(s) /\ Full(t) = Full(s) \cup {j} /\ Used(t) = Used(s) \cup {j}
      /\ (j \in Used(s) <=> s[j].st # "empty")
  BY <1>0, <1>1 DEF Full, Used
<1>3. RunsIntact(n, t)
  <2> SUFFICES ASSUME NEW i \in Full(t)
               PROVE  /\ t[i].key \in Keys
                      /\ \A m \in Full(t) : t[i].key = t[m].key => i = m
                      /\ \A m \in DOMAIN t : Dist(n, t[i].key, m) < Dist(n, t[i].key, i)
                                               => t[m].st # "empty"
    BY Zenon DEF RunsIntact
  <2>1. \A m \in Full(s) : m \in SlotNos(n) /\ m # j /\ t[m] = s[m]
    BY <1>1, <1>2, Zenon DEF Full
  <2>2. \A m \in DOMAIN t : t[m].st = "empty" => m # j /\ s[m].st = "empty"
    <3>1. w.st # "empty"
      BY <1>0
    <3> QED BY <1>1, <3>1, Zenon
  <2>3. CASE i = j
    BY <1>0, <1>1, <1>2, <2>1, <2>2, <2>3, Zenon
  <2>4. CASE i # j
    <3>1. i \in Full(s)
      BY <1>2, <2>4, Zenon
    <3>2. /\ s[i].key \in Keys /\ \A m \in Full(s) : s[i].key = s[m].key => i = m
          /\ \A m \in SlotNos(n) : Dist(n, s[i].key, m) < Dist(n, s[i].key, i) => s[m].st # "empty"
      BY <1>0, <1>1, <3>1, Zenon DEF RunsIntact
    <3>3. t[i] = s[i] /\ s[i].key # t[j].key
      BY <1>0, <1>1, <2>1, <3>1, Zenon
    <3>4. \A m \in Full(t) : t[i].key = t[m].key => i = m
      BY <1>2, <2>1, <3>2, <3>3, Zenon
    <3> QED BY <1>1, <2>2, <3>2, <3>3, <3>4, Zenon
  <2> QED BY <2>3, <2>4, Zenon
<1>4. IsFiniteSet(Full(s)) /\ IsFiniteSet(Used(s))
  BY <1>0, <1>1, UsedFacts, Zenon
<1>5. Cardinality(Full(t)) = Cardinality(Full(s)) + 1
  BY <1>2, <1>4, CountOne, Zenon
<1>6. Cardinality(Used(t)) = Cardinality(Used(s)) + (IF s[j].st = "empty" THEN 1 ELSE 0)
  <2>1. CASE s[j].st = "empty"
    <3>1. j \notin Used(s)
      BY <1>2, <2>1, Zenon
    <3>2. Cardinality(Used(t)) = Cardinality(Used(s)) + 1
      BY <1>2, <1>4, <3>1, CountOne, Zenon
    <3> QED BY <2>1, <3>2, Zenon
  <2>2. CASE s[j].st # "empty"
    <3>1. Cardinality(Used(s)) \in Nat
      BY <1>0, <1>1, UsedFacts, Zenon
    <3>2. Used(t) = Used(s)
      BY <1>2, <2>2, Zenon
    <3> QED BY <2>2, <3>1, <3>2
  <2> QED BY <2>1, <2>2
<1> QED BY <1>1, <1>2, <1>3, <1>5, <1>6, Zenon DEF Filled

\* Table t is s after a delete of the key in slot j.
Cleared(n, s, j, t) ==
  /\ IsTable(n, t)
  /\ Full(t) = Full(s) \ {j} /\ \A m \in Full(t) : t[m] = s[m]
  /\ Used(t) = Used(s)
  /\ Cardinality(Full(t)) = Cardinality(Full(s)) - 1

\* deleteLocked leaves a tombstone: probes that went past the key still do.
LEMMA TombKeeps ==
  ASSUME NEW n, NEW s, IsTable(n, s), NEW j \in Full(s), NEW t, t = [s EXCEPT ![j] = Tomb]
  PROVE  Cleared(n, s, j, t)
<1>a. n \in Nat /\ n >= 2 /\ s \in [SlotNos(n) -> Slot] /\ RunsIntact(n, s)
  BY Zenon DEF IsTable
<1>0. DOMAIN s = SlotNos(n) /\ j \in SlotNos(n) /\ s[j].st = "full"
  BY <1>a, Zenon DEF Full
<1>1. Tomb \in Slot /\ Tomb.st = "tomb"
  BY DEF Tomb, Slot
<1>2. /\ t \in [SlotNos(n) -> Slot] /\ DOMAIN t = SlotNos(n)
      /\ t[j] = Tomb /\ \A m \in SlotNos(n) \ {j} : t[m] = s[m]
  BY <1>a, <1>0, <1>1, Zenon
<1>3. Full(t) = Full(s) \ {j} /\ Used(t) = Used(s)
  BY <1>0, <1>1, <1>2 DEF Full, Used
<1>4. \A m \in Full(t) : m \in Full(s) /\ t[m] = s[m]
  BY <1>0, <1>2, <1>3, Zenon DEF Full
<1>5. \A m \in SlotNos(n) : t[m].st = "empty" => s[m].st = "empty"
  <2>1. Tomb.st # "empty"
    BY <1>1
  <2> QED BY <1>2, <2>1, Zenon
<1>6. RunsIntact(n, t)
  <2> SUFFICES ASSUME NEW i \in Full(t)
               PROVE  /\ t[i].key \in Keys
                      /\ \A m \in Full(t) : t[i].key = t[m].key => i = m
                      /\ \A m \in DOMAIN t : Dist(n, t[i].key, m) < Dist(n, t[i].key, i)
                                               => t[m].st # "empty"
    BY Zenon DEF RunsIntact
  <2>1. i \in Full(s) /\ t[i] = s[i]
    BY <1>4, Zenon
  <2>2. /\ s[i].key \in Keys /\ \A m \in Full(s) : s[i].key = s[m].key => i = m
        /\ \A m \in SlotNos(n) : Dist(n, s[i].key, m) < Dist(n, s[i].key, i) => s[m].st # "empty"
    BY <1>a, <1>0, <2>1, Zenon DEF RunsIntact
  <2> QED BY <1>2, <1>4, <1>5, <2>1, <2>2, Zenon
<1>7. Cardinality(Full(t)) = Cardinality(Full(s)) - 1
  BY <1>a, <1>0, <1>3, UsedFacts, CountOne, Zenon
<1> QED BY <1>a, <1>2, <1>3, <1>4, <1>6, <1>7, Zenon DEF Cleared, IsTable

\* Table t is s after slot j was pointed at buffer b.
Repointed(n, s, j, b, t) ==
  /\ IsTable(n, t)
  /\ Full(t) = Full(s) /\ Used(t) = Used(s)
  /\ t[j].key = s[j].key /\ t[j].buf = b /\ \A m \in Full(s) \ {j} : t[m] = s[m]

\* An overwrite of faster points the key's slot at another record.
LEMMA RepointKeeps ==
  ASSUME NEW n, NEW s, IsTable(n, s), NEW j \in Full(s), NEW b \in Nat,
         NEW t, t = [s EXCEPT ![j].buf = b]
  PROVE  Repointed(n, s, j, b, t)
<1>a. n \in Nat /\ n >= 2 /\ s \in [SlotNos(n) -> Slot] /\ RunsIntact(n, s)
  BY Zenon DEF IsTable
<1>0. DOMAIN s = SlotNos(n) /\ j \in SlotNos(n) /\ s[j].st = "full" /\ s[j] \in Slot
  BY <1>a, Zenon DEF Full
<1>1. PICK w : w = [s[j] EXCEPT !.buf = b]
  BY Zenon
<1>2. w \in Slot /\ w.st = "full" /\ w.key = s[j].key /\ w.buf = b
  BY <1>0, <1>1 DEF Slot
<1>3. t = [s EXCEPT ![j] = w]
  BY <1>1, Zenon
<1>4. /\ t \in [SlotNos(n) -> Slot] /\ DOMAIN t = SlotNos(n)
      /\ t[j] = w /\ \A m \in SlotNos(n) \ {j} : t[m] = s[m]
  BY <1>a, <1>0, <1>2, <1>3, Zenon
<1>5. \A m \in SlotNos(n) : t[m].st = s[m].st /\ t[m].key = s[m].key
  BY <1>0, <1>2, <1>4, Zenon
<1>6. Full(t) = Full(s) /\ Used(t) = Used(s)
  BY <1>0, <1>4, <1>5 DEF Full, Used
<1>7. \A m \in Full(s) : m \in SlotNos(n)
  BY <1>0, Zenon DEF Full
<1>8. RunsIntact(n, t)
  BY <1>a, <1>0, <1>4, <1>5, <1>6, <1>7 DEF RunsIntact
<1> QED BY <1>a, <1>2, <1>4, <1>6, <1>7, <1>8, Zenon DEF Repointed, IsTable

\* The load factors of faster and swiss: an exact counter within them leaves a slot
\* free, and doubling the table makes room for one more.
LEMMA LoadFactor ==
  ASSUME NEW d \in Designs, NEW u \in Nat, NEW n \in Nat, n >= 2
  PROVE  /\ d.inPlace \in BOOLEAN
         /\ d.den * u <= d.num * n => u < n
         /\ ~(d.den * (u + 1) > d.num * n) => d.den * (u + 1) <= d.num * n
         /\ d.den * u <= d.num * n => \A x \in Nat : x <= u =>
              /\ d.den * x <= d.num * n /\ d.den * x <= d.num * (2 * n)
              /\ ~(d.den * (x + 1) > d.num * (2 * n))
         /\ d.den * 0 <= d.num * n
<1>1. d \in {Faster, Swiss}
  BY OpenTableAssumption, Zenon
<1>2. CASE d = Faster
  <2>1. d.den = 10 /\ d.num = 7 /\ d.inPlace \in BOOLEAN
    BY <1>2 DEF Faster
  <2> QED BY <2>1
<1>3. CASE d = Swiss
  <2>1. d.den = 4 /\ d.num = 3 /\ d.inPlace \in BOOLEAN
    BY <1>3 DEF Swiss
  <2> QED BY <2>1
<1> QED BY <1>1, <1>2, <1>3, Zenon

\* The buffers after an insert or an overwrite of faster: one more, at the end.
LEMMA AppendBuf ==
  ASSUME NEW b \in Seq(Values), NEW v \in Values, NEW c, c = Append(b, v)
  PROVE  /\ c \in Seq(Values) /\ Len(b) \in Nat /\ Len(c) = Len(b) + 1 /\ c[Len(b) + 1] = v
         /\ \A x \in 1..Len(b) : c[x] = b[x] /\ x \in 1..Len(c) /\ x # Len(b) + 1
         /\ Len(b) + 1 \in 1..Len(c) /\ Len(b) + 1 \in Nat
  OBVIOUS

\* The buffers after an overwrite of swiss: the same ones, one with new contents.
LEMMA StoreBuf ==
  ASSUME NEW b \in Seq(Values), NEW v \in Values, NEW x \in 1..Len(b),
         NEW c, c = [b EXCEPT ![x] = v]
  PROVE  /\ c \in Seq(Values) /\ Len(c) = Len(b) /\ c[x] = v
         /\ \A y \in 1..Len(b) \ {x} : c[y] = b[y]
  OBVIOUS

\* A write of v to k: the table s of buffers b has the newest writes f, with one slot
\* for each key; g is f after the write.
Writes(f, b, s, k, v, g) ==
  /\ f \in [Keys -> Values \cup {Absent}] /\ b \in Seq(Values)
  /\ Newest(f, b, s) /\ Unshared(s, Len(b))
  /\ \A i, m \in Full(s) : s[i].key = s[m].key => i = m
  /\ k \in Keys /\ g = [f EXCEPT ![k] = v]

\* The table t of buffers c, which are not fewer than b, has the newest writes g.
Current(b, g, c, t) ==
  c \in Seq(Values) /\ Len(b) <= Len(c) /\ Newest(g, c, t) /\ Unshared(t, Len(c))

\* A new key in slot j of t, with a buffer of its own.
Inserts(b, s, k, v, j, t, c) ==
  /\ \A i \in Full(s) : s[i].key # k
  /\ Full(t) = Full(s) \cup {j} /\ j \notin Full(s)
  /\ t[j].key = k /\ t[j].buf = Len(b) + 1 /\ \A i \in Full(s) : t[i] = s[i]
  /\ v \in Values /\ c = Append(b, v)

\* After a new key is in its slot the table holds the newest writes.
LEMMA InsertNewest ==
  ASSUME NEW f, NEW b, NEW s, NEW k, NEW v, NEW g, Writes(f, b, s, k, v, g),
         NEW j, NEW t, NEW c, Inserts(b, s, k, v, j, t, c)
  PROVE  Current(b, g, c, t)
<1>1. /\ \A i \in Full(s) : s[i].key # k
      /\ Full(t) = Full(s) \cup {j} /\ j \notin Full(s)
      /\ t[j].key = k /\ t[j].buf = Len(b) + 1 /\ \A i \in Full(s) : t[i] = s[i]
      /\ v \in Values /\ c = Append(b, v)
  BY Zenon DEF Inserts
<1>2. /\ c \in Seq(Values) /\ Len(b) <= Len(c)
      /\ Len(c) = Len(b) + 1 /\ c[Len(b) + 1] = v /\ Len(b) + 1 \in 1..Len(c)
      /\ \A x \in 1..Len(b) : c[x] = b[x] /\ x \in 1..Len(c) /\ x # Len(b) + 1
  BY <1>1, AppendBuf DEF Writes
<1>3. k \in Keys /\ g[k] = v /\ \A x \in Keys \ {k} : g[x] = f[x]
  BY Zenon DEF Writes
<1>4. \A i \in Full(s) : /\ s[i].key \in Keys /\ f[s[i].key] = b[s[i].buf]
                         /\ s[i].buf \in 1..Len(b)
                         /\ \A m \in Full(s) : s[i].buf = s[m].buf => i = m
  BY Zenon DEF Writes, Newest, Unshared
<1>5. \A x \in Keys : f[x] # Absent => \E i \in Full(s) : s[i].key = x
  BY Zenon DEF Writes, Newest
<1>6. Unshared(t, Len(c))
  <2>1. \A i \in Full(t) : i = j \/ i \in Full(s)
    BY <1>1, Zenon
  <2>2. \A i \in Full(s) : t[i].buf \in 1..Len(c) /\ t[i].buf # t[j].buf
    BY <1>1, <1>2, <1>4
  <2> QED BY <1>1, <1>2, <1>4, <2>1, <2>2 DEF Unshared
<1>7. \A i \in Full(t) : t[i].key \in Keys /\ g[t[i].key] = c[t[i].buf]
  BY <1>1, <1>2, <1>3, <1>4
<1>8. \A x \in Keys : g[x] # Absent => \E i \in Full(t) : t[i].key = x
  <2>1. j \in Full(t) /\ \A i \in Full(s) : i \in Full(t)
    BY <1>1, Zenon
  <2> QED BY <1>1, <1>3, <1>5, <2>1
<1> QED BY <1>2, <1>6, <1>7, <1>8, Zenon DEF Current, Newest

\* An overwrite of faster points the key's slot j at a new record.
Repoints(b, s, k, v, j, t, c) ==
  /\ j \in Full(s) /\ s[j].key = k /\ Full(t) = Full(s)
  /\ t[j].key = k /\ t[j].buf = Len(b) + 1 /\ \A i \in Full(s) \ {j} : t[i] = s[i]
  /\ v \in Values /\ c = Append(b, v)

\* After it the table holds the newest writes.
LEMMA RepointNewest ==
  ASSUME NEW f, NEW b, NEW s, NEW k, NEW v, NEW g, Writes(f, b, s, k, v, g),
         NEW j, NEW t, NEW c, Repoints(b, s, k, v, j, t, c)
  PROVE  Current(b, g, c, t)
<1>1. /\ j \in Full(s) /\ s[j].key = k /\ Full(t) = Full(s)
      /\ t[j].key = k /\ t[j].buf = Len(b) + 1 /\ \A i \in Full(s) \ {j} : t[i] = s[i]
      /\ v \in Values /\ c = Append(b, v)
  BY Zenon DEF Repoints
<1>2. /\ c \in Seq(Values) /\ Len(b) <= Len(c)
      /\ Len(c) = Len(b) + 1 /\ c[Len(b) + 1] = v /\ Len(b) + 1 \in 1..Len(c)
      /\ \A x \in 1..Len(b) : c[x] = b[x] /\ x \in 1..Len(c) /\ x # Len(b) + 1
  BY <1>1, AppendBuf DEF Writes
<1>3. k \in Keys /\ g[k] = v /\ \A x \in Keys \ {k} : g[x] = f[x]
  BY Zenon DEF Writes
<1>4. \A i \in Full(s) : /\ s[i].key \in Keys /\ f[s[i].key] = b[s[i].buf]
                         /\ s[i].buf \in 1..Len(b)
                         /\ \A m \in Full(s) : s[i].buf = s[m].buf => i = m
  BY Zenon DEF Writes, Newest, Unshared
<1>5. \A x \in Keys : f[x] # Absent => \E i \in Full(s) : s[i].key = x
  BY Zenon DEF Writes, Newest
<1>6. \A i \in Full(s) \ {j} : s[i].key # k
  BY <1>1, Zenon DEF Writes
<1>7. Unshared(t, Len(c))
  BY <1>1, <1>2, <1>4 DEF Unshared
<1>8. \A i \in Full(t) : t[i].key \in Keys /\ g[t[i].key] = c[t[i].buf]
  BY <1>1, <1>2, <1>3, <1>4, <1>6
<1>9. \A x \in Keys : g[x] # Absent => \E i \in Full(t) : t[i].key = x
  <2> SUFFICES ASSUME NEW x \in Keys, g[x] # Absent
               PROVE  \E i \in Full(t) : t[i].key = x
    BY Zenon
  <2>1. CASE x = k
    BY <1>1, <2>1, Zenon
  <2>2. CASE x # k
    <3>1. PICK i \in Full(s) : s[i].key = x
      BY <1>3, <1>5, <2>2, Zenon
    <3> QED BY <1>1, <2>2, <3>1, Zenon
  <2> QED BY <2>1, <2>2
<1> QED BY <1>2, <1>7, <1>8, <1>9, Zenon DEF Current, Newest

\* An overwrite of swiss stores into the buffer of the key's slot j.
Rewrites(b, s, k, v, j, c) ==
  /\ j \in Full(s) /\ s[j].key = k
  /\ v \in Values /\ c = [b EXCEPT ![s[j].buf] = v]

\* After it the table holds the newest writes: no other slot has that buffer.
LEMMA InPlaceNewest ==
  ASSUME NEW f, NEW b, NEW s, NEW k, NEW v, NEW g, Writes(f, b, s, k, v, g),
         NEW j, NEW c, Rewrites(b, s, k, v, j, c)
  PROVE  Current(b, g, c, s)
<1>0. j \in Full(s) /\ s[j].key = k /\ v \in Values /\ c = [b EXCEPT ![s[j].buf] = v]
  BY Zenon DEF Rewrites
<1>1. \A i \in Full(s) : /\ s[i].key \in Keys /\ f[s[i].key] = b[s[i].buf]
                         /\ s[i].buf \in 1..Len(b)
                         /\ \A m \in Full(s) : s[i].buf = s[m].buf => i = m
  BY Zenon DEF Writes, Newest, Unshared
<1>2. /\ c \in Seq(Values) /\ Len(c) = Len(b) /\ Len(b) <= Len(c) /\ c[s[j].buf] = v
      /\ \A y \in 1..Len(b) \ {s[j].buf} : c[y] = b[y]
  BY <1>0, <1>1, StoreBuf DEF Writes
<1>3. k \in Keys /\ g[k] = v /\ \A x \in Keys \ {k} : g[x] = f[x]
  BY Zenon DEF Writes
<1>4. \A i \in Full(s) \ {j} : s[i].key # k /\ s[i].buf # s[j].buf
  BY <1>0, <1>1, Zenon DEF Writes
<1>5. \A i \in Full(s) : s[i].key \in Keys /\ g[s[i].key] = c[s[i].buf]
  BY <1>0, <1>1, <1>2, <1>3, <1>4
<1>6. \A x \in Keys : f[x] # Absent => \E i \in Full(s) : s[i].key = x
  BY Zenon DEF Writes, Newest
<1>7. \A x \in Keys : g[x] # Absent => \E i \in Full(s) : s[i].key = x
  BY <1>0, <1>3, <1>6, Zenon
<1>8. Unshared(s, Len(c))
  BY <1>2, Zenon DEF Writes, Unshared
<1> QED BY <1>2, <1>5, <1>7, <1>8, Zenon DEF Current, Newest

\* A delete leaves in t the full slots of s that have another key.
Removes(s, k, t) ==
  /\ Full(t) = {i \in Full(s) : s[i].key # k}
  /\ \A i \in Full(t) : t[i] = s[i]

\* After it the table holds the newest writes, whether it had the key or not.
LEMMA DeleteNewest ==
  ASSUME NEW f, NEW b, NEW s, NEW k, NEW g, Writes(f, b, s, k, Absent, g), NEW t, Removes(s, k, t)
  PROVE  Current(b, g, b, t)
<1>0. Full(t) = {i \in Full(s) : s[i].key # k} /\ \A i \in Full(t) : t[i] = s[i]
  BY Zenon DEF Removes
<1>1. k \in Keys /\ g[k] = Absent /\ \A x \in Keys \ {k} : g[x] = f[x]
  BY Zenon DEF Writes
<1>2. \A i \in Full(s) : /\ s[i].key \in Keys /\ f[s[i].key] = b[s[i].buf]
                         /\ s[i].buf \in 1..Len(b)
                         /\ \A m \in Full(s) : s[i].buf = s[m].buf => i = m
  BY Zenon DEF Writes, Newest, Unshared
<1>3. \A x \in Keys : f[x] # Absent => \E i \in Full(s) : s[i].key = x
  BY Zenon DEF Writes, Newest
<1>4. Unshared(t, Len(b))
  BY <1>0, <1>2, Zenon DEF Unshared
<1>5. \A i \in Full(t) : t[i].key \in Keys /\ g[t[i].key] = b[t[i].buf]
  BY <1>0, <1>1, <1>2
<1>6. \A x \in Keys : g[x] # Absent => \E i \in Full(t) : t[i].key = x
  BY <1>0, <1>1, <1>3
<1>7. b \in Seq(Values) /\ Len(b) <= Len(b)
  BY DEF Writes
<1> QED BY <1>4, <1>5, <1>6, <1>7, Zenon DEF Current, Newest

-----------------------------------------------------------------------------
(***************************************************************************)
(* The steps of writers and readers.                                       *)
(***************************************************************************)

\* What the invariant says about the table a step finds.
LEMMA TableFacts ==
  ASSUME TableInv
  PROVE  /\ size \in Nat /\ size >= 2 /\ slots \in [SlotNos(size) -> Slot]
         /\ DOMAIN slots = SlotNos(size)
         /\ RunsIntact(size, slots) /\ Unshared(slots, Len(bufs))
         /\ live \in Nat /\ used \in Nat
         /\ live = Cardinality(Full(slots)) /\ used = Cardinality(Used(slots))
         /\ design \in Designs /\ design.den * used <= design.num * size /\ used < size
         /\ bufs \in Seq(Values) /\ Len(bufs) \in Nat /\ todo \in Seq(Ops)
         /\ oracle \in [Keys -> Values \cup {Absent}]
         /\ view \in [Clients -> [buf : Nat, was : Values \cup {Absent}]]
         /\ phase # "grow" => old = <<>> /\ Newest(oracle, bufs, slots)
<1>1. /\ size \in Nat /\ size >= 2 /\ slots \in [SlotNos(size) -> Slot]
      /\ live \in Nat /\ used \in Nat /\ design \in Designs
      /\ bufs \in Seq(Values) /\ todo \in Seq(Ops)
      /\ oracle \in [Keys -> Values \cup {Absent}]
      /\ view \in [Clients -> [buf : Nat, was : Values \cup {Absent}]]
  BY Zenon DEF TableInv, TableTypeOK
<1>2. /\ live = Cardinality(Full(slots)) /\ used = Cardinality(Used(slots))
      /\ design.den * used <= design.num * size
  BY Zenon DEF TableInv, LoadBounded
<1>3. RunsIntact(size, slots) /\ Unshared(slots, Len(bufs))
  BY Zenon DEF TableInv, ProbeRunsIntact, BuffersUnshared
<1>4. phase # "grow" => old = <<>> /\ Newest(oracle, bufs, slots)
  BY Zenon DEF TableInv, GrowInv, ContentsInv
<1>5. used < size
  BY <1>1, <1>2, LoadFactor, Zenon
<1>6. DOMAIN slots = SlotNos(size)
  BY <1>1, Zenon
<1>7. Len(bufs) \in Nat
  BY <1>1
<1> QED BY <1>1, <1>2, <1>3, <1>4, <1>5, <1>6, <1>7, Zenon

\* A step that leaves the table alone.
LEMMA TableUntouched ==
  ASSUME TableInv, UNCHANGED <<design, size, slots, counts, bufs, growing, oracle>>,
         phase' = phase \/ (phase # "grow" /\ phase' \in {"free", "op"}),
         todo' \in Seq(Ops), view' \in [Clients -> [buf : Nat, was : Values \cup {Absent}]],
         \A c \in Clients : view'[c].buf <= Len(bufs)
  PROVE  TableInv'
<1>1. /\ design' = design /\ size' = size /\ slots' = slots /\ live' = live /\ used' = used
      /\ bufs' = bufs /\ old' = old /\ at' = at /\ oracle' = oracle
  BY DEF counts, growing
<1>2. phase' # "grow" <=> phase # "grow"
  OBVIOUS
<1>3. phase' = "probe" => phase = "probe"
  OBVIOUS
<1>4. phase' \in {"free", "op", "grow", "probe"}
  <2>1. phase \in {"free", "op", "grow", "probe"}
    BY Zenon DEF TableInv, TableTypeOK
  <2> QED BY <2>1
<1>5. TableTypeOK'
  BY <1>1, <1>4, Zenon DEF TableInv, TableTypeOK
<1>6. ProbeRunsIntact' /\ BuffersUnshared' /\ ViewInv'
  BY <1>1, Zenon DEF TableInv, ProbeRunsIntact, BuffersUnshared, ViewInv
<1>7. LoadBounded'
  BY <1>1, <1>3, Zenon DEF TableInv, LoadBounded, Overloaded
<1>8. GrowInv'
  <2>1. CASE phase # "grow"
    BY <1>1, <1>2, <2>1, Zenon DEF TableInv, GrowInv
  <2>2. CASE phase = "grow"
    <3>1. GrowLoop
      BY <2>2, Zenon DEF TableInv, GrowInv
    <3>2. GrowLoop'
      BY <1>1, <3>1 DEF GrowLoop, Moved
    <3> QED BY <1>2, <2>2, <3>2, Zenon DEF GrowInv
  <2> QED BY <2>1, <2>2, Zenon
<1>9. ContentsInv'
  BY <1>1, <1>2, Zenon DEF TableInv, ContentsInv
<1> QED BY <1>5, <1>6, <1>7, <1>8, <1>9, Zenon DEF TableInv

\* Put, Delete and applyBatch take the lock.
LEMMA LockKeeps ==
  ASSUME TableInv, NEW ops \in Seq(Ops), Lock(ops)
  PROVE  TableInv'
<1>1. /\ UNCHANGED <<design, size, slots, counts, bufs, growing, oracle>>
      /\ phase # "grow" /\ phase' \in {"free", "op"} /\ todo' = ops /\ view' = view
  BY DEF Lock
<1>2. \A c \in Clients : view'[c].buf <= Len(bufs)
  BY <1>1, Zenon DEF TableInv, ViewInv
<1> QED BY <1>1, <1>2, TableUntouched, TableFacts, Zenon

\* The writer releases the lock.
LEMMA UnlockKeeps ==
  ASSUME TableInv, Unlock
  PROVE  TableInv'
<1>1. /\ UNCHANGED <<design, size, slots, counts, bufs, growing, oracle>>
      /\ phase # "grow" /\ phase' \in {"free", "op"} /\ todo' = todo /\ view' = view
  BY DEF Unlock
<1>2. \A c \in Clients : view'[c].buf <= Len(bufs)
  BY <1>1, Zenon DEF TableInv, ViewInv
<1> QED BY <1>1, <1>2, TableUntouched, TableFacts, Zenon

\* The driver lets go of the answer of a Get.
LEMMA DoneKeeps ==
  ASSUME TableInv, NEW c \in Clients, Done(c)
  PROVE  TableInv'
<1>1. /\ UNCHANGED <<design, size, slots, counts, bufs, growing, oracle>>
      /\ phase' = phase /\ todo' = todo /\ view' = [view EXCEPT ![c] = NoView]
  BY DEF Done
<1>2. NoView \in [buf : Nat, was : Values \cup {Absent}] /\ NoView.buf = 0
  BY DEF NoView
<1>3. /\ view' \in [Clients -> [buf : Nat, was : Values \cup {Absent}]]
      /\ view'[c] = NoView /\ \A d \in Clients \ {c} : view'[d] = view[d]
  BY <1>1, <1>2, TableFacts, Zenon
<1>4. 0 <= Len(bufs)
  BY TableFacts
<1>5. \A d \in Clients : view'[d].buf <= Len(bufs)
  BY <1>2, <1>3, <1>4, Zenon DEF TableInv, ViewInv
<1> QED BY <1>1, <1>3, <1>5, TableUntouched, TableFacts, Zenon

\* What a Get hands out: the bytes of the key's slot, or nothing.
LEMMA GetAnswer ==
  ASSUME TableInv, NEW c \in Clients, NEW k \in Keys, Get(c, k)
  PROVE  /\ phase = "free" /\ phase' = phase /\ todo' = todo
         /\ UNCHANGED <<design, size, slots, counts, bufs, growing, oracle>>
         /\ view' \in [Clients -> [buf : Nat, was : Values \cup {Absent}]]
         /\ \A d \in Clients \ {c} : view'[d] = view[d]
         /\ view'[c].buf <= Len(bufs)
         /\ view'[c].buf # 0 => bufs[view'[c].buf] = view'[c].was
<1>1. PICK i \in DOMAIN slots :
        view' = [view EXCEPT ![c] = IF Holds(slots, k, i)
                                    THEN [buf |-> slots[i].buf, was |-> bufs[slots[i].buf]]
                                    ELSE NoView]
  BY Zenon DEF Get
<1>2. PICK a : a = IF Holds(slots, k, i)
                   THEN [buf |-> slots[i].buf, was |-> bufs[slots[i].buf]]
                   ELSE NoView
  BY Zenon
<1>3. /\ phase = "free" /\ phase' = phase /\ todo' = todo
      /\ UNCHANGED <<design, size, slots, counts, bufs, growing, oracle>>
  BY Zenon DEF Get
<1>4. /\ a \in [buf : Nat, was : Values \cup {Absent}] /\ a.buf <= Len(bufs)
      /\ a.buf # 0 => bufs[a.buf] = a.was
  <2>1. CASE Holds(slots, k, i)
    <3>1. slots[i].buf \in 1..Len(bufs)
      <4>1. i \in Full(slots)
        BY <2>1, Zenon DEF Holds, Full
      <4> QED BY <4>1, TableFacts, Zenon DEF Unshared
    <3>2. bufs \in Seq(Values) /\ Len(bufs) \in Nat
      BY TableFacts, Zenon
    <3>3. a = [buf |-> slots[i].buf, was |-> bufs[slots[i].buf]]
      BY <1>2, <2>1, Zenon
    <3>4. bufs[slots[i].buf] \in Values
      BY <3>1, <3>2
    <3> QED BY <3>1, <3>2, <3>3, <3>4
  <2>2. CASE ~Holds(slots, k, i)
    <3>1. a.buf = 0 /\ a.was = Absent /\ a \in [buf : Nat, was : Values \cup {Absent}]
      BY <1>2, <2>2 DEF NoView
    <3>2. Len(bufs) \in Nat
      BY TableFacts, Zenon
    <3> QED BY <3>1, <3>2
  <2> QED BY <2>1, <2>2, Zenon
<1>5. /\ view' \in [Clients -> [buf : Nat, was : Values \cup {Absent}]]
      /\ view'[c] = a /\ \A d \in Clients \ {c} : view'[d] = view[d]
  BY <1>1, <1>2, <1>4, TableFacts, Zenon
<1> QED BY <1>3, <1>4, <1>5, Zenon

\* A Get.
LEMMA GetKeeps ==
  ASSUME TableInv, NEW c \in Clients, NEW k \in Keys, Get(c, k)
  PROVE  TableInv'
<1>1. \A d \in Clients : view'[d].buf <= Len(bufs)
  BY GetAnswer, Zenon DEF TableInv, ViewInv
<1> QED BY <1>1, GetAnswer, TableUntouched, TableFacts, Zenon

\* putLocked calls grow: the new table is empty, the old one is set aside whole.
LEMMA growStartKeeps ==
  ASSUME TableInv, growStart
  PROVE  TableInv'
<1>1. /\ phase # "grow" /\ phase' = "grow" /\ old' = slots /\ at' = 0
      /\ size' = 2 * size /\ slots' = NewSlots(2 * size) /\ live' = 0 /\ used' = 0
      /\ design' = design /\ bufs' = bufs /\ todo' = todo /\ view' = view /\ oracle' = oracle
  BY DEF growStart
<1>2. size' \in Nat /\ size' >= 2 /\ size \in 2..size'
  BY <1>1, TableFacts
<1>3. /\ slots' \in [SlotNos(size') -> Slot] /\ DOMAIN slots' = SlotNos(size')
      /\ \A i \in SlotNos(size') : slots'[i].st = "empty"
  <2>1. Empty \in Slot /\ Empty.st = "empty"
    BY DEF Empty, Slot
  <2> QED BY <1>1, <2>1, Zenon DEF NewSlots
<1>4. Full(slots') = {} /\ Used(slots') = {}
  BY <1>3 DEF Full, Used
<1>5. Cardinality({}) = 0
  BY FS_EmptySet
<1>6. TableTypeOK'
  BY <1>1, <1>2, <1>3, Zenon DEF TableInv, TableTypeOK
<1>7. ProbeRunsIntact' /\ BuffersUnshared'
  BY <1>4, Zenon DEF ProbeRunsIntact, BuffersUnshared, RunsIntact, Unshared
<1>8. LoadBounded'
  <2>1. design.den * 0 <= design.num * size'
    BY <1>2, TableFacts, LoadFactor
  <2> QED BY <1>1, <1>4, <1>5, <2>1 DEF LoadBounded
<1>9. GrowLoop'
  <2>1. design.den * Cardinality(Full(slots)) <= design.num * size
    <3>1. Cardinality(Full(slots)) \in Nat /\ Cardinality(Full(slots)) <= used
      BY TableFacts, UsedFacts, Zenon
    <3> QED BY <3>1, TableFacts, LoadFactor, Zenon
  <2>2. \A i, j \in Full(slots) : slots[i].key = slots[j].key => i = j
    BY TableFacts, Zenon DEF RunsIntact
  <2>3. Moved' = {}
    <3>1. \A j \in Full(slots) : ~(j < 0)
      BY TableFacts DEF Full, SlotNos
    <3> QED BY <1>1, <3>1, Zenon DEF Moved
  <2>4. 0 <= size
    BY TableFacts
  <2> QED BY <1>1, <1>2, <1>4, <1>5, <2>1, <2>2, <2>3, <2>4, TableFacts, Zenon DEF GrowLoop
<1>10. GrowInv' /\ ContentsInv'
  BY <1>1, <1>9, TableFacts, Zenon DEF GrowInv, ContentsInv
<1>11. ViewInv'
  BY <1>1, Zenon DEF TableInv, ViewInv
<1> QED BY <1>6, <1>7, <1>8, <1>10, <1>11, Zenon DEF TableInv

\* grow's loop comes to a slot that is not full: nothing moves.
LEMMA SkipKeeps ==
  ASSUME TableInv, phase = "grow", at \in DOMAIN old, old[at].st # "full", at' = at + 1,
         UNCHANGED <<design, size, slots, live, used, bufs, phase, todo, old, view, oracle>>
  PROVE  TableInv'
<1>1. GrowLoop /\ Newest(oracle, bufs, old)
  BY Zenon DEF TableInv, GrowInv, ContentsInv
<1>2. PICK m \in 2..size : /\ size = 2 * m /\ at <= m
                           /\ old \in [SlotNos(m) -> Slot]
                           /\ design.den * Cardinality(Full(old)) <= design.num * m
  BY <1>1, Zenon DEF GrowLoop
<1>3. at \in Nat
  BY Zenon DEF TableInv, TableTypeOK
<1>4. at' <= m /\ at' \in Nat
  <2>1. at \in 0..(m - 1)
    BY <1>2, Zenon DEF SlotNos
  <2> QED BY <2>1
<1>5. Moved' = Moved
  <2>1. \A j \in Full(old) : j \in Nat /\ j # at
    BY <1>2 DEF Full, SlotNos
  <2>2. \A j \in Full(old) : j < at + 1 <=> j < at
    BY <1>3, <2>1
  <2> QED BY <2>2, Zenon DEF Moved
<1>6. GrowLoop'
  BY <1>1, <1>2, <1>4, <1>5, Zenon DEF GrowLoop
<1>7. TableTypeOK' /\ ViewInv'
  BY <1>4, Zenon DEF TableInv, TableTypeOK, ViewInv
<1>8. ProbeRunsIntact' /\ BuffersUnshared'
  BY Zenon DEF TableInv, ProbeRunsIntact, BuffersUnshared
<1>9. LoadBounded'
  BY DEF TableInv, LoadBounded
<1>10. GrowInv' /\ ContentsInv'
  BY <1>1, <1>6, Zenon DEF GrowInv, ContentsInv
<1> QED BY <1>7, <1>8, <1>9, <1>10, Zenon DEF TableInv

\* grow's loop carries a full slot over to the first empty slot of its probe.
LEMMA MoveKeeps ==
  ASSUME TableInv, Reinsert, old[at].st = "full"
  PROVE  TableInv'
<1> DEFINE E == {j \in DOMAIN slots : slots[j].st = "empty"}
<1>a. /\ phase = "grow" /\ at \in DOMAIN old /\ at' = at + 1 /\ live' = live + 1 /\ used' = used + 1
      /\ design' = design /\ size' = size /\ bufs' = bufs /\ phase' = phase /\ todo' = todo
      /\ old' = old /\ view' = view /\ oracle' = oracle
  BY Zenon DEF Reinsert
<1>b. PICK i \in DOMAIN slots : FirstOf(size, old[at].key, E, i) /\ slots' = [slots EXCEPT ![i] = old[at]]
  BY Zenon DEF Reinsert
<1>1. GrowLoop /\ Newest(oracle, bufs, old)
  BY <1>a, Zenon DEF TableInv, GrowInv, ContentsInv
<1>2. PICK m \in 2..size : /\ size = 2 * m /\ at <= m
                           /\ old \in [SlotNos(m) -> Slot]
                           /\ design.den * Cardinality(Full(old)) <= design.num * m
  BY <1>1, Zenon DEF GrowLoop
<1>3. /\ at \in Nat /\ at' \in Nat /\ at' <= m /\ m \in Nat /\ m >= 2
      /\ \A j \in Full(old) : j \in Nat /\ (j < at + 1 <=> j < at \/ j = at) /\ ~(at < at)
  <2>1. at \in 0..(m - 1)
    BY <1>a, <1>2, Zenon DEF SlotNos
  <2>2. \A j \in Full(old) : j \in Nat
    BY <1>2 DEF Full, SlotNos
  <2> QED BY <1>a, <2>1, <2>2
<1>4. PICK w : w = old[at]
  BY Zenon
<1>5. at \in Full(old) /\ w \in Slot /\ w.st = "full" /\ w.key \in Keys
  BY <1>a, <1>1, <1>2, <1>4, Zenon DEF Full, Newest
<1>6. /\ Moved' = Moved \cup {at} /\ at \notin Moved
      /\ \A j \in Moved : j \in Full(old) /\ j # at
  BY <1>a, <1>3, <1>5, Zenon DEF Moved
<1>7. \A j \in Full(slots) : \E x \in Moved : slots[j] = old[x]
  BY <1>1, Zenon DEF GrowLoop
<1>8. \A j \in Full(slots) : slots[j].key # w.key /\ slots[j].buf # w.buf
  <2>1. \A x \in Full(old) : old[x].key = w.key \/ old[x].buf = w.buf => x = at
    BY <1>1, <1>4, <1>5, Zenon DEF GrowLoop, Unshared
  <2> QED BY <1>6, <1>7, <2>1, Zenon
<1>9. /\ i \in SlotNos(size) /\ slots[i].st = "empty" /\ slots[i].st # "full"
      /\ \A j \in SlotNos(size) : Dist(size, w.key, j) < Dist(size, w.key, i) => slots[j].st # "empty"
  <2>1. i \in SlotNos(size) /\ slots[i].st = "empty"
    BY <1>b, TableFacts, Zenon DEF FirstOf
  <2>2. ASSUME NEW j \in SlotNos(size), Dist(size, w.key, j) < Dist(size, w.key, i),
               slots[j].st = "empty"
        PROVE  FALSE
    <3>1. Dist(size, w.key, i) <= Dist(size, w.key, j)
      BY <1>b, <1>4, <2>2, TableFacts, Zenon DEF FirstOf
    <3> QED BY <1>5, <2>1, <2>2, <3>1, TableFacts, DistFacts, Zenon
  <2>3. slots[i].st # "full"
    BY <2>1
  <2> QED BY <2>1, <2>2, <2>3, Zenon
<1>10. /\ slots' \in [SlotNos(size) -> Slot] /\ RunsIntact(size, slots')
       /\ slots'[i] = w /\ \A j \in SlotNos(size) \ {i} : slots'[j] = slots[j]
       /\ i \notin Full(slots) /\ Full(slots') = Full(slots) \cup {i}
       /\ Used(slots') = Used(slots) \cup {i}
       /\ Cardinality(Full(slots')) = Cardinality(Full(slots)) + 1
       /\ Cardinality(Used(slots')) = Cardinality(Used(slots)) + (IF slots[i].st = "empty" THEN 1 ELSE 0)
  <2>1. size \in Nat /\ size >= 2 /\ slots \in [SlotNos(size) -> Slot] /\ RunsIntact(size, slots)
    BY TableFacts, Zenon
  <2>2. slots' = [slots EXCEPT ![i] = w]
    BY <1>b, <1>4, Zenon
  <2>3. Fills(size, slots, w, i, slots')
    BY <1>5, <1>8, <1>9, <2>1, <2>2, Zenon DEF Fills
  <2>4. Filled(size, slots, w, i, slots')
    BY <2>3, FillKeeps, Zenon
  <2> QED BY <2>4, Zenon DEF Filled
<1>11. \A j \in Full(slots) : slots'[j] = slots[j]
  BY <1>10, TableFacts, Zenon DEF Full
<1>12. TableTypeOK'
  <2>1. live' \in Nat /\ used' \in Nat
    <3>1. live \in Nat /\ used \in Nat
      BY TableFacts, Zenon
    <3> QED BY <1>a, <3>1
  <2> QED BY <1>a, <1>3, <1>10, <2>1, Zenon DEF TableInv, TableTypeOK
<1>13. BuffersUnshared'
  <2>1. w.buf \in 1..Len(bufs)
    BY <1>1, <1>4, <1>5, Zenon DEF GrowLoop, Unshared
  <2>2. \A j \in Full(slots) : /\ slots[j].buf \in 1..Len(bufs)
                               /\ \A x \in Full(slots) : slots[j].buf = slots[x].buf => j = x
    BY TableFacts, Zenon DEF Unshared
  <2>3. /\ \A j \in Full(slots') : j = i \/ j \in Full(slots)
        /\ \A j \in Full(slots) : slots'[j].buf = slots[j].buf /\ slots[j].buf # slots'[i].buf
    BY <1>8, <1>10, <1>11, Zenon
  <2>4. \A j \in Full(slots') : slots'[j].buf \in 1..Len(bufs)
    BY <1>10, <2>1, <2>2, <2>3, Zenon
  <2>5. \A j, x \in Full(slots') : slots'[j].buf = slots'[x].buf => j = x
    <3> SUFFICES ASSUME NEW j \in Full(slots'), NEW x \in Full(slots'), slots'[j].buf = slots'[x].buf
                 PROVE  j = x
      BY Zenon
    <3>1. CASE j = i
      BY <2>3, <3>1, Zenon
    <3>2. CASE j # i
      BY <2>2, <2>3, <3>2, Zenon
    <3> QED BY <3>1, <3>2, Zenon
  <2> QED BY <1>a, <2>4, <2>5, Zenon DEF BuffersUnshared, Unshared
<1>14. used' = Cardinality(Moved') /\ Cardinality(Moved') <= Cardinality(Full(old)) /\ Cardinality(Full(old)) \in Nat
  <2>1. IsFiniteSet(Full(old)) /\ Cardinality(Full(old)) \in Nat
    BY <1>2, <1>3, UsedFacts, Zenon
  <2>2. Moved \subseteq Full(old) /\ Moved' \subseteq Full(old)
    BY <1>5, <1>6, Zenon
  <2>3. IsFiniteSet(Moved) /\ Cardinality(Moved') <= Cardinality(Full(old))
    BY <2>1, <2>2, FS_Subset, Zenon
  <2>4. used = Cardinality(Moved)
    BY <1>1, Zenon DEF GrowLoop
  <2> QED BY <1>a, <1>6, <2>1, <2>3, <2>4, CountOne, Zenon
<1>15. LoadBounded'
  <2>1. used' \in Nat
    <3>1. used \in Nat
      BY TableFacts, Zenon
    <3> QED BY <1>a, <3>1
  <2>2. design.den * used' <= design.num * size
    <3>1. design \in Designs
      BY TableFacts, Zenon
    <3>2. used' <= Cardinality(Full(old))
      BY <1>14, Zenon
    <3>3. design.den * used' <= design.num * (2 * m)
      BY <1>2, <1>3, <1>14, <2>1, <3>1, <3>2, LoadFactor, Zenon
    <3> QED BY <1>2, <3>3, Zenon
  <2>3. live' = Cardinality(Full(slots')) /\ used' = Cardinality(Used(slots'))
    BY <1>a, <1>9, <1>10, TableFacts, Zenon
  <2>4. phase' # "probe"
    BY <1>a
  <2> QED BY <1>a, <2>2, <2>3, <2>4, Zenon DEF LoadBounded
<1>16. GrowLoop'
  <2>1. \A j \in Moved' : \E x \in Full(slots') : slots'[x] = old[j]
    <3>1. \A j \in Moved : \E x \in Full(slots) : slots[x] = old[j]
      BY <1>1, Zenon DEF GrowLoop
    <3>2. i \in Full(slots') /\ slots'[i] = old[at]
      BY <1>4, <1>10, Zenon
    <3>3. \A j \in Moved : \E x \in Full(slots') : slots'[x] = old[j]
      <4> TAKE j \in Moved
      <4>1. PICK x \in Full(slots) : slots[x] = old[j]
        BY <3>1, Zenon
      <4>2. x \in Full(slots') /\ slots'[x] = old[j]
        BY <1>10, <1>11, <4>1, Zenon
      <4> QED BY <4>2, Zenon
    <3> QED BY <1>6, <3>2, <3>3, Zenon
  <2>2. \A j \in Full(slots') : \E x \in Moved' : slots'[j] = old[x]
    <3>1. at \in Moved' /\ slots'[i] = old[at] /\ \A j \in Full(slots') : j = i \/ j \in Full(slots)
      BY <1>4, <1>6, <1>10, Zenon
    <3>2. \A j \in Full(slots) : \E x \in Moved' : slots'[j] = old[x]
      BY <1>6, <1>7, <1>11, Zenon
    <3> QED BY <3>1, <3>2, Zenon
  <2>3. Used(slots') = Full(slots')
    BY <1>1, <1>10, Zenon DEF GrowLoop
  <2>4. /\ Unshared(old, Len(bufs))
        /\ \A j, x \in Full(old) : old[j].key = old[x].key => j = x
    BY <1>1, Zenon DEF GrowLoop
  <2>5. \E x \in 2..size' : /\ size' = 2 * x /\ at' <= x
                            /\ old' \in [SlotNos(x) -> Slot]
                            /\ design'.den * Cardinality(Full(old')) <= design'.num * x
    BY <1>a, <1>2, <1>3, Zenon
  <2>6. old' = old /\ bufs' = bufs /\ used' = Cardinality(Moved')
    BY <1>a, <1>14, Zenon
  <2>7. Unshared(old', Len(bufs')) /\ \A j, x \in Full(old') : old'[j].key = old'[x].key => j = x
    BY <2>4, <2>6, Zenon
  <2>8. \A j \in Moved' : \E x \in Full(slots') : slots'[x] = old'[j]
    BY <2>1, <2>6, Zenon
  <2>9. \A j \in Full(slots') : \E x \in Moved' : slots'[j] = old'[x]
    BY <2>2, <2>6, Zenon
  <2> QED BY <2>3, <2>5, <2>6, <2>7, <2>8, <2>9, Zenon DEF GrowLoop
<1>17. ProbeRunsIntact' /\ ViewInv'
  BY <1>a, <1>10, Zenon DEF ProbeRunsIntact, TableInv, ViewInv
<1>18. GrowInv' /\ ContentsInv'
  BY <1>a, <1>1, <1>16, Zenon DEF GrowInv, ContentsInv
<1> QED BY <1>12, <1>13, <1>15, <1>17, <1>18, Zenon DEF TableInv

\* grow is done: the new table has all that the old one had, and room for one more.
LEMMA growDoneKeeps ==
  ASSUME TableInv, growDone
  PROVE  TableInv'
<1>a. /\ phase = "grow" /\ at \notin DOMAIN old /\ phase' = "probe" /\ old' = <<>> /\ at' = 0
      /\ design' = design /\ size' = size /\ slots' = slots /\ live' = live /\ used' = used
      /\ bufs' = bufs /\ todo' = todo /\ view' = view /\ oracle' = oracle
  BY DEF growDone, counts
<1>1. GrowLoop /\ Newest(oracle, bufs, old)
  BY <1>a, Zenon DEF TableInv, GrowInv, ContentsInv
<1>2. PICK m \in 2..size : /\ size = 2 * m /\ at <= m
                           /\ old \in [SlotNos(m) -> Slot]
                           /\ design.den * Cardinality(Full(old)) <= design.num * m
  BY <1>1, Zenon DEF GrowLoop
<1>3. m \in Nat /\ m >= 2
  BY <1>2
<1>4. Moved = Full(old)
  <2>1. at \in Nat /\ at \notin 0..(m - 1)
    BY <1>a, <1>2, Zenon DEF SlotNos, TableInv, TableTypeOK
  <2>2. \A j \in Full(old) : j \in 0..(m - 1)
    BY <1>2, Zenon DEF Full, SlotNos
  <2>3. \A j \in Full(old) : j < at
    BY <1>2, <1>3, <2>1, <2>2
  <2> QED BY <2>3, Zenon DEF Moved
<1>5. /\ \A j \in Full(old) : \E i \in Full(slots) : slots[i] = old[j]
      /\ \A i \in Full(slots) : \E j \in Full(old) : slots[i] = old[j]
      /\ used = Cardinality(Full(old))
  BY <1>1, <1>4, Zenon DEF GrowLoop
<1>6. Newest(oracle, bufs, slots)
  <2>1. \A j \in Full(old) : old[j].key \in Keys /\ oracle[old[j].key] = bufs[old[j].buf]
    BY <1>1, Zenon DEF Newest
  <2>2. \A k \in Keys : oracle[k] # Absent => \E j \in Full(old) : old[j].key = k
    BY <1>1, Zenon DEF Newest
  <2>3. \A i \in Full(slots) : slots[i].key \in Keys /\ oracle[slots[i].key] = bufs[slots[i].buf]
    <3> TAKE i \in Full(slots)
    <3>1. PICK j \in Full(old) : slots[i] = old[j]
      BY <1>5, Zenon
    <3> QED BY <2>1, <3>1, Zenon
  <2>4. ASSUME NEW k \in Keys, oracle[k] # Absent
        PROVE  \E i \in Full(slots) : slots[i].key = k
    <3>1. PICK j \in Full(old) : old[j].key = k
      BY <2>2, <2>4, Zenon
    <3>2. PICK i \in Full(slots) : slots[i] = old[j]
      BY <1>5, Zenon
    <3> QED BY <3>1, <3>2, Zenon
  <2> QED BY <2>3, <2>4, Zenon DEF Newest
<1>7. design.den * used <= design.num * size /\ ~(design.den * (used + 1) > design.num * size)
  <2>1. used \in Nat /\ used <= used /\ design \in Designs
    BY TableFacts
  <2>2. design.den * used <= design.num * m
    BY <1>2, <1>5, Zenon
  <2>3. design.den * used <= design.num * (2 * m) /\ ~(design.den * (used + 1) > design.num * (2 * m))
    BY <1>3, <2>1, <2>2, LoadFactor, Zenon
  <2> QED BY <1>2, <2>3, Zenon
<1>8. TableTypeOK'
  <2>1. phase' \in {"free", "op", "grow", "probe"} /\ 0 \in Nat
    BY <1>a
  <2> QED BY <1>a, <2>1, Zenon DEF TableInv, TableTypeOK
<1>9. ProbeRunsIntact' /\ BuffersUnshared' /\ ViewInv'
  BY <1>a, Zenon DEF TableInv, ProbeRunsIntact, BuffersUnshared, ViewInv
<1>10. LoadBounded'
  BY <1>a, <1>7, TableFacts, Zenon DEF LoadBounded, Overloaded
<1>11. GrowInv' /\ ContentsInv'
  <2>1. phase' # "grow"
    BY <1>a
  <2> QED BY <1>a, <1>6, <2>1, Zenon DEF GrowInv, ContentsInv
<1> QED BY <1>8, <1>9, <1>10, <1>11, Zenon DEF TableInv

\* What is left when an operation is done: the table is not growing, and the
\* invariant is about its slots, its counters and its buffers.
LEMMA OpKeeps ==
  ASSUME TableInv, phase # "grow", NEW o \in Ops, OpDone(o), todo # <<>>, Len(bufs) <= Len(bufs'),
         UNCHANGED <<design, size, growing, view>>,
         slots' \in [SlotNos(size) -> Slot], bufs' \in Seq(Values),
         RunsIntact(size, slots'), Unshared(slots', Len(bufs')),
         live' = Cardinality(Full(slots')), used' = Cardinality(Used(slots')),
         design.den * used' <= design.num * size, Newest(oracle', bufs', slots')
  PROVE  TableInv'
<1>a. /\ oracle' = [oracle EXCEPT ![o.key] = o.val] /\ todo' = Tail(todo) /\ phase' = "op"
      /\ design' = design /\ size' = size /\ old' = old /\ at' = at /\ view' = view
  BY DEF OpDone, growing
<1>1. /\ phase' # "grow" /\ phase' # "probe" /\ phase' \in {"free", "op", "grow", "probe"}
      /\ old = <<>>
  BY <1>a, TableFacts
<1>2. oracle' \in [Keys -> Values \cup {Absent}]
  <2>1. o.key \in Keys /\ o.val \in Values \cup {Absent}
    BY Zenon DEF Ops
  <2> QED BY <1>a, <2>1, TableFacts, Zenon
<1>3. todo' \in Seq(Ops)
  BY <1>a, TableFacts
<1>4. live' \in Nat /\ used' \in Nat
  BY TableFacts, UsedFacts, Zenon
<1>5. TableTypeOK'
  BY <1>a, <1>1, <1>2, <1>3, <1>4, Zenon DEF TableInv, TableTypeOK
<1>6. ProbeRunsIntact' /\ BuffersUnshared'
  BY <1>a, Zenon DEF ProbeRunsIntact, BuffersUnshared
<1>7. LoadBounded'
  BY <1>a, <1>1, Zenon DEF LoadBounded
<1>8. GrowInv' /\ ContentsInv'
  BY <1>a, <1>1, Zenon DEF GrowInv, ContentsInv
<1>9. ViewInv'
  <2>1. \A c \in Clients : view[c].buf \in Nat /\ view[c].buf <= Len(bufs)
    BY TableFacts, Zenon DEF TableInv, ViewInv
  <2>2. \A c \in Clients : view[c].buf <= Len(bufs')
    BY <2>1, TableFacts
  <2> QED BY <1>a, <2>2, Zenon DEF ViewInv
<1> QED BY <1>5, <1>6, <1>7, <1>8, <1>9, Zenon DEF TableInv

\* The operation a writer is at.
LEMMA HeadOp ==
  ASSUME TableInv, todo # <<>>
  PROVE  /\ Head(todo) \in Ops /\ Head(todo).key \in Keys
         /\ Head(todo).val # Absent => Head(todo).val \in Values
<1>1. Head(todo) \in Ops
  BY TableFacts
<1> QED BY <1>1, Zenon DEF Ops

\* The oracle's step is a write of the operation to the table that is there.
LEMMA OpWrites ==
  ASSUME TableInv, phase # "grow", NEW o \in Ops, OpDone(o)
  PROVE  Writes(oracle, bufs, slots, o.key, o.val, oracle')
<1>1. oracle' = [oracle EXCEPT ![o.key] = o.val]
  BY Zenon DEF OpDone
<1>2. o.key \in Keys
  BY Zenon DEF Ops
<1>3. \A i, m \in Full(slots) : slots[i].key = slots[m].key => i = m
  BY TableFacts, Zenon DEF RunsIntact
<1>4. /\ oracle \in [Keys -> Values \cup {Absent}] /\ bufs \in Seq(Values)
      /\ Newest(oracle, bufs, slots) /\ Unshared(slots, Len(bufs))
  BY TableFacts, Zenon
<1> QED BY <1>1, <1>2, <1>3, <1>4, Zenon DEF Writes

\* putLocked finds the key: faster appends a record, swiss overwrites the value.
LEMMA OverwriteKeeps ==
  ASSUME TableInv, phase # "grow", NEW o \in Ops, o.val \in Values, OpDone(o), todo # <<>>,
         UNCHANGED <<design, size, growing, view>>,
         NEW i \in Full(slots), slots[i].key = o.key, Overwrite(i, o.val)
  PROVE  TableInv'
<1>1. Writes(oracle, bufs, slots, o.key, o.val, oracle')
  BY OpWrites, Zenon
<1>2. live' = live /\ used' = used
  BY DEF Overwrite, counts
<1>3. CASE design.inPlace
  <2>1. bufs' = [bufs EXCEPT ![slots[i].buf] = o.val] /\ slots' = slots
    BY <1>3, Zenon DEF Overwrite
  <2>2. Rewrites(bufs, slots, o.key, o.val, i, bufs')
    BY <2>1, Zenon DEF Rewrites
  <2>3. Current(bufs, oracle', bufs', slots)
    BY <1>1, <2>2, InPlaceNewest, Zenon
  <2>4. slots' = slots
    BY <2>1, Zenon
  <2> QED BY <1>2, <2>3, <2>4, TableFacts, OpKeeps, Zenon DEF Current
<1>4. CASE ~design.inPlace
  <2>1. slots' = [slots EXCEPT ![i].buf = Len(bufs) + 1] /\ bufs' = Append(bufs, o.val)
    BY <1>4, Zenon DEF Overwrite
  <2>2. Len(bufs) + 1 \in Nat
    BY TableFacts
  <2>a. IsTable(size, slots)
    BY TableFacts, Zenon DEF IsTable
  <2>b. Repointed(size, slots, i, Len(bufs) + 1, slots')
    BY <2>1, <2>2, <2>a, RepointKeeps, Zenon
  <2>3. /\ slots' \in [SlotNos(size) -> Slot] /\ RunsIntact(size, slots')
        /\ Full(slots') = Full(slots) /\ Used(slots') = Used(slots)
        /\ slots'[i].key = slots[i].key /\ slots'[i].buf = Len(bufs) + 1
        /\ \A m \in Full(slots) \ {i} : slots'[m] = slots[m]
    BY <2>b, Zenon DEF Repointed, IsTable
  <2>4. bufs' = Append(bufs, o.val)
    BY <2>1, Zenon
  <2>5. Repoints(bufs, slots, o.key, o.val, i, slots', bufs')
    BY <2>3, <2>4, Zenon DEF Repoints
  <2>6. Current(bufs, oracle', bufs', slots')
    BY <1>1, <2>5, RepointNewest, Zenon
  <2>7. live' = Cardinality(Full(slots')) /\ used' = Cardinality(Used(slots'))
    BY <1>2, <2>3, TableFacts, Zenon
  <2>8. design.den * used' <= design.num * size
    BY <1>2, TableFacts, Zenon
  <2> QED BY <2>3, <2>6, <2>7, <2>8, OpKeeps, Zenon DEF Current
<1> QED BY <1>3, <1>4, Zenon

\* putLocked has not found the key: it takes the first tombstone of the probe, or its
\* end, which the check for a full table left room for.
LEMMA InsertTakes ==
  ASSUME TableInv, phase # "grow", NEW o \in Ops, o.val \in Values, OpDone(o), todo # <<>>,
         UNCHANGED <<design, size, growing, view>>, ~Overloaded,
         NEW i \in DOMAIN slots, EndsProbe(size, slots, o.key, i), ~Holds(slots, o.key, i),
         Insert(o.key, i, o.val)
  PROVE  TableInv'
<1> DEFINE k == o.key
           w == FullSlot(k, Len(bufs) + 1)
<1>0. k \in Keys /\ i \in SlotNos(size) /\ IsTable(size, slots)
  BY TableFacts, Zenon DEF Ops, IsTable
<1>1. /\ slots[i].st = "empty" /\ \A j \in Full(slots) : slots[j].key # k
      /\ \A j \in SlotNos(size) : Dist(size, k, j) < Dist(size, k, i) => slots[j].st # "empty"
  <2>1. Misses(size, slots, k, i)
    BY <1>0, ProbeEnd, Zenon
  <2> QED BY <2>1, Zenon DEF Misses
<1>2. PICK j \in DOMAIN slots : InsertsAt(size, slots, k, i, j) /\ slots' = [slots EXCEPT ![j] = w]
  BY Zenon DEF Insert
<1>3. /\ bufs' = Append(bufs, o.val) /\ live' = live + 1
      /\ used' = used + (IF TombsPassed(size, slots, k, i) = {} THEN 1 ELSE 0)
  BY Zenon DEF Insert
<1>4. j \in SlotNos(size)
  BY TableFacts, Zenon
<1>5. /\ slots[j].st # "full" /\ (slots[j].st = "empty" <=> TombsPassed(size, slots, k, i) = {})
      /\ \A m \in SlotNos(size) : Dist(size, k, m) < Dist(size, k, j) => slots[m].st # "empty"
  <2>1. Misses(size, slots, k, i) /\ size \in Nat /\ size >= 2
    BY <1>0, <1>1, Zenon DEF Misses, IsTable
  <2>2. Vacant(size, slots, k, i, j)
    BY <1>0, <1>2, <1>4, <2>1, InsertSlot, Zenon
  <2> QED BY <2>2, Zenon DEF Vacant
<1>6. w \in Slot /\ w.st = "full" /\ w.key = k /\ w.buf = Len(bufs) + 1
  BY <1>0, TableFacts DEF FullSlot, Slot
<1> HIDE DEF k, w
<1>7. Filled(size, slots, w, j, slots')
  <2>1. Fills(size, slots, w, j, slots')
    BY <1>0, <1>1, <1>2, <1>4, <1>5, <1>6, Zenon DEF Fills, IsTable
  <2> QED BY <2>1, FillKeeps, Zenon
<1>8. /\ slots' \in [SlotNos(size) -> Slot] /\ RunsIntact(size, slots') /\ slots'[j] = w
      /\ \A m \in SlotNos(size) \ {j} : slots'[m] = slots[m]
      /\ j \notin Full(slots) /\ Full(slots') = Full(slots) \cup {j}
      /\ Cardinality(Full(slots')) = Cardinality(Full(slots)) + 1
      /\ Cardinality(Used(slots')) = Cardinality(Used(slots)) + (IF slots[j].st = "empty" THEN 1 ELSE 0)
  BY <1>7, Zenon DEF Filled
<1>9. Current(bufs, oracle', bufs', slots')
  <2>1. \A m \in Full(slots) : slots'[m] = slots[m]
    BY <1>8, TableFacts, Zenon DEF Full
  <2>2. Inserts(bufs, slots, k, o.val, j, slots', bufs')
    BY <1>1, <1>3, <1>6, <1>8, <2>1, Zenon DEF Inserts
  <2>3. Writes(oracle, bufs, slots, k, o.val, oracle')
    BY OpWrites, Zenon DEF k
  <2> QED BY <2>2, <2>3, InsertNewest, Zenon
<1>10. live' = Cardinality(Full(slots')) /\ used' = Cardinality(Used(slots'))
  BY <1>3, <1>5, <1>8, TableFacts, Zenon
<1>11. design.den * used' <= design.num * size
  <2>1. design.den * (used + 1) <= design.num * size
    BY TableFacts, LoadFactor, Zenon DEF Overloaded
  <2>2. used' = used + 1 \/ used' = used
    BY <1>3, TableFacts
  <2> QED BY <2>1, <2>2, TableFacts, Zenon
<1> QED BY <1>8, <1>9, <1>10, <1>11, OpKeeps, Zenon DEF Current

\* A put, once the table is large enough.
LEMMA putLockedKeeps ==
  ASSUME TableInv, putLocked
  PROVE  TableInv'
<1> DEFINE o == Head(todo)
<1>1. /\ todo # <<>> /\ o.val # Absent /\ ((phase = "op" /\ ~Overloaded) \/ phase = "probe")
      /\ OpDone(o) /\ UNCHANGED <<design, size, growing, view>>
  BY Zenon DEF putLocked
<1>2. PICK i \in DOMAIN slots :
        /\ EndsProbe(size, slots, o.key, i)
        /\ \/ Holds(slots, o.key, i) /\ Overwrite(i, o.val)
           \/ ~Holds(slots, o.key, i) /\ Insert(o.key, i, o.val)
  BY Zenon DEF putLocked
<1>3. o \in Ops /\ o.val \in Values
  BY <1>1, HeadOp, Zenon
<1>4. phase # "grow"
  BY <1>1
<1>5. ~Overloaded
  BY <1>1, Zenon DEF TableInv, LoadBounded
<1>6. CASE Holds(slots, o.key, i)
  <2>1. i \in Full(slots) /\ slots[i].key = o.key
    BY <1>6, Zenon DEF Holds, Full
  <2> HIDE DEF o
  <2> QED BY <1>1, <1>2, <1>3, <1>4, <1>6, <2>1, OverwriteKeeps, Zenon
<1>7. CASE ~Holds(slots, o.key, i)
  <2> HIDE DEF o
  <2> QED BY <1>1, <1>2, <1>3, <1>4, <1>5, <1>7, InsertTakes, Zenon
<1> QED BY <1>6, <1>7, Zenon

\* A delete.
LEMMA deleteLockedKeeps ==
  ASSUME TableInv, deleteLocked
  PROVE  TableInv'
<1> DEFINE o == Head(todo)
           k == o.key
<1>1. /\ phase = "op" /\ todo # <<>> /\ o.val = Absent /\ OpDone(o)
      /\ UNCHANGED <<design, size, used, bufs, growing, view>>
  BY Zenon DEF deleteLocked
<1>2. PICK i \in DOMAIN slots :
        /\ EndsProbe(size, slots, k, i)
        /\ \/ /\ Holds(slots, k, i)
              /\ slots' = [slots EXCEPT ![i] = Tomb] /\ live' = live - 1
           \/ ~Holds(slots, k, i) /\ UNCHANGED <<slots, live>>
  BY Zenon DEF deleteLocked
<1>3. o \in Ops /\ k \in Keys
  BY <1>1, HeadOp, Zenon
<1>4. phase # "grow" /\ bufs' = bufs /\ used' = used /\ UNCHANGED <<design, size, growing, view>>
  BY <1>1
<1>5. Writes(oracle, bufs, slots, k, Absent, oracle')
  BY <1>1, <1>3, <1>4, OpWrites, Zenon
<1>6. IsTable(size, slots) /\ DOMAIN slots = SlotNos(size)
  BY TableFacts, Zenon DEF IsTable
<1> HIDE DEF o, k
<1>7. /\ IsTable(size, slots') /\ live' = Cardinality(Full(slots')) /\ Used(slots') = Used(slots)
      /\ Removes(slots, k, slots')
  <2>1. CASE Holds(slots, k, i)
    <3>1. i \in Full(slots) /\ slots[i].key = k
      BY <2>1, Zenon DEF Holds, Full
    <3>2. slots' = [slots EXCEPT ![i] = Tomb] /\ live' = live - 1
      BY <1>2, <2>1, Zenon
    <3>3. Cleared(size, slots, i, slots')
      BY <1>6, <3>1, <3>2, TombKeeps, Zenon
    <3>4. /\ IsTable(size, slots') /\ Full(slots') = Full(slots) \ {i}
          /\ \A m \in Full(slots') : slots'[m] = slots[m]
          /\ Used(slots') = Used(slots) /\ Cardinality(Full(slots')) = Cardinality(Full(slots)) - 1
      BY <3>3, Zenon DEF Cleared
    <3>5. \A m \in Full(slots) : slots[m].key = k <=> m = i
      BY <1>6, <3>1, Zenon DEF IsTable, RunsIntact
    <3>6. Full(slots') = {m \in Full(slots) : slots[m].key # k}
      BY <3>4, <3>5, Zenon
    <3>7. live' = Cardinality(Full(slots'))
      BY <3>2, <3>4, TableFacts, Zenon
    <3> QED BY <3>4, <3>6, <3>7, Zenon DEF Removes
  <2>2. CASE ~Holds(slots, k, i)
    <3>1. slots' = slots /\ live' = live
      BY <1>2, <2>2, Zenon
    <3>2. \A m \in Full(slots) : slots[m].key # k
      <4>1. Misses(size, slots, k, i)
        BY <1>2, <1>3, <1>6, <2>2, ProbeEnd, Zenon
      <4> QED BY <4>1, Zenon DEF Misses
    <3>3. Full(slots) = {m \in Full(slots) : slots[m].key # k}
      BY <3>2, Zenon
    <3> QED BY <1>6, <3>1, <3>3, TableFacts, Zenon DEF Removes
  <2> QED BY <2>1, <2>2, Zenon
<1>8. Current(bufs, oracle', bufs, slots')
  BY <1>5, <1>7, DeleteNewest, Zenon
<1>9. used' = Cardinality(Used(slots')) /\ design.den * used' <= design.num * size
  BY <1>4, <1>7, TableFacts, Zenon
<1> QED BY <1>1, <1>3, <1>4, <1>7, <1>8, <1>9, OpKeeps, Zenon DEF Current, IsTable

-----------------------------------------------------------------------------
(***************************************************************************)
(* The theorems about the table.                                           *)
(***************************************************************************)

\* newFaster and newSwiss make an empty table.
LEMMA TableInitInv == TableInit => TableInv
<1> SUFFICES ASSUME TableInit
             PROVE  TableInv
  OBVIOUS
<1>1. /\ design \in Designs /\ size = InitSlots /\ slots = NewSlots(size)
      /\ live = 0 /\ used = 0 /\ bufs = <<>> /\ phase = "free" /\ todo = <<>> /\ old = <<>> /\ at = 0
      /\ view = [c \in Clients |-> NoView] /\ oracle = [k \in Keys |-> Absent]
  BY Zenon DEF TableInit
<1>2. size \in Nat /\ size >= 2
  BY <1>1, OpenTableAssumption
<1>3. slots \in [SlotNos(size) -> Slot] /\ \A i \in DOMAIN slots : slots[i].st = "empty"
  <2>1. Empty \in Slot /\ Empty.st = "empty"
    BY DEF Empty, Slot
  <2> QED BY <1>1, <2>1, Zenon DEF NewSlots
<1>4. Full(slots) = {} /\ Used(slots) = {}
  BY <1>3 DEF Full, Used
<1>5. bufs \in Seq(Values) /\ todo \in Seq(Ops) /\ Len(bufs) = 0
  BY <1>1
<1>6. NoView \in [buf : Nat, was : Values \cup {Absent}] /\ NoView.buf = 0
  BY DEF NoView
<1>7. TableTypeOK
  <2>1. phase \in {"free", "op", "grow", "probe"} /\ 0 \in Nat
    BY <1>1
  <2>2. /\ view \in [Clients -> [buf : Nat, was : Values \cup {Absent}]]
        /\ oracle \in [Keys -> Values \cup {Absent}]
    BY <1>1, <1>6, Zenon
  <2> QED BY <1>1, <1>2, <1>3, <1>5, <2>1, <2>2, Zenon DEF TableTypeOK
<1>8. ProbeRunsIntact /\ BuffersUnshared
  BY <1>4, Zenon DEF ProbeRunsIntact, BuffersUnshared, RunsIntact, Unshared
<1>9. LoadBounded
  <2>1. Cardinality({}) = 0
    BY FS_EmptySet
  <2>2. design.den * 0 <= design.num * size
    BY <1>1, <1>2, LoadFactor
  <2> QED BY <1>1, <1>4, <2>1, <2>2 DEF LoadBounded
<1>10. GrowInv /\ ContentsInv
  <2>1. phase # "grow"
    BY <1>1
  <2> QED BY <1>1, <1>4, <2>1, Zenon DEF GrowInv, ContentsInv, Newest
<1>11. ViewInv
  BY <1>1, <1>5, <1>6 DEF ViewInv
<1> QED BY <1>7, <1>8, <1>9, <1>10, <1>11, Zenon DEF TableInv

\* Every step of faster and swiss keeps the shape of the table.
LEMMA TableStep ==
  ASSUME TableInv, [TableNext]_tableVars
  PROVE  TableInv'
<1>1. ASSUME NEW k \in Keys, NEW v \in Values, Put(k, v)
      PROVE  TableInv'
  <2>1. <<[key |-> k, val |-> v]>> \in Seq(Ops)
    BY DEF Ops
  <2> QED BY <1>1, <2>1, LockKeeps, Zenon DEF Put
<1>2. ASSUME NEW k \in Keys, Delete(k)
      PROVE  TableInv'
  <2>1. <<[key |-> k, val |-> Absent]>> \in Seq(Ops)
    BY DEF Ops
  <2> QED BY <1>2, <2>1, LockKeeps, Zenon DEF Delete
<1>3. ASSUME NEW ops \in Batches, applyBatch(ops)
      PROVE  TableInv'
  BY <1>3, OpenTableAssumption, LockKeeps, Zenon DEF applyBatch
<1>4. ASSUME Locked
      PROVE  TableInv'
  <2>1. CASE Reinsert
    <3>1. CASE old[at].st = "full"
      BY <2>1, <3>1, MoveKeeps, Zenon
    <3>2. CASE old[at].st # "full"
      <4>1. /\ phase = "grow" /\ at \in DOMAIN old /\ at' = at + 1
            /\ UNCHANGED <<design, size, slots, live, used, bufs, phase, todo, old, view, oracle>>
        BY <2>1, <3>2 DEF Reinsert, counts
      <4> QED BY <3>2, <4>1, SkipKeeps, Zenon
    <3> QED BY <3>1, <3>2, Zenon
  <2> QED BY <1>4, <2>1, growStartKeeps, growDoneKeeps, putLockedKeeps, deleteLockedKeeps,
             UnlockKeeps, Zenon DEF Locked
<1>5. ASSUME UNCHANGED tableVars
      PROVE  TableInv'
  <2>1. /\ UNCHANGED <<design, size, slots, counts, bufs, growing, oracle>>
        /\ phase' = phase /\ todo' = todo /\ view' = view
    BY <1>5 DEF tableVars
  <2>2. \A c \in Clients : view'[c].buf <= Len(bufs)
    BY <2>1, Zenon DEF TableInv, ViewInv
  <2> QED BY <2>1, <2>2, TableUntouched, TableFacts, Zenon
<1> QED BY <1>1, <1>2, <1>3, <1>4, <1>5, GetKeeps, DoneKeeps, Zenon DEF TableNext

\* Puts, deletes, batches and grows of faster and swiss keep one slot per key, probe
\* runs without gaps, exact counters within the load factor and a buffer per slot, at
\* every step of grow's loop too.
THEOREM TableShape == TableSpec => []TableInv
<1>1. TableInv /\ [TableNext]_tableVars => TableInv'
  BY TableStep, Zenon
<1> QED BY <1>1, TableInitInv, PTL DEF TableSpec

\* Every probe of faster and swiss ends, and where it ends a Get finds the newest write
\* of its key.
THEOREM TableNewest == TableSpec => []TableMatchesOracle
<1>1. TableInv => TableMatchesOracle
  <2> SUFFICES ASSUME TableInv, phase # "grow", NEW k \in Keys
               PROVE  /\ \E i \in DOMAIN slots : EndsProbe(size, slots, k, i)
                      /\ \A i \in DOMAIN slots : EndsProbe(size, slots, k, i) =>
                           oracle[k] = IF Holds(slots, k, i) THEN bufs[slots[i].buf] ELSE Absent
    BY Zenon DEF TableMatchesOracle
  <2>1. /\ size \in Nat /\ size >= 2 /\ slots \in [SlotNos(size) -> Slot]
        /\ DOMAIN slots = SlotNos(size) /\ RunsIntact(size, slots) /\ Newest(oracle, bufs, slots)
        /\ Cardinality(Used(slots)) < size
    BY TableFacts, Zenon
  <2>2. \E i \in DOMAIN slots : EndsProbe(size, slots, k, i)
    BY <2>1, ProbeEnds, Zenon
  <2>3. ASSUME NEW i \in DOMAIN slots, EndsProbe(size, slots, k, i)
        PROVE  oracle[k] = IF Holds(slots, k, i) THEN bufs[slots[i].buf] ELSE Absent
    <3>1. /\ Holds(slots, k, i) => i \in Full(slots) /\ slots[i].key = k
          /\ ~Holds(slots, k, i) => Misses(size, slots, k, i)
      BY <2>1, <2>3, ProbeEnd, Zenon DEF IsTable
    <3>2. CASE Holds(slots, k, i)
      BY <2>1, <3>1, <3>2, Zenon DEF Newest
    <3>3. CASE ~Holds(slots, k, i)
      BY <2>1, <3>1, <3>3, Zenon DEF Newest, Misses
    <3> QED BY <3>2, <3>3, Zenon
  <2> QED BY <2>2, <2>3, Zenon
<1> QED BY <1>1, TableShape, PTL

\* faster never writes a record twice: a step leaves every buffer there is as it was.
LEMMA RecordsKept ==
  ASSUME TableInv, TableNext, ~design.inPlace, NEW x \in 1..Len(bufs)
  PROVE  bufs'[x] = bufs[x]
<1>1. CASE putLocked
  <2> DEFINE o == Head(todo)
  <2>1. PICK i \in DOMAIN slots : Overwrite(i, o.val) \/ Insert(o.key, i, o.val)
    BY <1>1, Zenon DEF putLocked
  <2>2. bufs' = Append(bufs, o.val)
    BY <2>1, Zenon DEF Overwrite, Insert
  <2>3. bufs \in Seq(Values) /\ o.val \in Values
    BY <1>1, TableFacts, HeadOp, Zenon DEF putLocked
  <2> HIDE DEF o
  <2> QED BY <2>2, <2>3, AppendBuf
<1>2. CASE ~putLocked
  <2>1. bufs' = bufs
    BY <1>2, Zenon DEF TableNext, Locked, Put, Delete, applyBatch, Lock, growStart, Reinsert, growDone,
                deleteLocked, Unlock, Get, Done
  <2> QED BY <2>1, Zenon
<1> QED BY <1>1, <1>2, Zenon

\* The bytes behind the answer of a Get of faster stay what they were while the driver
\* holds them, whatever writers do after the lock was released.
THEOREM TableViews == TableSpec => []ViewStable
<1>1. TableInit => ViewStable
  <2> SUFFICES ASSUME TableInit, NEW c \in Clients
               PROVE  view[c].buf = 0
    BY Zenon DEF ViewStable
  <2>1. view[c] = NoView
    BY Zenon DEF TableInit
  <2> QED BY <2>1 DEF NoView
<1>2. ASSUME TableInv, ViewStable, [TableNext]_tableVars
      PROVE  ViewStable'
  <2> SUFFICES ASSUME ~design'.inPlace, NEW d \in Clients, view'[d].buf # 0
               PROVE  bufs'[view'[d].buf] = view'[d].was
    BY Zenon DEF ViewStable
  <2>1. design' = design
    BY <1>2, Zenon DEF tableVars, TableNext, Locked, Put, Delete, applyBatch, Lock, growStart, Reinsert,
                growDone, putLocked, deleteLocked, Unlock, Get, Done
  <2>2. ~design.inPlace
    BY <2>1, Zenon
  <2>3. view[d].buf # 0 => view[d].buf \in 1..Len(bufs) /\ bufs[view[d].buf] = view[d].was
    <3>1. view[d].buf \in Nat /\ view[d].buf <= Len(bufs) /\ Len(bufs) \in Nat
      BY <1>2, TableFacts, Zenon DEF TableInv, ViewInv
    <3>2. view[d].buf # 0 => bufs[view[d].buf] = view[d].was
      BY <1>2, <2>2, Zenon DEF ViewStable
    <3> QED BY <3>1, <3>2
  <2>4. CASE view'[d] = view[d]
    <3>1. CASE TableNext
      BY <1>2, <2>2, <2>3, <2>4, <3>1, RecordsKept, Zenon
    <3>2. CASE bufs' = bufs
      BY <2>3, <2>4, <3>2, Zenon
    <3>3. TableNext \/ bufs' = bufs
      BY <1>2 DEF tableVars
    <3> QED BY <3>1, <3>2, <3>3, Zenon
  <2>5. ASSUME NEW c \in Clients, NEW k \in Keys, Get(c, k), view'[d] # view[d]
        PROVE  bufs'[view'[d].buf] = view'[d].was
    <3>1. d = c
      BY <1>2, <2>5, GetAnswer, Zenon
    <3>2. bufs' = bufs
      BY <2>5 DEF Get
    <3> QED BY <1>2, <2>5, <3>1, <3>2, GetAnswer, Zenon
  <2>6. ASSUME NEW c \in Clients, Done(c)
        PROVE  view'[d] = view[d] \/ view'[d].buf = 0
    <3>1. view' = [view EXCEPT ![c] = NoView] /\ DOMAIN view = Clients
      BY <1>2, <2>6, TableFacts, Zenon DEF Done
    <3>2. NoView.buf = 0
      BY DEF NoView
    <3> QED BY <3>1, <3>2, Zenon
  <2>7. \/ view' = view
        \/ \E c \in Clients, k \in Keys : Get(c, k)
        \/ \E c \in Clients : Done(c)
    BY <1>2, Zenon DEF tableVars, TableNext, Locked, Put, Delete, applyBatch, Lock, growStart, Reinsert,
                growDone, putLocked, deleteLocked, Unlock
  <2> QED BY <2>4, <2>5, <2>6, <2>7, Zenon
<1> QED BY <1>1, <1>2, TableShape, PTL DEF TableSpec
=============================================================================
