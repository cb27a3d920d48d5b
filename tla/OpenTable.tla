----------------------------- MODULE OpenTable -----------------------------
(***************************************************************************)
(* The faster and swiss engines (adapters/inmem/inmem.go): one open        *)
(* addressing table behind one RWMutex. A writer holds the lock for a      *)
(* whole operation, or a whole batch; what it does meanwhile is one step   *)
(* per operation and, in grow, one per slot that is moved. Readers share   *)
(* the lock for a whole Get, which is one step. What crosses the lock is   *)
(* the answer of a Get: a view into the engine's own bytes, which the      *)
(* driver's read-modify-write still reads after the lock is gone.          *)
(*                                                                         *)
(* The engines differ in their load factor and in what an overwrite does:  *)
(* faster appends a record and repoints the slot, swiss writes the new     *)
(* value over the old one. TableInit picks the design; the rest of the     *)
(* code is the same. A buffer here is the value part of a faster record or *)
(* the val slice of a swiss slot. The hash bits that pick a slot are the   *)
(* constant function Hash; a slot's full hash and key are its key.         *)
(***************************************************************************)
EXTENDS Integers, Sequences, FiniteSets, Inmem

CONSTANTS
  NoKey,
  Hash,               \* the low hash bits of a key
  Designs,            \* the engines: see Faster and Swiss
  InitSlots,          \* slots of the first table (1<<10)
  MaxSlots,           \* bound: no operation starts that could need a larger table
  MaxBufs,            \* bound: value buffers ever allocated
  Batches             \* the batches a client may commit, sequences of Ops

\* The load factor, and whether an overwrite reuses the bytes of the value.
Faster == [num |-> 7, den |-> 10, inPlace |-> FALSE]
Swiss == [num |-> 3, den |-> 4, inPlace |-> TRUE]

ASSUME OpenTableAssumption ==
  /\ NoKey \notin Keys
  /\ Hash \in [Keys -> Nat]
  /\ Designs \subseteq {Faster, Swiss}
  /\ InitSlots \in Nat /\ InitSlots >= 2
  /\ MaxSlots \in Nat /\ MaxBufs \in Nat
  /\ \A ops \in Batches : ops \in Seq(Ops)

VARIABLES
  design,   \* of the engine, faster or swiss
  size,     \* len(idx), len(slots)
  slots,    \* idx of faster, slots of swiss
  live,     \* the counter of full slots
  used,     \* the counter of full slots and tombstones
  bufs,     \* the value buffers ever allocated
  phase,    \* of the writer: "free" (no lock), "op" (before the next operation),
            \* "grow" (in grow's loop), "probe" (grow is done, the put goes on)
  todo,     \* the operations the writer has still to do
  old,      \* grow's old slots
  at,       \* grow's position in them
  view,     \* what each client's last Get handed it: a buffer, or nothing
  oracle    \* history: the last write to each key

counts == <<live, used>>
growing == <<old, at>>
tableVars == <<design, size, slots, counts, bufs, phase, todo, growing, view, oracle>>

Empty == [st |-> "empty", key |-> NoKey, buf |-> 0]
FullSlot(k, b) == [st |-> "full", key |-> k, buf |-> b]
NoView == [buf |-> 0, was |-> Absent]

SlotNos(n) == 0..(n - 1)
NewSlots(n) == [i \in SlotNos(n) |-> Empty]
Full(s) == {i \in DOMAIN s : s[i].st = "full"}
Used(s) == {i \in DOMAIN s : s[i].st # "empty"}

-----------------------------------------------------------------------------
(***************************************************************************)
(* The probe: from the home slot h & mask forward, wrapping.               *)
(***************************************************************************)
Home(n, k) == Hash[k] % n

\* How many steps of the probe for k lead to slot i.
Dist(n, k, i) ==
  IF i >= Home(n, k) THEN i - Home(n, k) ELSE (i - Home(n, k)) + n

Holds(s, k, i) == s[i].st = "full" /\ s[i].key = k

\* Slot i is the first of those in S that the probe for k meets.
FirstOf(n, k, S, i) == i \in S /\ \A j \in S : Dist(n, k, i) <= Dist(n, k, j)

\* Mutant: a tombstone ends the probe.
MutEndsProbe(n, s, k, i) ==
  FirstOf(n, k, {j \in DOMAIN s : s[j].st # "full" \/ Holds(s, k, j)}, i)

\* Where the loop of Get, putLocked and deleteLocked ends.
EndsProbe(n, s, k, i) ==
  FirstOf(n, k, {j \in DOMAIN s : s[j].st = "empty" \/ Holds(s, k, j)}, i)

\* Mutant: a delete that clears the slot.
MutTomb == Empty

\* What deleteLocked leaves: the hash and, in faster, the offset stay behind,
\* but nothing reads them before the slot is filled again.
Tomb == [st |-> "tomb", key |-> NoKey, buf |-> 0]

\* The tombstones the probe for k passes before it ends at i.
TombsPassed(n, s, k, i) == {j \in DOMAIN s : s[j].st = "tomb" /\ Dist(n, k, j) < Dist(n, k, i)}

\* The slot an insert takes when its probe ends at i: the first tombstone it
\* passed, or i.
InsertsAt(n, s, k, i, j) ==
  LET S == TombsPassed(n, s, k, i)
  IN  IF S = {} THEN j = i ELSE FirstOf(n, k, S, j)

Overloaded == design.den * (used + 1) > design.num * size

-----------------------------------------------------------------------------
TableInit ==
  /\ design \in Designs
  /\ size = InitSlots /\ slots = NewSlots(InitSlots)
  /\ live = 0 /\ used = 0 /\ bufs = <<>>
  /\ phase = "free" /\ todo = <<>> /\ old = <<>> /\ at = 0
  /\ view = [c \in Clients |-> NoView]
  /\ oracle = [k \in Keys |-> Absent]

\* A writer takes the lock, to do ops in order.
Lock(ops) ==
  /\ phase = "free"
  /\ Len(bufs) + Len(ops) <= MaxBufs
  /\ design.den * (used + Len(ops)) <= design.num * MaxSlots
  /\ phase' = "op" /\ todo' = ops
  /\ UNCHANGED <<design, size, slots, counts, bufs, growing, view, oracle>>

Put(k, v) == Lock(<<[key |-> k, val |-> v]>>)

Delete(k) == Lock(<<[key |-> k, val |-> Absent]>>)

applyBatch(ops) == Lock(ops)

\* The operation is done; so is what the oracle knows of it.
OpDone(o) ==
  /\ oracle' = [oracle EXCEPT ![o.key] = o.val]
  /\ todo' = Tail(todo) /\ phase' = "op"

\* putLocked finds too few slots: grow always doubles.
growStart ==
  /\ phase = "op" /\ todo # <<>> /\ Head(todo).val # Absent /\ Overloaded
  /\ old' = slots /\ at' = 0
  /\ size' = 2 * size /\ slots' = NewSlots(2 * size)
  /\ live' = 0 /\ used' = 0
  /\ phase' = "grow"
  /\ UNCHANGED <<design, bufs, todo, view, oracle>>

\* One turn of grow's loop: a full slot moves to the first empty slot of its probe.
Reinsert ==
  /\ phase = "grow" /\ at \in DOMAIN old
  /\ \/ old[at].st # "full" /\ UNCHANGED <<slots, counts>>
     \/ /\ old[at].st = "full"
        /\ \E i \in DOMAIN slots :
             /\ FirstOf(size, old[at].key, {j \in DOMAIN slots : slots[j].st = "empty"}, i)
             /\ slots' = [slots EXCEPT ![i] = old[at]]
        /\ live' = live + 1 /\ used' = used + 1
  /\ at' = at + 1
  /\ UNCHANGED <<design, size, bufs, phase, todo, old, view, oracle>>

growDone ==
  /\ phase = "grow" /\ at \notin DOMAIN old
  /\ phase' = "probe" /\ old' = <<>> /\ at' = 0
  /\ UNCHANGED <<design, size, slots, counts, bufs, todo, view, oracle>>

\* Mutant: faster overwrites the record's bytes, as swiss does.
MutOverwrite(i, v) ==
  /\ bufs' = [bufs EXCEPT ![slots[i].buf] = v]
  /\ UNCHANGED <<slots, counts>>

Overwrite(i, v) ==
  /\ \/ /\ design.inPlace
        /\ bufs' = [bufs EXCEPT ![slots[i].buf] = v]
        /\ UNCHANGED slots
     \/ /\ ~design.inPlace
        /\ slots' = [slots EXCEPT ![i].buf = Len(bufs) + 1]
        /\ bufs' = Append(bufs, v)
  /\ UNCHANGED counts

\* A new key, when its probe has ended at the empty slot i.
Insert(k, i, v) ==
  /\ \E j \in DOMAIN slots :
       /\ InsertsAt(size, slots, k, i, j)
       /\ slots' = [slots EXCEPT ![j] = FullSlot(k, Len(bufs) + 1)]
  /\ bufs' = Append(bufs, v)
  /\ live' = live + 1
  /\ used' = used + (IF TombsPassed(size, slots, k, i) = {} THEN 1 ELSE 0)

\* What putLocked does once the table is large enough.
putLocked ==
  LET o == Head(todo)
  IN
  /\ todo # <<>> /\ o.val # Absent
  /\ (phase = "op" /\ ~Overloaded) \/ phase = "probe"
  /\ \E i \in DOMAIN slots :
       /\ EndsProbe(size, slots, o.key, i)
       /\ \/ Holds(slots, o.key, i) /\ Overwrite(i, o.val)
          \/ ~Holds(slots, o.key, i) /\ Insert(o.key, i, o.val)
  /\ OpDone(o)
  /\ UNCHANGED <<design, size, growing, view>>

deleteLocked ==
  LET o == Head(todo)
  IN
  /\ phase = "op" /\ todo # <<>> /\ o.val = Absent
  /\ \E i \in DOMAIN slots :
       /\ EndsProbe(size, slots, o.key, i)
       /\ \/ /\ Holds(slots, o.key, i)
             /\ slots' = [slots EXCEPT ![i] = Tomb] /\ live' = live - 1
          \/ ~Holds(slots, o.key, i) /\ UNCHANGED <<slots, live>>
  /\ OpDone(o)
  /\ UNCHANGED <<design, size, used, bufs, growing, view>>

Unlock ==
  /\ phase = "op" /\ todo = <<>>
  /\ phase' = "free"
  /\ UNCHANGED <<design, size, slots, counts, bufs, todo, growing, view, oracle>>

\* Get returns a view of the value's bytes, and the lock is released.
Get(c, k) ==
  /\ phase = "free" /\ view[c] = NoView
  /\ \E i \in DOMAIN slots :
       /\ EndsProbe(size, slots, k, i)
       /\ view' = [view EXCEPT ![c] = IF Holds(slots, k, i)
                                      THEN [buf |-> slots[i].buf, was |-> bufs[slots[i].buf]]
                                      ELSE NoView]
  /\ UNCHANGED <<design, size, slots, counts, bufs, phase, todo, growing, oracle>>

\* The driver is done with the answer; a read-modify-write goes on with a Put.
Done(c) ==
  /\ view[c] # NoView
  /\ view' = [view EXCEPT ![c] = NoView]
  /\ UNCHANGED <<design, size, slots, counts, bufs, phase, todo, growing, oracle>>

Locked == growStart \/ Reinsert \/ growDone \/ putLocked \/ deleteLocked \/ Unlock

TableNext ==
  \/ \E k \in Keys, v \in Values : Put(k, v)
  \/ \E k \in Keys : Delete(k)
  \/ \E ops \in Batches : applyBatch(ops)
  \/ Locked
  \/ \E c \in Clients, k \in Keys : Get(c, k)
  \/ \E c \in Clients : Done(c)

TableSpec == TableInit /\ [][TableNext]_tableVars

-----------------------------------------------------------------------------
(***************************************************************************)
(* Properties.                                                             *)
(***************************************************************************)
Slot == [st : {"empty", "full", "tomb"}, key : Keys \cup {NoKey}, buf : Nat]

\* Every variable has its type.
TableTypeOK ==
  /\ design \in Designs
  /\ size \in Nat /\ size >= 2 /\ slots \in [SlotNos(size) -> Slot]
  /\ live \in Nat /\ used \in Nat
  /\ bufs \in Seq(Values)
  /\ phase \in {"free", "op", "grow", "probe"} /\ todo \in Seq(Ops)
  /\ at \in Nat
  /\ view \in [Clients -> [buf : Nat, was : Values \cup {Absent}]]
  /\ oracle \in [Keys -> Values \cup {Absent}]

\* One slot per key and no empty slot before it on its probe: a delete leaves
\* a tombstone, and a reused tombstone comes after the whole run was walked.
RunsIntact(n, s) ==
  \A i \in Full(s) :
    /\ s[i].key \in Keys
    /\ \A j \in Full(s) : s[i].key = s[j].key => i = j
    /\ \A j \in DOMAIN s : Dist(n, s[i].key, j) < Dist(n, s[i].key, i) => s[j].st # "empty"

ProbeRunsIntact == RunsIntact(size, slots)

\* "live: full slots; used: full + tombstone slots, the load-factor driver".
\* With a load factor below one, an exact used keeps a slot empty, and every
\* probe loop ends there at the latest, after a grow too.
LoadBounded ==
  /\ live = Cardinality(Full(slots)) /\ used = Cardinality(Used(slots))
  /\ design.den * used <= design.num * size
  /\ phase = "probe" => ~Overloaded

\* Two keys never share a buffer: an overwrite of one is not seen by the other.
Unshared(s, n) ==
  \A i \in Full(s) :
    /\ s[i].buf \in 1..n
    /\ \A j \in Full(s) : s[i].buf = s[j].buf => i = j

BuffersUnshared == Unshared(slots, Len(bufs))

\* While grow's loop runs: the old table, of half the size, was within its load factor,
\* had one slot per key and one buffer per slot; the new one has exactly the full slots
\* of the old one that the loop has passed, and no tombstone.
Moved == {j \in Full(old) : j < at}

GrowLoop ==
  /\ \E m \in 2..size : /\ size = 2 * m /\ at <= m
                        /\ old \in [SlotNos(m) -> Slot]
                        /\ design.den * Cardinality(Full(old)) <= design.num * m
  /\ Unshared(old, Len(bufs))
  /\ \A i, j \in Full(old) : old[i].key = old[j].key => i = j
  /\ \A j \in Moved : \E i \in Full(slots) : slots[i] = old[j]
  /\ \A i \in Full(slots) : \E j \in Moved : slots[i] = old[j]
  /\ used = Cardinality(Moved) /\ Used(slots) = Full(slots)

GrowInv ==
  /\ phase # "grow" => old = <<>>
  /\ phase = "grow" => GrowLoop

\* The slots s and buffers b hold the newest write to every key, as f has it, and
\* nothing else.
Newest(f, b, s) ==
  /\ \A i \in Full(s) : s[i].key \in Keys /\ f[s[i].key] = b[s[i].buf]
  /\ \A k \in Keys : f[k] # Absent => \E i \in Full(s) : s[i].key = k

\* The table that counts holds the newest writes: grow's old one while its loop runs.
ContentsInv ==
  /\ phase # "grow" => Newest(oracle, bufs, slots)
  /\ phase = "grow" => Newest(oracle, bufs, old)

\* A client's answer lies in a buffer that exists.
ViewInv == \A c \in Clients : view[c].buf <= Len(bufs)

\* The shape of the table that put, delete, grow and applyBatch keep, at every step
\* of a writer.
TableInv ==
  /\ TableTypeOK /\ ProbeRunsIntact /\ LoadBounded /\ BuffersUnshared
  /\ GrowInv /\ ContentsInv /\ ViewInv

\* A probe for any key ends, and where it ends a Get finds the newest write of the
\* key, whatever overwrites, deletes, batches and grows came between.
TableMatchesOracle ==
  phase # "grow" =>
    \A k \in Keys :
      /\ \E i \in DOMAIN slots : EndsProbe(size, slots, k, i)
      /\ \A i \in DOMAIN slots : EndsProbe(size, slots, k, i) =>
           oracle[k] = IF Holds(slots, k, i) THEN bufs[slots[i].buf] ELSE Absent

\* The bytes behind the answer of a Get of faster, which never writes a record
\* twice, stay what they were while the caller holds it, as runMeasured's
\* read-modify-write needs when it reads v[0] after Get has released the lock.
ViewStable ==
  ~design.inPlace =>
    \A c \in Clients : view[c].buf # 0 => bufs[view[c].buf] = view[c].was
=============================================================================
