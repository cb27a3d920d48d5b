------------------------------ MODULE F2Shard ------------------------------
(***************************************************************************)
(* One shard of the f2 engine (adapters/inmem/inmem.go): an open-addressed *)
(* index of atomic words over an append-only record arena. Readers take no *)
(* lock: they load the table pointer once and then one slot word at a      *)
(* time. Writers hold the shard mutex, append the new record, and publish  *)
(* it with one atomic store of a slot; a full table or arena is replaced   *)
(* by a fresh one, built in private and published by one pointer store.    *)
(*                                                                         *)
(* One action per access another goroutine can see. What the mutex holder  *)
(* does between two such accesses (its own probe, the counters live and    *)
(* used) is folded into the access that follows. A record takes one cell   *)
(* of the arena, and the bits of the 64-bit hash that pick the slot and    *)
(* the tag are the constant functions Hash and Tag.                        *)
(***************************************************************************)
EXTENDS Integers, Sequences, FiniteSets

CONSTANTS
  Keys, Values,
  Readers, Writers,   \* the goroutines that call Get, and Put or Delete
  Absent,       \* the answer of a Get that finds nothing
  NoKey,        \* the key of a record cell that was never written
  Hash,         \* the low hash bits of a key: the slot its probe starts from
  Tag,          \* the 15 tag bits of a key
  InitSlots,    \* slots of the first table (1<<9)
  InitBuf,      \* cells of the first arena (1<<16)
  Slack,        \* spare cells grow adds to an arena (1<<12)
  MaxTabs,      \* bound: tables a shard may ever allocate
  MaxTail       \* bound: no Put starts on an arena with this many records

ASSUME F2Assumption ==
  /\ Absent \notin Values
  /\ NoKey \notin Keys
  /\ Hash \in [Keys -> Nat]
  /\ Tag \in [Keys -> Nat]
  /\ InitSlots \in Nat /\ InitSlots >= 2
  /\ InitBuf \in Nat
  /\ Slack \in Nat
  /\ MaxTabs \in Nat \ {0}
  /\ MaxTail \in Nat

VARIABLES
  cur,      \* the table s.tab points at
  ntab,     \* tables allocated so far; ntab > cur while a grow builds one
  heap,     \* heap[t]: the f2tab number t
  mu,       \* the holder of the shard mutex, {} when it is free
  pc, key, val, tab, pos, off,   \* each client's program counter and locals
  res,      \* what a Get is about to return
  oracle,   \* history: the last write to each key that became visible
  seen      \* history: what the key of a pending Get has held since its call

tables == <<cur, ntab, heap>>
locals == <<key, val, tab, pos, off, res>>
vars == <<tables, mu, pc, locals, oracle, seen>>

Clients == Readers \cup Writers
TabIds == 1..MaxTabs
Answers == Values \cup {Absent}

(***************************************************************************)
(* Tables. An f2tab T has T.n slots holding words, an arena T.buf of       *)
(* records (its length is the tail) with room for T.cap of them, and two   *)
(* counters. A word is empty, a tombstone, or the tag of a key and the     *)
(* offset of a record.                                                     *)
(***************************************************************************)
Empty == [st |-> "empty", tag |-> 0, off |-> 0]
\* Mutant: a delete that clears the slot.
MutTomb == Empty
Tomb == [st |-> "tomb", tag |-> 0, off |-> 0]
Word(k, o) == [st |-> "full", tag |-> Tag[k], off |-> o]

newF2tab(n, cap) ==
  [n |-> n, slots |-> [i \in 0..(n - 1) |-> Empty], buf |-> <<>>, cap |-> cap,
   live |-> 0, used |-> 0]

SlotsOf(T) == 0..(T.n - 1)

\* recordAt: bytes no record was written to decode as an empty key and value.
RecordAt(T, o) ==
  IF o \in 1..Len(T.buf) THEN T.buf[o] ELSE [key |-> NoKey, val |-> Absent]

RecOf(T, i) == RecordAt(T, T.slots[i].off)

Full(T) == {i \in SlotsOf(T) : T.slots[i].st = "full"}

\* h & mask
Home(k, n) == Hash[k] % n

\* (i + 1) & mask
NextSlot(i, n) == IF i + 1 = n THEN 0 ELSE i + 1

\* How many steps of NextSlot lead from slot h to slot i.
Dist(h, i, n) == IF i >= h THEN i - h ELSE (i - h) + n

ProbeDist(T, k, i) == Dist(Home(k, T.n), i, T.n)

Matches(k, w) == w.st = "full" /\ w.tag = Tag[k]

\* The test of every probe loop: a word with the key's tag that points at a
\* record of the key.
Holds(T, k, i) == Matches(k, T.slots[i]) /\ RecOf(T, i).key = k

\* Where a probe for k ends: the nearest slot that is empty or holds k.
Stops(T, k, i) == T.slots[i] = Empty \/ Holds(T, k, i)

EndsProbe(T, k, i) ==
  /\ Stops(T, k, i)
  /\ \A j \in SlotsOf(T) : Stops(T, k, j) => ProbeDist(T, k, i) <= ProbeDist(T, k, j)

\* The tombstones a probe for k walks past before it ends at slot i.
TombsBefore(T, k, i) ==
  {j \in SlotsOf(T) : T.slots[j] = Tomb /\ ProbeDist(T, k, j) < ProbeDist(T, k, i)}

\* j is the slot an insert of k takes when its probe ends at the empty slot i:
\* firstTomb if the probe passed a tombstone, i itself otherwise.
InsertsAt(T, k, i, j) ==
  IF TombsBefore(T, k, i) = {}
  THEN j = i
  ELSE /\ j \in TombsBefore(T, k, i)
       /\ \A m \in TombsBefore(T, k, i) : ProbeDist(T, k, j) <= ProbeDist(T, k, m)

\* Mutant: the records of the key are overwritten in place as well.
MutAppendRecord(T, rec) ==
  [T EXCEPT !.buf = Append([o \in DOMAIN @ |-> IF @[o].key = rec.key THEN rec ELSE @[o]], rec)]

appendRecord(T, rec) == [T EXCEPT !.buf = Append(@, rec)]

\* An atomic store of a slot word.
Store(T, i, w) == [T EXCEPT !.slots = [@ EXCEPT ![i] = w]]

\* Mutant: a delete gives its slot back to used.
MutCount(T, dlive, dused) ==
  [T EXCEPT !.live = @ + dlive, !.used = IF dlive < 0 THEN @ - 1 ELSE @ + dused]

Count(T, dlive, dused) == [T EXCEPT !.live = @ + dlive, !.used = @ + dused]

\* Mutant: the load limit lets the last slot be taken.
MutOverloaded(u, n) == u + 1 > n

\* used + 1 > f2MaxLoad * len(slots), with f2MaxLoad = 0.7
Overloaded(u, n) == 10 * (u + 1) > 7 * n

NeedsGrow(T) == Len(T.buf) + 1 > T.cap \/ Overloaded(T.used, T.n)

\* grow doubles until the live set fits; from two slots up once is enough.
GrownSize(T) == IF Overloaded(T.live, T.n) THEN 2 * T.n ELSE T.n

-----------------------------------------------------------------------------
Reading(c) == pc[c] \in {"probe", "compare"}

Init ==
  /\ cur = 1 /\ ntab = 1
  /\ heap = [t \in TabIds |-> IF t = 1 THEN newF2tab(InitSlots, InitBuf) ELSE newF2tab(0, 0)]
  /\ mu = {}
  /\ pc = [c \in Clients |-> "idle"]
  /\ key = [c \in Clients |-> NoKey] /\ val = [c \in Clients |-> Absent]
  /\ tab = [c \in Clients |-> 1]
  /\ pos = [c \in Clients |-> 0] /\ off = [c \in Clients |-> 0]
  /\ res = [c \in Clients |-> Absent]
  /\ oracle = [k \in Keys |-> Absent]
  /\ seen = [c \in Clients |-> {}]

\* A write of x to k becomes visible: the history notes it.
Visible(k, x) ==
  /\ oracle' = [oracle EXCEPT ![k] = x]
  /\ seen' = [r \in Clients |->
                IF Reading(r) /\ key[r] = k THEN seen[r] \cup {x} ELSE seen[r]]

(***************************************************************************)
(* Get.                                                                    *)
(***************************************************************************)
\* The call: hash the key and load the table pointer, once.
GetStart(c, k) ==
  /\ pc[c] = "idle"
  /\ pc' = [pc EXCEPT ![c] = "probe"]
  /\ key' = [key EXCEPT ![c] = k]
  /\ tab' = [tab EXCEPT ![c] = cur]
  /\ pos' = [pos EXCEPT ![c] = Home(k, heap[cur].n)]
  /\ seen' = [seen EXCEPT ![c] = {oracle[k]}]
  /\ UNCHANGED <<tables, mu, val, off, res, oracle>>

\* One atomic load of a slot word.
GetLoad(c) ==
  LET T == heap[tab[c]]
      w == T.slots[pos[c]]
  IN
  /\ pc[c] = "probe"
  /\ \/ /\ w = Empty
        /\ pc' = [pc EXCEPT ![c] = "answer"]
        /\ res' = [res EXCEPT ![c] = Absent]
        /\ UNCHANGED <<pos, off>>
     \/ /\ Matches(key[c], w)
        /\ pc' = [pc EXCEPT ![c] = "compare"]
        /\ off' = [off EXCEPT ![c] = w.off]
        /\ UNCHANGED <<pos, res>>
     \/ /\ w # Empty /\ ~Matches(key[c], w)
        /\ pos' = [pos EXCEPT ![c] = NextSlot(@, T.n)]
        /\ UNCHANGED <<pc, off, res>>
  /\ UNCHANGED <<tables, mu, key, val, tab, oracle, seen>>

\* Mutant: the tag alone decides.
MutGetCompare(c) ==
  /\ pc[c] = "compare"
  /\ pc' = [pc EXCEPT ![c] = "answer"]
  /\ res' = [res EXCEPT ![c] = RecordAt(heap[tab[c]], off[c]).val]
  /\ off' = [off EXCEPT ![c] = 0]
  /\ UNCHANGED <<tables, mu, key, val, tab, pos, oracle, seen>>

\* The record the loaded word points at, compared with the wanted key.
GetCompare(c) ==
  LET T == heap[tab[c]]
      rec == RecordAt(T, off[c])
  IN
  /\ pc[c] = "compare"
  /\ \/ /\ rec.key = key[c]
        /\ pc' = [pc EXCEPT ![c] = "answer"]
        /\ res' = [res EXCEPT ![c] = rec.val]
        /\ UNCHANGED pos
     \/ /\ rec.key # key[c]
        /\ pc' = [pc EXCEPT ![c] = "probe"]
        /\ pos' = [pos EXCEPT ![c] = NextSlot(@, T.n)]
        /\ UNCHANGED res
  /\ off' = [off EXCEPT ![c] = 0]
  /\ UNCHANGED <<tables, mu, key, val, tab, oracle, seen>>

GetReturn(c) ==
  /\ pc[c] = "answer"
  /\ pc' = [pc EXCEPT ![c] = "idle"]
  /\ key' = [key EXCEPT ![c] = NoKey]
  /\ tab' = [tab EXCEPT ![c] = 1]
  /\ pos' = [pos EXCEPT ![c] = 0]
  /\ res' = [res EXCEPT ![c] = Absent]
  /\ seen' = [seen EXCEPT ![c] = {}]
  /\ UNCHANGED <<tables, mu, val, off, oracle>>

(***************************************************************************)
(* Put: lock, grow when the arena or the index is full, append, install.   *)
(***************************************************************************)
\* The lock is taken and putLocked decides whether to grow. Growing allocates
\* the new table, which nobody else can reach before it is published.
PutLock(c, k, v) ==
  LET T == heap[cur]
  IN
  /\ pc[c] = "idle" /\ mu = {}
  /\ Len(T.buf) < MaxTail
  /\ mu' = {c}
  /\ key' = [key EXCEPT ![c] = k]
  /\ val' = [val EXCEPT ![c] = v]
  /\ tab' = [tab EXCEPT ![c] = cur]
  /\ \/ /\ ~NeedsGrow(T)
        /\ pc' = [pc EXCEPT ![c] = "append"]
        /\ UNCHANGED tables
     \/ /\ NeedsGrow(T) /\ ntab < MaxTabs
        /\ pc' = [pc EXCEPT ![c] = "replay"]
        /\ ntab' = ntab + 1
        /\ heap' = [heap EXCEPT ![ntab + 1] =
                      newF2tab(GrownSize(T), 2 * Len(T.buf) + 1 + Slack)]
        /\ UNCHANGED cur
  /\ UNCHANGED <<pos, off, res, oracle, seen>>

\* Mutant: the loop does not get past a full slot.
MutToReplay(c) == Full(heap[tab[c]])

\* The old slots grow's loop has still to replay: the full ones from pos on.
ToReplay(c) == {i \in Full(heap[tab[c]]) : i >= pos[c]}

\* Mutant: the new table is filled from slot 0, not from the home slot.
MutFirstEmpty(T, k, i) ==
  T.slots[i] = Empty /\ \A j \in SlotsOf(T) : T.slots[j] = Empty => i <= j

\* i is the first empty slot of the probe for k.
FirstEmpty(T, k, i) ==
  /\ T.slots[i] = Empty
  /\ \A j \in SlotsOf(T) : T.slots[j] = Empty => ProbeDist(T, k, i) <= ProbeDist(T, k, j)

\* The next full slot of grow's loop over the old slots: its record is appended
\* to the new arena and installed at the first empty slot of its probe.
Replay(c) ==
  LET T == heap[ntab]
  IN
  /\ pc[c] = "replay"
  /\ \E o \in ToReplay(c), i \in SlotsOf(T) :
       LET rec == RecOf(heap[tab[c]], o)
       IN
       /\ \A m \in ToReplay(c) : o <= m
       /\ FirstEmpty(T, rec.key, i)
       /\ pos' = [pos EXCEPT ![c] = o + 1]
       /\ heap' = [heap EXCEPT ![ntab] =
                     Count(Store(appendRecord(T, rec), i, Word(rec.key, Len(T.buf) + 1)), 1, 1)]
  /\ UNCHANGED <<cur, ntab, mu, pc, key, val, tab, off, res, oracle, seen>>

\* Mutant: the new table is published before the replay is over.
MutPublishEarly(c) ==
  /\ pc[c] = "replay"
  /\ cur' = ntab
  /\ tab' = [tab EXCEPT ![c] = ntab]
  /\ pos' = [pos EXCEPT ![c] = 0]
  /\ pc' = [pc EXCEPT ![c] = "append"]
  /\ UNCHANGED <<ntab, heap, mu, key, val, off, res, oracle, seen>>

\* Mutant: putLocked goes on with the table it had before the grow.
MutPublishStale(c) ==
  /\ pc[c] = "replay" /\ ToReplay(c) = {}
  /\ cur' = ntab
  /\ pos' = [pos EXCEPT ![c] = 0]
  /\ pc' = [pc EXCEPT ![c] = "append"]
  /\ UNCHANGED <<ntab, heap, mu, key, val, tab, off, res, oracle, seen>>

\* The end of grow: one atomic store publishes the table, and putLocked goes
\* on with the table grow returned.
Publish(c) ==
  /\ pc[c] = "replay" /\ ToReplay(c) = {}
  /\ cur' = ntab
  /\ tab' = [tab EXCEPT ![c] = ntab]
  /\ pos' = [pos EXCEPT ![c] = 0]
  /\ pc' = [pc EXCEPT ![c] = "append"]
  /\ UNCHANGED <<ntab, heap, mu, key, val, off, res, oracle, seen>>

\* The bytes of the new record, past every record a slot points at.
PutAppend(c) ==
  LET T == heap[tab[c]]
  IN
  /\ pc[c] = "append"
  /\ pc' = [pc EXCEPT ![c] = "install"]
  /\ off' = [off EXCEPT ![c] = Len(T.buf) + 1]
  /\ heap' = [heap EXCEPT ![tab[c]] = appendRecord(T, [key |-> key[c], val |-> val[c]])]
  /\ UNCHANGED <<cur, ntab, mu, key, val, tab, pos, res, oracle, seen>>

\* The store that installs the record: a repoint of the key's slot, or a new
\* entry in the first tombstone of the probe or in the empty slot that ended
\* it. The mutex is released.
PutInstall(c) ==
  LET T == heap[tab[c]]
  IN
  /\ pc[c] = "install"
  /\ \E i \in SlotsOf(T) :
       /\ EndsProbe(T, key[c], i)
       /\ \/ /\ Holds(T, key[c], i)
             /\ heap' = [heap EXCEPT ![tab[c]] = Store(T, i, Word(key[c], off[c]))]
          \/ /\ ~Holds(T, key[c], i)
             /\ \E j \in SlotsOf(T) :
                  /\ InsertsAt(T, key[c], i, j)
                  /\ heap' = [heap EXCEPT ![tab[c]] =
                                Count(Store(T, j, Word(key[c], off[c])), 1, IF j = i THEN 1 ELSE 0)]
  /\ Visible(key[c], val[c])
  /\ mu' = {}
  /\ pc' = [pc EXCEPT ![c] = "idle"]
  /\ key' = [key EXCEPT ![c] = NoKey]
  /\ val' = [val EXCEPT ![c] = Absent]
  /\ tab' = [tab EXCEPT ![c] = 1]
  /\ off' = [off EXCEPT ![c] = 0]
  /\ UNCHANGED <<cur, ntab, pos, res>>

(***************************************************************************)
(* Delete: under the mutex, one store of a tombstone, or nothing at all.   *)
(***************************************************************************)
Delete(c, k) ==
  LET T == heap[cur]
  IN
  /\ pc[c] = "idle" /\ mu = {}
  /\ \E i \in SlotsOf(T) :
       /\ EndsProbe(T, k, i)
       /\ \/ /\ Holds(T, k, i)
             /\ heap' = [heap EXCEPT ![cur] = Count(Store(T, i, Tomb), -1, 0)]
          \/ /\ ~Holds(T, k, i)
             /\ UNCHANGED heap
  /\ Visible(k, Absent)
  /\ UNCHANGED <<cur, ntab, mu, pc, locals>>

Get(c) ==
  \/ \E k \in Keys : GetStart(c, k)
  \/ GetLoad(c)
  \/ GetCompare(c)
  \/ GetReturn(c)

Put(c) ==
  \/ \E k \in Keys, v \in Values : PutLock(c, k, v)
  \/ Replay(c)
  \/ Publish(c)
  \/ PutAppend(c)
  \/ PutInstall(c)

Next ==
  \/ \E c \in Readers : Get(c)
  \/ \E c \in Writers : Put(c)
  \/ \E c \in Writers, k \in Keys : Delete(c, k)

Spec == Init /\ [][Next]_vars

\* The Go scheduler runs every goroutine: a reader that can load its next slot
\* does so, and so does the holder of the mutex. Nobody is obliged to call.
FairSpec ==
  /\ Spec
  /\ \A c \in Clients :
       /\ WF_vars(GetLoad(c) \/ GetCompare(c) \/ GetReturn(c))
       /\ WF_vars(Replay(c) \/ Publish(c) \/ PutAppend(c) \/ PutInstall(c))

-----------------------------------------------------------------------------
(***************************************************************************)
(* Properties.                                                             *)
(***************************************************************************)
WordSet == [st : {"empty", "tomb", "full"}, tag : Nat, off : Nat]
RecordSet == [key : Keys, val : Values]

IsTable(T) ==
  /\ DOMAIN T = {"n", "slots", "buf", "cap", "live", "used"}
  /\ T.n \in Nat
  /\ T.slots \in [SlotsOf(T) -> WordSet]
  /\ T.buf \in Seq(RecordSet)
  /\ T.cap \in Nat /\ T.live \in Int /\ T.used \in Int

\* Every variable has its type.
TypeOK ==
  /\ cur \in TabIds /\ ntab \in TabIds
  /\ DOMAIN heap = TabIds /\ \A t \in TabIds : IsTable(heap[t])
  /\ mu \in SUBSET Clients
  /\ pc \in [Clients -> {"idle", "probe", "compare", "answer", "replay", "append", "install"}]
  /\ key \in [Clients -> Keys \cup {NoKey}]
  /\ val \in [Clients -> Answers]
  /\ tab \in [Clients -> TabIds]
  /\ pos \in [Clients -> Nat] /\ off \in [Clients -> Nat]
  /\ res \in [Clients -> Answers]
  /\ oracle \in [Keys -> Answers]
  /\ seen \in [Clients -> SUBSET Answers]

\* A slot word is empty, a tombstone, or a pointer to a record, under its tag.
WordsValid(T) ==
  \A i \in SlotsOf(T) :
    \/ T.slots[i] = Empty
    \/ T.slots[i] = Tomb
    \/ /\ T.slots[i].off \in 1..Len(T.buf)
       /\ T.slots[i] = Word(RecOf(T, i).key, T.slots[i].off)

\* At most one slot holds a key: an insert that reuses a tombstone has first
\* walked the whole probe run.
OneSlotPerKey(T) ==
  \A i, j \in Full(T) : RecOf(T, i).key = RecOf(T, j).key => i = j

\* No empty slot lies between a key's home slot and the slot that holds it, so
\* a probe cannot end early; a delete leaves a tombstone for this reason.
NoGaps(T) ==
  \A i \in Full(T), j \in SlotsOf(T) :
    ProbeDist(T, RecOf(T, i).key, j) < ProbeDist(T, RecOf(T, i).key, i) => T.slots[j] # Empty

WellFormed(T) == T.n >= 2 /\ WordsValid(T) /\ OneSlotPerKey(T) /\ NoGaps(T)

\* Every table, published, replaced or being built, has one valid word per key
\* it holds and no gap in a probe run.
TablesWellFormed == \A t \in 1..ntab : WellFormed(heap[t])

Taken(T) == {i \in SlotsOf(T) : T.slots[i] # Empty}

Counted(T) == T.live = Cardinality(Full(T)) /\ T.used = Cardinality(Taken(T))

\* live counts the full slots and used the full ones and the tombstones, the
\* numbers that putLocked and grow size the table by.
CountersExact == \A t \in 1..ntab : Counted(heap[t])

\* Every table keeps an empty slot, so the probe loops, which have no other
\* exit for an absent key, all end.
SomeSlotEmpty ==
  \A t \in 1..ntab : \E i \in SlotsOf(heap[t]) : heap[t].slots[i] = Empty

\* "The caller guarantees room": appendRecord never runs past the arena.
ArenaFits == \A t \in 1..ntab : Len(heap[t].buf) <= heap[t].cap

\* What is left for a client in the middle of a Put: past the checks of putLocked
\* a slot and a cell; and in grow, which has taken one cell and one slot for each
\* record it has copied, those for all that are left and one more.
RoomFor(c) ==
  LET old == heap[cur]
      new == heap[ntab]
  IN
  /\ pc[c] \in {"append", "install"} => ~Overloaded(old.used, old.n)
  /\ pc[c] = "append" => Len(old.buf) < old.cap
  /\ pc[c] = "replay" =>
       /\ Len(new.buf) = new.used
       /\ new.used + Cardinality(ToReplay(c)) = old.live
       /\ Len(old.buf) < new.cap
       /\ ~Overloaded(old.live, new.n)

\* No table goes past f2MaxLoad, and nobody runs out in the middle of a Put.
LoadKept ==
  /\ \A t \in 1..ntab : 10 * heap[t].used <= 7 * heap[t].n
  /\ \A c \in Clients : RoomFor(c)

\* What putLocked and grow must keep: exact counters and, because of them, an
\* empty slot in every table and room in every arena.
RoomKept == CountersExact /\ SomeSlotEmpty /\ ArenaFits /\ LoadKept

\* What a probe of a table for k finds when nothing else runs.
Lookup(T, k) ==
  LET found == {i \in SlotsOf(T) : Holds(T, k, i) /\ EndsProbe(T, k, i)}
  IN  IF found = {} THEN Absent ELSE RecOf(T, CHOOSE i \in found : TRUE).val

\* The published table holds exactly the newest write of every key, across
\* overwrites, deletes, tombstone reuse and grows: the oracle of inmem_test.go.
TableMatchesOracle == \A k \in Keys : Lookup(heap[cur], k) = oracle[k]

\* A lock-free Get answers with a value, or an absence, that its key had at
\* some moment of the call, whatever writers and grows did between its loads.
GetLinearizable == \A c \in Clients : pc[c] = "answer" => res[c] \in seen[c]

-----------------------------------------------------------------------------
(***************************************************************************)
(* The inductive invariant behind TableMatchesOracle and GetLinearizable.  *)
(***************************************************************************)
Locked(c) == pc[c] \in {"replay", "append", "install"}

\* The mutex has one holder, the client between lock and unlock. Only its
\* grow has a table that is not published yet.
MutexInv ==
  /\ \A c \in Clients : Locked(c) <=> c \in mu
  /\ \A c, d \in mu : c = d
  /\ ntab = cur \/ (ntab = cur + 1 /\ \E c \in Clients : pc[c] = "replay")
  /\ \A c \in Clients :
       /\ Locked(c) => tab[c] = cur /\ key[c] \in Keys /\ val[c] \in Values
       /\ pc[c] = "replay" => ntab = cur + 1
       /\ pc[c] = "install" =>
            /\ off[c] \in 1..Len(heap[cur].buf)
            /\ heap[cur].buf[off[c]] = [key |-> key[c], val |-> val[c]]
       /\ pc[c] \in {"idle", "append", "install"} => pos[c] = 0

\* A grow has copied the records of the old slots before pos, and no others.
ReplayInv ==
  \A c \in Clients : pc[c] = "replay" =>
    LET old == heap[cur]
        new == heap[ntab]
    IN
    /\ \A i \in Full(old) : i < pos[c] => \E j \in Full(new) : RecOf(new, j) = RecOf(old, i)
    /\ \A j \in Full(new) : \E i \in Full(old) : i < pos[c] /\ RecOf(new, j) = RecOf(old, i)

\* The full slots of the published table are the keys the oracle has, with
\* their values.
OracleInv ==
  LET T == heap[cur]
  IN
  /\ \A i \in Full(T) : oracle[RecOf(T, i).key] = RecOf(T, i).val
  /\ \A k \in Keys : oracle[k] # Absent => \E i \in Full(T) : RecOf(T, i).key = k

\* What a reader in the middle of its probe can still rely on: whatever it
\* finds is a value the key had during the call; and unless the key was absent
\* at some moment of the call, its slot lies ahead of the reader.
ReaderOK(c) ==
  LET T == heap[tab[c]]
      k == key[c]
      rec == RecordAt(T, off[c])
  IN
  /\ Reading(c) =>
       /\ k \in Keys /\ tab[c] <= cur /\ pos[c] \in SlotsOf(T)
       /\ oracle[k] \in seen[c]
       /\ \A i \in Full(T) : RecOf(T, i).key = k => RecOf(T, i).val \in seen[c]
  /\ pc[c] = "probe" =>
       \/ Absent \in seen[c]
       \/ \E i \in Full(T) : RecOf(T, i).key = k /\ ProbeDist(T, k, pos[c]) <= ProbeDist(T, k, i)
  /\ pc[c] = "compare" =>
       /\ off[c] \in 1..Len(T.buf)
       /\ rec.key = k => rec.val \in seen[c]
       /\ \/ Absent \in seen[c]
          \/ rec.key = k
          \/ \E i \in Full(T) : RecOf(T, i).key = k /\ ProbeDist(T, k, pos[c]) < ProbeDist(T, k, i)
  /\ pc[c] = "answer" => res[c] \in seen[c]

ReaderInv == \A c \in Clients : ReaderOK(c)

\* Together these say why a lock-free read of f2 is safe, and every step
\* preserves them.
IndInv == TypeOK /\ MutexInv /\ TablesWellFormed /\ ReplayInv /\ OracleInv /\ ReaderInv

-----------------------------------------------------------------------------
\* "The bytes are immutable once the slot pointing at them is installed": a
\* record, once appended, never changes under a view of it.
RecordsImmutable ==
  [][\A t \in 1..ntab : \A o \in 1..Len(heap[t].buf) :
       o <= Len(heap'[t].buf) /\ heap'[t].buf[o] = heap[t].buf[o]]_vars

\* "Once a shard swaps a new f2tab in, the old one's slots and buf are never
\* written again": writers touch only the published table and the one a grow
\* is building.
OldTablesFrozen == [][\A t \in 1..(cur - 1) : heap'[t] = heap[t]]_vars

\* A Get always answers, however often writers change the table under it:
\* the read path waits for nobody.
GetAnswers == \A c \in Clients : pc[c] = "probe" ~> pc[c] = "answer"

\* Whoever locks the shard unlocks it: putLocked and grow always come to an end.
MutexReleased == \A c \in Clients : mu = {c} ~> mu = {}

(***************************************************************************)
(* The shard implements the map of the engine SPI.                         *)
(***************************************************************************)
CallOf(c) ==
  CASE Reading(c) -> [st |-> "pending", key |-> key[c], seen |-> seen[c], res |-> Absent]
    [] pc[c] = "answer" -> [st |-> "answered", key |-> key[c], seen |-> seen[c], res |-> res[c]]
    [] OTHER -> [st |-> "none", key |-> Absent, seen |-> {}, res |-> Absent]

Map == INSTANCE KVMap WITH store <- [k \in Keys |-> Lookup(heap[cur], k)],
                           calls <- [c \in Clients |-> CallOf(c)]

\* Seen through the published table and the Gets in flight, every step of the
\* shard is a step of the map or changes nothing.
ImplementsMap == Map!Spec
=============================================================================
