--------------------------- MODULE F2ShardProofs ----------------------------
(***************************************************************************)
(* Proofs about one shard of f2, for every number of clients, keys and     *)
(* values, every hash and tag function, and every initial size.            *)
(***************************************************************************)
EXTENDS F2StepProofs, FiniteSetTheorems

-----------------------------------------------------------------------------
(***************************************************************************)
(* The theorems.                                                           *)
(***************************************************************************)
\* A step that changes nothing keeps the invariant.
LEMMA StutterKeeps ==
  ASSUME IndInv, UNCHANGED vars
  PROVE  IndInv'
  <1> USE DEF vars, tables, locals
  <1>1. TypeOK' /\ MutexInv' /\ TablesWellFormed'
    BY Zenon DEF IndInv, TypeOK, MutexInv, TablesWellFormed, Locked
  <1>2. ReplayInv' /\ OracleInv'
    BY DEF IndInv, ReplayInv, OracleInv
  <1>3. ReaderInv'
    BY Zenon DEF IndInv, ReaderInv, ReaderOK, Reading
  <1> QED
    BY <1>1, <1>2, <1>3 DEF IndInv

\* Every step of the shard keeps the invariant.
LEMMA NextKeeps ==
  ASSUME IndInv, [Next]_vars
  PROVE  IndInv'
  <1>1. ASSUME NEW c \in Readers, Get(c)
        PROVE  IndInv'
    BY <1>1, GetStartKeeps, GetLoadKeeps, GetCompareKeeps, GetReturnKeeps DEF Get, Clients
  <1>2. ASSUME NEW c \in Writers, Put(c)
        PROVE  IndInv'
    BY <1>2, PutLockKeeps, ReplayKeeps, PublishKeeps, PutAppendKeeps, PutInstallKeeps
       DEF Put, Clients
  <1>3. ASSUME NEW c \in Writers, NEW k \in Keys, Delete(c, k)
        PROVE  IndInv'
    BY <1>3, DeleteKeeps DEF Clients
  <1> QED
    BY <1>1, <1>2, <1>3, StutterKeeps DEF Next

\* The inductive invariant of the shard: types, the mutex, the shape of every
\* table, the progress of a grow, the contents of the published table and what
\* each read in flight relies on.
THEOREM Invariance == Spec => []IndInv
  <1>1. Init => IndInv
    BY InitIndInv
  <1>2. IndInv /\ [Next]_vars => IndInv'
    BY NextKeeps
  <1> QED
    BY <1>1, <1>2, PTL DEF Spec

\* f2.Get takes no lock and may run while any number of Puts, Deletes and grows
\* change the shard under it; its answer is a value, or an absence, that its
\* key had at some moment of the call.
THEOREM Linearizability == Spec => []GetLinearizable
  <1>1. IndInv => GetLinearizable
    BY Zenon DEF IndInv, ReaderInv, ReaderOK, GetLinearizable
  <1> QED
    BY <1>1, Invariance, PTL

\* In a table of the invariant a probe finds exactly the full slot of its key.
LEMMA LookupFinds ==
  ASSUME NEW T, IsTable(T), WellFormed(T), NEW k \in Keys
  PROVE  /\ \A i \in Full(T) : RecOf(T, i).key = k => Lookup(T, k) = RecOf(T, i).val
         /\ (\A i \in Full(T) : RecOf(T, i).key # k) => Lookup(T, k) = Absent
  <1> DEFINE found == {i \in SlotsOf(T) : Holds(T, k, i) /\ EndsProbe(T, k, i)}
  <1>1. \A i \in found : i \in Full(T) /\ RecOf(T, i).key = k
    BY ProbeEnds
  <1>2. ASSUME NEW i \in Full(T), RecOf(T, i).key = k
        PROVE  i \in found
    <2>1. i \in SlotsOf(T) /\ Holds(T, k, i)
      BY <1>2, FullFacts
    <2>2. ASSUME NEW j \in SlotsOf(T), Stops(T, k, j)
          PROVE  ProbeDist(T, k, i) <= ProbeDist(T, k, j)
      <3>1. ProbeDist(T, k, i) \in Nat /\ ProbeDist(T, k, j) \in Nat
        BY <2>1, ProbeFacts DEF IsTable, WellFormed
      <3>2. CASE T.slots[j] = Empty
        BY <1>2, <3>1, <3>2 DEF WellFormed, NoGaps
      <3>3. CASE Holds(T, k, j)
        <4>1. j \in Full(T) /\ RecOf(T, j).key = k
          BY <3>3 DEF Holds, Matches, Full
        <4>2. j = i
          BY <1>2, <4>1 DEF WellFormed, OneSlotPerKey
        <4> QED
          BY <4>2, <3>1
      <3> QED
        BY <2>2, <3>2, <3>3 DEF Stops
    <2> QED
      BY <2>1, <2>2 DEF EndsProbe, Stops
  <1>3. ASSUME NEW i \in Full(T), RecOf(T, i).key = k
        PROVE  Lookup(T, k) = RecOf(T, i).val
    <2>1. found # {}
      BY <1>2, <1>3
    <2>2. \A j \in found : j = i
      BY <1>1, <1>3 DEF WellFormed, OneSlotPerKey
    <2>3. (CHOOSE j \in found : TRUE) = i
      BY <2>1, <2>2
    <2> QED
      BY <2>1, <2>3, Zenon DEF Lookup
  <1>4. ASSUME \A i \in Full(T) : RecOf(T, i).key # k
        PROVE  Lookup(T, k) = Absent
    <2>1. found = {}
      BY <1>1, <1>4
    <2> QED
      BY <2>1 DEF Lookup
  <1> QED
    BY <1>3, <1>4

\* The published table has the newest write of every key.
LEMMA OracleMatches ==
  ASSUME IndInv
  PROVE  TableMatchesOracle
  <1> SUFFICES ASSUME NEW k \in Keys
               PROVE  Lookup(heap[cur], k) = oracle[k]
    BY DEF TableMatchesOracle
  <1>1. IsTable(heap[cur]) /\ WellFormed(heap[cur])
    BY InvTables
  <1> QED
    BY <1>1, LookupFinds DEF IndInv, OracleInv

\* putLocked, deleteLocked and grow never lose, revive or mix up a write: the
\* published table answers every key with its newest acknowledged write.
THEOREM NoLostWrite == Spec => []TableMatchesOracle
  BY OracleMatches, Invariance, PTL

\* T has the fields of an f2tab.
HasFields(T) == DOMAIN T = {"n", "slots", "buf", "cap", "live", "used"}

\* The arena of a table after an update.
LEMMA ArenaFields ==
  ASSUME NEW T, HasFields(T)
  PROVE  /\ \A rec : HasFields(appendRecord(T, rec)) /\ appendRecord(T, rec).buf = Append(T.buf, rec)
         /\ \A i, w : HasFields(Store(T, i, w)) /\ Store(T, i, w).buf = T.buf
         /\ \A dl, du : HasFields(Count(T, dl, du)) /\ Count(T, dl, du).buf = T.buf
  BY DEF HasFields, appendRecord, Store, Count

\* What a step may do to the tables: change one that is published or newer, and
\* to its arena at most append.
LEMMA HeapStep ==
  ASSUME IndInv, [Next]_vars
  PROVE  \/ heap' = heap
         \/ \E u \in cur..(ntab + 1) : \E X :
              /\ heap' = [heap EXCEPT ![u] = X]
              /\ u <= ntab => \/ X.buf = heap[u].buf
                              \/ \E rec \in RecordSet : X.buf = Append(heap[u].buf, rec)
  <1> DEFINE Goal == \/ heap' = heap
                     \/ \E u \in cur..(ntab + 1) : \E X :
                          /\ heap' = [heap EXCEPT ![u] = X]
                          /\ u <= ntab => \/ X.buf = heap[u].buf
                                          \/ \E rec \in RecordSet : X.buf = Append(heap[u].buf, rec)
  <1>1. /\ cur \in Nat /\ ntab \in Nat /\ cur <= ntab
        /\ cur \in cur..(ntab + 1) /\ ntab \in cur..(ntab + 1) /\ ntab + 1 \in cur..(ntab + 1)
        /\ ~(ntab + 1 <= ntab)
    BY InvTables
  <1>2. \A t \in 1..ntab : HasFields(heap[t])
    BY InvTables, Zenon DEF IsTable, HasFields
  <1>3. cur \in 1..ntab /\ ntab \in 1..ntab
    BY InvTables
  <1>4. ASSUME NEW c \in Clients, NEW k \in Keys, NEW v \in Values, PutLock(c, k, v)
        PROVE  Goal
    BY <1>1, <1>4, Zenon DEF PutLock, tables
  <1>5. ASSUME NEW c \in Clients, Replay(c)
        PROVE  Goal
    <2>1. pc[c] = "replay" /\ tab[c] = cur
      BY <1>5, Zenon DEF Replay, IndInv, MutexInv, Locked
    <2>2. PICK o \in ToReplay(c), i \in SlotsOf(heap[ntab]) :
            heap' = [heap EXCEPT ![ntab] =
                       Count(Store(appendRecord(heap[ntab], RecOf(heap[cur], o)), i,
                                   Word(RecOf(heap[cur], o).key, Len(heap[ntab].buf) + 1)), 1, 1)]
      BY <1>5, <2>1, Zenon DEF Replay
    <2>3. RecOf(heap[cur], o) \in RecordSet
      <3>1. IsTable(heap[cur]) /\ WellFormed(heap[cur]) /\ o \in Full(heap[cur])
        BY <2>1, InvTables DEF ToReplay
      <3> QED
        BY <3>1, FullFacts
    <2> DEFINE rec == RecOf(heap[cur], o)
               T1 == appendRecord(heap[ntab], rec)
               T2 == Store(T1, i, Word(rec.key, Len(heap[ntab].buf) + 1))
               X == Count(T2, 1, 1)
    <2>4. HasFields(T1) /\ T1.buf = Append(heap[ntab].buf, rec)
      BY <1>2, <1>3, ArenaFields, ZenonT(60)
    <2> HIDE DEF T1
    <2>5. HasFields(T2) /\ T2.buf = T1.buf
      BY <2>4, ArenaFields
    <2> HIDE DEF T2
    <2>6. X.buf = T2.buf
      BY <2>5, ArenaFields
    <2> HIDE DEF X
    <2>7. heap' = [heap EXCEPT ![ntab] = X]
      BY <2>2 DEF X, T2, T1
    <2> QED
      BY <1>1, <2>3, <2>4, <2>5, <2>6, <2>7, ZenonT(60)
  <1>6. ASSUME NEW c \in Clients, PutAppend(c)
        PROVE  Goal
    <2>1. tab[c] = cur /\ key[c] \in Keys /\ val[c] \in Values
      BY <1>6, Zenon DEF PutAppend, IndInv, MutexInv, Locked
    <2> DEFINE rec == [key |-> key[c], val |-> val[c]]
    <2>2. rec \in RecordSet
      BY <2>1 DEF RecordSet
    <2>3. heap' = [heap EXCEPT ![cur] = appendRecord(heap[cur], rec)]
      BY <1>6, <2>1 DEF PutAppend
    <2>4. appendRecord(heap[cur], rec).buf = Append(heap[cur].buf, rec)
      BY <1>2, <1>3, ArenaFields, Zenon
    <2> HIDE DEF rec
    <2> QED
      BY <1>1, <2>2, <2>3, <2>4, ZenonT(60)
  <1>7. ASSUME NEW T, T = heap[cur], NEW i, NEW w, NEW dl, NEW du,
               \/ heap' = [heap EXCEPT ![cur] = Store(T, i, w)]
               \/ heap' = [heap EXCEPT ![cur] = Count(Store(T, i, w), dl, du)]
        PROVE  Goal
    <2>1. Store(T, i, w).buf = T.buf /\ Count(Store(T, i, w), dl, du).buf = T.buf
      <3>1. HasFields(Store(T, i, w)) /\ Store(T, i, w).buf = T.buf
        BY <1>2, <1>3, <1>7, ArenaFields
      <3> QED
        BY <3>1, ArenaFields
    <2> QED
      BY <1>1, <1>7, <2>1
  <1>8. ASSUME NEW c \in Clients, PutInstall(c)
        PROVE  Goal
    <2>1. tab[c] = cur
      BY <1>8, Zenon DEF PutInstall, IndInv, MutexInv, Locked
    <2>2. PICK i \in SlotsOf(heap[cur]) :
            \/ heap' = [heap EXCEPT ![cur] = Store(heap[cur], i, Word(key[c], off[c]))]
            \/ \E j \in SlotsOf(heap[cur]) :
                 heap' = [heap EXCEPT ![cur] = Count(Store(heap[cur], j, Word(key[c], off[c])), 1,
                                                     IF j = i THEN 1 ELSE 0)]
      BY <1>8, <2>1 DEF PutInstall
    <2> HIDE DEF Goal
    <2> QED
      BY <2>2, <1>7
  <1>9. ASSUME NEW c \in Clients, NEW k \in Keys, Delete(c, k)
        PROVE  Goal
    <2>1. heap' = heap \/ \E i : heap' = [heap EXCEPT ![cur] = Count(Store(heap[cur], i, Tomb), -1, 0)]
      BY <1>9 DEF Delete
    <2>2. heap' = heap => Goal
      OBVIOUS
    <2> HIDE DEF Goal
    <2> QED
      BY <2>1, <2>2, <1>7
  <1>10. ASSUME NEW c \in Clients, Get(c) \/ Publish(c) \/ UNCHANGED vars
         PROVE  heap' = heap
    BY <1>10, Zenon DEF Get, GetStart, GetLoad, GetCompare, GetReturn, Publish, vars, tables
  <1>11. UNCHANGED vars => heap' = heap
    BY DEF vars, tables
  <1> QED
    BY <1>4, <1>5, <1>6, <1>8, <1>9, <1>10, <1>11, Zenon DEF Next, Put, Clients

\* "The bytes are immutable once the slot pointing at them is installed": no
\* step of any client changes a record that was appended.
THEOREM Immutability == Spec => RecordsImmutable
  <1> DEFINE Kept == \A t \in 1..ntab : \A o \in 1..Len(heap[t].buf) :
                       o <= Len(heap'[t].buf) /\ heap'[t].buf[o] = heap[t].buf[o]
  <1>1. IndInv /\ [Next]_vars => Kept
    <2> SUFFICES ASSUME IndInv, [Next]_vars, NEW t \in 1..ntab, NEW o \in 1..Len(heap[t].buf)
                 PROVE  o <= Len(heap'[t].buf) /\ heap'[t].buf[o] = heap[t].buf[o]
      OBVIOUS
    <2>1. t \in TabIds /\ heap[t].buf \in Seq(RecordSet) /\ t <= ntab /\ DOMAIN heap = TabIds
      <3>1. TypeOK /\ t \in TabIds /\ IsTable(heap[t])
        BY InvTables, Zenon DEF IndInv
      <3>2. t <= ntab
        BY InvTables
      <3> QED
        BY <3>1, <3>2, Zenon DEF TypeOK, IsTable
    <2>2. CASE heap' = heap
      BY <2>1, <2>2
    <2>3. ASSUME NEW u \in cur..(ntab + 1), NEW X, heap' = [heap EXCEPT ![u] = X],
                 u <= ntab => \/ X.buf = heap[u].buf
                              \/ \E rec \in RecordSet : X.buf = Append(heap[u].buf, rec)
          PROVE  o <= Len(heap'[t].buf) /\ heap'[t].buf[o] = heap[t].buf[o]
      <3>1. heap'[t] = heap[t] \/ heap'[t].buf = heap[t].buf
            \/ \E rec \in RecordSet : heap'[t].buf = Append(heap[t].buf, rec)
        BY <2>1, <2>3
      <3>2. ASSUME NEW rec \in RecordSet, heap'[t].buf = Append(heap[t].buf, rec)
            PROVE  o <= Len(heap'[t].buf) /\ heap'[t].buf[o] = heap[t].buf[o]
        BY <2>1, <3>2
      <3> QED
        BY <2>1, <3>1, <3>2
    <2> QED
      BY <2>2, <2>3, HeapStep, Zenon
  <1>2. IndInv /\ [Next]_vars => [Kept]_vars
    BY <1>1
  <1> QED
    BY <1>2, Invariance, PTL DEF Spec, RecordsImmutable

\* "Once a shard swaps a new f2tab in, the old one's slots and buf are never
\* written again", so the reader that still probes it sees a frozen table.
THEOREM FrozenTables == Spec => OldTablesFrozen
  <1> DEFINE Kept == \A t \in 1..(cur - 1) : heap'[t] = heap[t]
  <1>1. IndInv /\ [Next]_vars => Kept
    <2> SUFFICES ASSUME IndInv, [Next]_vars, NEW t \in 1..(cur - 1)
                 PROVE  heap'[t] = heap[t]
      OBVIOUS
    <2>1. t \in TabIds /\ t < cur /\ DOMAIN heap = TabIds /\ cur \in Nat /\ ntab \in Nat
      <3>1. cur \in TabIds /\ cur \in Nat /\ ntab \in Nat /\ DOMAIN heap = TabIds
        BY InvTypes, Zenon
      <3>2. t < cur /\ t \in TabIds
        BY <3>1, F2Assumption DEF TabIds
      <3> QED
        BY <3>1, <3>2, Zenon
    <2>2. ASSUME NEW u \in cur..(ntab + 1), NEW X, heap' = [heap EXCEPT ![u] = X]
          PROVE  heap'[t] = heap[t]
      BY <2>1, <2>2
    <2> QED
      BY <2>2, HeapStep
  <1>2. IndInv /\ [Next]_vars => [Kept]_vars
    BY <1>1
  <1> QED
    BY <1>2, Invariance, PTL DEF Spec, OldTablesFrozen

-----------------------------------------------------------------------------
(***************************************************************************)
(* The shard implements the map of the engine SPI.                         *)
(***************************************************************************)
\* What the map is in the shard, and the call of the map a client is in.
Store_ == [k \in Keys |-> Lookup(heap[cur], k)]
Calls == [c \in Clients |-> CallOf(c)]

\* The published table is the history's map, before a step and after it.
LEMMA StoreIsOracle == IndInv => Store_ = oracle
  BY OracleMatches, Zenon DEF Store_, TableMatchesOracle, IndInv, TypeOK

\* And after a step.
LEMMA StoreThen == IndInv' => (Store_ = oracle)'
  BY StoreIsOracle, PTL

\* The call of a client, by where it is in Get.
LEMMA CallsNow ==
  ASSUME NEW c \in Clients
  PROVE  /\ Reading(c) =>
              CallOf(c) = [st |-> "pending", key |-> key[c], seen |-> seen[c], res |-> Absent]
         /\ pc[c] = "answer" =>
              CallOf(c) = [st |-> "answered", key |-> key[c], seen |-> seen[c], res |-> res[c]]
         /\ pc[c] \notin {"probe", "compare", "answer"} => CallOf(c) = Map!NoCall
  BY DEF CallOf, Reading, Map!NoCall

\* The same after a step.
LEMMA CallsThen ==
  ASSUME NEW c \in Clients
  PROVE  /\ Reading(c)' =>
              CallOf(c)' = [st |-> "pending", key |-> key'[c], seen |-> seen'[c], res |-> Absent]
         /\ pc'[c] = "answer" =>
              CallOf(c)' = [st |-> "answered", key |-> key'[c], seen |-> seen'[c], res |-> res'[c]]
         /\ pc'[c] \notin {"probe", "compare", "answer"} => CallOf(c)' = Map!NoCall
  BY DEF CallOf, Reading, Map!NoCall

\* A client whose part of the state a step leaves alone is in the same call.
LEMMA CallKept ==
  ASSUME NEW c \in Clients, pc'[c] = pc[c] \/ (Reading(c) /\ Reading(c)'),
         key'[c] = key[c], seen'[c] = seen[c], res'[c] = res[c]
  PROVE  CallOf(c)' = CallOf(c)
  BY DEF CallOf, Reading

\* Init of the shard is Init of the map.
LEMMA MapBegins ==
  ASSUME Init
  PROVE  Map!Init
  <1>1. IndInv
    BY InitIndInv
  <1>2. Store_ = [k \in Keys |-> Absent]
    BY <1>1, StoreIsOracle DEF Init
  <1>3. \A c \in Clients : CallOf(c) = Map!NoCall
    BY CallsNow DEF Init
  <1> QED
    BY <1>2, <1>3 DEF Map!Init, Store_

\* The call of a Get is GetCall of the map.
LEMMA MapGetStart ==
  ASSUME IndInv, IndInv', NEW c \in Clients, NEW k \in Keys, GetStart(c, k)
  PROVE  Map!GetCall(c, k)
  <1>1. Store_[k] = oracle[k] /\ Store_' = Store_
    BY StoreIsOracle, StoreThen DEF GetStart
  <1>2. CallOf(c)' = [st |-> "pending", key |-> k, seen |-> {oracle[k]}, res |-> Absent]
    <2>1. pc'[c] = "probe" /\ key'[c] = k /\ seen'[c] = {oracle[k]}
      BY Zenon DEF GetStart, IndInv, TypeOK
    <2>2. Reading(c)'
      BY <2>1, Zenon DEF Reading
    <2> QED
      BY <2>1, <2>2, CallsThen, Zenon
  <1>3. ASSUME NEW d \in Clients, d # c PROVE CallOf(d)' = CallOf(d)
    BY <1>3, CallKept, Zenon DEF GetStart, IndInv, TypeOK
  <1>4. Calls' = [Calls EXCEPT ![c] = [st |-> "pending", key |-> k,
                                       seen |-> {Store_[k]}, res |-> Absent]]
    BY <1>1, <1>2, <1>3, Zenon DEF Calls
  <1>5. Calls[c].st = "none"
    BY CallsNow DEF GetStart, Calls, Map!NoCall
  <1> QED
    BY <1>1, <1>4, <1>5, Zenon DEF Map!GetCall, Store_, Calls

\* The end of a probe is GetAnswer of the map: what it found is one of the
\* values its key has held, since the invariant holds after the step.
LEMMA MapAnswers ==
  ASSUME IndInv, IndInv', NEW c \in Clients, Reading(c), pc'[c] = "answer",
         UNCHANGED <<key, oracle, seen>>,
         \A d \in Clients : d # c => pc'[d] = pc[d] /\ res'[d] = res[d]
  PROVE  Map!GetAnswer(c)
  <1>1. Store_' = Store_
    BY StoreIsOracle, StoreThen
  <1>2. res'[c] \in seen[c]
    BY Zenon DEF IndInv, ReaderInv, ReaderOK
  <1>3. ~Reading(c)' /\ key'[c] = key[c] /\ seen'[c] = seen[c]
    BY Zenon DEF Reading
  <1>4. CallOf(c)' = [st |-> "answered", key |-> key[c], seen |-> seen[c], res |-> res'[c]]
    BY <1>3, CallsThen, Zenon
  <1>5. ASSUME NEW d \in Clients, d # c PROVE CallOf(d)' = CallOf(d)
    BY <1>5, CallKept
  <1>6. Calls[c].st = "pending" /\ Calls[c].key = key[c] /\ Calls[c].seen = seen[c]
    BY CallsNow DEF Calls
  <1>7. Calls' = [Calls EXCEPT ![c] = [st |-> "answered", key |-> Calls[c].key,
                                       seen |-> Calls[c].seen, res |-> res'[c]]]
    BY <1>4, <1>5, <1>6, Zenon DEF Calls
  <1> QED
    BY <1>1, <1>2, <1>6, <1>7, Zenon DEF Map!GetAnswer, Store_, Calls

\* A step that no Get and no other client can tell is none of the map.
LEMMA MapStutters ==
  ASSUME IndInv, IndInv', UNCHANGED oracle,
         \A d \in Clients : CallOf(d)' = CallOf(d)
  PROVE  UNCHANGED Map!vars
  <1>1. Store_' = Store_
    BY StoreIsOracle, StoreThen
  <1>2. Calls' = Calls
    BY DEF Calls
  <1> QED
    BY <1>1, <1>2, Zenon DEF Map!vars, Store_, Calls

\* A load of a slot word ends the probe at an empty slot, or goes on with it.
LEMMA MapGetLoad ==
  ASSUME IndInv, IndInv', NEW c \in Clients, GetLoad(c)
  PROVE  Map!GetAnswer(c) \/ UNCHANGED Map!vars
  <1>1. CASE pc' = [pc EXCEPT ![c] = "answer"] /\ res' = [res EXCEPT ![c] = Absent]
    BY <1>1, MapAnswers, Zenon DEF GetLoad, Reading, IndInv, TypeOK
  <1>2. CASE (pc' = [pc EXCEPT ![c] = "compare"] \/ UNCHANGED pc) /\ UNCHANGED res
    <2>1. ASSUME NEW d \in Clients PROVE CallOf(d)' = CallOf(d)
      BY <1>2, <2>1, CallKept, Zenon DEF GetLoad, Reading, IndInv, TypeOK
    <2> QED BY <2>1, MapStutters, Zenon DEF GetLoad
  <1> QED BY <1>1, <1>2, Zenon DEF GetLoad

\* A comparison ends the probe with the value of the record, or goes on with it.
LEMMA MapGetCompare ==
  ASSUME IndInv, IndInv', NEW c \in Clients, GetCompare(c)
  PROVE  Map!GetAnswer(c) \/ UNCHANGED Map!vars
  <1>1. CASE pc' = [pc EXCEPT ![c] = "answer"] /\ \E x : res' = [res EXCEPT ![c] = x]
    BY <1>1, MapAnswers, Zenon DEF GetCompare, Reading, IndInv, TypeOK
  <1>2. CASE pc' = [pc EXCEPT ![c] = "probe"] /\ UNCHANGED res
    <2>1. ASSUME NEW d \in Clients PROVE CallOf(d)' = CallOf(d)
      BY <1>2, <2>1, CallKept, Zenon DEF GetCompare, Reading, IndInv, TypeOK
    <2> QED BY <2>1, MapStutters, Zenon DEF GetCompare
  <1> QED BY <1>1, <1>2, Zenon DEF GetCompare

\* The return of a Get is GetReturn of the map.
LEMMA MapGetReturn ==
  ASSUME IndInv, IndInv', NEW c \in Clients, GetReturn(c)
  PROVE  Map!GetReturn(c)
  <1>1. Store_' = Store_
    BY StoreIsOracle, StoreThen DEF GetReturn
  <1>2. CallOf(c)' = Map!NoCall
    BY CallsThen, Zenon DEF GetReturn, IndInv, TypeOK
  <1>3. ASSUME NEW d \in Clients, d # c PROVE CallOf(d)' = CallOf(d)
    BY <1>3, CallKept, Zenon DEF GetReturn, IndInv, TypeOK
  <1>4. Calls' = [Calls EXCEPT ![c] = Map!NoCall]
    BY <1>2, <1>3, Zenon DEF Calls
  <1>5. Calls[c].st = "answered"
    BY CallsNow DEF GetReturn, Calls
  <1> QED
    BY <1>1, <1>4, <1>5, Zenon DEF Map!GetReturn, Store_, Calls

\* Until its record is installed, a Put changes nothing of the map: the table it
\* publishes at the end of a grow answers like the one before.
LEMMA MapPutHidden ==
  ASSUME IndInv, IndInv', NEW c \in Clients,
         \/ \E k \in Keys, v \in Values : PutLock(c, k, v)
         \/ Replay(c) \/ Publish(c) \/ PutAppend(c)
  PROVE  UNCHANGED Map!vars
  <1>1. /\ UNCHANGED <<oracle, seen, res>>
        /\ pc[c] \notin {"probe", "compare", "answer"}
        /\ pc'[c] \notin {"probe", "compare", "answer"}
        /\ \A d \in Clients : d # c => pc'[d] = pc[d] /\ key'[d] = key[d]
    <2>1. CASE \E k \in Keys, v \in Values : PutLock(c, k, v)
      <3>1. PICK k \in Keys, v \in Values : PutLock(c, k, v)
        BY <2>1, Zenon
      <3>2. /\ UNCHANGED <<oracle, seen, res>> /\ pc[c] = "idle"
            /\ pc' = [pc EXCEPT ![c] = "append"] \/ pc' = [pc EXCEPT ![c] = "replay"]
            /\ key' = [key EXCEPT ![c] = k]
        BY <3>1, Zenon DEF PutLock
      <3> QED
        BY <3>2, InvTypes, Zenon
    <2>2. CASE Replay(c)
      BY <2>2, Zenon DEF Replay, IndInv, TypeOK
    <2>3. CASE Publish(c)
      BY <2>3, Zenon DEF Publish, IndInv, TypeOK
    <2>4. CASE PutAppend(c)
      BY <2>4, Zenon DEF PutAppend, IndInv, TypeOK
    <2> QED
      BY <2>1, <2>2, <2>3, <2>4, Zenon
  <1>2. CallOf(c)' = CallOf(c)
    BY <1>1, CallsNow, CallsThen, Zenon
  <1>3. ASSUME NEW d \in Clients, d # c PROVE CallOf(d)' = CallOf(d)
    BY <1>1, <1>3, CallKept, Zenon
  <1> QED
    BY <1>1, <1>2, <1>3, MapStutters, Zenon

\* A step that makes a write visible is a write of the map.
LEMMA MapWrites ==
  ASSUME IndInv, IndInv', NEW k \in Keys, NEW x, Visible(k, x),
         \A d \in Clients : \/ pc'[d] = pc[d] /\ key'[d] = key[d] /\ res'[d] = res[d]
                            \/ /\ pc[d] \notin {"probe", "compare", "answer"}
                               /\ pc'[d] \notin {"probe", "compare", "answer"}
  PROVE  Map!Write(k, x)
  <1>1. Store_' = [Store_ EXCEPT ![k] = x]
    BY StoreIsOracle, StoreThen, Zenon DEF Visible
  <1>2. ASSUME NEW d \in Clients
        PROVE  CallOf(d)' = IF CallOf(d).st = "pending" /\ CallOf(d).key = k
                            THEN [CallOf(d) EXCEPT !.seen = @ \cup {x}] ELSE CallOf(d)
    <2>1. seen'[d] = IF Reading(d) /\ key[d] = k THEN seen[d] \cup {x} ELSE seen[d]
      BY DEF Visible
    <2>2. CASE Reading(d)
      <3>1. Reading(d)' /\ key'[d] = key[d]
        BY <2>2 DEF Reading
      <3> QED BY <2>1, <2>2, <3>1, CallsNow, CallsThen
    <2>3. CASE pc[d] = "answer"
      <3>1. ~Reading(d) /\ pc'[d] = "answer" /\ key'[d] = key[d] /\ res'[d] = res[d]
        BY <2>3 DEF Reading
      <3> QED BY <2>1, <2>3, <3>1, CallsNow, CallsThen
    <2>4. CASE pc[d] \notin {"probe", "compare", "answer"}
      <3>1. CallOf(d) = Map!NoCall /\ CallOf(d)' = Map!NoCall
        BY <2>4, CallsNow, CallsThen, Zenon
      <3> QED BY <3>1 DEF Map!NoCall
    <2> QED BY <2>2, <2>3, <2>4 DEF Reading
  <1>3. Calls' = [d \in Clients |-> IF Calls[d].st = "pending" /\ Calls[d].key = k
                                    THEN [Calls[d] EXCEPT !.seen = @ \cup {x}] ELSE Calls[d]]
    BY <1>2 DEF Calls
  <1> QED
    BY <1>1, <1>3, Zenon DEF Map!Write, Store_, Calls

\* Every step of the shard is a step of the map or changes nothing of it.
LEMMA MapStep ==
  ASSUME IndInv, IndInv', [Next]_vars
  PROVE  [Map!Next]_(Map!vars)
  <1>1. ASSUME NEW c \in Readers, Get(c)
        PROVE  Map!Next \/ UNCHANGED Map!vars
    BY <1>1, MapGetStart, MapGetLoad, MapGetCompare, MapGetReturn DEF Get, Clients, Map!Next
  <1>2. ASSUME NEW c \in Writers, PutInstall(c)
        PROVE  Map!Next
    <2>1. key[c] \in Keys /\ val[c] \in Values
      BY <1>2, Zenon DEF PutInstall, IndInv, MutexInv, Locked, Clients
    <2>2. Map!Write(key[c], val[c])
      BY <1>2, <2>1, MapWrites, Zenon DEF PutInstall, IndInv, TypeOK, Clients
    <2> QED BY <2>1, <2>2, Zenon DEF Map!Put, Map!Next
  <1>3. ASSUME NEW c \in Writers, Put(c)
        PROVE  Map!Next \/ UNCHANGED Map!vars
    BY <1>2, <1>3, MapPutHidden DEF Put, Clients
  <1>4. ASSUME NEW c \in Writers, NEW k \in Keys, Delete(c, k)
        PROVE  Map!Next
    <2>1. Map!Write(k, Absent)
      BY <1>4, MapWrites, Zenon DEF Delete, locals
    <2> QED BY <2>1 DEF Map!Delete, Map!Next
  <1>5. ASSUME UNCHANGED vars
        PROVE  UNCHANGED Map!vars
    <2>1. ASSUME NEW d \in Clients PROVE CallOf(d)' = CallOf(d)
      BY <1>5, <2>1, CallKept, Zenon DEF vars, locals
    <2> QED BY <1>5, <2>1, MapStutters DEF vars
  <1> QED
    BY <1>1, <1>3, <1>4, <1>5, Zenon DEF Next

\* A shard of f2 behaves like an atomic map: a Put or a Delete takes effect in
\* the one store of a slot word, a grow in none, and a Get answers with what
\* its key held at some moment of the call.
THEOREM Refinement == Spec => ImplementsMap
  <1>1. Init => Map!Init
    BY MapBegins
  <1>2. IndInv /\ IndInv' /\ [Next]_vars => [Map!Next]_(Map!vars)
    BY MapStep
  <1> QED
    BY <1>1, <1>2, Invariance, PTL DEF Spec, ImplementsMap, Map!Spec

-----------------------------------------------------------------------------
(***************************************************************************)
(* No Put runs out of room: the counters live and used are exact, every    *)
(* table keeps an empty slot, and the arena is never written past its end. *)
(***************************************************************************)
\* The fields of a table after a record is appended to its arena.
LEMMA AppendedFields ==
  ASSUME NEW T, HasFields(T), NEW rec, NEW X, X = appendRecord(T, rec)
  PROVE  /\ HasFields(X) /\ X.buf = Append(T.buf, rec) /\ X.n = T.n /\ X.slots = T.slots
         /\ X.cap = T.cap /\ X.live = T.live /\ X.used = T.used
  BY DEF HasFields, appendRecord

\* The fields of a table after its counters change.
LEMMA RecountedFields ==
  ASSUME NEW T, HasFields(T), NEW dl, NEW du, NEW X, X = Count(T, dl, du)
  PROVE  /\ X.buf = T.buf /\ X.n = T.n /\ X.slots = T.slots /\ X.cap = T.cap
         /\ X.live = T.live + dl /\ X.used = T.used + du
<1>1. X.live = T.live + dl /\ X.used = T.used + du
  BY Zenon DEF HasFields, Count
<1>2. X.buf = T.buf /\ X.n = T.n /\ X.slots = T.slots /\ X.cap = T.cap
  BY Zenon DEF HasFields, Count
<1> QED BY <1>1, <1>2, Zenon

\* The slots of a table, and those of them that are taken or full, are counted by
\* natural numbers.
LEMMA SlotCounts ==
  ASSUME NEW T, IsTable(T)
  PROVE  /\ IsFiniteSet(SlotsOf(T)) /\ Cardinality(SlotsOf(T)) = T.n
         /\ IsFiniteSet(Taken(T)) /\ Cardinality(Taken(T)) \in Nat
         /\ IsFiniteSet(Full(T)) /\ Cardinality(Full(T)) \in Nat
         /\ Full(T) \subseteq Taken(T) /\ Cardinality(Full(T)) <= Cardinality(Taken(T))
         /\ Cardinality(Taken(T)) < T.n => \E i \in SlotsOf(T) : T.slots[i] = Empty
<1>1. T.n \in Nat
  BY DEF IsTable
<1>2. IsFiniteSet(SlotsOf(T)) /\ Cardinality(SlotsOf(T)) = T.n
  <2>1. PICK n \in Nat : n = T.n
    BY <1>1
  <2>2. IsFiniteSet(0..(n - 1)) /\ Cardinality(0..(n - 1)) = n
    BY FS_Interval
  <2> QED BY <2>1, <2>2 DEF SlotsOf
<1>3. Taken(T) \in SUBSET SlotsOf(T) /\ Full(T) \in SUBSET Taken(T)
  BY DEF Taken, Full, Empty
<1>4. IsFiniteSet(Taken(T)) /\ Cardinality(Taken(T)) \in Nat
  BY <1>2, <1>3, FS_Subset, FS_CardinalityType
<1>5. IsFiniteSet(Full(T)) /\ Cardinality(Full(T)) \in Nat /\ Cardinality(Full(T)) <= Cardinality(Taken(T))
  BY <1>3, <1>4, FS_Subset, FS_CardinalityType, Zenon
<1>6. ASSUME Cardinality(Taken(T)) < T.n
      PROVE  \E i \in SlotsOf(T) : T.slots[i] = Empty
  <2>1. Taken(T) # SlotsOf(T)
    BY <1>1, <1>2, <1>4, <1>6
  <2> QED BY <1>3, <2>1, Zenon DEF Taken
<1> QED BY <1>2, <1>3, <1>4, <1>5, <1>6, Zenon

\* The full slots of a table point at different records of its arena.
LEMMA LiveFits ==
  ASSUME NEW T, IsTable(T), WellFormed(T)
  PROVE  Cardinality(Full(T)) <= Len(T.buf)
<1>1. PICK f : f = [i \in Full(T) |-> T.slots[i].off]
  BY Zenon
<1>2. \A i \in Full(T) : f[i] \in 1..Len(T.buf)
  BY <1>1, FullFacts, Zenon
<1>3. ASSUME NEW i \in Full(T), NEW j \in Full(T), f[i] = f[j]
      PROVE  i = j
  <2>1. RecOf(T, i) = RecOf(T, j)
    BY <1>1, <1>3, FullFacts
  <2> QED BY <2>1 DEF WellFormed, OneSlotPerKey
<1>4. f \in Injection(Full(T), 1..Len(T.buf))
  <2>1. f \in [Full(T) -> 1..Len(T.buf)]
    BY <1>1, <1>2
  <2> QED BY <2>1, <1>3, Zenon DEF Injection, IsInjective
<1>5. Len(T.buf) \in Nat
  BY DEF IsTable
<1>6. IsFiniteSet(1..Len(T.buf)) /\ Cardinality(1..Len(T.buf)) = Len(T.buf)
  <2>1. PICK n \in Nat : n = Len(T.buf)
    BY <1>5
  <2>2. IsFiniteSet(1..n) /\ Cardinality(1..n) = n
    BY FS_Interval
  <2> QED BY <2>1, <2>2
<1>7. Cardinality(Full(T)) <= Cardinality(1..Len(T.buf))
  BY <1>4, <1>6, FS_Injection
<1> QED BY <1>6, <1>7

\* live and used depend on the slots alone: an append leaves them exact.
LEMMA RecountSame ==
  ASSUME NEW T, NEW T1, Counted(T), T1.n = T.n, T1.slots = T.slots,
         T1.live = T.live, T1.used = T.used
  PROVE  Counted(T1)
  BY Zenon DEF Counted, Full, Taken, SlotsOf

\* putLocked repoints the slot of a key: the counts stay.
LEMMA RecountRepoint ==
  ASSUME NEW T, NEW T1, IsTable(T), Counted(T), NEW i \in Full(T), NEW w, w.st = "full",
         T1.n = T.n, T1.slots = [T.slots EXCEPT ![i] = w],
         T1.live = T.live, T1.used = T.used
  PROVE  Counted(T1)
<1>1. w # Empty /\ T.slots[i] # Empty /\ i \in SlotsOf(T)
  BY DEF Empty, Full
<1>2. \A j \in SlotsOf(T) : T1.slots[j] = IF j = i THEN w ELSE T.slots[j]
  BY Zenon DEF IsTable
<1>3. SlotsOf(T1) = SlotsOf(T)
  BY DEF SlotsOf
<1>4. Full(T1) = Full(T) /\ Taken(T1) = Taken(T)
  BY <1>1, <1>2, <1>3 DEF Full, Taken
<1> QED BY <1>4, Zenon DEF Counted

\* A word in an empty slot: one more full slot and one more taken slot.
LEMMA RecountFresh ==
  ASSUME NEW T, NEW T1, IsTable(T), Counted(T), NEW i \in SlotsOf(T), T.slots[i] = Empty,
         NEW w, w.st = "full", T1.n = T.n, T1.slots = [T.slots EXCEPT ![i] = w],
         T1.live = T.live + 1, T1.used = T.used + 1
  PROVE  Counted(T1)
<1>1. w # Empty /\ i \notin Full(T) /\ i \notin Taken(T)
  BY DEF Empty, Full, Taken
<1>2. \A j \in SlotsOf(T) : T1.slots[j] = IF j = i THEN w ELSE T.slots[j]
  BY Zenon DEF IsTable
<1>3. SlotsOf(T1) = SlotsOf(T)
  BY DEF SlotsOf
<1>4. Full(T1) = Full(T) \cup {i} /\ Taken(T1) = Taken(T) \cup {i}
  BY <1>1, <1>2, <1>3 DEF Full, Taken
<1>5. IsFiniteSet(Full(T)) /\ IsFiniteSet(Taken(T))
  BY SlotCounts, Zenon
<1>6. Cardinality(Full(T) \cup {i}) = Cardinality(Full(T)) + 1
  BY <1>1, <1>5, FS_AddElement, Zenon
<1>7. Cardinality(Taken(T) \cup {i}) = Cardinality(Taken(T)) + 1
  BY <1>1, <1>5, FS_AddElement, Zenon
<1> QED BY <1>4, <1>6, <1>7, Zenon DEF Counted

\* A word in a tombstone: one more full slot, no more taken ones.
LEMMA RecountReused ==
  ASSUME NEW T, NEW T1, IsTable(T), Counted(T), NEW i \in SlotsOf(T), T.slots[i] = Tomb,
         NEW w, w.st = "full", T1.n = T.n, T1.slots = [T.slots EXCEPT ![i] = w],
         T1.live = T.live + 1, T1.used = T.used
  PROVE  Counted(T1)
<1>1. w # Empty /\ Tomb # Empty /\ i \notin Full(T) /\ i \in Taken(T)
  BY DEF Empty, Tomb, Full, Taken
<1>2. \A j \in SlotsOf(T) : T1.slots[j] = IF j = i THEN w ELSE T.slots[j]
  BY Zenon DEF IsTable
<1>3. SlotsOf(T1) = SlotsOf(T)
  BY DEF SlotsOf
<1>4. Full(T1) = Full(T) \cup {i} /\ Taken(T1) = Taken(T)
  BY <1>1, <1>2, <1>3 DEF Full, Taken
<1>5. IsFiniteSet(Full(T))
  BY SlotCounts, Zenon
<1>6. Cardinality(Full(T) \cup {i}) = Cardinality(Full(T)) + 1
  BY <1>1, <1>5, FS_AddElement, Zenon
<1> QED BY <1>4, <1>6, Zenon DEF Counted

\* A delete: one full slot less, and the slot stays taken.
LEMMA RecountTomb ==
  ASSUME NEW T, NEW T1, IsTable(T), Counted(T), NEW i \in Full(T),
         T1.n = T.n, T1.slots = [T.slots EXCEPT ![i] = Tomb],
         T1.live = T.live + (-1), T1.used = T.used + 0
  PROVE  Counted(T1)
<1>1. Tomb # Empty /\ Tomb.st # "full" /\ i \in SlotsOf(T) /\ T.slots[i] # Empty
  BY DEF Empty, Tomb, Full
<1>2. \A j \in SlotsOf(T) : T1.slots[j] = IF j = i THEN Tomb ELSE T.slots[j]
  BY Zenon DEF IsTable
<1>3. SlotsOf(T1) = SlotsOf(T)
  BY Zenon DEF SlotsOf
<1>4. Full(T1) = Full(T) \ {i} /\ Taken(T1) = Taken(T)
  BY <1>1, <1>2, <1>3 DEF Full, Taken
<1>5. IsFiniteSet(Full(T)) /\ Cardinality(Full(T)) \in Nat /\ Cardinality(Taken(T)) \in Nat
  BY SlotCounts, Zenon
<1>6. Cardinality(Full(T) \ {i}) = Cardinality(Full(T)) - 1
  BY <1>5, FS_RemoveElement, Zenon
<1>7. T1.live = Cardinality(Full(T)) - 1 /\ T1.used = Cardinality(Taken(T))
  BY <1>5 DEF Counted
<1> QED BY <1>4, <1>6, <1>7, Zenon DEF Counted

\* A table that grow or newF2 has just made.
LEMMA RecountNew ==
  ASSUME NEW n \in Nat, NEW cap \in Nat
  PROVE  LET T == newF2tab(n, cap)
         IN  Counted(T) /\ T.used = 0 /\ T.n = n /\ T.cap = cap /\ T.buf = <<>> /\ T.live = 0
<1>1. /\ newF2tab(n, cap).used = 0 /\ newF2tab(n, cap).live = 0 /\ newF2tab(n, cap).n = n
      /\ newF2tab(n, cap).cap = cap /\ newF2tab(n, cap).buf = <<>>
  BY Zenon DEF newF2tab
<1>2. Full(newF2tab(n, cap)) = {} /\ Taken(newF2tab(n, cap)) = {}
  BY Zenon DEF Full, Taken, newF2tab, SlotsOf, Empty
<1> QED BY <1>1, <1>2, FS_EmptySet, Zenon DEF Counted

\* A table has exact counters, a full arena at most and a load below f2MaxLoad.
TableRoom(T) == Counted(T) /\ Len(T.buf) <= T.cap /\ 10 * T.used <= 7 * T.n

\* Every table has its room, and a client in the middle of a Put what it needs.
RoomInv == (\A t \in 1..ntab : TableRoom(heap[t])) /\ (\A c \in Clients : RoomFor(c))

\* A client that is not between lock and unlock needs no room.
LEMMA RoomForOther ==
  ASSUME NEW d \in Clients, pc'[d] \notin {"replay", "append", "install"}
  PROVE  RoomFor(d)'
  BY DEF RoomFor

\* A client keeps the room it has while neither it nor the tables change.
LEMMA RoomForSame ==
  ASSUME NEW d \in Clients, RoomFor(d), UNCHANGED tables,
         pc'[d] = pc[d], pos'[d] = pos[d], tab'[d] = tab[d]
  PROVE  RoomFor(d)'
<1>1. ToReplay(d)' = ToReplay(d)
  BY DEF ToReplay, tables
<1> QED BY <1>1, Zenon DEF RoomFor, tables

\* What a grow that is under way needs.
LEMMA RoomForGrow ==
  ASSUME NEW c \in Clients, pc'[c] = "replay", NEW T, NEW N, heap'[cur'] = T, heap'[ntab'] = N,
         Len(N.buf) = N.used, N.used + Cardinality(ToReplay(c)') = T.live, Len(T.buf) < N.cap,
         ~Overloaded(T.live, N.n)
  PROVE  RoomFor(c)'
  BY Zenon DEF RoomFor

\* grow's new table has room for every live record and one more.
LEMMA GrownFits ==
  ASSUME NEW T, NEW n \in Nat, NEW l \in Nat, T.n = n, T.live = l, n >= 2, 10 * l <= 7 * n
  PROVE  GrownSize(T) \in Nat /\ ~Overloaded(T.live, GrownSize(T))
<1>1. CASE Overloaded(l, n)
  <2>1. GrownSize(T) = 2 * n
    BY <1>1 DEF GrownSize
  <2>2. 10 * (l + 1) <= 7 * (2 * n) /\ 2 * n \in Nat
    OBVIOUS
  <2> QED BY <2>1, <2>2 DEF Overloaded
<1>2. CASE ~Overloaded(l, n)
  <2>1. GrownSize(T) = n
    BY <1>2 DEF GrownSize
  <2> QED BY <1>2, <2>1
<1> QED BY <1>1, <1>2, Zenon

\* The room of all tables when one of them changes or is new.
LEMMA HeapRoom ==
  ASSUME IndInv, RoomInv, NEW u \in TabIds, NEW X, TableRoom(X),
         heap' = [heap EXCEPT ![u] = X], ntab' \in Nat,
         \A t \in 1..ntab' : t \in 1..ntab \/ t = u
  PROVE  \A t \in 1..ntab' : TableRoom(heap'[t])
<1>1. DOMAIN heap = TabIds /\ \A t \in 1..ntab : t \in TabIds
  BY InvTables, Zenon DEF IndInv, TypeOK
<1> QED BY <1>1 DEF RoomInv

\* A Get changes no table.
LEMMA RoomGet ==
  ASSUME IndInv, RoomInv, NEW c \in Clients, Get(c)
  PROVE  RoomInv'
<1> DEFINE Reads ==
      /\ UNCHANGED tables /\ pc'[c] \notin {"replay", "append", "install"}
      /\ \A d \in Clients : d # c => pc'[d] = pc[d] /\ pos'[d] = pos[d] /\ tab'[d] = tab[d]
<1>1. /\ pc \in [Clients -> {"idle", "probe", "compare", "answer", "replay", "append", "install"}]
      /\ DOMAIN pos = Clients /\ DOMAIN tab = Clients
  BY Zenon DEF IndInv, TypeOK
<1>2. ASSUME NEW k \in Keys, GetStart(c, k)
      PROVE  Reads
  BY <1>1, <1>2, Zenon DEF GetStart
<1>3. ASSUME GetLoad(c)
      PROVE  Reads
  BY <1>1, <1>3, Zenon DEF GetLoad
<1>4. ASSUME GetCompare(c)
      PROVE  Reads
  BY <1>1, <1>4, Zenon DEF GetCompare
<1>5. ASSUME GetReturn(c)
      PROVE  Reads
  BY <1>1, <1>5, Zenon DEF GetReturn
<1>6. Reads
  BY <1>2, <1>3, <1>4, <1>5, Zenon DEF Get
<1>7. ASSUME NEW d \in Clients
      PROVE  RoomFor(d)'
  BY <1>6, RoomForOther, RoomForSame, Zenon DEF RoomInv
<1> QED BY <1>6, <1>7, Zenon DEF RoomInv, tables

\* The lock is taken with room for one more record, or a table is made that has
\* room for all live ones and one more.
LEMMA RoomPutLock ==
  ASSUME IndInv, RoomInv, NEW c \in Clients, NEW k \in Keys, NEW v \in Values, PutLock(c, k, v)
  PROVE  RoomInv'
<1>1. PICK T : T = heap[cur]
  BY Zenon
<1>2. /\ IsTable(T) /\ T.n \in Nat /\ T.n >= 2 /\ Len(T.buf) \in Nat /\ T.cap \in Nat
      /\ T.used \in Nat /\ T.live \in Nat /\ T.live <= T.used /\ 10 * T.used <= 7 * T.n
      /\ T.live = Cardinality(Full(T))
  <2>1. IsTable(T) /\ T.n \in Nat /\ T.n >= 2 /\ TableRoom(T)
    BY <1>1, InvTables, Zenon DEF RoomInv
  <2>2. Cardinality(Full(T)) \in Nat /\ Cardinality(Taken(T)) \in Nat
        /\ Cardinality(Full(T)) <= Cardinality(Taken(T))
    BY <2>1, SlotCounts, Zenon
  <2>3. T.used \in Int /\ T.live \in Int /\ T.cap \in Nat /\ T.buf \in Seq(RecordSet)
    BY <2>1, Zenon DEF IsTable
  <2>4. T.live = Cardinality(Full(T)) /\ T.used = Cardinality(Taken(T)) /\ 10 * T.used <= 7 * T.n
    BY <2>1, Zenon DEF TableRoom, Counted
  <2> QED BY <2>1, <2>2, <2>3, <2>4
<1>3. /\ pc[c] = "idle" /\ mu = {} /\ cur' = cur /\ tab'[c] = cur /\ pos' = pos /\ pos[c] = 0
      /\ \A d \in Clients : pc[d] \notin {"replay", "append", "install"}
      /\ \A d \in Clients : d # c => pc'[d] = pc[d]
      /\ ntab = cur
  <2>1. MutexInv /\ pc \in [Clients -> {"idle", "probe", "compare", "answer", "replay", "append", "install"}]
        /\ tab \in [Clients -> TabIds]
    BY Zenon DEF IndInv, TypeOK
  <2>2. /\ pc[c] = "idle" /\ mu = {} /\ cur' = cur /\ tab' = [tab EXCEPT ![c] = cur] /\ pos' = pos
        /\ \E l : pc' = [pc EXCEPT ![c] = l]
    BY Zenon DEF PutLock, tables
  <2>3. \A d \in Clients : pc[d] \notin {"replay", "append", "install"}
    BY <2>1, <2>2, Zenon DEF MutexInv, Locked
  <2> QED BY <2>1, <2>2, <2>3, Zenon DEF MutexInv
<1>4. \A d \in Clients : d # c => RoomFor(d)'
  BY <1>3, RoomForOther, Zenon
<1>5. CASE ~NeedsGrow(T) /\ pc'[c] = "append" /\ UNCHANGED tables
  <2>1. heap'[cur'] = T
    BY <1>1, <1>5 DEF tables
  <2>2. ~Overloaded(T.used, T.n) /\ Len(T.buf) < T.cap
    BY <1>2, <1>5 DEF NeedsGrow
  <2>3. RoomFor(c)'
    BY <1>5, <2>1, <2>2, Zenon DEF RoomFor
  <2> QED BY <1>4, <1>5, <2>3 DEF RoomInv, tables
<1>6. CASE /\ pc'[c] = "replay" /\ ntab' = ntab + 1 /\ ntab < MaxTabs
           /\ heap' = [heap EXCEPT ![ntab + 1] = newF2tab(GrownSize(T), 2 * Len(T.buf) + 1 + Slack)]
  <2>1. PICK N : N = newF2tab(GrownSize(T), 2 * Len(T.buf) + 1 + Slack)
    BY Zenon
  <2>2. GrownSize(T) \in Nat /\ ~Overloaded(T.live, GrownSize(T))
    <3>1. PICK n \in Nat, l \in Nat : T.n = n /\ T.live = l
      BY <1>2
    <3>2. n >= 2 /\ 10 * l <= 7 * n
      BY <1>2, <3>1
    <3> QED BY <3>1, <3>2, GrownFits, Zenon
  <2>3. Slack \in Nat /\ 2 * Len(T.buf) + 1 + Slack \in Nat /\ Len(T.buf) < 2 * Len(T.buf) + 1 + Slack
    <3>1. PICK b \in Nat, s \in Nat : b = Len(T.buf) /\ s = Slack
      BY <1>2, F2Assumption, Zenon
    <3>2. 2 * b + 1 + s \in Nat /\ b < 2 * b + 1 + s
      OBVIOUS
    <3> QED BY <3>1, <3>2, Zenon
  <2>4. /\ Counted(N) /\ N.used = 0 /\ N.n = GrownSize(T) /\ N.cap = 2 * Len(T.buf) + 1 + Slack
        /\ N.buf = <<>>
    <3>1. PICK n \in Nat, cap \in Nat : n = GrownSize(T) /\ cap = 2 * Len(T.buf) + 1 + Slack
      BY <2>2, <2>3
    <3>2. N = newF2tab(n, cap)
      BY <2>1, <3>1
    <3>3. LET M == newF2tab(n, cap)
          IN  Counted(M) /\ M.used = 0 /\ M.n = n /\ M.cap = cap /\ M.buf = <<>>
      BY <3>1, RecountNew
    <3> QED BY <3>1, <3>2, <3>3, Zenon
  <2>5. ntab \in Nat /\ ntab + 1 \in TabIds /\ DOMAIN heap = TabIds /\ cur \in TabIds
    <3>1. ntab \in Nat /\ cur \in TabIds
      BY InvTables
    <3>2. DOMAIN heap = TabIds
      BY Zenon DEF IndInv, TypeOK
    <3> QED BY <1>6, <3>1, <3>2, F2Assumption DEF TabIds
  <2>6. heap'[ntab'] = N /\ heap'[cur'] = T
    <3>1. heap' = [heap EXCEPT ![ntab + 1] = N] /\ cur # ntab + 1 /\ cur' = cur /\ ntab' = ntab + 1
      BY <1>3, <1>6, <2>1, <2>5
    <3> QED BY <1>1, <2>5, <3>1
  <2>7. TableRoom(N)
    BY <2>2, <2>3, <2>4 DEF TableRoom
  <2>8. \A t \in 1..ntab' : TableRoom(heap'[t])
    <3>1. ntab' \in Nat /\ \A t \in 1..ntab' : t \in 1..ntab \/ t = ntab + 1
      BY <1>6, <2>5
    <3> QED BY <1>6, <2>1, <2>5, <2>7, <3>1, HeapRoom, Zenon
  <2>9. ToReplay(c)' = Full(T)
    <3>1. ToReplay(c)' = {i \in Full(T) : i >= 0}
      BY <1>3, <2>6, Zenon DEF ToReplay
    <3>2. \A i \in Full(T) : i \in Nat
      BY <1>2 DEF Full, SlotsOf
    <3> QED BY <3>1, <3>2
  <2>10. RoomFor(c)'
    <3>1. Len(N.buf) = N.used
      <4>1. Len(<<>>) = 0
        OBVIOUS
      <4> QED BY <2>4, <4>1, Zenon
    <3>2. N.used + Cardinality(ToReplay(c)') = T.live
      <4>1. Cardinality(ToReplay(c)') = T.live /\ N.used = 0 /\ T.live \in Nat
        BY <1>2, <2>4, <2>9, Zenon
      <4> QED BY <4>1
    <3>3. Len(T.buf) < N.cap /\ ~Overloaded(T.live, N.n)
      BY <2>2, <2>3, <2>4, Zenon
    <3> QED BY <1>6, <2>6, <3>1, <3>2, <3>3, RoomForGrow, Zenon
  <2> QED BY <1>4, <2>8, <2>10, Zenon DEF RoomInv
<1> QED
  <2>1. DOMAIN pc = Clients
    BY Zenon DEF IndInv, TypeOK
  <2> QED BY <1>1, <1>5, <1>6, <2>1, Zenon DEF PutLock

\* Where the tables are while c is between lock and unlock: c has the mutex, nobody
\* else is between lock and unlock.
LEMMA HolderAlone ==
  ASSUME IndInv, NEW c \in Clients, pc[c] \in {"replay", "append", "install"}
  PROVE  /\ \A d \in Clients : d # c => pc[d] \notin {"replay", "append", "install"}
         /\ tab[c] = cur /\ key[c] \in Keys
         /\ pc[c] = "replay" => ntab = cur + 1
         /\ pc[c] # "replay" => ntab = cur
<1>1. MutexInv
  BY DEF IndInv
<1>2. \A d \in Clients : d # c => pc[d] \notin {"replay", "append", "install"}
  BY <1>1, Zenon DEF MutexInv, Locked
<1>3. tab[c] = cur /\ key[c] \in Keys /\ (pc[c] = "replay" => ntab = cur + 1)
  BY <1>1, Zenon DEF MutexInv, Locked
<1>4. ASSUME pc[c] # "replay"
      PROVE  ntab = cur
  BY <1>1, <1>2, <1>4, Zenon DEF MutexInv
<1> QED BY <1>2, <1>3, <1>4, Zenon

\* The types of a table and its counts, for arithmetic.
LEMMA TableCounts ==
  ASSUME NEW T, IsTable(T), TableRoom(T)
  PROVE  /\ HasFields(T) /\ T.n \in Nat /\ T.cap \in Nat /\ Len(T.buf) \in Nat
         /\ T.used \in Nat /\ T.live \in Nat /\ T.live <= T.used
         /\ T.live = Cardinality(Full(T)) /\ Len(T.buf) <= T.cap /\ 10 * T.used <= 7 * T.n
<1>1. /\ Cardinality(Full(T)) \in Nat /\ Cardinality(Taken(T)) \in Nat
      /\ Cardinality(Full(T)) <= Cardinality(Taken(T))
  BY SlotCounts, Zenon
<1>2. T.buf \in Seq(RecordSet) /\ T.n \in Nat /\ T.cap \in Nat
  BY Zenon DEF IsTable
<1>3. HasFields(T)
  BY Zenon DEF IsTable, HasFields
<1>4. /\ T.live = Cardinality(Full(T)) /\ T.used = Cardinality(Taken(T))
      /\ 10 * T.used <= 7 * T.n /\ Len(T.buf) <= T.cap
  BY Zenon DEF TableRoom, Counted
<1>5. Len(T.buf) \in Nat
  BY <1>2
<1> QED BY <1>1, <1>2, <1>3, <1>4, <1>5, Zenon

\* grow has copied all but left of the live records of T into N, which has the room
\* for those and one more.
CopiesInto(T, N, left) ==
  /\ Len(N.buf) = N.used /\ N.used + left = T.live
  /\ Len(T.buf) < N.cap /\ ~Overloaded(T.live, N.n)

\* One more record of T is appended to the new arena and installed.
LEMMA CopyFits ==
  ASSUME NEW T, IsTable(T), WellFormed(T), TableRoom(T),
         NEW N, IsTable(N), TableRoom(N),
         NEW left \in Nat, left >= 1, CopiesInto(T, N, left),
         NEW i \in SlotsOf(N), N.slots[i] = Empty, NEW w, w.st = "full", NEW rec
  PROVE  LET X == Count(Store(appendRecord(N, rec), i, w), 1, 1)
         IN  TableRoom(X) /\ CopiesInto(T, X, left - 1)
<1>1. PICK N1 : N1 = appendRecord(N, rec)
  BY Zenon
<1>2. PICK N2 : N2 = Store(N1, i, w)
  BY Zenon
<1>3. PICK X : X = Count(N2, 1, 1)
  BY Zenon
<1>4. /\ HasFields(N1) /\ N1.buf = Append(N.buf, rec) /\ N1.n = N.n /\ N1.slots = N.slots
      /\ N1.cap = N.cap /\ N1.live = N.live /\ N1.used = N.used
  <2>1. HasFields(N)
    BY TableCounts, Zenon
  <2> QED BY <1>1, <2>1, AppendedFields
<1>5. /\ HasFields(N2) /\ N2.buf = N1.buf /\ N2.n = N1.n /\ N2.slots = [N1.slots EXCEPT ![i] = w]
      /\ N2.cap = N1.cap /\ N2.live = N1.live /\ N2.used = N1.used
  <2>1. HasFields(N1)
    BY <1>4, Zenon
  <2> QED BY <1>2, <2>1 DEF HasFields, Store
<1>6. /\ X.buf = N2.buf /\ X.n = N2.n /\ X.slots = N2.slots /\ X.cap = N2.cap
      /\ X.live = N2.live + 1 /\ X.used = N2.used + 1
  <2>1. HasFields(N2)
    BY <1>5, Zenon
  <2> QED BY <1>3, <2>1, RecountedFields
<1>7. /\ X.n = N.n /\ X.slots = [N.slots EXCEPT ![i] = w] /\ X.buf = Append(N.buf, rec)
      /\ X.cap = N.cap /\ X.live = N.live + 1 /\ X.used = N.used + 1
  BY <1>4, <1>5, <1>6, Zenon
<1>8. Counted(X)
  <2>1. Counted(N)
    BY DEF TableRoom
  <2> QED BY <1>7, <2>1, RecountFresh, Zenon
<1>9. /\ N.n \in Nat /\ N.cap \in Nat /\ N.used \in Nat /\ Len(N.buf) \in Nat
      /\ T.live \in Nat /\ Len(T.buf) \in Nat /\ T.live <= Len(T.buf)
  <2>1. T.live = Cardinality(Full(T)) /\ Cardinality(Full(T)) <= Len(T.buf)
    BY TableCounts, LiveFits, Zenon
  <2> QED BY <2>1, TableCounts, Zenon
<1>10. Len(X.buf) = Len(N.buf) + 1
  <2>1. N.buf \in Seq(RecordSet)
    BY Zenon DEF IsTable
  <2> QED BY <1>7, <2>1
<1>11. PICK nu \in Nat, nn \in Nat, nc \in Nat, tl \in Nat, lt \in Nat :
         nu = N.used /\ nn = N.n /\ nc = N.cap /\ tl = T.live /\ lt = Len(T.buf)
  BY <1>9, Zenon
<1>12. nu + left = tl /\ tl <= lt /\ lt < nc /\ 10 * (tl + 1) <= 7 * nn
  <2>1. /\ N.used + left = T.live /\ T.live <= Len(T.buf) /\ Len(T.buf) < N.cap
        /\ ~Overloaded(T.live, N.n)
    BY <1>9, Zenon DEF CopiesInto
  <2>2. ~Overloaded(tl, nn)
    BY <1>11, <2>1, Zenon
  <2>3. 10 * (tl + 1) <= 7 * nn
    BY <2>2 DEF Overloaded
  <2> QED BY <1>11, <2>1, <2>3, Zenon
<1>13. nu + 1 <= nc /\ (nu + 1) + (left - 1) = tl /\ 10 * (nu + 1) <= 7 * nn
  BY <1>12
<1>14. /\ Len(X.buf) <= X.cap /\ Len(X.buf) = X.used /\ X.used + (left - 1) = T.live
       /\ 10 * X.used <= 7 * X.n
  BY <1>7, <1>10, <1>11, <1>13, Zenon DEF CopiesInto
<1>15. TableRoom(X) /\ CopiesInto(T, X, left - 1)
  BY <1>7, <1>8, <1>14, Zenon DEF TableRoom, CopiesInto
<1> QED BY <1>1, <1>2, <1>3, <1>15, Zenon

\* The record of a full slot goes to the new table, which has room for it: what is
\* left to copy and what is there add up to the live records of the old one.
LEMMA RoomReplay ==
  ASSUME IndInv, RoomInv, NEW c \in Clients, Replay(c)
  PROVE  RoomInv'
<1>1. pc[c] = "replay" /\ UNCHANGED <<cur, ntab, pc, tab>>
  BY Zenon DEF Replay
<1>2. /\ \A d \in Clients : d # c => pc'[d] \notin {"replay", "append", "install"}
      /\ tab[c] = cur /\ ntab = cur + 1
  BY <1>1, HolderAlone, Zenon
<1>3. PICK T, N : T = heap[cur] /\ N = heap[ntab]
  BY Zenon
<1>4. PICK o \in ToReplay(c), i \in SlotsOf(heap[ntab]) :
        LET rec == RecOf(heap[tab[c]], o)
        IN
        /\ \A m \in ToReplay(c) : o <= m
        /\ FirstEmpty(heap[ntab], rec.key, i)
        /\ pos' = [pos EXCEPT ![c] = o + 1]
        /\ heap' = [heap EXCEPT ![ntab] =
             Count(Store(appendRecord(heap[ntab], rec), i, Word(rec.key, Len(heap[ntab].buf) + 1)), 1, 1)]
  BY Zenon DEF Replay
<1>5. PICK rec, w : rec = RecOf(heap[tab[c]], o) /\ w = Word(rec.key, Len(N.buf) + 1)
  BY Zenon
<1>6. PICK X : X = Count(Store(appendRecord(N, rec), i, w), 1, 1)
  BY Zenon
<1>7. heap' = [heap EXCEPT ![ntab] = X]
  BY <1>3, <1>4, <1>5, <1>6, Zenon
<1>8. w.st = "full"
  BY <1>5, Zenon DEF Word
<1>9. N.slots[i] = Empty /\ i \in SlotsOf(N)
  BY <1>3, <1>4, Zenon DEF FirstEmpty
<1>10. (\A m \in ToReplay(c) : o <= m) /\ pos' = [pos EXCEPT ![c] = o + 1]
  BY <1>4, Zenon
<1>11. IsTable(T) /\ WellFormed(T) /\ TableRoom(T) /\ IsTable(N) /\ TableRoom(N)
       /\ cur \in TabIds /\ ntab \in TabIds /\ ntab \in Nat /\ cur \in Nat /\ DOMAIN heap = TabIds
  <2>1. DOMAIN heap = TabIds
    BY Zenon DEF IndInv, TypeOK
  <2>2. cur \in 1..ntab /\ ntab \in 1..ntab /\ ntab \in Nat /\ cur \in Nat /\ cur \in TabIds /\ ntab \in TabIds
    BY <1>2, InvTables
  <2>3. IsTable(T) /\ WellFormed(T) /\ IsTable(N)
    BY <1>3, <2>2, InvTables, Zenon
  <2> QED BY <1>3, <2>1, <2>2, <2>3 DEF RoomInv
<1>12. /\ Len(N.buf) = N.used /\ N.used + Cardinality(ToReplay(c)) = T.live
       /\ Len(T.buf) < N.cap /\ ~Overloaded(T.live, N.n)
  BY <1>1, <1>3, Zenon DEF RoomInv, RoomFor
<1>13. Cardinality(ToReplay(c)) \in Nat /\ Cardinality(ToReplay(c)) >= 1
       /\ Cardinality(ToReplay(c)') = Cardinality(ToReplay(c)) - 1
  <2>1. ToReplay(c) = {j \in Full(T) : j >= pos[c]}
    BY <1>2, <1>3, Zenon DEF ToReplay
  <2>2. IsFiniteSet(Full(T)) /\ Full(T) \subseteq Nat
    <3>1. IsFiniteSet(Full(T))
      BY <1>11, SlotCounts, Zenon
    <3>2. T.n \in Nat
      BY <1>11, Zenon DEF IsTable
    <3>3. \A j \in SlotsOf(T) : j \in Nat
      BY <3>2 DEF SlotsOf
    <3> QED BY <3>1, <3>3, Zenon DEF Full
  <2>3. IsFiniteSet(ToReplay(c)) /\ Cardinality(ToReplay(c)) \in Nat
    BY <2>1, <2>2, FS_Subset, FS_CardinalityType
  <2>4. heap'[tab'[c]] = T /\ pos'[c] = o + 1
    <3>1. tab'[c] = cur /\ cur # ntab
      BY <1>1, <1>2, <1>11
    <3>2. DOMAIN pos = Clients
      BY Zenon DEF IndInv, TypeOK
    <3> QED BY <1>3, <1>7, <1>10, <1>11, <3>1, <3>2, Zenon
  <2>5. ToReplay(c)' = {j \in Full(T) : j >= o + 1}
    BY <2>4, Zenon DEF ToReplay
  <2>6. pos[c] \in Nat
    BY Zenon DEF IndInv, TypeOK
  <2>7. ToReplay(c)' = ToReplay(c) \ {o}
    BY <1>10, <2>1, <2>2, <2>5, <2>6
  <2>8. Cardinality(ToReplay(c) \ {o}) = Cardinality(ToReplay(c)) - 1
    BY <2>3, FS_RemoveElement, Zenon
  <2>9. Cardinality(ToReplay(c)) # 0
    BY <2>3, FS_EmptySet
  <2> QED BY <2>3, <2>7, <2>8, <2>9
<1>14. /\ TableRoom(X) /\ Len(X.buf) = X.used /\ X.used + Cardinality(ToReplay(c)') = T.live
       /\ Len(T.buf) < X.cap /\ ~Overloaded(T.live, X.n)
  <2>1. PICK left \in Nat : left = Cardinality(ToReplay(c))
    BY <1>13
  <2>2. left >= 1 /\ CopiesInto(T, N, left)
    BY <1>12, <1>13, <2>1, Zenon DEF CopiesInto
  <2>3. LET Y == Count(Store(appendRecord(N, rec), i, w), 1, 1)
        IN  TableRoom(Y) /\ CopiesInto(T, Y, left - 1)
    BY <1>8, <1>9, <1>11, <2>2, CopyFits, Zenon
  <2>4. TableRoom(X) /\ CopiesInto(T, X, left - 1)
    BY <1>6, <2>3, Zenon
  <2> QED BY <1>13, <2>1, <2>4, Zenon DEF CopiesInto
<1>15. RoomFor(c)'
  <2>1. heap'[cur'] = T /\ heap'[ntab'] = X /\ pc'[c] = "replay"
    BY <1>1, <1>2, <1>3, <1>7, <1>11
  <2> QED BY <1>14, <2>1, RoomForGrow, Zenon
<1>16. \A t \in 1..ntab' : TableRoom(heap'[t])
  BY <1>1, <1>7, <1>11, <1>14, HeapRoom, Zenon
<1> QED BY <1>2, <1>15, <1>16, RoomForOther, Zenon DEF RoomInv

\* The table grow publishes has room for one more record.
LEMMA RoomPublish ==
  ASSUME IndInv, RoomInv, NEW c \in Clients, Publish(c)
  PROVE  RoomInv'
<1>1. /\ pc[c] = "replay" /\ ToReplay(c) = {} /\ UNCHANGED <<ntab, heap>> /\ cur' = ntab
      /\ pc' = [pc EXCEPT ![c] = "append"]
  BY Zenon DEF Publish
<1>2. DOMAIN pc = Clients
  BY Zenon DEF IndInv, TypeOK
<1>3. \A d \in Clients : d # c => pc'[d] \notin {"replay", "append", "install"}
  BY <1>1, <1>2, HolderAlone, Zenon
<1>4. PICK T, N : T = heap[cur] /\ N = heap[ntab]
  BY Zenon
<1>5. /\ Len(N.buf) = N.used /\ N.used + Cardinality(ToReplay(c)) = T.live
      /\ Len(T.buf) < N.cap /\ ~Overloaded(T.live, N.n)
  BY <1>1, <1>4, Zenon DEF RoomInv, RoomFor
<1>6. Cardinality(ToReplay(c)) = 0
  BY <1>1, FS_EmptySet
<1>7. IsTable(T) /\ WellFormed(T) /\ TableRoom(T) /\ IsTable(N) /\ TableRoom(N)
  BY <1>4, InvTables DEF RoomInv
<1>8. T.live \in Nat /\ N.used \in Nat /\ N.cap \in Nat /\ Len(T.buf) \in Nat /\ T.live <= Len(T.buf)
  <2>1. T.live = Cardinality(Full(T)) /\ Cardinality(Full(T)) <= Len(T.buf)
    BY <1>7, TableCounts, LiveFits, Zenon
  <2> QED BY <1>7, <2>1, TableCounts, Zenon
<1>9. N.used = T.live /\ Len(N.buf) < N.cap
  BY <1>5, <1>6, <1>8
<1>10. heap'[cur'] = N /\ pc'[c] = "append"
  BY <1>1, <1>2, <1>4
<1>11. RoomFor(c)'
  BY <1>5, <1>9, <1>10, Zenon DEF RoomFor
<1> QED BY <1>1, <1>3, <1>11, RoomForOther DEF RoomInv

\* What the holder of the mutex does to the published table keeps its room. The
\* append, when there is a free cell:
LEMMA AppendFits ==
  ASSUME NEW T, IsTable(T), TableRoom(T), Len(T.buf) < T.cap, NEW rec
  PROVE  LET X == appendRecord(T, rec)
         IN  TableRoom(X) /\ X.used = T.used /\ X.n = T.n
<1>1. PICK X : X = appendRecord(T, rec)
  BY Zenon
<1>2. /\ X.buf = Append(T.buf, rec) /\ X.n = T.n /\ X.slots = T.slots
      /\ X.cap = T.cap /\ X.live = T.live /\ X.used = T.used
  <2>1. HasFields(T)
    BY TableCounts
  <2> QED BY <1>1, <2>1, AppendedFields
<1>3. Counted(X)
  BY <1>2, RecountSame, Zenon DEF TableRoom
<1>4. Len(X.buf) = Len(T.buf) + 1 /\ Len(T.buf) \in Nat /\ T.cap \in Nat
  BY <1>2 DEF IsTable
<1>5. Len(X.buf) <= X.cap /\ 10 * X.used <= 7 * X.n
  BY <1>2, <1>4 DEF TableRoom
<1> QED BY <1>1, <1>2, <1>3, <1>5, Zenon DEF TableRoom

\* The repoint of a full slot.
LEMMA RepointFits ==
  ASSUME NEW T, IsTable(T), TableRoom(T), NEW i \in Full(T), NEW w, w.st = "full"
  PROVE  TableRoom(Store(T, i, w))
<1>1. PICK X : X = Store(T, i, w)
  BY Zenon
<1>2. /\ X.buf = T.buf /\ X.n = T.n /\ X.slots = [T.slots EXCEPT ![i] = w]
      /\ X.cap = T.cap /\ X.live = T.live /\ X.used = T.used
  BY <1>1 DEF IsTable, Store
<1>3. Counted(X)
  BY <1>2, RecountRepoint, Zenon DEF TableRoom
<1> QED BY <1>1, <1>2, <1>3, Zenon DEF TableRoom

\* The use of a tombstone.
LEMMA ReuseFits ==
  ASSUME NEW T, IsTable(T), TableRoom(T), NEW i \in SlotsOf(T), T.slots[i] = Tomb,
         NEW w, w.st = "full"
  PROVE  TableRoom(Count(Store(T, i, w), 1, 0))
<1>1. PICK S : S = Store(T, i, w)
  BY Zenon
<1>0. PICK X : X = Count(S, 1, 0)
  BY Zenon
<1>2. HasFields(T) /\ T.used \in Nat
  BY TableCounts
<1>3. /\ X.buf = T.buf /\ X.n = T.n /\ X.slots = [T.slots EXCEPT ![i] = w]
      /\ X.cap = T.cap /\ X.live = T.live + 1 /\ X.used = T.used + 0
  <2>1. /\ HasFields(S) /\ S.buf = T.buf /\ S.n = T.n /\ S.slots = [T.slots EXCEPT ![i] = w]
        /\ S.cap = T.cap /\ S.live = T.live /\ S.used = T.used
    BY <1>1, <1>2 DEF HasFields, Store
  <2>2. HasFields(S)
    BY <2>1, Zenon
  <2>3. /\ X.buf = S.buf /\ X.n = S.n /\ X.slots = S.slots /\ X.cap = S.cap
        /\ X.live = S.live + 1 /\ X.used = S.used + 0
    BY <1>0, <2>2, RecountedFields
  <2> QED BY <2>1, <2>3, Zenon
<1>4. X.used = T.used
  BY <1>2, <1>3
<1>5. Counted(X)
  BY <1>3, <1>4, RecountReused, Zenon DEF TableRoom
<1> QED BY <1>0, <1>1, <1>3, <1>4, <1>5, Zenon DEF TableRoom

\* The use of an empty slot, below the load limit.
LEMMA FreshFits ==
  ASSUME NEW T, IsTable(T), TableRoom(T), ~Overloaded(T.used, T.n),
         NEW i \in SlotsOf(T), T.slots[i] = Empty, NEW w, w.st = "full"
  PROVE  TableRoom(Count(Store(T, i, w), 1, 1))
<1>1. PICK S : S = Store(T, i, w)
  BY Zenon
<1>0. PICK X : X = Count(S, 1, 1)
  BY Zenon
<1>2. HasFields(T) /\ T.used \in Nat /\ T.n \in Nat
  BY TableCounts, Zenon
<1>3. /\ X.buf = T.buf /\ X.n = T.n /\ X.slots = [T.slots EXCEPT ![i] = w]
      /\ X.cap = T.cap /\ X.live = T.live + 1 /\ X.used = T.used + 1
  <2>1. /\ HasFields(S) /\ S.buf = T.buf /\ S.n = T.n /\ S.slots = [T.slots EXCEPT ![i] = w]
        /\ S.cap = T.cap /\ S.live = T.live /\ S.used = T.used
    BY <1>1, <1>2 DEF HasFields, Store
  <2>2. HasFields(S)
    BY <2>1, Zenon
  <2>3. /\ X.buf = S.buf /\ X.n = S.n /\ X.slots = S.slots /\ X.cap = S.cap
        /\ X.live = S.live + 1 /\ X.used = S.used + 1
    BY <1>0, <2>2, RecountedFields
  <2> QED BY <2>1, <2>3, Zenon
<1>4. 10 * X.used <= 7 * X.n
  BY <1>2, <1>3 DEF Overloaded
<1>5. Counted(X)
  BY <1>3, RecountFresh, Zenon DEF TableRoom
<1> QED BY <1>0, <1>1, <1>3, <1>4, <1>5, Zenon DEF TableRoom

\* The delete.
LEMMA TombFits ==
  ASSUME NEW T, IsTable(T), TableRoom(T), NEW i \in Full(T)
  PROVE  TableRoom(Count(Store(T, i, Tomb), -1, 0))
<1>1. PICK S : S = Store(T, i, Tomb)
  BY Zenon
<1>0. PICK X : X = Count(S, -1, 0)
  BY Zenon
<1>2. HasFields(T) /\ T.used \in Nat
  BY TableCounts, Zenon
<1>3. /\ X.buf = T.buf /\ X.n = T.n /\ X.slots = [T.slots EXCEPT ![i] = Tomb]
      /\ X.cap = T.cap /\ X.live = T.live + (-1) /\ X.used = T.used + 0
  <2>1. /\ HasFields(S) /\ S.buf = T.buf /\ S.n = T.n /\ S.slots = [T.slots EXCEPT ![i] = Tomb]
        /\ S.cap = T.cap /\ S.live = T.live /\ S.used = T.used
    BY <1>1, <1>2 DEF HasFields, Store
  <2>2. HasFields(S)
    BY <2>1, Zenon
  <2>3. /\ X.buf = S.buf /\ X.n = S.n /\ X.slots = S.slots /\ X.cap = S.cap
        /\ X.live = S.live + (-1) /\ X.used = S.used + 0
    BY <1>0, <2>2, RecountedFields
  <2> QED BY <2>1, <2>3, Zenon
<1>4. X.used = T.used
  BY <1>2, <1>3
<1>5. Counted(X)
  BY <1>3, RecountTomb, Zenon DEF TableRoom
<1> QED BY <1>0, <1>1, <1>3, <1>4, <1>5, Zenon DEF TableRoom

\* The room of the shard after the published table becomes X, when nobody is left
\* between lock and unlock but c, which has what it needs.
LEMMA RoomOfShard ==
  ASSUME IndInv, RoomInv, NEW c \in Clients, NEW X, TableRoom(X),
         heap' = [heap EXCEPT ![cur] = X], cur' = cur, ntab' = ntab, RoomFor(c)',
         \A d \in Clients : d # c => pc'[d] \notin {"replay", "append", "install"}
  PROVE  RoomInv'
<1>1. cur \in TabIds /\ ntab' \in Nat
  BY InvTables, Zenon
<1>2. \A t \in 1..ntab' : TableRoom(heap'[t])
  BY <1>1, HeapRoom, Zenon
<1> QED BY <1>2, RoomForOther, Zenon DEF RoomInv

\* The published table has its room and is what the heap holds after the step.
LEMMA PublishedRoom ==
  ASSUME IndInv, RoomInv
  PROVE  IsTable(heap[cur]) /\ TableRoom(heap[cur]) /\ cur \in DOMAIN heap /\ DOMAIN pc = Clients
<1>1. DOMAIN heap = TabIds /\ DOMAIN pc = Clients
  BY Zenon DEF IndInv, TypeOK
<1> QED BY <1>1, InvTables, Zenon DEF RoomInv

\* The record is written into a cell the arena has.
LEMMA RoomAppend ==
  ASSUME IndInv, RoomInv, NEW c \in Clients, PutAppend(c)
  PROVE  RoomInv'
<1>1. /\ pc[c] = "append" /\ pc' = [pc EXCEPT ![c] = "install"] /\ cur' = cur /\ ntab' = ntab
      /\ heap' = [heap EXCEPT ![tab[c]] = appendRecord(heap[tab[c]], [key |-> key[c], val |-> val[c]])]
  BY Zenon DEF PutAppend
<1>2. /\ \A d \in Clients : d # c => pc[d] \notin {"replay", "append", "install"}
      /\ tab[c] = cur
  BY <1>1, HolderAlone, Zenon
<1>3. PICK T : T = heap[cur]
  BY Zenon
<1>4. PICK X : X = appendRecord(T, [key |-> key[c], val |-> val[c]])
  BY Zenon
<1>5. IsTable(T) /\ TableRoom(T) /\ cur \in DOMAIN heap /\ DOMAIN pc = Clients
  BY <1>3, PublishedRoom
<1>6. Len(T.buf) < T.cap /\ ~Overloaded(T.used, T.n)
  BY <1>1, <1>3, Zenon DEF RoomInv, RoomFor
<1>7. TableRoom(X) /\ X.used = T.used /\ X.n = T.n
  BY <1>4, <1>5, <1>6, AppendFits, Zenon
<1>8. heap' = [heap EXCEPT ![cur] = X]
  BY <1>1, <1>2, <1>3, <1>4, Zenon
<1>9. heap'[cur'] = X /\ pc'[c] = "install"
  BY <1>1, <1>5, <1>8, Zenon
<1>10. RoomFor(c)'
  BY <1>6, <1>7, <1>9, Zenon DEF RoomFor
<1>11. \A d \in Clients : d # c => pc'[d] \notin {"replay", "append", "install"}
  BY <1>1, <1>2, <1>5, Zenon
<1> QED BY <1>1, <1>7, <1>8, <1>10, <1>11, RoomOfShard, Zenon

\* The word is stored into the slot of the key, a tombstone, or an empty slot that
\* the load limit leaves free for it.
LEMMA RoomInstall ==
  ASSUME IndInv, RoomInv, NEW c \in Clients, PutInstall(c)
  PROVE  RoomInv'
<1>1. pc[c] = "install" /\ pc' = [pc EXCEPT ![c] = "idle"] /\ cur' = cur /\ ntab' = ntab
  BY Zenon DEF PutInstall
<1>2. /\ \A d \in Clients : d # c => pc[d] \notin {"replay", "append", "install"}
      /\ tab[c] = cur
  BY <1>1, HolderAlone, Zenon
<1>3. PICK T : T = heap[cur]
  BY Zenon
<1>4. PICK w : w = Word(key[c], off[c])
  BY Zenon
<1>5. IsTable(T) /\ TableRoom(T) /\ cur \in DOMAIN heap /\ DOMAIN pc = Clients /\ w.st = "full"
  BY <1>3, <1>4, PublishedRoom, Zenon DEF Word
<1>6. ~Overloaded(T.used, T.n)
  BY <1>1, <1>3, Zenon DEF RoomInv, RoomFor
<1>7. \A d \in Clients : pc'[d] \notin {"replay", "append", "install"}
  BY <1>1, <1>2, <1>5, Zenon
<1>8. PICK i \in SlotsOf(T) :
        /\ EndsProbe(T, key[c], i)
        /\ \/ /\ Holds(T, key[c], i)
              /\ heap' = [heap EXCEPT ![cur] = Store(T, i, w)]
           \/ /\ ~Holds(T, key[c], i)
              /\ \E j \in SlotsOf(T) :
                   /\ InsertsAt(T, key[c], i, j)
                   /\ heap' = [heap EXCEPT ![cur] = Count(Store(T, j, w), 1, IF j = i THEN 1 ELSE 0)]
  <2>1. \E i \in SlotsOf(heap[tab[c]]) :
          /\ EndsProbe(heap[tab[c]], key[c], i)
          /\ \/ /\ Holds(heap[tab[c]], key[c], i)
                /\ heap' = [heap EXCEPT ![tab[c]] = Store(heap[tab[c]], i, Word(key[c], off[c]))]
             \/ /\ ~Holds(heap[tab[c]], key[c], i)
                /\ \E j \in SlotsOf(heap[tab[c]]) :
                     /\ InsertsAt(heap[tab[c]], key[c], i, j)
                     /\ heap' = [heap EXCEPT ![tab[c]] =
                          Count(Store(heap[tab[c]], j, Word(key[c], off[c])), 1, IF j = i THEN 1 ELSE 0)]
    BY Zenon DEF PutInstall
  <2> QED BY <1>2, <1>3, <1>4, <2>1, Zenon
<1>9. PICK X : TableRoom(X) /\ heap' = [heap EXCEPT ![cur] = X]
  <2>1. CASE Holds(T, key[c], i) /\ heap' = [heap EXCEPT ![cur] = Store(T, i, w)]
    <3>1. i \in Full(T)
      BY <2>1, Zenon DEF Holds, Matches, Full
    <3>2. TableRoom(Store(T, i, w))
      BY <1>5, <3>1, RepointFits, Zenon
    <3> QED BY <2>1, <3>2, Zenon
  <2>2. ASSUME ~Holds(T, key[c], i), NEW j \in SlotsOf(T), InsertsAt(T, key[c], i, j),
               heap' = [heap EXCEPT ![cur] = Count(Store(T, j, w), 1, IF j = i THEN 1 ELSE 0)]
        PROVE  \E X : TableRoom(X) /\ heap' = [heap EXCEPT ![cur] = X]
    <3>1. T.slots[i] = Empty
      BY <1>8, <2>2, Zenon DEF EndsProbe, Stops
    <3>2. CASE j = i
      <4>1. TableRoom(Count(Store(T, j, w), 1, 1))
        BY <1>5, <1>6, <3>1, <3>2, FreshFits, Zenon
      <4> QED BY <2>2, <3>2, <4>1, Zenon
    <3>3. CASE j # i
      <4>1. T.slots[j] = Tomb
        BY <2>2, <3>3, Zenon DEF InsertsAt, TombsBefore
      <4>2. TableRoom(Count(Store(T, j, w), 1, 0))
        BY <1>5, <4>1, ReuseFits, Zenon
      <4> QED BY <2>2, <3>3, <4>2, Zenon
    <3> QED BY <3>2, <3>3
  <2> QED BY <1>8, <2>1, <2>2, Zenon
<1>10. RoomFor(c)'
  BY <1>7, RoomForOther
<1> QED BY <1>1, <1>7, <1>9, <1>10, RoomOfShard, Zenon

\* A delete turns a full slot into a tombstone, or leaves the table as it is.
LEMMA RoomDelete ==
  ASSUME IndInv, RoomInv, NEW c \in Clients, NEW k \in Keys, Delete(c, k)
  PROVE  RoomInv'
<1>1. mu = {} /\ cur' = cur /\ ntab' = ntab /\ pc' = pc
  BY Zenon DEF Delete
<1>2. \A d \in Clients : pc'[d] \notin {"replay", "append", "install"}
  BY <1>1, Zenon DEF IndInv, MutexInv, Locked
<1>3. PICK T : T = heap[cur]
  BY Zenon
<1>4. IsTable(T) /\ TableRoom(T) /\ cur \in DOMAIN heap
  BY <1>3, PublishedRoom
<1>5. RoomFor(c)'
  BY <1>2, RoomForOther
<1>6. PICK i \in SlotsOf(T) :
        \/ Holds(T, k, i) /\ heap' = [heap EXCEPT ![cur] = Count(Store(T, i, Tomb), -1, 0)]
        \/ UNCHANGED heap
  BY <1>3, Zenon DEF Delete
<1>7. CASE Holds(T, k, i) /\ heap' = [heap EXCEPT ![cur] = Count(Store(T, i, Tomb), -1, 0)]
  <2>1. PICK X : X = Count(Store(T, i, Tomb), -1, 0)
    BY Zenon
  <2>2. i \in Full(T)
    BY <1>7, Zenon DEF Holds, Matches, Full
  <2>3. TableRoom(X)
    BY <1>4, <2>1, <2>2, TombFits, Zenon
  <2>4. heap' = [heap EXCEPT ![cur] = X]
    BY <1>7, <2>1, Zenon
  <2> QED BY <1>1, <1>2, <1>5, <2>3, <2>4, RoomOfShard, Zenon
<1>8. CASE UNCHANGED heap
  <2>1. \A t \in 1..ntab' : TableRoom(heap'[t])
    BY <1>1, <1>8 DEF RoomInv
  <2> QED BY <1>2, <2>1, RoomForOther, Zenon DEF RoomInv
<1> QED BY <1>6, <1>7, <1>8, Zenon

\* A shard starts with room.
LEMMA RoomInit ==
  ASSUME Init
  PROVE  RoomInv
<1>1. heap[1] = newF2tab(InitSlots, InitBuf) /\ ntab = 1 /\ \A c \in Clients : pc[c] = "idle"
  BY F2Assumption DEF Init, TabIds
<1>2. PICK T : T = newF2tab(InitSlots, InitBuf)
  BY Zenon
<1>3. Counted(T) /\ T.used = 0 /\ T.n = InitSlots /\ T.cap = InitBuf /\ T.buf = <<>>
  BY <1>2, RecountNew, F2Assumption
<1>4. TableRoom(T)
  BY <1>3, F2Assumption DEF TableRoom
<1>5. \A c \in Clients : RoomFor(c)
  BY <1>1, Zenon DEF RoomFor
<1> QED BY <1>1, <1>2, <1>4, <1>5 DEF RoomInv

\* A step that changes nothing keeps the room.
LEMMA RoomStutter ==
  ASSUME RoomInv, UNCHANGED vars
  PROVE  RoomInv'
<1>1. UNCHANGED tables /\ pc' = pc /\ pos' = pos /\ tab' = tab
  BY DEF vars, locals
<1>2. \A c \in Clients : RoomFor(c)'
  BY <1>1, RoomForSame, Zenon DEF RoomInv
<1> QED BY <1>1, <1>2 DEF RoomInv, tables

\* Every step of the shard keeps the room.
LEMMA RoomNext ==
  ASSUME IndInv, RoomInv, [Next]_vars
  PROVE  RoomInv'
<1>1. ASSUME NEW c \in Readers, Get(c)
      PROVE  RoomInv'
  BY <1>1, RoomGet DEF Clients
<1>2. ASSUME NEW c \in Writers, Put(c)
      PROVE  RoomInv'
  BY <1>2, RoomPutLock, RoomReplay, RoomPublish, RoomAppend, RoomInstall, Zenon DEF Put, Clients
<1>3. ASSUME NEW c \in Writers, NEW k \in Keys, Delete(c, k)
      PROVE  RoomInv'
  BY <1>3, RoomDelete DEF Clients
<1> QED BY <1>1, <1>2, <1>3, RoomStutter DEF Next

\* What the room of the shard says of its tables.
LEMMA RoomSuffices ==
  ASSUME IndInv, RoomInv
  PROVE  RoomKept
<1>1. ASSUME NEW t \in 1..ntab
      PROVE  /\ Counted(heap[t]) /\ Len(heap[t].buf) <= heap[t].cap
             /\ 10 * heap[t].used <= 7 * heap[t].n
             /\ \E i \in SlotsOf(heap[t]) : heap[t].slots[i] = Empty
  <2>1. PICK T : T = heap[t]
    BY Zenon
  <2>2. IsTable(T) /\ TableRoom(T) /\ T.n \in Nat /\ T.n >= 2
    BY <2>1, InvTables, Zenon DEF RoomInv
  <2>3. T.used \in Nat /\ T.used = Cardinality(Taken(T)) /\ 10 * T.used <= 7 * T.n
    BY <2>2, TableCounts, Zenon DEF TableRoom, Counted
  <2>4. Cardinality(Taken(T)) < T.n
    BY <2>2, <2>3
  <2>5. \E i \in SlotsOf(T) : T.slots[i] = Empty
    BY <2>2, <2>4, SlotCounts, Zenon
  <2> QED BY <2>1, <2>2, <2>5, Zenon DEF TableRoom
<1> QED BY <1>1, Zenon DEF RoomInv, RoomKept, CountersExact, SomeSlotEmpty, ArenaFits, LoadKept

\* The counters putLocked and grow size a table by are the counts of its slots, no
\* table goes past f2MaxLoad and so each has an empty slot to end every probe, and
\* appendRecord always has the room its comment says the caller guarantees, the
\* Puts that follow a grow included.
THEOREM Room == Spec => []RoomKept
<1>1. Init => RoomInv
  BY RoomInit
<1>2. IndInv /\ RoomInv /\ [Next]_vars => RoomInv'
  BY RoomNext
<1>3. IndInv /\ RoomInv => RoomKept
  BY RoomSuffices
<1> QED BY <1>1, <1>2, <1>3, Invariance, PTL DEF Spec
=============================================================================
