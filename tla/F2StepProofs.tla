---------------------------- MODULE F2StepProofs ----------------------------
(***************************************************************************)
(* What the operations on one table of an f2 shard do, for every table,    *)
(* hash function, key and value; and that the inductive invariant of the   *)
(* shard holds at first and is kept by the steps of a read, by taking the  *)
(* mutex, growing the table and publishing the new one, by the append and  *)
(* the install of a Put, and by a Delete.                                  *)
(***************************************************************************)
EXTENDS F2Shard, TLAPS

(***************************************************************************)
(* The probe sequence. Everything the proofs need of the modular walk      *)
(* (i + 1) & mask is in these lemmas.                                      *)
(***************************************************************************)

\* A probe starts inside the table.
LEMMA HomeInRange ==
  ASSUME NEW k \in Keys, NEW n \in Nat, n >= 2
  PROVE  Home(k, n) \in 0..(n - 1)
  BY F2Assumption DEF Home

\* Distances from the home slot number the slots in probe order.
LEMMA DistFacts ==
  ASSUME NEW n \in Nat, NEW h \in 0..(n - 1), NEW i \in 0..(n - 1), NEW j \in 0..(n - 1)
  PROVE  /\ Dist(h, i, n) \in 0..(n - 1)
         /\ Dist(h, i, n) = Dist(h, j, n) => i = j
         /\ NextSlot(i, n) \in 0..(n - 1)
         /\ Dist(h, h, n) = 0
         /\ Dist(h, i, n) < Dist(h, j, n) => Dist(h, NextSlot(i, n), n) <= Dist(h, j, n)
  BY DEF Dist, NextSlot

\* The same, for the probe of a key in a table.
LEMMA ProbeFacts ==
  ASSUME NEW T, T.n \in Nat, T.n >= 2,
         NEW k \in Keys, NEW i \in SlotsOf(T), NEW j \in SlotsOf(T)
  PROVE  /\ Home(k, T.n) \in SlotsOf(T)
         /\ ProbeDist(T, k, i) \in Nat
         /\ ProbeDist(T, k, i) = ProbeDist(T, k, j) => i = j
         /\ NextSlot(i, T.n) \in SlotsOf(T)
         /\ ProbeDist(T, k, Home(k, T.n)) = 0
         /\ ProbeDist(T, k, i) < ProbeDist(T, k, j) =>
              ProbeDist(T, k, NextSlot(i, T.n)) <= ProbeDist(T, k, j)
  <1> DEFINE n == T.n
             h == Home(k, n)
  <1>1. h \in 0..(n - 1) /\ i \in 0..(n - 1) /\ j \in 0..(n - 1) /\ n \in Nat
    BY HomeInRange DEF SlotsOf
  <1> HIDE DEF h, n
  <1>2. /\ Dist(h, i, n) \in 0..(n - 1)
        /\ Dist(h, i, n) = Dist(h, j, n) => i = j
        /\ NextSlot(i, n) \in 0..(n - 1)
        /\ Dist(h, h, n) = 0
        /\ Dist(h, i, n) < Dist(h, j, n) => Dist(h, NextSlot(i, n), n) <= Dist(h, j, n)
    BY <1>1, DistFacts, ZenonT(60)
  <1> QED
    BY <1>1, <1>2 DEF ProbeDist, SlotsOf, h, n

-----------------------------------------------------------------------------
(***************************************************************************)
(* What the operations on a table do to it.                                *)
(***************************************************************************)

\* A full slot of a well-formed table points at a record, under its tag.
LEMMA FullFacts ==
  ASSUME NEW T, IsTable(T), WellFormed(T), NEW i \in Full(T)
  PROVE  /\ i \in SlotsOf(T)
         /\ T.slots[i].off \in 1..Len(T.buf)
         /\ RecOf(T, i) = T.buf[T.slots[i].off]
         /\ RecOf(T, i) \in RecordSet
         /\ RecOf(T, i).key \in Keys /\ RecOf(T, i).val \in Values
         /\ \A k : Holds(T, k, i) <=> RecOf(T, i).key = k
  <1>1. /\ i \in SlotsOf(T) /\ T.slots[i].st = "full"
        /\ T.slots[i].off \in 1..Len(T.buf)
        /\ T.slots[i] = Word(RecOf(T, i).key, T.slots[i].off)
    BY DEF Full, WellFormed, WordsValid, Empty, Tomb
  <1>2. RecOf(T, i) = T.buf[T.slots[i].off]
    BY <1>1 DEF RecOf, RecordAt
  <1>3. RecOf(T, i) \in RecordSet
    BY <1>1, <1>2 DEF IsTable
  <1>4. RecOf(T, i).key \in Keys /\ RecOf(T, i).val \in Values
    BY <1>3 DEF RecordSet
  <1>5. \A k : Holds(T, k, i) <=> RecOf(T, i).key = k
    BY <1>1 DEF Holds, Matches, Word
  <1> QED
    BY <1>1, <1>2, <1>3, <1>4, <1>5, Zenon

\* A new table is well formed and has no full slot.
LEMMA NewTable ==
  ASSUME NEW n \in Nat, NEW cap \in Nat
  PROVE  /\ IsTable(newF2tab(n, cap))
         /\ Full(newF2tab(n, cap)) = {}
         /\ newF2tab(n, cap).n = n
         /\ n >= 2 => WellFormed(newF2tab(n, cap))
  <1> DEFINE T == newF2tab(n, cap)
  <1>1. /\ T.n = n /\ T.buf = <<>> /\ T.cap = cap /\ T.live = 0 /\ T.used = 0
        /\ DOMAIN T = {"n", "slots", "buf", "cap", "live", "used"}
        /\ T.slots = [i \in 0..(n - 1) |-> Empty]
    BY DEF newF2tab
  <1> HIDE DEF T
  <1>2. T.slots \in [SlotsOf(T) -> WordSet]
    BY <1>1 DEF SlotsOf, WordSet, Empty
  <1>3. T.buf \in Seq(RecordSet)
    BY <1>1
  <1>4. Full(T) = {}
    BY <1>1 DEF Full, SlotsOf, Empty
  <1>5. n >= 2 => WellFormed(T)
    BY <1>1, <1>4 DEF WellFormed, WordsValid, OneSlotPerKey, NoGaps, SlotsOf
  <1> QED
    BY <1>1, <1>2, <1>3, <1>4, <1>5 DEF IsTable, T

\* The fields of a table after appendRecord: a longer arena, the same slots.
LEMMA AppendFields ==
  ASSUME NEW T, IsTable(T), NEW rec \in RecordSet
  PROVE  LET T1 == appendRecord(T, rec)
         IN  /\ IsTable(T1) /\ T1.n = T.n /\ T1.slots = T.slots
             /\ T1.buf = Append(T.buf, rec)
  BY DEF IsTable, appendRecord, SlotsOf

\* The fields of a table after a store into a slot: the arena is the same.
LEMMA StoreFields ==
  ASSUME NEW T, IsTable(T), NEW i \in SlotsOf(T), NEW w \in WordSet
  PROVE  LET T1 == Store(T, i, w)
         IN  /\ IsTable(T1) /\ T1.n = T.n /\ T1.buf = T.buf
             /\ T1.slots = [T.slots EXCEPT ![i] = w]
  BY DEF IsTable, Store, SlotsOf

\* The fields of a table after its counters change: slots and arena stay.
LEMMA CountFields ==
  ASSUME NEW T, IsTable(T), NEW dl \in Int, NEW du \in Int
  PROVE  LET T1 == Count(T, dl, du)
         IN  IsTable(T1) /\ T1.n = T.n /\ T1.buf = T.buf /\ T1.slots = T.slots
  <1> DEFINE T1 == Count(T, dl, du)
  <1>1. DOMAIN T = {"n", "slots", "buf", "cap", "live", "used"} /\ T.live \in Int /\ T.used \in Int
    BY DEF IsTable
  <1>2. DOMAIN T1 = DOMAIN T
    BY DEF Count
  <1>3. T1.n = T.n /\ T1.buf = T.buf /\ T1.slots = T.slots /\ T1.cap = T.cap
    BY <1>1 DEF Count
  <1>4. T1.live = T.live + dl /\ T1.used = T.used + du
    BY <1>1 DEF Count
  <1> HIDE DEF T1
  <1>5. T1.live \in Int /\ T1.used \in Int
    BY <1>1, <1>4
  <1>6. IsTable(T1)
    BY <1>2, <1>3, <1>5 DEF IsTable, SlotsOf
  <1> QED
    BY <1>3, <1>6 DEF T1

\* The word that installs a record is a slot word.
LEMMA WordType ==
  ASSUME NEW k \in Keys, NEW o \in Nat
  PROVE  Word(k, o) \in WordSet /\ Tomb \in WordSet /\ Empty \in WordSet
  BY F2Assumption DEF Word, WordSet, Tomb, Empty

\* Two tables with the same slots and arena hold the same.
LEMMA SameTable ==
  ASSUME NEW T, NEW T1, T1.n = T.n, T1.slots = T.slots, T1.buf = T.buf
  PROVE  /\ SlotsOf(T1) = SlotsOf(T) /\ Full(T1) = Full(T)
         /\ \A i : RecOf(T1, i) = RecOf(T, i)
         /\ \A o : RecordAt(T1, o) = RecordAt(T, o)
         /\ \A k, i : ProbeDist(T1, k, i) = ProbeDist(T, k, i)
         /\ WellFormed(T) => WellFormed(T1)
  <1>1. SlotsOf(T1) = SlotsOf(T)
    BY DEF SlotsOf
  <1>2. Full(T1) = Full(T)
    BY <1>1, Zenon DEF Full
  <1>3. \A o : RecordAt(T1, o) = RecordAt(T, o)
    BY Zenon DEF RecordAt
  <1>4. \A i : RecOf(T1, i) = RecOf(T, i)
    BY <1>3, Zenon DEF RecOf
  <1>5. \A k, i : ProbeDist(T1, k, i) = ProbeDist(T, k, i)
    BY Zenon DEF ProbeDist
  <1>6. WordsValid(T) => WordsValid(T1)
    BY <1>1, <1>4, Zenon DEF WordsValid
  <1>7. OneSlotPerKey(T) => OneSlotPerKey(T1)
    BY <1>2, <1>4, Zenon DEF OneSlotPerKey
  <1>8. NoGaps(T) => NoGaps(T1)
    BY <1>1, <1>2, <1>4, <1>5 DEF NoGaps
  <1> QED
    BY <1>1, <1>2, <1>3, <1>4, <1>5, <1>6, <1>7, <1>8, Zenon DEF WellFormed

\* An append changes nothing that a slot points at.
LEMMA AppendKeeps ==
  ASSUME NEW T, NEW T1, IsTable(T), WellFormed(T), NEW rec \in RecordSet,
         T1.n = T.n, T1.slots = T.slots, T1.buf = Append(T.buf, rec)
  PROVE  /\ WellFormed(T1)
         /\ SlotsOf(T1) = SlotsOf(T) /\ Full(T1) = Full(T)
         /\ \A i \in Full(T) : RecOf(T1, i) = RecOf(T, i)
         /\ \A o \in 1..Len(T.buf) : RecordAt(T1, o) = RecordAt(T, o)
         /\ \A k, i : ProbeDist(T1, k, i) = ProbeDist(T, k, i)
  <1>1. /\ SlotsOf(T1) = SlotsOf(T) /\ Full(T1) = Full(T)
        /\ \A k, i : ProbeDist(T1, k, i) = ProbeDist(T, k, i)
    BY DEF SlotsOf, Full, ProbeDist
  <1>2. /\ Len(T1.buf) = Len(T.buf) + 1 /\ Len(T.buf) \in Nat
        /\ \A o \in 1..Len(T.buf) : T1.buf[o] = T.buf[o]
    BY DEF IsTable
  <1>3. \A o \in 1..Len(T.buf) : RecordAt(T1, o) = RecordAt(T, o)
    BY <1>2 DEF RecordAt
  <1>4. \A i \in SlotsOf(T) : T.slots[i].off \in 1..Len(T.buf) => RecOf(T1, i) = RecOf(T, i)
    BY <1>3 DEF RecOf
  <1>5. \A i \in Full(T) : RecOf(T1, i) = RecOf(T, i)
    BY <1>4, FullFacts
  <1>6. WordsValid(T1)
    BY <1>1, <1>2, <1>4 DEF WellFormed, WordsValid
  <1>7. OneSlotPerKey(T1) /\ NoGaps(T1)
    BY <1>1, <1>5 DEF WellFormed, OneSlotPerKey, NoGaps
  <1> QED
    BY <1>1, <1>3, <1>5, <1>6, <1>7 DEF WellFormed

\* An insert of k may take slot j: the table does not hold k, the slot is not
\* full, and no empty slot comes before it in the probe.
Insertable(T, k, j) ==
  /\ T.slots[j].st # "full"
  /\ \A i \in Full(T) : RecOf(T, i).key # k
  /\ \A m \in SlotsOf(T) : ProbeDist(T, k, m) < ProbeDist(T, k, j) => T.slots[m] # Empty

\* T1 is T with the record of k at offset o installed in slot j.
Installed(T, T1, k, o, j) ==
  /\ k \in Keys /\ o \in 1..Len(T.buf) /\ T.buf[o].key = k
  /\ T1.n = T.n /\ T1.buf = T.buf /\ T1.slots = [T.slots EXCEPT ![j] = Word(k, o)]

\* T1 has the slots, the probe sequences and the records of T.
SameProbes(T, T1) ==
  /\ SlotsOf(T1) = SlotsOf(T)
  /\ \A m : RecordAt(T1, m) = RecordAt(T, m)
  /\ \A q, i : ProbeDist(T1, q, i) = ProbeDist(T, q, i)

\* T1 is T with the record rec in slot j: nothing else it holds has changed.
Took(T, T1, j, rec) ==
  /\ WellFormed(T1) /\ SameProbes(T, T1)
  /\ Full(T1) = Full(T) \cup {j} /\ RecOf(T1, j) = rec
  /\ \A i \in Full(T) : i # j => RecOf(T1, i) = RecOf(T, i)

\* Installing a key the table does not hold.
LEMMA InsertKeeps ==
  ASSUME NEW T, NEW T1, IsTable(T), WellFormed(T), NEW k, NEW o, NEW j \in SlotsOf(T),
         Insertable(T, k, j), Installed(T, T1, k, o, j)
  PROVE  Took(T, T1, j, T.buf[o])
  <1> USE DEF Insertable, Installed
  <1>1. /\ SlotsOf(T1) = SlotsOf(T)
        /\ \A q, i : ProbeDist(T1, q, i) = ProbeDist(T, q, i)
        /\ \A m : RecordAt(T1, m) = RecordAt(T, m)
    BY DEF SlotsOf, ProbeDist, RecordAt
  <1>2. /\ T1.slots[j] = Word(k, o)
        /\ \A i \in SlotsOf(T) : i # j => T1.slots[i] = T.slots[i]
    BY DEF IsTable
  <1>3. Word(k, o).st = "full" /\ Word(k, o).off = o /\ Word(k, o) # Empty
    BY DEF Word, Empty
  <1>4. Full(T1) = Full(T) \cup {j} /\ j \notin Full(T)
    BY <1>1, <1>2, <1>3 DEF Full
  <1>5. RecOf(T1, j) = T.buf[o]
    BY <1>2, <1>3 DEF RecOf, RecordAt
  <1>6. \A i \in SlotsOf(T) : i # j => RecOf(T1, i) = RecOf(T, i)
    BY <1>1, <1>2 DEF RecOf
  <1>7. WordsValid(T1)
    BY <1>1, <1>2, <1>3, <1>5, <1>6 DEF WellFormed, WordsValid
  <1>8. OneSlotPerKey(T1)
    BY <1>4, <1>5, <1>6 DEF WellFormed, OneSlotPerKey, Full
  <1>9. NoGaps(T1)
    <2> SUFFICES ASSUME NEW i \in Full(T1), NEW m \in SlotsOf(T),
                        ProbeDist(T, RecOf(T1, i).key, m) < ProbeDist(T, RecOf(T1, i).key, i)
                 PROVE  T1.slots[m] # Empty
      BY <1>1 DEF NoGaps
    <2>1. T.slots[m] # Empty => T1.slots[m] # Empty
      BY <1>2, <1>3
    <2>2. CASE i = j
      BY <2>1, <2>2, <1>5
    <2>3. CASE i \in Full(T)
      BY <2>1, <2>3, <1>4, <1>6, Zenon DEF WellFormed, NoGaps, Full
    <2> QED
      BY <2>2, <2>3, <1>4
  <1> QED
    BY <1>1, <1>4, <1>5, <1>6, <1>7, <1>8, <1>9, Zenon DEF WellFormed, Full, SameProbes, Took

\* Repointing a key's slot to a newer record of the same key.
LEMMA RepointKeeps ==
  ASSUME NEW T, NEW T1, IsTable(T), WellFormed(T), NEW k, NEW o, NEW j \in Full(T),
         RecOf(T, j).key = k, Installed(T, T1, k, o, j)
  PROVE  Took(T, T1, j, T.buf[o])
  <1> USE DEF Installed
  <1>0. j \in SlotsOf(T)
    BY DEF Full
  <1>1. /\ SlotsOf(T1) = SlotsOf(T)
        /\ \A q, i : ProbeDist(T1, q, i) = ProbeDist(T, q, i)
        /\ \A m : RecordAt(T1, m) = RecordAt(T, m)
    BY DEF SlotsOf, ProbeDist, RecordAt
  <1>2. /\ T1.slots[j] = Word(k, o)
        /\ \A i \in SlotsOf(T) : i # j => T1.slots[i] = T.slots[i]
    BY <1>0 DEF IsTable
  <1>3. Word(k, o).st = "full" /\ Word(k, o).off = o /\ Word(k, o) # Empty
    BY DEF Word, Empty
  <1>4. Full(T1) = Full(T)
    BY <1>1, <1>2, <1>3 DEF Full
  <1>5. RecOf(T1, j) = T.buf[o]
    BY <1>2, <1>3 DEF RecOf, RecordAt
  <1>6. \A i \in SlotsOf(T) : i # j => RecOf(T1, i) = RecOf(T, i)
    BY <1>1, <1>2, Zenon DEF RecOf
  <1>7. WordsValid(T1)
    BY <1>1, <1>2, <1>3, <1>5, <1>6 DEF WellFormed, WordsValid
  <1>8. \A i \in Full(T) : RecOf(T1, i).key = RecOf(T, i).key
    BY <1>5, <1>6 DEF Full
  <1>9. OneSlotPerKey(T1)
    BY <1>4, <1>8 DEF WellFormed, OneSlotPerKey
  <1>10. \A m \in SlotsOf(T) : T.slots[m] # Empty => T1.slots[m] # Empty
    BY <1>2, <1>3
  <1>11. NoGaps(T1)
    BY <1>1, <1>4, <1>8, <1>10 DEF WellFormed, NoGaps
  <1> QED
    BY <1>1, <1>4, <1>5, <1>6, <1>7, <1>9, <1>11 DEF WellFormed, Full, SameProbes, Took

\* A tombstone in place of a full slot.
LEMMA TombKeeps ==
  ASSUME NEW T, NEW T1, IsTable(T), WellFormed(T), NEW j \in Full(T),
         T1.n = T.n, T1.buf = T.buf, T1.slots = [T.slots EXCEPT ![j] = Tomb]
  PROVE  /\ WellFormed(T1) /\ SameProbes(T, T1)
         /\ Full(T1) = Full(T) \ {j}
         /\ \A i \in Full(T1) : RecOf(T1, i) = RecOf(T, i)
  <1>0. j \in SlotsOf(T)
    BY DEF Full
  <1>1. /\ SlotsOf(T1) = SlotsOf(T)
        /\ \A q, i : ProbeDist(T1, q, i) = ProbeDist(T, q, i)
        /\ \A m : RecordAt(T1, m) = RecordAt(T, m)
    BY DEF SlotsOf, ProbeDist, RecordAt
  <1>2. /\ T1.slots[j] = Tomb
        /\ \A i \in SlotsOf(T) : i # j => T1.slots[i] = T.slots[i]
    BY <1>0 DEF IsTable
  <1>3. Tomb.st = "tomb" /\ Tomb # Empty
    BY DEF Tomb, Empty
  <1>4. Full(T1) = Full(T) \ {j}
    BY <1>1, <1>2, <1>3 DEF Full
  <1>6. \A i \in SlotsOf(T) : i # j => RecOf(T1, i) = RecOf(T, i)
    BY <1>1, <1>2, Zenon DEF RecOf
  <1>7. WordsValid(T1)
    BY <1>1, <1>2, <1>6 DEF WellFormed, WordsValid
  <1>8. \A i \in Full(T1) : i \in Full(T) /\ RecOf(T1, i) = RecOf(T, i)
    BY <1>4, <1>6 DEF Full
  <1>9. OneSlotPerKey(T1)
    BY <1>8 DEF WellFormed, OneSlotPerKey
  <1>10. \A m \in SlotsOf(T) : T.slots[m] # Empty => T1.slots[m] # Empty
    BY <1>2, <1>3
  <1>11. NoGaps(T1)
    BY <1>1, <1>8, <1>10 DEF WellFormed, NoGaps
  <1> QED
    BY <1>1, <1>4, <1>8, <1>7, <1>9, <1>11, Zenon DEF WellFormed, SameProbes

\* What a probe of a well-formed table finds out: the slot of the key, or that
\* the table does not hold it and where an insert may put it.
LEMMA ProbeEnds ==
  ASSUME NEW T, IsTable(T), WellFormed(T), NEW k \in Keys, NEW i \in SlotsOf(T),
         EndsProbe(T, k, i)
  PROVE  /\ Holds(T, k, i) => i \in Full(T) /\ RecOf(T, i).key = k
         /\ ~Holds(T, k, i) =>
              /\ T.slots[i] = Empty
              /\ \A j \in Full(T) : RecOf(T, j).key # k
              /\ \A j \in SlotsOf(T) : InsertsAt(T, k, i, j) => Insertable(T, k, j)
  <1>1. Holds(T, k, i) => i \in Full(T) /\ RecOf(T, i).key = k
    BY DEF Holds, Matches, Full
  <1> SUFFICES ASSUME ~Holds(T, k, i)
               PROVE  /\ T.slots[i] = Empty
                      /\ \A j \in Full(T) : RecOf(T, j).key # k
                      /\ \A j \in SlotsOf(T) : InsertsAt(T, k, i, j) => Insertable(T, k, j)
    BY <1>1
  <1>2. T.slots[i] = Empty
    BY Zenon DEF EndsProbe, Stops
  <1>3. \A j \in SlotsOf(T) : ProbeDist(T, k, j) \in Nat
    BY ProbeFacts, Zenon DEF IsTable, WellFormed
  <1>4. ASSUME NEW j \in Full(T), RecOf(T, j).key = k
        PROVE  FALSE
    <2>1. j \in SlotsOf(T) /\ Holds(T, k, j)
      BY <1>4, FullFacts
    <2>2. ProbeDist(T, k, i) <= ProbeDist(T, k, j)
      BY <2>1 DEF EndsProbe, Stops
    <2>3. i # j
      BY <1>2 DEF Full, Empty
    <2>4. ProbeDist(T, k, i) # ProbeDist(T, k, j)
      BY <2>1, <2>3, ProbeFacts, Zenon DEF IsTable, WellFormed
    <2>5. ProbeDist(T, k, i) < ProbeDist(T, k, j)
      BY <2>1, <2>2, <2>4, <1>3
    <2> QED
      BY <1>2, <1>4, <2>5 DEF WellFormed, NoGaps
  <1>5. ASSUME NEW j \in SlotsOf(T), InsertsAt(T, k, i, j)
        PROVE  /\ T.slots[j].st # "full"
               /\ \A m \in SlotsOf(T) :
                    ProbeDist(T, k, m) < ProbeDist(T, k, j) => T.slots[m] # Empty
    <2>1. T.slots[j].st # "full" /\ ProbeDist(T, k, j) <= ProbeDist(T, k, i)
      BY <1>2, <1>3, <1>5 DEF InsertsAt, TombsBefore, Empty, Tomb
    <2>2. ASSUME NEW m \in SlotsOf(T), T.slots[m] = Empty
          PROVE  ProbeDist(T, k, i) <= ProbeDist(T, k, m)
      BY <2>2 DEF EndsProbe, Stops
    <2> QED
      BY <2>1, <2>2, <1>3
  <1> QED
    BY <1>2, <1>4, <1>5 DEF Insertable

\* T1 is T after a write of x to k: nothing else it holds has changed.
Wrote(T, T1, k, x) ==
  /\ IsTable(T1) /\ WellFormed(T1) /\ T1.buf = T.buf /\ SameProbes(T, T1)
  /\ \A i \in Full(T1) : RecOf(T1, i).key = k => RecOf(T1, i).val = x
  /\ \A i \in Full(T1) : RecOf(T1, i).key # k => i \in Full(T) /\ RecOf(T1, i) = RecOf(T, i)
  /\ \A i \in Full(T) : RecOf(T, i).key # k => i \in Full(T1) /\ RecOf(T1, i) = RecOf(T, i)
  /\ x # Absent =>
       /\ \E i \in Full(T1) : RecOf(T1, i).key = k
       /\ \A i \in Full(T) : RecOf(T, i).key = k => i \in Full(T1) /\ RecOf(T1, i).key = k
  /\ x = Absent => \A i \in Full(T1) : RecOf(T1, i).key # k

\* A word with a new offset in the slot of a key the table holds.
LEMMA RepointWrites ==
  ASSUME NEW T, IsTable(T), WellFormed(T), NEW k \in Keys, NEW v \in Values, NEW o \in 1..Len(T.buf),
         T.buf[o] = [key |-> k, val |-> v],
         NEW i \in SlotsOf(T), EndsProbe(T, k, i), Holds(T, k, i)
  PROVE  Wrote(T, Store(T, i, Word(k, o)), k, v)
  <1> DEFINE T1 == Store(T, i, Word(k, o))
  <1>1. o \in Nat /\ v # Absent /\ T.buf[o].key = k /\ T.buf[o].val = v
    BY F2Assumption DEF IsTable
  <1>2. Word(k, o) \in WordSet
    BY <1>1, WordType, Zenon
  <1>3. /\ IsTable(T1) /\ T1.n = T.n /\ T1.buf = T.buf
        /\ T1.slots = [T.slots EXCEPT ![i] = Word(k, o)]
    BY <1>2, StoreFields
  <1> HIDE DEF T1
  <1>4. i \in Full(T) /\ RecOf(T, i).key = k
    BY ProbeEnds, Zenon
  <1>5. Installed(T, T1, k, o, i)
    BY <1>1, <1>3, Zenon DEF Installed
  <1>6. Took(T, T1, i, T.buf[o])
    BY <1>4, <1>5, RepointKeeps, Zenon
  <1>7. \A j \in Full(T) : j # i => RecOf(T, j).key # k
    BY <1>4 DEF WellFormed, OneSlotPerKey
  <1>8. Wrote(T, T1, k, v)
    BY <1>1, <1>3, <1>4, <1>6, <1>7, ZenonT(60) DEF Wrote, Took
  <1> QED
    BY <1>8 DEF T1

\* A word in the slot an insert takes for a key the table does not hold.
LEMMA InsertWrites ==
  ASSUME NEW T, IsTable(T), WellFormed(T), NEW k \in Keys, NEW v \in Values, NEW o \in 1..Len(T.buf),
         T.buf[o] = [key |-> k, val |-> v],
         NEW i \in SlotsOf(T), EndsProbe(T, k, i), ~Holds(T, k, i),
         NEW j \in SlotsOf(T), InsertsAt(T, k, i, j), NEW du \in Int
  PROVE  Wrote(T, Count(Store(T, j, Word(k, o)), 1, du), k, v)
  <1> DEFINE T0 == Store(T, j, Word(k, o))
             T1 == Count(T0, 1, du)
  <1>1. o \in Nat /\ v # Absent /\ T.buf[o].key = k /\ T.buf[o].val = v
    BY F2Assumption DEF IsTable
  <1>2. Word(k, o) \in WordSet
    BY <1>1, WordType
  <1>3. /\ IsTable(T0) /\ T0.n = T.n /\ T0.buf = T.buf
        /\ T0.slots = [T.slots EXCEPT ![j] = Word(k, o)]
    BY <1>2, StoreFields
  <1> HIDE DEF T0
  <1>4. IsTable(T1) /\ T1.n = T0.n /\ T1.buf = T0.buf /\ T1.slots = T0.slots
    BY <1>3, CountFields
  <1> HIDE DEF T1
  <1>5. Insertable(T, k, j) /\ \A m \in Full(T) : RecOf(T, m).key # k
    BY ProbeEnds
  <1>6. Installed(T, T1, k, o, j)
    BY <1>1, <1>3, <1>4, Zenon DEF Installed
  <1>7. Took(T, T1, j, T.buf[o])
    BY <1>5, <1>6, InsertKeeps, Zenon
  <1>8. /\ WellFormed(T1) /\ SameProbes(T, T1) /\ Full(T1) = Full(T) \cup {j}
        /\ RecOf(T1, j).key = k /\ RecOf(T1, j).val = v
    BY <1>1, <1>7, Zenon DEF Took
  <1>9. \A m \in Full(T) : RecOf(T1, m) = RecOf(T, m)
    BY <1>5, <1>7, Zenon DEF Took, Insertable, Full
  <1>10. IsTable(T1) /\ T1.buf = T.buf
    BY <1>3, <1>4, Zenon
  <1>11. Wrote(T, T1, k, v)
    BY <1>1, <1>5, <1>8, <1>9, <1>10, ZenonT(60) DEF Wrote
  <1> QED
    BY <1>11 DEF T1, T0

\* A tombstone in the slot of a key the table holds.
LEMMA TombWrites ==
  ASSUME NEW T, IsTable(T), WellFormed(T), NEW k \in Keys,
         NEW i \in SlotsOf(T), EndsProbe(T, k, i), Holds(T, k, i)
  PROVE  Wrote(T, Count(Store(T, i, Tomb), -1, 0), k, Absent)
  <1> DEFINE T0 == Store(T, i, Tomb)
             T1 == Count(T0, -1, 0)
  <1>1. Tomb \in WordSet
    BY Zenon DEF Tomb, WordSet
  <1>2. IsTable(T0) /\ T0.n = T.n /\ T0.buf = T.buf /\ T0.slots = [T.slots EXCEPT ![i] = Tomb]
    BY <1>1, StoreFields
  <1> HIDE DEF T0
  <1>3. IsTable(T1) /\ T1.n = T0.n /\ T1.buf = T0.buf /\ T1.slots = T0.slots
    BY <1>2, CountFields
  <1> HIDE DEF T1
  <1>4. i \in Full(T) /\ RecOf(T, i).key = k
    BY ProbeEnds, Zenon
  <1>5. /\ WellFormed(T1) /\ SameProbes(T, T1) /\ Full(T1) = Full(T) \ {i}
        /\ \A j \in Full(T1) : RecOf(T1, j) = RecOf(T, j)
    BY <1>2, <1>3, <1>4, TombKeeps
  <1>6. \A j \in Full(T) : j # i => RecOf(T, j).key # k
    BY <1>4, Zenon DEF WellFormed, OneSlotPerKey
  <1>7. Wrote(T, T1, k, Absent)
    BY <1>2, <1>3, <1>4, <1>5, <1>6, Zenon DEF Wrote
  <1> QED
    BY <1>7 DEF T1, T0

-----------------------------------------------------------------------------
(***************************************************************************)
(* The invariant holds at first.                                           *)
(***************************************************************************)

\* What the invariant says about the tables that are in use.
LEMMA InvTables ==
  ASSUME IndInv
  PROVE  /\ cur \in 1..ntab /\ cur \in Nat /\ ntab \in Nat /\ cur <= ntab
         /\ cur \in TabIds /\ ntab \in TabIds
         /\ \A t \in 1..ntab : /\ t \in TabIds
                               /\ IsTable(heap[t]) /\ WellFormed(heap[t])
                               /\ heap[t].n \in Nat /\ heap[t].n >= 2
  <1>1. cur \in TabIds /\ ntab \in TabIds /\ cur <= ntab
    BY F2Assumption DEF IndInv, TypeOK, MutexInv, TabIds
  <1>2. \A t \in 1..ntab : t \in TabIds
    BY <1>1, F2Assumption DEF TabIds
  <1>3. \A t \in 1..ntab : /\ IsTable(heap[t]) /\ WellFormed(heap[t])
                           /\ heap[t].n \in Nat /\ heap[t].n >= 2
    BY <1>2, Zenon DEF IndInv, TypeOK, TablesWellFormed, IsTable, WellFormed
  <1> QED
    BY <1>1, <1>2, <1>3, F2Assumption DEF TabIds

\* The order of table numbers, slots and offsets.
LEMMA Order ==
  ASSUME NEW a \in Nat, NEW b \in Nat, NEW e \in Nat
  PROVE  /\ a <= b /\ b <= e => a <= e
         /\ a < b => ~(b <= a)
         /\ a <= b => a # b + 1
         /\ a <= b => \A i \in 1..a : i \in 1..b
  OBVIOUS

\* The slots of a table are numbered from 0.
LEMMA SlotNumbers ==
  ASSUME NEW T, NEW i \in Full(T)
  PROVE  i \in SlotsOf(T) /\ i \in Nat
  BY DEF Full, SlotsOf

\* What the invariant says about the types of what a step reads.
LEMMA InvTypes ==
  ASSUME IndInv
  PROVE  /\ cur \in TabIds /\ ntab \in TabIds /\ cur \in Nat /\ ntab \in Nat
         /\ DOMAIN heap = TabIds
         /\ \A t \in TabIds : t \in Nat /\ IsTable(heap[t]) /\ Len(heap[t].buf) \in Nat
         /\ \A d \in Clients : /\ tab[d] \in TabIds /\ tab[d] \in Nat
                               /\ pos[d] \in Nat /\ off[d] \in Nat
         /\ DOMAIN pc = Clients /\ DOMAIN key = Clients /\ DOMAIN val = Clients
         /\ DOMAIN tab = Clients /\ DOMAIN pos = Clients /\ DOMAIN off = Clients
  <1>1. \A t \in TabIds : t \in Nat
    BY F2Assumption DEF TabIds
  <1>2. /\ cur \in TabIds /\ ntab \in TabIds /\ DOMAIN heap = TabIds
        /\ \A t \in TabIds : IsTable(heap[t])
        /\ tab \in [Clients -> TabIds] /\ pos \in [Clients -> Nat] /\ off \in [Clients -> Nat]
        /\ DOMAIN pc = Clients /\ DOMAIN key = Clients /\ DOMAIN val = Clients
    BY Zenon DEF IndInv, TypeOK
  <1>3. \A d \in Clients : tab[d] \in TabIds /\ pos[d] \in Nat /\ off[d] \in Nat
    BY <1>2, Zenon
  <1>4. \A t \in TabIds : Len(heap[t].buf) \in Nat
    BY <1>2 DEF IsTable
  <1> QED
    BY <1>1, <1>2, <1>3, <1>4, Zenon

\* The table of a client that is not past the published one.
LEMMA ReaderTable ==
  ASSUME IndInv, NEW c \in Clients, tab[c] <= cur
  PROVE  tab[c] \in 1..ntab
  <1>1. tab[c] \in TabIds
    BY Zenon DEF IndInv, TypeOK
  <1>2. cur \in Nat /\ ntab \in Nat /\ cur <= ntab
    BY InvTables
  <1> QED
    BY <1>1, <1>2, F2Assumption DEF TabIds

\* The shard newF2 makes satisfies the invariant.
LEMMA InitIndInv == Init => IndInv
  <1> SUFFICES ASSUME Init PROVE IndInv
    OBVIOUS
  <1> USE DEF Init
  <1>0. 1 \in TabIds
    BY F2Assumption DEF TabIds
  <1>1. /\ \A t \in TabIds : IsTable(heap[t])
        /\ WellFormed(heap[1]) /\ Full(heap[1]) = {}
    BY <1>0, NewTable, F2Assumption
  <1>2. TypeOK
    BY <1>0, <1>1 DEF TypeOK, Answers, Clients
  <1>3. MutexInv
    BY DEF MutexInv, Locked
  <1>4. TablesWellFormed
    BY <1>1 DEF TablesWellFormed
  <1>5. ReplayInv
    BY DEF ReplayInv
  <1>6. OracleInv
    BY <1>1 DEF OracleInv
  <1>7. ReaderInv
    BY Zenon DEF ReaderInv, ReaderOK, Reading
  <1> QED
    BY <1>2, <1>3, <1>4, <1>5, <1>6, <1>7 DEF IndInv

-----------------------------------------------------------------------------
(***************************************************************************)
(* The steps of Get.                                                       *)
(***************************************************************************)

\* A step of a client that holds no lock, touches no table and keeps to its
\* own locals: all there is to show is that its own read is still sound.
LEMMA ReaderStep ==
  ASSUME IndInv, NEW c \in Clients, TypeOK',
         UNCHANGED <<tables, mu, val, oracle>>,
         ~Locked(c), ~Locked(c)', pc'[c] = "idle" => pos'[c] = 0,
         \A d \in Clients \ {c} :
           /\ pc'[d] = pc[d] /\ key'[d] = key[d] /\ tab'[d] = tab[d] /\ pos'[d] = pos[d]
           /\ off'[d] = off[d] /\ res'[d] = res[d] /\ seen'[d] = seen[d],
         ReaderOK(c)'
  PROVE  IndInv'
  <1> USE DEF tables
  <1>1. MutexInv'
    <2>1. MutexInv /\ UNCHANGED <<cur, ntab, heap, mu, val>>
      BY Zenon DEF IndInv
    <2>2. \A d \in Clients : Locked(d)' <=> Locked(d)
      BY Zenon DEF Locked
    <2>3. /\ \A d \in Clients : Locked(d)' <=> d \in mu'
          /\ \A d, e \in mu' : d = e
      BY <2>1, <2>2, Zenon DEF MutexInv
    <2>4. \A d \in Clients : pc'[d] \in {"replay", "append", "install"} => d # c
      BY DEF Locked
    <2>5. pc[c] # "replay"
      BY DEF Locked
    <2>6. ntab' = cur' \/ (ntab' = cur' + 1 /\ \E d \in Clients : pc'[d] = "replay")
      BY <2>1, <2>5 DEF MutexInv
    <2>7. ASSUME NEW d \in Clients
          PROVE  /\ Locked(d)' => tab'[d] = cur' /\ key'[d] \in Keys /\ val'[d] \in Values
                 /\ pc'[d] = "replay" => ntab' = cur' + 1
                 /\ pc'[d] = "install" =>
                      /\ off'[d] \in 1..Len(heap'[cur'].buf)
                      /\ heap'[cur'].buf[off'[d]] = [key |-> key'[d], val |-> val'[d]]
                 /\ pc'[d] \in {"idle", "append", "install"} => pos'[d] = 0
      <3>1. CASE d = c
        BY <3>1, Zenon DEF Locked
      <3>2. CASE d # c
        BY <2>1, <2>2, <3>2 DEF MutexInv
      <3> QED
        BY <3>1, <3>2, Zenon
    <2> QED
      BY <2>3, <2>6, <2>7, Zenon DEF MutexInv
  <1>2. TablesWellFormed'
    BY DEF IndInv, TablesWellFormed
  <1>3. ReplayInv'
    BY DEF IndInv, ReplayInv, Locked
  <1>4. OracleInv'
    BY Zenon DEF IndInv, OracleInv
  <1>5. ASSUME NEW d \in Clients \ {c}
        PROVE  ReaderOK(d)'
    <2>1. ReaderOK(d)
      BY Zenon DEF IndInv, ReaderInv
    <2> QED
      BY <2>1, ZenonT(60) DEF ReaderOK, Reading
  <1> QED
    BY <1>1, <1>2, <1>3, <1>4, <1>5, Zenon DEF IndInv, ReaderInv

\* A Get that loads the table pointer keeps the invariant.
LEMMA GetStartKeeps ==
  ASSUME IndInv, NEW c \in Clients, NEW k \in Keys, GetStart(c, k)
  PROVE  IndInv'
  <1> DEFINE T == heap[cur]
  <1>1. /\ IsTable(T) /\ WellFormed(T) /\ T.n \in Nat /\ T.n >= 2
    BY InvTables
  <1>2. Home(k, T.n) \in SlotsOf(T) /\ Home(k, T.n) \in Nat /\ ProbeDist(T, k, Home(k, T.n)) = 0
    <2> HIDE DEF T
    <2>1. 0 \in SlotsOf(T) /\ \A i \in SlotsOf(T) : i \in Nat
      BY <1>1 DEF SlotsOf
    <2> QED
      BY <1>1, <2>1, ProbeFacts
  <1>3. TypeOK'
    BY <1>2 DEF IndInv, TypeOK, GetStart, tables
  <1>4. /\ pc'[c] = "probe" /\ key'[c] = k /\ tab'[c] = cur /\ pos'[c] = Home(k, T.n)
        /\ seen'[c] = {oracle[k]} /\ heap' = heap /\ cur' = cur /\ oracle' = oracle
    BY DEF GetStart, IndInv, TypeOK, tables
  <1>5. \A i \in Full(T) : RecOf(T, i).key = k => RecOf(T, i).val \in {oracle[k]}
    BY Zenon DEF IndInv, OracleInv
  <1>6. \/ Absent \in {oracle[k]}
        \/ \E i \in Full(T) : RecOf(T, i).key = k /\ ProbeDist(T, k, Home(k, T.n)) <= ProbeDist(T, k, i)
    <2> SUFFICES ASSUME oracle[k] # Absent
                 PROVE  \E i \in Full(T) : RecOf(T, i).key = k /\ 0 <= ProbeDist(T, k, i)
      BY <1>2
    <2>1. PICK i \in Full(T) : RecOf(T, i).key = k
      BY DEF IndInv, OracleInv
    <2>2. ProbeDist(T, k, i) \in Nat
      BY <1>1, ProbeFacts, ZenonT(60) DEF Full
    <2> QED
      BY <2>1, <2>2
  <1>7. ReaderOK(c)'
    <2>1. cur <= cur
      BY InvTables
    <2> HIDE DEF T
    <2> QED
      BY <1>2, <1>4, <1>5, <1>6, <2>1, Zenon DEF ReaderOK, Reading, T
  <1> QED
    BY <1>3, <1>4, <1>7, ReaderStep, Zenon DEF GetStart, IndInv, TypeOK, Locked, tables

\* A Get that loads a slot word keeps the invariant.
LEMMA GetLoadKeeps ==
  ASSUME IndInv, NEW c \in Clients, GetLoad(c)
  PROVE  IndInv'
  <1> DEFINE T == heap[tab[c]]
             k == key[c]
             p == pos[c]
             w == T.slots[p]
  <1>1. /\ pc[c] = "probe" /\ ReaderOK(c) /\ Reading(c)
    BY Zenon DEF GetLoad, IndInv, ReaderInv, Reading
  <1>2. /\ k \in Keys /\ tab[c] <= cur /\ p \in SlotsOf(T) /\ oracle[k] \in seen[c]
        /\ \A i \in Full(T) : RecOf(T, i).key = k => RecOf(T, i).val \in seen[c]
        /\ \/ Absent \in seen[c]
           \/ \E i \in Full(T) : RecOf(T, i).key = k /\ ProbeDist(T, k, p) <= ProbeDist(T, k, i)
    BY <1>1, Zenon DEF ReaderOK
  <1>3. tab[c] \in 1..ntab
    BY <1>2, ReaderTable, Zenon
  <1>4. IsTable(T) /\ WellFormed(T) /\ T.n \in Nat /\ T.n >= 2
    BY <1>3, InvTables, Zenon
  <1>5. /\ heap' = heap /\ cur' = cur /\ oracle' = oracle /\ seen' = seen
        /\ key' = key /\ tab' = tab /\ mu' = mu /\ val' = val /\ ntab' = ntab
    BY Zenon DEF GetLoad, tables
  <1>6. pc \in [Clients -> {"idle", "probe", "compare", "answer", "replay", "append", "install"}]
        /\ pos \in [Clients -> Nat] /\ off \in [Clients -> Nat] /\ res \in [Clients -> Answers]
    BY Zenon DEF IndInv, TypeOK
  <1>7. \A i \in Full(T) : i \in SlotsOf(T) /\ ProbeDist(T, k, i) \in Nat
    BY <1>2, <1>4, ProbeFacts, Zenon DEF Full
  <1>8. ProbeDist(T, k, p) \in Nat /\ NextSlot(p, T.n) \in SlotsOf(T) /\ NextSlot(p, T.n) \in Nat
    <2>1. NextSlot(p, T.n) \in SlotsOf(T) /\ ProbeDist(T, k, p) \in Nat
      BY <1>2, <1>4, ProbeFacts, Zenon
    <2> QED
      BY <2>1 DEF SlotsOf
  <1>9. \A i \in Full(T) : ProbeDist(T, k, p) <= ProbeDist(T, k, i) /\ i # p =>
          /\ ProbeDist(T, k, p) < ProbeDist(T, k, i)
          /\ ProbeDist(T, k, NextSlot(p, T.n)) <= ProbeDist(T, k, i)
    <2> SUFFICES ASSUME NEW i \in Full(T), ProbeDist(T, k, p) <= ProbeDist(T, k, i), i # p
                 PROVE  /\ ProbeDist(T, k, p) < ProbeDist(T, k, i)
                        /\ ProbeDist(T, k, NextSlot(p, T.n)) <= ProbeDist(T, k, i)
      BY Zenon
    <2>1. ProbeDist(T, k, p) # ProbeDist(T, k, i)
      BY <1>2, <1>4, <1>7, ProbeFacts, Zenon
    <2>2. ProbeDist(T, k, p) < ProbeDist(T, k, i)
      BY <2>1, <1>7, <1>8
    <2> QED
      BY <1>2, <1>4, <1>7, <2>2, ProbeFacts, Zenon
  <1> HIDE DEF T, k, p
  <1>10. CASE w = Empty /\ pc' = [pc EXCEPT ![c] = "answer"] /\ res' = [res EXCEPT ![c] = Absent]
              /\ UNCHANGED <<pos, off>>
    <2>1. Absent \in seen[c]
      <3> SUFFICES ASSUME NEW i \in Full(T), RecOf(T, i).key = k,
                          ProbeDist(T, k, p) <= ProbeDist(T, k, i)
                   PROVE  FALSE
        BY <1>2, Zenon
      <3>1. i # p
        BY <1>10 DEF Full, Empty
      <3>2. ProbeDist(T, k, p) < ProbeDist(T, k, i)
        BY <1>9, <3>1, Zenon
      <3> QED
        BY <1>2, <1>4, <1>10, <3>2, Zenon DEF WellFormed, NoGaps
    <2>2. ReaderOK(c)'
      BY <1>5, <1>6, <1>10, <2>1, Zenon DEF ReaderOK, Reading
    <2>3. TypeOK'
      BY <1>5, <1>6, <1>10, Zenon DEF IndInv, TypeOK, Answers
    <2> QED
      BY <1>1, <1>5, <1>6, <1>10, <2>2, <2>3, ReaderStep, Zenon DEF Locked, tables
  <1>11. CASE Matches(k, w) /\ pc' = [pc EXCEPT ![c] = "compare"] /\ off' = [off EXCEPT ![c] = w.off]
              /\ UNCHANGED <<pos, res>>
    <2>1. p \in Full(T)
      BY <1>2, <1>11, Zenon DEF Matches, Full
    <2>2. w.off \in 1..Len(T.buf) /\ RecordAt(T, w.off) = RecOf(T, p)
      BY <1>4, <2>1, FullFacts, Zenon DEF RecOf
    <2>3. w.off \in Nat
      BY <1>2, <1>4, WordType, Zenon DEF IsTable, WordSet
    <2>4. \/ Absent \in seen[c] \/ RecOf(T, p).key = k
          \/ \E i \in Full(T) : RecOf(T, i).key = k /\ ProbeDist(T, k, p) < ProbeDist(T, k, i)
      BY <1>2, <1>9, Zenon
    <2>5. ReaderOK(c)'
      <3>1. /\ pc'[c] = "compare" /\ off'[c] = w.off /\ pos'[c] = p
            /\ heap'[tab'[c]] = T /\ key'[c] = k
        BY <1>5, <1>6, <1>11, Zenon DEF T, k, p
      <3>2. /\ k \in Keys /\ tab'[c] <= cur' /\ p \in SlotsOf(T) /\ oracle'[k] \in seen'[c]
            /\ \A i \in Full(T) : RecOf(T, i).key = k => RecOf(T, i).val \in seen'[c]
        BY <1>2, <1>5, Zenon
      <3>3. /\ w.off \in 1..Len(T.buf)
            /\ RecordAt(T, w.off).key = k => RecordAt(T, w.off).val \in seen'[c]
        BY <2>1, <2>2, <3>2, Zenon
      <3>4. \/ Absent \in seen'[c] \/ RecordAt(T, w.off).key = k
            \/ \E i \in Full(T) : RecOf(T, i).key = k /\ ProbeDist(T, k, p) < ProbeDist(T, k, i)
        BY <1>5, <2>2, <2>4, Zenon
      <3>5. Reading(c)' /\ pc'[c] # "probe" /\ pc'[c] # "answer"
        BY <3>1, Zenon DEF Reading
      <3> QED
        BY <3>1, <3>2, <3>3, <3>4, <3>5, Zenon DEF ReaderOK
    <2>6. TypeOK'
      BY <1>5, <1>6, <1>11, <2>3, Zenon DEF IndInv, TypeOK
    <2> QED
      BY <1>1, <1>5, <1>6, <1>11, <2>5, <2>6, ReaderStep, Zenon DEF Locked, tables
  <1>12. CASE w # Empty /\ ~Matches(k, w) /\ pos' = [pos EXCEPT ![c] = NextSlot(@, T.n)]
              /\ UNCHANGED <<pc, off, res>>
    <2>1. \/ Absent \in seen[c]
          \/ \E i \in Full(T) : RecOf(T, i).key = k /\ ProbeDist(T, k, NextSlot(p, T.n)) <= ProbeDist(T, k, i)
      <3> SUFFICES ASSUME NEW i \in Full(T), RecOf(T, i).key = k,
                          ProbeDist(T, k, p) <= ProbeDist(T, k, i)
                   PROVE  ProbeDist(T, k, NextSlot(p, T.n)) <= ProbeDist(T, k, i)
        BY <1>2, Zenon
      <3>1. Holds(T, k, i)
        BY <1>4, FullFacts, Zenon
      <3>2. i # p
        BY <3>1, <1>12, Zenon DEF Holds
      <3> QED
        BY <3>2, <1>9
    <2>2. ReaderOK(c)'
      <3>1. /\ pc'[c] = "probe" /\ pos'[c] = NextSlot(p, T.n)
            /\ heap'[tab'[c]] = T /\ key'[c] = k
        BY <1>1, <1>5, <1>6, <1>12, Zenon DEF T, k, p
      <3> QED
        BY <1>2, <1>5, <1>8, <2>1, <3>1, ZenonT(60) DEF ReaderOK, Reading
    <2>3. TypeOK'
      BY <1>5, <1>6, <1>8, <1>12, Zenon DEF IndInv, TypeOK, p
    <2> QED
      BY <1>1, <1>5, <1>6, <1>12, <2>2, <2>3, ReaderStep, Zenon DEF Locked, tables
  <1> QED
    BY <1>10, <1>11, <1>12, Zenon DEF GetLoad, T, k, p

\* A Get that compares the key of a record keeps the invariant.
LEMMA GetCompareKeeps ==
  ASSUME IndInv, NEW c \in Clients, GetCompare(c)
  PROVE  IndInv'
  <1> DEFINE T == heap[tab[c]]
             k == key[c]
             p == pos[c]
             rec == RecordAt(T, off[c])
  <1>1. /\ pc[c] = "compare" /\ ReaderOK(c) /\ Reading(c)
    BY Zenon DEF GetCompare, IndInv, ReaderInv, Reading
  <1>2. /\ k \in Keys /\ tab[c] <= cur /\ p \in SlotsOf(T) /\ oracle[k] \in seen[c]
        /\ \A i \in Full(T) : RecOf(T, i).key = k => RecOf(T, i).val \in seen[c]
        /\ rec.key = k => rec.val \in seen[c]
        /\ \/ Absent \in seen[c]
           \/ rec.key = k
           \/ \E i \in Full(T) : RecOf(T, i).key = k /\ ProbeDist(T, k, p) < ProbeDist(T, k, i)
    BY <1>1, Zenon DEF ReaderOK
  <1>3. tab[c] \in 1..ntab
    BY <1>2, ReaderTable, Zenon
  <1>4. IsTable(T) /\ WellFormed(T) /\ T.n \in Nat /\ T.n >= 2
    BY <1>3, InvTables
  <1>5. /\ heap' = heap /\ cur' = cur /\ oracle' = oracle /\ seen' = seen
        /\ key' = key /\ tab' = tab /\ mu' = mu /\ val' = val /\ ntab' = ntab
        /\ off' = [off EXCEPT ![c] = 0]
    BY Zenon DEF GetCompare, tables
  <1>6. pc \in [Clients -> {"idle", "probe", "compare", "answer", "replay", "append", "install"}]
        /\ pos \in [Clients -> Nat] /\ off \in [Clients -> Nat] /\ res \in [Clients -> Answers]
        /\ seen \in [Clients -> SUBSET Answers]
    BY DEF IndInv, TypeOK
  <1>7. NextSlot(p, T.n) \in SlotsOf(T) /\ NextSlot(p, T.n) \in Nat
    <2>1. NextSlot(p, T.n) \in SlotsOf(T)
      BY <1>2, <1>4, ProbeFacts, Zenon
    <2> QED
      BY <2>1 DEF SlotsOf
  <1> HIDE DEF T, k, p, rec
  <1>8. CASE rec.key = k /\ pc' = [pc EXCEPT ![c] = "answer"]
             /\ res' = [res EXCEPT ![c] = rec.val] /\ UNCHANGED pos
    <2>1. rec.val \in seen[c] /\ rec.val \in Answers
      BY <1>2, <1>6, <1>8, Zenon
    <2>2. ReaderOK(c)'
      BY <1>5, <1>6, <1>8, <2>1, Zenon DEF ReaderOK, Reading
    <2>3. TypeOK'
      BY <1>5, <1>6, <1>8, <2>1, Zenon DEF IndInv, TypeOK
    <2> QED
      BY <1>1, <1>5, <1>6, <1>8, <2>2, <2>3, ReaderStep, Zenon DEF Locked, tables
  <1>9. CASE rec.key # k /\ pc' = [pc EXCEPT ![c] = "probe"]
             /\ pos' = [pos EXCEPT ![c] = NextSlot(@, T.n)] /\ UNCHANGED res
    <2>1. \/ Absent \in seen[c]
          \/ \E i \in Full(T) : RecOf(T, i).key = k /\ ProbeDist(T, k, NextSlot(p, T.n)) <= ProbeDist(T, k, i)
      BY <1>2, <1>4, <1>9, ProbeFacts, Zenon DEF Full
    <2>2. ReaderOK(c)'
      <3>1. /\ pc'[c] = "probe" /\ pos'[c] = NextSlot(p, T.n)
            /\ heap'[tab'[c]] = T /\ key'[c] = k
        BY <1>1, <1>5, <1>6, <1>9, Zenon DEF T, k, p
      <3> QED
        BY <1>2, <1>5, <1>7, <2>1, <3>1, Zenon DEF ReaderOK, Reading
    <2>3. TypeOK'
      BY <1>5, <1>6, <1>7, <1>9, ZenonT(60) DEF IndInv, TypeOK, p
    <2> QED
      BY <1>1, <1>5, <1>6, <1>9, <2>2, <2>3, ReaderStep, Zenon DEF Locked, tables
  <1> QED
    BY <1>8, <1>9, Zenon DEF GetCompare, T, k, p, rec

\* A Get that returns keeps the invariant.
LEMMA GetReturnKeeps ==
  ASSUME IndInv, NEW c \in Clients, GetReturn(c)
  PROVE  IndInv'
  <1>1. TypeOK'
    <2>1. 1 \in TabIds
      BY F2Assumption DEF TabIds
    <2> QED
      BY <2>1 DEF IndInv, TypeOK, GetReturn, tables, Answers
  <1>2. ReaderOK(c)'
    BY Zenon DEF ReaderOK, Reading, GetReturn, IndInv, TypeOK
  <1> QED
    BY <1>1, <1>2, ReaderStep, Zenon DEF GetReturn, IndInv, TypeOK, Locked, tables

-----------------------------------------------------------------------------
(***************************************************************************)
(* The steps of Put and Delete. What a reader relies on survives a change  *)
(* of its table that keeps the records, shows it only values its call may  *)
(* return, and moves its key's slot only if an absence is among these.     *)
(***************************************************************************)
ShownTo(T, T1, q, values) ==
  /\ SlotsOf(T1) = SlotsOf(T)
  /\ \A k, i : ProbeDist(T1, k, i) = ProbeDist(T, k, i)
  /\ Len(T1.buf) \in Nat /\ Len(T.buf) <= Len(T1.buf)
  /\ \A o \in 1..Len(T.buf) : RecordAt(T1, o) = RecordAt(T, o)
  /\ \A i \in Full(T1) : RecOf(T1, i).key = q => RecOf(T1, i).val \in values
  /\ \/ Absent \in values
     \/ \A i \in Full(T) : RecOf(T, i).key = q => i \in Full(T1) /\ RecOf(T1, i).key = q

\* A read in flight keeps its invariant across such a change.
LEMMA ReaderKept ==
  ASSUME IndInv, NEW d \in Clients,
         pc'[d] = pc[d], key'[d] = key[d], tab'[d] = tab[d], pos'[d] = pos[d],
         off'[d] = off[d], res'[d] = res[d], seen[d] \subseteq seen'[d],
         cur' \in Nat, cur <= cur',
         Reading(d) => oracle'[key[d]] \in seen'[d],
         Reading(d) => ShownTo(heap[tab[d]], heap'[tab[d]], key[d], seen'[d])
  PROVE  ReaderOK(d)'
  <1> DEFINE T == heap[tab[d]]
             T1 == heap'[tab[d]]
  <1>0. Reading(d) =>
          /\ SlotsOf(T1) = SlotsOf(T) /\ \A q, i : ProbeDist(T1, q, i) = ProbeDist(T, q, i)
          /\ Len(T1.buf) \in Nat /\ Len(T.buf) <= Len(T1.buf)
          /\ \A o \in 1..Len(T.buf) : RecordAt(T1, o) = RecordAt(T, o)
          /\ \A i \in Full(T1) : RecOf(T1, i).key = key[d] => RecOf(T1, i).val \in seen'[d]
          /\ \/ Absent \in seen'[d]
             \/ \A i \in Full(T) : RecOf(T, i).key = key[d] =>
                  i \in Full(T1) /\ RecOf(T1, i).key = key[d]
    BY Zenon DEF ShownTo
  <1>1. ReaderOK(d)
    BY Zenon DEF IndInv, ReaderInv
  <1>2. CASE ~Reading(d)
    BY <1>1, <1>2, Zenon DEF ReaderOK, Reading
  <1>3. CASE Reading(d)
    <2>1. Reading(d)'
      BY <1>3, ZenonT(60) DEF Reading
    <2>2. /\ key[d] \in Keys /\ tab[d] <= cur' /\ pos[d] \in SlotsOf(T1)
          /\ oracle'[key[d]] \in seen'[d]
          /\ \A i \in Full(T1) : RecOf(T1, i).key = key[d] => RecOf(T1, i).val \in seen'[d]
      <3>1. cur \in Nat /\ tab[d] \in Nat
        BY InvTypes, Zenon
      <3>2. key[d] \in Keys /\ tab[d] <= cur /\ pos[d] \in SlotsOf(T)
        BY <1>1, <1>3, Zenon DEF ReaderOK
      <3>3. tab[d] <= cur'
        BY <3>1, <3>2, Order, Zenon
      <3> QED
        BY <1>0, <1>3, <3>2, <3>3, Zenon
    <2>3. pc[d] = "probe" =>
            \/ Absent \in seen'[d]
            \/ \E i \in Full(T1) : /\ RecOf(T1, i).key = key[d]
                                   /\ ProbeDist(T1, key[d], pos[d]) <= ProbeDist(T1, key[d], i)
      BY <1>0, <1>1, <1>3, Zenon DEF ReaderOK
    <2>4. pc[d] = "compare" =>
            /\ off[d] \in 1..Len(T1.buf)
            /\ RecordAt(T1, off[d]) = RecordAt(T, off[d])
            /\ RecordAt(T1, off[d]).key = key[d] => RecordAt(T1, off[d]).val \in seen'[d]
            /\ \/ Absent \in seen'[d]
               \/ RecordAt(T1, off[d]).key = key[d]
               \/ \E i \in Full(T1) : /\ RecOf(T1, i).key = key[d]
                                      /\ ProbeDist(T1, key[d], pos[d]) < ProbeDist(T1, key[d], i)
      <3> SUFFICES ASSUME pc[d] = "compare"
                   PROVE  /\ off[d] \in 1..Len(T1.buf)
                          /\ RecordAt(T1, off[d]) = RecordAt(T, off[d])
                          /\ RecordAt(T1, off[d]).key = key[d] => RecordAt(T1, off[d]).val \in seen'[d]
                          /\ \/ Absent \in seen'[d]
                             \/ RecordAt(T1, off[d]).key = key[d]
                             \/ \E i \in Full(T1) :
                                  /\ RecOf(T1, i).key = key[d]
                                  /\ ProbeDist(T1, key[d], pos[d]) < ProbeDist(T1, key[d], i)
        BY Zenon
      <3>1. off[d] \in 1..Len(T.buf)
        BY <1>1, Zenon DEF ReaderOK
      <3>2. Len(T.buf) \in Nat
        BY InvTypes, Zenon
      <3>3. /\ Len(T1.buf) \in Nat /\ Len(T.buf) <= Len(T1.buf)
            /\ RecordAt(T1, off[d]) = RecordAt(T, off[d])
        BY <1>0, <1>3, <3>1, Zenon
      <3>4. off[d] \in 1..Len(T1.buf)
        BY <3>1, <3>2, <3>3, Order, Zenon
      <3>5. RecordAt(T, off[d]).key = key[d] => RecordAt(T, off[d]).val \in seen[d]
        BY <1>1, Zenon DEF ReaderOK
      <3>6. \/ Absent \in seen[d] \/ RecordAt(T, off[d]).key = key[d]
            \/ \E i \in Full(T) : /\ RecOf(T, i).key = key[d]
                                  /\ ProbeDist(T, key[d], pos[d]) < ProbeDist(T, key[d], i)
        BY <1>1, Zenon DEF ReaderOK
      <3> QED
        BY <1>0, <1>3, <3>3, <3>4, <3>5, <3>6, Zenon
    <2>5. pc'[d] # "answer"
      BY <1>3, Zenon DEF Reading
    <2> HIDE DEF T, T1
    <2>6. heap'[tab'[d]] = T1
      BY Zenon DEF T1
    <2> QED
      BY <2>1, <2>2, <2>3, <2>4, <2>5, <2>6, Zenon DEF ReaderOK
  <1> QED
    BY <1>2, <1>3, Zenon

\* When the reader's own table is left alone.
LEMMA ReaderUntouched ==
  ASSUME IndInv, NEW d \in Clients,
         pc'[d] = pc[d], key'[d] = key[d], tab'[d] = tab[d], pos'[d] = pos[d],
         off'[d] = off[d], res'[d] = res[d], seen'[d] = seen[d], oracle' = oracle,
         cur' \in Nat, cur <= cur', Reading(d) => heap'[tab[d]] = heap[tab[d]]
  PROVE  ReaderOK(d)'
  <1>1. ReaderOK(d)
    BY Zenon DEF IndInv, ReaderInv
  <1>2. cur \in Nat /\ tab[d] \in Nat
    BY InvTypes, Zenon
  <1>3. tab[d] <= cur => tab[d] <= cur'
    BY <1>2
  <1>4. CASE Reading(d)
    BY <1>1, <1>3, <1>4, Zenon DEF ReaderOK, Reading
  <1>5. CASE ~Reading(d)
    BY <1>1, <1>5, Zenon DEF ReaderOK, Reading
  <1> QED
    BY <1>4, <1>5, Zenon

\* Taking the shard mutex in Put, and starting a grow when the put needs one,
\* keeps the invariant.
LEMMA PutLockKeeps ==
  ASSUME IndInv, NEW c \in Clients, NEW k \in Keys, NEW v \in Values, PutLock(c, k, v)
  PROVE  IndInv'
  <1> DEFINE T == heap[cur]
             N == newF2tab(GrownSize(T), 2 * Len(T.buf) + 1 + Slack)
  <1>1. /\ \A d \in Clients : ~Locked(d)
        /\ ntab = cur /\ pos[c] = 0 /\ pc[c] = "idle"
    BY Zenon DEF PutLock, IndInv, MutexInv, Locked
  <1>2. /\ mu' = {c} /\ key' = [key EXCEPT ![c] = k] /\ val' = [val EXCEPT ![c] = v]
        /\ tab' = [tab EXCEPT ![c] = cur] /\ cur' = cur
        /\ UNCHANGED <<pos, off, res, oracle, seen>>
    BY Zenon DEF PutLock, tables
  <1>3. IsTable(T) /\ T.n \in Nat /\ T.n >= 2 /\ Len(T.buf) \in Nat
    BY InvTables, InvTypes, Zenon
  <1>4. \/ pc' = [pc EXCEPT ![c] = "append"] /\ heap' = heap /\ ntab' = ntab
        \/ /\ pc' = [pc EXCEPT ![c] = "replay"] /\ ntab < MaxTabs /\ ntab' = cur + 1
           /\ heap' = [heap EXCEPT ![cur + 1] = N]
    BY <1>1, Zenon DEF PutLock, tables
  <1>5. /\ IsTable(N) /\ WellFormed(N) /\ Full(N) = {}
    <2>1. GrownSize(T) \in Nat /\ GrownSize(T) >= 2
      BY <1>3 DEF GrownSize
    <2>2. 2 * Len(T.buf) + 1 + Slack \in Nat
      BY <1>3, F2Assumption
    <2> QED
      BY <2>1, <2>2, NewTable, Zenon
  <1> HIDE DEF T, N
  <1>6. /\ cur \in TabIds /\ cur \in Nat /\ ntab' \in TabIds
        /\ DOMAIN heap = TabIds /\ \A t \in TabIds : IsTable(heap[t])
        /\ \A t \in 1..cur : t \in TabIds
        /\ ntab' = cur + 1 => cur + 1 \in TabIds
    <2>1. /\ cur \in TabIds /\ cur \in Nat /\ DOMAIN heap = TabIds
          /\ \A t \in TabIds : IsTable(heap[t])
      BY InvTypes, Zenon
    <2>2. cur + 1 \in TabIds \/ ntab' = cur
      <3>1. ntab' = cur \/ ntab < MaxTabs
        BY <1>1, <1>4, Zenon
      <3> QED
        BY <1>1, <2>1, <3>1, F2Assumption DEF TabIds
    <2>3. ntab' = cur \/ ntab' = cur + 1
      BY <1>1, <1>4, Zenon
    <2>4. cur # cur + 1 /\ \A t \in 1..cur : t \in TabIds
      BY <2>1, F2Assumption DEF TabIds
    <2> QED
      BY <2>1, <2>2, <2>3, <2>4, Zenon
  <1>7. /\ DOMAIN heap' = TabIds /\ \A t \in TabIds : IsTable(heap'[t])
        /\ \A t \in 1..cur : heap'[t] = heap[t]
        /\ ntab' = cur + 1 => heap'[cur + 1] = N
    <2>1. cur # cur + 1 /\ \A t \in 1..cur : t # cur + 1
      BY <1>6
    <2>2. CASE heap' = heap /\ ntab' = ntab
      BY <1>1, <1>6, <2>1, <2>2, Zenon
    <2>3. CASE heap' = [heap EXCEPT ![cur + 1] = N] /\ ntab' = cur + 1
      <3>1. heap'[cur + 1] = N /\ DOMAIN heap' = TabIds
            /\ \A t \in TabIds : t # cur + 1 => heap'[t] = heap[t]
        BY <1>6, <2>3, Zenon
      <3> QED
        BY <1>5, <1>6, <2>1, <3>1, Zenon
    <2> QED
      BY <1>4, <2>2, <2>3, Zenon
  <1>8. pc' \in [Clients -> {"idle", "probe", "compare", "answer", "replay", "append", "install"}]
        /\ \/ pc'[c] = "append" /\ ntab' = cur
           \/ pc'[c] = "replay" /\ ntab' = cur + 1
        /\ \A d \in Clients \ {c} : pc'[d] = pc[d]
    BY <1>1, <1>4, Zenon DEF IndInv, TypeOK
  <1>9. TypeOK'
    BY <1>2, <1>6, <1>7, <1>8, Zenon DEF IndInv, TypeOK, Answers
  <1>10. /\ key'[c] = k /\ val'[c] = v /\ tab'[c] = cur
         /\ \A d \in Clients \ {c} : key'[d] = key[d] /\ tab'[d] = tab[d]
    <2>1. DOMAIN key = Clients /\ DOMAIN val = Clients /\ DOMAIN tab = Clients
      BY InvTypes, Zenon
    <2> QED
      BY <1>2, <2>1, Zenon
  <1>11. MutexInv'
    <2>1. \A d \in Clients : Locked(d)' <=> d = c
      BY <1>1, <1>8, Zenon DEF Locked
    <2>2. ntab' = cur' \/ (ntab' = cur' + 1 /\ pc'[c] = "replay")
      BY <1>2, <1>8
    <2>3. /\ tab'[c] = cur' /\ key'[c] \in Keys /\ val'[c] \in Values /\ pc'[c] # "install"
          /\ pc'[c] = "replay" => ntab' = cur' + 1
          /\ pos'[c] = 0
      BY <1>1, <1>2, <1>8, <1>10, Zenon
    <2>4. \A d \in Clients : pc'[d] \in {"idle", "append", "install"} => pos'[d] = 0
      BY <1>2, <1>8, <2>3, Zenon DEF IndInv, MutexInv
    <2> QED
      BY <1>2, <2>1, <2>2, <2>3, <2>4, Zenon DEF MutexInv, Locked
  <1>12. TablesWellFormed'
    <2>1. \A t \in 1..cur : WellFormed(heap[t])
      BY <1>1, Zenon DEF IndInv, TablesWellFormed
    <2>2. \A t \in 1..ntab' : t \in 1..cur \/ (t = cur + 1 /\ ntab' = cur + 1)
      <3>1. ntab' = cur \/ ntab' = cur + 1
        BY <1>8, Zenon
      <3> QED
        BY <3>1, <1>6
    <2> QED
      BY <1>5, <1>7, <2>1, <2>2, Zenon DEF TablesWellFormed
  <1>13. ReplayInv'
    <2> SUFFICES ASSUME NEW d \in Clients, pc'[d] = "replay"
                 PROVE  /\ \A i \in Full(heap'[cur']) : ~(i < pos'[d])
                        /\ Full(heap'[ntab']) = {}
      BY Zenon DEF ReplayInv
    <2>1. d = c /\ ntab' = cur + 1 /\ pos'[d] = 0
      BY <1>1, <1>2, <1>8, Zenon DEF Locked
    <2>2. \A i \in Full(heap'[cur']) : ~(i < 0)
      BY SlotNumbers
    <2> QED
      BY <2>1, <2>2, <1>5, <1>7, Zenon
  <1>14. OracleInv'
    <2>1. heap'[cur'] = heap[cur]
      <3>1. cur \in 1..cur
        BY <1>6 DEF TabIds
      <3> QED
        BY <1>2, <1>7, <3>1, Zenon
    <2> QED
      BY <1>2, <2>1, Zenon DEF IndInv, OracleInv
  <1>15. ReaderInv'
    <2> SUFFICES ASSUME NEW d \in Clients PROVE ReaderOK(d)'
      BY Zenon DEF ReaderInv
    <2>1. CASE d = c
      BY <2>1, <1>8, Zenon DEF ReaderOK, Reading
    <2>2. CASE d # c
      <3>1. Reading(d) => heap'[tab[d]] = heap[tab[d]]
        <4>1. Reading(d) => tab[d] <= cur
          BY Zenon DEF IndInv, ReaderInv, ReaderOK
        <4>2. tab[d] <= cur => tab[d] \in 1..cur
          <5>1. tab[d] \in TabIds
            BY InvTypes, Zenon
          <5> QED
            BY <5>1, <1>6, F2Assumption DEF TabIds
        <4> QED
          BY <4>1, <4>2, <1>7, Zenon
      <3>2. cur' \in Nat /\ cur <= cur'
        BY <1>2, <1>6
      <3>3. /\ pc'[d] = pc[d] /\ key'[d] = key[d] /\ tab'[d] = tab[d] /\ pos'[d] = pos[d]
            /\ off'[d] = off[d] /\ res'[d] = res[d] /\ seen'[d] = seen[d] /\ oracle' = oracle
        BY <1>2, <1>8, <1>10, <2>2, Zenon
      <3> QED
        BY <3>1, <3>2, <3>3, ReaderUntouched, Zenon
    <2> QED
      BY <2>1, <2>2
  <1> QED
    BY <1>9, <1>11, <1>12, <1>13, <1>14, <1>15 DEF IndInv

\* One slot copied by grow into the private table keeps the invariant.
LEMMA ReplayKeeps ==
  ASSUME IndInv, NEW c \in Clients, Replay(c)
  PROVE  IndInv'
  <1> DEFINE old == heap[cur]
             T == heap[ntab]
  <1>1. pc[c] = "replay" /\ tab[c] = cur /\ ntab = cur + 1 /\ c \in mu
        /\ \A d \in Clients : Locked(d) => d = c
    BY ZenonT(60) DEF Replay, IndInv, MutexInv, Locked
  <1>2. UNCHANGED <<cur, ntab, mu, pc, key, val, tab, off, res, oracle, seen>>
    BY Zenon DEF Replay
  <1>3. PICK o \in Full(old), i \in SlotsOf(T) :
          /\ pos[c] <= o /\ \A m \in Full(old) : pos[c] <= m => o <= m
          /\ FirstEmpty(T, RecOf(old, o).key, i)
          /\ pos' = [pos EXCEPT ![c] = o + 1]
          /\ heap' = [heap EXCEPT ![ntab] =
                        Count(Store(appendRecord(T, RecOf(old, o)), i,
                                    Word(RecOf(old, o).key, Len(T.buf) + 1)), 1, 1)]
    <2>1. pos[c] \in Nat /\ \A m \in Full(old) : m \in Nat
      BY InvTypes, SlotNumbers, Zenon
    <2>2. PICK o \in ToReplay(c), i \in SlotsOf(T) :
            /\ \A m \in ToReplay(c) : o <= m
            /\ FirstEmpty(T, RecOf(heap[tab[c]], o).key, i)
            /\ pos' = [pos EXCEPT ![c] = o + 1]
            /\ heap' = [heap EXCEPT ![ntab] =
                          Count(Store(appendRecord(T, RecOf(heap[tab[c]], o)), i,
                                      Word(RecOf(heap[tab[c]], o).key, Len(T.buf) + 1)), 1, 1)]
      BY Zenon DEF Replay
    <2>3. o \in Full(old) /\ pos[c] <= o /\ \A m \in Full(old) : pos[c] <= m => o <= m
      BY <1>1, <2>1, <2>2, Zenon DEF ToReplay
    <2> QED
      BY <1>1, <2>2, <2>3, Zenon
  <1> DEFINE rec == RecOf(old, o)
             len == Len(T.buf)
             T1 == appendRecord(T, rec)
             T2 == Store(T1, i, Word(rec.key, len + 1))
             T3 == Count(T2, 1, 1)
  <1>4. /\ cur \in TabIds /\ ntab \in TabIds /\ cur \in 1..ntab /\ ntab \in 1..ntab /\ cur # ntab
        /\ IsTable(old) /\ WellFormed(old) /\ IsTable(T) /\ WellFormed(T)
        /\ cur \in Nat /\ ntab \in Nat
    <2>1. /\ cur \in TabIds /\ ntab \in TabIds /\ cur \in 1..ntab
          /\ cur \in Nat /\ ntab \in Nat
      BY InvTables, Zenon
    <2>2. cur # ntab /\ ntab \in 1..ntab
      BY <1>1, <2>1
    <2> QED
      BY <2>1, <2>2, InvTables, Zenon
  <1>5. rec \in RecordSet /\ rec.key \in Keys /\ o \in Nat
    BY <1>4, FullFacts, SlotNumbers, Zenon
  <1>6. len \in Nat
    BY <1>4, InvTypes, Zenon
  <1> HIDE DEF old, T, rec
  <1>7. IsTable(T1) /\ T1.n = T.n /\ T1.slots = T.slots /\ T1.buf = Append(T.buf, rec)
    BY <1>4, <1>5, AppendFields
  <1> HIDE DEF T1
  <1>8. Len(T1.buf) = len + 1 /\ T1.buf[len + 1] = rec
    BY <1>4, <1>5, <1>6, <1>7 DEF IsTable
  <1>9. /\ WellFormed(T1) /\ SlotsOf(T1) = SlotsOf(T) /\ Full(T1) = Full(T)
        /\ \A j \in Full(T) : RecOf(T1, j) = RecOf(T, j)
        /\ \A q, j : ProbeDist(T1, q, j) = ProbeDist(T, q, j)
    BY <1>4, <1>5, <1>7, AppendKeeps
  <1>10. Word(rec.key, len + 1) \in WordSet
    BY <1>5, <1>6, WordType
  <1> HIDE DEF len
  <1>11. /\ IsTable(T2) /\ T2.n = T1.n /\ T2.buf = T1.buf
         /\ T2.slots = [T1.slots EXCEPT ![i] = Word(rec.key, len + 1)]
    <2>1. i \in SlotsOf(T1)
      BY <1>9
    <2> QED
      BY <1>7, <1>10, <2>1, StoreFields
  <1> HIDE DEF T2
  <1>12. IsTable(T3) /\ T3.n = T2.n /\ T3.buf = T2.buf /\ T3.slots = T2.slots
    BY <1>11, CountFields
  <1> HIDE DEF T3
  <1>13. /\ \A j \in Full(old) : j < pos[c] => \E m \in Full(T) : RecOf(T, m) = RecOf(old, j)
         /\ \A m \in Full(T) : \E j \in Full(old) : j < pos[c] /\ RecOf(T, m) = RecOf(old, j)
    BY <1>1, Zenon DEF IndInv, ReplayInv, old, T
  <1>14. pos[c] \in Nat /\ \A m \in Full(old) : m \in Nat
    BY InvTypes, SlotNumbers, Zenon
  <1>15. \A j \in Full(T1) : RecOf(T1, j).key # rec.key
    <2> SUFFICES ASSUME NEW j \in Full(T), RecOf(T, j).key = rec.key PROVE FALSE
      BY <1>9, Zenon
    <2>1. PICK m \in Full(old) : m < pos[c] /\ RecOf(T, j) = RecOf(old, m)
      BY <1>13, Zenon
    <2>2. m = o
      BY <2>1, <1>4, Zenon DEF WellFormed, OneSlotPerKey, rec
    <2> QED
      BY <2>1, <2>2, <1>3, <1>14, Order, Zenon
  <1>16. /\ T1.slots[i].st # "full" /\ i \in SlotsOf(T1)
         /\ \A m \in SlotsOf(T1) :
              ProbeDist(T1, rec.key, m) < ProbeDist(T1, rec.key, i) => T1.slots[m] # Empty
    <2>1. T.slots[i] = Empty /\ FirstEmpty(T, rec.key, i)
      BY <1>3, Zenon DEF FirstEmpty, rec
    <2>2. \A m \in SlotsOf(T) : ProbeDist(T, rec.key, m) \in Nat
      BY <1>4, <1>5, ProbeFacts, Zenon DEF IsTable, WellFormed
    <2>3. ASSUME NEW m \in SlotsOf(T), T.slots[m] = Empty
          PROVE  ~(ProbeDist(T, rec.key, m) < ProbeDist(T, rec.key, i))
      BY <2>1, <2>2, <2>3 DEF FirstEmpty
    <2>4. Empty.st # "full"
      BY DEF Empty
    <2> QED
      BY <1>7, <1>9, <2>1, <2>3, <2>4, Zenon
  <1>17. /\ WellFormed(T3) /\ Full(T3) = Full(T) \cup {i} /\ RecOf(T3, i) = rec
         /\ \A j \in Full(T) : RecOf(T3, j) = RecOf(T, j)
    <2>1. Insertable(T1, rec.key, i)
      BY <1>15, <1>16, Zenon DEF Insertable
    <2>2. Installed(T1, T3, rec.key, len + 1, i)
      BY <1>5, <1>6, <1>8, <1>11, <1>12 DEF Installed, len
    <2>3. /\ WellFormed(T3) /\ Full(T3) = Full(T1) \cup {i} /\ RecOf(T3, i) = T1.buf[len + 1]
          /\ \A j \in Full(T1) : RecOf(T3, j) = RecOf(T1, j)
      <3>1. IsTable(T1) /\ WellFormed(T1) /\ i \in SlotsOf(T1)
        BY <1>7, <1>9, <1>16, Zenon
      <3>2. Took(T1, T3, i, T1.buf[len + 1])
        BY <2>1, <2>2, <3>1, InsertKeeps, Zenon
      <3> QED
        BY <2>1, <3>2, Zenon DEF Took, Insertable, Full
    <2> QED
      BY <2>3, <1>8, <1>9, Zenon
  <1>18. heap' = [heap EXCEPT ![ntab] = T3]
    BY <1>3 DEF T3, T2, T1, rec, len
  <1>19. /\ heap'[ntab] = T3 /\ DOMAIN heap' = TabIds
         /\ \A t \in TabIds : t # ntab => heap'[t] = heap[t]
    BY <1>4, <1>18, InvTypes, Zenon
  <1>20. pos'[c] = o + 1 /\ pos' \in [Clients -> Nat] /\ \A d \in Clients \ {c} : pos'[d] = pos[d]
    <2>1. o + 1 \in Nat
      BY <1>5
    <2> QED
      BY <1>3, <2>1, Zenon DEF IndInv, TypeOK
  <1>21. TypeOK'
    BY <1>2, <1>12, <1>19, <1>20, Zenon DEF IndInv, TypeOK
  <1>22. MutexInv'
    <2>1. heap'[cur] = heap[cur]
      BY <1>4, <1>19, Zenon
    <2> QED
      BY <1>1, <1>2, <1>20, <2>1, Zenon DEF IndInv, MutexInv, Locked
  <1>23. TablesWellFormed'
    BY <1>2, <1>17, <1>19, InvTables, Zenon DEF TablesWellFormed
  <1>24. ReplayInv'
    <2> SUFFICES ASSUME NEW d \in Clients, pc'[d] = "replay"
                 PROVE  /\ \A j \in Full(old) : j < pos'[d] => \E m \in Full(T3) : RecOf(T3, m) = RecOf(old, j)
                        /\ \A m \in Full(T3) : \E j \in Full(old) : j < pos'[d] /\ RecOf(T3, m) = RecOf(old, j)
      <3>1. heap'[cur'] = old /\ heap'[ntab'] = T3
        BY <1>2, <1>4, <1>19, Zenon DEF old
      <3> QED
        BY <3>1, Zenon DEF ReplayInv
    <2>1. d = c /\ pos'[d] = o + 1
      BY <1>1, <1>2, <1>20, Zenon DEF Locked
    <2>2. ASSUME NEW j \in Full(old), j < o + 1
          PROVE  \E m \in Full(T3) : RecOf(T3, m) = RecOf(old, j)
      <3>1. CASE j < pos[c]
        BY <3>1, <1>13, <1>17
      <3>2. CASE ~(j < pos[c])
        <4>1. j = o
          BY <1>3, <1>5, <1>14, <2>2, <3>2
        <4> QED
          BY <4>1, <1>17 DEF rec
      <3> QED
        BY <3>1, <3>2, Zenon
    <2>3. ASSUME NEW m \in Full(T3)
          PROVE  \E j \in Full(old) : j < o + 1 /\ RecOf(T3, m) = RecOf(old, j)
      <3>1. CASE m = i
        BY <3>1, <1>5, <1>17 DEF rec
      <3>2. CASE m \in Full(T)
        <4>1. PICK j \in Full(old) : j < pos[c] /\ RecOf(T, m) = RecOf(old, j)
          BY <3>2, <1>13, Zenon
        <4>2. j < o + 1
          BY <4>1, <1>3, <1>5, <1>14
        <4> QED
          BY <3>2, <4>1, <4>2, <1>17, ZenonT(60)
      <3> QED
        BY <3>1, <3>2, <1>17
    <2> QED
      BY <2>1, <2>2, <2>3, Zenon
  <1>25. OracleInv'
    <2>1. heap'[cur'] = heap[cur]
      BY <1>2, <1>4, <1>19, Zenon
    <2> QED
      BY <1>2, <2>1, Zenon DEF IndInv, OracleInv
  <1>26. ReaderInv'
    <2> SUFFICES ASSUME NEW d \in Clients PROVE ReaderOK(d)'
      BY Zenon DEF ReaderInv
    <2>1. CASE d = c
      BY <2>1, <1>1, <1>2, Zenon DEF ReaderOK, Reading
    <2>2. CASE d # c
      <3>1. Reading(d) => heap'[tab[d]] = heap[tab[d]]
        <4>1. Reading(d) => tab[d] <= cur
          BY Zenon DEF IndInv, ReaderInv, ReaderOK
        <4>2. tab[d] \in TabIds /\ tab[d] \in Nat
          BY InvTypes, Zenon
        <4>3. tab[d] <= cur => tab[d] # ntab
          BY <4>2, <1>1, <1>4, Order, Zenon
        <4> QED
          BY <4>1, <4>2, <4>3, <1>19, Zenon
      <3>2. cur' \in Nat /\ cur <= cur'
        BY <1>2, <1>4
      <3>3. /\ pc'[d] = pc[d] /\ key'[d] = key[d] /\ tab'[d] = tab[d] /\ pos'[d] = pos[d]
            /\ off'[d] = off[d] /\ res'[d] = res[d] /\ seen'[d] = seen[d] /\ oracle' = oracle
        BY <1>2, <1>20, <2>2, Zenon
      <3> QED
        BY <3>1, <3>2, <3>3, ReaderUntouched, Zenon
    <2> QED
      BY <2>1, <2>2
  <1> QED
    BY <1>21, <1>22, <1>23, <1>24, <1>25, <1>26, Zenon DEF IndInv

\* The atomic store that publishes a grown table keeps the invariant.
LEMMA PublishKeeps ==
  ASSUME IndInv, NEW c \in Clients, Publish(c)
  PROVE  IndInv'
  <1> DEFINE old == heap[cur]
             T == heap[ntab]
  <1>1. /\ pc[c] = "replay" /\ tab[c] = cur /\ ntab = cur + 1 /\ c \in mu
        /\ key[c] \in Keys /\ val[c] \in Values
        /\ \A d \in Clients : Locked(d) => d = c
    BY Zenon DEF Publish, IndInv, MutexInv, Locked
  <1>2. /\ cur' = ntab /\ UNCHANGED <<ntab, heap, mu, key, val, off, res, oracle, seen>>
        /\ tab' = [tab EXCEPT ![c] = ntab] /\ pos' = [pos EXCEPT ![c] = 0]
        /\ pc' = [pc EXCEPT ![c] = "append"] /\ ToReplay(c) = {}
    BY Zenon DEF Publish
  <1>3. /\ cur \in Nat /\ ntab \in Nat /\ cur <= ntab /\ ntab \in TabIds
        /\ IsTable(old) /\ WellFormed(old)
    BY <1>1, InvTables, Zenon
  <1>4. TypeOK'
    BY <1>2, <1>3, Zenon DEF IndInv, TypeOK
  <1>5. /\ pc'[c] = "append" /\ pos'[c] = 0 /\ tab'[c] = ntab
        /\ \A d \in Clients \ {c} : pc'[d] = pc[d] /\ pos'[d] = pos[d] /\ tab'[d] = tab[d]
    BY <1>2, InvTypes, Zenon
  <1>6. MutexInv'
    <2>1. \A d \in Clients : Locked(d)' <=> Locked(d)
      BY <1>1, <1>5, Zenon DEF Locked
    <2>2. \A d \in Clients : pc'[d] \in {"idle", "append", "install"} => pos'[d] = 0
      BY <1>5, Zenon DEF IndInv, MutexInv
    <2>3. \A d \in Clients : Locked(d)' => d = c
      BY <1>1, <2>1, Zenon
    <2>4. \A d \in Clients : Locked(d)' <=> d \in mu'
      BY <1>2, <2>1, Zenon DEF IndInv, MutexInv
    <2>5. \A d, e \in mu' : d = e
      BY <1>2, Zenon DEF IndInv, MutexInv
    <2>6. ntab' = cur' /\ tab'[c] = cur' /\ key'[c] \in Keys /\ val'[c] \in Values
      BY <1>1, <1>2, <1>5, Zenon
    <2>7. pc'[c] = "append"
      BY <1>5, Zenon
    <2> QED
      BY <2>2, <2>3, <2>4, <2>5, <2>6, <2>7, Zenon DEF MutexInv, Locked
  <1>7. TablesWellFormed'
    BY <1>2, Zenon DEF IndInv, TablesWellFormed
  <1>8. ReplayInv'
    BY <1>1, <1>5, Zenon DEF ReplayInv, Locked
  <1>9. OracleInv'
    <2>1. /\ \A i \in Full(old) : \E j \in Full(T) : RecOf(T, j) = RecOf(old, i)
          /\ \A j \in Full(T) : \E i \in Full(old) : RecOf(T, j) = RecOf(old, i)
      <3>1. \A i \in Full(old) : i < pos[c]
        <4>1. \A i \in Full(old) : ~(i >= pos[c])
          BY <1>1, <1>2, Zenon DEF ToReplay
        <4>2. pos[c] \in Nat /\ \A i \in Full(old) : i \in Nat
          BY InvTypes, SlotNumbers, Zenon
        <4> QED
          BY <4>1, <4>2
      <3>2. /\ \A i \in Full(old) : i < pos[c] => \E j \in Full(T) : RecOf(T, j) = RecOf(old, i)
            /\ \A j \in Full(T) : \E i \in Full(old) : i < pos[c] /\ RecOf(T, j) = RecOf(old, i)
        BY <1>1, Zenon DEF IndInv, ReplayInv
      <3> HIDE DEF old, T
      <3> QED
        BY <3>1, <3>2, Zenon
    <2>2. /\ \A i \in Full(old) : oracle[RecOf(old, i).key] = RecOf(old, i).val
          /\ \A k \in Keys : oracle[k] # Absent => \E i \in Full(old) : RecOf(old, i).key = k
      BY Zenon DEF IndInv, OracleInv
    <2>3. heap'[cur'] = T /\ oracle' = oracle
      BY <1>2
    <2> HIDE DEF T, old
    <2>4. \A j \in Full(T) : oracle[RecOf(T, j).key] = RecOf(T, j).val
      <3> TAKE j \in Full(T)
      <3>1. PICK i \in Full(old) : RecOf(T, j) = RecOf(old, i)
        BY <2>1, Zenon
      <3> QED
        BY <2>2, <3>1, Zenon
    <2>5. \A k \in Keys : oracle[k] # Absent => \E j \in Full(T) : RecOf(T, j).key = k
      <3> SUFFICES ASSUME NEW k \in Keys, oracle[k] # Absent
                   PROVE  \E j \in Full(T) : RecOf(T, j).key = k
        BY Zenon
      <3>1. PICK i \in Full(old) : RecOf(old, i).key = k
        BY <2>2, Zenon
      <3>2. PICK j \in Full(T) : RecOf(T, j) = RecOf(old, i)
        BY <2>1, Zenon
      <3> QED
        BY <3>1, <3>2, Zenon
    <2> QED
      BY <2>3, <2>4, <2>5, Zenon DEF OracleInv
  <1>10. ReaderInv'
    <2> SUFFICES ASSUME NEW d \in Clients PROVE ReaderOK(d)'
      BY Zenon DEF ReaderInv
    <2>1. CASE d = c
      BY <2>1, <1>5, ZenonT(60) DEF ReaderOK, Reading
    <2>2. CASE d # c
      BY <2>2, <1>2, <1>3, <1>5, ReaderUntouched, Zenon
    <2> QED
      BY <2>1, <2>2
  <1> QED
    BY <1>4, <1>6, <1>7, <1>8, <1>9, <1>10, Zenon DEF IndInv

\* The append of a record that no slot points at yet keeps the invariant.
LEMMA PutAppendKeeps ==
  ASSUME IndInv, NEW c \in Clients, PutAppend(c)
  PROVE  IndInv'
  <1> DEFINE T == heap[cur]
             rec == [key |-> key[c], val |-> val[c]]
             T1 == appendRecord(T, rec)
  <1>1. /\ pc[c] = "append" /\ tab[c] = cur /\ c \in mu /\ pos[c] = 0
        /\ key[c] \in Keys /\ val[c] \in Values /\ ntab = cur
        /\ \A d \in Clients : Locked(d) => d = c
    BY Zenon DEF PutAppend, IndInv, MutexInv, Locked
  <1>2. /\ UNCHANGED <<cur, ntab, mu, key, val, tab, pos, res, oracle, seen>>
        /\ pc' = [pc EXCEPT ![c] = "install"] /\ off' = [off EXCEPT ![c] = Len(T.buf) + 1]
        /\ heap' = [heap EXCEPT ![cur] = T1]
    BY <1>1, Zenon DEF PutAppend
  <1>3. /\ cur \in TabIds /\ cur \in Nat /\ IsTable(T) /\ WellFormed(T) /\ Len(T.buf) \in Nat
    BY InvTables, InvTypes, Zenon
  <1>4. rec \in RecordSet
    BY <1>1, Zenon DEF RecordSet
  <1> HIDE DEF T, rec
  <1>5. IsTable(T1) /\ T1.n = T.n /\ T1.slots = T.slots /\ T1.buf = Append(T.buf, rec)
    BY <1>3, <1>4, AppendFields
  <1> HIDE DEF T1
  <1>6. Len(T1.buf) = Len(T.buf) + 1 /\ T1.buf[Len(T.buf) + 1] = rec
    BY <1>3, <1>4, <1>5 DEF IsTable
  <1>7. /\ WellFormed(T1) /\ SlotsOf(T1) = SlotsOf(T) /\ Full(T1) = Full(T)
        /\ \A i \in Full(T) : RecOf(T1, i) = RecOf(T, i)
        /\ \A o \in 1..Len(T.buf) : RecordAt(T1, o) = RecordAt(T, o)
        /\ \A q, j : ProbeDist(T1, q, j) = ProbeDist(T, q, j)
    BY <1>3, <1>4, <1>5, AppendKeeps
  <1>8. /\ heap'[cur] = T1 /\ DOMAIN heap' = TabIds
        /\ \A t \in TabIds : t # cur => heap'[t] = heap[t]
    BY <1>2, <1>3, Zenon DEF IndInv, TypeOK
  <1>9. /\ pc'[c] = "install" /\ off'[c] = Len(T.buf) + 1
        /\ \A d \in Clients \ {c} : pc'[d] = pc[d] /\ off'[d] = off[d]
    BY <1>2, InvTypes, Zenon
  <1>10. TypeOK'
    <2>1. off' \in [Clients -> Nat]
      <3>1. Len(T.buf) + 1 \in Nat
        BY <1>3
      <3> QED
        BY <1>2, <3>1, Zenon DEF IndInv, TypeOK
    <2>2. \A t \in TabIds : IsTable(heap'[t])
      BY <1>5, <1>8, InvTypes, Zenon
    <2>3. pc' \in [Clients -> {"idle", "probe", "compare", "answer", "replay", "append", "install"}]
      BY <1>2, Zenon DEF IndInv, TypeOK
    <2> QED
      BY <1>2, <1>8, <2>1, <2>2, <2>3, Zenon DEF IndInv, TypeOK
  <1>11. MutexInv'
    <2>1. /\ off'[c] \in 1..Len(heap'[cur'].buf)
          /\ heap'[cur'].buf[off'[c]] = [key |-> key'[c], val |-> val'[c]]
      <3>1. Len(T.buf) + 1 \in 1..Len(T.buf) + 1
        BY <1>3
      <3>2. heap'[cur'] = T1 /\ rec = [key |-> key'[c], val |-> val'[c]]
        BY <1>2, <1>8, Zenon DEF rec
      <3> QED
        BY <1>6, <1>9, <3>1, <3>2, Zenon
    <2>2. \A d \in Clients : (Locked(d)' <=> d \in mu') /\ (d # c => ~Locked(d)')
      <3>1. \A d \in Clients : Locked(d) <=> d \in mu
        BY Zenon DEF IndInv, MutexInv
      <3>2. \A d \in Clients \ {c} : Locked(d)' <=> Locked(d)
        BY <1>9, Zenon DEF Locked
      <3>3. Locked(c)' /\ c \in mu'
        BY <1>1, <1>2, <1>9, Zenon DEF Locked
      <3> QED
        BY <1>1, <1>2, <3>1, <3>2, <3>3, Zenon
    <2>3. (\A d, e \in mu' : d = e) /\ ntab' = cur'
      BY <1>1, <1>2, Zenon DEF IndInv, MutexInv
    <2>4. tab'[c] = cur' /\ key'[c] \in Keys /\ val'[c] \in Values /\ pc'[c] = "install"
      BY <1>1, <1>2, <1>9, Zenon
    <2>5. \A d \in Clients : pc'[d] \in {"idle", "append", "install"} => pos'[d] = 0
      BY <1>1, <1>2, <1>9, Zenon DEF IndInv, MutexInv
    <2> QED
      BY <2>1, <2>2, <2>3, <2>4, <2>5, Zenon DEF MutexInv, Locked
  <1>12. TablesWellFormed'
    BY <1>2, <1>7, <1>8, InvTables, Zenon DEF TablesWellFormed
  <1>13. ReplayInv'
    BY <1>1, <1>9, Zenon DEF ReplayInv, Locked
  <1>14. OracleInv'
    <2>1. heap'[cur'] = T1 /\ oracle' = oracle
      BY <1>2, <1>8
    <2>2. /\ \A i \in Full(T) : oracle[RecOf(T, i).key] = RecOf(T, i).val
          /\ \A k \in Keys : oracle[k] # Absent => \E i \in Full(T) : RecOf(T, i).key = k
      BY DEF IndInv, OracleInv, T
    <2> QED
      BY <1>7, <2>1, <2>2, Zenon DEF OracleInv
  <1>15. ReaderInv'
    <2> SUFFICES ASSUME NEW d \in Clients PROVE ReaderOK(d)'
      BY DEF ReaderInv
    <2>1. CASE d = c
      BY <2>1, <1>9, Zenon DEF ReaderOK, Reading
    <2>2. CASE d # c /\ tab[d] # cur
      <3>1. heap'[tab[d]] = heap[tab[d]]
        BY <1>8, <2>2, Zenon DEF IndInv, TypeOK
      <3>2. cur' \in Nat /\ cur <= cur'
        BY <1>2, <1>3
      <3>3. /\ pc'[d] = pc[d] /\ key'[d] = key[d] /\ tab'[d] = tab[d] /\ pos'[d] = pos[d]
            /\ off'[d] = off[d] /\ res'[d] = res[d] /\ seen'[d] = seen[d] /\ oracle' = oracle
        BY <1>2, <1>9, <2>2, Zenon
      <3> QED
        BY <3>1, <3>2, <3>3, ReaderUntouched, Zenon
    <2>3. CASE d # c /\ tab[d] = cur
      <3>1. heap[tab[d]] = T /\ heap'[tab[d]] = T1
        BY <1>8, <2>3, ZenonT(60) DEF T
      <3>2. Reading(d) => /\ oracle'[key[d]] \in seen'[d]
                          /\ \A i \in Full(T) : RecOf(T, i).key = key[d] => RecOf(T, i).val \in seen'[d]
        BY <1>2, <3>1, Zenon DEF IndInv, ReaderInv, ReaderOK
      <3>3. Len(T1.buf) \in Nat /\ Len(T.buf) <= Len(T1.buf)
        BY <1>3, <1>6
      <3>4. Reading(d) => ShownTo(T, T1, key[d], seen'[d])
        BY <3>2, <3>3, <1>7, Zenon DEF ShownTo
      <3>5. cur' \in Nat /\ cur <= cur'
        BY <1>2, <1>3
      <3>6. /\ pc'[d] = pc[d] /\ key'[d] = key[d] /\ tab'[d] = tab[d] /\ pos'[d] = pos[d]
            /\ off'[d] = off[d] /\ res'[d] = res[d] /\ seen[d] \subseteq seen'[d]
        BY <1>2, <1>9, <2>3, Zenon
      <3> QED
        BY <3>1, <3>2, <3>4, <3>5, <3>6, ReaderKept, Zenon
    <2> QED
      BY <2>1, <2>2, <2>3
  <1> QED
    BY <1>10, <1>11, <1>12, <1>13, <1>14, <1>15 DEF IndInv

\* A write that becomes visible keeps the oracle and every read in flight.
LEMMA WriteKeeps ==
  ASSUME IndInv, NEW k \in Keys, NEW x \in Answers, NEW T1, Wrote(heap[cur], T1, k, x),
         heap'[cur] = T1, DOMAIN heap' = TabIds, \A t \in TabIds : t # cur => heap'[t] = heap[t],
         cur' = cur, ntab' = ntab, Visible(k, x)
  PROVE  /\ TablesWellFormed' /\ OracleInv'
         /\ DOMAIN heap' = TabIds /\ \A t \in TabIds : IsTable(heap'[t])
         /\ oracle' \in [Keys -> Answers] /\ seen' \in [Clients -> SUBSET Answers]
         /\ \A d \in Clients :
              pc'[d] = pc[d] /\ key'[d] = key[d] /\ tab'[d] = tab[d] /\ pos'[d] = pos[d]
              /\ off'[d] = off[d] /\ res'[d] = res[d] => ReaderOK(d)'
  <1> DEFINE T == heap[cur]
  <1>1. /\ cur \in TabIds /\ cur' \in Nat /\ cur <= cur' /\ IsTable(T)
        /\ Len(T.buf) \in Nat /\ Len(T.buf) <= Len(T.buf)
    <2>1. cur \in TabIds /\ cur \in Nat /\ IsTable(T) /\ Len(T.buf) \in Nat
      BY InvTypes, Zenon
    <2> HIDE DEF T
    <2> QED
      BY <2>1
  <1>2. /\ heap'[cur] = T1 /\ DOMAIN heap' = TabIds
        /\ \A t \in TabIds : t # cur => heap'[t] = heap[t]
    BY Zenon
  <1>3. /\ oracle'[k] = x /\ \A q \in Keys \ {k} : oracle'[q] = oracle[q]
        /\ oracle' \in [Keys -> Answers]
    BY Zenon DEF Visible, IndInv, TypeOK
  <1>4. /\ \A d \in Clients : seen'[d] = IF Reading(d) /\ key[d] = k THEN seen[d] \cup {x} ELSE seen[d]
        /\ seen' \in [Clients -> SUBSET Answers]
    <2>1. seen' = [d \in Clients |-> IF Reading(d) /\ key[d] = k THEN seen[d] \cup {x} ELSE seen[d]]
      BY Zenon DEF Visible
    <2>2. \A d \in Clients : seen[d] \in SUBSET Answers
      BY Zenon DEF IndInv, TypeOK
    <2> QED
      BY <2>1, <2>2, Zenon
  <1> HIDE DEF T
  <1>5. Wrote(T, T1, k, x)
    BY Zenon DEF T
  <1>6. TablesWellFormed' /\ \A t \in TabIds : IsTable(heap'[t])
    BY <1>2, <1>5, InvTables, Zenon DEF TablesWellFormed, Wrote, IndInv, TypeOK
  <1>7. OracleInv'
    <2>1. /\ \A i \in Full(T) : oracle[RecOf(T, i).key] = RecOf(T, i).val
          /\ \A q \in Keys : oracle[q] # Absent => \E i \in Full(T) : RecOf(T, i).key = q
      BY Zenon DEF IndInv, OracleInv, T
    <2>2. \A i \in Full(T1) : RecOf(T1, i).key \in Keys
      BY <1>5, FullFacts, Zenon DEF Wrote
    <2>3. \A i \in Full(T1) : oracle'[RecOf(T1, i).key] = RecOf(T1, i).val
      <3>1. ASSUME NEW i \in Full(T1)
            PROVE  oracle'[RecOf(T1, i).key] = RecOf(T1, i).val
        <4>1. CASE RecOf(T1, i).key = k
          BY <1>3, <1>5, <4>1, Zenon DEF Wrote
        <4>2. CASE RecOf(T1, i).key # k
          <5>1. i \in Full(T) /\ RecOf(T1, i) = RecOf(T, i)
            BY <1>5, <4>2, Zenon DEF Wrote
          <5>2. oracle'[RecOf(T1, i).key] = oracle[RecOf(T1, i).key]
            BY <1>3, <2>2, <4>2, Zenon
          <5> QED
            BY <2>1, <5>1, <5>2, Zenon
        <4> QED
          BY <4>1, <4>2, Zenon
      <3> QED
        BY <3>1, Zenon
    <2>4. \A q \in Keys : oracle'[q] # Absent => \E i \in Full(T1) : RecOf(T1, i).key = q
      <3>1. ASSUME NEW q \in Keys, oracle'[q] # Absent
            PROVE  \E i \in Full(T1) : RecOf(T1, i).key = q
        <4>1. CASE q = k
          BY <1>3, <1>5, <3>1, <4>1, Zenon DEF Wrote
        <4>2. CASE q # k
          <5>1. PICK i \in Full(T) : RecOf(T, i).key = q
            BY <1>3, <2>1, <3>1, <4>2, Zenon
          <5> QED
            BY <1>5, <4>2, <5>1, Zenon DEF Wrote
        <4> QED
          BY <4>1, <4>2, Zenon
      <3> QED
        BY <3>1, Zenon
    <2>5. heap'[cur'] = T1
      BY <1>2, Zenon
    <2> QED
      BY <2>3, <2>4, <2>5, Zenon DEF OracleInv
  <1>8. ASSUME NEW d \in Clients,
               pc'[d] = pc[d], key'[d] = key[d], tab'[d] = tab[d], pos'[d] = pos[d],
               off'[d] = off[d], res'[d] = res[d]
        PROVE  ReaderOK(d)'
    <2>1. seen[d] \subseteq seen'[d]
      BY <1>4, Zenon
    <2>2. Reading(d) => key[d] \in Keys /\ oracle'[key[d]] \in seen'[d]
      <3>1. Reading(d) => key[d] \in Keys /\ oracle[key[d]] \in seen[d]
        BY Zenon DEF IndInv, ReaderInv, ReaderOK
      <3> QED
        BY <3>1, <1>3, <1>4, Zenon
    <2>3. Reading(d) => \A i \in Full(heap[tab[d]]) :
            RecOf(heap[tab[d]], i).key = key[d] => RecOf(heap[tab[d]], i).val \in seen[d]
      BY Zenon DEF IndInv, ReaderInv, ReaderOK
    <2>4. CASE tab[d] # cur
      <3>1. tab[d] \in TabIds
        BY Zenon DEF IndInv, TypeOK
      <3>2. /\ heap'[tab[d]] = heap[tab[d]] /\ Len(heap[tab[d]].buf) \in Nat
            /\ Len(heap[tab[d]].buf) <= Len(heap[tab[d]].buf)
        <4>1. Len(heap[tab[d]].buf) \in Nat
          BY <3>1, InvTypes, Zenon
        <4> QED
          BY <1>2, <2>4, <3>1, <4>1
      <3>3. Reading(d) => ShownTo(heap[tab[d]], heap[tab[d]], key[d], seen'[d])
        BY <2>1, <2>3, <3>2, Zenon DEF ShownTo
      <3> QED
        BY <1>1, <1>8, <2>1, <2>2, <3>2, <3>3, ReaderKept, Zenon
    <2>5. CASE tab[d] = cur
      <3>1. heap[tab[d]] = T /\ heap'[tab[d]] = T1
        BY <1>2, <2>5, Zenon DEF T
      <3>2. Reading(d) => \A i \in Full(T1) :
              RecOf(T1, i).key = key[d] => RecOf(T1, i).val \in seen'[d]
        BY <1>4, <1>5, <2>1, <2>3, <3>1, Zenon DEF Wrote
      <3>3. Reading(d) =>
              \/ Absent \in seen'[d]
              \/ \A i \in Full(T) : RecOf(T, i).key = key[d] =>
                   i \in Full(T1) /\ RecOf(T1, i).key = key[d]
        BY <1>4, <1>5, Zenon DEF Wrote
      <3>4. /\ SlotsOf(T1) = SlotsOf(T) /\ Len(T1.buf) \in Nat /\ Len(T.buf) <= Len(T1.buf)
            /\ \A q, i : ProbeDist(T1, q, i) = ProbeDist(T, q, i)
            /\ \A o \in 1..Len(T.buf) : RecordAt(T1, o) = RecordAt(T, o)
        <4>1. SameProbes(T, T1) /\ T1.buf = T.buf
          BY <1>5, Zenon DEF Wrote
        <4> QED
          BY <1>1, <4>1, Zenon DEF SameProbes
      <3>5. Reading(d) => ShownTo(T, T1, key[d], seen'[d])
        BY <3>2, <3>3, <3>4, Zenon DEF ShownTo
      <3> QED
        BY <1>1, <1>8, <2>1, <2>2, <3>1, <3>5, ReaderKept, Zenon
    <2> QED
      BY <2>4, <2>5, Zenon
  <1> QED
    BY <1>2, <1>3, <1>4, <1>6, <1>7, <1>8, Zenon

\* The store of the slot word that makes a Put visible keeps the invariant.
LEMMA PutInstallKeeps ==
  ASSUME IndInv, NEW c \in Clients, PutInstall(c)
  PROVE  IndInv'
  <1> DEFINE T == heap[cur]
             k == key[c]
             v == val[c]
             o == off[c]
  <1>1. /\ pc[c] = "install" /\ tab[c] = cur /\ c \in mu /\ pos[c] = 0
        /\ k \in Keys /\ v \in Values /\ ntab = cur
        /\ o \in 1..Len(T.buf) /\ T.buf[o] = [key |-> k, val |-> v]
        /\ \A d \in Clients : Locked(d) => d = c
        /\ \A d \in mu : d = c
    <2>1. pc[c] = "install"
      BY Zenon DEF PutInstall
    <2>2. MutexInv
      BY DEF IndInv
    <2> QED
      BY <2>1, <2>2, Zenon DEF MutexInv, Locked
  <1>2. /\ UNCHANGED <<cur, ntab, pos, res>> /\ mu' = {} /\ Visible(k, v)
        /\ pc' = [pc EXCEPT ![c] = "idle"] /\ key' = [key EXCEPT ![c] = NoKey]
        /\ val' = [val EXCEPT ![c] = Absent] /\ tab' = [tab EXCEPT ![c] = 1]
        /\ off' = [off EXCEPT ![c] = 0]
    BY Zenon DEF PutInstall
  <1>3. /\ cur \in TabIds /\ cur \in Nat /\ 1 \in TabIds /\ IsTable(T) /\ WellFormed(T) /\ o \in Nat
        /\ v # Absent
    <2>1. cur \in TabIds /\ cur \in Nat /\ IsTable(T) /\ WellFormed(T)
      BY InvTables, Zenon
    <2>2. 1 \in TabIds /\ Absent \notin Values
      BY F2Assumption DEF TabIds
    <2>3. o \in Nat
      BY Zenon DEF IndInv, TypeOK
    <2> QED
      BY <1>1, <2>1, <2>2, <2>3, Zenon
  <1>4. PICK i \in SlotsOf(T) :
          /\ EndsProbe(T, k, i)
          /\ \/ Holds(T, k, i) /\ heap' = [heap EXCEPT ![cur] = Store(T, i, Word(k, o))]
             \/ /\ ~Holds(T, k, i)
                /\ \E j \in SlotsOf(T) :
                     /\ InsertsAt(T, k, i, j)
                     /\ heap' = [heap EXCEPT ![cur] =
                                   Count(Store(T, j, Word(k, o)), 1, IF j = i THEN 1 ELSE 0)]
    <2>1. tab[c] = cur
      BY <1>1, Zenon
    <2> QED
      BY <2>1, Zenon DEF PutInstall
  <1> HIDE DEF T, k, v, o
  <1>5. T.buf[o] = [key |-> k, val |-> v] /\ k \in Keys /\ v \in Values /\ o \in 1..Len(T.buf)
    BY <1>1, Zenon
  <1>6. PICK T1 : Wrote(T, T1, k, v) /\ heap' = [heap EXCEPT ![cur] = T1]
    <2>1. CASE Holds(T, k, i) /\ heap' = [heap EXCEPT ![cur] = Store(T, i, Word(k, o))]
      <3>1. Wrote(T, Store(T, i, Word(k, o)), k, v)
        BY <1>3, <1>4, <1>5, <2>1, RepointWrites, Zenon
      <3> QED
        BY <2>1, <3>1, ZenonT(60)
    <2>2. ASSUME ~Holds(T, k, i), NEW j \in SlotsOf(T), InsertsAt(T, k, i, j),
                 heap' = [heap EXCEPT ![cur] =
                            Count(Store(T, j, Word(k, o)), 1, IF j = i THEN 1 ELSE 0)]
          PROVE  \E T1 : Wrote(T, T1, k, v) /\ heap' = [heap EXCEPT ![cur] = T1]
      <3> DEFINE du == IF j = i THEN 1 ELSE 0
      <3>1. du \in Int
        OBVIOUS
      <3> HIDE DEF du
      <3>2. Wrote(T, Count(Store(T, j, Word(k, o)), 1, du), k, v)
        BY <1>3, <1>4, <1>5, <2>2, <3>1, InsertWrites, Zenon
      <3> QED
        BY <2>2, <3>2, Zenon DEF du
    <2> QED
      BY <1>4, <2>1, <2>2, Zenon
  <1>7. v \in Answers
    BY <1>1, ZenonT(60) DEF Answers
  <1>8. /\ TablesWellFormed' /\ OracleInv'
        /\ DOMAIN heap' = TabIds /\ \A t \in TabIds : IsTable(heap'[t])
        /\ oracle' \in [Keys -> Answers] /\ seen' \in [Clients -> SUBSET Answers]
        /\ \A d \in Clients :
             pc'[d] = pc[d] /\ key'[d] = key[d] /\ tab'[d] = tab[d] /\ pos'[d] = pos[d]
             /\ off'[d] = off[d] /\ res'[d] = res[d] => ReaderOK(d)'
    <2>1. heap'[cur] = T1 /\ DOMAIN heap' = TabIds /\ \A t \in TabIds : t # cur => heap'[t] = heap[t]
      BY <1>3, <1>6, Zenon DEF IndInv, TypeOK
    <2> QED
      BY <1>1, <1>2, <1>6, <1>7, <2>1, WriteKeeps, Zenon DEF T
  <1>9. /\ pc'[c] = "idle"
        /\ \A d \in Clients \ {c} : /\ pc'[d] = pc[d] /\ key'[d] = key[d] /\ tab'[d] = tab[d]
                                    /\ off'[d] = off[d]
    BY <1>2, Zenon DEF IndInv, TypeOK
  <1>10. TypeOK'
    BY <1>2, <1>3, <1>8, ZenonT(60) DEF IndInv, TypeOK, Answers
  <1>11. MutexInv'
    <2>1. \A d \in Clients : ~Locked(d)' /\ d \notin mu'
      BY <1>1, <1>2, <1>9, Zenon DEF IndInv, MutexInv, Locked
    <2>2. (\A d, e \in mu' : d = e) /\ ntab' = cur'
      BY <1>1, <1>2, Zenon DEF IndInv, MutexInv
    <2>3. \A d \in Clients : pc'[d] \in {"idle", "append", "install"} => pos'[d] = 0
      BY <1>1, <1>2, <1>9, Zenon DEF IndInv, MutexInv
    <2> QED
      BY <2>1, <2>2, <2>3, Zenon DEF MutexInv, Locked
  <1>12. ReplayInv'
    BY <1>1, <1>9, Zenon DEF ReplayInv, Locked
  <1>13. ReaderInv'
    <2> SUFFICES ASSUME NEW d \in Clients PROVE ReaderOK(d)'
      BY Zenon DEF ReaderInv
    <2>1. CASE d = c
      BY <2>1, <1>9, Zenon DEF ReaderOK, Reading
    <2>2. CASE d # c
      BY <2>2, <1>2, <1>8, <1>9, Zenon
    <2> QED
      BY <2>1, <2>2
  <1> QED
    BY <1>8, <1>10, <1>11, <1>12, <1>13, Zenon DEF IndInv

\* A Delete, which turns the slot of its key into a tombstone, keeps the
\* invariant.
LEMMA DeleteKeeps ==
  ASSUME IndInv, NEW c \in Clients, NEW k \in Keys, Delete(c, k)
  PROVE  IndInv'
  <1> DEFINE T == heap[cur]
  <1>1. \A d \in Clients : ~Locked(d)
    BY Zenon DEF Delete, IndInv, MutexInv
  <1>2. UNCHANGED <<cur, ntab, mu, pc, key, val, tab, pos, off, res>> /\ Visible(k, Absent)
    BY Zenon DEF Delete, locals
  <1>3. cur \in TabIds /\ IsTable(T) /\ WellFormed(T)
    BY InvTables
  <1>4. PICK i \in SlotsOf(T) :
          /\ EndsProbe(T, k, i)
          /\ \/ Holds(T, k, i) /\ heap' = [heap EXCEPT ![cur] = Count(Store(T, i, Tomb), -1, 0)]
             \/ ~Holds(T, k, i) /\ heap' = heap
    BY DEF Delete
  <1>5. heap[cur] = T /\ DOMAIN heap = TabIds
    BY <1>3, Zenon DEF IndInv, TypeOK
  <1> HIDE DEF T
  <1>6. PICK T1 : /\ Wrote(T, T1, k, Absent)
                  /\ heap'[cur] = T1 /\ DOMAIN heap' = TabIds
                  /\ \A t \in TabIds : t # cur => heap'[t] = heap[t]
    <2>1. CASE Holds(T, k, i) /\ heap' = [heap EXCEPT ![cur] = Count(Store(T, i, Tomb), -1, 0)]
      <3> DEFINE T1 == Count(Store(T, i, Tomb), -1, 0)
      <3>1. Wrote(T, T1, k, Absent)
        BY <1>3, <1>4, <2>1, TombWrites
      <3> HIDE DEF T1
      <3>2. heap' = [heap EXCEPT ![cur] = T1]
        BY <2>1 DEF T1
      <3> QED
        BY <1>3, <1>5, <3>1, <3>2
    <2>2. CASE ~Holds(T, k, i) /\ heap' = heap
      <3>1. \A j \in Full(T) : RecOf(T, j).key # k
        BY <1>3, <1>4, <2>2, ProbeEnds, ZenonT(60)
      <3>2. Wrote(T, T, k, Absent)
        BY <1>3, <3>1, Zenon DEF Wrote, SameProbes
      <3> QED
        BY <1>5, <2>2, <3>2
    <2> QED
      BY <1>4, <2>1, <2>2, Zenon
  <1>7. Absent \in Answers
    BY Zenon DEF Answers
  <1>8. /\ TablesWellFormed' /\ OracleInv'
        /\ DOMAIN heap' = TabIds /\ \A t \in TabIds : IsTable(heap'[t])
        /\ oracle' \in [Keys -> Answers] /\ seen' \in [Clients -> SUBSET Answers]
        /\ \A d \in Clients :
             pc'[d] = pc[d] /\ key'[d] = key[d] /\ tab'[d] = tab[d] /\ pos'[d] = pos[d]
             /\ off'[d] = off[d] /\ res'[d] = res[d] => ReaderOK(d)'
    BY <1>2, <1>6, <1>7, WriteKeeps, Zenon DEF T
  <1>9. TypeOK'
    BY <1>2, <1>8, Zenon DEF IndInv, TypeOK
  <1>10. MutexInv'
    BY <1>1, <1>2, Zenon DEF IndInv, MutexInv, Locked
  <1>11. ReplayInv'
    BY <1>1, <1>2, ZenonT(60) DEF ReplayInv, Locked
  <1>12. ReaderInv'
    BY <1>2, <1>8, Zenon DEF ReaderInv
  <1> QED
    BY <1>8, <1>9, <1>10, <1>11, <1>12, ZenonT(60) DEF IndInv
=============================================================================
