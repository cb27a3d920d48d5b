--------------------------- MODULE EmbeddedProofs ---------------------------
(***************************************************************************)
(* For any number of writers, calls, keys and rows, and for every adapter  *)
(* under every level: what was acknowledged under per-commit durability    *)
(* survives the crashes, an atomic batch is never seen in part, a scan     *)
(* shows one state of the store, and an iterator leaves nothing behind.    *)
(***************************************************************************)
EXTENDS Embedded, FiniteSetTheorems, NaturalsInduction, TLAPS

Ind == LogOK /\ LogInv

\* What the adapters are built to: a promised call is one that syncs, and a
\* batch that is declared atomic is a transaction.
LEMMA Designs ==
  ASSUME LogOK
  PROVE  /\ \A id \in DOMAIN calls :
              eng.caps.durable /\ Promised(id) /\ calls[id].kind \in Kinds =>
                calls[id].kind \in eng.syncs
         /\ eng.caps.atomicBatch => eng.txn
<1> DEFINE Keeps(e, l) ==
      LET d == Design(e, l)
      IN  /\ d.caps.atomicBatch => d.txn
          /\ d.caps.durable /\ (l = "FULL" \/ (l = "DEFAULT" /\ e \in {"bbolt", "lmdb", "libmdbx"}))
             => \A k \in Kinds : ~(e = "pogreb" /\ k = "delete") => k \in d.syncs
<1>0. ASSUME NEW l \in Levels PROVE
      /\ Keeps("bbolt", l) /\ Keeps("badger", l) /\ Keeps("pebble", l)
      /\ Keeps("goleveldb", l) /\ Keeps("buntdb", l) /\ Keeps("pogreb", l)
      /\ Keeps("sqlite", l) /\ Keeps("kv", l) /\ Keeps("memory", l)
      /\ Keeps("lmdb", l) /\ Keeps("libmdbx", l) /\ Keeps("rocksdb", l)
  <2> USE DEF Design, Adapter, Levels, Kinds, Caps, Calling, Transaction
  <2>1. Keeps("bbolt", l) BY Zenon DEF BboltOpen, BboltCalls, BboltCommit
  <2>2. Keeps("badger", l) BY Zenon DEF BadgerOpen, BadgerCalls, BadgerCommit
  <2>3. Keeps("pebble", l) BY Zenon DEF PebbleOpen, PebbleCalls, PebbleCommit
  <2>4. Keeps("goleveldb", l) BY Zenon DEF GoleveldbOpen, GoleveldbCalls, GoleveldbCommit
  <2>5. Keeps("buntdb", l) BY Zenon DEF BuntdbOpen, BuntdbCalls, BuntdbCommit
  <2>6. Keeps("pogreb", l) BY Zenon DEF PogrebOpen, PogrebCalls, PogrebCommit
  <2>7. Keeps("sqlite", l) BY Zenon DEF SqliteOpen, SqliteCalls, SqliteCommit
  <2>8. Keeps("kv", l) BY Zenon DEF KVOpen, KVCalls, KVCommit
  <2>9. Keeps("memory", l) BY Zenon DEF MemoryOpen, MemoryCalls, MemoryCommit
  <2>10. Keeps("lmdb", l) BY Zenon DEF LmdbOpen, LmdbCalls, LmdbCommit
  <2>11. Keeps("libmdbx", l) BY Zenon DEF LibmdbxOpen, LibmdbxCalls, LibmdbxCommit
  <2>12. Keeps("rocksdb", l) BY Zenon DEF RocksOpen, RocksCalls, RocksCommit
  <2> HIDE DEF Keeps
  <2> QED BY <2>1, <2>2, <2>3, <2>4, <2>5, <2>6, <2>7, <2>8, <2>9, <2>10, <2>11, <2>12
<1>1. config[1] \in Engines /\ config[2] \in Levels
  BY EmbeddedAssumption DEF LogOK
<1>2. Keeps(config[1], config[2])
  <2> HIDE DEF Keeps
  <2> QED BY <1>0, <1>1 DEF Engines
<1> QED BY <1>2 DEF LogOK, Promised, PerCommit

\* A call has operations, numbered from 1.
LEMMA CallTypes ==
  ASSUME LogOK, NEW id \in DOMAIN calls
  PROVE  /\ calls[id].kind \in Kinds /\ Len(calls[id].ops) \in Nat
         /\ DOMAIN calls[id].ops = 1..Len(calls[id].ops)
<1>1. calls[id] \in Calls \cup {Load}
  BY DEF LogOK
<1>2. CASE calls[id] \in Calls
  <2>1. calls[id] \in [kind : Kinds, ops : Seq(Ops)]
    BY <1>2, EmbeddedAssumption
  <2> QED BY <2>1
<1>3. CASE calls[id] = Load
  <2>1. calls[id].kind \in Kinds /\ calls[id].ops = [k \in Keys |-> [key |-> k, val |-> Loaded]]
    BY <1>3 DEF Load, Kinds
  <2>2. calls[id].ops \in Seq(Ops) /\ Len(calls[id].ops) = NKeys
    BY <2>1, EmbeddedAssumption DEF Keys, Ops
  <2> QED BY <2>1, <2>2, EmbeddedAssumption DEF Keys
<1> QED BY <1>1, <1>2, <1>3

\* The cell begins with the load in the log, on the disk.
LEMMA LogBegins == Init => Ind
<1> SUFFICES ASSUME Init PROVE Ind
  OBVIOUS
<1>1. Len(calls) = 1 /\ DOMAIN calls = {1} /\ calls[1] = Load /\ Len(log) = 1 /\ DOMAIN log = {1}
  BY DEF Init
<1>2. LogOK
  <2>1. calls \in Seq(Calls \cup {Load}) /\ acked \subseteq DOMAIN calls
    BY <1>1 DEF Init
  <2>2. log \in Seq([call : DOMAIN calls, from : Nat \ {0}, to : Nat]) /\ synced \in 0..Len(log)
    BY <1>1, EmbeddedAssumption DEF Init
  <2>3. w \in [Writers -> [pc : {"idle", "apply", "return"}, call : 0..Len(calls), pos : Nat]]
    BY <1>1 DEF Init, Idle
  <2> QED BY <2>1, <2>2, <2>3, Zenon DEF Init, LogOK
<1>3. DOMAIN calls[1].ops = 1..NKeys /\ Len(calls[1].ops) = NKeys
  <2>1. calls[1].ops = [k \in 1..NKeys |-> [key |-> k, val |-> Loaded]]
    BY <1>1 DEF Load, Keys
  <2>2. DOMAIN calls[1].ops = 1..NKeys
    BY <2>1
  <2> QED BY <1>1, <1>2, <2>2, CallTypes, EmbeddedAssumption
<1>4. log[1].call = 1 /\ log[1].from = 1 /\ log[1].to = NKeys /\ synced = 1
  BY DEF Init
<1>5. \A n \in 1..NKeys : In(1, n, synced)
  BY <1>4, EmbeddedAssumption DEF In
<1>6. \A c \in Writers : w[c].pc = "idle"
  BY DEF Init, Idle
<1>7. acked = {1}
  BY DEF Init
<1>8. LogInv
  BY <1>1, <1>3, <1>4, <1>5, <1>6, <1>7 DEF LogInv
<1> QED BY <1>2, <1>8 DEF Ind
\* A step that touches neither the log nor the writers.
LEMMA LogUntouched ==
  ASSUME Ind, UNCHANGED <<store, hist, w>>
  PROVE  Ind'
<1> USE DEF store, hist, setup
<1>1. LogOK'
  BY DEF Ind, LogOK
<1>2. LogInv'
  BY DEF Ind, LogInv, In, Promised, PerCommit
<1> QED BY <1>1, <1>2 DEF Ind

\* Open: the writers are idle, and a log that is dropped promised nothing.
LEMMA LogOpen ==
  ASSUME Ind, Open
  PROVE  Ind'
<1> USE DEF Open, hist, setup
<1>0. \A c \in Writers : w[c].pc = "idle"
  BY DEF Ind, LogInv
<1>1. LogOK'
  <2>1. CASE UNCHANGED <<log, synced>>
    BY <2>1, Zenon DEF Ind, LogOK
  <2>2. CASE log' = <<>> /\ synced' = 0
    <3>1. log' \in Seq([call : DOMAIN calls', from : Nat \ {0}, to : Nat]) /\ synced' \in 0..Len(log')
      BY <2>2
    <3> QED BY <3>1, Zenon DEF Ind, LogOK
  <2> QED BY <2>1, <2>2
<1>2. LogInv'
  <2>1. CASE eng.caps.durable
    BY <1>0, <2>1 DEF Ind, LogInv, In, Promised, PerCommit
  <2>2. CASE ~eng.caps.durable
    BY <1>0, <2>2 DEF Ind, LogInv
  <2> QED BY <2>1, <2>2
<1> QED BY <1>1, <1>2 DEF Ind

\* What is in the log stays in it while it grows and more of it is synced.
LEMMA LogGrows ==
  ASSUME Ind, Len(log') \in Nat, Len(log) <= Len(log'),
         \A i \in 1..Len(log) : log'[i] = log[i],
         synced' \in synced..Len(log')
  PROVE  /\ \A id, n : In(id, n, synced) => In(id, n, synced)'
         /\ \A id, n : In(id, n, Len(log)) => In(id, n, Len(log))'
<1>1. Len(log) \in Nat /\ synced \in 0..Len(log)
  BY DEF Ind, LogOK
<1>2. 1..synced \subseteq 1..synced' /\ 1..Len(log) \subseteq 1..Len(log')
  BY <1>1
<1>3. 1..synced \subseteq 1..Len(log)
  BY <1>1
<1> QED BY <1>2, <1>3, Zenon DEF In

\* Flush and Close of the engine.
LEMMA LogFlush ==
  ASSUME Ind, Flush \/ Close
  PROVE  Ind'
<1> USE DEF Flush, Close, hist, setup, Quiet
<1>0. synced' \in synced..Len(log) /\ Len(log) \in Nat /\ synced \in Nat
  <2>1. Len(log) \in Nat /\ synced \in 0..Len(log)
    BY DEF Ind, LogOK
  <2>2. CASE Flush
    BY <2>1, <2>2
  <2>3. CASE Close
    BY <2>1, <2>3
  <2> QED BY <2>1, <2>2, <2>3
<1>1. UNCHANGED <<config, eng, log, calls, acked, crashed, w>> /\ up' \in BOOLEAN
  BY Zenon DEF Ind, LogOK
<1>2. \A c \in Writers : w[c].pc = "idle"
  BY DEF Ind
<1> HIDE DEF Flush, Close
<1>3. LogOK'
  BY <1>0, <1>1 DEF Ind, LogOK
<1>4. /\ \A id, n : In(id, n, synced) => In(id, n, synced)'
      /\ \A id, n : In(id, n, Len(log)) => In(id, n, Len(log))'
  BY <1>0, <1>1, LogGrows
<1>5. LogInv'
  BY <1>1, <1>2, <1>4 DEF Ind, LogInv, Promised, PerCommit
<1> QED BY <1>3, <1>5 DEF Ind

\* A crash keeps the synced part, in which every promised call is whole.
LEMMA LogCrash ==
  ASSUME Ind, Crash
  PROVE  Ind'
<1> USE DEF Crash, setup
<1>1. PICK n \in synced..Len(log) : log' = SubSeq(log, 1, n) /\ synced' = n
  OBVIOUS
<1>2. /\ n \in Nat /\ synced \in Nat /\ synced <= n /\ Len(log') = n
      /\ log' \in Seq([call : DOMAIN calls, from : Nat \ {0}, to : Nat])
      /\ DOMAIN log' = 1..n /\ DOMAIN log' \subseteq DOMAIN log
      /\ \A i \in 1..n : log'[i] = log[i]
  <2> DEFINE S == [call : DOMAIN calls, from : Nat \ {0}, to : Nat]
  <2>1. log \in Seq(S) /\ n \in Nat /\ n <= Len(log) /\ Len(log) \in Nat /\ synced \in Nat /\ synced <= n
    BY <1>1 DEF Ind, LogOK
  <2> HIDE DEF S
  <2>2. \A i \in 1..n : log[i] \in S
    BY <2>1
  <2>3. log' \in Seq(S) /\ Len(log') = n /\ \A i \in 1..n : log'[i] = log[i]
    BY <1>1, <2>1, <2>2
  <2> QED BY <2>1, <2>3 DEF S
<1>3. LogOK'
  <2>1. w' \in [Writers -> [pc : {"idle", "apply", "return"}, call : 0..Len(calls), pos : Nat]]
    BY DEF Ind, LogOK, Idle
  <2>2. synced' \in 0..Len(log')
    BY <1>1, <1>2
  <2> QED BY <1>2, <2>1, <2>2, Zenon DEF Ind, LogOK
<1>4. \A id, k : In(id, k, synced) => In(id, k, synced)'
  <2>1. 1..synced \subseteq 1..n
    BY <1>2
  <2> QED BY <1>1, <1>2, <2>1, Zenon DEF In
<1>5. \A c \in Writers : w'[c].pc = "idle"
  BY DEF Idle
<1>6. LogInv'
  BY <1>2, <1>4, <1>5 DEF Ind, LogInv, Promised, PerCommit
<1> QED BY <1>3, <1>6 DEF Ind

\* A client begins a call, which has done nothing yet.
LEMMA LogCall ==
  ASSUME Ind, NEW c \in Writers, NEW call \in Calls, Call(c, call)
  PROVE  Ind'
<1> USE DEF Call, store, setup
<1>1. /\ calls' \in Seq(Calls \cup {Load}) /\ Len(calls') = Len(calls) + 1 /\ Len(calls) \in Nat
      /\ DOMAIN calls' = 1..(Len(calls) + 1) /\ DOMAIN calls = 1..Len(calls)
      /\ \A id \in DOMAIN calls : calls'[id] = calls[id]
  <2>1. calls \in Seq(Calls \cup {Load})
    BY DEF Ind, LogOK
  <2> QED BY <2>1
<1>2. DOMAIN calls \subseteq DOMAIN calls' /\ 0..Len(calls) \subseteq 0..Len(calls')
  BY <1>1
<1>3. \A i \in DOMAIN log : log[i].call \in DOMAIN calls
  <2> DEFINE S == [call : DOMAIN calls, from : Nat \ {0}, to : Nat]
  <2>1. log \in Seq(S)
    BY DEF Ind, LogOK
  <2> HIDE DEF S
  <2>2. \A i \in DOMAIN log : log[i] \in S
    BY <2>1
  <2> QED BY <2>2 DEF S
<1>4. /\ w'[c] = [pc |-> "apply", call |-> Len(calls) + 1, pos |-> 0]
      /\ \A d \in Writers : d # c => w'[d] = w[d]
      /\ w' = [d \in Writers |-> w'[d]]
  <2>1. w = [d \in Writers |-> w[d]]
    BY DEF Ind, LogOK
  <2> QED BY <2>1, Zenon
<1>5. LogOK'
  <2>1. log' \in Seq([call : DOMAIN calls', from : Nat \ {0}, to : Nat])
    <3> DEFINE S == [call : DOMAIN calls, from : Nat \ {0}, to : Nat]
               T == [call : DOMAIN calls', from : Nat \ {0}, to : Nat]
    <3>1. S \subseteq T
      BY <1>2
    <3>2. log \in Seq(S)
      BY DEF Ind, LogOK
    <3> HIDE DEF S, T
    <3>3. log \in Seq(T)
      BY <3>1, <3>2
    <3> QED BY <3>3 DEF T
  <2>2. w' \in [Writers -> [pc : {"idle", "apply", "return"}, call : 0..Len(calls'), pos : Nat]]
    <3>1. \A d \in Writers :
            w'[d] \in [pc : {"idle", "apply", "return"}, call : 0..Len(calls'), pos : Nat]
      BY <1>1, <1>2, <1>4 DEF Ind, LogOK
    <3> QED BY <1>4, <3>1, Zenon
  <2> QED BY <1>1, <1>2, <2>1, <2>2, Zenon DEF Ind, LogOK
<1>6. \A id, n : (In(id, n, synced) => In(id, n, synced)') /\ (In(id, n, Len(log)) => In(id, n, Len(log))')
  BY DEF In
<1>7. acked \subseteq DOMAIN calls
  BY DEF Ind, LogOK
<1>8. \A d \in Writers : w'[d].pc # "idle" =>
        /\ up' /\ w'[d].call \in DOMAIN calls'
        /\ \A n \in 1..w'[d].pos : In(w[d].call, n, Len(log))'
        /\ w'[d].pc = "return" => w'[d].pos = Len(calls'[w'[d].call].ops)
        /\ w'[d].pc = "apply" /\ eng.txn => w'[d].pos = 0
  <2> SUFFICES ASSUME NEW d \in Writers, w'[d].pc # "idle"
               PROVE  /\ up' /\ w'[d].call \in DOMAIN calls'
                      /\ \A n \in 1..w'[d].pos : In(w[d].call, n, Len(log))'
                      /\ w'[d].pc = "return" => w'[d].pos = Len(calls'[w'[d].call].ops)
                      /\ w'[d].pc = "apply" /\ eng.txn => w'[d].pos = 0
    OBVIOUS
  <2>1. CASE d = c
    BY <1>1, <1>4, <2>1
  <2>2. CASE d # c
    BY <1>1, <1>2, <1>4, <1>6, <2>2 DEF Ind, LogInv
  <2> QED BY <2>1, <2>2, Zenon
<1>9. LogInv'
  <2>1. \A id \in acked' : eng'.caps.durable =>
          \A n \in DOMAIN calls'[id].ops :
            (Promised(id)' => In(id, n, synced)') /\ (~crashed' => In(id, n, Len(log))')
    <3>1. acked' = acked /\ eng' = eng /\ config' = config /\ crashed' = crashed
      BY Zenon
    <3>2. \A id \in acked : calls'[id] = calls[id]
      BY <1>1, <1>7, Zenon
    <3>3. \A id \in acked : Promised(id)' <=> Promised(id)
      BY <3>1, <3>2, Zenon DEF Promised, PerCommit
    <3>4. \A id \in acked : eng.caps.durable =>
            \A n \in DOMAIN calls[id].ops :
              (Promised(id) => In(id, n, synced)) /\ (~crashed => In(id, n, Len(log)))
      BY Zenon DEF Ind, LogInv
    <3>5. ASSUME NEW id \in acked, eng.caps.durable, NEW n \in DOMAIN calls[id].ops
          PROVE  (Promised(id)' => In(id, n, synced)') /\ (~crashed' => In(id, n, Len(log))')
      <4>1. Promised(id) => In(id, n, synced)
        BY <3>4, <3>5, Zenon
      <4>2. ~crashed => In(id, n, Len(log))
        BY <3>4, <3>5, Zenon
      <4>3. (In(id, n, synced) => In(id, n, synced)') /\ (In(id, n, Len(log)) => In(id, n, Len(log))')
        BY <1>6, Zenon
      <4>4. Promised(id)' <=> Promised(id)
        BY <3>3, Zenon
      <4>5. crashed' <=> crashed
        BY <3>1
      <4> QED BY <4>1, <4>2, <4>3, <4>4, <4>5, Zenon
    <3> HIDE DEF Call, store, setup
    <3> QED BY <3>1, <3>2, <3>5
  <2>2. eng'.txn => \A i \in DOMAIN log' :
          log'[i].from = 1 /\ log'[i].to = Len(calls'[log'[i].call].ops)
    BY <1>1, <1>3, Zenon DEF Ind, LogInv
  <2>3. \A d \in Writers : w'[d].pc # "idle" =>
          /\ up' /\ w'[d].call \in DOMAIN calls'
          /\ \A n \in 1..w'[d].pos : In(w[d].call, n, Len(log))'
          /\ w'[d].pc = "return" => w'[d].pos = Len(calls'[w'[d].call].ops)
          /\ w'[d].pc = "apply" /\ eng'.txn => w'[d].pos = 0
    BY <1>8, Zenon
  <2> HIDE DEF Call, store, setup
  <2> QED BY <2>1, <2>2, <2>3, Zenon DEF LogInv
<1> QED BY <1>5, <1>9 DEF Ind
\* A write takes effect: its operations from..to join the log.
LEMMA LogApply ==
  ASSUME Ind, NEW c \in Writers, Apply(c)
  PROVE  Ind'
<1>0. PICK id : id = w[c].call
  OBVIOUS
<1> DEFINE ops == calls[id].ops
           from == w[c].pos + 1
           to == IF eng.txn THEN Len(ops) ELSE from
           entry == [call |-> id, from |-> from, to |-> to]
<1>1. /\ w[c].pc = "apply" /\ from <= Len(ops)
      /\ log' = Append(log, entry)
      /\ synced' = IF calls[id].kind = "batch" /\ "op" \in eng.syncs THEN Len(log') ELSE synced
      /\ w' = [w EXCEPT ![c].pos = to, ![c].pc = IF to = Len(ops) THEN "return" ELSE @]
      /\ UNCHANGED <<config, eng, up, calls, acked, crashed>>
  BY <1>0, Zenon DEF Apply, setup, hist
<1>2. /\ id \in DOMAIN calls /\ up /\ Len(ops) \in Nat /\ w[c].pos \in Nat
      /\ eng.txn => w[c].pos = 0
      /\ \A n \in 1..w[c].pos : In(id, n, Len(log))
  <2>1. id \in DOMAIN calls /\ up /\ (eng.txn => w[c].pos = 0)
        /\ \A n \in 1..w[c].pos : In(id, n, Len(log))
    BY <1>0, <1>1, Zenon DEF Ind, LogInv
  <2>2. w[c].pos \in Nat
    BY DEF Ind, LogOK
  <2> QED BY <2>1, <2>2, CallTypes, Zenon DEF Ind
<1>3. from \in Nat \ {0} /\ to \in Nat /\ from <= to /\ to <= Len(ops)
  BY <1>1, <1>2
<1> HIDE DEF from, to
<1>4. /\ log' \in Seq([call : DOMAIN calls, from : Nat \ {0}, to : Nat])
      /\ Len(log) \in Nat /\ Len(log') = Len(log) + 1
      /\ \A i \in 1..Len(log) : log'[i] = log[i]
      /\ log'[Len(log) + 1] = entry
      /\ DOMAIN log' = 1..(Len(log) + 1) /\ DOMAIN log = 1..Len(log)
  <2> DEFINE S == [call : DOMAIN calls, from : Nat \ {0}, to : Nat]
  <2>1. log \in Seq(S) /\ entry \in S
    BY <1>2, <1>3 DEF Ind, LogOK
  <2> HIDE DEF S, entry
  <2>2. log' = Append(log, entry)
    BY <1>1
  <2>3. /\ log' \in Seq(S) /\ Len(log) \in Nat /\ Len(log') = Len(log) + 1
        /\ \A i \in 1..Len(log) : log'[i] = log[i]
        /\ log'[Len(log) + 1] = entry
        /\ DOMAIN log' = 1..(Len(log) + 1) /\ DOMAIN log = 1..Len(log)
    BY <2>1, <2>2
  <2> QED BY <2>3 DEF S
<1> HIDE DEF ops
<1>5. synced \in 0..Len(log) /\ synced' \in synced..Len(log')
  <2>1. synced \in 0..Len(log)
    BY DEF Ind, LogOK
  <2>2. synced' = synced \/ synced' = Len(log')
    BY <1>1
  <2> QED BY <1>4, <2>1, <2>2
<1>6. /\ \A d, n : In(d, n, synced) => In(d, n, synced)'
      /\ \A d, n : In(d, n, Len(log)) => In(d, n, Len(log))'
  BY <1>4, <1>5, LogGrows
<1>7. \A n \in from..to : In(id, n, Len(log))'
  <2>1. Len(log') \in 1..Len(log')
    BY <1>4
  <2>2. log'[Len(log')].call = id /\ log'[Len(log')].from = from /\ log'[Len(log')].to = to
    BY <1>4
  <2> QED BY <2>1, <2>2 DEF In
<1>8. /\ w'[c].pc \in {"apply", "return"} /\ w'[c].call = id /\ w'[c].pos = to
      /\ w'[c].pc = "return" <=> to = Len(ops)
      /\ w'[c] \in [pc : {"idle", "apply", "return"}, call : 0..Len(calls), pos : Nat]
      /\ \A d \in Writers : d # c => w'[d] = w[d]
      /\ w' = [d \in Writers |-> w'[d]]
  <2> DEFINE pc == IF to = Len(ops) THEN "return" ELSE "apply"
  <2>1. w[c] \in [pc : {"idle", "apply", "return"}, call : 0..Len(calls), pos : Nat]
        /\ w = [d \in Writers |-> w[d]]
    BY DEF Ind, LogOK
  <2>2. w' = [w EXCEPT ![c] = [w[c] EXCEPT !.pos = to, !.pc = pc]]
    BY <1>1, <2>1, Zenon
  <2>3. /\ w'[c] = [w[c] EXCEPT !.pos = to, !.pc = pc]
        /\ \A d \in Writers : d # c => w'[d] = w[d]
        /\ w' = [d \in Writers |-> w'[d]]
    BY <2>1, <2>2, Zenon
  <2>4. pc \in {"apply", "return"} /\ (pc = "return" <=> to = Len(ops))
    OBVIOUS
  <2> HIDE DEF pc
  <2>5. w'[c].pc = pc /\ w'[c].call = id /\ w'[c].pos = to
    BY <1>0, <2>1, <2>3
  <2>6. w'[c] \in [pc : {"idle", "apply", "return"}, call : 0..Len(calls), pos : Nat]
    BY <1>3, <2>1, <2>3, <2>4, Zenon
  <2>7. w'[c].pc \in {"apply", "return"} /\ (w'[c].pc = "return" <=> to = Len(ops))
    BY <2>4, <2>5
  <2> QED BY <2>3, <2>5, <2>6, <2>7, Zenon
<1>9. LogOK'
  <2>1. w' \in [Writers -> [pc : {"idle", "apply", "return"}, call : 0..Len(calls), pos : Nat]]
    BY <1>8, Zenon DEF Ind, LogOK
  <2>2. synced' \in 0..Len(log')
    BY <1>4, <1>5
  <2> QED BY <1>1, <1>4, <2>1, <2>2, Zenon DEF Ind, LogOK
<1>10. \A d \in Writers : w'[d].pc # "idle" =>
         /\ up' /\ w'[d].call \in DOMAIN calls'
         /\ \A n \in 1..w'[d].pos : In(w[d].call, n, Len(log))'
         /\ w'[d].pc = "return" => w'[d].pos = Len(calls'[w'[d].call].ops)
         /\ w'[d].pc = "apply" /\ eng'.txn => w'[d].pos = 0
  <2> SUFFICES ASSUME NEW d \in Writers, w'[d].pc # "idle"
               PROVE  /\ up' /\ w'[d].call \in DOMAIN calls'
                      /\ \A n \in 1..w'[d].pos : In(w[d].call, n, Len(log))'
                      /\ w'[d].pc = "return" => w'[d].pos = Len(calls'[w'[d].call].ops)
                      /\ w'[d].pc = "apply" /\ eng'.txn => w'[d].pos = 0
    BY Zenon
  <2>1. CASE d = c
    <3>1. \A n \in 1..to : n \in 1..w[c].pos \/ n \in from..to
      BY <1>2, <1>3 DEF from
    <3>2. \A n \in 1..to : In(id, n, Len(log))'
      BY <1>2, <1>6, <1>7, <3>1
    <3>3. eng.txn => to = Len(ops)
      BY DEF to
    <3>4. \A n \in 1..w'[d].pos : In(w[d].call, n, Len(log))'
      BY <1>8, <2>1, <3>2
    <3>5. w'[c].pc = "apply" => ~eng'.txn
      BY <1>1, <1>8, <3>3
    <3>6. w'[c].pc = "return" => w'[c].pos = Len(calls'[w'[c].call].ops)
      BY <1>1, <1>8, Zenon DEF ops
    <3> QED BY <1>1, <1>2, <1>8, <2>1, <3>4, <3>5, <3>6, Zenon
  <2>2. CASE d # c
    BY <1>1, <1>6, <1>8, <2>2, Zenon DEF Ind, LogInv
  <2> QED BY <2>1, <2>2, Zenon
<1>11. eng'.txn => \A i \in DOMAIN log' :
         log'[i].from = 1 /\ log'[i].to = Len(calls'[log'[i].call].ops)
  <2>1. eng.txn => from = 1 /\ to = Len(ops)
    BY <1>2 DEF from, to
  <2>2. \A i \in DOMAIN log' : i \in DOMAIN log \/ i = Len(log) + 1
    BY <1>4
  <2> QED BY <1>1, <1>4, <2>1, <2>2 DEF Ind, LogInv, ops
<1>12. LogInv'
  BY <1>1, <1>6, <1>10, <1>11, Zenon DEF Ind, LogInv, Promised, PerCommit
<1> QED BY <1>9, <1>12 DEF Ind
\* A refused write leaves what it did, and its writer goes on.
LEMMA LogFail ==
  ASSUME Ind, NEW c \in Writers, Fail(c)
  PROVE  Ind'
<1> USE DEF store, setup, hist
<1>1. UNCHANGED <<config, eng, up, log, synced, calls, acked, crashed>> /\ w' = [w EXCEPT ![c] = Idle]
  BY DEF Fail
<1>2. /\ w'[c] = Idle /\ \A d \in Writers : d # c => w'[d] = w[d]
      /\ w' = [d \in Writers |-> w'[d]]
  <2>1. w = [d \in Writers |-> w[d]]
    BY DEF Ind, LogOK
  <2> QED BY <1>1, <2>1, Zenon
<1>3. w' \in [Writers -> [pc : {"idle", "apply", "return"}, call : 0..Len(calls), pos : Nat]]
  <2>1. Idle \in [pc : {"idle", "apply", "return"}, call : 0..Len(calls), pos : Nat]
    BY DEF Ind, LogOK, Idle
  <2> QED BY <1>1, <2>1 DEF Ind, LogOK
<1>4. LogOK'
  BY <1>1, <1>3 DEF Ind, LogOK
<1>5. \A d \in Writers : w'[d].pc # "idle" => w'[d] = w[d]
  BY <1>2 DEF Idle
<1>6. LogInv'
  <2>1. /\ \A d, n : In(d, n, synced)' <=> In(d, n, synced)
        /\ \A d, n : In(d, n, Len(log))' <=> In(d, n, Len(log))
        /\ \A d : Promised(d)' <=> Promised(d)
    BY <1>1 DEF In, Promised, PerCommit
  <2>2. \A d \in acked' : eng'.caps.durable =>
          \A n \in DOMAIN calls'[d].ops :
            (Promised(d)' => In(d, n, synced)') /\ (~crashed' => In(d, n, Len(log))')
    BY <1>1, <2>1, Zenon DEF Ind, LogInv
  <2>3. eng'.txn => \A i \in DOMAIN log' :
          log'[i].from = 1 /\ log'[i].to = Len(calls'[log'[i].call].ops)
    BY <1>1, Zenon DEF Ind, LogInv
  <2>4. \A d \in Writers : w'[d].pc # "idle" =>
          /\ up' /\ w'[d].call \in DOMAIN calls'
          /\ \A n \in 1..w'[d].pos : In(w[d].call, n, Len(log))'
          /\ w'[d].pc = "return" => w'[d].pos = Len(calls'[w'[d].call].ops)
          /\ w'[d].pc = "apply" /\ eng'.txn => w'[d].pos = 0
    BY <1>1, <1>5, <2>1 DEF Ind, LogInv
  <2> QED BY <2>2, <2>3, <2>4, Zenon DEF LogInv
<1> QED BY <1>4, <1>6 DEF Ind

\* The call syncs as its level demands, and is acknowledged.
LEMMA LogReturn ==
  ASSUME Ind, NEW c \in Writers, Return(c)
  PROVE  Ind'
<1>0. PICK id : id = w[c].call
  OBVIOUS
<1>1. /\ w[c].pc = "return" /\ w' = [w EXCEPT ![c] = Idle]
      /\ synced' = IF calls[id].kind \in eng.syncs THEN Len(log) ELSE synced
      /\ acked' = acked \cup {id}
      /\ UNCHANGED <<config, eng, up, log, calls, crashed>>
  BY <1>0, Zenon DEF Return, setup
<1>2. /\ id \in DOMAIN calls
      /\ \A n \in DOMAIN calls[id].ops : In(id, n, Len(log))
  <2>1. id \in DOMAIN calls /\ w[c].pos = Len(calls[id].ops)
        /\ \A n \in 1..w[c].pos : In(id, n, Len(log))
    BY <1>0, <1>1, Zenon DEF Ind, LogInv
  <2> QED BY <2>1, CallTypes DEF Ind
<1>3. Len(log) \in Nat /\ synced \in 0..Len(log) /\ synced' \in synced..Len(log)
  <2>1. Len(log) \in Nat /\ synced \in 0..Len(log)
    BY DEF Ind, LogOK
  <2>2. synced' = synced \/ synced' = Len(log)
    BY <1>1
  <2> QED BY <2>1, <2>2
<1>4. /\ w'[c] = Idle /\ \A d \in Writers : d # c => w'[d] = w[d]
      /\ w' = [d \in Writers |-> w'[d]]
  <2>1. w = [d \in Writers |-> w[d]]
    BY DEF Ind, LogOK
  <2> QED BY <1>1, <2>1, Zenon
<1>5. LogOK'
  <2>1. Idle \in [pc : {"idle", "apply", "return"}, call : 0..Len(calls), pos : Nat]
    BY DEF Ind, LogOK, Idle
  <2>2. w' \in [Writers -> [pc : {"idle", "apply", "return"}, call : 0..Len(calls), pos : Nat]]
    BY <1>1, <2>1 DEF Ind, LogOK
  <2>3. synced' \in 0..Len(log)
    BY <1>3
  <2>4. acked' \subseteq DOMAIN calls
    BY <1>1, <1>2 DEF Ind, LogOK
  <2> QED BY <1>1, <2>2, <2>3, <2>4, Zenon DEF Ind, LogOK
<1>6. /\ \A d, n : In(d, n, synced) => In(d, n, synced)'
      /\ \A d, n : In(d, n, Len(log)) => In(d, n, Len(log))'
  BY <1>1, <1>3, LogGrows
<1>7. eng.caps.durable /\ Promised(id) => synced' = Len(log)
  BY <1>1, <1>2, CallTypes, Designs DEF Ind
<1>8. eng.caps.durable /\ Promised(id) =>
        \A n \in DOMAIN calls[id].ops : In(id, n, synced)'
  BY <1>1, <1>2, <1>7 DEF In
<1>9. \A d \in Writers : w'[d].pc # "idle" => w'[d] = w[d]
  BY <1>4 DEF Idle
<1>10. \A d \in acked' : eng'.caps.durable =>
         \A n \in DOMAIN calls'[d].ops :
           (Promised(d)' => In(d, n, synced)') /\ (~crashed' => In(d, n, Len(log))')
  <2>1. \A d : Promised(d)' <=> Promised(d)
    BY <1>1 DEF Promised, PerCommit
  <2>2. \A d \in acked : eng.caps.durable =>
          \A n \in DOMAIN calls[d].ops :
            (Promised(d) => In(d, n, synced)') /\ (~crashed => In(d, n, Len(log))')
    BY <1>6, Zenon DEF Ind, LogInv
  <2>3. eng.caps.durable =>
          \A n \in DOMAIN calls[id].ops :
            (Promised(id) => In(id, n, synced)') /\ In(id, n, Len(log))'
    BY <1>2, <1>6, <1>8
  <2> QED BY <1>1, <2>1, <2>2, <2>3
<1>11. LogInv'
  <2>1. eng'.txn => \A i \in DOMAIN log' :
          log'[i].from = 1 /\ log'[i].to = Len(calls'[log'[i].call].ops)
    BY <1>1, Zenon DEF Ind, LogInv
  <2>2. \A d \in Writers : w'[d].pc # "idle" =>
          /\ up' /\ w'[d].call \in DOMAIN calls'
          /\ \A n \in 1..w'[d].pos : In(w[d].call, n, Len(log))'
          /\ w'[d].pc = "return" => w'[d].pos = Len(calls'[w'[d].call].ops)
          /\ w'[d].pc = "apply" /\ eng'.txn => w'[d].pos = 0
    BY <1>1, <1>6, <1>9 DEF Ind, LogInv
  <2> QED BY <1>10, <2>1, <2>2, Zenon DEF LogInv
<1> QED BY <1>5, <1>11 DEF Ind

\* Every step keeps the invariant of the log.
LEMMA LogStep == Ind /\ [Next]_vars => Ind'
<1> SUFFICES ASSUME Ind, [Next]_vars PROVE Ind'
  OBVIOUS
<1>1. CASE UNCHANGED <<store, hist, w>>
  BY <1>1, LogUntouched
<1>2. CASE Next
  <2>1. CASE Open \/ Close \/ Flush \/ Crash
    BY <2>1, LogOpen, LogFlush, LogCrash
  <2>2. CASE \E c \in Writers :
               (\E call \in Calls : Call(c, call)) \/ Apply(c) \/ Fail(c) \/ Return(c)
    BY <2>2, LogCall, LogApply, LogFail, LogReturn
  <2>3. CASE (\E start \in Starts, len \in ScanLens : Scan(start, len)) \/ Scanner \/ Producer
    <3>1. UNCHANGED <<store, hist, w>>
      BY <2>3, Zenon
      DEF Scan, Scanner, Next_, Receive, CloseIter, Drain, Producer, View, Send,
          EndView, CloseChan
    <3> QED BY <1>1, <3>1
  <2> QED BY <1>2, <2>1, <2>2, <2>3 DEF Next
<1> QED BY <1>1, <1>2 DEF vars

\* Init establishes the invariant of the log and every step keeps it.
LEMMA LogAlways == Spec => []Ind
  BY LogBegins, LogStep, PTL DEF Spec

\* The sync of a call comes between its last operation and its return, so what
\* returned with a promise lies in the synced part of the log, which no crash
\* takes away.
LEMMA AckedRests == Ind => AckedSurvives
<1> SUFFICES ASSUME Ind, NEW id \in acked, eng.caps.durable, crashed => Promised(id),
                    NEW n \in DOMAIN calls[id].ops
             PROVE  In(id, n, Len(log))
  BY DEF AckedSurvives
<1>1. (Promised(id) => In(id, n, synced)) /\ (~crashed => In(id, n, Len(log)))
  BY Zenon DEF Ind, LogInv
<1>2. 1..synced \subseteq 1..Len(log)
  BY DEF Ind, LogOK
<1>3. In(id, n, synced) => In(id, n, Len(log))
  BY <1>2 DEF In
<1>4. crashed \in BOOLEAN
  BY DEF Ind, LogOK
<1> QED BY <1>1, <1>3, <1>4

\* For every embedded adapter and level, any writers and any crashes: a write
\* that returned is there until a crash, and under per-commit durability after
\* it, pogreb's Delete excepted.
THEOREM WritesAlways == Spec => []WritesSurvive
<1>1. Ind => WritesSurvive
  BY AckedRests DEF Ind, WritesSurvive
<1> QED BY <1>1, LogAlways, PTL

\* An adapter that declares AtomicBatch has whole batches in its log, whatever
\* is under way, was refused or was lost in a crash: its Commit is one
\* transaction of the library.
THEOREM BatchesWhole == Spec => []BatchAllOrNothing
<1>1. Ind => BatchAllOrNothing
  <2> SUFFICES ASSUME Ind, eng.caps.atomicBatch, NEW id \in DOMAIN calls,
                      NEW m \in DOMAIN calls[id].ops, NEW n \in DOMAIN calls[id].ops,
                      In(id, m, Len(log))
               PROVE  In(id, n, Len(log))
    BY DEF BatchAllOrNothing
  <2>1. PICK i \in 1..Len(log) : log[i].call = id /\ m \in log[i].from..log[i].to
    BY DEF In
  <2>2. DOMAIN log = 1..Len(log)
    BY DEF Ind, LogOK
  <2>3. log[i].from = 1 /\ log[i].to = Len(calls[id].ops)
    BY <2>1, <2>2, Designs, Zenon DEF Ind, LogInv
  <2>4. n \in log[i].from..log[i].to
    BY <2>3, CallTypes, Zenon DEF Ind
  <2> QED BY <2>1, <2>4 DEF In
<1> QED BY <1>1, LogAlways, PTL

-----------------------------------------------------------------------------
\* The iterators, and the fields their steps replace.
Iterators ==
  /\ IteratorLeavesNothing /\ OnlyStreams
  /\ "pc" \in DOMAIN sc /\ "pc" \in DOMAIN prod

\* There is none before the first scan.
LEMMA IteratorsBegin == Init => Iterators
  BY DEF Init, NoScan, NoProd, Iterators, IteratorLeavesNothing, OnlyStreams

\* The Close of buntdb drains the channel until the goroutine has closed it.
LEMMA IteratorsStep == Iterators /\ [Next]_vars => Iterators'
<1> SUFFICES ASSUME Iterators, [Next]_vars PROVE Iterators'
  OBVIOUS
<1> USE DEF Iterators, IteratorLeavesNothing, OnlyStreams
<1> USE DEF store, setup, hist
<1>1. CASE UNCHANGED <<eng, sc, prod, ch>>
  BY <1>1
<1>2. CASE Open \/ Close \/ Flush
  BY <1>1, <1>2 DEF Open, Close, Flush
<1>3. CASE Crash
  BY <1>3, Zenon DEF Crash, NoScan, NoProd
<1>4. ASSUME NEW c \in Writers, (\E call \in Calls : Call(c, call)) \/ Fail(c) \/ Return(c)
      PROVE  Iterators'
  BY <1>1, <1>4, Zenon DEF Call, Fail, Return
<1>5. ASSUME NEW c \in Writers, Apply(c) PROVE Iterators'
  <2>1. UNCHANGED <<eng, prod, ch>> /\ Watch
    BY <1>5, Zenon DEF Apply
  <2>2. sc'.pc = sc.pc /\ "pc" \in DOMAIN sc'
    BY <2>1 DEF Watch
  <2> QED BY <2>1, <2>2
<1>6. ASSUME NEW start \in Starts, NEW len \in ScanLens, Scan(start, len)
      PROVE  Iterators'
  BY <1>6 DEF Scan, NoScan, NoProd
<1>7. CASE Next_
  <2>1. UNCHANGED <<eng, prod, ch>> /\ eng.scan # "stream" /\ "pc" \in DOMAIN sc'
    BY <1>7 DEF Next_, Delivered, Exhausted
  <2> QED BY <2>1
<1>8. CASE Receive
  <2>1. UNCHANGED <<eng, prod>> /\ eng.scan = "stream"
    BY <1>8 DEF Receive
  <2>2. sc'.pc # "idle" /\ "pc" \in DOMAIN sc'
    BY <1>8, Zenon DEF Receive, Delivered, Exhausted
  <2> QED BY <2>1, <2>2
<1>9. CASE CloseIter
  BY <1>9 DEF CloseIter, NoScan
<1>10. CASE Drain
  BY <1>10 DEF Drain, NoScan, NoProd
<1>11. CASE View
  BY <1>11 DEF View
<1>12. CASE Send
  BY <1>12 DEF Send
<1>13. CASE EndView
  BY <1>13 DEF EndView
<1>14. CASE CloseChan
  BY <1>14 DEF CloseChan
<1>15. CASE UNCHANGED vars
  BY <1>1, <1>15 DEF vars
<1> QED
  BY <1>2, <1>3, <1>4, <1>5, <1>6, <1>7, <1>8, <1>9, <1>10, <1>11, <1>12, <1>13,
     <1>14, <1>15
  DEF Next, Scanner, Producer

\* An iterator is closed behind its goroutine: the Close of buntdb drains the
\* channel until the goroutine, its transaction ended, has closed it, whether
\* the scan ran to its end, stopped early or never began its transaction.
THEOREM IteratorsEnd == Spec => []IteratorLeavesNothing
<1>1. Iterators => IteratorLeavesNothing
  BY DEF Iterators
<1> QED BY <1>1, IteratorsBegin, IteratorsStep, PTL DEF Spec

-----------------------------------------------------------------------------
(***************************************************************************)
(* The map of the library and the rows of a scan.                          *)
(***************************************************************************)
Maps == [Keys -> Values \cup {Absent}]
Rows == [key : Keys, val : Values \cup {Absent}]

\* The last of some operations or entries is one of them.
LEMMA LastIsOne ==
  ASSUME NEW n \in Nat, NEW S \in SUBSET (1..n), S # {}
  PROVE  Max(S) \in S
<1>1. PICK R : R = OpToRel(<, Nat)
  BY Zenon
<1>2. IsWellFoundedOn(R, Nat)
  BY <1>1, NatLessThanWellFounded, Zenon
<1>3. PICK T : T = {n - i : i \in S}
  BY Zenon
<1>4. T \in SUBSET Nat /\ T # {}
  <2>1. \A i \in S : n - i \in Nat
    OBVIOUS
  <2>2. \E i \in S : n - i \in T
    BY <1>3, Zenon
  <2> QED BY <1>3, <2>1, <2>2
<1>5. PICK t \in T : \A u \in T : ~ (<<u, t>> \in R)
  BY <1>2, <1>4, WFMin, Zenon
<1>6. PICK x \in S : t = n - x
  BY <1>3, <1>5
<1>7. \A y \in S : x >= y
  <2> TAKE y \in S
  <2>1. n - y \in T /\ n - y \in Nat /\ t \in Nat
    BY <1>3, <1>4, <1>5, Zenon
  <2>2. ~ (n - y < t)
    BY <1>1, <1>5, <2>1, Zenon DEF OpToRel
  <2> QED BY <1>6, <2>1, <2>2
<1> QED BY <1>7, Zenon DEF Max

\* The number of keys up to one of them grows with it.
LEMMA RankGrows ==
  ASSUME NEW S \in SUBSET Nat, IsFiniteSet(S)
  PROVE  /\ \A k \in S : Rank(S, k) \in 1..Cardinality(S)
         /\ \A j, k \in S : j < k => Rank(S, j) < Rank(S, k)
<1> DEFINE U(k) == {j \in S : j <= k}
<1>1. \A k \in S : IsFiniteSet(U(k)) /\ Cardinality(U(k)) \in Nat /\ Cardinality(U(k)) <= Cardinality(S)
  <2> TAKE k \in S
  <2>1. PICK V : V = U(k)
    BY Zenon
  <2>2. V \in SUBSET S
    BY <2>1
  <2>3. IsFiniteSet(V) /\ Cardinality(V) <= Cardinality(S)
    BY <2>2, FS_Subset, Zenon
  <2>4. Cardinality(V) \in Nat
    BY <2>3, FS_CardinalityType, Zenon
  <2> QED BY <2>1, <2>3, <2>4
<1>2. Cardinality(S) \in Nat
  BY FS_CardinalityType, Zenon
<1>3. ASSUME NEW k \in S PROVE Cardinality(U(k)) # 0
  <2>1. k \in U(k)
    OBVIOUS
  <2> HIDE DEF U
  <2> QED BY <1>1, <2>1, FS_EmptySet, Zenon
<1>4. ASSUME NEW j \in S, NEW k \in S, j < k PROVE Cardinality(U(j)) < Cardinality(U(k))
  <2>1. U(j) \in SUBSET U(k) /\ k \in U(k) /\ k \notin U(j)
    <3>1. \A i \in S : i <= j => i <= k
      BY <1>4
    <3>2. k <= k /\ ~ (k <= j)
      BY <1>4
    <3> QED BY <3>1, <3>2, Zenon
  <2>2. PICK V, W : V = U(j) /\ W = U(k)
    BY Zenon
  <2>3. V \in SUBSET W /\ V # W /\ IsFiniteSet(W)
    BY <1>1, <2>1, <2>2
  <2>4. Cardinality(V) <= Cardinality(W) /\ Cardinality(V) # Cardinality(W)
    BY <2>3, FS_Subset, Zenon
  <2>5. Cardinality(V) \in Nat /\ Cardinality(W) \in Nat
    BY <1>1, <2>2
  <2> QED BY <2>2, <2>4, <2>5
<1>5. \A k : Rank(S, k) = Cardinality(U(k))
  BY DEF Rank
<1> HIDE DEF U
<1> QED BY <1>1, <1>2, <1>3, <1>4, <1>5

\* So there is an n-th key for every n up to their number.
LEMMA NthKey ==
  ASSUME NEW S \in SUBSET Nat, IsFiniteSet(S), NEW n \in 1..Cardinality(S)
  PROVE  \E k \in S : Rank(S, k) = n
<1>1. PICK R : R = {Rank(S, k) : k \in S}
  BY Zenon
<1>2. Cardinality(S) \in Nat
  BY FS_CardinalityType, Zenon
<1>3. R \in SUBSET (1..Cardinality(S))
  BY <1>1, RankGrows
<1>4. PICK f : f = [k \in S |-> Rank(S, k)]
  BY Zenon
<1>5. f \in Surjection(S, R)
  BY <1>1, <1>4, Zenon DEF Surjection
<1>6. f \in Injection(S, R)
  <2>1. \A j, k \in S : f[j] = f[k] => j = k
    <3> SUFFICES ASSUME NEW j \in S, NEW k \in S, Rank(S, j) = Rank(S, k) PROVE j = k
      BY <1>4
    <3>1. Rank(S, j) \in Nat /\ Rank(S, k) \in Nat /\ j \in Nat /\ k \in Nat
      BY <1>2, RankGrows
    <3>2. ~ (j < k) /\ ~ (k < j)
      BY <3>1, RankGrows
    <3> QED BY <3>1, <3>2
  <2>2. f \in [S -> R]
    BY <1>5, Zenon DEF Surjection
  <2> QED BY <2>1, <2>2, Zenon DEF Injection, IsInjective
<1>7. Cardinality(R) = Cardinality(S)
  BY <1>5, <1>6, FS_Surjection, Zenon
<1>8. IsFiniteSet(1..Cardinality(S)) /\ Cardinality(1..Cardinality(S)) = Cardinality(S)
  BY <1>2, FS_Interval
<1>9. R = 1..Cardinality(S)
  BY <1>3, <1>7, <1>8, FS_Subset, Zenon
<1> QED BY <1>1, <1>9

\* The keys of a map are finitely many.
LEMMA KeysFinite ==
  ASSUME NEW m, NEW start
  PROVE  /\ KeysFrom(m, start) \in SUBSET Nat /\ KeysFrom(m, start) \subseteq Keys
         /\ IsFiniteSet(KeysFrom(m, start))
         /\ Cardinality(KeysFrom(m, start)) \in 0..NKeys
<1>1. KeysFrom(m, start) \in SUBSET Keys
  BY DEF KeysFrom
<1>2. Keys \subseteq Nat /\ IsFiniteSet(Keys) /\ Cardinality(Keys) = NKeys
  BY EmbeddedAssumption, FS_Interval DEF Keys
<1>3. IsFiniteSet(KeysFrom(m, start)) /\ Cardinality(KeysFrom(m, start)) <= NKeys
  BY <1>1, <1>2, FS_Subset, Zenon
<1>4. Cardinality(KeysFrom(m, start)) \in Nat
  BY <1>3, FS_CardinalityType, Zenon
<1>5. Cardinality(KeysFrom(m, start)) \in 0..NKeys
  <2>1. PICK c \in Nat : c = Cardinality(KeysFrom(m, start))
    BY <1>4, Zenon
  <2>2. c <= NKeys
    BY <1>3, <2>1, Zenon
  <2>3. c \in 0..NKeys
    BY <2>2, EmbeddedAssumption
  <2> QED BY <2>1, <2>3, Zenon
<1> QED BY <1>1, <1>2, <1>3, <1>5, Zenon

\* The n-th row has the n-th key.
LEMMA RowOf ==
  ASSUME NEW m, NEW start, NEW S, S = KeysFrom(m, start), NEW rows, rows = RowsFrom(m, start),
         NEW n \in 1..Cardinality(S)
  PROVE  /\ rows[n].key \in S /\ Rank(S, rows[n].key) = n
         /\ rows[n] = [key |-> rows[n].key, val |-> m[rows[n].key]]
<1>1. \E k \in S : Rank(S, k) = n
  BY KeysFinite, NthKey
<1>2. PICK k : k = CHOOSE j \in S : Rank(S, j) = n
  BY Zenon
<1>3. k \in S /\ Rank(S, k) = n
  BY <1>1, <1>2, Zenon
<1>4. rows[n] = [key |-> k, val |-> m[k]]
  BY <1>2, Zenon DEF RowsFrom
<1>5. rows[n].key = k
  BY <1>4
<1> QED BY <1>3, <1>4, <1>5, Zenon

\* A scan's rows are rows, and no more than there are keys.
LEMMA RowsType ==
  ASSUME NEW m \in Maps, NEW start
  PROVE  RowsFrom(m, start) \in Seq(Rows) /\ Len(RowsFrom(m, start)) <= NKeys
<1>0. PICK S : S = KeysFrom(m, start)
  BY Zenon
<1>1. PICK n : n = Cardinality(S)
  BY Zenon
<1>2. n \in Nat /\ n <= NKeys
  BY <1>0, <1>1, KeysFinite, EmbeddedAssumption
<1>3. PICK rows : rows = RowsFrom(m, start)
  BY Zenon
<1>4. rows = [i \in 1..n |-> rows[i]]
  BY <1>0, <1>1, <1>3, Zenon DEF RowsFrom
<1>5. \A i \in 1..n : rows[i] \in Rows
  <2> TAKE i \in 1..n
  <2>0. PICK k : k = rows[i].key
    BY Zenon
  <2>1. k \in S /\ rows[i] = [key |-> k, val |-> m[k]]
    BY <1>0, <1>1, <1>3, <2>0, RowOf
  <2>2. k \in Keys /\ m[k] \in Values \cup {Absent}
    BY <1>0, <2>1, KeysFinite, Zenon DEF Maps
  <2> QED BY <2>1, <2>2 DEF Rows
<1>6. rows \in Seq(Rows) /\ Len(rows) = n
  BY <1>2, <1>4, <1>5
<1> QED BY <1>2, <1>3, <1>6

\* And they are the map: its keys from the start on, each once, in their order,
\* with their values.
LEMMA RowsInOrder ==
  ASSUME NEW m \in Maps, NEW start, NEW rows, rows = RowsFrom(m, start)
  PROVE  /\ \A i \in DOMAIN rows : rows[i].val = m[rows[i].key]
         /\ \A i, j \in DOMAIN rows : i < j => rows[i].key < rows[j].key
         /\ {rows[i].key : i \in DOMAIN rows} = KeysFrom(m, start)
<1>1. PICK S : S = KeysFrom(m, start)
  BY Zenon
<1>2. S \in SUBSET Nat /\ IsFiniteSet(S) /\ DOMAIN rows = 1..Cardinality(S)
      /\ Cardinality(S) \in Nat
  BY <1>1, KeysFinite, EmbeddedAssumption DEF RowsFrom
<1>3. \A i \in DOMAIN rows :
        rows[i].key \in S /\ Rank(S, rows[i].key) = i /\ rows[i].val = m[rows[i].key]
  <2>1. \A i \in 1..Cardinality(S) :
          rows[i].key \in S /\ Rank(S, rows[i].key) = i /\ rows[i].val = m[rows[i].key]
    <3> TAKE i \in 1..Cardinality(S)
    <3>1. /\ rows[i].key \in S /\ Rank(S, rows[i].key) = i
          /\ rows[i] = [key |-> rows[i].key, val |-> m[rows[i].key]]
      BY <1>1, RowOf
    <3>2. rows[i].val = m[rows[i].key]
      BY <3>1
    <3> QED BY <3>1, <3>2, Zenon
  <2> QED BY <1>2, <2>1, Zenon
<1>4. ASSUME NEW j \in S, NEW k \in S, Rank(S, j) < Rank(S, k) PROVE j < k
  <2>1. Rank(S, j) \in Nat /\ Rank(S, k) \in Nat /\ j \in Nat /\ k \in Nat
    BY <1>2, RankGrows
  <2>2. ~ (k < j) /\ j # k
    BY <1>2, <1>4, <2>1, RankGrows
  <2> QED BY <2>1, <2>2
<1>5. \A i, j \in DOMAIN rows : i < j => rows[i].key < rows[j].key
  BY <1>3, <1>4
<1>6. ASSUME NEW k \in S PROVE \E i \in DOMAIN rows : rows[i].key = k
  <2>0. Rank(S, k) \in DOMAIN rows
    BY <1>2, RankGrows, Zenon
  <2>1. PICK i \in DOMAIN rows : i = Rank(S, k)
    BY <2>0, Zenon
  <2>2. PICK j : j = rows[i].key
    BY Zenon
  <2>3. j \in S /\ Rank(S, j) = Rank(S, k)
    BY <1>3, <2>1, <2>2, Zenon
  <2>5. Rank(S, k) \in Nat /\ j \in Nat /\ k \in Nat
    BY <1>2, <2>0, <2>3
  <2>4. ~ (j < k) /\ ~ (k < j)
    BY <1>2, <2>3, <2>5, RankGrows
  <2> QED BY <2>1, <2>2, <2>4, <2>5
<1> QED BY <1>1, <1>3, <1>5, <1>6

\* An entry is a part of its call.
EntryOK(e) ==
  /\ e \in [call : DOMAIN calls, from : Nat \ {0}, to : Nat]
  /\ e.to <= Len(calls[e.call].ops)

\* The last write of a key in an entry.
LEMMA LastHit ==
  ASSUME LogOK, NEW e, EntryOK(e), NEW k, Hits(e, k) # {}
  PROVE  calls[e.call].ops[Max(Hits(e, k))].val \in Values \cup {Absent}
<1>1. PICK ops, n : ops = calls[e.call].ops /\ n = Len(ops)
  BY Zenon
<1>2. ops \in Seq(Ops)
  <2>1. calls[e.call] \in Calls \cup {Load}
    BY DEF LogOK, EntryOK
  <2>2. CASE calls[e.call] \in Calls
    BY <1>1, <2>2, EmbeddedAssumption
  <2>3. CASE calls[e.call] = Load
    <3>1. ops = [i \in 1..NKeys |-> [key |-> i, val |-> Loaded]]
      BY <1>1, <2>3 DEF Load, Keys
    <3>2. \A i \in 1..NKeys : [key |-> i, val |-> Loaded] \in Ops
      BY EmbeddedAssumption DEF Ops, Keys
    <3> QED BY <3>1, <3>2, EmbeddedAssumption
  <2> QED BY <2>1, <2>2, <2>3, Zenon
<1>3. n \in Nat /\ Hits(e, k) \in SUBSET (1..n)
  BY <1>1, <1>2 DEF EntryOK, Hits
<1>4. PICK x : x = Max(Hits(e, k))
  BY Zenon
<1>5. x \in 1..n
  BY <1>3, <1>4, LastIsOne, Zenon
<1>6. ops[x] \in Ops
  BY <1>1, <1>2, <1>5
<1> QED BY <1>1, <1>4, <1>6, Zenon DEF Ops

\* A map stays a map.
LEMMA WrittenType ==
  ASSUME LogOK, NEW m \in Maps, NEW e, EntryOK(e)
  PROVE  Written(m, e) \in Maps
<1>1. \A k \in Keys : Hits(e, k) # {} => calls[e.call].ops[Max(Hits(e, k))].val \in Values \cup {Absent}
  BY LastHit, Zenon
<1> QED BY <1>1, Zenon DEF Written, Maps

\* And a log makes one.
LEMMA ReplayType ==
  ASSUME LogOK, NEW n \in Nat, NEW l, DOMAIN l = 1..n, \A i \in 1..n : EntryOK(l[i])
  PROVE  Replay(l) \in Maps
<1> DEFINE Hit(k) == {i \in DOMAIN l : Hits(l[i], k) # {}}
<1>1. Empty \in Maps
  BY DEF Empty, Maps
<1>2. ASSUME NEW k \in Keys, Hit(k) # {}
      PROVE  Written(Empty, l[Max(Hit(k))])[k] \in Values \cup {Absent}
  <2>1. Hit(k) \in SUBSET (1..n)
    OBVIOUS
  <2>2. PICK x : x = Max(Hit(k))
    BY Zenon
  <2> HIDE DEF Hit
  <2>3. x \in 1..n
    BY <1>2, <2>1, <2>2, LastIsOne, Zenon
  <2>4. Written(Empty, l[x]) \in Maps
    BY <1>1, <2>3, WrittenType
  <2>5. Written(Empty, l[x])[k] \in Values \cup {Absent}
    BY <2>4 DEF Maps
  <2> QED BY <2>2, <2>5
<1>3. Replay(l) = [k \in Keys |-> IF Hit(k) = {} THEN Absent ELSE Written(Empty, l[Max(Hit(k))])[k]]
  BY Zenon DEF Replay
<1> HIDE DEF Hit
<1> QED BY <1>2, <1>3 DEF Maps

\* A write at the end of the log overwrites what its keys had.
LEMMA ReplayAppend ==
  ASSUME NEW n \in Nat, NEW l, DOMAIN l = 1..n, NEW e,
         NEW l2, DOMAIN l2 = 1..(n + 1), l2[n + 1] = e, \A i \in 1..n : l2[i] = l[i]
  PROVE  Replay(l2) = Written(Replay(l), e)
<1> DEFINE Hit(k) == {i \in DOMAIN l : Hits(l[i], k) # {}}
           Hit2(k) == {i \in DOMAIN l2 : Hits(l2[i], k) # {}}
           Old(k) == IF Hit(k) = {} THEN Absent ELSE Written(Empty, l[Max(Hit(k))])[k]
           New(k) == IF Hit2(k) = {} THEN Absent ELSE Written(Empty, l2[Max(Hit2(k))])[k]
           Put(k) == calls[e.call].ops[Max(Hits(e, k))].val
<1>1. Replay(l) = [k \in Keys |-> Old(k)] /\ Replay(l2) = [k \in Keys |-> New(k)]
  BY Zenon DEF Replay
<1>2. Written(Replay(l), e) = [k \in Keys |-> IF Hits(e, k) = {} THEN Old(k) ELSE Put(k)]
  <2>1. \A k \in Keys : Replay(l)[k] = Old(k)
    BY <1>1, Zenon
  <2>2. Written(Replay(l), e) = [k \in Keys |-> IF Hits(e, k) = {} THEN Replay(l)[k] ELSE Put(k)]
    BY Zenon DEF Written
  <2> HIDE DEF Old, Put
  <2> QED BY <2>1, <2>2, Zenon
<1>3. ASSUME NEW k \in Keys, Hits(e, k) = {} PROVE New(k) = Old(k)
  <2>1. Hit2(k) = Hit(k)
    BY <1>3
  <2>2. ASSUME Hit(k) # {} PROVE l2[Max(Hit(k))] = l[Max(Hit(k))]
    <3>1. Hit(k) \in SUBSET (1..n)
      OBVIOUS
    <3> HIDE DEF Hit
    <3> QED BY <2>2, <3>1, LastIsOne, Zenon
  <2> HIDE DEF Hit, Hit2
  <2> QED BY <2>1, <2>2, Zenon
<1>4. ASSUME NEW k \in Keys, Hits(e, k) # {} PROVE New(k) = Put(k)
  <2>1. n + 1 \in Hit2(k) /\ Hit2(k) \in SUBSET (1..(n + 1))
    BY <1>4
  <2>2. PICK x : x = Max(Hit2(k))
    BY Zenon
  <2>3. x = n + 1
    <3> HIDE DEF Hit2
    <3>1. n + 1 >= n + 1 /\ \A y \in Hit2(k) : n + 1 >= y
      BY <2>1
    <3>2. x \in Hit2(k) /\ \A y \in Hit2(k) : x >= y
      BY <2>1, <2>2, <3>1, Zenon DEF Max
    <3> QED BY <2>1, <3>2
  <2>4. Written(Empty, e)[k] = Put(k)
    BY <1>4, Zenon DEF Written
  <2> HIDE DEF Hit2, Put
  <2> QED BY <2>1, <2>2, <2>3, <2>4
<1> HIDE DEF Old, New, Put
<1> QED BY <1>1, <1>2, <1>3, <1>4

\* The invariant of the map.
MemInd == ReadsLog /\ \A i \in DOMAIN log : EntryOK(log[i])

\* The map is one.
LEMMA MemType ==
  ASSUME Ind, MemInd
  PROVE  mem \in Maps
<1>1. PICK n \in Nat : DOMAIN log = 1..n
  BY DEF Ind, LogOK
<1>2. LogOK /\ mem = Replay(log) /\ \A i \in 1..n : EntryOK(log[i])
  BY <1>1 DEF Ind, MemInd, ReadsLog
<1>3. Replay(log) \in Maps
  BY <1>1, <1>2, ReplayType
<1> QED BY <1>2, <1>3

\* After the load every key has the loaded value.
LEMMA MemBegins == Init => MemInd
<1> SUFFICES ASSUME Init PROVE MemInd
  OBVIOUS
<1>1. PICK e : e = [call |-> 1, from |-> 1, to |-> NKeys]
  BY Zenon
<1>2. log = <<e>> /\ calls = <<Load>> /\ mem = [k \in Keys |-> Loaded]
  BY <1>1, Zenon DEF Init
<1>3. DOMAIN log = 1..1 /\ log[1] = e /\ calls[1] = Load /\ DOMAIN calls = 1..1
  BY <1>2
<1>4. PICK ops : ops = calls[e.call].ops
  BY Zenon
<1>5. ops = [k \in 1..NKeys |-> [key |-> k, val |-> Loaded]] /\ Len(ops) = NKeys
  <2>1. e.call = 1
    BY <1>1
  <2>2. ops = Load.ops
    BY <1>3, <1>4, <2>1
  <2>3. ops = [k \in 1..NKeys |-> [key |-> k, val |-> Loaded]]
    BY <2>2 DEF Load, Keys
  <2>4. \A k \in 1..NKeys : [key |-> k, val |-> Loaded] \in Ops
    BY EmbeddedAssumption DEF Ops, Keys
  <2>5. ops \in Seq(Ops)
    BY <2>3, <2>4, EmbeddedAssumption
  <2>6. DOMAIN ops = 1..NKeys
    BY <2>3
  <2>7. Len(ops) = NKeys
    BY <2>5, <2>6, EmbeddedAssumption
  <2> QED BY <2>3, <2>7, Zenon
<1>6. EntryOK(e)
  <2>1. e.to = NKeys /\ e.call = 1 /\ e.from = 1
        /\ e \in [call : 1..1, from : Nat \ {0}, to : Nat]
    BY <1>1, EmbeddedAssumption
  <2>2. Len(calls[e.call].ops) = NKeys
    BY <1>4, <1>5, Zenon
  <2> QED BY <1>3, <2>1, <2>2, EmbeddedAssumption DEF EntryOK
<1>7. ASSUME NEW k \in Keys PROVE Hits(e, k) = {k} /\ ops[k].val = Loaded /\ k \in Nat
  <2>1. e.from = 1 /\ e.to = NKeys
    BY <1>1
  <2>2. k \in 1..NKeys /\ \A i \in 1..NKeys : ops[i].key = i /\ ops[i].val = Loaded
    BY <1>5 DEF Keys
  <2> QED BY <1>4, <2>1, <2>2 DEF Hits
<1>8. ASSUME NEW k \in Keys PROVE Written(Empty, e)[k] = Loaded
  <2>1. Max({k}) = k
    BY <1>7 DEF Max
  <2>2. Written(Empty, e)[k] = calls[e.call].ops[Max(Hits(e, k))].val
    BY <1>7, Zenon DEF Written
  <2> QED BY <1>4, <1>7, <2>1, <2>2, Zenon
<1>9. ReadsLog
  <2> DEFINE Hit(k) == {i \in DOMAIN log : Hits(log[i], k) # {}}
  <2>1. ASSUME NEW k \in Keys PROVE Hit(k) = {1}
    BY <1>3, <1>7
  <2>2. Max({1}) = 1
    BY DEF Max
  <2>3. Replay(log) = [k \in Keys |-> IF Hit(k) = {} THEN Absent ELSE Written(Empty, log[Max(Hit(k))])[k]]
    BY Zenon DEF Replay
  <2> HIDE DEF Hit
  <2>4. Replay(log) = [k \in Keys |-> Loaded]
    BY <1>3, <1>8, <2>1, <2>2, <2>3
  <2> QED BY <1>2, <2>4 DEF ReadsLog
<1> QED BY <1>3, <1>6, <1>9 DEF MemInd

\* A log reads the same when calls are added that it has no entries of.
LEMMA SameReplay ==
  ASSUME NEW n \in Nat, DOMAIN log = 1..n, UNCHANGED log,
         \A i \in 1..n : calls'[log[i].call] = calls[log[i].call]
  PROVE  Replay(log)' = Replay(log)
<1>1. \A i \in 1..n : \A k : Hits(log[i], k)' = Hits(log[i], k)
  BY Zenon DEF Hits
<1>2. PICK hit : hit = [k \in Keys |-> {i \in 1..n : Hits(log[i], k) # {}}]
  BY Zenon
<1>3. \A k \in Keys : hit[k] = {i \in DOMAIN log : Hits(log[i], k) # {}}
                   /\ hit[k] = {i \in DOMAIN log : Hits(log[i], k)' # {}}
  BY <1>1, <1>2, Zenon
<1>4. PICK f : f = [i \in 1..n |-> Written(Empty, log[i])]
  BY Zenon
<1>5. \A i \in 1..n : f[i] = Written(Empty, log[i]) /\ f[i] = Written(Empty, log[i])'
  BY <1>1, <1>4, Zenon DEF Written, Empty
<1>6. \A k \in Keys : hit[k] # {} => Max(hit[k]) \in 1..n
  <2> TAKE k \in Keys
  <2>1. PICK T : T = hit[k]
    BY Zenon
  <2>2. T \in SUBSET (1..n)
    BY <1>2, <2>1
  <2> QED BY <2>1, <2>2, LastIsOne, Zenon
<1> DEFINE Same == [k \in Keys |-> IF hit[k] = {} THEN Absent ELSE f[Max(hit[k])][k]]
<1>7. Replay(log) = Same
  BY <1>3, <1>5, <1>6, Zenon DEF Replay
<1>8. Replay(log)' = Same
  BY <1>3, <1>5, <1>6, Zenon DEF Replay
<1> QED BY <1>7, <1>8, Zenon

\* What the next log gives depends on no other variable than the calls.
LEMMA NextReplay ==
  ASSUME NEW n \in Nat, DOMAIN log' = 1..n, UNCHANGED calls
  PROVE  Replay(log)' = Replay(log')
<1>1. \A i \in 1..n : \A k : Hits(log[i], k)' = Hits(log'[i], k)
  BY DEF Hits
<1>2. PICK hit : hit = [k \in Keys |-> {i \in 1..n : Hits(log'[i], k) # {}}]
  BY Zenon
<1>3. \A k \in Keys : hit[k] = {i \in DOMAIN log' : Hits(log'[i], k) # {}}
                   /\ hit[k] = {i \in DOMAIN log' : Hits(log[i], k)' # {}}
  BY <1>1, <1>2
<1>4. PICK f : f = [i \in 1..n |-> Written(Empty, log'[i])]
  BY Zenon
<1>5. \A i \in 1..n : f[i] = Written(Empty, log'[i]) /\ f[i] = Written(Empty, log[i])'
  BY <1>1, <1>4, Zenon DEF Written, Empty
<1>6. \A k \in Keys : hit[k] # {} => Max(hit[k]) \in 1..n
  <2> TAKE k \in Keys
  <2>1. PICK T : T = hit[k]
    BY Zenon
  <2>2. T \in SUBSET (1..n)
    BY <1>2, <2>1
  <2> QED BY <2>1, <2>2, LastIsOne, Zenon
<1> DEFINE Same == [k \in Keys |-> IF hit[k] = {} THEN Absent ELSE f[Max(hit[k])][k]]
<1>7. Replay(log') = Same
  BY <1>3, <1>5, <1>6, Zenon DEF Replay
<1>8. Replay(log)' = Same
  BY <1>3, <1>5, <1>6, Zenon DEF Replay
<1> QED BY <1>7, <1>8, Zenon

\* A step that writes nothing.
LEMMA MemUntouched ==
  ASSUME Ind, MemInd, UNCHANGED <<mem, log, calls>>
  PROVE  MemInd'
<1>1. PICK n \in Nat : DOMAIN log' = 1..n
  BY DEF Ind, LogOK
<1>2. Replay(log)' = Replay(log)
  BY <1>1, NextReplay
<1> QED BY <1>2 DEF MemInd, ReadsLog, EntryOK

\* The call that begins has written nothing.
LEMMA MemCall ==
  ASSUME Ind, MemInd, NEW c \in Writers, NEW call \in Calls, Call(c, call)
  PROVE  MemInd'
<1>1. UNCHANGED <<mem, log>> /\ calls' = Append(calls, call)
  BY DEF Call, store
<1>2. PICK n \in Nat : DOMAIN log = 1..n
  BY DEF Ind, LogOK
<1>3. /\ DOMAIN calls \subseteq DOMAIN calls' /\ \A id \in DOMAIN calls : calls'[id] = calls[id]
  <2>1. calls \in Seq(Calls \cup {Load})
    BY DEF Ind, LogOK
  <2> QED BY <1>1, <2>1
<1>4. \A i \in 1..n : EntryOK(log[i]) /\ log[i].call \in DOMAIN calls
  BY <1>2 DEF MemInd, EntryOK
<1>5. \A i \in 1..n : calls'[log[i].call] = calls[log[i].call]
  BY <1>3, <1>4, Zenon
<1>6. Replay(log)' = Replay(log)
  BY <1>1, <1>2, <1>5, SameReplay, Zenon
<1>7. \A i \in 1..n : EntryOK(log[i])'
  BY <1>1, <1>3, <1>4, <1>5, Zenon DEF EntryOK
<1> QED BY <1>1, <1>2, <1>6, <1>7 DEF MemInd, ReadsLog

\* Open of a store without a disk, and a crash.
LEMMA MemCut ==
  ASSUME Ind, MemInd, Open \/ Crash
  PROVE  MemInd'
<1>1. UNCHANGED calls
  BY DEF Open, Crash, hist
<1>2. \A i \in DOMAIN log' : i \in DOMAIN log /\ log'[i] = log[i]
  <2>1. CASE Open
    BY <2>1 DEF Open
  <2>2. CASE Crash
    <3>1. PICK n \in synced..Len(log) : log' = SubSeq(log, 1, n)
      BY <2>2 DEF Crash
    <3> DEFINE S == [call : DOMAIN calls, from : Nat \ {0}, to : Nat]
    <3>2. log \in Seq(S) /\ n \in Nat /\ n <= Len(log)
      BY <3>1 DEF Ind, LogOK
    <3> HIDE DEF S
    <3> QED BY <3>1, <3>2
  <2> QED BY <2>1, <2>2
<1>3. Replay(log)' = Replay(log')
  <2>1. log' \in Seq([call : DOMAIN calls', from : Nat \ {0}, to : Nat])
    BY LogStep DEF Next, Ind, LogOK
  <2>2. PICK n \in Nat : DOMAIN log' = 1..n
    BY <2>1
  <2> QED BY <1>1, <2>2, NextReplay
<1>4. mem' = Replay(log')
  <2>1. CASE Open /\ eng.caps.durable
    <3>1. UNCHANGED <<mem, log>>
      BY <2>1 DEF Open
    <3> QED BY <3>1 DEF MemInd, ReadsLog
  <2>2. CASE Open /\ ~eng.caps.durable
    <3>1. mem' = Empty /\ log' = <<>>
      BY <2>2 DEF Open
    <3>2. \A k : {i \in DOMAIN log' : Hits(log'[i], k) # {}} = {}
      BY <3>1
    <3> QED BY <3>1, <3>2 DEF Replay, Empty
  <2>3. CASE Crash
    BY <2>3 DEF Crash
  <2> QED BY <2>1, <2>2, <2>3
<1> QED BY <1>1, <1>2, <1>3, <1>4 DEF MemInd, ReadsLog, EntryOK

\* A write goes into the map and to the end of the log.
LEMMA MemApply ==
  ASSUME Ind, MemInd, NEW c \in Writers, Apply(c)
  PROVE  MemInd'
<1>1. PICK id : id = w[c].call
  BY Zenon
<1>2. PICK from : from = w[c].pos + 1
  BY Zenon
<1>3. PICK to : to = IF eng.txn THEN Len(calls[id].ops) ELSE from
  BY Zenon
<1>4. PICK e : e = [call |-> id, from |-> from, to |-> to]
  BY Zenon
<1>5. /\ w[c].pc = "apply" /\ from <= Len(calls[id].ops)
      /\ log' = Append(log, e) /\ mem' = Written(mem, e) /\ UNCHANGED calls
  BY <1>1, <1>2, <1>3, <1>4, Zenon DEF Apply, hist
<1>6. EntryOK(e)
  <2>1. id \in DOMAIN calls /\ w[c].pos \in Nat
    BY <1>1, <1>5, Zenon DEF Ind, LogInv, LogOK
  <2>2. Len(calls[id].ops) \in Nat
    BY <2>1, CallTypes DEF Ind
  <2>3. from \in Nat \ {0} /\ to \in Nat /\ to <= Len(calls[id].ops)
    BY <1>2, <1>3, <1>5, <2>1, <2>2
  <2>4. e.call = id /\ e.to = to /\ e \in [call : DOMAIN calls, from : Nat \ {0}, to : Nat]
    BY <1>4, <2>1, <2>3, Zenon
  <2> QED BY <2>3, <2>4 DEF EntryOK
<1>7. PICK n \in Nat : /\ DOMAIN log = 1..n /\ DOMAIN log' = 1..(n + 1) /\ log'[n + 1] = e
                       /\ \A i \in 1..n : log'[i] = log[i]
  <2> DEFINE S == [call : DOMAIN calls, from : Nat \ {0}, to : Nat]
  <2>1. log \in Seq(S) /\ e \in S
    BY <1>6 DEF Ind, LogOK, EntryOK
  <2> HIDE DEF S
  <2> QED BY <1>5, <2>1
<1>8. Replay(log') = Written(Replay(log), e)
  BY <1>7, ReplayAppend
<1>9. Replay(log)' = Replay(log')
  <2>1. n + 1 \in Nat /\ DOMAIN log' = 1..(n + 1)
    BY <1>7
  <2> QED BY <1>5, <2>1, NextReplay, Zenon
<1>10. ReadsLog'
  BY <1>5, <1>8, <1>9, Zenon DEF MemInd, ReadsLog
<1>11. \A i \in DOMAIN log' : EntryOK(log[i])'
  <2>1. \A x : EntryOK(x)' <=> EntryOK(x)
    BY <1>5, Zenon DEF EntryOK
  <2>2. \A i \in 1..n : EntryOK(log[i])
    BY <1>7, Zenon DEF MemInd
  <2>3. \A i \in 1..(n + 1) : i \in 1..n \/ i = n + 1
    OBVIOUS
  <2>4. \A i \in 1..(n + 1) : EntryOK(log'[i])
    BY <1>6, <1>7, <2>2, <2>3, Zenon
  <2> QED BY <1>5, <1>7, <2>4, Zenon DEF EntryOK
<1> QED BY <1>10, <1>11 DEF MemInd


\* Every step keeps the map and the log together.
LEMMA MemStep == Ind /\ MemInd /\ [Next]_vars => MemInd'
<1> SUFFICES ASSUME Ind, MemInd, [Next]_vars PROVE MemInd'
  OBVIOUS
<1>1. CASE UNCHANGED <<mem, log, calls>>
  BY <1>1, MemUntouched
<1>2. CASE Open \/ Crash
  BY <1>2, MemCut
<1>3. CASE Close \/ Flush
  BY <1>1, <1>3 DEF Close, Flush, hist
<1>4. ASSUME NEW c \in Writers, (\E call \in Calls : Call(c, call)) \/ Apply(c) PROVE MemInd'
  BY <1>4, MemCall, MemApply
<1>5. ASSUME NEW c \in Writers, Fail(c) \/ Return(c) PROVE MemInd'
  BY <1>1, <1>5, Zenon DEF Fail, Return, store, hist
<1>6. CASE (\E start \in Starts, len \in ScanLens : Scan(start, len)) \/ Scanner \/ Producer
  <2>1. UNCHANGED <<store, hist>>
    BY <1>6, Zenon
    DEF Scan, Scanner, Next_, Receive, CloseIter, Drain, Producer, View, Send,
        EndView, CloseChan
  <2> QED BY <1>1, <2>1 DEF store, hist
<1>7. CASE UNCHANGED vars
  BY <1>1, <1>7, Zenon DEF vars, store, hist
<1> QED BY <1>2, <1>3, <1>4, <1>5, <1>6, <1>7 DEF Next

-----------------------------------------------------------------------------
(***************************************************************************)
(* The scans.                                                              *)
(***************************************************************************)
Scans ==
  [pc : {"idle", "next", "close", "drain"}, start : Nat, len : Nat, rows : Seq(Rows),
   at : 0..(NKeys + 1), first : BOOLEAN, got : Seq(Rows), ended : BOOLEAN, seen : Seq(Maps)]
Producers ==
  [pc : {"gone", "spawned", "view", "closing"}, rows : Seq(Rows), at : Nat, done : BOOLEAN]

ScanTypes == sc \in Scans /\ prod \in Producers /\ ch \in Seq(Rows) /\ Len(ch) <= ChanCap

\* A cursor, a set of rows or an iterator of memory: it goes through the rows of
\* the map in which it was opened, one for each Next.
CursorInv ==
  /\ sc.rows = RowsFrom(sc.seen[1], sc.start)
  /\ Len(sc.got) <= Len(sc.rows) /\ (sc.ended => Len(sc.got) = Len(sc.rows))
  /\ sc.first => sc.got = <<>> /\ (eng.scan = "seeked" => sc.at = 1)
  /\ ~sc.first => sc.at = Len(sc.got)
  /\ eng.scan # "live" => Begins(sc.got, sc.rows)
  /\ eng.scan = "live" =>
       /\ sc.seen[Len(sc.seen)] = mem
       /\ \A i \in 1..Len(sc.got) :
            /\ sc.got[i].key = sc.rows[i].key
            /\ \E j \in 1..Len(sc.seen) : sc.got[i].val = sc.seen[j][sc.got[i].key]

\* The goroutine of buntdb before its transaction, and from then on: the rows it
\* has sent are the ones the client has and, until that closes the iterator, the
\* ones in the channel.
Spawned ==
  /\ sc.pc = "next" /\ sc.got = <<>> /\ ch = <<>> /\ prod.at = 0 /\ ~prod.done
  /\ sc.seen[Len(sc.seen)] = mem

Sending ==
  /\ \E j \in 1..Len(sc.seen) : prod.rows = RowsFrom(sc.seen[j], sc.start)
  /\ Begins(sc.got, prod.rows) /\ (sc.ended => Len(sc.got) = Len(prod.rows))
  /\ prod.at <= Len(prod.rows)
  /\ prod.pc # "view" /\ ~prod.done => prod.at = Len(prod.rows)
  /\ sc.pc # "drain" =>
       /\ ~prod.done /\ prod.at = Len(sc.got) + Len(ch)
       /\ \A i \in 1..Len(ch) : ch[i] = prod.rows[Len(sc.got) + i]

StreamInv == IF prod.pc = "spawned" THEN Spawned ELSE Sending

\* What ScanSound rests on.
ScanInd ==
  /\ ScanTypes
  /\ sc.pc # "idle" =>
       /\ up /\ Len(sc.seen) > 0 /\ (sc.pc = "next" => ~sc.ended)
       /\ eng.scan # "stream" => CursorInv
       /\ eng.scan = "stream" => StreamInv

\* Between scans.
LEMMA ScanIdle ==
  ASSUME ScanTypes', sc'.pc = "idle"
  PROVE  ScanInd'
  BY DEF ScanInd

\* The client and the goroutine of no scan.
LEMMA NoScanTypes == NoScan \in Scans /\ NoScan.pc = "idle" /\ NoProd \in Producers
<1>1. <<>> \in Seq(Rows) /\ <<>> \in Seq(Maps)
  OBVIOUS
<1>2. NoScan \in Scans /\ NoScan.pc = "idle"
  BY <1>1, EmbeddedAssumption DEF NoScan, Scans
<1>3. NoProd \in Producers
  BY <1>1, EmbeddedAssumption DEF NoProd, Producers
<1> QED BY <1>2, <1>3, Zenon

\* A step that is none of the store's and none of the scan's.
LEMMA ScanUntouched ==
  ASSUME ScanInd, UNCHANGED <<eng, up, mem, sc, prod, ch>>
  PROVE  ScanInd'
  BY Zenon DEF ScanInd, ScanTypes, CursorInv, StreamInv, Spawned, Sending

\* The life of the engine: nobody scans when it is opened or closed.
LEMMA ScanLife ==
  ASSUME ScanInd, Open \/ Close \/ Crash
  PROVE  ScanInd'
<1>1. CASE Open \/ Close
  <2>1. UNCHANGED <<sc, prod, ch>>
    BY <1>1, Zenon DEF Open, Close
  <2>2. sc.pc = "idle"
    BY <1>1, Zenon DEF Open, Close, Quiet, ScanInd
  <2> QED BY <2>1, <2>2, ScanIdle DEF ScanInd, ScanTypes
<1>2. CASE Crash
  <2>1. sc' = NoScan /\ prod' = NoProd /\ ch' = <<>>
    BY <1>2 DEF Crash
  <2>2. ScanTypes'
    BY <2>1, NoScanTypes, EmbeddedAssumption DEF ScanTypes
  <2> QED BY <2>1, <2>2, NoScanTypes, ScanIdle
<1> QED BY <1>1, <1>2

\* The map a scan saw when it was opened, and what it sees of a later one.
LEMMA SeenMap ==
  ASSUME sc \in Scans, NEW j \in 1..Len(sc.seen)
  PROVE  sc.seen[j] \in Maps
<1>1. sc.seen \in Seq(Maps)
  BY DEF Scans
<1> QED BY <1>1

\* What Watch does to the scan under way.
LEMMA WatchFields ==
  ASSUME sc \in Scans, mem' \in Maps, sc' = [sc EXCEPT !.seen = Append(@, mem')]
  PROVE  /\ sc' \in Scans
         /\ sc'.pc = sc.pc /\ sc'.start = sc.start /\ sc'.rows = sc.rows /\ sc'.at = sc.at
         /\ sc'.first = sc.first /\ sc'.got = sc.got /\ sc'.ended = sc.ended
         /\ Len(sc'.seen) = Len(sc.seen) + 1 /\ sc'.seen[Len(sc'.seen)] = mem'
         /\ \A j \in 1..Len(sc.seen) : sc'.seen[j] = sc.seen[j]
<1>1. sc.seen \in Seq(Maps)
  BY DEF Scans
<1>2. PICK s : s = Append(sc.seen, mem')
  BY Zenon
<1>3. /\ s \in Seq(Maps) /\ Len(s) = Len(sc.seen) + 1 /\ s[Len(s)] = mem'
      /\ \A j \in 1..Len(sc.seen) : s[j] = sc.seen[j]
  BY <1>1, <1>2
<1>4. sc' = [sc EXCEPT !.seen = s]
  BY <1>2
<1>5. sc'.seen = s
  BY <1>4 DEF Scans
<1> QED BY <1>3, <1>4, <1>5, Zenon DEF Scans

\* A write in the middle of a scan: memory and a goroutine of buntdb that has not
\* begun its transaction see it, the others do not.
LEMMA ScanApply ==
  ASSUME ScanInd, Iterators, mem' \in Maps, NEW c \in Writers, Apply(c)
  PROVE  ScanInd'
<1>1. UNCHANGED <<eng, up, prod, ch>> /\ Watch
  BY Zenon DEF Apply, setup
<1>2. CASE ~(prod.pc = "spawned" \/ (eng.scan = "live" /\ sc.pc # "idle"))
  <2>1. sc' = sc
    BY <1>1, <1>2 DEF Watch
  <2> QED BY <1>1, <1>2, <2>1, Zenon
      DEF ScanInd, ScanTypes, CursorInv, StreamInv, Spawned, Sending
<1>3. CASE prod.pc = "spawned" \/ (eng.scan = "live" /\ sc.pc # "idle")
  <2>1. sc \in Scans /\ ScanTypes /\ sc.pc # "idle" /\ Len(sc.seen) \in Nat
    <3>1. sc \in Scans /\ ScanTypes /\ sc.seen \in Seq(Maps)
      BY Zenon DEF ScanInd, ScanTypes, Scans
    <3> QED BY <1>3, <3>1 DEF Iterators, IteratorLeavesNothing
  <2>2. sc' = [sc EXCEPT !.seen = Append(@, mem')]
    BY <1>1, <1>3 DEF Watch
  <2>3. /\ sc' \in Scans
        /\ sc'.pc = sc.pc /\ sc'.start = sc.start /\ sc'.rows = sc.rows /\ sc'.at = sc.at
        /\ sc'.first = sc.first /\ sc'.got = sc.got /\ sc'.ended = sc.ended
        /\ Len(sc'.seen) = Len(sc.seen) + 1 /\ sc'.seen[Len(sc'.seen)] = mem'
        /\ \A j \in 1..Len(sc.seen) : sc'.seen[j] = sc.seen[j]
    BY <2>1, <2>2, WatchFields
  <2>4. ScanTypes'
    BY <1>1, <2>1, <2>3, Zenon DEF ScanTypes
  <2>5. up' /\ Len(sc'.seen) > 0 /\ (sc'.pc = "next" => ~sc'.ended)
    BY <1>1, <2>1, <2>3 DEF ScanInd
  <2>6. CASE prod.pc = "spawned"
    <3>1. eng.scan = "stream" /\ StreamInv
      BY <2>1, <2>6 DEF Iterators, OnlyStreams, ScanInd
    <3>2. StreamInv'
      BY <1>1, <2>3, <2>6, <3>1, Zenon DEF StreamInv, Spawned
    <3> QED BY <1>1, <2>4, <2>5, <3>1, <3>2 DEF ScanInd
  <2>7. CASE eng.scan = "live"
    <3>1. CursorInv /\ Len(sc.seen) > 0
      BY <2>1, <2>7 DEF ScanInd
    <3>2. sc'.seen[1] = sc.seen[1]
      BY <2>1, <2>3, <3>1
    <3>3. \A i \in 1..Len(sc.got) : \E j \in 1..Len(sc'.seen) :
            sc.got[i].val = sc'.seen[j][sc.got[i].key]
      <4> TAKE i \in 1..Len(sc.got)
      <4>1. PICK j \in 1..Len(sc.seen) : sc.got[i].val = sc.seen[j][sc.got[i].key]
        BY <2>7, <3>1, Zenon DEF CursorInv
      <4>2. j \in 1..Len(sc'.seen) /\ sc'.seen[j] = sc.seen[j]
        BY <2>1, <2>3
      <4> QED BY <4>1, <4>2, Zenon
    <3>4. CursorInv'
      <4>1. /\ sc'.rows = RowsFrom(sc'.seen[1], sc'.start)
            /\ Len(sc'.got) <= Len(sc'.rows) /\ (sc'.ended => Len(sc'.got) = Len(sc'.rows))
            /\ sc'.first => sc'.got = <<>> /\ (eng'.scan = "seeked" => sc'.at = 1)
            /\ ~sc'.first => sc'.at = Len(sc'.got)
        BY <1>1, <2>3, <3>1, <3>2, Zenon DEF CursorInv
      <4>2. sc'.seen[Len(sc'.seen)] = mem' /\ eng'.scan = "live"
        BY <1>1, <2>3, <2>7, Zenon
      <4>3. ASSUME NEW i \in 1..Len(sc'.got)
            PROVE  /\ sc'.got[i].key = sc'.rows[i].key
                   /\ \E j \in 1..Len(sc'.seen) : sc'.got[i].val = sc'.seen[j][sc'.got[i].key]
        <5>1. i \in 1..Len(sc.got) /\ sc'.got = sc.got /\ sc'.rows = sc.rows
          BY <2>3, Zenon
        <5>2. sc.got[i].key = sc.rows[i].key
          BY <2>7, <3>1, <5>1, Zenon DEF CursorInv
        <5> QED BY <3>3, <5>1, <5>2, Zenon
      <4> QED BY <4>1, <4>2, <4>3, Zenon DEF CursorInv
    <3> QED BY <1>1, <2>4, <2>5, <2>7, <3>4 DEF ScanInd
  <2> QED BY <1>3, <2>6, <2>7
<1> QED BY <1>2, <1>3

\* In the middle of a scan.
LEMMA ScanGoesOn ==
  ASSUME ScanTypes', up', Len(sc'.seen) > 0, sc'.pc = "next" => ~sc'.ended,
         IF eng'.scan = "stream" THEN StreamInv' ELSE CursorInv'
  PROVE  ScanInd'
  BY DEF ScanInd

\* The goroutine that Scan starts.
LEMMA SpawnedFields ==
  ASSUME NEW p, p = [NoProd EXCEPT !.pc = "spawned"]
  PROVE  p \in Producers /\ p.pc = "spawned" /\ p.at = 0 /\ p.done = FALSE
<1> DEFINE q == [pc |-> "spawned", rows |-> <<>>, at |-> 0, done |-> FALSE]
<1>1. p = q
  BY Zenon DEF NoProd
<1>2. q \in Producers /\ q.pc = "spawned" /\ q.at = 0 /\ q.done = FALSE
  <2>1. <<>> \in Seq(Rows)
    OBVIOUS
  <2> QED BY <2>1, Zenon DEF Producers
<1> HIDE DEF q
<1> QED BY <1>1, <1>2, Zenon

\* Scan opens a cursor over the map as it is, or leaves that to the goroutine.
LEMMA ScanScan ==
  ASSUME ScanInd, Iterators, mem \in Maps,
         NEW start \in Starts, NEW len \in ScanLens, Scan(start, len)
  PROVE  ScanInd'
<1>1. PICK rows : rows = IF eng.scan = "stream" THEN <<>> ELSE RowsFrom(mem, start)
  BY Zenon
<1>2. PICK at : at = IF eng.scan = "seeked" THEN 1 ELSE 0
  BY Zenon
<1>3. PICK seen : seen = <<mem>>
  BY Zenon
<1>4. /\ up /\ sc.pc = "idle" /\ UNCHANGED <<eng, up, mem, ch>>
      /\ sc' = [NoScan EXCEPT !.pc = "next", !.start = start, !.len = len, !.rows = rows,
                  !.at = at, !.seen = seen]
      /\ prod' = IF eng.scan = "stream" THEN [NoProd EXCEPT !.pc = "spawned"] ELSE prod
  BY <1>1, <1>2, <1>3, Zenon DEF Scan, store, setup
<1>5. rows \in Seq(Rows) /\ at \in 0..(NKeys + 1) /\ seen \in Seq(Maps) /\ Len(seen) = 1 /\ seen[1] = mem
  <2>1. RowsFrom(mem, start) \in Seq(Rows) /\ <<>> \in Seq(Rows)
    BY RowsType
  <2> QED BY <1>1, <1>2, <1>3, <2>1, EmbeddedAssumption
<1>6. sc' = [pc |-> "next", start |-> start, len |-> len, rows |-> rows, at |-> at, first |-> TRUE,
             got |-> <<>>, ended |-> FALSE, seen |-> seen]
  BY <1>4, Zenon DEF NoScan
<1>7. start \in Nat /\ len \in Nat /\ <<>> \in Seq(Rows)
  BY EmbeddedAssumption DEF Keys
<1>8. sc' \in Scans
  BY <1>5, <1>6, <1>7, Zenon DEF Scans
<1>9. /\ sc'.pc = "next" /\ sc'.start = start /\ sc'.rows = rows /\ sc'.at = at /\ sc'.first = TRUE
      /\ sc'.got = <<>> /\ sc'.ended = FALSE /\ sc'.seen = seen
  BY <1>6, Zenon
<1>10. prod.pc = "gone" /\ ch = <<>>
  BY <1>4 DEF Iterators, IteratorLeavesNothing
<1>11. prod' \in Producers /\ ScanTypes
  <2>1. [NoProd EXCEPT !.pc = "spawned"] \in Producers
    BY SpawnedFields, Zenon
  <2>2. prod \in Producers /\ ScanTypes
    BY DEF ScanInd, ScanTypes
  <2> QED BY <1>4, <2>1, <2>2, Zenon
<1>12. ScanTypes'
  BY <1>4, <1>8, <1>11 DEF ScanTypes
<1>13. sc'.seen[1] = mem /\ Len(sc'.seen) = 1
  BY <1>5, <1>9, Zenon
<1>14. up' /\ Len(sc'.seen) > 0 /\ ~sc'.ended /\ UNCHANGED <<eng, mem, ch>>
  <2>1. Len(sc'.seen) > 0
    BY <1>13
  <2> QED BY <1>4, <1>9, <2>1, Zenon
<1>15. CASE eng.scan = "stream"
  <2>1. prod' = [NoProd EXCEPT !.pc = "spawned"]
    BY <1>4, <1>15, Zenon
  <2>2. prod'.pc = "spawned" /\ prod'.at = 0 /\ prod'.done = FALSE
    BY <2>1, SpawnedFields, Zenon
  <2>3. StreamInv'
    BY <1>9, <1>10, <1>13, <1>14, <2>2, Zenon DEF StreamInv, Spawned
  <2> QED BY <1>12, <1>14, <1>15, <2>3, ScanGoesOn
<1>16. CASE eng.scan # "stream"
  <2>1. rows = RowsFrom(mem, start) /\ Len(rows) \in Nat /\ Len(sc'.got) = 0
    BY <1>1, <1>5, <1>9, <1>16
  <2>2. Len(sc'.got) <= Len(rows) /\ 1..Len(sc'.got) = {}
    BY <2>1
  <2>3. eng.scan = "seeked" => at = 1
    BY <1>2
  <2>4. CursorInv'
    BY <1>9, <1>13, <1>14, <2>1, <2>2, <2>3, Zenon DEF CursorInv, Begins
  <2> QED BY <1>12, <1>14, <1>16, <2>4, ScanGoesOn
<1> QED BY <1>15, <1>16

\* The fields of a scan.
LEMMA ScanFields ==
  ASSUME NEW s \in Scans
  PROVE  /\ s.pc \in {"idle", "next", "close", "drain"} /\ s.start \in Nat /\ s.len \in Nat
         /\ s.rows \in Seq(Rows) /\ s.at \in 0..(NKeys + 1) /\ s.first \in BOOLEAN
         /\ s.got \in Seq(Rows) /\ s.ended \in BOOLEAN /\ s.seen \in Seq(Maps)
  BY DEF Scans

\* The delivery of a row by a cursor, and what it does to the iterator.
Moved(r, t) == [Delivered(r) EXCEPT !.at = t, !.first = FALSE]

\* Its fields.
LEMMA CursorFields ==
  ASSUME sc \in Scans, sc.pc = "next", NEW r \in Rows, NEW t \in 0..(NKeys + 1), sc' = Moved(r, t)
  PROVE  /\ sc' \in Scans
         /\ sc'.pc \in {"next", "close"} /\ sc'.start = sc.start /\ sc'.rows = sc.rows /\ sc'.at = t
         /\ sc'.first = FALSE /\ sc'.got = Append(sc.got, r) /\ sc'.ended = sc.ended
         /\ sc'.seen = sc.seen
<1>1. PICK got : got = Append(sc.got, r)
  BY Zenon
<1>2. PICK pc : pc = IF Len(sc.got) >= sc.len THEN "close" ELSE sc.pc
  BY Zenon
<1> DEFINE rec == [pc |-> pc, start |-> sc.start, len |-> sc.len, rows |-> sc.rows, at |-> t,
                   first |-> FALSE, got |-> got, ended |-> sc.ended, seen |-> sc.seen]
<1>3. Moved(r, t) = rec
  <2>1. Delivered(r) = [sc EXCEPT !.got = got, !.pc = pc]
    BY <1>1, <1>2, Zenon DEF Delivered
  <2>2. ASSUME NEW d, d = Moved(r, t) PROVE d = rec
    BY <2>1, <2>2, Zenon DEF Scans, Moved
  <2> QED BY <2>2, Zenon
<1>4. got \in Seq(Rows)
  BY <1>1, ScanFields
<1>5. pc \in {"next", "close"}
  BY <1>2
<1>6. rec \in Scans
  BY <1>4, <1>5, ScanFields, Zenon DEF Scans
<1>7. /\ rec.pc = pc /\ rec.start = sc.start /\ rec.rows = sc.rows /\ rec.at = t
      /\ rec.first = FALSE /\ rec.got = got /\ rec.ended = sc.ended /\ rec.seen = sc.seen
  BY Zenon
<1> HIDE DEF rec
<1> QED BY <1>1, <1>3, <1>5, <1>6, <1>7, Zenon

\* What the delivery of a row from the channel does.
LEMMA DeliveredFields ==
  ASSUME sc \in Scans, sc.pc = "next", NEW r \in Rows, sc' = Delivered(r)
  PROVE  /\ sc' \in Scans
         /\ sc'.pc \in {"next", "close"} /\ sc'.start = sc.start
         /\ sc'.got = Append(sc.got, r) /\ sc'.ended = sc.ended /\ sc'.seen = sc.seen
<1>1. PICK got : got = Append(sc.got, r)
  BY Zenon
<1>2. PICK pc : pc = IF Len(sc.got) >= sc.len THEN "close" ELSE sc.pc
  BY Zenon
<1> DEFINE rec == [pc |-> pc, start |-> sc.start, len |-> sc.len, rows |-> sc.rows, at |-> sc.at,
                   first |-> sc.first, got |-> got, ended |-> sc.ended, seen |-> sc.seen]
<1>3. Delivered(r) = rec
  <2>1. ASSUME NEW d, d = Delivered(r) PROVE d = rec
    BY <1>1, <1>2, <2>1, Zenon DEF Delivered, Scans
  <2> QED BY <2>1, Zenon
<1>4. got \in Seq(Rows)
  BY <1>1, ScanFields
<1>5. pc \in {"next", "close"}
  BY <1>2
<1>6. rec \in Scans
  BY <1>4, <1>5, ScanFields, Zenon DEF Scans
<1>7. /\ rec.pc = pc /\ rec.start = sc.start /\ rec.got = got /\ rec.ended = sc.ended
      /\ rec.seen = sc.seen
  BY Zenon
<1> HIDE DEF rec
<1> QED BY <1>1, <1>3, <1>5, <1>6, <1>7, Zenon

\* What the end of the rows does.
LEMMA ExhaustedFields ==
  ASSUME sc \in Scans, sc' = Exhausted
  PROVE  /\ sc' \in Scans
         /\ sc'.pc = "close" /\ sc'.start = sc.start /\ sc'.rows = sc.rows /\ sc'.at = sc.at
         /\ sc'.first = sc.first /\ sc'.got = sc.got /\ sc'.ended = TRUE /\ sc'.seen = sc.seen
<1> DEFINE rec == [pc |-> "close", start |-> sc.start, len |-> sc.len, rows |-> sc.rows,
                   at |-> sc.at, first |-> sc.first, got |-> sc.got, ended |-> TRUE,
                   seen |-> sc.seen]
<1>1. Exhausted = rec
  <2>1. ASSUME NEW d, d = Exhausted PROVE d = rec
    BY <2>1, Zenon DEF Exhausted, Scans
  <2> QED BY <2>1, Zenon
<1>2. rec \in Scans
  BY ScanFields, Zenon DEF Scans
<1>3. /\ rec.pc = "close" /\ rec.start = sc.start /\ rec.rows = sc.rows /\ rec.at = sc.at
      /\ rec.first = sc.first /\ rec.got = sc.got /\ rec.ended = TRUE /\ rec.seen = sc.seen
  BY Zenon
<1> HIDE DEF rec
<1> QED BY <1>1, <1>2, <1>3, Zenon

\* One more row.
LEMMA OneMore ==
  ASSUME NEW got \in Seq(Rows), NEW r \in Rows, NEW more, more = Append(got, r)
  PROVE  /\ Len(got) \in Nat /\ Len(more) = Len(got) + 1 /\ more[Len(got) + 1] = r
         /\ \A i \in 1..Len(got) : more[i] = got[i]
         /\ \A i \in 1..Len(more) : i \in 1..Len(got) \/ i = Len(got) + 1
  OBVIOUS

\* Next of a cursor: the next row of the map in which it was opened, of which
\* memory looks the value up anew, or their end.
LEMMA ScanNext ==
  ASSUME ScanInd, mem \in Maps, Next_
  PROVE  ScanInd'
<1>1. sc.pc = "next" /\ eng.scan # "stream" /\ UNCHANGED <<eng, up, mem, prod, ch>>
  BY DEF Next_, store, setup
<1>2. sc \in Scans /\ ScanTypes /\ up /\ Len(sc.seen) > 0 /\ ~sc.ended /\ CursorInv
  BY <1>1 DEF ScanInd, ScanTypes
<1>3. sc.got \in Seq(Rows) /\ sc.rows \in Seq(Rows) /\ sc.seen \in Seq(Maps) /\ sc.first \in BOOLEAN
  BY <1>2, ScanFields
<1>4. Len(sc.got) \in Nat /\ Len(sc.rows) \in Nat /\ Len(sc.seen) \in Nat /\ 1 \in 1..Len(sc.seen)
  BY <1>2, <1>3
<1>5. Len(sc.rows) <= NKeys /\ sc.rows = RowsFrom(sc.seen[1], sc.start)
  BY <1>2, <1>4, SeenMap, RowsType, Zenon DEF CursorInv
<1>6. PICK t : t = To
  BY Zenon
<1>7. t = Len(sc.got) + 1
  <2>1. sc.first => sc.got = <<>> /\ (eng.scan = "seeked" => sc.at = 1)
    BY <1>2, Zenon DEF CursorInv
  <2>2. ~sc.first => sc.at = Len(sc.got)
    BY <1>2, Zenon DEF CursorInv
  <2> QED BY <1>3, <1>6, <2>1, <2>2 DEF To
<1>8. CASE t <= Len(sc.rows)
  <2>1. PICK r : r = sc.rows[t]
    BY Zenon
  <2>2. r \in Rows /\ t \in 0..(NKeys + 1) /\ t \in 1..Len(sc.rows)
    BY <1>3, <1>4, <1>5, <1>7, <1>8, <2>1, EmbeddedAssumption
  <2>3. PICK row : row = IF eng.scan = "live" THEN [r EXCEPT !.val = mem[r.key]] ELSE r
    BY Zenon
  <2>4. /\ row \in Rows /\ row.key = r.key
        /\ eng.scan = "live" => row.val = mem[row.key]
        /\ eng.scan # "live" => row = r
    BY <2>2, <2>3 DEF Rows, Maps
  <2>5. sc' = Moved(row, t)
    <3>1. ASSUME NEW q, q = To, q <= Len(sc.rows), NEW x, x = sc.rows[q],
                 NEW y, y = IF eng.scan = "live" THEN [x EXCEPT !.val = mem[x.key]] ELSE x
          PROVE  sc' = Moved(y, q)
      BY <3>1 DEF Next_, Moved
    <3> QED BY <1>6, <1>8, <2>1, <2>3, <3>1, Zenon
  <2>6. /\ sc' \in Scans
        /\ sc'.pc \in {"next", "close"} /\ sc'.start = sc.start /\ sc'.rows = sc.rows /\ sc'.at = t
        /\ sc'.first = FALSE /\ sc'.got = Append(sc.got, row) /\ sc'.ended = sc.ended
        /\ sc'.seen = sc.seen
    BY <1>1, <1>2, <2>2, <2>4, <2>5, CursorFields, Zenon
  <2>7. PICK got : got = sc'.got
    BY Zenon
  <2>8. /\ Len(got) = t /\ got[t] = row
        /\ \A i \in 1..Len(sc.got) : got[i] = sc.got[i]
        /\ \A i \in 1..Len(got) : i \in 1..Len(sc.got) \/ i = t
    BY <1>3, <1>7, <2>4, <2>6, <2>7, OneMore
  <2>9. ASSUME eng.scan # "live" PROVE Begins(got, sc.rows)
    <3>1. \A i \in 1..Len(sc.got) : sc.got[i] = sc.rows[i]
      BY <1>2, <2>9, Zenon DEF CursorInv, Begins
    <3> QED BY <1>8, <2>1, <2>4, <2>8, <2>9, <3>1, Zenon DEF Begins
  <2>10. ASSUME eng.scan = "live", NEW i \in 1..Len(got)
         PROVE  /\ got[i].key = sc.rows[i].key
                /\ \E j \in 1..Len(sc.seen) : got[i].val = sc.seen[j][got[i].key]
    <3>1. CASE i \in 1..Len(sc.got)
      <4>1. /\ sc.got[i].key = sc.rows[i].key
            /\ \E j \in 1..Len(sc.seen) : sc.got[i].val = sc.seen[j][sc.got[i].key]
        BY <1>2, <2>10, <3>1, Zenon DEF CursorInv
      <4>2. got[i] = sc.got[i]
        BY <2>8, <3>1, Zenon
      <4> QED BY <4>1, <4>2, Zenon
    <3>2. CASE i = t
      <4>1. sc.seen[Len(sc.seen)] = mem /\ Len(sc.seen) \in 1..Len(sc.seen)
        <5>1. sc.seen[Len(sc.seen)] = mem
          BY <1>2, <2>10, Zenon DEF CursorInv
        <5>2. Len(sc.seen) \in 1..Len(sc.seen)
          BY <1>2, <1>4
        <5> QED BY <5>1, <5>2, Zenon
      <4> QED BY <2>1, <2>4, <2>8, <2>10, <3>2, <4>1, Zenon
    <3> QED BY <2>8, <3>1, <3>2, Zenon
  <2>11. eng.scan = "live" => sc.seen[Len(sc.seen)] = mem
    BY <1>2, Zenon DEF CursorInv
  <2>12. CursorInv'
    <3>1. /\ sc'.rows = RowsFrom(sc'.seen[1], sc'.start) /\ ~sc'.ended /\ ~sc'.first
          /\ Len(sc'.got) <= Len(sc'.rows) /\ sc'.at = Len(sc'.got)
      BY <1>2, <1>5, <1>8, <2>6, <2>7, <2>8, Zenon
    <3>2. eng'.scan # "live" => Begins(sc'.got, sc'.rows)
      BY <1>1, <2>6, <2>7, <2>9, Zenon
    <3>3. eng'.scan = "live" => sc'.seen[Len(sc'.seen)] = mem'
      BY <1>1, <2>6, <2>11, Zenon
    <3>4. ASSUME eng'.scan = "live", NEW i \in 1..Len(sc'.got)
          PROVE  /\ sc'.got[i].key = sc'.rows[i].key
                 /\ \E j \in 1..Len(sc'.seen) : sc'.got[i].val = sc'.seen[j][sc'.got[i].key]
      <4>1. eng.scan = "live" /\ i \in 1..Len(got) /\ sc'.got = got
        BY <1>1, <2>7, <3>4, Zenon
      <4>2. /\ got[i].key = sc.rows[i].key
            /\ \E j \in 1..Len(sc.seen) : got[i].val = sc.seen[j][got[i].key]
        BY <2>10, <4>1, Zenon
      <4>3. sc'.rows = sc.rows /\ sc'.seen = sc.seen
        BY <2>6, Zenon
      <4> QED BY <4>1, <4>2, <4>3, Zenon
    <3> QED BY <3>1, <3>2, <3>3, <3>4, Zenon DEF CursorInv
  <2>13. ScanTypes'
    BY <1>1, <1>2, <2>6, Zenon DEF ScanTypes
  <2>14. up' /\ Len(sc'.seen) > 0 /\ ~sc'.ended /\ eng'.scan # "stream"
    BY <1>1, <1>2, <2>6, Zenon
  <2> QED BY <2>12, <2>13, <2>14, ScanGoesOn
<1>9. CASE ~(t <= Len(sc.rows))
  <2>1. sc' = Exhausted
    BY <1>6, <1>9, Zenon DEF Next_
  <2>2. /\ sc' \in Scans
        /\ sc'.pc = "close" /\ sc'.start = sc.start /\ sc'.rows = sc.rows /\ sc'.at = sc.at
        /\ sc'.first = sc.first /\ sc'.got = sc.got /\ sc'.ended = TRUE /\ sc'.seen = sc.seen
    BY <1>2, <2>1, ExhaustedFields, Zenon
  <2>3. Len(sc.got) = Len(sc.rows)
    <3>1. Len(sc.got) <= Len(sc.rows)
      BY <1>2, Zenon DEF CursorInv
    <3> QED BY <1>4, <1>7, <1>9, <3>1
  <2>4. CursorInv'
    <3>1. sc'.rows = RowsFrom(sc'.seen[1], sc'.start)
      BY <1>2, <2>2, Zenon DEF CursorInv
    <3>2. Len(sc'.got) = Len(sc'.rows) /\ Len(sc'.got) <= Len(sc'.rows)
      <4>1. Len(sc.got) <= Len(sc.rows)
        BY <1>2, Zenon DEF CursorInv
      <4> QED BY <2>2, <2>3, <4>1, Zenon
    <3>3. /\ sc'.first => sc'.got = <<>> /\ (eng'.scan = "seeked" => sc'.at = 1)
          /\ ~sc'.first => sc'.at = Len(sc'.got)
          /\ eng'.scan # "live" => Begins(sc'.got, sc'.rows)
      BY <1>1, <1>2, <2>2, Zenon DEF CursorInv
    <3>4. eng'.scan = "live" =>
            /\ sc'.seen[Len(sc'.seen)] = mem'
            /\ \A i \in 1..Len(sc'.got) :
                 /\ sc'.got[i].key = sc'.rows[i].key
                 /\ \E j \in 1..Len(sc'.seen) : sc'.got[i].val = sc'.seen[j][sc'.got[i].key]
      <4>1. eng.scan = "live" =>
              /\ sc.seen[Len(sc.seen)] = mem
              /\ \A i \in 1..Len(sc.got) :
                   /\ sc.got[i].key = sc.rows[i].key
                   /\ \E j \in 1..Len(sc.seen) : sc.got[i].val = sc.seen[j][sc.got[i].key]
        BY <1>2, Zenon DEF CursorInv
      <4>2. /\ eng' = eng /\ mem' = mem /\ sc'.seen = sc.seen /\ sc'.got = sc.got
            /\ sc'.rows = sc.rows
        BY <1>1, <2>2, Zenon
      <4> QED BY <4>1, <4>2
    <3> QED BY <3>1, <3>2, <3>3, <3>4, Zenon DEF CursorInv
  <2>5. ScanTypes'
    BY <1>1, <1>2, <2>2, Zenon DEF ScanTypes
  <2>6. up' /\ Len(sc'.seen) > 0 /\ sc'.pc # "next" /\ eng'.scan # "stream"
    BY <1>1, <1>2, <2>2
  <2> QED BY <2>4, <2>5, <2>6, ScanGoesOn
<1> QED BY <1>8, <1>9

\* What a row fewer in the channel leaves.
LEMMA OneLess ==
  ASSUME NEW c \in Seq(Rows), c # <<>>, NEW less, less = Tail(c)
  PROVE  /\ less \in Seq(Rows) /\ Len(c) \in Nat /\ Len(c) > 0 /\ Len(less) = Len(c) - 1
         /\ Head(c) = c[1] /\ Head(c) \in Rows
         /\ \A i \in 1..Len(less) : i + 1 \in 1..Len(c) /\ less[i] = c[i + 1]
  OBVIOUS

\* The types a step of the goroutine or of its reader may rely on.
LEMMA StreamTypes ==
  ASSUME ScanTypes
  PROVE  /\ sc.got \in Seq(Rows) /\ prod.rows \in Seq(Rows) /\ ch \in Seq(Rows)
         /\ Len(sc.got) \in Nat /\ Len(prod.rows) \in Nat /\ Len(ch) \in Nat
         /\ prod.at \in Nat /\ prod.done \in BOOLEAN /\ Len(sc.seen) \in Nat
<1>1. /\ sc.got \in Seq(Rows) /\ prod.rows \in Seq(Rows) /\ ch \in Seq(Rows)
      /\ prod.at \in Nat /\ prod.done \in BOOLEAN /\ sc.seen \in Seq(Maps)
  BY DEF ScanTypes, Scans, Producers
<1> QED BY <1>1

\* Next of buntdb takes the row the goroutine sent first, or finds that it has
\* sent them all and closed the channel.
LEMMA ScanReceive ==
  ASSUME ScanInd, Receive
  PROVE  ScanInd'
<1>1. sc.pc = "next" /\ eng.scan = "stream" /\ UNCHANGED <<eng, up, mem, prod>>
  BY DEF Receive, store, setup
<1>2. sc \in Scans /\ ScanTypes /\ up /\ Len(sc.seen) > 0 /\ ~sc.ended /\ StreamInv
  BY <1>1 DEF ScanInd, ScanTypes
<1>3. /\ sc.got \in Seq(Rows) /\ prod.rows \in Seq(Rows) /\ ch \in Seq(Rows)
      /\ Len(sc.got) \in Nat /\ Len(prod.rows) \in Nat /\ Len(ch) \in Nat
      /\ prod.at \in Nat /\ prod.done \in BOOLEAN
  BY <1>2, StreamTypes
<1>4. CASE ch # <<>> /\ sc' = Delivered(Head(ch)) /\ ch' = Tail(ch)
  <2>1. Sending /\ prod.pc # "spawned"
    BY <1>2, <1>4 DEF StreamInv, Spawned
  <2>2. PICK r : r = Head(ch)
    BY Zenon
  <2>3. /\ ch' \in Seq(Rows) /\ Len(ch) > 0 /\ Len(ch') = Len(ch) - 1 /\ r = ch[1] /\ r \in Rows
        /\ \A i \in 1..Len(ch') : i + 1 \in 1..Len(ch) /\ ch'[i] = ch[i + 1]
    BY <1>3, <1>4, <2>2, OneLess
  <2>4. /\ sc' \in Scans
        /\ sc'.pc \in {"next", "close"} /\ sc'.start = sc.start
        /\ sc'.got = Append(sc.got, r) /\ sc'.ended = sc.ended /\ sc'.seen = sc.seen
    BY <1>1, <1>2, <1>4, <2>2, <2>3, DeliveredFields, Zenon
  <2>5. PICK got : got = sc'.got
    BY Zenon
  <2>6. /\ Len(got) = Len(sc.got) + 1 /\ got[Len(sc.got) + 1] = r
        /\ \A i \in 1..Len(sc.got) : got[i] = sc.got[i]
        /\ \A i \in 1..Len(got) : i \in 1..Len(sc.got) \/ i = Len(sc.got) + 1
    <3>1. sc.got \in Seq(Rows) /\ r \in Rows /\ got = Append(sc.got, r)
      BY <1>3, <2>3, <2>4, <2>5, Zenon
    <3> QED BY <3>1, OneMore
  <2>7. /\ ~prod.done /\ prod.at = Len(sc.got) + Len(ch) /\ prod.at <= Len(prod.rows)
        /\ \A i \in 1..Len(ch) : ch[i] = prod.rows[Len(sc.got) + i]
        /\ \A i \in 1..Len(sc.got) : sc.got[i] = prod.rows[i]
    BY <1>1, <2>1, Zenon DEF Sending, Begins
  <2>8. r = prod.rows[Len(sc.got) + 1] /\ Len(got) <= Len(prod.rows)
    BY <1>3, <2>3, <2>6, <2>7
  <2>9. Begins(got, prod.rows)
    BY <2>6, <2>7, <2>8, Zenon DEF Begins
  <2>10. prod.at = Len(got) + Len(ch')
    BY <1>3, <2>3, <2>6, <2>7
  <2>11. ASSUME NEW i \in 1..Len(ch') PROVE ch'[i] = prod.rows[Len(got) + i]
    <3>1. ch'[i] = prod.rows[Len(sc.got) + (i + 1)]
      BY <2>3, <2>7, Zenon
    <3>2. PICK n \in Nat : n = Len(sc.got) /\ Len(got) = n + 1
      BY <1>3, <2>6, Zenon
    <3>3. i \in Int
      OBVIOUS
    <3>4. n + (i + 1) = (n + 1) + i
      BY <3>3
    <3> QED BY <3>1, <3>2, <3>4, Zenon
  <2>12. \E j \in 1..Len(sc.seen) : prod.rows = RowsFrom(sc.seen[j], sc.start)
    BY <2>1, Zenon DEF Sending
  <2>13. prod.pc # "view" /\ ~prod.done => prod.at = Len(prod.rows)
    BY <2>1, Zenon DEF Sending
  <2>14. Sending'
    BY <1>1, <1>2, <2>4, <2>5, <2>7, <2>9, <2>10, <2>11, <2>12, <2>13, Zenon DEF Sending
  <2>15. StreamInv'
    BY <1>1, <2>1, <2>14 DEF StreamInv
  <2>16. ScanTypes'
    <3>1. Len(ch') <= ChanCap
      BY <1>2, <1>3, <2>3, EmbeddedAssumption DEF ScanTypes
    <3> QED BY <1>1, <1>2, <2>3, <2>4, <3>1, Zenon DEF ScanTypes
  <2>17. up' /\ Len(sc'.seen) > 0 /\ ~sc'.ended /\ eng'.scan = "stream"
    BY <1>1, <1>2, <2>4, Zenon
  <2> QED BY <2>15, <2>16, <2>17, ScanGoesOn
<1>5. CASE ch = <<>> /\ prod.pc = "gone" /\ sc' = Exhausted /\ UNCHANGED ch
  <2>1. Sending
    BY <1>2, <1>5 DEF StreamInv
  <2>2. /\ sc' \in Scans
        /\ sc'.pc = "close" /\ sc'.start = sc.start /\ sc'.got = sc.got /\ sc'.ended = TRUE
        /\ sc'.seen = sc.seen
    BY <1>2, <1>5, ExhaustedFields, Zenon
  <2>3. Len(sc.got) = Len(prod.rows)
    <3>1. ~prod.done /\ prod.at = Len(sc.got) + Len(ch) /\ prod.at = Len(prod.rows)
      BY <1>1, <1>5, <2>1, Zenon DEF Sending
    <3> QED BY <1>3, <1>5, <3>1
  <2>4. Sending'
    <3>1. /\ ch' = ch /\ prod' = prod /\ sc'.got = sc.got /\ sc'.seen = sc.seen
          /\ sc'.start = sc.start /\ sc.pc # "drain" /\ sc'.pc # "drain"
      BY <1>1, <1>5, <2>2, Zenon
    <3>2. /\ \E j \in 1..Len(sc'.seen) : prod'.rows = RowsFrom(sc'.seen[j], sc'.start)
          /\ Begins(sc'.got, prod'.rows) /\ prod'.at <= Len(prod'.rows)
          /\ prod'.pc # "view" /\ ~prod'.done => prod'.at = Len(prod'.rows)
          /\ ~prod'.done /\ prod'.at = Len(sc'.got) + Len(ch')
          /\ \A i \in 1..Len(ch') : ch'[i] = prod'.rows[Len(sc'.got) + i]
      BY <2>1, <3>1, Zenon DEF Sending
    <3>3. Len(sc'.got) = Len(prod'.rows)
      BY <2>3, <3>1, Zenon
    <3> QED BY <3>2, <3>3, Zenon DEF Sending
  <2>5. StreamInv'
    BY <1>1, <1>5, <2>4 DEF StreamInv
  <2>6. ScanTypes'
    BY <1>1, <1>2, <1>5, <2>2, Zenon DEF ScanTypes
  <2>7. up' /\ Len(sc'.seen) > 0 /\ sc'.pc # "next" /\ eng'.scan = "stream"
    BY <1>1, <1>2, <2>2
  <2> QED BY <2>5, <2>6, <2>7, ScanGoesOn
<1> QED BY <1>4, <1>5, Zenon DEF Receive

\* Close of an iterator: of buntdb it tells the goroutine to stop and drains the
\* channel.
LEMMA ScanClose ==
  ASSUME ScanInd, Iterators, CloseIter
  PROVE  ScanInd'
<1>1. sc.pc = "close" /\ UNCHANGED <<eng, up, mem, ch>>
  BY DEF CloseIter, store, setup
<1>2. sc \in Scans /\ ScanTypes /\ up /\ Len(sc.seen) > 0 /\ prod \in Producers
  BY <1>1 DEF ScanInd, ScanTypes
<1>3. CASE eng.scan = "stream"
  <2>1. sc' = [sc EXCEPT !.pc = "drain"] /\ prod' = [prod EXCEPT !.done = TRUE]
    BY <1>3 DEF CloseIter
  <2>2. prod.pc # "spawned" /\ Sending
    BY <1>1, <1>3 DEF ScanInd, StreamInv, Spawned
  <2>3. /\ sc' \in Scans /\ sc'.pc = "drain" /\ sc'.start = sc.start /\ sc'.got = sc.got
        /\ sc'.ended = sc.ended /\ sc'.seen = sc.seen
    <3> DEFINE rec == [pc |-> "drain", start |-> sc.start, len |-> sc.len, rows |-> sc.rows,
                       at |-> sc.at, first |-> sc.first, got |-> sc.got, ended |-> sc.ended,
                       seen |-> sc.seen]
    <3>1. sc' = rec
      BY <1>2, <2>1, Zenon DEF Scans
    <3>2. rec \in Scans
      BY <1>2, ScanFields, Zenon DEF Scans
    <3>3. /\ rec.pc = "drain" /\ rec.start = sc.start /\ rec.got = sc.got
          /\ rec.ended = sc.ended /\ rec.seen = sc.seen
      BY Zenon
    <3> HIDE DEF rec
    <3> QED BY <3>1, <3>2, <3>3, Zenon
  <2>4. /\ prod' \in Producers /\ prod'.pc = prod.pc /\ prod'.rows = prod.rows
        /\ prod'.at = prod.at /\ prod'.done = TRUE
    BY <1>2, <2>1, Zenon DEF Producers
  <2>5. Sending'
    BY <2>2, <2>3, <2>4, Zenon DEF Sending
  <2>6. StreamInv'
    BY <2>2, <2>4, <2>5 DEF StreamInv
  <2>7. ScanTypes'
    BY <1>1, <1>2, <2>3, <2>4, Zenon DEF ScanTypes
  <2>8. up' /\ Len(sc'.seen) > 0 /\ sc'.pc # "next" /\ eng'.scan = "stream"
    BY <1>1, <1>2, <1>3, <2>3
  <2> QED BY <2>6, <2>7, <2>8, ScanGoesOn
<1>4. CASE eng.scan # "stream"
  <2>1. sc' = NoScan /\ UNCHANGED <<prod, ch>>
    BY <1>1, <1>4 DEF CloseIter
  <2>2. ScanTypes'
    BY <1>2, <2>1, NoScanTypes, Zenon DEF ScanTypes
  <2> QED BY <2>1, <2>2, NoScanTypes, ScanIdle
<1> QED BY <1>3, <1>4

\* What is drained was sent before the goroutine saw that it should stop.
LEMMA ScanDrain ==
  ASSUME ScanInd, Iterators, Drain
  PROVE  ScanInd'
<1>1. sc.pc = "drain" /\ UNCHANGED <<eng, up, mem>>
  BY DEF Drain, store, setup
<1>2. sc \in Scans /\ ScanTypes /\ up /\ Len(sc.seen) > 0 /\ ch \in Seq(Rows)
  BY <1>1 DEF ScanInd, ScanTypes
<1>3. CASE ch # <<>> /\ ch' = Tail(ch) /\ UNCHANGED <<sc, prod>>
  <2>1. eng.scan = "stream" /\ prod.pc # "spawned" /\ Sending
    BY <1>1, <1>3, Zenon DEF ScanInd, StreamInv, Spawned, Iterators, OnlyStreams
  <2>2. Sending'
    BY <1>1, <1>3, <2>1, Zenon DEF Sending
  <2>3. StreamInv'
    BY <1>3, <2>1, <2>2 DEF StreamInv
  <2>4. ch' \in Seq(Rows) /\ Len(ch') = Len(ch) - 1 /\ Len(ch) \in Nat
    BY <1>2, <1>3, OneLess
  <2>5. Len(ch') <= ChanCap
    BY <1>2, <2>4, EmbeddedAssumption DEF ScanTypes
  <2>6. ScanTypes'
    BY <1>2, <1>3, <2>4, <2>5, Zenon DEF ScanTypes
  <2>7. up' /\ Len(sc'.seen) > 0 /\ sc'.pc # "next" /\ eng'.scan = "stream"
    BY <1>1, <1>2, <1>3, <2>1
  <2> QED BY <2>3, <2>6, <2>7, ScanGoesOn
<1>4. CASE ch = <<>> /\ prod.pc = "gone" /\ sc' = NoScan /\ prod' = NoProd /\ UNCHANGED ch
  <2>1. ScanTypes'
    BY <1>2, <1>4, NoScanTypes, Zenon DEF ScanTypes
  <2> QED BY <1>4, <2>1, NoScanTypes, ScanIdle
<1> QED BY <1>3, <1>4, Zenon DEF Drain

\* A step of the goroutine: the client of the scan is not back, and it is one of
\* buntdb.
LEMMA GoroutineRuns ==
  ASSUME ScanInd, Iterators, prod.pc # "gone"
  PROVE  /\ eng.scan = "stream" /\ sc.pc # "idle" /\ StreamInv /\ ScanTypes
         /\ up /\ Len(sc.seen) > 0 /\ (sc.pc = "next" => ~sc.ended) /\ prod \in Producers
<1>1. eng.scan = "stream" /\ sc.pc # "idle"
  BY DEF Iterators, IteratorLeavesNothing, OnlyStreams
<1> QED BY <1>1 DEF ScanInd, ScanTypes

\* The transaction sees the map of its beginning.
LEMMA ScanView ==
  ASSUME ScanInd, Iterators, mem \in Maps, View
  PROVE  ScanInd'
<1>1. /\ prod.pc = "spawned" /\ UNCHANGED <<eng, up, mem, sc, ch>>
      /\ prod' = [prod EXCEPT !.pc = "view", !.rows = RowsFrom(mem, sc.start)]
  BY Zenon DEF View, store, setup
<1>2. /\ eng.scan = "stream" /\ sc.pc # "idle" /\ StreamInv /\ ScanTypes
      /\ up /\ Len(sc.seen) > 0 /\ (sc.pc = "next" => ~sc.ended) /\ prod \in Producers
  BY <1>1, GoroutineRuns
<1>3. Spawned
  BY <1>1, <1>2 DEF StreamInv
<1>4. PICK rows : rows = RowsFrom(mem, sc.start)
  BY Zenon
<1>5. rows \in Seq(Rows) /\ Len(rows) \in Nat
  BY <1>4, RowsType
<1>6. prod' \in Producers /\ prod'.pc = "view" /\ prod'.rows = rows /\ prod'.at = 0 /\ ~prod'.done
  <2> DEFINE rec == [pc |-> "view", rows |-> rows, at |-> prod.at, done |-> prod.done]
  <2>1. prod' = rec
    BY <1>1, <1>2, <1>4, Zenon DEF Producers
  <2>2. rec \in Producers
    BY <1>2, <1>5, Zenon DEF Producers
  <2>3. rec.pc = "view" /\ rec.rows = rows /\ rec.at = prod.at /\ rec.done = prod.done
    BY Zenon
  <2>4. prod.at = 0 /\ ~prod.done
    BY <1>3 DEF Spawned
  <2> HIDE DEF rec
  <2> QED BY <2>1, <2>2, <2>3, <2>4, Zenon
<1>7. Sending'
  <2>1. sc.got = <<>> /\ ch = <<>> /\ sc.seen[Len(sc.seen)] = mem /\ sc.pc = "next"
    BY <1>3 DEF Spawned
  <2>2. Len(sc.got) = 0 /\ Len(ch) = 0
    BY <2>1
  <2>3. \E j \in 1..Len(sc.seen) : rows = RowsFrom(sc.seen[j], sc.start)
    <3>1. Len(sc.seen) \in 1..Len(sc.seen)
      BY <1>2, StreamTypes
    <3> QED BY <1>4, <2>1, <3>1, Zenon
  <2>4. Begins(sc.got, rows)
    BY <1>5, <2>2 DEF Begins
  <2>5. 0 <= Len(rows) /\ 0 = Len(sc.got) + Len(ch) /\ 1..Len(ch) = {}
    BY <1>5, <2>2
  <2> QED BY <1>1, <1>2, <1>6, <2>1, <2>3, <2>4, <2>5, Zenon DEF Sending
<1>8. StreamInv'
  BY <1>6, <1>7 DEF StreamInv
<1>9. ScanTypes'
  BY <1>1, <1>2, <1>6, Zenon DEF ScanTypes
<1>10. up' /\ Len(sc'.seen) > 0 /\ (sc'.pc = "next" => ~sc'.ended) /\ eng'.scan = "stream"
  BY <1>1, <1>2, Zenon
<1> QED BY <1>8, <1>9, <1>10, ScanGoesOn

\* The goroutine sends the next of its rows.
LEMMA ScanSend ==
  ASSUME ScanInd, Iterators, Send
  PROVE  ScanInd'
<1>1. /\ prod.pc = "view" /\ UNCHANGED <<eng, up, mem, sc>>
      /\ prod.at < Len(prod.rows) /\ Len(ch) < ChanCap
      /\ ch' = Append(ch, prod.rows[prod.at + 1]) /\ prod' = [prod EXCEPT !.at = @ + 1]
  BY Zenon DEF Send, store, setup
<1>2. /\ eng.scan = "stream" /\ sc.pc # "idle" /\ StreamInv /\ ScanTypes
      /\ up /\ Len(sc.seen) > 0 /\ (sc.pc = "next" => ~sc.ended) /\ prod \in Producers
  BY <1>1, GoroutineRuns
<1>3. /\ sc.got \in Seq(Rows) /\ prod.rows \in Seq(Rows) /\ ch \in Seq(Rows)
      /\ Len(sc.got) \in Nat /\ Len(prod.rows) \in Nat /\ Len(ch) \in Nat
      /\ prod.at \in Nat /\ prod.done \in BOOLEAN
  BY <1>2, StreamTypes
<1>4. Sending
  BY <1>1, <1>2 DEF StreamInv
<1>5. PICK r : r = prod.rows[prod.at + 1]
  BY Zenon
<1>6. r \in Rows
  BY <1>1, <1>3, <1>5
<1>7. /\ prod' \in Producers /\ prod'.pc = "view" /\ prod'.rows = prod.rows
      /\ prod'.at = prod.at + 1 /\ prod'.done = prod.done
  <2>1. PICK n \in Nat : n = prod.at + 1 /\ prod' = [prod EXCEPT !.at = n]
    <3>1. prod.at \in Nat
      BY <1>3, Zenon
    <3>2. prod.at + 1 \in Nat
      BY <3>1
    <3> QED BY <1>1, <3>2, Zenon
  <2> DEFINE rec == [pc |-> prod.pc, rows |-> prod.rows, at |-> n, done |-> prod.done]
  <2>2. prod' = rec
    BY <1>2, <2>1, Zenon DEF Producers
  <2>3. rec \in Producers
    BY <1>2, Zenon DEF Producers
  <2>4. rec.pc = prod.pc /\ rec.rows = prod.rows /\ rec.at = n /\ rec.done = prod.done
    BY Zenon
  <2> HIDE DEF rec
  <2> QED BY <1>1, <2>1, <2>2, <2>3, <2>4, Zenon
<1>8. /\ Len(ch') = Len(ch) + 1 /\ ch'[Len(ch) + 1] = r
      /\ \A i \in 1..Len(ch) : ch'[i] = ch[i]
      /\ \A i \in 1..Len(ch') : i \in 1..Len(ch) \/ i = Len(ch) + 1
  BY <1>1, <1>3, <1>5, <1>6, OneMore
<1>9. ch' \in Seq(Rows) /\ Len(ch') <= ChanCap
  BY <1>1, <1>3, <1>5, <1>6, EmbeddedAssumption
<1>10. prod'.at <= Len(prod.rows)
  BY <1>1, <1>3, <1>7
<1>11. ASSUME sc.pc # "drain"
       PROVE  /\ ~prod.done /\ prod'.at = Len(sc.got) + Len(ch')
              /\ \A i \in 1..Len(ch') : ch'[i] = prod.rows[Len(sc.got) + i]
  <2>1. /\ ~prod.done /\ prod.at = Len(sc.got) + Len(ch)
        /\ \A i \in 1..Len(ch) : ch[i] = prod.rows[Len(sc.got) + i]
    BY <1>4, <1>11, Zenon DEF Sending
  <2>2. PICK n \in Nat, m \in Nat, k \in Nat :
          n = Len(sc.got) /\ m = Len(ch) /\ k = prod.at /\ k = n + m
    BY <1>3, <2>1, Zenon
  <2>3. k + 1 = n + (m + 1)
    <3>1. k = n + m
      BY <2>2, Zenon
    <3> QED BY <3>1
  <2>4. prod'.at = k + 1 /\ Len(ch') = m + 1 /\ r = prod.rows[k + 1]
    BY <1>5, <1>7, <1>8, <2>2, Zenon
  <2>5. prod'.at = Len(sc.got) + Len(ch') /\ r = prod.rows[Len(sc.got) + (Len(ch) + 1)]
    BY <2>2, <2>3, <2>4, Zenon
  <2> QED BY <1>8, <2>1, <2>5, Zenon
<1>12. Sending'
  BY <1>1, <1>4, <1>7, <1>10, <1>11, Zenon DEF Sending
<1>13. StreamInv'
  BY <1>7, <1>12 DEF StreamInv
<1>14. ScanTypes'
  BY <1>1, <1>2, <1>7, <1>9, Zenon DEF ScanTypes
<1>15. up' /\ Len(sc'.seen) > 0 /\ (sc'.pc = "next" => ~sc'.ended) /\ eng'.scan = "stream"
  BY <1>1, <1>2, Zenon
<1> QED BY <1>13, <1>14, <1>15, ScanGoesOn

\* It ends its transaction when it has sent them all or has been told to stop,
\* and closes the channel.
LEMMA ScanEnd ==
  ASSUME ScanInd, Iterators, EndView \/ CloseChan
  PROVE  ScanInd'
<1>1. PICK pc \in {"closing", "gone"} :
        /\ prod.pc \in {"view", "closing"} /\ prod' = [prod EXCEPT !.pc = pc]
        /\ prod.pc = "view" => prod.done \/ prod.at = Len(prod.rows)
        /\ UNCHANGED <<eng, up, mem, sc, ch>>
  BY Zenon DEF EndView, CloseChan, store, setup
<1>2. /\ eng.scan = "stream" /\ sc.pc # "idle" /\ StreamInv /\ ScanTypes
      /\ up /\ Len(sc.seen) > 0 /\ (sc.pc = "next" => ~sc.ended) /\ prod \in Producers
  BY <1>1, GoroutineRuns
<1>3. /\ prod' \in Producers /\ prod'.pc = pc /\ prod'.rows = prod.rows
      /\ prod'.at = prod.at /\ prod'.done = prod.done
  BY <1>1, <1>2 DEF Producers
<1>4. Sending
  BY <1>1, <1>2 DEF StreamInv
<1>5. ~prod.done => prod.at = Len(prod.rows)
  BY <1>1, <1>4 DEF Sending
<1>6. Sending'
  BY <1>1, <1>3, <1>4, <1>5, Zenon DEF Sending
<1>7. StreamInv'
  BY <1>1, <1>3, <1>6 DEF StreamInv
<1>8. ScanTypes'
  BY <1>1, <1>2, <1>3, Zenon DEF ScanTypes
<1>9. up' /\ Len(sc'.seen) > 0 /\ (sc'.pc = "next" => ~sc'.ended) /\ eng'.scan = "stream"
  BY <1>1, <1>2, Zenon
<1> QED BY <1>7, <1>8, <1>9, ScanGoesOn, Zenon

\* Nobody scans in the beginning.
LEMMA ScanBegins == Init => ScanInd
<1> SUFFICES ASSUME Init PROVE ScanInd
  OBVIOUS
<1>1. sc = NoScan /\ prod = NoProd /\ ch = <<>>
  BY Zenon DEF Init
<1>2. ScanTypes
  <2>1. <<>> \in Seq(Rows) /\ Len(<<>>) <= ChanCap
    BY EmbeddedAssumption
  <2> QED BY <1>1, <2>1, NoScanTypes DEF ScanTypes
<1> QED BY <1>1, <1>2, NoScanTypes DEF ScanInd

\* Every step keeps the invariant of the scans.
LEMMA ScanStep ==
  ASSUME ScanInd, Iterators, mem \in Maps, mem' \in Maps, [Next]_vars
  PROVE  ScanInd'
<1>1. CASE Open \/ Close \/ Crash
  BY <1>1, ScanLife
<1>2. CASE Flush \/ UNCHANGED vars
  <2>1. UNCHANGED <<eng, up, mem, sc, prod, ch>>
    BY <1>2, Zenon DEF Flush, setup, vars, store
  <2> QED BY <2>1, ScanUntouched
<1>3. ASSUME NEW c \in Writers, (\E call \in Calls : Call(c, call)) \/ Fail(c) \/ Return(c)
      PROVE  ScanInd'
  <2>1. UNCHANGED <<eng, up, mem, sc, prod, ch>>
    BY <1>3, Zenon DEF Call, Fail, Return, setup, store
  <2> QED BY <2>1, ScanUntouched
<1>4. ASSUME NEW c \in Writers, Apply(c) PROVE ScanInd'
  BY <1>4, ScanApply
<1>5. ASSUME NEW start \in Starts, NEW len \in ScanLens, Scan(start, len) PROVE ScanInd'
  BY <1>5, ScanScan
<1>6. CASE Scanner
  BY <1>6, ScanNext, ScanReceive, ScanClose, ScanDrain DEF Scanner
<1>7. CASE Producer
  BY <1>7, ScanView, ScanSend, ScanEnd DEF Producer
<1> QED BY <1>1, <1>2, <1>3, <1>4, <1>5, <1>6, <1>7, Zenon DEF Next

-----------------------------------------------------------------------------
(***************************************************************************)
(* What the invariants say.                                                *)
(***************************************************************************)
\* The beginning of a sequence is the whole of it when it has its length.
LEMMA BeginsWhole ==
  ASSUME NEW S, NEW s \in Seq(S), NEW t \in Seq(S), Begins(s, t)
  PROVE  Len(s) = Len(t) => s = t
  BY DEF Begins

\* The keys of rows, and rows that have the same ones one by one.
RowKeys(rows) == [i \in DOMAIN rows |-> rows[i].key]
SameKeys(got, rows) == Len(got) <= Len(rows) /\ \A i \in 1..Len(got) : got[i].key = rows[i].key

\* Their keys are the beginning too.
LEMMA BeginsKeys ==
  ASSUME NEW got \in Seq(Rows), NEW rows \in Seq(Rows), SameKeys(got, rows),
         NEW gotKeys, gotKeys = RowKeys(got), NEW rowKeys, rowKeys = RowKeys(rows),
         NEW ended, ended => Len(got) = Len(rows)
  PROVE  Begins(gotKeys, rowKeys) /\ (ended => gotKeys = rowKeys)
<1>1. PICK n \in Nat, m \in Nat : n = Len(got) /\ m = Len(rows)
  OBVIOUS
<1>2. DOMAIN got = 1..n /\ DOMAIN rows = 1..m
  BY <1>1
<1>3. (\A i \in 1..n : got[i].key \in Keys) /\ (\A i \in 1..m : rows[i].key \in Keys)
  <2>1. (\A i \in 1..n : got[i] \in Rows) /\ (\A i \in 1..m : rows[i] \in Rows)
    BY <1>1
  <2>2. \A r \in Rows : r.key \in Keys
    BY DEF Rows
  <2> QED BY <2>1, <2>2, Zenon
<1>4. gotKeys = [i \in 1..n |-> got[i].key] /\ rowKeys = [i \in 1..m |-> rows[i].key]
  BY <1>2, Zenon DEF RowKeys
<1>5. gotKeys \in Seq(Keys) /\ rowKeys \in Seq(Keys) /\ Len(gotKeys) = n /\ Len(rowKeys) = m
  BY <1>3, <1>4
<1>6. \A i \in 1..n : gotKeys[i] = rowKeys[i]
  <2>1. n <= m /\ \A i \in 1..n : got[i].key = rows[i].key
    BY <1>1 DEF SameKeys
  <2>2. \A i \in 1..n : i \in 1..m
    BY <2>1
  <2> QED BY <1>4, <2>1, <2>2, Zenon
<1>7. Begins(gotKeys, rowKeys)
  BY <1>1, <1>5, <1>6 DEF Begins, SameKeys
<1>8. Len(gotKeys) = Len(rowKeys) => gotKeys = rowKeys
  BY <1>5, <1>7, BeginsWhole, Zenon
<1> QED BY <1>1, <1>5, <1>7, <1>8, Zenon

\* The rows a client got are the first ones of a map of the scan's time.
LEMMA ScanRests == ScanInd => ScanSound
<1> SUFFICES ASSUME ScanInd, sc.pc # "idle" PROVE ScanSound
  BY Zenon DEF ScanSound
<1>1. sc \in Scans /\ ScanTypes /\ Len(sc.seen) > 0
  BY DEF ScanInd, ScanTypes
<1>2. sc.got \in Seq(Rows) /\ sc.rows \in Seq(Rows) /\ sc.seen \in Seq(Maps)
  BY <1>1, ScanFields
<1>3. DOMAIN sc.seen = 1..Len(sc.seen) /\ 1 \in 1..Len(sc.seen) /\ DOMAIN sc.got = 1..Len(sc.got)
  BY <1>1, <1>2
<1>4. CASE eng.scan = "live"
  <2>1. CursorInv
    BY <1>4 DEF ScanInd
  <2>2. PICK rows : rows = RowsFrom(sc.seen[1], sc.start)
    BY Zenon
  <2>3. sc.rows = rows /\ Len(sc.got) <= Len(rows) /\ (sc.ended => Len(sc.got) = Len(rows))
    BY <2>1, <2>2, Zenon DEF CursorInv
  <2>4. /\ \A i \in 1..Len(sc.got) : sc.got[i].key = rows[i].key
        /\ \A i \in 1..Len(sc.got) :
             \E j \in 1..Len(sc.seen) : sc.got[i].val = sc.seen[j][sc.got[i].key]
    BY <1>4, <2>1, <2>3, Zenon DEF CursorInv
  <2>5. PICK gotKeys : gotKeys = RowKeys(sc.got)
    BY Zenon
  <2>6. PICK rowKeys : rowKeys = RowKeys(rows)
    BY Zenon
  <2>7. Begins(gotKeys, rowKeys) /\ (sc.ended => gotKeys = rowKeys)
    <3>1. rows \in Seq(Rows) /\ sc.got \in Seq(Rows) /\ Len(sc.got) <= Len(rows)
      BY <1>2, <2>3, Zenon
    <3>2. SameKeys(sc.got, rows)
      BY <2>3, <2>4, Zenon DEF SameKeys
    <3>3. sc.ended => Len(sc.got) = Len(rows)
      BY <2>3, Zenon
    <3> QED BY <2>5, <2>6, <3>1, <3>2, <3>3, BeginsKeys
  <2> QED BY <1>3, <1>4, <2>2, <2>4, <2>5, <2>6, <2>7, Zenon DEF ScanSound, RowKeys
<1>5. CASE eng.scan # "live"
  <2>1. PICK j \in 1..Len(sc.seen), rows \in Seq(Rows) :
          /\ rows = RowsFrom(sc.seen[j], sc.start) /\ Begins(sc.got, rows)
          /\ sc.ended => Len(sc.got) = Len(rows)
    <3>1. CASE eng.scan # "stream"
      BY <1>2, <1>3, <1>5, <3>1, Zenon DEF ScanInd, CursorInv
    <3>2. CASE eng.scan = "stream" /\ prod.pc # "spawned"
      <4>1. prod.rows \in Seq(Rows)
        BY <1>1, StreamTypes
      <4> QED BY <3>2, <4>1, Zenon DEF ScanInd, StreamInv, Sending
    <3>3. CASE eng.scan = "stream" /\ prod.pc = "spawned"
      <4>1. sc.got = <<>> /\ ~sc.ended
        BY <3>3, Zenon DEF ScanInd, StreamInv, Spawned
      <4>2. PICK rows : rows = RowsFrom(sc.seen[1], sc.start)
        BY Zenon
      <4>3. rows \in Seq(Rows)
        BY <1>1, <1>3, <4>2, SeenMap, RowsType, Zenon
      <4>4. Begins(sc.got, rows)
        BY <4>1, <4>3 DEF Begins
      <4> QED BY <1>3, <4>1, <4>2, <4>3, <4>4, Zenon
    <3> QED BY <3>1, <3>2, <3>3, Zenon
  <2>2. sc.ended => sc.got = rows
    BY <1>2, <2>1, BeginsWhole, Zenon
  <2> QED BY <1>3, <1>5, <2>1, <2>2, Zenon DEF ScanSound
<1> QED BY <1>4, <1>5

\* The store is typed, and its invariants are parts of those above.
LEMMA StoreRests ==
  ASSUME Ind, MemInd, Iterators, ScanInd, BatchAllOrNothing
  PROVE  StoreInv
<1>1. LogOK /\ ReadsLog /\ IteratorLeavesNothing /\ OnlyStreams
  BY DEF Ind, MemInd, Iterators
<1>2. mem \in [Keys -> Values \cup {Absent}]
  BY MemType DEF Maps
<1>3. sc \in Scans /\ prod \in Producers /\ Len(ch) <= ChanCap
  BY DEF ScanInd, ScanTypes
<1>4. sc.pc \in {"idle", "next", "close", "drain"} /\ sc.at \in 0..(NKeys + 1)
  BY <1>3, ScanFields
<1>5. prod.pc \in {"gone", "spawned", "view", "closing"}
  BY <1>3 DEF Producers
<1> QED BY <1>1, <1>2, <1>3, <1>4, <1>5 DEF StoreInv, TypeOK

\* The invariants of the log, of the map and of the scans hold together.
Whole == Ind /\ MemInd /\ Iterators /\ ScanInd

\* In the beginning and from step to step.
LEMMA WholeAlways == Spec => []Whole
<1>1. Init => Whole
  BY LogBegins, MemBegins, IteratorsBegin, ScanBegins DEF Whole
<1>2. Ind /\ MemInd => mem \in Maps
  BY MemType
<1>3. (Ind /\ MemInd => mem \in Maps)'
  BY <1>2, PTL
<1>4. Whole /\ [Next]_vars => Whole'
  <2> SUFFICES ASSUME Whole, [Next]_vars PROVE Whole'
    OBVIOUS
  <2>1. Ind /\ MemInd /\ Iterators /\ ScanInd
    BY DEF Whole
  <2>2. Ind' /\ MemInd' /\ Iterators'
    BY <2>1, LogStep, MemStep, IteratorsStep
  <2>3. mem \in Maps /\ mem' \in Maps
    BY <1>2, <1>3, <2>1, <2>2
  <2>4. ScanInd'
    BY <2>1, <2>2, <2>3, ScanStep
  <2> QED BY <2>2, <2>4 DEF Whole
<1> QED BY <1>1, <1>4, PTL DEF Spec

\* For every embedded adapter and level, any number of keys, writers and calls and
\* any crashes: what is read is what the log holds, a declared atomic batch is in
\* it whole or not at all, and a client that is back from a scan leaves neither a
\* goroutine nor a row behind.
THEOREM StoreAlways == Spec => []StoreInv
<1>1. Whole /\ BatchAllOrNothing => StoreInv
  BY StoreRests DEF Whole
<1> QED BY <1>1, WholeAlways, BatchesWhole, PTL

\* And the rows of every scan, of whatever length and whatever is written
\* meanwhile, are the first ones of one state of the store between the call of
\* Scan and the transaction of the iterator; those of memory have the keys of
\* the state in which Scan was called and values of later ones.
THEOREM ScansAlways == Spec => []ScanSound
<1>1. Whole => ScanSound
  BY ScanRests DEF Whole
<1> QED BY <1>1, WholeAlways, PTL
=============================================================================
