------------------------------ MODULE Embedded ------------------------------
(***************************************************************************)
(* The adapters of the embedded stores (adapters/bbolt, badger, pebble,    *)
(* goleveldb, buntdb, pogreb, sqlite, kv, memory, lmdb, libmdbx,           *)
(* rocksfamily): what each one makes of a durability level, of a batch and *)
(* of a scan, under writers, one scanning client and crashes.              *)
(*                                                                         *)
(* The library behind an adapter is external. It is a log of the writes    *)
(* that took effect; a sync makes all of it durable, and a crash leaves    *)
(* the synced part and any number of the entries after it. An entry is the *)
(* part from..to of the operations of a write call.                        *)
(***************************************************************************)
EXTENDS Integers, Sequences, FiniteSets, FiniteSetsExt

CONSTANTS
  Configs,      \* pairs of an engine and a durability level
  NKeys,        \* keys are numbered in their order
  Values, Absent,
  Loaded,       \* the value of a key after the load
  Writers,
  Calls,        \* the write calls: [kind, ops], a Delete is a write of Absent
  Starts, ScanLens,   \* op.Key and op.ScanLen of a scan of the driver
  ChanCap,      \* room of the channel of a buntdb iterator, 64 in the code
  MaxCalls      \* bound: write calls, the load included

Engines == {"bbolt", "badger", "pebble", "goleveldb", "buntdb", "pogreb",
            "sqlite", "kv", "memory", "lmdb", "libmdbx", "rocksdb"}
Levels == {"OFF", "NORMAL", "DEFAULT", "FULL"}

Keys == 1..NKeys
Kinds == {"put", "delete", "batch"}
Ops == [key : Keys, val : Values \cup {Absent}]

ASSUME EmbeddedAssumption ==
  /\ Configs \subseteq Engines \X Levels
  /\ NKeys \in Nat /\ Starts \subseteq Keys
  /\ Absent \notin Values /\ Loaded \in Values
  /\ Calls \subseteq [kind : Kinds, ops : Seq(Ops)]
  /\ \A c \in Calls : Len(c.ops) > 0 /\ (c.kind # "batch" => Len(c.ops) = 1)
  /\ ScanLens \subseteq Nat /\ ChanCap \in Nat \ {0} /\ MaxCalls \in Nat

-----------------------------------------------------------------------------
(***************************************************************************)
(* The adapters. Of each, what Meta declares and whether Open asks the     *)
(* library for synced writes; what Put, Delete, Scan and Flush do; and     *)
(* what Commit does. syncs has the calls that are synced when the writes   *)
(* are, "op" being every operation of a Commit that is a loop; txn tells   *)
(* whether Commit is one transaction; scan is the kind of iterator; flush  *)
(* is what Flush does.                                                     *)
(***************************************************************************)
Caps(ordered, atomicBatch, durable) ==
  [ordered |-> ordered, atomicBatch |-> atomicBatch, durable |-> durable]

Calling(scan, flush) == [syncs |-> {"put", "delete"}, scan |-> scan, flush |-> flush]
Transaction == [syncs |-> {"batch"}, txn |-> TRUE]

BboltOpen(level) == [caps |-> Caps(TRUE, TRUE, TRUE), sync |-> level # "OFF"]
BboltCalls(level) == Calling("cursor", "sync")
BboltCommit == Transaction

BadgerOpen(level) == [caps |-> Caps(TRUE, TRUE, TRUE), sync |-> level = "FULL"]
BadgerCalls(level) == Calling("cursor", "sync")
BadgerCommit == Transaction

PebbleOpen(level) == [caps |-> Caps(TRUE, TRUE, TRUE), sync |-> level = "FULL"]
PebbleCalls(level) == Calling("cursor", "sync")
PebbleCommit == Transaction

GoleveldbOpen(level) == [caps |-> Caps(TRUE, TRUE, TRUE), sync |-> level = "FULL"]
GoleveldbCalls(level) == Calling("cursor", "nothing")
GoleveldbCommit == Transaction

\* Flush is Shrink, which writes the file anew.
BuntdbOpen(level) == [caps |-> Caps(TRUE, TRUE, TRUE), sync |-> level = "FULL"]
BuntdbCalls(level) == Calling("stream", "some")

\* Mutant: Commit calls Put and Delete of the engine one by one.
MutBuntdbCommit == [syncs |-> {"batch"}, txn |-> FALSE]

BuntdbCommit == Transaction

\* Put and Commit sync after the call of the library; Delete does not.
PogrebOpen(level) == [caps |-> Caps(FALSE, FALSE, TRUE), sync |-> level = "FULL"]
PogrebCalls(level) == [syncs |-> {"put"}, scan |-> "none", flush |-> "sync"]
PogrebCommit == [syncs |-> {"batch"}, txn |-> FALSE]

\* One connection; the checkpoint of Flush syncs unless synchronous is OFF.
SqliteOpen(level) == [caps |-> Caps(TRUE, TRUE, TRUE), sync |-> level = "FULL"]
SqliteCalls(level) == Calling("rows", IF level = "OFF" THEN "nothing" ELSE "sync")
SqliteCommit == Transaction

\* SyncWrites makes every Set and Delete of the library wait, in a batch too.
KVOpen(level) == [caps |-> Caps(FALSE, FALSE, TRUE), sync |-> level = "FULL"]
KVCalls(level) == Calling("none", IF level = "FULL" THEN "sync" ELSE "nothing")
KVCommit == [syncs |-> {"batch", "op"}, txn |-> FALSE]

\* A map under one lock, gone with the process.
MemoryOpen(level) == [caps |-> Caps(TRUE, TRUE, FALSE), sync |-> FALSE]
MemoryCalls(level) == Calling("live", "nothing")
MemoryCommit == Transaction

LmdbOpen(level) == [caps |-> Caps(TRUE, TRUE, TRUE), sync |-> level \notin {"OFF", "NORMAL"}]
LmdbCalls(level) == Calling("cursor", "sync")
LmdbCommit == Transaction

LibmdbxOpen(level) == [caps |-> Caps(TRUE, TRUE, TRUE), sync |-> level \notin {"OFF", "NORMAL"}]
LibmdbxCalls(level) == Calling("cursor", "sync")
LibmdbxCommit == Transaction

\* rocksdb and speedb. Scan seeks, where the others seek in the first Next.
RocksOpen(level) == [caps |-> Caps(TRUE, TRUE, TRUE), sync |-> level = "FULL"]
RocksCalls(level) == Calling("seeked", "sync")
RocksCommit == Transaction

Adapter(open, calling, commit) ==
  [caps |-> open.caps, syncs |-> IF open.sync THEN calling.syncs \cup commit.syncs ELSE {},
   txn |-> commit.txn, scan |-> calling.scan, flush |-> calling.flush]

Design(e, level) ==
  CASE e = "bbolt" -> Adapter(BboltOpen(level), BboltCalls(level), BboltCommit)
    [] e = "badger" -> Adapter(BadgerOpen(level), BadgerCalls(level), BadgerCommit)
    [] e = "pebble" -> Adapter(PebbleOpen(level), PebbleCalls(level), PebbleCommit)
    [] e = "goleveldb" -> Adapter(GoleveldbOpen(level), GoleveldbCalls(level), GoleveldbCommit)
    [] e = "buntdb" -> Adapter(BuntdbOpen(level), BuntdbCalls(level), BuntdbCommit)
    [] e = "pogreb" -> Adapter(PogrebOpen(level), PogrebCalls(level), PogrebCommit)
    [] e = "sqlite" -> Adapter(SqliteOpen(level), SqliteCalls(level), SqliteCommit)
    [] e = "kv" -> Adapter(KVOpen(level), KVCalls(level), KVCommit)
    [] e = "memory" -> Adapter(MemoryOpen(level), MemoryCalls(level), MemoryCommit)
    [] e = "lmdb" -> Adapter(LmdbOpen(level), LmdbCalls(level), LmdbCommit)
    [] e = "libmdbx" -> Adapter(LibmdbxOpen(level), LibmdbxCalls(level), LibmdbxCommit)
    [] e = "rocksdb" -> Adapter(RocksOpen(level), RocksCalls(level), RocksCommit)

-----------------------------------------------------------------------------
VARIABLES
  config,       \* the engine and the level of the cell
  eng,          \* what Open made of them
  up,           \* the engine is open
  mem,          \* the library: the map it answers from
  log, synced,  \* its log, and how much of that is durable
  calls,        \* history: the write calls so far
  acked,        \* history: those that have returned without an error
  crashed,      \* history: there has been a crash
  w,            \* w[c]: the call of writer c and how far it is
  sc,           \* the scanning client and its iterator
  prod,         \* the goroutine of a buntdb iterator
  ch            \* its channel

setup == <<config, eng>>
hist == <<calls, acked, crashed>>
store == <<setup, up, mem, log, synced>>
vars == <<store, hist, w, sc, prod, ch>>

\* buntdb locks out writers while it reads; sqlite has one connection.
Exclusive == eng.scan \in {"stream", "rows"}

Empty == [k \in Keys |-> Absent]

\* A map after an entry of the log, and after all of a log: of the writes of a
\* key the last one counts.
Hits(e, k) == {i \in e.from..e.to : calls[e.call].ops[i].key = k}

Written(m, e) ==
  [k \in Keys |-> IF Hits(e, k) = {} THEN m[k] ELSE calls[e.call].ops[Max(Hits(e, k))].val]

Replay(l) ==
  LET Hit(k) == {i \in DOMAIN l : Hits(l[i], k) # {}}
  IN  [k \in Keys |-> IF Hit(k) = {} THEN Absent ELSE Written(Empty, l[Max(Hit(k))])[k]]

\* The keys a map has from a key on, and its rows in their order: the n-th row is
\* of the key that has n of them up to it.
KeysFrom(m, start) == {k \in Keys : k >= start /\ m[k] # Absent}

Rank(S, k) == Cardinality({j \in S : j <= k})

RowsFrom(m, start) ==
  LET S == KeysFrom(m, start)
      Nth(n) == CHOOSE k \in S : Rank(S, k) = n
  IN  [n \in 1..Cardinality(S) |-> [key |-> Nth(n), val |-> m[Nth(n)]]]

Idle == [pc |-> "idle", call |-> 0, pos |-> 0]
NoScan == [pc |-> "idle", start |-> 0, len |-> 0, rows |-> <<>>, at |-> 0, first |-> TRUE,
           got |-> <<>>, ended |-> FALSE, seen |-> <<>>]
NoProd == [pc |-> "gone", rows |-> <<>>, at |-> 0, done |-> FALSE]

\* loadDataset is done, and its batch has reached the disk.
Load == [kind |-> "batch", ops |-> [k \in Keys |-> [key |-> k, val |-> Loaded]]]

Init ==
  /\ config \in Configs /\ eng = Design(config[1], config[2]) /\ up = TRUE
  /\ mem = [k \in Keys |-> Loaded]
  /\ log = <<[call |-> 1, from |-> 1, to |-> NKeys]>> /\ synced = 1
  /\ calls = <<Load>> /\ acked = {1} /\ crashed = FALSE
  /\ w = [c \in Writers |-> Idle]
  /\ sc = NoScan /\ prod = NoProd /\ ch = <<>>

\* Who holds buntdb's lock or sqlite's connection.
WriterIn == Exclusive /\ \E c \in Writers : w[c].pc = "return"
ReaderIn == \/ prod.pc = "view"
            \/ eng.scan = "rows" /\ sc.pc # "idle" /\ ~sc.ended

-----------------------------------------------------------------------------
\* Open on the directory of the cell. memory starts empty.
Open ==
  /\ ~up /\ up' = TRUE
  /\ IF eng.caps.durable THEN UNCHANGED <<mem, log, synced>>
     ELSE mem' = Empty /\ log' = <<>> /\ synced' = 0
  /\ UNCHANGED <<setup, hist, w, sc, prod, ch>>

\* RunCell flushes and closes when no client is at work.
Quiet == sc.pc = "idle" /\ \A c \in Writers : w[c].pc = "idle"

\* Close of the engine; the library syncs.
Close ==
  /\ up /\ up' = FALSE
  /\ Quiet
  /\ synced' = Len(log)
  /\ UNCHANGED <<setup, mem, log, hist, w, sc, prod, ch>>

Flush ==
  /\ up /\ Quiet /\ eng.flush # "nothing"
  /\ \E n \in synced..Len(log) : (eng.flush = "sync" => n = Len(log)) /\ synced' = n
  /\ UNCHANGED <<setup, up, mem, log, hist, w, sc, prod, ch>>

\* The machine goes down and the process with it.
Crash ==
  /\ up /\ up' = FALSE /\ crashed' = TRUE
  /\ \E n \in synced..Len(log) : log' = SubSeq(log, 1, n) /\ synced' = n
  /\ mem' = Replay(log')
  /\ w' = [c \in Writers |-> Idle] /\ sc' = NoScan /\ prod' = NoProd /\ ch' = <<>>
  /\ UNCHANGED <<setup, calls, acked>>

-----------------------------------------------------------------------------
\* A client calls Put, Delete, or Commit with the operations of its batch.
Call(c, call) ==
  /\ up /\ w[c].pc = "idle" /\ Len(calls) < MaxCalls
  /\ calls' = Append(calls, call)
  /\ w' = [w EXCEPT ![c] = [pc |-> "apply", call |-> Len(calls) + 1, pos |-> 0]]
  /\ UNCHANGED <<store, acked, crashed, sc, prod, ch>>

\* The scan that is under way will see the map after this write too.
Watch ==
  sc' = IF prod.pc = "spawned" \/ (eng.scan = "live" /\ sc.pc # "idle")
        THEN [sc EXCEPT !.seen = Append(@, mem')] ELSE sc

\* The write takes effect: a whole transaction, or the next operation of a loop.
Apply(c) ==
  LET call == calls[w[c].call]
      from == w[c].pos + 1
      to == IF eng.txn THEN Len(call.ops) ELSE from
      entry == [call |-> w[c].call, from |-> from, to |-> to]
  IN
  /\ w[c].pc = "apply" /\ from <= Len(call.ops)
  /\ ~WriterIn /\ (Exclusive => ~ReaderIn)
  /\ log' = Append(log, entry) /\ mem' = Written(mem, entry)
  /\ synced' = IF call.kind = "batch" /\ "op" \in eng.syncs THEN Len(log') ELSE synced
  /\ w' = [w EXCEPT ![c].pos = to, ![c].pc = IF to = Len(call.ops) THEN "return" ELSE @]
  /\ Watch
  /\ UNCHANGED <<setup, up, hist, prod, ch>>

\* The library refuses: a transaction is rolled back, a loop ends where it is.
Fail(c) ==
  /\ w[c].pc = "apply" /\ ~WriterIn
  /\ w' = [w EXCEPT ![c] = Idle]
  /\ UNCHANGED <<store, hist, sc, prod, ch>>

\* Mutant: the call returns before its sync.
MutReturn(c) ==
  /\ w[c].pc = "return"
  /\ acked' = acked \cup {w[c].call}
  /\ w' = [w EXCEPT ![c] = Idle]
  /\ UNCHANGED <<store, calls, crashed, sc, prod, ch>>

\* The sync of the level, and the return.
Return(c) ==
  /\ w[c].pc = "return"
  /\ synced' = IF calls[w[c].call].kind \in eng.syncs THEN Len(log) ELSE synced
  /\ acked' = acked \cup {w[c].call}
  /\ w' = [w EXCEPT ![c] = Idle]
  /\ UNCHANGED <<setup, up, mem, log, calls, crashed, sc, prod, ch>>

-----------------------------------------------------------------------------
\* Scan from a key, by the loop of runMeasured: len rows, and one Next more.
Scan(start, len) ==
  /\ up /\ sc.pc = "idle" /\ eng.caps.ordered
  /\ eng.scan = "rows" => ~WriterIn
  /\ sc' = [NoScan EXCEPT !.pc = "next", !.start = start, !.len = len,
              !.rows = IF eng.scan = "stream" THEN <<>> ELSE RowsFrom(mem, start),
              !.at = IF eng.scan = "seeked" THEN 1 ELSE 0,
              !.seen = <<mem>>]
  /\ prod' = IF eng.scan = "stream" THEN [NoProd EXCEPT !.pc = "spawned"] ELSE prod
  /\ UNCHANGED <<store, hist, w, ch>>

\* Next of an iterator handed on the row r.
Delivered(r) ==
  [sc EXCEPT !.got = Append(@, r), !.pc = IF Len(sc.got) >= sc.len THEN "close" ELSE @]

Exhausted == [sc EXCEPT !.ended = TRUE, !.pc = "close"]

\* Mutant: the cursor moves in every Next.
MutTo == sc.at + 1

\* Where Next leaves the cursor: the first one seeks, or stays where Scan sought.
To == IF ~sc.first THEN sc.at + 1 ELSE IF eng.scan = "seeked" THEN sc.at ELSE 1

\* Next of a cursor over a snapshot; that of memory looks the value up anew.
Next_ ==
  LET r == sc.rows[To]
      row == IF eng.scan = "live" THEN [r EXCEPT !.val = mem[r.key]] ELSE r
  IN
  /\ sc.pc = "next" /\ eng.scan # "stream"
  /\ sc' = IF To <= Len(sc.rows)
           THEN [Delivered(row) EXCEPT !.at = To, !.first = FALSE]
           ELSE Exhausted
  /\ UNCHANGED <<store, hist, w, prod, ch>>

\* Next of buntdb receives from the channel, which is closed at the end.
Receive ==
  /\ sc.pc = "next" /\ eng.scan = "stream"
  /\ \/ ch # <<>> /\ sc' = Delivered(Head(ch)) /\ ch' = Tail(ch)
     \/ ch = <<>> /\ prod.pc = "gone" /\ sc' = Exhausted /\ UNCHANGED ch
  /\ UNCHANGED <<store, hist, w, prod>>

\* Close of the iterator. That of buntdb closes done and goes on to drain.
CloseIter ==
  /\ sc.pc = "close"
  /\ IF eng.scan = "stream"
     THEN sc' = [sc EXCEPT !.pc = "drain"] /\ prod' = [prod EXCEPT !.done = TRUE]
     ELSE sc' = NoScan /\ UNCHANGED prod
  /\ UNCHANGED <<store, hist, w, ch>>

Drain ==
  /\ sc.pc = "drain"
  /\ \/ ch # <<>> /\ ch' = Tail(ch) /\ UNCHANGED <<sc, prod>>
     \/ ch = <<>> /\ prod.pc = "gone" /\ sc' = NoScan /\ prod' = NoProd /\ UNCHANGED ch
  /\ UNCHANGED <<store, hist, w>>

\* The goroutine of buntdb: it begins its transaction some time after Scan has
\* returned, sends, and ends the transaction before it closes the channel.
View ==
  /\ prod.pc = "spawned" /\ ~WriterIn
  /\ prod' = [prod EXCEPT !.pc = "view", !.rows = RowsFrom(mem, sc.start)]
  /\ UNCHANGED <<store, hist, w, sc, ch>>

Send ==
  /\ prod.pc = "view" /\ prod.at < Len(prod.rows) /\ Len(ch) < ChanCap
  /\ ch' = Append(ch, prod.rows[prod.at + 1])
  /\ prod' = [prod EXCEPT !.at = @ + 1]
  /\ UNCHANGED <<store, hist, w, sc>>

EndView ==
  /\ prod.pc = "view" /\ (prod.done \/ prod.at = Len(prod.rows))
  /\ prod' = [prod EXCEPT !.pc = "closing"]
  /\ UNCHANGED <<store, hist, w, sc, ch>>

\* Mutant: the goroutine ends and leaves the channel open.
MutCloseChan ==
  /\ prod.pc = "closing"
  /\ UNCHANGED vars

CloseChan ==
  /\ prod.pc = "closing"
  /\ prod' = [prod EXCEPT !.pc = "gone"]
  /\ UNCHANGED <<store, hist, w, sc, ch>>

Producer == View \/ Send \/ EndView \/ CloseChan
Scanner == Next_ \/ Receive \/ CloseIter \/ Drain

Next ==
  \/ Open \/ Close \/ Flush \/ Crash
  \/ \E c \in Writers : (\E call \in Calls : Call(c, call)) \/ Apply(c) \/ Fail(c) \/ Return(c)
  \/ \E start \in Starts, len \in ScanLens : Scan(start, len)
  \/ Scanner \/ Producer

Spec == Init /\ [][Next]_vars

\* Goroutines that can run do, and Go's RWMutex and the connection pool of
\* database/sql let every waiter in at last. Nobody is obliged to call.
FairSpec ==
  /\ Spec
  /\ WF_vars(Scanner) /\ WF_vars(Send \/ EndView \/ CloseChan) /\ SF_vars(View)
  /\ \A c \in Writers : SF_vars(Apply(c)) /\ WF_vars(Return(c))

-----------------------------------------------------------------------------
(***************************************************************************)
(* Properties.                                                             *)
(***************************************************************************)
\* The types of the log, of its history and of the writers.
LogOK ==
  /\ config \in Configs /\ eng = Design(config[1], config[2])
  /\ up \in BOOLEAN /\ crashed \in BOOLEAN
  /\ calls \in Seq(Calls \cup {Load}) /\ acked \subseteq DOMAIN calls
  /\ log \in Seq([call : DOMAIN calls, from : Nat \ {0}, to : Nat])
  /\ synced \in 0..Len(log)
  /\ w \in [Writers -> [pc : {"idle", "apply", "return"}, call : 0..Len(calls), pos : Nat]]

\* Every variable has its type.
TypeOK ==
  /\ LogOK
  /\ mem \in [Keys -> Values \cup {Absent}]
  /\ sc.pc \in {"idle", "next", "close", "drain"} /\ sc.at \in 0..(NKeys + 1)
  /\ prod.pc \in {"gone", "spawned", "view", "closing"}
  /\ Len(ch) <= ChanCap

\* The operation n of a call is in the first m entries of the log.
In(id, n, m) == \E i \in 1..m : log[i].call = id /\ n \in log[i].from..log[i].to

\* "AtomicBatch: batch Commit is atomic": what an engine that declares it has in
\* its log is whole batches, in the middle of a Commit, after one that failed and
\* after a crash.
BatchAllOrNothing ==
  eng.caps.atomicBatch =>
    \A id \in DOMAIN calls :
      \A m, n \in DOMAIN calls[id].ops : In(id, m, Len(log)) <=> In(id, n, Len(log))

\* The cells in which a write is to be durable on return: FULL, and the engines
\* whose Meta says that they fsync every commit by default. A Delete of pogreb
\* alone does not wait for a sync.
PerCommit ==
  \/ config[2] = "FULL"
  \/ config[2] = "DEFAULT" /\ config[1] \in {"bbolt", "lmdb", "libmdbx"}

Promised(id) == PerCommit /\ ~(config[1] = "pogreb" /\ calls[id].kind = "delete")

\* A write that returned is in the log, whole, as long as there was no crash, and
\* in a cell with per-commit durability after any crash: "FULL forces a
\* per-commit fsync".
AckedSurvives ==
  \A id \in acked :
    eng.caps.durable /\ (crashed => Promised(id)) =>
      \A n \in DOMAIN calls[id].ops : In(id, n, Len(log))

\* What it rests on: a promised call that returned is in the synced part of
\* the log, a call under way has what it did in the log, and a transaction is
\* one entry.
LogInv ==
  /\ \A id \in acked : eng.caps.durable =>
       \A n \in DOMAIN calls[id].ops :
         (Promised(id) => In(id, n, synced)) /\ (~crashed => In(id, n, Len(log)))
  /\ \A c \in Writers : w[c].pc # "idle" =>
       /\ up /\ w[c].call \in DOMAIN calls
       /\ \A n \in 1..w[c].pos : In(w[c].call, n, Len(log))
       /\ w[c].pc = "return" => w[c].pos = Len(calls[w[c].call].ops)
       /\ w[c].pc = "apply" /\ eng.txn => w[c].pos = 0
  /\ eng.txn => \A i \in DOMAIN log :
       log[i].from = 1 /\ log[i].to = Len(calls[log[i].call].ops)

\* The log and the writes that were acknowledged.
WritesSurvive == LogInv /\ AckedSurvives

\* When the client of a scan is back, nothing of the iterator is left: its
\* goroutine is gone, and with it the transaction that locks out the writers.
IteratorLeavesNothing == sc.pc = "idle" => prod.pc = "gone" /\ ch = <<>>

\* Only buntdb has a goroutine and a channel.
OnlyStreams == eng.scan # "stream" => prod.pc = "gone" /\ ch = <<>>

\* A read returns the last write of its key that is in the log, so that what
\* survives in the log is what is read: after a crash, after a refused write and
\* in the middle of a loop too.
ReadsLog == mem = Replay(log)

\* The store and its iterators.
StoreInv == TypeOK /\ ReadsLog /\ BatchAllOrNothing /\ IteratorLeavesNothing /\ OnlyStreams

\* The sequence s is the beginning of t.
Begins(s, t) == Len(s) <= Len(t) /\ \A i \in 1..Len(s) : s[i] = t[i]

\* The rows of a scan are the first ones of one state of the store: the one in
\* which Scan was called or, for buntdb, one between the call and the beginning
\* of the goroutine's transaction. memory takes the keys of that state, and for
\* each the value, or the lack of one, of a later moment of the scan.
ScanSound ==
  LET Fits(rows, got) == Begins(got, rows) /\ (sc.ended => got = rows)
      KeysOf(rows) == [i \in DOMAIN rows |-> rows[i].key]
  IN
  sc.pc # "idle" =>
    IF eng.scan = "live"
    THEN /\ Fits(KeysOf(RowsFrom(sc.seen[1], sc.start)), KeysOf(sc.got))
         /\ \A i \in DOMAIN sc.got : \E j \in DOMAIN sc.seen :
              sc.got[i].val = sc.seen[j][sc.got[i].key]
    ELSE \E j \in DOMAIN sc.seen : Fits(RowsFrom(sc.seen[j], sc.start), sc.got)

\* Every call returns, or the machine crashes: no writer waits for ever behind an
\* iterator of buntdb or sqlite, and no Close of an iterator for its goroutine.
\* (There are MaxCalls writes, so when all return the writers come to rest.)
CallsReturn == []<>Quiet
=============================================================================
