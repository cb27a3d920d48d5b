# A TLA+ development of kvbench

kvbench measures key/value stores. A sweep runs *cells* (an engine under a
workload in a regime), a cell loads the engine and lets a number of client
goroutines work on it, and the results become files, tables and a comparison.
This directory holds TLA+ modules of the parts of kvbench whose correctness is
hard to test, TLC configurations that check them on small instances, and proofs,
for instances of any size, about the lock-free index of the `f2` engine, the
tables of `faster` and `swiss`, batches, the operation streams, the pipes to the
Rust helper, the driver of a cell, the core split and the servers of a sweep, the
writes and scans of the embedded stores, and the results, tables and verdicts a
sweep ends in.

Contents: [the system](#the-system), [the modules](#the-modules),
[the runs](#the-runs), [bounds](#bounds), [fairness](#fairness),
[proofs](#proofs), [disagreements between code and
documents](#disagreements-between-code-and-documents), [what is not
modelled](#what-is-not-modelled), [plan](#plan).

## The system

| part | state | operations | what is hard about it |
|---|---|---|---|
| engine SPI (`engine/engine.go`) | a map from keys to values | Get, Put, Delete, Scan, batches | concurrent callers; what a batch promises |
| registry (`engine/registry.go`) | name to factory | Register, New, DefaultNames | which engines may share a table |
| f2 (`adapters/inmem`) | per shard: a table pointer, a table of atomic words, an append-only arena, a mutex | lock-free Get; Put, Delete, grow under the mutex | a probe races stores, tombstone reuse and the swap of the whole table |
| faster, swiss | one open-addressing table under an RWMutex | Get, Put, Delete, grow, applyBatch | probe runs, tombstones, load; views that outlive the lock |
| otter, memBatch | sharded maps; a buffer of operations | Put, Delete, Commit | a batch under many locks |
| rustkv and the `kvbench-rs` helper | ids, waiting channels, two pipes, a queue, a pool of workers | call, reader, failAll, Close; reader loop, workers | answers out of order, death of the helper, full pipes |
| respnet and the RESP engines | a server process, a socket path, a client | Open with a ping deadline, Close | late, hanging and dying servers |
| driver (`harness/driver.go`) | engine, directory, deferred calls, counters, histograms | RunCell, loadDataset, runMeasured | every call may fail or panic |
| hdr | buckets, total, minimum, maximum | Record, RecordCorrected, Merge, Percentile | bucket boundaries, ranks |
| workload | the state of a random source, a cursor | Next | reproducible streams, ranges, mixes |
| cpuset | affinity mask, environment | Partition, Count, Split, ServerWrap | a process that executes itself again |
| kvbench run | repetitions, files | runReps, writeResult | failed repetitions, file names |
| kvbench report, compare | results, tables | loadResults, grouping, ranking, verdicts | what ends up side by side |
| adapters of bbolt, badger, pebble, goleveldb, buntdb, pogreb, sqlite, kv, memory, lmdb, libmdbx, rocksdb, speedb | a library handle; iterators, one of them with a goroutine and a channel | Open, Put, Delete, Commit, Scan, Next, Flush, Close | what a durability level makes of a crash, what a batch is, what a scan sees, writers behind an iterator |
| locktax, env, scripts | none | measurements and I/O | |

A sweep (`cmdRun`) calls `runReps` for each cell, which calls `RunCell`, which
makes an engine from the registry, opens it, loads it, and starts the clients.
Each client owns a generator and a histogram and shares the engine with the
others. A networked engine launches its server through respnet, which pins it
through cpuset; a Rust engine launches the helper. `report` and `compare` read
the files of a sweep.

`PROJECT.json` lists the same parts with their status, the hazards of the code
with the line where each one bites and the properties that watch it, the source
lines of every definition, and a mutant of the model for every property.

## The modules

| module | models | grain |
|---|---|---|
| `KVMap` | what the SPI promises of the point operations | a write is one step; a Get is a call, an answer, a return |
| `F2Shard` | one f2 shard | one step per access another goroutine can see |
| `Inmem` | what `OpenTable` and `MemBatch` share: keys, values, the operations of a batch | |
| `OpenTable` | the tables of faster and swiss | a writer: lock, one step per operation and per slot that grow moves, unlock; a Get is one step, the end of the use of its view another |
| `MemBatch` | memBatch over one lock or a lock per operation | one step per operation applied |
| `RustPipe` | the rustkv adapter and the helper | one step per critical section, frame and channel operation |
| `RunCell` | RunCell with loadDataset and runMeasured | one step per engine call, deferred function and client operation |
| `Hdr` | the histogram, and its use by runMeasured | one step per call |
| `Workload` | the generator, run twice from one seed | one step per operation |
| `CpuSplit` | cpuset and resolveCPUSplit | one step per exec and pass |
| `RespNet` | Open and Close of respnet over a sweep, on top of `CpuSplit` | one step per system call that another process can see |
| `Embedded` | the adapters of the embedded stores under writers, a scan and crashes | one step per write that takes effect, sync, row and channel operation |
| `Sweep` | cmdRun, runReps, writeResult, the registry | one step per repetition and per file |
| `Board` | report and compare on top of `Sweep` | one step per table and command |
| `MC*` | constants for TLC | |
| `F2StepProofs`, `F2ShardProofs` | the proofs about `F2Shard` | |
| `InmemProofs` | the proofs about `OpenTable` and `MemBatch` | |
| `HarnessProofs` | the proofs about `RunCell` and `Workload` | |
| `RespNetProofs` | the proofs about `RespNet` and `CpuSplit` | |
| `BoardProofs` | the proofs about `Sweep` and `Board` | |
| `RustPipeProofs`, `EmbeddedProofs` | the proofs about the module each is named after | |

`Board` extends `Sweep`: what it reports are the files a sweep wrote. `F2Shard`
instantiates `KVMap` under a refinement mapping. `RespNet` extends `CpuSplit`:
the sweep begins when the split is settled, and each server is launched through
`ServerWrap` with the configuration that `RunCell` builds.

How state corresponds to code, where it is not obvious:

* **F2Shard.** `heap[t]` is the t-th `f2tab` the shard allocates, `cur` the one
  `tab` points at. A word is a record of state, tag and offset in place of the
  packed 64 bits; a record takes one cell of the arena, so sizes count records.
  Hash and tag bits are constant functions: any collision may be chosen. What
  the mutex holder does between two accesses that a reader can see is folded
  into the later one. `oracle` and `seen` are history: the last visible write of
  a key, and what the key of a Get in flight has held since its call.
* **OpenTable.** `design` is faster or swiss, chosen at the start: they differ in
  their load limit, and swiss overwrites the bytes of a value where faster
  appends. `phase` is where the one writer is, `todo` what it has still to do
  under the lock, `old` and `at` the loop of `grow`. A probe is not walked: the
  slot where the loop ends is the nearest to the home slot, in the order of the
  probe, of those that are empty or hold the key (`EndsProbe`). A view is a buffer
  and what it held when it was handed out.
* **MemBatch.** `perOp`, chosen at the start, tells otter and f2 from faster and swiss.
* **RustPipe.** A pipe holds `PipeCap` frames. The helper may die at any moment
  (`Die`) and a worker in an unwrap on a write (`Panic`). Get and Put stand for the requests;
  the others differ in payload only.
* **RunCell.** `defers` is the stack of deferred functions, `slot` the result
  the caller gets. An engine call returns, fails, or panics in the phases of
  `Panics`.
* **Hdr.** Percentiles are in hundredths of a percent. Widths are those of
  `SubBits` bits, 7 in the code; the shape of a bucket depends on them alone. The
  rank of a percentile is computed as in the code, in floating point, with a
  mantissa of `FloatBits` bits: the share is rounded, then the product, and then
  it is rounded up to an integer. A step records one sample, or a burst of equal ones.
* **Workload.** A word has `Word` values and wraps. The exclusive or and the shift
  are constant operators, for TLC those of the module Bitwise on twelve bits; the
  other constants are the low bits of those in the code. The real-valued curve of
  the Zipfian is the constant operator `PowRank`.
* **CpuSplit.** A list is a sequence of ranges. `taskset` itself is external.
* **RespNet.** The server process is external: it may come up at any time, hang,
  crash, or obey SHUTDOWN. `cores[i]` are the cores server i was launched on.
* **Embedded.** `config` is the engine and the level of the cell; `eng` is what
  the adapter makes of it (`Design`). Each adapter is three operators that `Adapter`
  joins: `BboltOpen` is what Meta and Open say and set, `BboltCalls` what Put, Delete,
  Scan and Flush do, `BboltCommit` what Commit does, and so on to `RocksCommit`. Get
  and Stats change no state and are part of none. The library is external. It is a log of the writes that
  took effect, `synced` of which are durable; a crash keeps those and any number
  of the entries after them, which covers whatever it flushes in the background.
  An entry is a whole transaction or one operation of a batch that is a loop. A
  WriteBatch of badger is taken to fit one transaction. `calls`, `acked` and
  `crashed` are history, and so is `sc.seen`, the states of the store that a scan
  may show. The iterator of buntdb has its goroutine (`prod`) and channel (`ch`);
  a read transaction of buntdb and the one connection of sqlite lock out writers.
* **Sweep and Board.** `cmd` is the command line, one of `Commands`. It lists cells in
  order, and may name one twice, or an engine that is not built in; `Skip` passes
  over the cells of engines that are not `Chosen`. A cell has the six axes that
  writeResult makes a file name of. The name is those axes with the slashes of the
  regime replaced (`NameOf`, by the constant operator `Slashless`), so two cells may
  have one name. A write may fail, before it touches the file or after it has
  truncated it; `lost` is the history of that. `skipped` and `baseSkipped` are the
  files that loadResults could not read, for report or `--kv` and for `--baseline`.
  An engine may name a class that is none of the four of `classOrder`, which then
  has no table. A throughput is a number of a small set, zero included. The sorted
  copy of `MedianOf` is given by its order statistics (`Sorted`). A repetition
  succeeds, fails, or panics, and a panicked one is what RunCell really returns
  then: a Result without engine, workload or error, which `runReps` takes for a
  success of no throughput.

## The runs

Passing runs. States are distinct states.

| run | configuration | states | properties |
|---|---|---|---|
| `f2_shard` | MCF2Shard | 23,037 | `IndInv`, `TableMatchesOracle`, `GetLinearizable`, `RoomKept`, `RecordsImmutable`, `OldTablesFrozen`, `ImplementsMap`, `GetAnswers`, `MutexReleased` |
| `open_table` | MCOpenTable | 258,056 | `TableInv`, `TableMatchesOracle`, `ViewStable` |
| `batch` | MCMemBatch | 1,674,312 | `BatchInv`, `BatchAtomic` |
| `rust_pipe` | MCRustPipe | 88,565 | `AnswersInv`, `PipeInv`, `CallReturns`, `CloseReturns` |
| `run_cell` | MCRunCell | 32,286 | `CellInv`, `MeasurementComplete`, `CellEnds` |
| `hdr` | MCHdr | 24,336 | `HistInv`, `MergeExact`, `PercentileRanked` |
| `workload` | MCWorkload | 3,072 | `StreamInv`, `StreamsReproducible`, `MixExact` |
| `resp_net` | MCRespNet | 98,473 | `SplitInv`, `CellsInv`, `SplitSettles`, `CellReturns` |
| `embedded` | MCEmbedded | 158,229 | `StoreInv`, `WritesSurvive`, `ScanSound`, `CallsReturn` |
| `board` | MCBoard | 214,222 | `BoardInv`, `MedianHonest`, `LatencyFromMedianRep`, `ReportComplete`, `ComparisonSound` |

A property whose name ends in `Inv` joins invariants that are defined, with a
comment each, just above it, most of them with the type invariant of the module:

| property | joins |
|---|---|
| `TableInv` | `ProbeRunsIntact`, `LoadBounded`, `BuffersUnshared` and what they and the other two properties rest on: `GrowInv`, `ContentsInv`, `ViewInv` |
| `BatchInv` | `SoloCommitExact` and what it rests on, `LockInv` |
| `AnswersInv` | `AnswerIsOwn` and what it rests on, `FramesInv` and `ChannelsInv` |
| `PipeInv` | `NoLostWaiter`, `NoneRegisteredAfterFailure` and what they rest on, `OnePlace` and `NotTwice` |
| `CellInv` | `EngineOutlivesNoOne`, `NothingLeftBehind`, `LookedAtErrorsReported`, `FullLabelHonest` and what they and `MeasurementComplete` rest on: `DefersArmed`, `ResultEarned`, `LoadedInOrder`, `OperationsCounted` |
| `HistInv` | `PercentilesOrdered` |
| `SplitInv` | `SplitsWholeBox`, `ClientPinned` |
| `StreamInv` | `KeysInRange` |
| `CellsInv` | `MeasuresOwnServer`, `ClosedIsTornDown`, `FallsBackWhole` and what they rest on, `SocketsPrivate` and `WholeUntilPinned` |
| `StoreInv` | `BatchAllOrNothing`, `IteratorLeavesNothing`, `OnlyStreams`, `ReadsLog` |
| `BoardInv` | `ResultsKept` with what it rests on, `SweepInv`; `ClassesApart` and `RowsRanked` with what they, `ReportComplete` and `ComparisonSound` rest on, `TablesInv` |

`RoomKept` of f2 joins `CountersExact`, `SomeSlotEmpty` and `ArenaFits` with what
they rest on, `LoadKept`, and
`WritesSurvive` of the embedded stores `AckedSurvives` with what it rests on,
`LogInv`.

What they show, in short:

* A lock-free Get of f2 is linearizable against Put, Delete, tombstone reuse and
  grow; the shard implements an atomic map; no write is lost; a record that was
  appended and a table that was replaced never change; counters are exact, the
  arena never overflows, and every probe ends.
* The tables of faster and swiss keep their probe runs and their load bound
  through any mix of puts, deletes, batches and grows, at every step of the
  writer, so that a probe ends and finds the newest write. What a Get of faster
  handed out does not change.
* A batch under one lock is atomic. A batch with a lock per operation is exact
  when no one else writes.
* Over the pipes of the helper each caller gets an answer to its own request,
  or an error once the helper is gone; nobody is forgotten and, unless a worker
  panics, nobody waits for ever, with pipes that hold a single frame.
* On every way out of RunCell the engine is closed before its directory goes
  and after its clients are done, and a result that claims a measurement rests
  on a complete one.
* Histograms lose no sample, whatever the order of merging, and a percentile
  names the bucket of a sample that is that percentile, though its rank is computed
  in floating point and may be one too large.
* The generator issues the same streams whatever the schedule.
* cpuset divides the whole box and the process settles after one exec; a run
  that is not split leaves itself and every server the whole box.
* A cell of respnet measures the server it started and always ends.
* A write of an embedded store that returned is there until a crash, and in a
  cell with per-commit durability after any crash, with one exception (see the
  disagreements). A batch of an adapter that declares AtomicBatch is in the store
  whole or not at all. A scan shows one state of the store; that of memory shows
  the keys of one state with the values of later ones. No writer waits for ever
  behind an iterator, though buntdb's holds a read transaction while its
  goroutine is stuck in a send.
* The number a sweep publishes is a median of the repetitions that were measured;
  one that panicked can make it too small, never too large, and its latencies are of
  a measured repetition. A file that was written is written over only by a later run
  of its cell, or of a cell that differs in the slashes of the regime. The report
  shows every result that was written and read, of the four classes, in one row, in
  the table of its class. A verdict of compare is "5x-CLEARED", "lead" or "behind" exactly
  when the numbers read say so, and none is given over a throughput of zero.

A run is `tlc -config MCBoard.cfg MCBoard`; `MemBatch`, `RustPipe`, `RunCell` and
`Hdr` need no MC module, so `MCHdr.cfg` goes with `Hdr` and so on. The
proofs are checked by `tlapm` on each `*Proofs` module.

Two more runs, `hdr_precision` and `run_cell_panic`, are expected to violate their
property: see [the disagreements](#disagreements-between-code-and-documents).

Deadlock is checked except where the modelled program stops: `rust_pipe` (the
calls are bounded, and a pool whose workers have all panicked stands still),
`workload`, `board` and `resp_net` (a sweep of finitely many operations
or cells ends).

## Bounds

* **f2.** `MaxTabs` tables, `MaxTail` records at the start of a Put. Tables of two
  and four slots; two keys with one tag and one home slot, the last one, so that
  probes wrap and tags collide. The first record does not fit the first arena, so
  the first grow is for the arena alone; the next is for the load, with records
  to copy. A reader can sit on a table that was replaced twice, and the third
  table has room for a tombstone to be reused. One reader is enough, since
  readers do not see one another; two writers compete for the mutex.
* **faster, swiss.** Four slots growing to eight (`MaxSlots`; no operation starts
  that could need more), `MaxBufs` value buffers, three
  keys, two of which collide at the last slot, and batches that insert, delete
  and reuse. One client holds a view while writes go on. The proofs are for any
  bounds.
* **MemBatch.** Two clients, two keys, batches of up to two operations: the
  least with a state in the middle of a batch.
* **RustPipe.** `MaxCalls` calls of two clients, two workers, pipes of one frame,
  where every write may block.
* **RunCell.** All combinations of engine capabilities; two clients and five
  operations, which do not divide; three keys in batches of two, so that the
  last batch is short.
* **Hdr.** `SubBits` 2 and values up to 63 (`MaxNs`): several magnitudes, values on
  and beside their boundaries. Two clients record `MaxRecords` times each, one sample
  or 499 at once, so that totals of 1, 2, 500, 998, 1000 and up to 1996 occur.
  `FloatBits` is 16 in place of 53: with 16 bits, as with 53, the 99.9th percentile
  of 1000 samples gets rank 1000 in place of 999, and up to 2000 samples no rank is
  further off.
* **Workload.** Twelve-bit words, seed 2, all workloads of the catalogue, two clients,
  three operations each, two runs.
* **CpuSplit, RespNet.** Boxes of one to four cores and a container with cores 4
  to 7; core lists that overlap in themselves and that end before they begin. Two
  cells (`MaxCells`), so that the server of an earlier cell, killed and not
  waited for, may be around; the proofs are for any number.
* **Embedded.** All engines at DEFAULT and FULL, the levels the command line
  takes. Two writers with two calls in all (`MaxCalls` counts the load too), of
  three kinds: a Put and a Delete of one key, and a batch over that key and the
  next. Scans of a range of four keys by a client that has enough after one, over a
  channel with room for one row: the goroutine of buntdb is then stuck in a send
  when its client closes. Crashes are not bounded.
* **Sweep, Board.** Six command lines. `Default` sweeps the default engines once:
  two classes of the four and one that is none of them, and a reference rail that is
  not run. `Versus` names both engines of kv and two rivals. `Thrice` and `FourTimes`
  repeat cells, which leaves any number of good, failed and panicked repetitions, even
  and odd, and ask a server for FULL, which is refused. `Twice` names one cell twice
  with an engine that is not built in between. `Slashes` has two regimes with one
  slashless form at two concurrencies. Throughputs are 0, 2 and 10, a factor of five
  apart; `--exclude` names nobody or bbolt. `MaxFaults` is one write that fails or
  one file that is not read; in the proofs it is any number.

## Fairness

* `F2Shard!FairSpec`: a client in the middle of Get, and the holder of the
  mutex, keep running (the Go scheduler is preemptive). Nobody is obliged to
  call, and no fairness is needed for taking the mutex.
* `RustPipe!FairSpec`: goroutines and threads that can run do; the reader and
  the workers of a living helper keep reading. Death and panic are never
  obliged to happen.
* `RunCell!FairSpec`: engine calls return and goroutines run.
* `RespNet!FairSpec`: the harness runs, through its passes and its cells, the
  clock passes the deadline, and a process that was sent SIGKILL dies. No server
  is assumed to come up, to answer, or to obey.
* `Embedded!FairSpec`: goroutines that can run do, and a waiter is let in at
  last by the lock of buntdb (a Go RWMutex, which stops new readers once a writer
  waits) and by the connection pool of database/sql (which serves its queue):
  hence strong fairness for a write and for the beginning of a read transaction.
  Nobody is obliged to call, to crash or to open again.

## Proofs

### The shard of f2

For every set of keys, values and clients, every hash and tag
function, and every size of table and arena, from `F2Assumption` alone (the
sentinels are no keys or values, hashes and tags are natural numbers, a table
has at least two slots):

| theorem of `F2ShardProofs` | says |
|---|---|
| `Invariance` | `Spec => []IndInv` |
| `Linearizability` | `Spec => []GetLinearizable` |
| `NoLostWrite` | `Spec => []TableMatchesOracle` |
| `Immutability` | `Spec => RecordsImmutable` |
| `FrozenTables` | `Spec => OldTablesFrozen` |
| `Refinement` | `Spec => ImplementsMap` |
| `Room` | `Spec => []RoomKept` |

`GetLinearizable` is not inductive. `IndInv` strengthens it by

* `TypeOK`;
* `MutexInv`: one holder, whose grow alone has a table that is not published,
  and whose appended record is where it thinks it is;
* `TablesWellFormed`: in every table a full word points at a record under the
  tag of its key, a key has one slot, and no empty slot lies between the home
  slot of a key and its slot;
* `ReplayInv`: a grow has copied exactly the records of the slots behind it;
* `OracleInv`: the published table holds exactly the newest writes;
* `ReaderInv`: whatever a reader may still find is a value its key had during
  the call, and unless the key was absent at some moment of the call, its slot
  lies ahead of the reader. This is the heart of the matter: a slot never
  changes its key except through a tombstone, and a delete is a moment of
  absence.

`Refinement` needs no more than `IndInv`. By `OracleInv` the map of the
refinement mapping, what a lookup in the published table finds, is the map of the
history, so a grow changes nothing of it and a Put or a Delete changes it in the
one step that stores the slot word. By `ReaderInv` the value a probe ends with is
among those its call has seen, which is the guard of `GetAnswer` in `KVMap`.

`Room` needs `IndInv` and, beside the counters, `LoadKept`. That every table has an
empty slot follows from its load, and the load from what a client in the middle
of a Put may rely on (`RoomFor`): after the checks of `putLocked` a slot and a
cell are left for its record; in a grow the new table has taken one cell and one
slot for each record copied, those still to copy and the copied ones make up
`live` of the old table, and the sizes that `grow` computes leave one more of
each. Counters are cardinalities of sets of slots, so the argument is one about
adding and removing an element of a finite set.

The lemmas are laid out by what they are about: `F2StepProofs` (the probe
sequence; what an append, an insert, a repoint and a tombstone do to a table, and
what a probe finds; then that every step keeps `IndInv`) and `F2ShardProofs` (the
theorems, the refinement, and the counters). `MaxTabs` and `MaxTail` bound the
guards and may be any number, so the theorems hold for runs of any length.

### The tables of faster and swiss

From `InmemAssumption` (an absence is no value) and `OpenTableAssumption` (hashes
are natural numbers, the first table has at least two slots, the load factors are
the two in the code), for any keys, values, clients, hash function, batches and
sizes:

| theorem of `InmemProofs` | says |
|---|---|
| `TableShape` | `TableSpec => []TableInv` |
| `TableNewest` | `TableSpec => []TableMatchesOracle` |
| `TableViews` | `TableSpec => []ViewStable` |

`TableInv` is inductive as it stands. Its parts about one table are that the probe
run of a key has no gap and ends in its one slot, that the counters are those of the
slots and within the load factor, and that no buffer has two keys. In the middle of a
`grow` neither the old table nor the new one says all of this, so `GrowLoop` says how
the two stand to each other: the new one, twice as large, has the full slots of the old one behind `at`,
those only, and no tombstone. A load factor below one leaves an empty slot in
any table within it, hence a last slot for every probe; after a `grow` the load is
half of what it was at most, which leaves room for the put that caused it. `ContentsInv`
says which of the two tables holds the newest writes, and `TableNewest` follows
from it and the probe runs. `TableViews` needs that a buffer of faster is written
once, and that the buffer of a view exists. `MaxSlots` and `MaxBufs` stand in
guards only.

### Batches of the in-memory engines

From `InmemAssumption` and `MemBatchAssumption` (`MaxOps` is a number), for any clients, keys and
batch lengths, `CommitCorrect` of `InmemProofs` is `Spec => []BatchInv` and
`CommitAtomic` is `Spec => BatchAtomic`. `LockInv` is the strengthening: the
buffer of a client is what it asked for since its last Commit, an engine with one
lock has it held by exactly the client in its loop, and that client is alone.
Both rest on one lemma about `Replayed`: to replay one more operation is to set
one more key.

### The driver of a cell

From `RunCellAssumption` (there are finitely many clients and at least one, and a
batch of the load holds at least one key), for any numbers of clients, keys and
operations, and any engine call that fails or panics:

| theorem of `HarnessProofs` | says |
|---|---|
| `CellCorrect` | `Spec => []CellInv` |
| `CellMeasures` | `Spec => []MeasurementComplete` |

`DefersArmed` ties the stack of deferred functions to what each is there to undo,
so that unwinding from any point ends with a closed engine and no directory.
`ResultEarned` follows the conditions of the return statements, `LoadedInOrder`
the load key by key. `OperationsCounted` says that the operations in the
histograms and those the clients have still to do make up `perClient` for each
client.

### The streams of operations

From `WorkloadAssumption`, for any word size, seed, keyspace, numbers of runs,
clients and operations, and every workload of the catalogue:

| theorem of `HarnessProofs` | says |
|---|---|
| `StreamsServed` | `StreamSpec => []StreamInv` |
| `SameStreams` | `StreamSpec => []StreamsReproducible` |
| `MixAlways` | `StreamSpec => []MixExact` |

The assumption asks of the exclusive or and of the shift that they make words of
words, of the Zipfian curve that it is a natural number, and of a dataset of a
single key that every draw is below the first cut of `zipf.next`. The last is so in
the code, where zetan is then 1 and a draw less than 1; without it the second rank
would be no key. That two streams agree is not inductive, since a step in one
run says nothing of the other. `StreamOf` says instead that each stream is what its
generator returns on a way from the seed; two ways from one seed agree, because
there is no first state in which they differ. The mix is arithmetic on the running
sums of `pick`: the numbers of a kind are an interval between two of them.

### The pipes of the Rust helper

`AnswersAlways` of `RustPipeProofs` is `Spec => []AnswersInv`, from
`RustPipeAssumption` (a pipe holds at least one frame): for any clients, workers
and pipe size, whatever dies or panics, a caller gets the answer to its own
request. `AnswerIsOwn` speaks of a call that has its answer; the invariant
follows the request there. `FramesInv` says that every frame in stdin, in the
queue or in a worker is the request its caller sent under that id, if that
caller still waits, and that every answer in a worker or in stdout is one to
that request. `ChannelsInv` says that no two callers have one id, that an id is
below `nextID`, and that a channel with an answer is no longer registered, so
that the answer is the only one.

`BooksAlways` is `Spec => []PipeInv`, from the same assumption. `NoLostWaiter` says
that the answer of a caller who waits is on its way. This needs `OnePlace`, that
no request is in two of stdin, the queue, the workers and stdout, or twice in
one of them, since a step takes a request out of one place only; and `NotTwice`,
that a call which has not sent its request, or which has its answer, is not on
its way.

### The servers of a sweep

From `RespNetAssumption` (there is at least one cell) and `CpuSplitAssumption` (a
box has finitely many cores and at least one, a list is a sequence of ranges), for
any number of cells, any boxes and any core lists:

| theorem of `RespNetProofs` | says |
|---|---|
| `CellsAlways` | `Spec => []CellsInv` |
| `OwnServer` | `Spec => []MeasuresOwnServer` |
| `TornDown` | `Spec => []ClosedIsTornDown` |
| `Colocated` | `Spec => []FallsBackWhole` |
| `SplitAlways` | `Spec => []SplitInv` |

A ping is answered by whoever listens on a path. That this is the engine's own
process needs `SocketsPrivate`: a path is given out once, and the file on it is
bound by the process it was given to. `WholeUntilPinned` says that only a process
that carries the guard variable is masked and that no server is started before
the split is settled, which is what `FallsBackWhole` needs.

`SplitAlways` is about the process before the first cell. The strengthening says
what each pass knows: the first has no guard variable, the second has the lists
that `Partition` made of the number of cores the first one saw. That these divide
the box is arithmetic on the two halves; that GOMAXPROCS, which `Count` sizes, is
the number of cores in the mask counts the pairs of a range and a core in it.

### The writes and scans of the embedded stores

From `EmbeddedAssumption` (engines and levels are known ones, a call has
operations, and only a batch has several), for any keys, values, writers and
calls, and any number of crashes:

| theorem of `EmbeddedProofs` | says |
|---|---|
| `WritesAlways` | `Spec => []WritesSurvive` |
| `BatchesWhole` | `Spec => []BatchAllOrNothing` |
| `IteratorsEnd` | `Spec => []IteratorLeavesNothing` |
| `StoreAlways` | `Spec => []StoreInv` |
| `ScansAlways` | `Spec => []ScanSound` |

The inductive invariant of the first two is `LogOK /\ LogInv`: an acknowledged call with a
promise is in the synced part of the log, not just in the log, a call under way
has in the log what it has done so far, and the entries of an adapter with
transactions are whole calls. A crash cuts the log behind the synced part, so
the first part keeps `AckedSurvives` and the last `BatchAllOrNothing`.
`IteratorsEnd` rests on the order in which the Close of a buntdb iterator
works: it returns when the channel is closed, which the goroutine does last.

`ScansAlways` needs the log, the map and the iterators at once (`Whole` in
`EmbeddedProofs`). `ReadsLog` says that the map which Get and Scan read is the
replay of the log, which a crash cuts. `ScanInd` tells the kinds of iterators
apart. A cursor has handed out the first rows of the map in which it was opened,
as many as it has made steps; that of memory their keys, each with a value the
key had since. For buntdb what the client has and what is in the channel are,
one behind the other, the first rows of the map in which the goroutine's
transaction began, and an iterator that has ended has them all, since the
goroutine closes the channel after the last one. The rows of a map are its keys in
order, each at the place that its number of smaller keys gives it, which makes
the facts about them facts about finite sets of numbers.

### The results of a sweep and what is made of them

From `SweepAssumption` (the cells of a command line are cells, no engine has the
empty name, an engine that names one of the four classes names "embedded" exactly
if it is no server, as the engines in the repository do, a throughput is an even
natural number, and `MaxFaults` is a number), for any engines, command lines, numbers of
repetitions and throughputs, any `Slashless`, and any writes and reads that fail:

| theorem of `BoardProofs` | says |
|---|---|
| `SweepAndReport` | `BoardSpec => []BoardInv` |
| `PublishedMedian` | `BoardSpec => []MedianHonest` |
| `PublishedLatency` | `BoardSpec => []LatencyFromMedianRep` |
| `NoRowLost` | `BoardSpec => []ReportComplete` |
| `VerdictsSound` | `BoardSpec => []ComparisonSound` |

The inductive invariant is `SweepInv /\ TablesInv`. `SweepInv` ties the files to the
history: each is the aggregate of a cell that was run, under the name of that cell.
`ResultsKept` looks the other way, from a cell that was run to what has its file now:
its own result, or that of a later cell, or nothing because the write of a later cell
failed. That only a cell alike but for slashes can be that later one is a
fact about names (`NameFacts`): two names are equal exactly if the other five axes
are, and the regimes are without their slashes. The result of a cell whose nearest
repetition panicked has no axes; its name is that of no cell, so it covers only others like
it. `TablesInv` says that a table is a ranking of all files of its class and workload
that were read, and the comparison that of the files read for each side. The files do
not change any more once the sweep is done, so both stay true.

The rest is about values. That a sorted copy has a k-th element is shown with the
least number that k of the throughputs do not exceed; the median is that element,
or lies between two such, and the counts of `MedianHonest` are counts of what
is not above and not below it. A panicked repetition counts as zero, which is
below whatever was measured: leaving it out takes nothing from those at or above
the median, which is why that half of `MedianHonest` stands. There is a first
nearest repetition because the numbers of the repetitions and the distances are
well-ordered. In a report a cell that is the last of its name (`LastOfItsName`) is one row:
its file is its own result (`LastOnFile`), any other row with its cell would be a file with
its name, of which there is one, and a ranking, a bijection, lists each row once. The verdict
is a comparison with two maxima of finite sets.

### Only model-checked

The properties of `Hdr`: `HistInv`, `MergeExact` and `PercentileRanked` speak of
sums over the buckets, and what a recursive definition or a fold computes for every
input is beyond the prover. Where a module that is proved about needed such a value,
it has it in a closed form: the last write of a key in `MemBatch` and `Embedded`, the
number of cores in a list in `CpuSplit`, the place of a row in `Embedded`, the end of
a probe in `OpenTable`, the k-th of a sorted copy in `Sweep`; and the loop of `grow`
is one of steps. The sums of `Hdr` have no such form.

Liveness under fairness is beyond the prover, and stays with TLC for good:
`GetAnswers`, `MutexReleased`, `CallReturns`, `CloseReturns`, `CellEnds`,
`SplitSettles`, `CellReturns` and `CallsReturn`.

## Disagreements between code and documents

Two are runs that violate one property, with an entry under `findings`:

| run | property | what the run shows |
|---|---|---|
| `hdr_precision` | `PrecisionKept` | `index` keeps `subBits` bits of a value, the leading one included, and `valueAt` adds the leading one again: a latency comes back up to three times too large, where `hdr/hdr.go:12` says "~1% relative precision" |
| `run_cell_panic` | `PanicCaptured` | the deferred recover assigns `r.Error`, but the result of RunCell has no name and is the zero Result, where `harness/driver.go:43` says "an engine failure is captured in Result.Error" |

The others came up while modelling. The modules do what the code does, and the
properties are stated so that they hold of it; the wider statement of the
document does not:

| document | code | what is checked instead |
|---|---|---|
| "an engine failure is captured in Result.Error" (`harness/driver.go:43`) | the clients drop the errors of Get, Put, Delete and Scan (`driver.go:254`) | `LookedAtErrorsReported`: Open and the load |
| "It never panics out" (`driver.go:43`) | a panic in a client goroutine is outside the recover (`driver.go:245`) | `NothingLeftBehind`: short of the process dying |
| "measured ops (total across clients)" (`driver.go:32`) | a quotient per client, rounded down, at least one (`driver.go:234`) | `MeasurementComplete`: every client does its share |
| "batch Commit is atomic" (`engine/engine.go:72`), declared by f2 and otter | `applyBatch` locks once per operation (`inmem.go:834`) | `BatchAtomic` of faster and swiss; `SoloCommitExact` of all |
| "forces a per-commit fsync on every embedded engine" (`README.md:119`) | Delete of pogreb does not sync (`pogreb.go:68`) | `AckedSurvives`, a Delete of pogreb excepted |
| "bbolt and sqlite fsync on every commit" at DEFAULT (`docs/content/methodology/_index.md:42`) | sqlite is opened with synchronous NORMAL (`sqlite.go:39`), which its Meta says syncs at checkpoints | `AckedSurvives` at DEFAULT of bbolt, lmdb and libmdbx |
| "call frames one request and blocks for its response" (`rustkv_subprocess.go:168`) | a worker that panics never answers, and the helper lives on (`engines.rs:75`) | `CallReturns`, unless a worker panicked |
| "the driver discards the value" (`inmem.go:16`) | the read-modify-write reads the view after the lock is gone (`driver.go:266`), and swiss overwrites in place (`inmem.go:419`) | `ViewStable` of faster |
| "hands the server a disjoint one" (`respnet.go:119`) | RunCell builds `engine.Config` without the server list (`driver.go:116`) | `ClientPinned`: the client's side |
| "fillseq partitions the keyspace by client" (`workload.go:109`) | the cursors start at neighbouring keys and advance by one (`workload.go:193`) | `StreamsReproducible` |
| "seeded distinctly so clients do not all hit the same keys" (`workload.go:76`) | seeds differ by multiples of the increment of splitmix64, so one client can follow in the steps of another (`workload.go:95`) | `StreamsReproducible` |
| "owned and torn down by the adapter" (`respnet.go:6`) | a server that misses the deadline is killed, not reaped, and its socket stays (`respnet.go:140`) | `ClosedIsTornDown`: engines that opened |
| "A DEFAULT number and a FULL number never share a table." (`README.md:121`) | tables are grouped by class and workload alone (`report.go:178`) | `ClassesApart` |
| "never put in a table next to a real store" (`README.md:39`), of reference engines | report does not look at the mark (`report.go:93`) | `ClassesApart` |
| "aggregates: throughput median/min/max" (`cmd/kvbench/main.go:270`) | a panicked repetition has no error and counts as one of throughput zero (`main.go:283`) | `MedianHonest`, `LatencyFromMedianRep`: of the measured repetitions, the number possibly too small |
| "run the matrix, write JSON per cell" (`README.md:91`) | regimes that differ in slashes share a file, and a write that fails is printed and forgotten (`main.go:330`, `main.go:336`) | `ResultsKept`: no other cell costs a result its file |
| "tabulate a results directory" (`README.md:92`) | a class that is not in `classOrder` has no table (`report.go:55`) | `ReportComplete`: the four classes |
| "returns the ns value at the given percentile" (`hdr/hdr.go:102`) | in float64 the rank of the 99.9th of 1000 samples is 1000 (`hdr/hdr.go:107`) | `PercentileRanked`: the bucket of a sample that is that percentile |
| "can carry on co-located rather than abort the run" (`cpuset/cpuset_linux.go:43`), of a re-exec that fails | a taskset that fails after it was executed ends the process | `SplitSettles`: the process settles or ends |

## What is not modelled

* The libraries behind the embedded adapters: what is modelled is the adapter, over
  a library that keeps the promises the adapter relies on. Get of these adapters
  is one library call and changes nothing. The sizing that Open passes on (caches,
  maps, the key index of kv) is left out; that no workload writes a key outside the
  loaded keyspace, on which the index of kv relies, is `KeysInRange`, the sequential
  fill excepted, whose cursor runs on past it.
* The data operations of the RESP engines: one call of go-redis each, answered
  by a server that is not part of this repository. The argument lists of the
  servers.
* What tells the requests of the Rust helper apart: scan, batch and flush travel
  like the others.
* devnull, which keeps nothing.
* Bytes: keys, values, frames, JSON, tables as text. Where a conversion matters
  (bucket index and value, the rounding of ranks, words of the random source, core
  lists) it is modelled. A file name is what can be read off it, the axes with the
  slashes replaced, not its text.
* Timing. A latency is a number of a set, a deadline is a choice.
* The weak memory of the hardware: the accesses that race in f2 are Go atomics,
  which are sequentially consistent, and a record is written before the atomic
  store that publishes it.
* The crash of a client goroutine inside `Sweep`: it ends the process, and with
  it the sweep.
* locktax, env, scripts: measurements and I/O.

## Plan

Done: the modules above, in this order (f2 first, because it is the one
concurrent data structure without locks), with their runs, and the proofs about
f2, faster and swiss, batches, the driver, the operation streams, the pipes, the
servers, the embedded stores, and the sweep with its report and comparison.

What would come next: a composition of `RunCell` with `RespNet`, where a killed server
that was not reaped stands
against the data directory of the next repetition.
