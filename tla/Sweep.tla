-------------------------------- MODULE Sweep --------------------------------
(***************************************************************************)
(* kvbench run: the sweep over the cells (cmdRun of cmd/kvbench/main.go),  *)
(* the repetitions of a cell and their aggregation (runReps, hdr.MedianOf) *)
(* and the result files (writeResult).                                     *)
(*                                                                         *)
(* RunCell is what module RunCell finds it to be: a cell answers with a    *)
(* throughput or with an error, and a cell whose engine panicked answers   *)
(* with the zero Result, which has neither a name nor an error. A          *)
(* throughput is an even number, so that a median of two is an integer.    *)
(* Writing a result may fail, which is printed and otherwise forgotten.    *)
(***************************************************************************)
EXTENDS Integers, Sequences, FiniteSets, FiniteSetsExt, Functions

CONSTANTS
  Meta,       \* Meta[e]: mode, class ("" if it names none), reference
  Commands,   \* command lines: the cells in order, --engines or {}, --reps
  Tputs,      \* throughputs
  MaxFaults,  \* bound: writes that fail and files that are not read
  Slashless(_)  \* a regime with its slashes replaced by underscores

CellSet ==
  [engine : STRING, workload : STRING, regime : STRING, value : Nat, conc : Nat,
   dur : {"DEFAULT", "FULL"}]

NetworkClasses == {"redis-memory", "redis-persistent", "distributed"}
Classes == {"embedded"} \cup NetworkClasses

\* A command line may name a cell twice. An engine may name any class. Of those that
\* name one of Classes, "embedded" is for the engines that run in or under the
\* process and the others are for servers.
ASSUME SweepAssumption ==
  /\ \A c \in Commands : c.reps \in Nat /\ c.cells \in Seq(CellSet)
  /\ "" \notin DOMAIN Meta
  /\ \A e \in DOMAIN Meta :
       Meta[e].class \in Classes => (Meta[e].class = "embedded" <=> Meta[e].mode # "network")
  /\ \A t \in Tputs : t \in Nat /\ t % 2 = 0
  /\ MaxFaults \in Nat

Registry == DOMAIN Meta

DefaultNames == {e \in Registry : ~Meta[e].reference}

ClassOf(e) ==
  IF Meta[e].class # "" THEN Meta[e].class
  ELSE IF Meta[e].mode = "network" THEN "redis-memory" ELSE "embedded"

NoCell == [engine |-> "", workload |-> "", regime |-> "", value |-> 0, conc |-> 0, dur |-> ""]

VARIABLES
  cmd,        \* the command line
  at,         \* the cell that is being run, by number
  reps,       \* its repetitions so far
  log,        \* log[i]: the repetitions of a finished cell, none if it was skipped
  files,      \* the results directory, the files that hold a Result: name -> Result
  lost        \* history: the cells, by number, whose result was not written

sweepVars == <<cmd, at, reps, log, files, lost>>

\* The engines that are run: the named or the default ones that are built in.
Chosen == (IF cmd.named = {} THEN DefaultNames ELSE cmd.named) \cap Registry

-----------------------------------------------------------------------------
\* What RunCell may answer for a cell.
Answer(c, err, ops) == [cell |-> c, err |-> err, ops |-> ops]

Answers(c) ==
  IF c.dur = "FULL" /\ ClassOf(c.engine) \in NetworkClasses
  THEN {Answer(c, TRUE, 0)}
  ELSE {Answer(c, FALSE, t) : t \in Tputs}
         \cup {Answer(c, TRUE, 0), Answer(NoCell, FALSE, 0)}

\* Mutant: the copy is not sorted.
MutSorted(xs, k) ==
  xs[CHOOSE i \in DOMAIN xs : Cardinality({j \in DOMAIN xs : j <= i}) = k]

\* The k-th of the sorted copy of xs, from 1.
Sorted(xs, k) ==
  CHOOSE x \in Range(xs) : /\ Cardinality({i \in DOMAIN xs : xs[i] < x}) < k
                           /\ Cardinality({i \in DOMAIN xs : xs[i] <= x}) >= k

\* hdr.MedianOf, of at least one number.
MedianOf(xs) ==
  LET n == Cardinality(DOMAIN xs)
  IN  IF n % 2 = 1 THEN Sorted(xs, (n \div 2) + 1)
      ELSE (Sorted(xs, n \div 2) + Sorted(xs, (n \div 2) + 1)) \div 2

Distance(x, y) == IF x < y THEN y - x ELSE x - y

Good(rs) == {i \in DOMAIN rs : ~rs[i].err}
OpsOf(rs) == [i \in Good(rs) |-> rs[i].ops]

\* Mutant: the search for the nearest repetition looks at the failed ones too.
MutBest(rs, med) ==
  CHOOSE i \in DOMAIN rs : \A j \in DOMAIN rs :
    LET di == Distance(rs[i].ops, med)
        dj == Distance(rs[j].ops, med)
    IN  di < dj \/ (di = dj /\ i <= j)

\* The first of the repetitions nearest to the median.
Best(rs, med) ==
  CHOOSE i \in Good(rs) : \A j \in Good(rs) :
    LET di == Distance(rs[i].ops, med)
        dj == Distance(rs[j].ops, med)
    IN  di < dj \/ (di = dj /\ i <= j)

\* runReps, when the repetitions are in. "latency" is the one whose latencies
\* and names the result carries.
Aggregate(rs) ==
  LET tputs == OpsOf(rs)
      med == MedianOf(tputs)
      best == Best(rs, med)
  IN  IF Good(rs) = {}
      THEN [cell |-> rs[1].cell, err |-> TRUE, ops |-> 0, min |-> 0, max |-> 0, latency |-> 1]
      ELSE [cell |-> rs[best].cell, err |-> rs[best].err, ops |-> med,
            min |-> Min(Range(tputs)), max |-> Max(Range(tputs)), latency |-> best]

\* Mutant: the concurrency is no part of the name.
MutNameOf(c) == [c EXCEPT !.regime = Slashless(@), !.conc = 0]

\* The six axes, joined by separators, with every slash replaced. The names of engines
\* and workloads have neither a slash nor a separator in them and the last three axes
\* are of fixed form, so the axes can be read off a name but for the regime's slashes.
NameOf(c) == [c EXCEPT !.regime = Slashless(@)]

FileName(r) == NameOf(r.cell)

-----------------------------------------------------------------------------
SweepInit ==
  cmd \in Commands /\ at = 1 /\ reps = <<>> /\ log = <<>> /\ files = <<>> /\ lost = {}

\* --reps below one is one.
Repetitions == IF cmd.reps < 1 THEN 1 ELSE cmd.reps

\* The cell of an engine that was not asked for or is not built in is passed over.
Skip ==
  /\ at <= Len(cmd.cells) /\ cmd.cells[at].engine \notin Chosen
  /\ at' = at + 1 /\ log' = Append(log, <<>>)
  /\ UNCHANGED <<cmd, reps, files, lost>>

\* One repetition of the cell.
RunRep ==
  /\ at <= Len(cmd.cells) /\ cmd.cells[at].engine \in Chosen /\ Len(reps) < Repetitions
  /\ \E a \in Answers(cmd.cells[at]) : reps' = Append(reps, a)
  /\ UNCHANGED <<cmd, at, log, files, lost>>

\* os.WriteFile: the file holds r, or the write fails, before it has touched the file
\* or after it has truncated it.
WriteFile(n, r) ==
  \/ /\ files' = [m \in DOMAIN files \cup {n} |-> IF m = n THEN r ELSE files[m]]
     /\ lost' = lost
  \/ /\ Cardinality(lost) < MaxFaults /\ lost' = lost \cup {at}
     /\ \/ files' = files
        \/ files' = [m \in DOMAIN files \ {n} |-> files[m]]

\* The cell is aggregated and written, and the sweep goes on.
WriteResult ==
  /\ at <= Len(cmd.cells) /\ Len(reps) = Repetitions
  /\ WriteFile(FileName(Aggregate(reps)), Aggregate(reps))
  /\ log' = Append(log, reps)
  /\ at' = at + 1 /\ reps' = <<>>
  /\ UNCHANGED cmd

SweepNext == Skip \/ RunRep \/ WriteResult

SweepDone == at > Len(cmd.cells)

-----------------------------------------------------------------------------
(***************************************************************************)
(* Properties.                                                             *)
(***************************************************************************)
Panicked(rs) == \E j \in DOMAIN rs : rs[j].cell = NoCell
Clean(rs) == rs # <<>> /\ ~Panicked(rs)

\* The repetitions that ran to their end, whatever runReps takes them for.
Measured(rs) == {j \in DOMAIN rs : ~rs[j].err /\ rs[j].cell # NoCell}

\* Types; the results directory holds at most one file for each finished cell.
SweepTypeOK ==
  /\ cmd \in Commands /\ at \in 1..(Len(cmd.cells) + 1) /\ Len(log) = at - 1 /\ Len(reps) <= Repetitions
  /\ lost \subseteq DOMAIN log /\ Cardinality(DOMAIN files) <= Len(log)
  /\ \A n \in DOMAIN files : files[n].ops \in Nat /\ files[n].latency \in 1..Repetitions

\* The result f is a median of the repetitions M of rs, and its range is theirs; a
\* panicked one may have made the number and the minimum too small.
HonestOf(rs, M, f) ==
  /\ 2 * Cardinality({j \in M : rs[j].ops >= f.ops}) >= Cardinality(M)
  /\ \E j \in M : f.max = rs[j].ops
  /\ \A j \in M : f.min <= rs[j].ops /\ rs[j].ops <= f.max
  /\ ~Panicked(rs) =>
       /\ 2 * Cardinality({j \in M : rs[j].ops <= f.ops}) >= Cardinality(M)
       /\ \E j \in M : f.min = rs[j].ops

\* "aggregates: throughput median/min/max": at least half of the repetitions that
\* were measured are as fast as the number published, and the fastest of them is its
\* maximum. If none panicked, at least half are no faster and the slowest is its
\* minimum. A panic, which counts as a repetition of no throughput, can make the
\* number too small but not too large.
MedianHonest ==
  \A i \in DOMAIN log :
    Measured(log[i]) # {} => HonestOf(log[i], Measured(log[i]), Aggregate(log[i]))

\* "latency from the median-throughput rep": the latencies of a result that has a name
\* are of a repetition that was measured, and none of those is nearer to the median;
\* it is the median itself if none panicked and their number is odd. A result has no
\* name only if a repetition panicked.
LatencyFromMedianRep ==
  \A i \in DOMAIN log :
    LET f == Aggregate(log[i])
        M == Measured(log[i])
        ops(j) == log[i][j].ops
    IN  M # {} =>
          /\ f.cell = NoCell => Panicked(log[i])
          /\ f.cell # NoCell =>
               /\ f.latency \in M /\ ~f.err
               /\ \A j \in M : Distance(ops(j), f.ops) >= Distance(ops(f.latency), f.ops)
          /\ ~Panicked(log[i]) /\ Cardinality(M) % 2 = 1 => ops(f.latency) = f.ops

\* Cells that differ in the slashes of their regimes at most.
AlikeButSlashes(c, d) ==
  Slashless(c.regime) = Slashless(d.regime) /\ d = [c EXCEPT !.regime = d.regime]

\* Cell k was run, and its result has a name.
Named(k) == log[k] # <<>> /\ Aggregate(log[k]).cell = cmd.cells[k]

\* The result of a cell that was run without a panic and written is on file, or what is
\* there is of a later run of that cell or of one that is alike but for slashes, and
\* there is nothing only if such a write failed: no other cell costs it its file,
\* however many come after it.
ResultsKept ==
  \A i \in DOMAIN log : Clean(log[i]) /\ i \notin lost =>
    \E k \in i..Len(log) :
      LET n == NameOf(cmd.cells[k])
      IN  /\ Named(k) /\ AlikeButSlashes(cmd.cells[i], cmd.cells[k])
          /\ IF n \in DOMAIN files THEN files[n] = Aggregate(log[k]) ELSE k \in lost

\* At most n repetitions of a cell, and none if its engine is not one of es.
RepsOf(c, n, es, rs) ==
  /\ rs \in Seq(Answers(c)) /\ Len(rs) <= n
  /\ rs # <<>> => c.engine \in es

IsSeqOf(n, s) == s = [i \in 1..n |-> s[i]]

\* What the sweep has at any time: repetitions of the cells it chose, as many as
\* were asked for, and files that are each the aggregate of a cell that was run,
\* under that cell's name.
SweepInv ==
  /\ cmd \in Commands /\ at \in 1..(Len(cmd.cells) + 1)
  /\ IsSeqOf(at - 1, log)
  /\ \A i \in DOMAIN log : RepsOf(cmd.cells[i], Repetitions, Chosen, log[i])
  /\ IF SweepDone THEN reps = <<>> ELSE RepsOf(cmd.cells[at], Repetitions, Chosen, reps)
  /\ lost \subseteq DOMAIN log
  /\ IsFiniteSet(DOMAIN files) /\ Cardinality(DOMAIN files) <= Len(log)
  /\ \A n \in DOMAIN files : \E i \in DOMAIN log \ lost :
       log[i] # <<>> /\ files[n] = Aggregate(log[i]) /\ n = FileName(files[n])
  /\ ResultsKept
=============================================================================
