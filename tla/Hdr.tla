-------------------------------- MODULE Hdr --------------------------------
(***************************************************************************)
(* The latency histogram of hdr/hdr.go, and how runMeasured uses it: every *)
(* client records into a histogram of its own, and the histograms are      *)
(* merged into an empty one when the clients are done.                     *)
(*                                                                         *)
(* counts is the bag of the bucket indices recorded; of a histogram with   *)
(* no sample, min is MaxNs, the largest value. Percentiles are asked for   *)
(* in hundredths of a percent. Their rank is computed in floating point,   *)
(* of FloatBits bits.                                                      *)
(***************************************************************************)
EXTENDS Integers, FiniteSets, FiniteSetsExt, Bags, BagsExt, TLC

CONSTANTS
  Clients,
  SubBits,         \* 7 in New
  FloatBits,       \* the significant bits of a float64, 53
  Samples,         \* the latencies a client may measure
  Bursts,          \* how many equal latencies a client measures in a row
  Intervals,       \* the expected intervals of RecordCorrected
  MaxNs,           \* math.MaxUint64
  MaxRecords       \* bound: bursts and calls of RecordCorrected per client

ASSUME HdrAssumption ==
  /\ SubBits \in Nat \ {0} /\ MaxNs \in Nat /\ MaxRecords \in Nat
  /\ FloatBits \in Nat \ {0} /\ Bursts \subseteq Nat \ {0}
  /\ Samples \subseteq 0..(MaxNs - 1) /\ Intervals \subseteq Nat

VARIABLES
  hists,     \* the histogram of each client
  merged,    \* the histogram of the cell
  calls,     \* bursts and corrected samples of each client so far
  pending,   \* the clients whose histogram is not merged yet
  samples    \* history: the bag of values each client has recorded

vars == <<hists, merged, calls, pending, samples>>

subCount == 2^SubBits

\* floor(log2(v)) of a positive v: 63 - bitsLeadingZeros(v)
Log2(v) == CHOOSE m \in 0..63 : 2^m <= v /\ v < 2^(m + 1)

index(v) ==
  IF v < subCount THEN v
  ELSE LET mag == Log2(v)
           shift == mag - SubBits + 1
       IN  mag * subCount + ((v \div 2^shift) % subCount)

\* Mutant: the sub-bucket is not scaled back.
MutValueAt(i) == IF i < subCount THEN i ELSE subCount + (i % subCount)

valueAt(i) ==
  IF i < subCount THEN i
  ELSE LET mag == i \div subCount
           sub == i % subCount
           shift == mag - SubBits + 1
       IN  (subCount + sub) * 2^shift

New == [counts |-> EmptyBag, total |-> 0, sum |-> 0, min |-> MaxNs, max |-> 0]

\* Mutant: the first sample is only the minimum.
MutRecorded(h, ns, n) ==
  [counts |-> h.counts (+) (index(ns) :> n), total |-> h.total + n, sum |-> h.sum + n * ns,
   min |-> IF ns < h.min THEN ns ELSE h.min,
   max |-> IF ns >= h.min /\ ns > h.max THEN ns ELSE h.max]

\* The histogram after n calls of Record(ns) on h.
Recorded(h, ns, n) ==
  [counts |-> h.counts (+) (index(ns) :> n), total |-> h.total + n, sum |-> h.sum + n * ns,
   min |-> IF ns < h.min THEN ns ELSE h.min, max |-> IF ns > h.max THEN ns ELSE h.max]

\* The loop of RecordCorrected: missing, missing - interval, ... as long as
\* they reach the interval.
Backfilled(h0, ns, interval) ==
  LET F[m \in 0..ns] == IF m >= interval THEN Recorded(F[m - interval], m, 1) ELSE h0
  IN  F[ns - interval]

Corrected(h, ns, interval) ==
  IF interval = 0 \/ ns <= interval
  THEN Recorded(h, ns, 1)
  ELSE Backfilled(Recorded(h, ns, 1), ns, interval)

Merged(h, o) ==
  [counts |-> h.counts (+) o.counts, total |-> h.total + o.total, sum |-> h.sum + o.sum,
   min |-> IF o.total > 0 /\ o.min < h.min THEN o.min ELSE h.min,
   max |-> IF o.total > 0 /\ o.max > h.max THEN o.max ELSE h.max]

\* How many of the elements of a bag are at most x.
CountUpTo(B, x) ==
  MapThenSumSet(LAMBDA y : CopiesIn(y, B), {y \in BagToSet(B) : y <= x})

(***************************************************************************)
(* Floating point: <<m, e>> is the number m * 2^e, m of FloatBits bits.    *)
(***************************************************************************)
\* floor(log2(n / d)) of positive n and d
Magnitude(n, d) ==
  IF n >= d THEN Log2(n \div d) ELSE -(CHOOSE j \in 1..d : n * 2^(j - 1) < d /\ d <= n * 2^j)

\* n / d to the nearest integer, a tie to the even one
Nearest(n, d) ==
  LET q == n \div d
      r == 2 * (n % d)
  IN  IF r > d \/ (r = d /\ q % 2 = 1) THEN q + 1 ELSE q

\* n / d * 2^z, rounded as every operation rounds its result
Float(n, d, z) ==
  LET e == z + Magnitude(n, d) - (FloatBits - 1)
  IN  <<IF z >= e THEN Nearest(n * 2^(z - e), d) ELSE Nearest(n, d * 2^(e - z)), e>>

Ceil(x) == IF x[2] >= 0 THEN x[1] * 2^x[2] ELSE (x[1] + 2^(-x[2]) - 1) \div 2^(-x[2])

\* Mutant: the rank is rounded down.
MutTargetRank(p, total) ==
  LET lit == Float(p, 100, 0)
      q == Float(lit[1], 100, lit[2])
      x == Float(q[1] * total, 1, q[2])
  IN  x[1] \div 2^(-x[2])

\* uint64(math.Ceil(p / 100.0 * float64(total))), and at least one. The literal p is
\* a float too; total is one exactly.
TargetRank(p, total) ==
  LET lit == Float(p, 100, 0)
      q == Float(lit[1], 100, lit[2])
  IN  Max({1, Ceil(Float(q[1] * total, 1, q[2]))})

Percentile(h, p) ==
  LET reached == {i \in BagToSet(h.counts) : CountUpTo(h.counts, i) >= TargetRank(p, h.total)}
  IN  IF h.total = 0 THEN 0 ELSE IF reached = {} THEN h.max ELSE valueAt(Min(reached))

\* The percentiles of Snapshot.
Percentiles == {5000, 9000, 9900, 9990, 9999}

-----------------------------------------------------------------------------
Init ==
  /\ hists = [c \in Clients |-> New]
  /\ merged = New
  /\ calls = [c \in Clients |-> 0]
  /\ pending = Clients
  /\ samples = [c \in Clients |-> EmptyBag]

\* The values that RecordCorrected stands for: ns, and what lies a whole
\* number of intervals below it and is still an interval or more.
Implied(ns, interval) ==
  {ns} \cup {ns - j * interval : j \in {n \in 1..ns : interval > 0 /\ ns >= (n + 1) * interval}}

\* Clients record while none of the histograms is merged: wg.Wait.
Recording(c) == pending = Clients /\ calls[c] < MaxRecords

\* n calls of Record with one latency, which no one sees before the client is done.
Record(c, ns, n) ==
  /\ Recording(c)
  /\ hists' = [hists EXCEPT ![c] = Recorded(@, ns, n)]
  /\ samples' = [samples EXCEPT ![c] = @ (+) (ns :> n)]
  /\ calls' = [calls EXCEPT ![c] = @ + 1]
  /\ UNCHANGED <<merged, pending>>

RecordCorrected(c, ns, interval) ==
  /\ Recording(c)
  /\ hists' = [hists EXCEPT ![c] = Corrected(@, ns, interval)]
  /\ samples' = [samples EXCEPT ![c] = @ (+) SetToBag(Implied(ns, interval))]
  /\ calls' = [calls EXCEPT ![c] = @ + 1]
  /\ UNCHANGED <<merged, pending>>

Merge(c) ==
  /\ c \in pending
  /\ merged' = Merged(merged, hists[c])
  /\ pending' = pending \ {c}
  /\ UNCHANGED <<hists, calls, samples>>

Done == pending = {} /\ UNCHANGED vars

Next ==
  \/ \E c \in Clients, ns \in Samples, n \in Bursts : Record(c, ns, n)
  \/ \E c \in Clients, ns \in Samples, i \in Intervals : RecordCorrected(c, ns, i)
  \/ \E c \in Clients : Merge(c)
  \/ Done

Spec == Init /\ [][Next]_vars

-----------------------------------------------------------------------------
(***************************************************************************)
(* Properties.                                                             *)
(***************************************************************************)
IsHistogram(h) ==
  /\ IsABag(h.counts) /\ BagToSet(h.counts) \subseteq Nat
  /\ h.total = BagCardinality(h.counts)
  /\ h.sum \in Nat /\ h.min \in 0..MaxNs /\ h.max \in 0..MaxNs

\* Every variable has its type.
TypeOK ==
  /\ \A c \in Clients : IsHistogram(hists[c]) /\ IsABag(samples[c])
  /\ IsHistogram(merged)
  /\ calls \in [Clients -> 0..MaxRecords]
  /\ pending \in SUBSET Clients

\* The samples of the clients merged so far, as if one histogram had had them.
MergedSamples ==
  LET F[S \in SUBSET Clients] ==
        IF S = {} THEN EmptyBag
        ELSE LET c == CHOOSE x \in S : TRUE IN samples[c] (+) F[S \ {c}]
  IN  F[Clients \ pending]

\* What a histogram of the samples B has to hold, by definition.
Describes(h, B) ==
  /\ \A i \in BagToSet(h.counts) :
       CopiesIn(i, h.counts) =
         MapThenSumSet(LAMBDA v : CopiesIn(v, B), {v \in BagToSet(B) : index(v) = i})
  /\ h.total = BagCardinality(B)
  /\ h.sum = MapThenSumSet(LAMBDA v : v * CopiesIn(v, B), BagToSet(B))
  /\ h.min = Min(BagToSet(B) \cup {MaxNs})
  /\ h.max = Max(BagToSet(B) \cup {0})

\* No sample is lost or counted twice by Record, RecordCorrected and Merge:
\* the histogram of the cell is the one a single client would have recorded,
\* in whatever order the clients' histograms are merged.
MergeExact ==
  /\ Describes(merged, MergedSamples)
  /\ \A c \in Clients : Describes(hists[c], samples[c])

\* The definition of a percentile: at least that share of the samples is x or less,
\* and at most that share is less than x.
IsPercentile(B, p, x) ==
  LET N == BagCardinality(B)
      upTo == CountUpTo(B, x)
  IN  p * N <= 10000 * upTo /\ 10000 * (upTo - CopiesIn(x, B)) <= p * N

\* A percentile names the bucket of a sample that is that percentile: buckets are in
\* the order of the values, and whatever floating point makes of the rank, it is not
\* one too low, and one too high only where both are that percentile.
PercentileRanked ==
  \A p \in Percentiles :
    merged.total > 0 =>
      \E x \in BagToSet(MergedSamples) :
        IsPercentile(MergedSamples, p, x) /\ Percentile(merged, p) = valueAt(index(x))

\* The percentiles of one Snapshot never decrease, from p50 to p9999.
PercentilesOrdered ==
  \A p, q \in Percentiles : p <= q => Percentile(merged, p) <= Percentile(merged, q)

\* What every Snapshot can count on.
HistInv == TypeOK /\ PercentilesOrdered

\* "precision ~ 1/subBuckets": a percentile is within two sub-buckets of a sample
\* that is that percentile.
PrecisionKept ==
  \A p \in Percentiles :
    merged.total > 0 =>
      LET y == Percentile(merged, p)
      IN  \E x \in BagToSet(MergedSamples) :
            /\ IsPercentile(MergedSamples, p, x)
            /\ subCount * (y - x) <= 2 * x
            /\ subCount * (x - y) <= 2 * x
=============================================================================
