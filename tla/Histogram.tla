------------------------------ MODULE Histogram ------------------------------
(***************************************************************************)
(* The latency histogram of histogram.hpp: log-linear bucketing by shifts  *)
(* of the value, one histogram per thread, merged for a report.  samples   *)
(* is a history variable: how often each value was recorded.               *)
(***************************************************************************)
EXTENDS Integers, FiniteSetsExt

CONSTANTS HighestTrackable,  \* template argument HighestTrackableNs
          PrecisionBits,     \* template argument
          MaxU64,            \* the largest std::uint64_t
          Hist,              \* the histograms: one per recording thread
          Value,             \* values that are recorded
          Percent,           \* percentiles that are asked for
          MaxSamples         \* bound: samples of one histogram

ASSUME HistogramAssumption ==
  /\ HighestTrackable \in Nat \ {0} /\ PrecisionBits \in Nat \ {0}
  /\ MaxU64 \in Nat /\ MaxU64 > HighestTrackable
  /\ Value \subseteq 0 .. MaxU64 /\ Percent \subseteq 0 .. 100
  /\ MaxSamples \in Nat

VARIABLES counts, total_count, sum_ns, max_, min_, samples

histVars == << counts, total_count, sum_ns, max_, min_, samples >>

\* 1 << n
Pow2(n) == LET pow[k \in 0 .. n] == IF k = 0 THEN 1 ELSE 2 * pow[k - 1]
           IN  pow[n]

kSubBucketCount == Pow2(PrecisionBits + 1)
kSubBucketHalfCount == Pow2(PrecisionBits)

\* The first octave that reaches beyond the value: in buckets_needed() the end
\* of a doubling loop, in bucket_index() the leading bit, by clz(value | mask).
Octave(value) ==
  CHOOSE b \in 0 .. value :
    /\ value < kSubBucketCount * Pow2(b)
    /\ b > 0 => value >= kSubBucketCount * Pow2(b - 1)

kBucketCount == 1 + Octave(HighestTrackable)
kCountsLen == (kBucketCount + 1) * kSubBucketHalfCount
Bucket == 0 .. kCountsLen - 1

counts_index(value) ==
  LET bidx == Octave(value)
      sidx == value \div Pow2(bidx)
  IN  (bidx + 1) * kSubBucketHalfCount + (sidx - kSubBucketHalfCount)

\* Mutant: the bottom of the bucket instead of its top.
highest_equivalent_value_Lowest(index) ==
  LET bidx == (index \div kSubBucketHalfCount) - 1
  IN  IF bidx < 0 THEN index
      ELSE ((index % kSubBucketHalfCount) + kSubBucketHalfCount) * Pow2(bidx)
highest_equivalent_value(index) ==
  LET bidx == (index \div kSubBucketHalfCount) - 1
      sidx == (index % kSubBucketHalfCount) + kSubBucketHalfCount
  IN  IF bidx < 0 THEN index ELSE (sidx + 1) * Pow2(bidx) - 1

\* Mutant: values beyond the range are recorded as they are.
Clamp_None(value) == value
Clamp(value) == IF value > HighestTrackable THEN HighestTrackable ELSE value

\* min(): the field holds a sentinel while nothing is recorded.
min(h) == IF total_count[h] # 0 THEN min_[h] ELSE 0

\* percentile(): the rank, rounded half up, and the bucket that reaches it.
Rank(p, total) ==
  LET target == (2 * p * total + 100) \div 200
  IN  IF target = 0 THEN 1 ELSE target
UpTo(w, n) == LET cumulative[k \in 0 .. n] ==
                    IF k = 0 THEN w[0] ELSE cumulative[k - 1] + w[k]
              IN  cumulative[n]
percentile(h, p) ==
  LET want == Rank(p, total_count[h])
      reached == { i \in Bucket : UpTo(counts[h], i) >= want }
  IN  IF total_count[h] = 0 THEN 0
      ELSE IF reached = {} THEN max_[h]
      ELSE highest_equivalent_value(Min(reached))

Trackable == 0 .. HighestTrackable

HistTypeOK ==
  /\ counts \in [Hist -> [Bucket -> 0 .. MaxSamples]]
  /\ total_count \in [Hist -> 0 .. MaxSamples]
  /\ sum_ns \in [Hist -> 0 .. MaxSamples * HighestTrackable]
  /\ max_ \in [Hist -> 0 .. HighestTrackable]
  /\ min_ \in [Hist -> 0 .. HighestTrackable \cup {MaxU64}]
  /\ samples \in [Hist -> [Trackable -> 0 .. MaxSamples]]

HistInit ==
  /\ counts = [h \in Hist |-> [i \in Bucket |-> 0]]
  /\ total_count = [h \in Hist |-> 0] /\ sum_ns = [h \in Hist |-> 0]
  /\ max_ = [h \in Hist |-> 0] /\ min_ = [h \in Hist |-> MaxU64]
  /\ samples = [h \in Hist |-> [v \in Trackable |-> 0]]
-----------------------------------------------------------------------------
\* record_n(), and record() as its case n = 1.
record_n(h, raw, n) ==
  LET v == Clamp(raw)
  IN  /\ total_count[h] + n <= MaxSamples
      /\ counts' = [counts EXCEPT ![h][counts_index(v)] = @ + n]
      /\ total_count' = [total_count EXCEPT ![h] = @ + n]
      /\ sum_ns' = [sum_ns EXCEPT ![h] = @ + v * n]
      /\ max_' = [max_ EXCEPT ![h] = IF v > @ THEN v ELSE @]
      /\ min_' = [min_ EXCEPT ![h] = IF v < @ THEN v ELSE @]
      /\ samples' = [samples EXCEPT ![h][v] = @ + n]

\* Mutant: an empty histogram's min(), which is 0, is merged too.
MergedMin_EvenEmpty(h, other) == IF min(other) < min_[h] THEN min(other) ELSE min_[h]
MergedMin(h, other) ==
  IF total_count[other] # 0 /\ min(other) < min_[h] THEN min(other) ELSE min_[h]

add(h, other) ==
  /\ total_count[h] + total_count[other] <= MaxSamples
  /\ counts' = [counts EXCEPT ![h] = [i \in Bucket |-> @[i] + counts[other][i]]]
  /\ total_count' = [total_count EXCEPT ![h] = @ + total_count[other]]
  /\ sum_ns' = [sum_ns EXCEPT ![h] = @ + sum_ns[other]]
  /\ max_' = [max_ EXCEPT ![h] = IF max_[other] > @ THEN max_[other] ELSE @]
  /\ min_' = [min_ EXCEPT ![h] = MergedMin(h, other)]
  /\ samples' = [samples EXCEPT ![h] = [v \in Trackable |-> @[v] + samples[other][v]]]

reset(h) ==
  /\ counts' = [counts EXCEPT ![h] = [i \in Bucket |-> 0]]
  /\ total_count' = [total_count EXCEPT ![h] = 0]
  /\ sum_ns' = [sum_ns EXCEPT ![h] = 0]
  /\ max_' = [max_ EXCEPT ![h] = 0]
  /\ min_' = [min_ EXCEPT ![h] = MaxU64]
  /\ samples' = [samples EXCEPT ![h] = [v \in Trackable |-> 0]]

HistNext ==
  \E h \in Hist :
    \/ \E v \in Value, n \in 1 .. 2 : record_n(h, v, n)
    \/ \E other \in Hist \ {h} : add(h, other)
    \/ reset(h)

HistSpec == HistInit /\ [][HistNext]_histVars
-----------------------------------------------------------------------------
(* Properties                                                              *)

\* The value of the given rank in the sorted list of the samples.
ExactAtRank(h, rank) ==
  Min({ v \in Trackable : UpTo(samples[h], v) >= rank })

(***************************************************************************)
(* percentile() is "an upper bound on the true value within the bucket's   *)
(* relative error" (histogram.hpp:87-88), the error of 2^-PrecisionBits    *)
(* the design promises: against the exact nearest-rank sample, after any   *)
(* records, merges and resets.                                             *)
(***************************************************************************)
PercentileWithinError ==
  \A h \in Hist, p \in Percent :
    total_count[h] # 0 =>
      LET exact == ExactAtRank(h, Rank(p, total_count[h]))
          got == percentile(h, p)
      IN  exact <= got /\ (got - exact) * Pow2(PrecisionBits) <= exact

Seen(h) == { v \in Trackable : samples[h][v] # 0 }

(***************************************************************************)
(* The extremes and the sum are exact, also after a merge with an empty    *)
(* histogram: the sentinel of min_ and the zero that min() reports for no  *)
(* samples never leak into a merged report.                                *)
(***************************************************************************)
ExtremesExact ==
  \A h \in Hist :
    LET seen == Seen(h)
    IN  /\ sum_ns[h] = UpTo([v \in Trackable |-> v * samples[h][v]], HighestTrackable)
        /\ seen = {} => min(h) = 0 /\ max_[h] = 0
        /\ seen # {} => min(h) = Min(seen) /\ max_[h] = Max(seen)
-----------------------------------------------------------------------------
(* The inductive strengthening: the buckets are the samples, counted up to *)
(* where each bucket ends.                                                 *)

CountsAreSamples ==
  \A h \in Hist :
    /\ total_count[h] = UpTo(samples[h], HighestTrackable)
    /\ \A i \in Bucket :
         UpTo(counts[h], i) = UpTo(samples[h], Clamp(highest_equivalent_value(i)))

Bounded ==
  \A h \in Hist :
    /\ \A i \in Bucket : counts[h][i] <= total_count[h]
    /\ sum_ns[h] <= total_count[h] * HighestTrackable

\* The fields themselves, which min() does not show while nothing is recorded.
ExtremesSeen ==
  \A h \in Hist :
    /\ Seen(h) = {} => min_[h] = MaxU64 /\ max_[h] = 0
    /\ Seen(h) # {} => min_[h] \in Seen(h) /\ max_[h] \in Seen(h)
    /\ \A v \in Seen(h) : min_[h] <= v /\ v <= max_[h]

HistIInv == HistTypeOK /\ CountsAreSamples /\ Bounded /\ ExtremesSeen /\ ExtremesExact
=============================================================================
