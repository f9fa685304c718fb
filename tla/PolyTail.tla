------------------------------ MODULE PolyTail ------------------------------
(***************************************************************************)
(* PolyTailCalculator::determine_signal_bounds and calculate_num_bases of *)
(* src/dorado/poly_tail/poly_tail_calculator.cpp: find the flat, high     *)
(* stretch of raw signal near the adapter anchor that is the poly-A/T     *)
(* tail, and turn its length into a number of bases.                      *)
(*                                                                         *)
(* Signal values are integers in units of 1/Scale of a signal unit, so    *)
(* the float thresholds kVar and kMeanValueProximity are exact integers,  *)
(* and calc_stats's mean and deviation are compared by cross-multiplying  *)
(* sums instead of dividing. Float rounding inside the sums is not        *)
(* modelled. num_samples_per_base, which estimate_samples_per_base gives  *)
(* each read, is a number of hundredths, spb, chosen with the read, and  *)
(* every std::round of it is done on the exact quotient.                  *)
(*                                                                         *)
(* The virtual functions of the concrete calculators (DNA, RNA, plasmid)  *)
(* are not under src/ and are parameters here: min_avg_val,              *)
(* max_tail_length, buffer_range, signal_length_adjustment and the       *)
(* config's tail_interrupt_length and min_base_count.                     *)
(***************************************************************************)
EXTENDS Integers, Sequences, FiniteSetsExt, SequencesExt

CONSTANTS
    Signals,               \* the raw signals a read may carry
    Anchors,               \* the signal anchors the adapter search may give
    TrailingBases,         \* the values of signal_info.trailing_adapter_bases
    SpbChoices,            \* the values num_samples_per_base may take, in hundredths
    MaxTailLength,         \* max_tail_length()
    MinAvgVal,             \* min_avg_val(), in signal units / Scale
    TailInterruptLength,   \* m_config.tail_interrupt_length
    MinBaseCount,          \* m_config.min_base_count
    buffer_range(_, _),    \* buffer_range(interval, num_samples_per_base)
    signal_length_adjustment(_) \* signal_length_adjustment(read, signal_len)

ASSUME SpbChoices \subseteq Nat \ {0} /\ Anchors \subseteq Nat

VARIABLES
    signal,          \* read.read_common.raw_data
    spb,             \* num_samples_per_base, in hundredths
    anchor,          \* signal_info.signal_anchor
    fwd,             \* signal_info.is_fwd_strand
    trailing,        \* signal_info.trailing_adapter_bases
    left_end,        \* the signal_range bounds
    right_end,
    s,               \* the scan loop's window start
    intervals,       \* std::vector intervals
    last_stats,      \* last_interval_stats, as calc_stats's sums
    k,               \* the clustering loop's index into intervals, 1-based
    clustered,       \* clustered_intervals
    filtered,        \* filtered_intervals
    bounds,          \* the pair determine_signal_bounds returns
    num_bases,       \* calculate_num_bases's result
    pc

vars == <<signal, spb, anchor, fwd, trailing, left_end, right_end, s, intervals,
          last_stats, k, clustered, filtered, bounds, num_bases, pc>>

\* Signal values are in units of 1/Scale.
Scale == 20

\* std::round(a / b) for b > 0: the nearest integer, halves away from zero.
RoundDiv(a, b) == IF a >= 0 THEN (2 * a + b) \div (2 * b) ELSE -((2 * (-a) + b) \div (2 * b))

\* static_cast<int> of the exact quotient a / b for b > 0: toward zero.
TruncDiv(a, b) == IF a >= 0 THEN a \div b ELSE -((-a) \div b)

AbsVal(x) == IF x < 0 THEN -x ELSE x

\* The constants of determine_signal_bounds (kVar and
\* kMeanValueProximity in units of 1/Scale).
kVar == 7
kMeanValueProximity == 5
kMaxSampleGap == RoundDiv(spb * 5, 100)
kMinIntervalSizeForMerge == kMaxSampleGap * 2
kStride == 3
kMaxInterruption == RoundDiv(spb * TailInterruptLength, 100)

\* Mutant: the upper bound not clamped to the signal length.
signal_range_unclamped(a, len, isFwd) ==
    LET spread == RoundDiv(spb * MaxTailLength, 100)
        lo     == IF isFwd THEN a - spread ELSE TruncDiv(10 * a - spread, 10)
        hi     == IF isFwd THEN TruncDiv(10 * a + spread, 10) ELSE a + spread
    IN <<Max({0, lo}), hi>>

\* signal_range(anchor, signal_len, num_samples_per_base, fwd): the
\* spread is scaled by 1 on the side away from the tail and by 0.1 on the
\* other, and each bound is truncated to int before it is clamped.
signal_range(a, len, isFwd) ==
    LET spread == RoundDiv(spb * MaxTailLength, 100)
        lo     == IF isFwd THEN a - spread ELSE TruncDiv(10 * a - spread, 10)
        hi     == IF isFwd THEN TruncDiv(10 * a + spread, 10) ELSE a + spread
    IN <<Max({0, lo}), Min({len, hi})>>

\* calc_stats(s, e) as the sums it divides: n values, their sum and the
\* sum of their squares over signal[s, e).
calc_stats(sig, a, e) ==
    [n   |-> e - a,
     sum |-> MapThenSumSet(LAMBDA x : sig[x], (a + 1)..e),
     sq  |-> MapThenSumSet(LAMBDA x : sig[x] * sig[x], (a + 1)..e)]

\* avg > kMinAvgVal && stdev < kVar. An empty window divides 0 by 0 and
\* both comparisons with NaN are false.
Flat(st) ==
    /\ st.n > 0
    /\ st.sum > MinAvgVal * st.n
    /\ st.n * st.sq - st.sum * st.sum < kVar * kVar * st.n * st.n

\* std::abs(avg_a - avg_b) < kMeanValueProximity.
Close(a, b) ==
    /\ a.n > 0 /\ b.n > 0
    /\ AbsVal(a.sum * b.n - b.sum * a.n) < kMeanValueProximity * a.n * b.n

Stats(iv) == calc_stats(signal, iv[1], iv[2])

\* The default-constructed std::pair<float, float>: mean 0.
NoStats == [n |-> 1, sum |-> 0, sq |-> 0]

Init ==
    /\ signal \in Signals
    /\ spb \in SpbChoices
    /\ anchor \in Anchors
    /\ fwd \in BOOLEAN
    /\ trailing \in TrailingBases
    /\ left_end = 0 /\ right_end = 0 /\ s = 0
    /\ intervals = <<>> /\ last_stats = NoStats
    /\ k = 1 /\ clustered = <<>> /\ filtered = <<>>
    /\ bounds = <<0, 0>> /\ num_bases = 0
    /\ pc = "start"

(* calculate_num_bases calls determine_signal_bounds, which computes the *)
(* signal range and enters the scan loop.                                 *)
Begin ==
    /\ pc = "start"
    /\ LET r == signal_range(anchor, Len(signal), fwd)
       IN /\ left_end' = r[1] /\ right_end' = r[2] /\ s' = r[1]
    /\ pc' = "scan"
    /\ UNCHANGED <<signal, spb, anchor, fwd, trailing, intervals, last_stats, k,
                   clustered, filtered, bounds, num_bases>>

\* Mutant: the loop bound without the window length.
ScanContinuesToEnd == s < right_end

\* The condition of the scan loop, for (s = left_end; s < (right_end - kMaxSampleGap); ...).
ScanContinues == s < right_end - kMaxSampleGap

Window == calc_stats(signal, s, s + kMaxSampleGap)

ScanStep == pc = "scan" /\ ScanContinues

(* A window that is low or noisy is passed over. *)
ScanSkip ==
    /\ ScanStep
    /\ ~Flat(Window)
    /\ s' = s + kStride
    /\ UNCHANGED <<signal, spb, anchor, fwd, trailing, left_end, right_end, intervals,
                   last_stats, k, clustered, filtered, bounds, num_bases, pc>>

\* The extension test: the last interval reaches s and its stats are close.
Extends == intervals # <<>> /\ Last(intervals)[2] >= s /\ Close(Window, last_stats)

(* A flat window opens a new interval: the first one, or one that does   *)
(* not overlap the last interval or differs from it in mean.              *)
ScanOpen ==
    /\ ScanStep
    /\ Flat(Window)
    /\ ~Extends
    /\ intervals' = Append(intervals, <<s, s + kMaxSampleGap>>)
    /\ last_stats' = Window
    /\ s' = s + kStride
    /\ UNCHANGED <<signal, spb, anchor, fwd, trailing, left_end, right_end, k,
                   clustered, filtered, bounds, num_bases, pc>>

(* A flat window extends the last interval to its end; the stats of the  *)
(* whole extended interval become last_interval_stats.                    *)
ScanExtend ==
    /\ ScanStep
    /\ Flat(Window)
    /\ Extends
    /\ LET iv == <<Last(intervals)[1], s + kMaxSampleGap>>
       IN /\ intervals' = [intervals EXCEPT ![Len(intervals)] = iv]
          /\ last_stats' = Stats(iv)
    /\ s' = s + kStride
    /\ UNCHANGED <<signal, spb, anchor, fwd, trailing, left_end, right_end, k,
                   clustered, filtered, bounds, num_bases, pc>>

ScanDone ==
    /\ pc = "scan"
    /\ ~ScanContinues
    /\ k' = 1
    /\ pc' = "cluster"
    /\ UNCHANGED <<signal, spb, anchor, fwd, trailing, left_end, right_end, s, intervals,
                   last_stats, clustered, filtered, bounds, num_bases>>

\* The merge test of the clustering loop for the last clustered interval
\* and the next interval: close means, and either a glitch between two
\* long intervals (or a last one at the range's end) or a short linker.
Mergeable(last, iv) ==
    LET sep          == iv[1] - last[2]
        skip_glitch  == /\ AbsVal(sep) < kMaxSampleGap
                        /\ last[2] - last[1] > kMinIntervalSizeForMerge
                        /\ \/ iv[2] - iv[1] > kMinIntervalSizeForMerge
                           \/ iv[2] >= right_end - kStride
        allow_linker == sep >= 0 /\ sep < kMaxInterruption
    IN Close(Stats(iv), Stats(last)) /\ (skip_glitch \/ allow_linker)

ClusterStep == pc = "cluster" /\ k <= Len(intervals)

(* The next interval starts a new cluster: the first one, or one that    *)
(* cannot be merged into the last cluster.                                *)
ClusterPush ==
    /\ ClusterStep
    /\ IF clustered = <<>> THEN TRUE ELSE ~Mergeable(Last(clustered), intervals[k])
    /\ clustered' = Append(clustered, intervals[k])
    /\ k' = k + 1
    /\ UNCHANGED <<signal, spb, anchor, fwd, trailing, left_end, right_end, s, intervals,
                   last_stats, filtered, bounds, num_bases, pc>>

\* Mutant: the merged cluster replaced by the interval, not extended to it.
ClusterMergeReplace ==
    /\ ClusterStep
    /\ clustered # <<>> /\ Mergeable(Last(clustered), intervals[k])
    /\ clustered' = [clustered EXCEPT ![Len(clustered)] = intervals[k]]
    /\ k' = k + 1
    /\ UNCHANGED <<signal, spb, anchor, fwd, trailing, left_end, right_end, s, intervals,
                   last_stats, filtered, bounds, num_bases, pc>>

(* The next interval is merged: the last cluster now ends where it ends. *)
ClusterMerge ==
    /\ ClusterStep
    /\ clustered # <<>> /\ Mergeable(Last(clustered), intervals[k])
    /\ clustered' = [clustered EXCEPT ![Len(clustered)][2] = intervals[k][2]]
    /\ k' = k + 1
    /\ UNCHANGED <<signal, spb, anchor, fwd, trailing, left_end, right_end, s, intervals,
                   last_stats, filtered, bounds, num_bases, pc>>

ClusterDone ==
    /\ pc = "cluster"
    /\ k > Len(intervals)
    /\ pc' = "filter"
    /\ UNCHANGED <<signal, spb, anchor, fwd, trailing, left_end, right_end, s, intervals,
                   last_stats, k, clustered, filtered, bounds, num_bases>>

\* The copy_if predicate: the anchor lies within the interval widened by
\* buffer_range, and the interval is at least min_base_count bases long.
Keep(iv) ==
    LET buffer == buffer_range(iv, spb)
    IN /\ anchor >= Max({0, iv[1] - buffer[1]})
       /\ anchor <= iv[2] + buffer[2]
       /\ iv[2] - iv[1] >= RoundDiv(spb * MinBaseCount, 100)

(* The clustered intervals are filtered by their distance to the anchor. *)
Filter ==
    /\ pc = "filter"
    /\ filtered' = SelectSeq(clustered, Keep)
    /\ pc' = "choose"
    /\ UNCHANGED <<signal, spb, anchor, fwd, trailing, left_end, right_end, s, intervals,
                   last_stats, k, clustered, bounds, num_bases>>

\* Mutant: the sizes compared the wrong way round.
LessSmaller(l, r) ==
    IF l[2] - l[1] # r[2] - r[1] THEN l[2] - l[1] > r[2] - r[1]
    ELSE IF fwd THEN AbsVal(l[2] - anchor) < AbsVal(r[2] - anchor)
    ELSE AbsVal(l[1] - anchor) < AbsVal(r[1] - anchor)

\* The comparator given to std::max_element: by size, and on equal sizes
\* by the distance of the tail-side end to the anchor.
Less(l, r) ==
    IF l[2] - l[1] # r[2] - r[1] THEN l[2] - l[1] < r[2] - r[1]
    ELSE IF fwd THEN AbsVal(l[2] - anchor) < AbsVal(r[2] - anchor)
    ELSE AbsVal(l[1] - anchor) < AbsVal(r[1] - anchor)

\* std::max_element: the running maximum is replaced by an element it
\* compares less than; the first of several maxima is kept.
MaxElement(f) == FoldLeft(LAMBDA best, x : IF Less(best, x) THEN x ELSE best, Head(f), Tail(f))

\* Mutant: the whole signal range returned when no interval is kept.
ReturnNoRangeWholeRange ==
    /\ pc = "choose"
    /\ filtered = <<>>
    /\ bounds' = <<left_end, right_end>>
    /\ pc' = "count"
    /\ UNCHANGED <<signal, spb, anchor, fwd, trailing, left_end, right_end, s, intervals,
                   last_stats, k, clustered, filtered, num_bases>>

(* No interval is near the anchor: determine_signal_bounds returns {0, 0}. *)
ReturnNoRange ==
    /\ pc = "choose"
    /\ filtered = <<>>
    /\ bounds' = <<0, 0>>
    /\ pc' = "count"
    /\ UNCHANGED <<signal, spb, anchor, fwd, trailing, left_end, right_end, s, intervals,
                   last_stats, k, clustered, filtered, num_bases>>

(* Otherwise it returns the interval max_element picks. *)
ChooseBest ==
    /\ pc = "choose"
    /\ filtered # <<>>
    /\ bounds' = MaxElement(filtered)
    /\ pc' = "count"
    /\ UNCHANGED <<signal, spb, anchor, fwd, trailing, left_end, right_end, s, intervals,
                   last_stats, k, clustered, filtered, num_bases>>

(* calculate_num_bases: the adjusted signal length over samples per base, *)
(* rounded, less the trailing adapter bases.                              *)
CountBases ==
    /\ pc = "count"
    /\ LET len == bounds[2] - bounds[1]
           adj == len - signal_length_adjustment(len)
       IN num_bases' = RoundDiv(adj * 100, spb) - trailing
    /\ pc' = "done"
    /\ UNCHANGED <<signal, spb, anchor, fwd, trailing, left_end, right_end, s, intervals,
                   last_stats, k, clustered, filtered, bounds>>

\* The call has returned; nothing changes any more.
Terminated ==
    /\ pc = "done"
    /\ UNCHANGED vars

Next ==
    \/ Begin
    \/ ScanSkip \/ ScanOpen \/ ScanExtend \/ ScanDone
    \/ ClusterPush \/ ClusterMerge \/ ClusterDone
    \/ Filter \/ ReturnNoRange \/ ChooseBest \/ CountBases
    \/ Terminated

Spec == Init /\ [][Next]_vars

-----------------------------------------------------------------------------
(* Properties.                                                             *)

Intervals == [1..2 -> Int]

TypeOK ==
    /\ signal \in Seq(Nat)
    /\ spb \in SpbChoices
    /\ anchor \in Anchors
    /\ fwd \in BOOLEAN
    /\ trailing \in TrailingBases
    /\ left_end \in Nat /\ right_end \in 0..Len(signal)
    /\ {s, k, num_bases} \subseteq Int
    /\ intervals \in Seq(Intervals)
    /\ last_stats \in [n : Int, sum : Int, sq : Int]
    /\ clustered \in Seq(Intervals)
    /\ filtered \in Seq(Intervals)
    /\ bounds \in Intervals
    /\ pc \in {"start", "scan", "cluster", "filter", "choose", "count", "done"}

\* [a, b) lies inside [lo, hi] and is not empty.
Inside(iv, lo, hi) == lo <= iv[1] /\ iv[1] < iv[2] /\ iv[2] <= hi

(* calc_stats reads signal[s, e) without a bounds check. Every window the *)
(* scan loop is about to read, and every interval it or the clustering   *)
(* loop passes to calc_stats, lies inside the signal range, which lies    *)
(* inside the signal; the interval returned is {0, 0} or inside it too.   *)
ReadsInsideSignal ==
    /\ pc # "start" => 0 <= left_end /\ right_end <= Len(signal)
    /\ pc = "scan" /\ ScanContinues => left_end <= s /\ s + kMaxSampleGap <= right_end
    /\ \A iv \in ToSet(intervals) \cup ToSet(clustered) : Inside(iv, left_end, right_end)
    /\ bounds # <<0, 0>> => Inside(bounds, left_end, right_end)

(* Clustering loses no interval the scan found and keeps their order:    *)
(* once the clustering loop is done, each interval lies inside one        *)
(* cluster, and the clusters' starts and ends both strictly increase.     *)
ClusteringCoversIntervals ==
    pc \in {"filter", "choose", "count", "done"} =>
        /\ \A iv \in ToSet(intervals) : \E c \in ToSet(clustered) : c[1] <= iv[1] /\ iv[2] <= c[2]
        /\ \A x \in 1..(Len(clustered) - 1) : /\ clustered[x][1] < clustered[x + 1][1]
                                             /\ clustered[x][2] < clustered[x + 1][2]

(* determine_signal_bounds returns {0, 0} exactly when no clustered      *)
(* interval is near the anchor and long enough; otherwise it returns one  *)
(* of those intervals, and none of them is longer.                        *)
ResultIsLongestKept ==
    pc \in {"count", "done"} =>
        LET kept == {iv \in ToSet(clustered) : Keep(iv)}
        IN IF kept = {} THEN bounds = <<0, 0>>
           ELSE /\ bounds \in kept
                /\ \A iv \in kept : iv[2] - iv[1] <= bounds[2] - bounds[1]

(* The sign of calculate_num_bases's result tells whether a tail was    *)
(* found: when no interval is near the anchor, determine_signal_bounds    *)
(* returns {0, 0} and the count is minus the trailing adapter bases, at   *)
(* most 0; a tail that passed the min_base_count filter counts more bases *)
(* than the trailing adapter, after both roundings by samples per base,   *)
(* whenever min_base_count exceeds trailing_adapter_bases.                *)
(* With fewer than 0.1 samples per base kMaxSampleGap is 0, every window  *)
(* is empty, and the read must end with no tail and a count of at most 0. *)
TailCountSign ==
    pc = "done" => (num_bases > 0 <=> filtered # <<>>)

-----------------------------------------------------------------------------
(* What a comment of the code says and the code does not do; each is     *)
(* checked by a run that expects TLC to find it violated.                 *)

\* The distance std::max_element's tie-break compares.
TailDistance(iv) == IF fwd THEN AbsVal(iv[2] - anchor) ELSE AbsVal(iv[1] - anchor)

(* poly_tail_calculator.cpp:190-191: "If there is a tie for the longest  *)
(* interval, choose the one that is closest to the anchor."               *)
TieGoesToClosest ==
    pc \in {"count", "done"} /\ filtered # <<>> =>
        \A iv \in ToSet(filtered) :
            iv[2] - iv[1] = bounds[2] - bounds[1] => TailDistance(bounds) <= TailDistance(iv)
=============================================================================
