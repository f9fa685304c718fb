---------------------------- MODULE TrimOverlap ----------------------------
(***************************************************************************)
(* overlap_indices of src/dorado/polish/trim.cpp: the pair of cut indices *)
(* (end in s1, start in s2) for two forward-overlapping or abutted        *)
(* samples, by the exact midpoint split or the heuristic fallback.        *)
(* The result is a record: status "ok" with end1, start2, heuristic, or   *)
(* the runtime_error the function throws.                                 *)
(***************************************************************************)
EXTENDS TrimRelationship, FiniteSets, FiniteSetsExt, SequencesExt

\* constexpr int64_t UNIQ_MAJ
UNIQ_MAJ == 3

\* find_left: scan until the first position above target and step back;
\* when no position is above target the loop ends with idx = size.
find_left(s, target) ==
    LET above == {k \in 0..(NumPositions(s) - 1) : PairLt(target, Position(s, k))}
    IN IF above = {} THEN NumPositions(s) ELSE Min(above) - 1

\* find_right: one past the first position at or above target, else size.
find_right(s, target) ==
    LET atOrAbove == {k \in 0..(NumPositions(s) - 1) : PairLeq(target, Position(s, k))}
    IN IF atOrAbove = {} THEN NumPositions(s) ELSE Min(atOrAbove) + 1

\* Mutant: compare only the common prefix, without the size check.
compare_subvectors_prefix(a, aStart, aEnd, b, bStart, bEnd) ==
    \A t \in 0..(Min({aEnd - aStart, bEnd - bStart}) - 1) : a[aStart + t + 1] = b[bStart + t + 1]

\* compare_subvectors(a, a_start, a_end, b, b_start, b_end)
compare_subvectors(a, aStart, aEnd, b, bStart, bEnd) ==
    /\ aEnd - aStart = bEnd - bStart
    /\ \A t \in 0..(aEnd - aStart - 1) : a[aStart + t + 1] = b[bStart + t + 1]

\* count_unique: number of runs of equal values in a[start, end).
count_unique(a, start, end) ==
    IF Len(a) = 0 \/ end <= start \/ start >= Len(a) \/ end > Len(a) THEN 0
    ELSE 1 + Cardinality({k \in (start + 1)..(end - 1) : a[k + 1] # a[k]})

\* streak_count: length of the run of a[start] that starts at start.
streak_count(a, start) ==
    IF Len(a) = 0 \/ start >= Len(a) THEN 0
    ELSE LET other == {k \in (start + 1)..(Len(a) - 1) : a[k + 1] # a[start + 1]}
         IN IF other = {} THEN Len(a) - start ELSE Min(other) - start

\* std::lower_bound over a sorted vector, as an index.
LowerBound(a, v) ==
    LET atOrAbove == {k \in 0..(Len(a) - 1) : a[k + 1] >= v}
    IN IF atOrAbove = {} THEN Len(a) ELSE Min(atOrAbove)

\* One probe of the inner for-loop at mid + test: the cut pair, when both
\* lower bounds are inside their samples and their streaks are equal.
Probe(s1, s2, at) ==
    LET l == LowerBound(s1.major, at)
        r == LowerBound(s2.major, at)
    IN [found |-> l # NumPositions(s1) /\ r # NumPositions(s2)
                  /\ streak_count(s1.major, l) = streak_count(s2.major, r),
        end1 |-> l, start2 |-> r]

\* The while (end_1_ind == -1) loop: probe mid + offset, then mid - offset,
\* widening offset until both bounds are passed.
RECURSIVE HeuristicSearch(_, _, _, _, _, _, _, _)
HeuristicSearch(s1, s2, start, end, mid, offset, end1, start2) ==
    IF end1 # -1 THEN <<end1, start2>>
    ELSE IF mid + offset > end /\ mid - offset < start THEN <<end1, start2>>
    ELSE LET up   == Probe(s1, s2, mid + offset)
             down == Probe(s1, s2, mid - offset)
         IN IF up.found THEN <<up.end1, up.start2>>
            ELSE IF down.found THEN <<down.end1, down.start2>>
            ELSE HeuristicSearch(s1, s2, start, end, mid, offset + 1, end1, start2)

\* The if (heuristic) block: reset the cut to (size of s1, 0), then search
\* only when both overlaps span more than UNIQ_MAJ major positions.
HeuristicSplit(s1, s2, ovlStart1, ovlEnd2) ==
    LET end1    == NumPositions(s1)
        start2  == 0
        unique1 == count_unique(s1.major, ovlStart1, NumPositions(s1))
        unique2 == count_unique(s2.major, 0, ovlEnd2)
    IN IF unique1 > UNIQ_MAJ /\ unique2 > UNIQ_MAJ
       THEN LET start == s1.major[ovlStart1 + 1]
                end   == Last(s1.major)
                mid   == start + (end - start) \div 2
            IN HeuristicSearch(s1, s2, start, end, mid, 1, end1, start2)
       ELSE <<end1, start2>>

\* The exact path: cut at the midpoint of the overlap, with the self-check
\* that the two pads add up to the overlap length.
MidpointSplit(ovlStart1, ovlEnd2) ==
    LET overlapLen == ovlEnd2
        pad1       == overlapLen \div 2
        pad2       == overlapLen - pad1
        end1       == ovlStart1 + pad1
        start2     == ovlEnd2 - pad2
    IN IF (end1 - ovlStart1) + (ovlEnd2 - start2) # overlapLen
       THEN [ok |-> FALSE, end1 |-> -1, start2 |-> -1]
       ELSE [ok |-> TRUE, end1 |-> end1, start2 |-> start2]

Cut(end1, start2, heuristic) ==
    [status |-> "ok", end1 |-> end1, start2 |-> start2, heuristic |-> heuristic]
Failure(why) == [status |-> why, end1 |-> -1, start2 |-> -1, heuristic |-> FALSE]

overlap_indices(s1, s2) ==
    LET rel == relative_position(s1, s2)
    IN IF rel = "FORWARD_ABUTTED" THEN Cut(NumPositions(s1), 0, FALSE)
       ELSE IF rel # "FORWARD_OVERLAP" THEN Failure("not_forward_overlap")
       ELSE LET ovlStart1 == find_left(s1, Position(s2, 0))
                ovlEnd2   == find_right(s2, LastPosition(s1))
                congruent == compare_subvectors(s1.minor, ovlStart1, NumPositions(s1),
                                                s2.minor, 0, ovlEnd2)
                mid       == MidpointSplit(ovlStart1, ovlEnd2)
                heuristic == ~congruent \/ ~mid.ok
                cut       == HeuristicSplit(s1, s2, ovlStart1, ovlEnd2)
            IN IF ovlStart1 < 0 \/ ovlEnd2 < 0 THEN Failure("no_coordinates")
               ELSE IF heuristic THEN Cut(cut[1], cut[2], TRUE)
               ELSE Cut(mid.end1, mid.start2, FALSE)
=============================================================================
