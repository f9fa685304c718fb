--------------------------- MODULE MCTrimSamples ---------------------------
(***************************************************************************)
(* Model values for TrimSamples. The samples are windows of one column    *)
(* list per reference, as a pileup produces them: Columns holds an        *)
(* insertion column (minor 1) and a missing major position, so windows    *)
(* can overlap by one or more columns, abut, or leave a gap.              *)
(***************************************************************************)
EXTENDS TrimSamples

CONSTANTS NullSampleMV, NoRegionMV

PileupColumns == << <<0, 0>>, <<0, 1>>, <<1, 0>>, <<3, 0>>, <<3, 1>>, <<4, 0>> >>

Window(q, a, b) ==
    [seq_id |-> q,
     major  |-> [x \in 1..(b - a + 1) |-> PileupColumns[a + x - 1][1]],
     minor  |-> [x \in 1..(b - a + 1) |-> PileupColumns[a + x - 1][2]]]

RefIds == {0, 1}

\* Every window [a, b] of the column list, on each reference.
MCSampleDomain ==
    UNION {{Window(q, a, b) : b \in a..Len(PileupColumns)} :
           q \in RefIds, a \in 1..Len(PileupColumns)}

\* Two pileups of one reference that disagree on insertion columns, as
\* windows built from different reads do: each window is a slice of one.
PileupA == << <<0, 0>>, <<1, 0>>, <<1, 1>>, <<2, 0>>, <<3, 0>>, <<4, 0>>, <<5, 0>> >>
PileupB == << <<0, 0>>, <<1, 0>>, <<2, 0>>, <<2, 1>>, <<3, 0>>, <<4, 0>>, <<5, 0>> >>

Slice(p, a, b) ==
    [seq_id |-> 0,
     major  |-> [x \in 1..(b - a + 1) |-> p[a + x - 1][1]],
     minor  |-> [x \in 1..(b - a + 1) |-> p[a + x - 1][2]]]

MCTwoPileupDomain ==
    UNION {{Slice(p, a, b) : a \in 1..Len(p), b \in 1..Len(p)} : p \in {PileupA, PileupB}}
        \cap [seq_id : {0}, major : Seq(Nat) \ {<<>>}, minor : Seq(Nat)]

\* Two pileups of one reference that skip different majors, as pileups
\* with no coverage at a position do: majors 1 and 2 are only in D, and
\* major 4 only in C. All their minors are 0.
PileupC == << <<0, 0>>, <<3, 0>>, <<4, 0>>, <<5, 0>> >>
PileupD == << <<1, 0>>, <<2, 0>>, <<3, 0>>, <<5, 0>>, <<6, 0>> >>

MCSparsePileupDomain ==
    UNION {{Slice(p, a, b) : a \in 1..Len(p), b \in 1..Len(p)} : p \in {PileupC, PileupD}}
        \cap [seq_id : {0}, major : Seq(Nat) \ {<<>>}, minor : Seq(Nat)]

MCRegionsNone == {}

\* Regions on either reference: inside, across and beyond the columns'
\* major range 0..4, one starting at 0 (no left clip), one empty
\* (start >= end, which the validation lets through), and one of each
\* kind the validation rejects.
MCRegions ==
    {[seq_id |-> q, start |-> s, end |-> e] : q \in RefIds, s \in {0, 1, 3}, e \in {2, 4, 9}}
    \cup {[seq_id |-> -1, start |-> 0, end |-> 4],
          [seq_id |-> 0, start |-> -1, end |-> 4],
          [seq_id |-> 0, start |-> 1, end |-> 0]}
-----------------------------------------------------------------------------
(* A reference for relative_position on windows of one column list: a    *)
(* window is the index range [Lo, Hi] of PileupColumns it was cut from,  *)
(* and the relationship of two windows follows from their index ranges  *)
(* alone: contained, sharing an index, abutted, or gapped. Spec 4.1 calls *)
(* two windows abutted when the second begins one minor step or one      *)
(* major step after the first ends, so the columns a pair of abutted     *)
(* windows skips can only be insertion columns of the first window's    *)
(* last major, and no reference major may be missing between them.       *)

Lo(w) == CHOOSE x \in 1..Len(PileupColumns) : PileupColumns[x] = Position(w, 0)
Hi(w) == Lo(w) + NumPositions(w) - 1

WindowRelationship(w1, w2) ==
    IF w1.seq_id # w2.seq_id THEN "DIFFERENT_REF_NAME"
    ELSE LET fwd == Lo(w1) < Lo(w2) \/ (Lo(w1) = Lo(w2) /\ Hi(w1) >= Hi(w2))
             a   == IF fwd THEN w1 ELSE w2
             b   == IF fwd THEN w2 ELSE w1
             kind == IF Hi(b) <= Hi(a) THEN "WITHIN"
                     ELSE IF Lo(b) <= Hi(a) THEN "OVERLAP"
                     ELSE IF /\ \A x \in (Hi(a) + 1)..(Lo(b) - 1) :
                                    PileupColumns[x][1] = PileupColumns[Hi(a)][1] /\ PileupColumns[x][2] > 0
                             /\ PileupColumns[Lo(b)][1] <= PileupColumns[Hi(a)][1] + 1
                          THEN "ABUTTED"
                     ELSE "GAPPED"
         IN IF kind = "WITHIN" THEN (IF fwd THEN "S2_WITHIN_S1" ELSE "S1_WITHIN_S2")
            ELSE (IF fwd THEN "FORWARD_" ELSE "REVERSE_") \o kind

(* relative_position (trim.cpp:67-130) classifies every pair of windows  *)
(* of one pileup, in either argument order, as their index ranges say:   *)
(* its lexicographic tests on (major, minor) with the size tie-break     *)
(* agree with containment, intersection and adjacency of the ranges. The *)
(* input never changes, so it is checked once, before the call starts.   *)
ClassifierMatchesWindows ==
    pc = "start" => \A j, k \in Idx :
        samples[j] # NullSample /\ samples[k] # NullSample =>
            relative_position(samples[j], samples[k]) = WindowRelationship(samples[j], samples[k])
=============================================================================
