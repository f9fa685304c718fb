--------------------------- MODULE StitchContract ---------------------------
(***************************************************************************)
(* What trim_samples promises its caller, as one atomic call: it returns  *)
(* one TrimInfo per sample or throws, and what it returns or throws is    *)
(* constrained only by the input. The TrimInfos of the non-redundant      *)
(* samples of a reference, read in order, give exactly that reference's   *)
(* columns inside the region, each once and in order, whenever no cut was *)
(* approximate (approx counts the heuristic cuts the call logs). The      *)
(* stepwise model TrimSamples implements this specification.              *)
(***************************************************************************)
EXTENDS TrimRelationship, FiniteSets, SequencesExt

CONSTANTS SampleDomain, MaxSamples, NullSample, Regions, NoRegion

VARIABLES
    samples,   \* the input list
    region,    \* the optional region
    out,       \* the returned TrimInfos, <<>> until the call returns
    status,    \* "running", "returned" or the error thrown
    approx     \* the number of heuristic cuts the call made

cvars == <<samples, region, out, status, approx>>

TrimInfos == [start : Int, end : Int, heuristic : BOOLEAN]

Idx == DOMAIN samples

SameRef(j, k) == samples[j].seq_id = samples[k].seq_id

\* Every reference's samples are consecutive in the input list.
GroupedByRef == \A j, k, l \in Idx : j < k /\ k < l /\ SameRef(j, l) => SameRef(j, k)

\* On each reference, by first position and, for equal first positions,
\* larger sample first.
ForwardPair(j, k) ==
    LET fj == <<samples[j].major[1], samples[j].minor[1]>>
        fk == <<samples[k].major[1], samples[k].minor[1]>>
    IN \/ fj[1] < fk[1]
       \/ fj[1] = fk[1] /\ fj[2] < fk[2]
       \/ fj = fk /\ Len(samples[j].major) >= Len(samples[k].major)

ForwardSorted == \A j, k \in Idx : j < k /\ SameRef(j, k) => ForwardPair(j, k)

\* Sample k is covered by an earlier sample of its reference.
Redundant(k) ==
    \E j \in 1..(k - 1) :
        /\ SameRef(j, k)
        /\ PairLeq(Position(samples[j], 0), Position(samples[k], 0))
        /\ PairLeq(LastPosition(samples[k]), LastPosition(samples[j]))

\* The column indices a TrimInfo selects; a negative bound excludes.
Selected(t) == IF t.start < 0 \/ t.end < 0 THEN {} ELSE t.start..(t.end - 1)

\* The columns sample k contributes under the TrimInfos o, in order.
Emitted(o, k) == [x \in 1..Cardinality(Selected(o[k])) |-> Position(samples[k], o[k].start + x - 1)]

\* The consensus of reference q a downstream stitcher builds from the
\* non-redundant samples.
Stitched(o, q) ==
    LET ks == SelectSeq([k \in Idx |-> k], LAMBDA k : samples[k].seq_id = q /\ ~Redundant(k))
    IN FlattenSeq([x \in DOMAIN ks |-> Emitted(o, ks[x])])

Columns(q) == UNION {{Position(samples[k], c) : c \in 0..(NumPositions(samples[k]) - 1)} :
                     k \in {k \in Idx : samples[k].seq_id = q}}

Refs == {samples[k].seq_id : k \in Idx}

StrictlyIncreasing(s) == \A x \in 1..(Len(s) - 1) : PairLt(s[x], s[x + 1])

\* A column <<major, minor>> of reference q that the region keeps.
InRegion(q, c) ==
    region = NoRegion \/ (q = region.seq_id /\ region.start <= c[1] /\ c[1] < region.end)

HasNull == \E k \in Idx : samples[k] = NullSample

RegionValid == region = NoRegion \/ (region.seq_id >= 0 /\ region.start >= 0 /\ region.end > 0)

\* The TrimInfos o with a cut count a are a correct answer for the input.
Correct(o, a) ==
    /\ Len(o) = Len(samples)
    /\ \A k \in Idx : Selected(o[k]) \subseteq 0..(NumPositions(samples[k]) - 1)
    /\ (a = 0 /\ GroupedByRef) =>
          \A q \in Refs : /\ StrictlyIncreasing(Stitched(o, q))
                          /\ ToSet(Stitched(o, q)) = {c \in Columns(q) : InRegion(q, c)}

Init ==
    /\ samples \in Seq(SampleDomain \cup {NullSample}) /\ Len(samples) <= MaxSamples
    /\ region \in Regions \cup {NoRegion}
    /\ out = <<>>
    /\ status = "running"
    /\ approx = 0

\* An empty input returns the empty list whatever the region; any other
\* input without a null is answered only for a valid or absent region.
Return ==
    /\ status = "running"
    /\ ~HasNull /\ (RegionValid \/ samples = <<>>)
    /\ out' \in Seq(TrimInfos) /\ approx' \in 0..MaxSamples
    /\ Correct(out', approx')
    /\ status' = "returned"
    /\ UNCHANGED <<samples, region>>

\* A null throws InvalidInput, and only a null does; out-of-order input
\* may throw UnsupportedRelationship; an invalid region InvalidRegion.
Throw ==
    /\ status = "running"
    /\ \/ HasNull /\ status' = "InvalidInput"
       \/ ~HasNull /\ ~ForwardSorted /\ status' = "UnsupportedRelationship"
       \/ ~HasNull /\ ~RegionValid /\ status' = "InvalidRegion"
    /\ UNCHANGED <<samples, region, out, approx>>

Next == Return \/ Throw

Spec == Init /\ [][Next]_cvars
=============================================================================
