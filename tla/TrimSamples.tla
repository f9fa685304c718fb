---------------------------- MODULE TrimSamples ----------------------------
(***************************************************************************)
(* trim_samples of src/dorado/polish/trim.cpp (the pointer overload, to   *)
(* which the value overload delegates): one step per iteration of each of *)
(* its loops, from the null check through the stitching loop, the forced  *)
(* end of the last sample, the region validation and the region clip.     *)
(***************************************************************************)
EXTENDS TrimOverlap

CONSTANTS
    SampleDomain,  \* the samples an input list is drawn from
    MaxSamples,    \* the longest input list
    NullSample,    \* model value: a nullptr in the input list
    Regions,       \* the regions a call may pass
    NoRegion       \* model value: std::nullopt

ASSUME MaxSamples \in Nat /\ NullSample \notin SampleDomain /\ NoRegion \notin Regions

VARIABLES
    samples,       \* const std::vector<const Sample*>& samples
    region,        \* const std::optional<const RegionInt>& region
    result,        \* std::vector<TrimInfo> result
    idx_s1,        \* size_t idx_s1, 1-based here
    i,             \* the loop counter of the current loop, 1-based here
    num_heuristic, \* int64_t num_heuristic
    pc,            \* where the call is
    error          \* the runtime_error thrown, "none" while none is

vars == <<samples, region, result, idx_s1, i, num_heuristic, pc, error>>

\* A value-initialised TrimInfo (member defaults of trim.h).
DefaultTrimInfo == [start |-> 0, end |-> -1, heuristic |-> FALSE]

\* The input lists of the model: sequences of samples or null pointers.
Inputs == BoundedSeq(SampleDomain \cup {NullSample}, MaxSamples)

Init ==
    /\ samples \in Inputs
    /\ region \in Regions \cup {NoRegion}
    /\ result = <<>>
    /\ idx_s1 = 1
    /\ i = 1
    /\ num_heuristic = 0
    /\ pc = "start"
    /\ error = "none"

Throw(why) == pc' = "failed" /\ error' = why

(* trim.cpp:323-327: an empty input returns the empty result. *)
ReturnEmpty ==
    /\ pc = "start"
    /\ samples = <<>>
    /\ result' = <<>>
    /\ pc' = "done"
    /\ UNCHANGED <<samples, region, idx_s1, i, num_heuristic, error>>

(* trim.cpp:329-333: a nullptr in the input throws. *)
RejectNull ==
    /\ pc = "start"
    /\ \E k \in DOMAIN samples : samples[k] = NullSample
    /\ Throw("InvalidInput")
    /\ UNCHANGED <<samples, region, result, idx_s1, i, num_heuristic>>

(* trim.cpp:323, 335-339: size the result and open the first sample. *)
BeginStitch ==
    /\ pc = "start"
    /\ samples # <<>>
    /\ \A k \in DOMAIN samples : samples[k] # NullSample
    /\ result' = [[k \in DOMAIN samples |-> DefaultTrimInfo]
                    EXCEPT ![1].start = 0, ![1].end = NumPositions(samples[1])]
    /\ idx_s1' = 1
    /\ i' = 2
    /\ pc' = "stitch"
    /\ UNCHANGED <<samples, region, num_heuristic, error>>

\* trim.cpp:342-352: the relationship of the open sample to sample i, and
\* sample i reset to its full span.
Rel == relative_position(samples[idx_s1], samples[i])
Opened == [result EXCEPT ![i].start = 0, ![i].end = NumPositions(samples[i])]
Overlap == overlap_indices(samples[idx_s1], samples[i])

StitchStep == pc = "stitch" /\ i <= Len(samples)

\* Mutant: a contained sample becomes the open sample, like a gapped one.
StitchContainedAdvance ==
    /\ StitchStep
    /\ Rel = "S2_WITHIN_S1"
    /\ result' = Opened
    /\ idx_s1' = i
    /\ i' = i + 1
    /\ UNCHANGED <<samples, region, num_heuristic, pc, error>>

(* trim.cpp:354-355: a contained sample is skipped; idx_s1 stays. *)
StitchContained ==
    /\ StitchStep
    /\ Rel = "S2_WITHIN_S1"
    /\ result' = Opened
    /\ i' = i + 1
    /\ UNCHANGED <<samples, region, idx_s1, num_heuristic, pc, error>>

\* Mutant: the open index moved one past the sample just opened.
StitchUntrimmedSkipAhead ==
    /\ StitchStep
    /\ Rel \in {"FORWARD_GAPPED", "DIFFERENT_REF_NAME"}
    /\ result' = Opened
    /\ idx_s1' = i + 1
    /\ i' = i + 1
    /\ UNCHANGED <<samples, region, num_heuristic, pc, error>>

(* trim.cpp:357-362, 373-375: a gap or another reference; no trimming. *)
StitchUntrimmed ==
    /\ StitchStep
    /\ Rel \in {"FORWARD_GAPPED", "DIFFERENT_REF_NAME"}
    /\ result' = Opened
    /\ idx_s1' = i
    /\ i' = i + 1
    /\ UNCHANGED <<samples, region, num_heuristic, pc, error>>

(* trim.cpp:363-375: any other relationship cuts both samples where      *)
(* overlap_indices says, and counts a heuristic cut.                      *)
StitchOverlap ==
    /\ StitchStep
    /\ Rel \notin {"S2_WITHIN_S1", "FORWARD_GAPPED", "DIFFERENT_REF_NAME"}
    /\ Overlap.status = "ok"
    /\ result' = [Opened EXCEPT ![idx_s1].end = Overlap.end1, ![i].start = Overlap.start2]
    /\ idx_s1' = i
    /\ i' = i + 1
    /\ num_heuristic' = num_heuristic + (IF Overlap.heuristic THEN 1 ELSE 0)
    /\ UNCHANGED <<samples, region, pc, error>>

(* trim.cpp:364-370: overlap_indices throws; rethrown as unhandled. *)
StitchReject ==
    /\ StitchStep
    /\ Rel \notin {"S2_WITHIN_S1", "FORWARD_GAPPED", "DIFFERENT_REF_NAME"}
    /\ Overlap.status # "ok"
    /\ Throw("UnsupportedRelationship")
    /\ UNCHANGED <<samples, region, result, idx_s1, i, num_heuristic>>

(* trim.cpp:378-381: the last sample always ends at its full size. *)
EndStitch ==
    /\ pc = "stitch"
    /\ i > Len(samples)
    /\ result' = [result EXCEPT ![Len(samples)].end = NumPositions(Last(samples))]
    /\ pc' = "region"
    /\ UNCHANGED <<samples, region, idx_s1, i, num_heuristic, error>>

(* trim.cpp:384, 430-438: without a region the result is returned. *)
ReturnUnclipped ==
    /\ pc = "region"
    /\ region = NoRegion
    /\ pc' = "done"
    /\ UNCHANGED <<samples, region, result, idx_s1, i, num_heuristic, error>>

ValidRegion(r) == r.seq_id >= 0 /\ r.start >= 0 /\ r.end > 0

(* trim.cpp:385-390: a region with a negative field or end <= 0 throws. *)
RejectRegion ==
    /\ pc = "region"
    /\ region # NoRegion
    /\ ~ValidRegion(region)
    /\ Throw("InvalidRegion")
    /\ UNCHANGED <<samples, region, result, idx_s1, i, num_heuristic>>

BeginClip ==
    /\ pc = "region"
    /\ region # NoRegion
    /\ ValidRegion(region)
    /\ i' = 1
    /\ pc' = "clip"
    /\ UNCHANGED <<samples, region, result, idx_s1, num_heuristic, error>>

\* Mutant: the left clip stops only at a major strictly above the start.
ClipTrimAfterStart(s, t, r) ==
    IF s.seq_id # r.seq_id THEN [t EXCEPT !.start = -1, !.end = -1]
    ELSE LET n     == NumPositions(s)
             inL   == {k \in t.start..(n - 1) : s.major[k + 1] > r.start}
             left  == IF r.start > 0 THEN (IF inL = {} THEN n ELSE Min(inL)) ELSE t.start
             start == IF left >= n THEN -1 ELSE left
             inR   == {k \in 0..(t.end - 1) : s.major[k + 1] < r.end}
             right == IF r.end > 0 THEN (IF inR = {} THEN -1 ELSE Max(inR)) ELSE t.end - 1
             end   == IF right + 1 <= 0 THEN -1 ELSE right + 1
         IN IF start >= end THEN [t EXCEPT !.start = -1, !.end = -1]
            ELSE [t EXCEPT !.start = start, !.end = end]

\* trim.cpp:395-428, the body of the region loop for one sample.
ClipTrim(s, t, r) ==
    IF s.seq_id # r.seq_id THEN [t EXCEPT !.start = -1, !.end = -1]
    ELSE LET n     == NumPositions(s)
             inL   == {k \in t.start..(n - 1) : s.major[k + 1] >= r.start}
             left  == IF r.start > 0 THEN (IF inL = {} THEN n ELSE Min(inL)) ELSE t.start
             start == IF left >= n THEN -1 ELSE left
             inR   == {k \in 0..(t.end - 1) : s.major[k + 1] < r.end}
             right == IF r.end > 0 THEN (IF inR = {} THEN -1 ELSE Max(inR)) ELSE t.end - 1
             end   == IF right + 1 <= 0 THEN -1 ELSE right + 1
         IN IF start >= end THEN [t EXCEPT !.start = -1, !.end = -1]
            ELSE [t EXCEPT !.start = start, !.end = end]

ClipSample ==
    /\ pc = "clip"
    /\ i <= Len(samples)
    /\ result' = [result EXCEPT ![i] = ClipTrim(samples[i], result[i], region)]
    /\ i' = i + 1
    /\ UNCHANGED <<samples, region, idx_s1, num_heuristic, pc, error>>

ReturnClipped ==
    /\ pc = "clip"
    /\ i > Len(samples)
    /\ pc' = "done"
    /\ UNCHANGED <<samples, region, result, idx_s1, i, num_heuristic, error>>

\* The call has returned or thrown; nothing changes any more.
Terminated ==
    /\ pc \in {"done", "failed"}
    /\ UNCHANGED vars

Next ==
    \/ ReturnEmpty \/ RejectNull \/ BeginStitch
    \/ StitchContained \/ StitchUntrimmed \/ StitchOverlap \/ StitchReject
    \/ EndStitch \/ ReturnUnclipped \/ RejectRegion \/ BeginClip
    \/ ClipSample \/ ReturnClipped
    \/ Terminated

Spec == Init /\ [][Next]_vars

-----------------------------------------------------------------------------
(* Vocabulary of the properties.                                           *)

\* trim_samples as the atomic call StitchContract specifies: the call is
\* running until pc reaches done or failed, and only then are its result,
\* its error and its heuristic count visible to the caller.
Contract == INSTANCE StitchContract WITH
    out    <- IF pc = "done" THEN result ELSE <<>>,
    status <- CASE pc = "done" -> "returned" [] pc = "failed" -> error [] OTHER -> "running",
    approx <- IF pc = "done" THEN num_heuristic ELSE 0

Idx == DOMAIN samples
SameRef(j, k) == Contract!SameRef(j, k)
GroupedByRef == Contract!GroupedByRef
ForwardPair(j, k) == Contract!ForwardPair(j, k)
ForwardSorted == Contract!ForwardSorted
Selected(t) == Contract!Selected(t)
Stitched(q) == Contract!Stitched(result, q)
Columns(q) == Contract!Columns(q)
Refs == Contract!Refs
StrictlyIncreasing(s) == Contract!StrictlyIncreasing(s)

-----------------------------------------------------------------------------
(* Properties.                                                             *)

TypeOK ==
    /\ samples \in Inputs
    /\ region \in Regions \cup {NoRegion}
    /\ result \in Seq(Contract!TrimInfos)
    /\ idx_s1 \in 1..Max({1, Len(samples)})
    /\ i \in 1..(Len(samples) + 1)
    /\ num_heuristic \in 0..MaxSamples
    /\ pc \in {"start", "stitch", "region", "clip", "done", "failed"}
    /\ error \in {"none", "InvalidInput", "UnsupportedRelationship", "InvalidRegion"}

(* When trim_samples returns without a region for input grouped by       *)
(* reference and every cut was exact (num_heuristic = 0), the windows of  *)
(* the non-redundant samples concatenate, reference by reference, to      *)
(* exactly the columns of the input in order: no column lost, none        *)
(* repeated, none out of order, across chains of overlapping windows.     *)
StitchedIsExactUnion ==
    (pc = "done" /\ region = NoRegion /\ num_heuristic = 0 /\ GroupedByRef)
        => \A q \in Refs : /\ StrictlyIncreasing(Stitched(q))
                          /\ ToSet(Stitched(q)) = Columns(q)

(* trim_samples throws "Unhandled overlap type" only for input that is    *)
(* not in forward order: relative_position classifies every pair of a     *)
(* sorted input as forward, contained, gapped or on another reference,    *)
(* whichever earlier sample is still open (idx_s1).                       *)
SortedInputAccepted ==
    (pc = "failed" /\ error = "UnsupportedRelationship") => ~ForwardSorted

(* Each step of the region loop keeps, of the columns the sample selected *)
(* after stitching, exactly those on the region's reference whose major   *)
(* coordinate lies in [region.start, region.end).                         *)
ClipKeepsRegionColumns ==
    [][pc = "clip" /\ i <= Len(samples) =>
         Selected(result'[i]) =
            {c \in Selected(result[i]) : /\ samples[i].seq_id = region.seq_id
                                        /\ samples[i].major[c + 1] >= region.start
                                        /\ samples[i].major[c + 1] < region.end}]_vars

(* trim_samples implements StitchContract: every step before it returns  *)
(* or throws leaves the caller's view unchanged, it throws only what the  *)
(* input warrants, and what it returns is one TrimInfo per sample inside  *)
(* the sample, tiling each reference's columns within the region when no *)
(* cut was heuristic.                                                     *)
ImplementsContract == Contract!Spec

-----------------------------------------------------------------------------
(* What spec.md says of the program and the code does not do; each is    *)
(* checked by a run that expects TLC to find it violated.                 *)

(* spec.md 1, 4.2: stitching merges the windows into a single            *)
(* non-overlapping output, so the non-redundant samples of a reference    *)
(* emit no column twice, whichever path overlap_indices took.             *)
NoColumnDuplicated ==
    (pc = "done" /\ region = NoRegion /\ GroupedByRef)
        => \A q \in Refs : StrictlyIncreasing(Stitched(q))

HeuristicSearchSplits ==
    [][(num_heuristic' = num_heuristic + 1
         /\ LET s1 == samples[idx_s1]
                s2 == samples[i]
            IN /\ count_unique(s1.major, find_left(s1, Position(s2, 0)), NumPositions(s1)) > UNIQ_MAJ
               /\ count_unique(s2.major, 0, find_right(s2, LastPosition(s1))) > UNIQ_MAJ)
       => LET e == result'[idx_s1].end
              b == result'[i].start
          IN \/ e = -1 /\ b = -1
             \/ streak_count(samples[idx_s1].major, e) = streak_count(samples[i].major, b)]_vars

(* spec.md 7, 8: adjacent samples of a reference presented in reverse   *)
(* order always raise UnsupportedRelationship, so a call that returns    *)
(* had every adjacent pair of a reference in forward order.               *)
ReverseAdjacentRejected ==
    pc = "done" => \A j \in 1..(Len(samples) - 1) : SameRef(j, j + 1) => ForwardPair(j, j + 1)

(* spec.md 3, 4.3: a sample the region clip excludes is marked by the    *)
(* sentinel start = end = -1, never by one bound alone.                   *)
ExcludedIsSentinel ==
    pc = "done" => \A k \in Idx : (result[k].start = -1) <=> (result[k].end = -1)

(* spec.md 1, 3: samples on different references are never adjacent and *)
(* the stitched output of each reference does not overlap itself, so for *)
(* input in forward order on every reference the non-redundant samples of *)
(* a reference emit each column once, however the references interleave. *)
InterleavedRefsStitched ==
    (pc = "done" /\ region = NoRegion /\ num_heuristic = 0 /\ ForwardSorted)
        => \A q \in Refs : StrictlyIncreasing(Stitched(q))
=============================================================================
