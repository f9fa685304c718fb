-------------------------- MODULE TrimRelationship --------------------------
(***************************************************************************)
(* The geometry of polishing samples (windows of consensus columns) and   *)
(* the classifier relative_position of src/dorado/polish/trim.cpp.        *)
(*                                                                         *)
(* A sample is a record [seq_id, major, minor]: the two position arrays   *)
(* of dorado's Sample are the sequences major and minor of equal length.  *)
(* Indices are 0-based as in the code: Position(s, k) is column k.         *)
(* Positions are pairs <<major, minor>> compared lexicographically, as    *)
(* std::pair<int64_t, int64_t> is.                                         *)
(***************************************************************************)
EXTENDS Integers, Sequences

\* The ten values of enum class Relationship.
Relationships == {"DIFFERENT_REF_NAME", "FORWARD_OVERLAP", "REVERSE_OVERLAP",
                  "FORWARD_ABUTTED", "REVERSE_ABUTTED", "FORWARD_GAPPED",
                  "REVERSE_GAPPED", "S2_WITHIN_S1", "S1_WITHIN_S2", "UNKNOWN"}

\* std::pair operator< and operator<= on <<major, minor>>.
PairLt(p, q) == p[1] < q[1] \/ (p[1] = q[1] /\ p[2] < q[2])
PairLeq(p, q) == ~PairLt(q, p)

\* dorado::ssize(s.positions_major)
NumPositions(s) == Len(s.major)

\* Sample::get_position(idx) and Sample::get_last_position().
Position(s, k) == <<s.major[k + 1], s.minor[k + 1]>>
LastPosition(s) == Position(s, NumPositions(s) - 1)

\* Mutant: the minor step of an abutment not incremented.
ordered_abuts_same_minor(a, b) ==
    LET e == LastPosition(a)
        f == Position(b, 0)
    IN \/ f[1] = e[1] + 1 /\ f[2] = 0
       \/ f[1] = e[1] /\ f[2] = e[2]

\* The lambdas of relative_position, on an already ordered pair (a, b).
ordered_abuts(a, b) ==
    LET e == LastPosition(a)
        f == Position(b, 0)
    IN \/ f[1] = e[1] + 1 /\ f[2] = 0
       \/ f[1] = e[1] /\ f[2] = e[2] + 1

ordered_contained(a, b) ==
    PairLeq(Position(a, 0), Position(b, 0)) /\ PairLeq(LastPosition(b), LastPosition(a))

ordered_overlaps(a, b) ==
    LET e == LastPosition(a)
        f == Position(b, 0)
    IN \/ f[1] < e[1]
       \/ f[1] = e[1] /\ f[2] < e[2] + 1

ordered_gapped(a, b) ==
    LET e == LastPosition(a)
        f == Position(b, 0)
    IN \/ f[1] > e[1] + 1
       \/ f[1] > e[1] /\ f[2] > 0
       \/ f[1] = e[1] /\ f[2] > e[2] + 1

\* Mutant (a plausible bug, for checking the properties): the tie-break
\* dropped, as if the pairs were compared with < instead of <=.
IsOrderedStrict(s1, s2) == PairLt(Position(s1, 0), Position(s2, 0))

\* s1 is ordered first iff (first position, -size) of s1 <= that of s2:
\* the earlier sample first, and on a tie the larger one.
IsOrdered(s1, s2) ==
    \/ PairLt(Position(s1, 0), Position(s2, 0))
    \/ Position(s1, 0) = Position(s2, 0) /\ -NumPositions(s1) <= -NumPositions(s2)

relative_position(s1, s2) ==
    IF s1.seq_id # s2.seq_id THEN "DIFFERENT_REF_NAME"
    ELSE LET fwd == IsOrdered(s1, s2)
             a   == IF fwd THEN s1 ELSE s2
             b   == IF fwd THEN s2 ELSE s1
         IN CASE ordered_contained(a, b) -> IF fwd THEN "S2_WITHIN_S1" ELSE "S1_WITHIN_S2"
              [] ordered_abuts(a, b)     -> IF fwd THEN "FORWARD_ABUTTED" ELSE "REVERSE_ABUTTED"
              [] ordered_overlaps(a, b)  -> IF fwd THEN "FORWARD_OVERLAP" ELSE "REVERSE_OVERLAP"
              [] ordered_gapped(a, b)    -> IF fwd THEN "FORWARD_GAPPED" ELSE "REVERSE_GAPPED"
              [] OTHER                   -> "UNKNOWN"
=============================================================================
