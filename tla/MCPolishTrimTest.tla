-------------------------- MODULE MCPolishTrimTest --------------------------
(***************************************************************************)
(* The cases of src/tests/PolishTrimTest.cpp run through TrimSamples: the *)
(* inputs of both test tables are the initial states, and the model must  *)
(* return what each case expects, or throw where it expects a throw.      *)
(* The value overload and the pointer overload share the model, so a      *)
(* case of the pointer table is a list in which NullSample stands for    *)
(* nullptr.                                                               *)
(***************************************************************************)
EXTENDS TrimSamples

CONSTANTS NullSampleMV, NoRegionMV

Mock(q, maj, min) == [seq_id |-> q, major |-> maj, minor |-> min]

\* The three mock samples of the "Medaka test" cases, and the single one.
Long(q)   == Mock(q, <<0, 0, 1, 2, 2, 2, 3, 4, 4, 4, 4>>, <<0, 1, 0, 0, 1, 2, 0, 0, 1, 2, 3>>)
Middle(q) == Mock(q, <<4, 4, 4, 4, 5, 6, 6, 7>>, <<1, 2, 3, 5, 0, 0, 1, 0>>)
Short(q)  == Mock(q, <<6, 6, 7, 7>>, <<0, 1, 0, 1>>)
Single    == Mock(0, <<0, 1, 2, 3, 4, 5, 6, 7, 8, 9>>, <<0, 0, 0, 0, 0, 0, 0, 0, 0, 0>>)

Region(q, s, e) == [seq_id |-> q, start |-> s, end |-> e]

TI(s, e) == [start |-> s, end |-> e, heuristic |-> FALSE]

Medaka == << TI(0, 9), TI(1, 6), TI(1, 4) >>

\* One record per TestCase of both tables: samples, region, expect_throw
\* and expected. Cases that repeat an earlier input are listed once.
Cases == {
    [in |-> <<>>, reg |-> NoRegion, throws |-> FALSE, out |-> <<>>],
    [in |-> <<Single>>, reg |-> Region(0, 0, 10), throws |-> FALSE, out |-> <<TI(0, 10)>>],
    [in |-> <<Long(0), Middle(0), Short(0)>>, reg |-> NoRegion, throws |-> FALSE, out |-> Medaka],
    [in |-> <<Long(0), Short(0)>>, reg |-> NoRegion, throws |-> FALSE, out |-> <<TI(0, 11), TI(0, 4)>>],
    [in |-> <<Short(0), Middle(0), Long(0)>>, reg |-> NoRegion, throws |-> TRUE, out |-> <<>>],
    [in |-> <<Short(0), Long(0)>>, reg |-> NoRegion, throws |-> TRUE, out |-> <<>>],
    [in |-> <<Long(0), Middle(1), Short(2)>>, reg |-> NoRegion, throws |-> FALSE,
     out |-> <<TI(0, 11), TI(0, 8), TI(0, 4)>>],
    [in |-> <<Long(0), Middle(0), Short(0), Long(1), Middle(1), Short(1)>>, reg |-> NoRegion,
     throws |-> FALSE, out |-> Medaka \o Medaka],
    [in |-> <<Long(0), Middle(0), Short(0)>>, reg |-> Region(0, 0, 1000), throws |-> FALSE, out |-> Medaka],
    [in |-> <<Long(0), Middle(0), Short(0), Long(1)>>, reg |-> Region(0, 1, 5), throws |-> FALSE,
     out |-> << TI(2, 9), TI(1, 4), TI(-1, -1), TI(-1, -1) >>],
    [in |-> <<Long(0)>>, reg |-> Region(0, -1, 1000), throws |-> TRUE, out |-> <<>>],
    [in |-> <<Long(0)>>, reg |-> Region(0, 1000, -1), throws |-> TRUE, out |-> <<>>],
    [in |-> <<Long(0)>>, reg |-> Region(-1, 1000, 2000), throws |-> TRUE, out |-> <<>>],
    [in |-> <<Long(0), NullSample, Short(0)>>, reg |-> NoRegion, throws |-> TRUE, out |-> <<>>]}

\* The mock samples, the test regions and the longest input, for the cfg.
TestSamples == UNION {{c.in[x] : x \in DOMAIN c.in} : c \in Cases} \ {NullSample}
TestRegions == {c.reg : c \in Cases} \ {NoRegion}
TestMaxSamples == 6

\* The pointer table's inputs: every list of up to three sample_ids into
\* all_mock_samples, -1 (nullptr) included, the permutations it is for.
PointerInputs == UNION {[1..n -> {Short(0), Long(0), Middle(0), NullSample}] : n \in 0..3}

(* Each test case's input is an initial state, and so is every pointer    *)
(* list without a region; the call's locals start as in Init.             *)
TestInit ==
    /\ \/ \E c \in Cases : samples = c.in /\ region = c.reg
       \/ samples \in PointerInputs /\ region = NoRegion
    /\ result = <<>>
    /\ idx_s1 = 1
    /\ i = 1
    /\ num_heuristic = 0
    /\ pc = "start"
    /\ error = "none"

TestSpec == TestInit /\ [][Next]_vars

\* operator==(TrimInfo, TrimInfo): start, end and heuristic all equal.
TrimInfoEq(a, b) == a.start = b.start /\ a.end = b.end /\ a.heuristic = b.heuristic

\* std::vector<TrimInfo>::operator==, as CATCH_CHECK(expected == result) uses it.
TrimInfosEq(u, v) == Len(u) = Len(v) /\ \A x \in DOMAIN u : TrimInfoEq(u[x], v[x])

(* PolishTrimTest.cpp: every case ends as the test expects. A case that *)
(* expects a throw ends in "failed", and any other returns exactly the    *)
(* expected TrimInfos, compared with TrimInfo's operator==.               *)
PassesPolishTrimTest ==
    \A c \in Cases :
        samples = c.in /\ region = c.reg =>
            /\ pc = "done" => ~c.throws /\ TrimInfosEq(c.out, result)
            /\ pc = "failed" => c.throws
=============================================================================
