----------------------------- MODULE MCPolyTail -----------------------------
(***************************************************************************)
(* Model values for PolyTail. Signals are piecewise constant: a few       *)
(* blocks of one level each, in units of 1/20. Level 0 is the open pore   *)
(* baseline; 20 and 24 are two tail levels close enough (0.2) for their   *)
(* windows to be merged and far enough from 0 that a window across the    *)
(* step is noisy. The scan then sees flat stretches, steps inside a tail, *)
(* glitches and linkers of 3 to 12 samples, at one sample per base.        *)
(***************************************************************************)
EXTENDS PolyTail

Block(level, n) == [x \in 1..n |-> level]

BlockSignals(levels, lengths, blocks) ==
    {FlattenSeq([b \in 1..blocks |-> Block(lv[b], ln[b])]) :
        lv \in [1..blocks -> levels], ln \in [1..blocks -> lengths]}

MCSignals == BlockSignals({0, 20, 24}, {3, 6, 12}, 3)

\* A buffer of ten samples on either side of an interval.
MCBufferRange(iv, spbTenths) == <<10, 10>>

\* The concrete calculators' length adjustment, none here.
MCLengthAdjustment(len) == 0
=============================================================================
