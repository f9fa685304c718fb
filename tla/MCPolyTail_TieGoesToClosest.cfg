CONSTANTS
    Signals <- MCSignals
    Anchors = {0, 14, 27}
    TrailingBases = {0, 2}
    SpbChoices = {100}
    MaxTailLength = 40
    MinAvgVal = 10
    TailInterruptLength = 5
    MinBaseCount = 3
    buffer_range <- MCBufferRange
    signal_length_adjustment <- MCLengthAdjustment


SPECIFICATION Spec

INVARIANT TieGoesToClosest
