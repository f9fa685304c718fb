CONSTANTS
    NullSampleMV = NullSampleMV
    NoRegionMV = NoRegionMV
    SampleDomain <- MCSampleDomain
    MaxSamples = 3
    NullSample <- NullSampleMV
    Regions <- MCRegionsNone
    NoRegion <- NoRegionMV

SPECIFICATION Spec

INVARIANT TypeOK
INVARIANT StitchedIsExactUnion
INVARIANT SortedInputAccepted
INVARIANT ClassifierMatchesWindows
PROPERTY ImplementsContract
