CONSTANTS
    NullSampleMV = NullSampleMV
    NoRegionMV = NoRegionMV
    SampleDomain <- TestSamples
    MaxSamples <- TestMaxSamples
    NullSample <- NullSampleMV
    Regions <- TestRegions
    NoRegion <- NoRegionMV

SPECIFICATION TestSpec

INVARIANT PassesPolishTrimTest
PROPERTY ImplementsContract
