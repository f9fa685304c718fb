CONSTANTS
    NullSampleMV = NullSampleMV
    NoRegionMV = NoRegionMV
    SampleDomain <- MCTwoPileupDomain
    MaxSamples = 2
    NullSample <- NullSampleMV
    Regions <- MCRegionsNone
    NoRegion <- NoRegionMV

SPECIFICATION Spec

PROPERTY HeuristicSearchSplits
