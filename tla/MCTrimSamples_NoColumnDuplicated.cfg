CONSTANTS
    NullSampleMV = NullSampleMV
    NoRegionMV = NoRegionMV
    SampleDomain <- MCSampleDomain
    MaxSamples = 2
    NullSample <- NullSampleMV
    Regions <- MCRegionsNone
    NoRegion <- NoRegionMV

SPECIFICATION Spec

INVARIANT NoColumnDuplicated
