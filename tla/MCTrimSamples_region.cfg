CONSTANTS
    NullSampleMV = NullSampleMV
    NoRegionMV = NoRegionMV
    SampleDomain <- MCSampleDomain
    MaxSamples = 2
    NullSample <- NullSampleMV
    Regions <- MCRegions
    NoRegion <- NoRegionMV

SPECIFICATION Spec

PROPERTY ClipKeepsRegionColumns
PROPERTY ImplementsContract
