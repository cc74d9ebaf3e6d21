\* Two shards share the feature table of their database.
CONSTANTS
    Shards = {s1, s2}
    Ids = {f1, f2, f3}
    EmptyId = EmptyId
    Null = Null
    PerPage = 2
    MaxFeatures = 2
    MaxFaults = 1
SPECIFICATION FeaturesSpec
SYMMETRY Symmetry
INVARIANT StorageAgrees
PROPERTY PagesMakeTheShard
