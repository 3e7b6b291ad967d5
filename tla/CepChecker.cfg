\* Two keys: lists, second looks and API errors against a changing cluster.
CONSTANTS
    Keys = {k1, k2}
    MaxClusterChanges = 3
    MaxApiErrors = 1
SPECIFICATION CepFairSpec
INVARIANTS KnownIsExported
PROPERTIES StableNotAccused MissingIsExported WholeIsForgotten
