\* No API error; the missing side of a key changes from one round to the next.
CONSTANTS
    Keys = {k1}
    MaxClusterChanges = 4
    MaxApiErrors = 0
SPECIFICATION CepFairSpec
PROPERTIES ResolvedIsDeleted
