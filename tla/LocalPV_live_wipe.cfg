\* One device used twice; nothing fails.
CONSTANTS
    n1 = n1
    NoConfig = NoConfig
    Devices = {d1}
    Names = {n1}
    Configs = {c1}
    pvName <- OneName
    Selects <- SelectAll
    MaxClaims = 2
    MaxChanges = 0
    MaxFaults = 0
SPECIFICATION Spec
PROPERTIES ReconcilerKeepsLiveData
