\* One device and a change of ConfigMap: releases, faults and restarts in depth.
CONSTANTS
    n1 = n1
    NoConfig = NoConfig
    Devices = {d1}
    Names = {n1}
    Configs = {c1, c2}
    pvName <- OneName
    Selects <- SelectAll
    MaxClaims = 2
    MaxChanges = 1
    MaxFaults = 2
SPECIFICATION FairSpec
INVARIANTS TypeOK WipesOnlyFreeDevices
PROPERTIES DetectorKeepsLiveData ReleasedIsRemoved DevicesGetVolumes
