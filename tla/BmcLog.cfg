\* Resets, failing requests, failing writes, restarts and list changes.
CONSTANTS
    Machines = {m1}
    MaxEntries = 2
    MaxResets = 2
    MaxNetFaults = 2
    MaxFaults = 2
    MaxChanges = 1
SPECIFICATION FairSpec
INVARIANTS TypeOK PointerNotAhead NothingSkipped PrintedOnce SuppressedWasReported CountersHaveFiles
PROPERTIES PrintedUnlessStuck
