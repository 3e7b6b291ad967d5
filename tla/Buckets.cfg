\* Two claims for one bucket; two keys in pages of one; a client that is
\* denied, one that is allowed though denied, one in no list.
CONSTANTS
    Claims = {"c1", "c2"}
    Keys = {1, 2}
    PageSize = 1
    Clients = {"pod", "host", "guest"}
    Allowed = {"host"}
    Denied = {"host", "pod"}
    MaxRequests = 3
    MaxFaults = 1
SPECIFICATION FairSpec
INVARIANTS BucketFollowsClaims UploadsAreKept
PROPERTIES ClaimsAreServed
CHECK_DEADLOCK FALSE
