\* Two identities, one Secret, a fence; two changes, one failing list, one restart.
CONSTANTS
    i1 = i1  i2 = i2  a = a  b = b  s1 = s1
    Collectors = {"ciliumid", "cert", "networkfence"}
    CommandLines = {{"ciliumid"}, {"cert", "networkfence"}}
    LeaderMetrics = {"ciliumid", "cert", "networkfence"}
    Identities = {i1, i2}
    Namespaces = {a, b}
    Secrets = {s1}
    Expirations = {1, 2}
    Names <- AllNames
    Values <- AllValues
    Shapes <- ManyShapes
    MaxChanges = 2
    MaxErrors = 1
    MaxRestarts = 1
SPECIFICATION FairSpec
INVARIANTS TypesOK OnlyLeaderReports UnhealthyShowsNothing CountsSettle ExpirationsSettle
PROPERTIES ScrapesSeeReports LeaderShowsCluster
