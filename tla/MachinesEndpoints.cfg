\* Two machines and two slots, one endpoint per slice: slices shift, appear
\* and go; two jobs overlap.
CONSTANTS
    a = a  b = b
    Serials = {1, 2}
    Slots = {a, b}
    BootSlots = {b}
    MaxEndpoints = 1
    CommandLines = {{"all", "proxy"}, {"boot", "log"}}
    Initial <- SecondOnly
    Shapes <- ManyShapes
    Jobs = {1, 2}
    MaxChanges = 2
    MaxFaults = 1
SPECIFICATION FairSpec
INVARIANTS SuccessMeansListed
PROPERTIES FollowsSabakan
