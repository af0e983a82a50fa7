\* One entity sent three times over a link whose answers may arrive late.
SPECIFICATION ClusterSpec
CONSTANTS
    Nodes = {a, b}
    Travellers = {e}
    MaxDispatch = 3
    MaxCuts = 0
INVARIANTS NoEntityLost
CHECK_DEADLOCK FALSE
