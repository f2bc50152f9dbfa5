SPECIFICATION Spec
CONSTANTS
    Mode = "azucarlito"
    NoProperties = FALSE
    Listings <- Plants
    Quality = {"Good", "Bad"}
    BATCH_SIZE = 1
    MaxFaults = 1
    MaxChanges = 1
INVARIANTS
    TypeOK
    NodesMatch
    Described
PROPERTIES
    Converges
    Follows
CHECK_DEADLOCK FALSE
