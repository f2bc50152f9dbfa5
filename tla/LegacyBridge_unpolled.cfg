SPECIFICATION Spec
CONSTANTS
    Mode = "none"
    NoProperties = TRUE
    Listings <- Growing
    Quality = {"Good"}
    BATCH_SIZE = 1
    MaxFaults = 0
    MaxChanges = 1
PROPERTIES
    AllArePolled
CHECK_DEADLOCK FALSE
