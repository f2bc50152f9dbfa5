SPECIFICATION Spec
CONSTANTS
    Trees <- Servers
    ChunkSize = 5
    Small = 2
    BatchSize = 2
    MaxRaising = 2
    MaxFaults = 2
INVARIANTS
    FindsEachTagOnce
    InOrder
    OthersUnharmed
PROPERTIES
    Ends
CHECK_DEADLOCK FALSE
