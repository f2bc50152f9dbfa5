SPECIFICATION Spec
CONSTANTS
    Name = {"g"}
    NoName = "none"
    Tag = {"a", "b", "c"}
    Requests <- ReadLists
    Writes <- WriteLists
    Sizes = {0, 2}
    MaxCalls = 4
    MaxFaults = 2
INVARIANTS
    ReadsOwnTags
    WriteTellsTruth
CHECK_DEADLOCK FALSE
