SPECIFICATION Spec
CONSTANTS
    Client = {c1}
    Name = {g}
    NoName = NoName
    Tag = {t1, t2}
    None = None
    MaxTx = 3
    MaxReads = 4
    MaxQueue = 1
INVARIANTS
    ReadsOwnTags
    ReadsOwnAnswer
CHECK_DEADLOCK FALSE
SYMMETRY Symmetry
