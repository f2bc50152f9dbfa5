SPECIFICATION Spec
CONSTANTS
    NoValue = NoValue
    MaxReports = 2
    MaxAtOnce = 1
    MaxQueue = 1
    MaxClientWrites = 0
    Tag = {t1, t2}
    Value = {v1, v2}
    Quality = {"Good"}
    Unwritable = {}
    Stringified = {}
    t1 = t1
    t2 = t2
    v1 = v1
    v2 = v2
INVARIANTS
    NoDaUpdateWrittenBack
CHECK_DEADLOCK FALSE
