SPECIFICATION Spec
CONSTANTS
    NoValue = NoValue
    MaxReports = 2
    MaxAtOnce = 1
    MaxQueue = 1
    MaxClientWrites = 2
    Tag = {t1, t2}
    Value = {v1, v2, v3}
    Quality = {"Error"}
    Unwritable = {v3}
    Stringified = {}
    t1 = t1
    t2 = t2
    v1 = v1
    v2 = v2
    v3 = v3
INVARIANTS
    TypeOK
    StartupValuesNeverWritten
    WritesDisabledSilent
    OnlyClientWrites
PROPERTIES
    ImplementsWriteThrough
CHECK_DEADLOCK FALSE
