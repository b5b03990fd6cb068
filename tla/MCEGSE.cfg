CONSTANTS
    CountMod = 4
    SeqMod = 2
    QueueSize = 1
    LinkSize = 1
    MaxRuns = 3
    MaxIssued = 3
    MaxDeaf = 1
SPECIFICATION FairSpec
INVARIANTS
    TypeOK
    NoStaleReport
    ShownNeverOverstates
    NobodyStuck
PROPERTY ScriptBringsTelemetry
CHECK_DEADLOCK FALSE
