CONSTANTS
    CountMod = 4
    SeqMod = 4
    QueueSize = 1
    LinkSize = 1
    MaxRuns = 2
    MaxIssued = 1
    MaxDeaf = 1
SPECIFICATION ManualFairSpec
PROPERTY LiveTelemetry
CHECK_DEADLOCK FALSE
