CONSTANTS
    SecondUpdate_Interval = 2
    TelemetryUpdate_Interval = 4
    TelemetrySend_Interval = 4
    Epoch = 1782448126
    CoarseMod = 2147483647
    DayMod = 65536
    MaxTime = 12
    InitDay = 26
    InitHour = 23
    InitMinute = 59
    InitSecond = 58
    DataSize = 11
    CountMod = 8
    SeqMod = 4
    MaxHandled = 2
    QueueSize = 2
    Commands <- MCCommands
SPECIFICATION FairSpec
INVARIANTS
    TypeOK
    NothingDueAfterTimers
    ReportNumbers
    NeverBlocks
PROPERTIES
    ReportTimesAdvance
    SequenceStepsByTwo
    ClockSpec
    CommandSpec
    BeaconSpec
    SatelliteSpec
    CommandsHandled
    BeaconStarts
    BeaconGoesOn
CHECK_DEADLOCK TRUE
