CONSTANTS
    DataSize = 11
    CountMod = 8
    MaxHandled = 4
    Commands <- MCCommands
SPECIFICATION Spec
INVARIANTS
    TypeOK
    HkOffOnceEnabled
    EventsOffNeedEnable
    CountersExplained
    CompleteCommandsStandAlone
CHECK_DEADLOCK FALSE
