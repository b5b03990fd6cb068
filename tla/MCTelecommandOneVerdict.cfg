CONSTANTS
    DataSize = 11
    CountMod = 8
    MaxHandled = 2
    Commands <- FlagCommands
SPECIFICATION Spec
INVARIANT OneVerdict
CHECK_DEADLOCK FALSE
