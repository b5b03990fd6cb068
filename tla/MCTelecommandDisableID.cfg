CONSTANTS
    DataSize = 11
    CountMod = 8
    MaxHandled = 2
    Commands <- MCCommands
SPECIFICATION Spec
INVARIANT DisableUsesOwnID
CHECK_DEADLOCK FALSE
