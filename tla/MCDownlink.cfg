CONSTANTS
    a1 = a1
    a2 = a2
    Apids <- MCApids
    SeqMod = 4
    SeqStep <- MCSeqStep
    MaxSent = 5
    InFlight = 2
    MaxGot = 3
SPECIFICATION Spec
INVARIANTS
    TypeOK
    SilenceMeansComplete
PROPERTY CheckBlind
CHECK_DEADLOCK TRUE
