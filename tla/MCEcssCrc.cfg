CONSTANTS
    crc_polynomial <- MCPolynomial
    Initial <- MCInitial
    Messages <- MCMessages
    Bursts <- MCBursts
    LengthField <- MCLengthField
    MaxLength = 3
SPECIFICATION Spec
INVARIANTS
    TypeOK
    RegisterIsRemainder
    IntactAccepted
    DamageSeen
CHECK_DEADLOCK TRUE
