CONSTANTS
    Base = 6
    BufferSize = 36
    NUM_COARSE_BYTES = 2
    NUM_FINE_BYTES = 1
    Packet_ID = 9
    ecss_crc16 <- MCecss_crc16
    Times = {700}
    Parameters <- MCParameters
    Arguments <- MCArguments
    MaxReports = 5
SPECIFICATION Spec
INVARIANTS
    TypeOK
    PacketReadsBack
    CountersExplained
    TimeTagTruncates
