CONSTANTS
    SecondUpdate_Interval = 2
    TelemetryUpdate_Interval = 4
    Epoch = 1782448126
    CoarseMod = 2147483647
    DayMod = 65536
    MaxTime = 14
    InitDay = 26
    InitHour = 23
    InitMinute = 59
    InitSecond = 58
SPECIFICATION Spec
INVARIANTS
    TypeOK
    ClockNeverFast
    CalendarAgreesWithCoarse
    PusTimeEncodesCoarse
PROPERTIES
    TelemetryUpdateNeverTicks
    SecondTimerSpec
CHECK_DEADLOCK TRUE
