---------------------------- MODULE OnboardTime ----------------------------
(***************************************************************************)
(* The simulated satellite's clock: the part of main's loop that reads the *)
(* monotonic clock, then update_time and update_telemetry of telemetry.c.  *)
(* One pass of the loop is three steps here, because everything else in    *)
(* the loop runs between them and may take any time.                       *)
(*                                                                         *)
(* DAY, HOUR, MINUTE and SECOND are the fields of tm_3_25_1; pus_time      *)
(* holds the first four bytes of pus_c.pus_time, element 1 being           *)
(* pus_time[0].                                                            *)
(***************************************************************************)
EXTENDS Integers

CONSTANTS
    SecondUpdate_Interval,      \* 1000 in the code
    TelemetryUpdate_Interval,   \* 2000 in the code
    Epoch,                      \* initial coarse_time, 0x6A3DC100 in the code
    CoarseMod,                  \* values of a uint32_t, 2^32 in the code
    DayMod,                     \* values of DAY, a uint16_t: 2^16
    InitDay, InitHour, InitMinute, InitSecond,
                                \* 0x1A, 0x0B, 0x12, 0x22 in the code
    MaxTime                     \* bound: the clock is followed up to here

ASSUME IntervalsAssumption ==
    /\ SecondUpdate_Interval \in Nat \ {0}
    /\ TelemetryUpdate_Interval \in Nat \ {0}

ASSUME EpochAssumption ==
    /\ CoarseMod \in Nat
    /\ (CoarseMod - 1) \div 65536 <= 65535    \* at most 2^32
    /\ Epoch \in Nat
    /\ Epoch < CoarseMod

ASSUME CalendarAssumption ==
    /\ DayMod \in Nat
    /\ InitDay \in 0..(DayMod - 1)
    /\ InitHour \in 0..23 /\ InitMinute \in 0..59 /\ InitSecond \in 0..59

(* The run ends before the seconds counter or the day counter wraps: with  *)
(* the code's constants the first of the two is 79 years away.             *)
ASSUME HorizonAssumption ==
    /\ MaxTime \in Nat
    /\ (CoarseMod - Epoch) * SecondUpdate_Interval > MaxTime
    /\ InitDay + 2 + (CoarseMod - Epoch) \div 86400 < DayMod

VARIABLES
    pc,                         \* the next statement of the loop
    timeSinceBoot,
    previousSecondUpdate,
    previousTelemetryUpdate,
    coarse_time,
    pus_time,
    DAY, HOUR, MINUTE, SECOND

calendar == <<DAY, HOUR, MINUTE, SECOND>>

timeVars == <<pc, timeSinceBoot, previousSecondUpdate,
              previousTelemetryUpdate, coarse_time, pus_time, calendar>>

-----------------------------------------------------------------------------
Byte == 0..255

(* Mutated: the shifts of the two middle bytes are swapped.                *)
BigEndian_Swapped(n) == <<(n \div 16777216) % 256, (n \div 256) % 256,
                          (n \div 65536) % 256, n % 256>>

BigEndian(n) == <<(n \div 16777216) % 256, (n \div 65536) % 256,
                  (n \div 256) % 256, n % 256>>

(* Mutated: the day is not carried at midnight.                            *)
CarryHour_DayKept == /\ HOUR' = (HOUR + 1) % 24
                     /\ UNCHANGED DAY

(* Mutated: the day is carried one hour late.                              *)
CarryHour_Late == IF HOUR + 1 = 25
                  THEN HOUR' = 0 /\ DAY' = (DAY + 1) % DayMod
                  ELSE HOUR' = HOUR + 1 /\ UNCHANGED DAY

CarryHour == IF HOUR + 1 = 24
             THEN HOUR' = 0 /\ DAY' = (DAY + 1) % DayMod
             ELSE HOUR' = HOUR + 1 /\ UNCHANGED DAY

CarryMinute == IF MINUTE + 1 = 60
               THEN MINUTE' = 0 /\ CarryHour
               ELSE MINUTE' = MINUTE + 1 /\ UNCHANGED <<HOUR, DAY>>

NextSecond == IF SECOND + 1 = 60
              THEN SECOND' = 0 /\ CarryMinute
              ELSE SECOND' = SECOND + 1 /\ UNCHANGED <<MINUTE, HOUR, DAY>>

(* Mutated: the interval is taken one unit too short.                      *)
SecondDue_Early ==
    timeSinceBoot - previousSecondUpdate >= SecondUpdate_Interval - 1

SecondDue == timeSinceBoot - previousSecondUpdate >= SecondUpdate_Interval

TelemetryDue ==
    timeSinceBoot - previousTelemetryUpdate >= TelemetryUpdate_Interval

(* Mutated: previousSecondUpdate is not moved.                             *)
Tick_NoReset ==
    /\ coarse_time' = (coarse_time + 1) % CoarseMod
    /\ pus_time' = BigEndian(coarse_time')
    /\ NextSecond
    /\ UNCHANGED previousSecondUpdate

(* Mutated: previousSecondUpdate is advanced by one interval, the usual    *)
(* way to catch up, instead of being set to the present.                   *)
Tick_CatchUp ==
    /\ coarse_time' = (coarse_time + 1) % CoarseMod
    /\ pus_time' = BigEndian(coarse_time')
    /\ NextSecond
    /\ previousSecondUpdate' = previousSecondUpdate + SecondUpdate_Interval

(* The work of update_time once a second is due.                           *)
Tick ==
    /\ coarse_time' = (coarse_time + 1) % CoarseMod
    /\ pus_time' = BigEndian(coarse_time')
    /\ NextSecond
    /\ previousSecondUpdate' = timeSinceBoot

(* The body of update_time.                                                *)
UpdateTime ==
    IF SecondDue
    THEN Tick
    ELSE UNCHANGED <<coarse_time, pus_time, calendar, previousSecondUpdate>>

(* The body of update_telemetry, which calls update_time again.            *)
UpdateTelemetry ==
    IF TelemetryDue
    THEN UpdateTime /\ previousTelemetryUpdate' = timeSinceBoot
    ELSE UNCHANGED <<coarse_time, pus_time, calendar, previousSecondUpdate,
                     previousTelemetryUpdate>>

-----------------------------------------------------------------------------
Init ==
    /\ pc = "read"
    /\ timeSinceBoot \in 0..MaxTime
    /\ previousSecondUpdate = 0
    /\ previousTelemetryUpdate = 0
    /\ coarse_time = Epoch
    /\ pus_time = <<0, 0, 0, 0>>
    /\ DAY = InitDay /\ HOUR = InitHour
    /\ MINUTE = InitMinute /\ SECOND = InitSecond

(* The monotonic clock is read once per pass, however late.                *)
ReadClock ==
    /\ pc = "read"
    /\ \E t \in timeSinceBoot..MaxTime : timeSinceBoot' = t
    /\ pc' = "update_time"
    /\ UNCHANGED <<previousSecondUpdate, previousTelemetryUpdate, coarse_time,
                   pus_time, calendar>>

update_time ==
    /\ pc = "update_time"
    /\ UpdateTime
    /\ pc' = "update_telemetry"
    /\ UNCHANGED <<timeSinceBoot, previousTelemetryUpdate>>

update_telemetry ==
    /\ pc = "update_telemetry"
    /\ UpdateTelemetry
    /\ pc' = "read"
    /\ UNCHANGED timeSinceBoot

Next == ReadClock \/ update_time \/ update_telemetry

Spec == Init /\ [][Next]_timeVars

-----------------------------------------------------------------------------
(* Every field holds a value of its type, the calendar fields being in     *)
(* their range (struct TM_3_25_1, pus_c.pus_time, the three timers).       *)
TypeOK ==
    /\ pc \in {"read", "update_time", "update_telemetry"}
    /\ timeSinceBoot \in 0..MaxTime
    /\ previousSecondUpdate \in 0..MaxTime
    /\ previousTelemetryUpdate \in 0..MaxTime
    /\ coarse_time \in 0..(CoarseMod - 1)
    /\ pus_time \in Byte \X Byte \X Byte \X Byte
    /\ DAY \in 0..(DayMod - 1) /\ HOUR \in 0..23
    /\ MINUTE \in 0..59 /\ SECOND \in 0..59

(* The unsigned differences that update_time and update_telemetry compare  *)
(* with their intervals never wrap, and coarse_time never runs ahead of    *)
(* the monotonic clock although update_time is called from two places.     *)
ClockNeverFast ==
    /\ previousSecondUpdate <= timeSinceBoot
    /\ previousTelemetryUpdate <= timeSinceBoot
    /\ (coarse_time - Epoch) * SecondUpdate_Interval <= previousSecondUpdate

Seconds(d, h, m, s) == ((d * 24 + h) * 60 + m) * 60 + s

(* The two clocks update_time keeps, the calendar of the housekeeping      *)
(* report and the coarse time of the PUS header, count the same seconds    *)
(* through every carry from seconds to days.                               *)
CalendarAgreesWithCoarse ==
    Seconds(DAY, HOUR, MINUTE, SECOND)
        - Seconds(InitDay, InitHour, InitMinute, InitSecond)
      = coarse_time - Epoch

BytesValue(b) == b[1] * 16777216 + b[2] * 65536 + b[3] * 256 + b[4]

(* From the first second on, the header bytes are the big-endian coding of *)
(* the seconds counter; before it they are still zero.                     *)
PusTimeEncodesCoarse ==
    IF coarse_time = Epoch
    THEN pus_time = <<0, 0, 0, 0>>
    ELSE BytesValue(pus_time) = coarse_time

(* update_telemetry calls update_time in the same pass in which the loop   *)
(* has just called it, with the same timeSinceBoot: that inner call never  *)
(* counts a second, whatever the two intervals are.                        *)
TelemetryUpdateNeverTicks ==
    [][pc = "update_telemetry" =>
          UNCHANGED <<coarse_time, pus_time, calendar,
                      previousSecondUpdate>>]_timeVars

(* The seconds counter is a periodic timer of the monotonic clock: the two *)
(* calls of update_time together fire it as one idiom promises.            *)
SecondTimer == INSTANCE PeriodicTimer
               WITH Interval <- SecondUpdate_Interval, now <- timeSinceBoot,
                    last <- previousSecondUpdate,
                    count <- coarse_time - Epoch

(* The loop's clock implements the periodic timer.                         *)
SecondTimerSpec == SecondTimer!Spec
=============================================================================
