------------------------- MODULE OnboardTimeProofs -------------------------
(***************************************************************************)
(* The clock's invariants for all intervals, epochs and calendars.  The    *)
(* inductive invariant adds to the checked ones that the seconds counter   *)
(* never falls below its epoch and that between update_time and            *)
(* update_telemetry no second is due.                                      *)
(***************************************************************************)
EXTENDS OnboardTime, TLAPS

TimeInv ==
    /\ TypeOK
    /\ ClockNeverFast
    /\ CalendarAgreesWithCoarse
    /\ PusTimeEncodesCoarse
    /\ coarse_time >= Epoch
    /\ pc = "update_telemetry" => ~SecondDue

(* A second more is one interval more.                                     *)
LEMMA OneMoreSecond ==
    ASSUME NEW n \in Int, NEW i \in Nat
    PROVE  (n + 1) * i = n * i + i /\ n * i \in Int
OBVIOUS

(* Fewer seconds take less time.                                           *)
LEMMA LessTimeFewerSeconds ==
    ASSUME NEW m \in Int, NEW n \in Int, NEW i \in Nat \ {0}, m * i < n * i
    PROVE  m < n
<1> SUFFICES ASSUME m >= n PROVE m * i >= n * i
  <2>1. m * i \in Int /\ n * i \in Int
    OBVIOUS
  <2> QED
    BY <2>1
<1>1. PICK k \in Nat : m = n + k
  <2>1. m - n \in Nat /\ m = n + (m - n)
    OBVIOUS
  <2> QED
    BY <2>1
<1>2. m * i = n * i + k * i
  BY <1>1
<1>3. k * i \in Nat /\ n * i \in Int
  OBVIOUS
<1> QED
  BY <1>2, <1>3

CalendarOK == /\ DAY \in 0..(DayMod - 1) /\ HOUR \in 0..23
              /\ MINUTE \in 0..59 /\ SECOND \in 0..59

(* NextSecond stays in range and advances the calendar by one second.      *)
LEMMA NextSecondAdvances ==
    ASSUME CalendarOK, DAY + 1 < DayMod, NextSecond
    PROVE  /\ CalendarOK'
           /\ Seconds(DAY, HOUR, MINUTE, SECOND)'
                = Seconds(DAY, HOUR, MINUTE, SECOND) + 1
<1>1. DAY \in Nat /\ DayMod \in Nat
  BY CalendarAssumption DEF CalendarOK
<1>2. CASE SECOND + 1 # 60
  <2>1. /\ SECOND' = SECOND + 1 /\ SECOND + 1 \in 0..59
        /\ UNCHANGED <<DAY, HOUR, MINUTE>>
    BY <1>2 DEF NextSecond, CalendarOK
  <2> QED
    BY <1>1, <2>1, SMT DEF CalendarOK, Seconds
<1>3. CASE SECOND = 59 /\ MINUTE + 1 # 60
  <2>1. /\ SECOND' = 0 /\ MINUTE' = MINUTE + 1 /\ MINUTE + 1 \in 0..59
        /\ UNCHANGED <<DAY, HOUR>>
    BY <1>3 DEF NextSecond, CarryMinute, CalendarOK
  <2> QED
    BY <1>1, <1>3, <2>1, SMT DEF CalendarOK, Seconds
<1>4. CASE SECOND = 59 /\ MINUTE = 59 /\ HOUR + 1 # 24
  <2>1. /\ SECOND' = 0 /\ MINUTE' = 0
        /\ HOUR' = HOUR + 1 /\ HOUR + 1 \in 0..23 /\ UNCHANGED DAY
    BY <1>4 DEF NextSecond, CarryMinute, CarryHour, CalendarOK
  <2> QED
    BY <1>1, <1>4, <2>1, SMT DEF CalendarOK, Seconds
<1>5. CASE SECOND = 59 /\ MINUTE = 59 /\ HOUR = 23
  <2>1. /\ SECOND' = 0 /\ MINUTE' = 0 /\ HOUR' = 0
        /\ DAY' = (DAY + 1) % DayMod
    BY <1>5 DEF NextSecond, CarryMinute, CarryHour
  <2>2. (DAY + 1) % DayMod = DAY + 1
    BY <1>1
  <2> QED
    BY <1>1, <1>5, <2>1, <2>2, SMT DEF CalendarOK, Seconds
<1>6. \/ SECOND + 1 # 60
      \/ SECOND = 59 /\ MINUTE + 1 # 60
      \/ SECOND = 59 /\ MINUTE = 59 /\ HOUR + 1 # 24
      \/ SECOND = 59 /\ MINUTE = 59 /\ HOUR = 23
  BY DEF CalendarOK
<1> QED
  BY <1>2, <1>3, <1>4, <1>5, <1>6

(* A 32-bit number is the sum of its big-endian bytes.                     *)
FitsInFourBytes(n) == n \in Nat /\ n \div 65536 <= 65535

(* The four bytes update_time stores decode to the seconds counter.        *)
LEMMA BigEndianDecodes ==
    ASSUME NEW n, FitsInFourBytes(n)
    PROVE  /\ BigEndian(n) \in Byte \X Byte \X Byte \X Byte
           /\ BytesValue(BigEndian(n)) = n
<1>1. n \in Nat /\ n \div 16777216 \in 0..255
  BY SMT DEF FitsInFourBytes
<1>2. /\ (n \div 65536) % 256 = (n \div 65536) - 256 * (n \div 16777216)
      /\ (n \div 256) % 256 = (n \div 256) - 256 * (n \div 65536)
      /\ n % 256 = n - 256 * (n \div 256)
  BY <1>1, SMT
<1>3. /\ (n \div 16777216) % 256 \in Byte
      /\ (n \div 65536) % 256 \in Byte
      /\ (n \div 256) % 256 \in Byte
      /\ n % 256 \in Byte
  BY <1>1, SMT DEF Byte
<1> QED
  BY <1>1, <1>2, <1>3, SMT DEF BigEndian, BytesValue

(* A due second finds both counters below their limits and keeps the pace. *)
LEMMA RoomToTick ==
    ASSUME TimeInv, SecondDue
    PROVE  /\ coarse_time + 1 < CoarseMod
           /\ (coarse_time + 1 - Epoch) * SecondUpdate_Interval
                 <= timeSinceBoot
           /\ DAY + 1 < DayMod
<1> DEFINE n == coarse_time - Epoch
<1>1. /\ n \in Nat /\ Epoch \in Nat /\ CoarseMod \in Nat
      /\ coarse_time \in Nat /\ MaxTime \in Nat
      /\ SecondUpdate_Interval \in Nat \ {0}
      /\ timeSinceBoot \in 0..MaxTime /\ previousSecondUpdate \in 0..MaxTime
  BY IntervalsAssumption, EpochAssumption, HorizonAssumption, SMT
     DEF TimeInv, TypeOK
<1>2. n * SecondUpdate_Interval <= previousSecondUpdate
  BY DEF TimeInv, ClockNeverFast
<1>3. (n + 1) * SecondUpdate_Interval <= timeSinceBoot
  <2>1. previousSecondUpdate + SecondUpdate_Interval <= timeSinceBoot
    BY <1>1 DEF SecondDue
  <2>2. /\ (n + 1) * SecondUpdate_Interval
            = n * SecondUpdate_Interval + SecondUpdate_Interval
        /\ n * SecondUpdate_Interval \in Int
    BY <1>1, OneMoreSecond
  <2> HIDE DEF n
  <2> QED
    BY <1>1, <1>2, <2>1, <2>2
<1>4. n + 1 < CoarseMod - Epoch
  <2>1. (n + 1) * SecondUpdate_Interval
          < (CoarseMod - Epoch) * SecondUpdate_Interval
    <3>1. /\ (n + 1) * SecondUpdate_Interval \in Int
          /\ (CoarseMod - Epoch) * SecondUpdate_Interval \in Int
      BY <1>1
    <3> HIDE DEF n
    <3> QED
      BY <1>1, <1>3, <3>1, HorizonAssumption, SMT
  <2>2. n + 1 \in Int /\ CoarseMod - Epoch \in Int
    BY <1>1
  <2> HIDE DEF n
  <2> QED
    BY <1>1, <2>1, <2>2, LessTimeFewerSeconds
<1>5. DAY + 1 < DayMod
  <2>1. CalendarOK /\ DayMod \in Nat
    BY CalendarAssumption DEF TimeInv, TypeOK, CalendarOK
  <2>2. /\ Seconds(DAY, HOUR, MINUTE, SECOND) \in Nat
        /\ DAY \in Nat
        /\ DAY * 86400 <= Seconds(DAY, HOUR, MINUTE, SECOND)
    BY <2>1, SMT DEF CalendarOK, Seconds
  <2>3. /\ Seconds(InitDay, InitHour, InitMinute, InitSecond) \in Nat
        /\ InitDay \in Nat
        /\ Seconds(InitDay, InitHour, InitMinute, InitSecond)
             < InitDay * 86400 + 86400
    BY <2>1, CalendarAssumption, SMT DEF Seconds
  <2>4. Seconds(DAY, HOUR, MINUTE, SECOND)
          - Seconds(InitDay, InitHour, InitMinute, InitSecond) = n
    BY DEF TimeInv, CalendarAgreesWithCoarse
  <2>5. InitDay + 2 + (CoarseMod - Epoch) \div 86400 < DayMod
    BY HorizonAssumption, SMT
  <2> HIDE DEF n
  <2> QED
    BY <1>1, <1>4, <2>1, <2>2, <2>3, <2>4, <2>5, SMT
<1> QED
  <2>1. n + 1 = coarse_time + 1 - Epoch
    BY <1>1
  <2> QED
    BY <1>1, <1>3, <1>4, <1>5, <2>1

(* A tick keeps the two clocks in step, in range and behind the monotonic  *)
(* clock.                                                                  *)
LEMMA TickKeepsStep ==
    ASSUME TimeInv, SecondDue, Tick, UNCHANGED timeSinceBoot,
           previousTelemetryUpdate' \in {previousTelemetryUpdate,
                                         timeSinceBoot}
    PROVE  /\ coarse_time' = coarse_time + 1
           /\ coarse_time' \in 0..(CoarseMod - 1)
           /\ pus_time' \in Byte \X Byte \X Byte \X Byte
           /\ CalendarOK'
           /\ previousSecondUpdate' = timeSinceBoot
           /\ (ClockNeverFast /\ CalendarAgreesWithCoarse
                  /\ PusTimeEncodesCoarse)'
           /\ coarse_time' >= Epoch
           /\ ~SecondDue'
<1>1. /\ Epoch \in Nat /\ CoarseMod \in Nat /\ coarse_time \in Nat
      /\ coarse_time >= Epoch /\ timeSinceBoot \in Nat
      /\ previousTelemetryUpdate <= timeSinceBoot
      /\ SecondUpdate_Interval \in Nat \ {0}
  BY IntervalsAssumption, EpochAssumption, HorizonAssumption, SMT
     DEF TimeInv, TypeOK, ClockNeverFast
<1>2. /\ coarse_time + 1 < CoarseMod
      /\ (coarse_time + 1 - Epoch) * SecondUpdate_Interval <= timeSinceBoot
      /\ DAY + 1 < DayMod
  BY RoomToTick
<1>3. coarse_time' = coarse_time + 1
  BY <1>1, <1>2 DEF Tick
<1>4. /\ CalendarOK'
      /\ Seconds(DAY, HOUR, MINUTE, SECOND)'
           = Seconds(DAY, HOUR, MINUTE, SECOND) + 1
  <2>1. CalendarOK /\ NextSecond
    BY DEF TimeInv, TypeOK, CalendarOK, Tick
  <2> QED
    BY <1>2, <2>1, NextSecondAdvances
<1>5. CalendarAgreesWithCoarse'
  <2>1. /\ Seconds(DAY, HOUR, MINUTE, SECOND) \in Int
        /\ Seconds(InitDay, InitHour, InitMinute, InitSecond) \in Int
    BY CalendarAssumption DEF TimeInv, TypeOK, Seconds
  <2>2. Seconds(DAY, HOUR, MINUTE, SECOND)
          - Seconds(InitDay, InitHour, InitMinute, InitSecond)
          = coarse_time - Epoch
    BY DEF TimeInv, CalendarAgreesWithCoarse
  <2> QED
    BY <1>1, <1>3, <1>4, <2>1, <2>2 DEF CalendarAgreesWithCoarse
<1>6. /\ pus_time' \in Byte \X Byte \X Byte \X Byte
      /\ PusTimeEncodesCoarse'
  <2>1. FitsInFourBytes(coarse_time')
    BY <1>1, <1>2, <1>3, EpochAssumption, SMT DEF FitsInFourBytes
  <2>2. pus_time' = BigEndian(coarse_time')
    BY DEF Tick
  <2>3. coarse_time' # Epoch
    BY <1>1, <1>3
  <2>4. /\ pus_time' \in Byte \X Byte \X Byte \X Byte
        /\ BytesValue(pus_time') = coarse_time'
    BY <2>1, <2>2, BigEndianDecodes, Zenon
  <2> QED
    BY <2>3, <2>4 DEF PusTimeEncodesCoarse
<1>7. ClockNeverFast'
  BY <1>1, <1>2, <1>3 DEF ClockNeverFast, Tick
<1>8. ~SecondDue'
  BY <1>1 DEF SecondDue, Tick
<1> QED
  BY <1>1, <1>2, <1>3, <1>4, <1>5, <1>6, <1>7, <1>8 DEF Tick

(* A pass of update_time's body keeps the invariant's parts that do not    *)
(* mention the program counter and leaves no second due.                   *)
LEMMA UpdateTimeKeepsStep ==
    ASSUME TimeInv, UpdateTime, UNCHANGED timeSinceBoot,
           previousTelemetryUpdate' \in {previousTelemetryUpdate,
                                         timeSinceBoot}
    PROVE  /\ previousSecondUpdate' \in 0..MaxTime
           /\ coarse_time' \in 0..(CoarseMod - 1)
           /\ pus_time' \in Byte \X Byte \X Byte \X Byte
           /\ CalendarOK'
           /\ (ClockNeverFast /\ CalendarAgreesWithCoarse
                  /\ PusTimeEncodesCoarse)'
           /\ coarse_time' >= Epoch
           /\ ~SecondDue'
<1>1. CASE SecondDue
  <2>1. Tick
    BY <1>1 DEF UpdateTime
  <2>2. timeSinceBoot \in 0..MaxTime
    BY DEF TimeInv, TypeOK
  <2> QED
    BY <1>1, <2>1, <2>2, TickKeepsStep
<1>2. CASE ~SecondDue
  <2>1. UNCHANGED <<coarse_time, pus_time, calendar, previousSecondUpdate>>
    BY <1>2 DEF UpdateTime
  <2>2. ClockNeverFast'
    <3>1. timeSinceBoot \in 0..MaxTime /\ MaxTime \in Nat
      BY HorizonAssumption, SMT DEF TimeInv, TypeOK
    <3> QED
      BY <2>1, <3>1 DEF TimeInv, ClockNeverFast
  <2>3. CalendarAgreesWithCoarse' /\ PusTimeEncodesCoarse'
    BY <2>1 DEF TimeInv, CalendarAgreesWithCoarse, PusTimeEncodesCoarse,
                calendar
  <2>4. ~SecondDue'
    BY <1>2, <2>1 DEF SecondDue
  <2> QED
    BY <2>1, <2>2, <2>3, <2>4 DEF TimeInv, TypeOK, CalendarOK, calendar
<1> QED
  BY <1>1, <1>2

-----------------------------------------------------------------------------
(* The initial values satisfy the invariant.                               *)
LEMMA InitTimeInv == Init => TimeInv
<1> SUFFICES ASSUME Init PROVE TimeInv
  OBVIOUS
<1>1. TypeOK
  <2>1. pus_time \in Byte \X Byte \X Byte \X Byte
    BY DEF Init, Byte
  <2> QED
    BY <2>1, EpochAssumption, HorizonAssumption, CalendarAssumption, SMT
       DEF Init, TypeOK
<1>2. ClockNeverFast
  BY IntervalsAssumption, EpochAssumption, HorizonAssumption, SMT
     DEF Init, ClockNeverFast
<1>3. CalendarAgreesWithCoarse
  BY CalendarAssumption, EpochAssumption, SMT
     DEF Init, CalendarAgreesWithCoarse, Seconds
<1>4. PusTimeEncodesCoarse
  BY DEF Init, PusTimeEncodesCoarse
<1> QED
  BY <1>1, <1>2, <1>3, <1>4, EpochAssumption, SMT DEF Init, TimeInv

(* Every step of the loop preserves it.                                    *)
LEMMA NextTimeInv == TimeInv /\ [Next]_timeVars => TimeInv'
<1> SUFFICES ASSUME TimeInv, [Next]_timeVars
             PROVE  TimeInv'
  OBVIOUS
<1>1. CASE ReadClock
  <2>1. /\ timeSinceBoot \in 0..MaxTime /\ timeSinceBoot' \in 0..MaxTime
        /\ timeSinceBoot <= timeSinceBoot' /\ MaxTime \in Nat
    BY <1>1, HorizonAssumption, SMT DEF ReadClock, TimeInv, TypeOK
  <2>2. TypeOK'
    BY <1>1, <2>1 DEF ReadClock, TimeInv, TypeOK, calendar
  <2>3. ClockNeverFast'
    BY <1>1, <2>1 DEF ReadClock, TimeInv, TypeOK, ClockNeverFast
  <2>4. CalendarAgreesWithCoarse' /\ PusTimeEncodesCoarse'
    BY <1>1 DEF ReadClock, TimeInv, CalendarAgreesWithCoarse,
                PusTimeEncodesCoarse, calendar
  <2> QED
    BY <1>1, <2>2, <2>3, <2>4 DEF ReadClock, TimeInv
<1>2. CASE update_time
  <2>1. UpdateTime /\ UNCHANGED <<timeSinceBoot, previousTelemetryUpdate>>
    BY <1>2 DEF update_time
  <2>2. /\ previousSecondUpdate' \in 0..MaxTime
        /\ coarse_time' \in 0..(CoarseMod - 1)
        /\ pus_time' \in Byte \X Byte \X Byte \X Byte
        /\ CalendarOK'
        /\ (ClockNeverFast /\ CalendarAgreesWithCoarse
               /\ PusTimeEncodesCoarse)'
        /\ coarse_time' >= Epoch
        /\ ~SecondDue'
    BY <2>1, UpdateTimeKeepsStep
  <2>3. TypeOK'
    BY <1>2, <2>2 DEF update_time, TimeInv, TypeOK, CalendarOK
  <2> QED
    BY <2>2, <2>3 DEF TimeInv
<1>3. CASE update_telemetry
  <2>1. ~SecondDue
    BY <1>3 DEF update_telemetry, TimeInv
  <2>2. /\ pc' = "read" /\ UNCHANGED timeSinceBoot
        /\ UNCHANGED <<coarse_time, pus_time, calendar,
                       previousSecondUpdate>>
        /\ previousTelemetryUpdate' \in {previousTelemetryUpdate,
                                         timeSinceBoot}
    BY <1>3, <2>1 DEF update_telemetry, UpdateTelemetry, UpdateTime
  <2>3. TypeOK'
    BY <2>2 DEF TimeInv, TypeOK, calendar
  <2>4. ClockNeverFast'
    BY <2>2, HorizonAssumption, SMT DEF TimeInv, TypeOK, ClockNeverFast
  <2>5. CalendarAgreesWithCoarse' /\ PusTimeEncodesCoarse'
    BY <2>2 DEF TimeInv, CalendarAgreesWithCoarse, PusTimeEncodesCoarse,
                calendar
  <2> QED
    BY <2>2, <2>3, <2>4, <2>5 DEF TimeInv
<1>4. CASE UNCHANGED timeVars
  BY <1>4 DEF timeVars, TimeInv, TypeOK, ClockNeverFast,
              CalendarAgreesWithCoarse, PusTimeEncodesCoarse, SecondDue,
              calendar
<1> QED
  BY <1>1, <1>2, <1>3, <1>4 DEF Next

(* So it holds in every reachable state.                                   *)
LEMMA TimeInvHolds == Spec => []TimeInv
<1> QED
  BY InitTimeInv, NextTimeInv, PTL DEF Spec

(* Every variable of the clock keeps its type: the calendar fields stay in *)
(* range and coarse_time stays a 32-bit number.                            *)
THEOREM TimeTypeCorrect == Spec => []TypeOK
<1>1. TimeInv => TypeOK
  BY DEF TimeInv
<1> QED
  BY <1>1, TimeInvHolds, PTL

(* The two unsigned differences never wrap around and coarse_time never    *)
(* runs ahead of the monotonic clock.                                      *)
THEOREM TimeNeverFast == Spec => []ClockNeverFast
<1>1. TimeInv => ClockNeverFast
  BY DEF TimeInv
<1> QED
  BY <1>1, TimeInvHolds, PTL

(* The housekeeping calendar and the seconds counter of the PUS time count *)
(* the same seconds.                                                       *)
THEOREM ClocksAgree == Spec => []CalendarAgreesWithCoarse
<1>1. TimeInv => CalendarAgreesWithCoarse
  BY DEF TimeInv
<1> QED
  BY <1>1, TimeInvHolds, PTL

(* The PUS header carries the big-endian coding of the seconds counter.    *)
THEOREM HeaderEncodesCoarse == Spec => []PusTimeEncodesCoarse
<1>1. TimeInv => PusTimeEncodesCoarse
  BY DEF TimeInv
<1> QED
  BY <1>1, TimeInvHolds, PTL

(* The update_time call inside update_telemetry never counts a second.     *)
THEOREM InnerCallNeverTicks == Spec => TelemetryUpdateNeverTicks
<1>1. TimeInv /\ [Next]_timeVars
        => [pc = "update_telemetry" =>
              UNCHANGED <<coarse_time, pus_time, calendar,
                          previousSecondUpdate>>]_timeVars
  <2> SUFFICES ASSUME TimeInv, Next, pc = "update_telemetry"
               PROVE  UNCHANGED <<coarse_time, pus_time, calendar,
                                  previousSecondUpdate>>
    OBVIOUS
  <2>1. update_telemetry /\ ~SecondDue
    BY DEF Next, ReadClock, update_time, TimeInv
  <2> QED
    BY <2>1 DEF update_telemetry, UpdateTelemetry, UpdateTime
<1> QED
  BY <1>1, TimeInvHolds, PTL DEF Spec, TelemetryUpdateNeverTicks

(* The clock implements the periodic timer of one second: each step of the *)
(* loop is the passing of time, a firing, or neither.                      *)
THEOREM ClockImplementsTimer == Spec => SecondTimerSpec
<1>1. Init => SecondTimer!Init
  <2> SUFFICES ASSUME Init PROVE SecondTimer!Init
    OBVIOUS
  <2>1. timeSinceBoot \in Nat /\ coarse_time - Epoch = 0
    BY EpochAssumption, HorizonAssumption, SMT DEF Init
  <2> QED
    BY <2>1 DEF Init, SecondTimer!Init
<1>2. TimeInv /\ [Next]_timeVars => [SecondTimer!Next]_SecondTimer!timerVars
  <2> SUFFICES ASSUME TimeInv, [Next]_timeVars
               PROVE  [SecondTimer!Next]_SecondTimer!timerVars
    OBVIOUS
  <2>1. CASE ReadClock
    <3>1. timeSinceBoot' \in Nat /\ timeSinceBoot' >= timeSinceBoot
      BY <2>1, HorizonAssumption, SMT DEF ReadClock, TimeInv, TypeOK
    <3> QED
      BY <2>1, <3>1 DEF ReadClock, SecondTimer!Next, SecondTimer!Pass
  <2>2. CASE update_time /\ SecondDue
    <3>1. Tick /\ UNCHANGED <<timeSinceBoot, previousTelemetryUpdate>>
      BY <2>2 DEF update_time, UpdateTime
    <3>2. coarse_time' = coarse_time + 1
      BY <2>2, <3>1, TickKeepsStep
    <3>3. coarse_time \in Int /\ Epoch \in Int
      BY EpochAssumption, SMT DEF TimeInv, TypeOK
    <3>4. (coarse_time - Epoch)' = (coarse_time - Epoch) + 1
      BY <3>2, <3>3
    <3> QED
      BY <2>2, <3>1, <3>4
         DEF Tick, SecondDue, SecondTimer!Next, SecondTimer!Fire,
             SecondTimer!Due
  <2>3. CASE update_time /\ ~SecondDue
    BY <2>3 DEF update_time, UpdateTime, SecondTimer!timerVars
  <2>4. CASE update_telemetry
    <3>1. ~SecondDue
      BY <2>4 DEF update_telemetry, TimeInv
    <3> QED
      BY <2>4, <3>1 DEF update_telemetry, UpdateTelemetry, UpdateTime,
                        SecondTimer!timerVars
  <2>5. CASE UNCHANGED timeVars
    BY <2>5 DEF timeVars, SecondTimer!timerVars
  <2> QED
    BY <2>1, <2>2, <2>3, <2>4, <2>5 DEF Next
<1> QED
  BY <1>1, <1>2, TimeInvHolds, PTL DEF Spec, SecondTimerSpec, SecondTimer!Spec
=============================================================================
