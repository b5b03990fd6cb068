-------------------------- MODULE SimulatorProofs --------------------------
(***************************************************************************)
(* The loop runs its components as their own modules describe them, for    *)
(* every value of the constants, and numbers its reports consistently.     *)
(***************************************************************************)
EXTENDS Simulator, SequenceTheorems, TLAPS

-----------------------------------------------------------------------------
(* A step of the loop is a step of the clock, or leaves the clock alone.   *)
LEMMA StepRunsClock ==
    ASSUME [Next]_simVars
    PROVE  [Clock!Next]_(Clock!timeVars)
<1> USE DEF Call, After, clockPc, clockVars, Clock!timeVars, Clock!calendar
<1>1. CASE ReadClock
  BY <1>1 DEF ReadClock, Clock!Next, Clock!ReadClock
<1>2. CASE update_time
  BY <1>2 DEF update_time, Clock!Next, Clock!update_time
<1>3. CASE update_telemetry
  BY <1>3 DEF update_telemetry, Clock!Next, Clock!update_telemetry
<1>4. CASE send_telemetry
  BY <1>4 DEF send_telemetry
<1>5. CASE check_for_tc
  BY <1>5 DEF check_for_tc
<1>6. CASE Arrive
  BY <1>6 DEF Arrive
<1>7. CASE UNCHANGED simVars
  BY <1>7 DEF simVars
<1> QED
  BY <1>1, <1>2, <1>3, <1>4, <1>5, <1>6, <1>7 DEF Next, Pass

(* Whatever else the loop does between its calls, the clock in it behaves  *)
(* as OnboardTime says.                                                    *)
THEOREM LoopRunsClock == Spec => ClockSpec
<1>1. Init => Clock!Init
  BY DEF Init
<1>2. [Next]_simVars => [Clock!Next]_(Clock!timeVars)
  BY StepRunsClock
<1> QED
  BY <1>1, <1>2, PTL DEF Spec, ClockSpec, Clock!Spec

-----------------------------------------------------------------------------
(* The socket's queue holds commands, as many as the bounds leave room for. *)
QueueInv ==
    /\ rxq \in Seq(Commands) /\ Len(rxq) <= QueueSize
    /\ handled \in Nat /\ handled + Len(rxq) <= MaxHandled

(* Taking the first command leaves a shorter queue.                        *)
LEMMA QueueTail ==
    ASSUME QueueInv, rxq # <<>>
    PROVE  /\ Head(rxq) \in Commands /\ Tail(rxq) \in Seq(Commands)
           /\ Len(Tail(rxq)) = Len(rxq) - 1 /\ Len(rxq) >= 1
BY DEF QueueInv

(* One more command lengthens it by one.                                   *)
LEMMA QueueAppend ==
    ASSUME QueueInv, NEW cmd \in Commands
    PROVE  /\ Append(rxq, cmd) \in Seq(Commands)
           /\ Len(Append(rxq, cmd)) = Len(rxq) + 1
BY DEF QueueInv

(* The loop starts with an empty queue.                                    *)
LEMMA InitQueueInv == Init => QueueInv
BY BoundsAssumption DEF Init, QueueInv, TC!Init

(* Every step keeps the queue within its bounds.                           *)
LEMMA NextQueueInv == QueueInv /\ [Next]_simVars => QueueInv'
<1> SUFFICES ASSUME QueueInv, [Next]_simVars PROVE QueueInv'
  OBVIOUS
<1>1. CASE ReadClock \/ update_time \/ update_telemetry \/ send_telemetry
           \/ UNCHANGED simVars
  <2>1. UNCHANGED <<rxq, handled>>
    BY <1>1 DEF ReadClock, update_time, update_telemetry, send_telemetry,
                simVars, linkVars, tcVars, tcHistory
  <2> QED
    BY <2>1 DEF QueueInv
<1>2. CASE check_for_tc
  <2>1. CASE rxq = <<>>
    <3>1. UNCHANGED <<rxq, handled>>
      BY <1>2, <2>1 DEF check_for_tc, tcVars, tcHistory
    <3> QED
      BY <3>1 DEF QueueInv
  <2>2. CASE rxq # <<>>
    <3>1. rxq' = Tail(rxq) /\ handled' = handled + 1
      BY <1>2, <2>2 DEF check_for_tc, TC!HandleCommand, TC!Remember
    <3> QED
      BY <2>2, <3>1, QueueTail, BoundsAssumption DEF QueueInv
  <2> QED
    BY <2>1, <2>2
<1>3. CASE Arrive
  <2>1. PICK cmd \in Commands : rxq' = Append(rxq, cmd)
    BY <1>3 DEF Arrive
  <2>2. /\ handled' = handled
        /\ Len(rxq) < QueueSize /\ handled + Len(rxq) < MaxHandled
    BY <1>3 DEF Arrive, tcVars, tcHistory
  <2>3. Len(rxq) \in Nat
    BY DEF QueueInv
  <2> QED
    BY <2>1, <2>2, <2>3, QueueAppend, BoundsAssumption DEF QueueInv
<1> QED
  BY <1>1, <1>2, <1>3 DEF Next, Pass

(* A step of the loop is a step of the command handler, or leaves it       *)
(* alone.                                                                  *)
LEMMA StepRunsCommands ==
    ASSUME QueueInv, [Next]_simVars
    PROVE  [TC!Next]_(TC!tcVars)
<1> USE DEF TC!tcVars, TC!codeVars, TC!historyVars, tcVars, tcHistory
<1>1. CASE ReadClock \/ update_time \/ update_telemetry \/ send_telemetry
           \/ Arrive \/ UNCHANGED simVars
  BY <1>1 DEF ReadClock, update_time, update_telemetry, send_telemetry,
              Arrive, simVars
<1>2. CASE check_for_tc
  <2>1. CASE rxq = <<>>
    BY <1>2, <2>1 DEF check_for_tc
  <2>2. CASE rxq # <<>>
    <3>1. TC!HandleCommand(Head(rxq))
      BY <1>2, <2>2 DEF check_for_tc
    <3>2. Head(rxq) \in Commands /\ handled < MaxHandled
      BY <2>2, QueueTail, BoundsAssumption DEF QueueInv
    <3> QED
      BY <3>1, <3>2 DEF TC!Next
  <2> QED
    BY <2>1, <2>2
<1> QED
  BY <1>1, <1>2 DEF Next, Pass

(* The loop hands every datagram to the command handler once, and changes  *)
(* the handler's state in no other way.                                    *)
THEOREM LoopRunsCommands == Spec => CommandSpec
<1>1. Init => TC!Init
  BY DEF Init
<1>2. QueueInv /\ [Next]_simVars => [TC!Next]_(TC!tcVars)
  BY StepRunsCommands
<1> QED
  BY <1>1, <1>2, InitQueueInv, NextQueueInv, PTL
     DEF Spec, CommandSpec, TC!Spec

-----------------------------------------------------------------------------
(* Reducing a number by an even modulus keeps its parity.                  *)
LEMMA ParityKept ==
    ASSUME NEW n \in Nat, NEW m \in Nat \ {0}, m % 2 = 0
    PROVE  (n % m) % 2 = n % 2
<1> DEFINE k == m \div 2
           q == n \div m
           r == n % m
<1>1. m = 2 * k /\ k \in Nat
  OBVIOUS
<1>2. n = m * q + r /\ q \in Nat /\ r \in Nat
  OBVIOUS
<1>3. PICK p \in Nat : p = k * q
  BY <1>1, <1>2
<1>4. m * q = 2 * p
  BY <1>1, <1>2, <1>3
<1>5. n = 2 * p + r
  BY <1>2, <1>4
<1> HIDE DEF k, q, r
<1>6. r % 2 = n % 2
  BY <1>2, <1>3, <1>5
<1> QED
  BY <1>6 DEF r

(* The counters' modulus is even and at least four.                        *)
LEMMA EvenCountMod == CountMod % 2 = 0 /\ CountMod \in Nat /\ CountMod >= 4
<1>1. (CountMod % SeqMod) % 2 = CountMod % 2
  BY NumbersAssumption, ParityKept
<1>2. CountMod % 2 = 0
  BY <1>1, NumbersAssumption
<1> QED
  BY <1>2, NumbersAssumption

(* The message counter is even, so that the sequence count, one ahead of   *)
(* it, never wraps between them.                                           *)
NumbersInv ==
    /\ COUNTER_3_25 \in 0..(CountMod - 1) /\ COUNTER_3_25 % 2 = 0
    /\ sp_packet_count = COUNTER_3_25 + 1
    /\ tm # NoPacket => /\ tm.seq \in 0..(SeqMod - 1)
                        /\ tm.counter \in 0..(CountMod - 1)
                        /\ tm.seq = (tm.counter + 1) % SeqMod
                        /\ tm.seq % 2 = 1

(* The first report has message counter 0 and sequence count 1.            *)
LEMMA InitNumbersInv == Init => NumbersInv
BY EvenCountMod DEF Init, NumbersInv

(* Sending a report keeps its numbers in step.                             *)
LEMMA SendKeepsNumbers ==
    ASSUME NumbersInv, Send
    PROVE  NumbersInv'
<1>1. /\ COUNTER_3_25 \in 0..(CountMod - 2) /\ COUNTER_3_25 % 2 = 0
      /\ sp_packet_count = COUNTER_3_25 + 1
      /\ sp_packet_count \in Nat /\ sp_packet_count % 2 = 1
  BY EvenCountMod DEF NumbersInv
<1>2. /\ COUNTER_3_25' = (COUNTER_3_25 + 2) % CountMod
      /\ sp_packet_count' = (sp_packet_count + 2) % CountMod
  BY DEF Send, Counted
<1>3. /\ COUNTER_3_25' \in 0..(CountMod - 1) /\ COUNTER_3_25' % 2 = 0
      /\ sp_packet_count' = COUNTER_3_25' + 1
  <2>1. CASE COUNTER_3_25 + 2 = CountMod
    <3>1. COUNTER_3_25' = 0 /\ (CountMod + 1) % CountMod = 1
      BY <1>2, <2>1, EvenCountMod
    <3>2. sp_packet_count + 2 = CountMod + 1
      BY <1>1, <2>1, EvenCountMod
    <3> QED
      BY <1>2, <3>1, <3>2, EvenCountMod
  <2>2. CASE COUNTER_3_25 + 2 < CountMod
    <3>1. COUNTER_3_25' = COUNTER_3_25 + 2
      BY <1>1, <1>2, <2>2, EvenCountMod
    <3>2. sp_packet_count + 2 < CountMod
      BY <1>1, <2>2, EvenCountMod
    <3>3. sp_packet_count' = sp_packet_count + 2
      BY <1>1, <1>2, <3>2, EvenCountMod
    <3> QED
      BY <1>1, <2>2, <3>1, <3>3, EvenCountMod
  <2> QED
    BY <1>1, <2>1, <2>2, EvenCountMod
<1>4. tm'.seq = sp_packet_count % SeqMod /\ tm'.counter = COUNTER_3_25
  BY DEF Send, Report, SequenceField
<1>5. /\ sp_packet_count % SeqMod \in 0..(SeqMod - 1)
      /\ (sp_packet_count % SeqMod) % 2 = 1
  BY <1>1, ParityKept, NumbersAssumption
<1> QED
  BY <1>1, <1>3, <1>4, <1>5, EvenCountMod DEF NumbersInv

(* No other step touches the numbers.                                      *)
LEMMA NextNumbersInv == NumbersInv /\ [Next]_simVars => NumbersInv'
<1> SUFFICES ASSUME NumbersInv, [Next]_simVars PROVE NumbersInv'
  OBVIOUS
<1>1. CASE UNCHANGED reportVars
  BY <1>1 DEF reportVars, NumbersInv, NoPacket
<1>2. CASE send_telemetry
  <2>1. Send \/ UNCHANGED reportVars
    BY <1>2 DEF send_telemetry
  <2> QED
    BY <1>1, <2>1, SendKeepsNumbers
<1>3. CASE ReadClock \/ update_time \/ update_telemetry \/ check_for_tc
           \/ Arrive \/ UNCHANGED simVars
  <2>1. UNCHANGED reportVars
    BY <1>3 DEF ReadClock, update_time, update_telemetry, check_for_tc,
                Arrive, simVars
  <2> QED
    BY <1>1, <2>1
<1> QED
  BY <1>2, <1>3 DEF Next, Pass

(* Every report has an odd sequence count, one ahead of its even message   *)
(* counter, through every wrap of either.                                  *)
THEOREM ReportsNumbered == Spec => []ReportNumbers
<1>1. NumbersInv => ReportNumbers
  BY EvenCountMod DEF NumbersInv, ReportNumbers
<1> QED
  BY <1>1, InitNumbersInv, NextNumbersInv, PTL DEF Spec

(* A multiple of the modulus does not matter to the remainder.             *)
LEMMA RemainderOfSum ==
    ASSUME NEW m \in Nat \ {0}, NEW q \in Nat, NEW s \in Nat
    PROVE  (m * q + s) % m = s % m
<1> DEFINE h == s \div m
           r == s % m
<1>1. h \in Nat /\ r \in 0..(m - 1) /\ s = m * h + r
  OBVIOUS
<1> HIDE DEF h, r
<1>2. m * q + s = m * (q + h) + r
  BY <1>1
<1>3. (m * (q + h) + r) % m = r
  BY <1>1
<1> QED
  BY <1>2, <1>3 DEF r

(* A number may be reduced before something is added to it.                *)
LEMMA AddThenReduce ==
    ASSUME NEW m \in Nat \ {0}, NEW s \in Nat, NEW d \in Nat
    PROVE  ((s % m) + d) % m = (s + d) % m
<1> DEFINE h == s \div m
           r == s % m
<1>1. h \in Nat /\ r \in Nat /\ s = m * h + r
  OBVIOUS
<1> HIDE DEF h, r
<1>2. s + d = m * h + (r + d)
  BY <1>1
<1>3. (m * h + (r + d)) % m = (r + d) % m
  <2>1. r + d \in Nat
    BY <1>1
  <2> QED
    BY ONLY m \in Nat \ {0}, <1>1, <2>1, RemainderOfSum
<1> QED
  BY ONLY <1>2, <1>3 DEF r

(* Reducing by a multiple of the modulus first makes no difference.        *)
LEMMA ReduceTwice ==
    ASSUME NEW m \in Nat \ {0}, NEW M \in Nat \ {0}, M % m = 0, NEW s \in Nat
    PROVE  (s % M) % m = s % m
<1> DEFINE k == M \div m
           h == s \div M
           r == s % M
<1>1. k \in Nat /\ M = m * k
  OBVIOUS
<1>2. h \in Nat /\ r \in Nat /\ s = M * h + r
  OBVIOUS
<1> HIDE DEF k, h, r
<1>3. PICK p \in Nat : p = k * h
  BY <1>1, <1>2
<1>4. M * h = m * p
  BY <1>1, <1>2, <1>3
<1>5. (m * p + r) % m = r % m
  BY ONLY m \in Nat \ {0}, <1>2, <1>3, RemainderOfSum
<1>6. s = m * p + r
  BY <1>2, <1>4
<1> QED
  BY ONLY <1>5, <1>6 DEF r

(* The count kept is, in its field, the next one to be sent.               *)
NextSeqInv ==
    tm # NoPacket => sp_packet_count % SeqMod = (tm.seq + 2) % SeqMod

(* A report is none that has not been sent.                                *)
LEMMA ReportIsPacket == Report # NoPacket
<1>1. Report.type # NoPacket.type
  BY DEF Report, NoPacket
<1> QED
  BY <1>1

(* A report takes the count kept and leaves the one after the next.        *)
LEMMA SendTakesNumber ==
    ASSUME NumbersInv, NextSeqInv, Send
    PROVE  /\ tm'.seq = IF tm = NoPacket THEN sp_packet_count % SeqMod
                        ELSE (tm.seq + 2) % SeqMod
           /\ NextSeqInv'
<1>1. sp_packet_count \in Nat /\ tm'.seq = sp_packet_count % SeqMod
  BY EvenCountMod DEF NumbersInv, Send, Report, SequenceField
<1>2. sp_packet_count' % SeqMod = (sp_packet_count + 2) % SeqMod
  <2>1. /\ SeqMod \in Nat \ {0} /\ CountMod \in Nat \ {0}
        /\ CountMod % SeqMod = 0 /\ sp_packet_count + 2 \in Nat
    BY <1>1, EvenCountMod, NumbersAssumption
  <2>2. ((sp_packet_count + 2) % CountMod) % SeqMod
          = (sp_packet_count + 2) % SeqMod
    BY ONLY <2>1, ReduceTwice
  <2> QED
    BY <2>2 DEF Send, Counted
<1>3. sp_packet_count' % SeqMod = (tm'.seq + 2) % SeqMod
  <2>1. ((sp_packet_count % SeqMod) + 2) % SeqMod
          = (sp_packet_count + 2) % SeqMod
    BY <1>1, AddThenReduce, NumbersAssumption
  <2> QED
    BY <1>1, <1>2, <2>1
<1> QED
  BY <1>1, <1>3 DEF NextSeqInv

(* Two reports in a row are numbered two apart, through every wrap: to the *)
(* continuity check each of them looks as if one before it had been lost.  *)
THEOREM ReportsTwoApart == Spec => SequenceStepsByTwo
<1> DEFINE First == tm = NoPacket => sp_packet_count = 1
           Step == tm' # tm =>
                     tm'.seq = IF tm = NoPacket THEN 1
                               ELSE (tm.seq + 2) % SeqMod
<1>1. Init => NextSeqInv /\ First
  BY DEF Init, NextSeqInv
<1>2. NumbersInv /\ NextSeqInv /\ First /\ [Next]_simVars
        => NextSeqInv' /\ First' /\ Step
  <2> SUFFICES ASSUME NumbersInv, NextSeqInv, First, [Next]_simVars
               PROVE  NextSeqInv' /\ First' /\ Step
    OBVIOUS
  <2>1. CASE UNCHANGED reportVars
    BY <2>1 DEF reportVars, NextSeqInv, NoPacket
  <2>2. CASE Send
    <3>1. 1 % SeqMod = 1
      BY NumbersAssumption
    <3>2. tm' # NoPacket'
      BY <2>2, ReportIsPacket DEF Send, NoPacket
    <3> QED
      BY <2>2, <3>1, <3>2, SendTakesNumber
  <2>3. Send \/ UNCHANGED reportVars
    BY DEF Next, Pass, ReadClock, update_time, update_telemetry,
           send_telemetry, check_for_tc, Arrive, simVars
  <2> QED
    BY <2>1, <2>2, <2>3
<1> HIDE DEF First
<1> QED
  BY <1>1, <1>2, InitNumbersInv, NextNumbersInv, PTL
     DEF Spec, SequenceStepsByTwo

-----------------------------------------------------------------------------
(* What each call has done by the time the next one is reached.            *)
SecondQuiet ==
    timeSinceBoot - previousSecondUpdate < SecondUpdate_Interval
TelemetryQuiet ==
    timeSinceBoot - previousTelemetryUpdate < TelemetryUpdate_Interval
SendQuiet == timeSinceBoot - previousTMSendMillis < TelemetrySend_Interval

TimersInv ==
    /\ pc \in {"read", "update_time", "update_telemetry", "send_telemetry",
               "check_for_tc"}
    /\ link_up \in BOOLEAN
    /\ timeSinceBoot \in 0..MaxTime
    /\ previousSecondUpdate \in 0..MaxTime
    /\ previousTelemetryUpdate \in 0..MaxTime
    /\ previousTMSendMillis \in 0..MaxTime
    /\ pc \in {"update_telemetry", "send_telemetry", "check_for_tc"}
         => SecondQuiet
    /\ pc \in {"send_telemetry", "check_for_tc"} => TelemetryQuiet
    /\ pc = "check_for_tc" => SendQuiet

(* simulator_init starts all timers at zero.                               *)
LEMMA InitTimersInv == Init => TimersInv
BY BoundsAssumption
   DEF Init, TimersInv, Clock!Init, SecondQuiet, TelemetryQuiet, SendQuiet

(* Whether or not a second is due, update_time leaves none due.            *)
LEMMA UpdateTimeQuiets ==
    ASSUME TimersInv, Clock!UpdateTime, UNCHANGED timeSinceBoot
    PROVE  SecondQuiet' /\ previousSecondUpdate' \in 0..MaxTime
<1>1. CASE Clock!SecondDue
  <2>1. previousSecondUpdate' = timeSinceBoot
    BY <1>1 DEF Clock!UpdateTime, Clock!Tick
  <2> QED
    BY <2>1, IntervalsAssumption, BoundsAssumption DEF TimersInv, SecondQuiet
<1>2. CASE ~Clock!SecondDue
  <2>1. previousSecondUpdate' = previousSecondUpdate
    BY <1>2 DEF Clock!UpdateTime
  <2>2. SecondQuiet
    BY <1>2, IntervalsAssumption, BoundsAssumption
       DEF Clock!SecondDue, SecondQuiet, TimersInv
  <2> QED
    BY <2>1, <2>2 DEF TimersInv, SecondQuiet
<1> QED
  BY <1>1, <1>2

(* Each call preserves what the calls before it have established.          *)
LEMMA NextTimersInv == TimersInv /\ [Next]_simVars => TimersInv'
<1> SUFFICES ASSUME TimersInv, [Next]_simVars PROVE TimersInv'
  OBVIOUS
<1> USE DEF Call, After, clockVars, reportVars, linkVars
<1>1. CASE ReadClock
  <2>1. /\ pc' = "update_time" /\ timeSinceBoot' \in 0..MaxTime
        /\ UNCHANGED <<link_up, clockVars, reportVars>>
    BY <1>1, BoundsAssumption DEF ReadClock, TimersInv
  <2> QED
    BY <2>1 DEF TimersInv
<1>2. CASE update_time
  <2>1. /\ pc' = "update_telemetry" /\ Clock!UpdateTime
        /\ UNCHANGED <<timeSinceBoot, previousTelemetryUpdate, link_up,
                       reportVars>>
    BY <1>2 DEF update_time
  <2>2. SecondQuiet' /\ previousSecondUpdate' \in 0..MaxTime
    BY <2>1, UpdateTimeQuiets
  <2> QED
    BY <2>1, <2>2 DEF TimersInv
<1>3. CASE update_telemetry
  <2>1. /\ pc = "update_telemetry" /\ pc' = "send_telemetry"
        /\ Clock!UpdateTelemetry
        /\ UNCHANGED <<timeSinceBoot, link_up, reportVars>>
    BY <1>3 DEF update_telemetry
  <2>2. CASE Clock!TelemetryDue
    <3>1. Clock!UpdateTime /\ previousTelemetryUpdate' = timeSinceBoot
      BY <2>1, <2>2 DEF Clock!UpdateTelemetry
    <3>2. SecondQuiet' /\ previousSecondUpdate' \in 0..MaxTime
      BY <2>1, <3>1, UpdateTimeQuiets
    <3>3. TelemetryQuiet'
      BY <2>1, <3>1, IntervalsAssumption, BoundsAssumption
         DEF TelemetryQuiet, TimersInv
    <3> QED
      BY <2>1, <3>1, <3>2, <3>3 DEF TimersInv
  <2>3. CASE ~Clock!TelemetryDue
    <3>1. UNCHANGED <<previousSecondUpdate, previousTelemetryUpdate>>
      BY <2>1, <2>3 DEF Clock!UpdateTelemetry
    <3>2. TelemetryQuiet
      BY <2>3, IntervalsAssumption, BoundsAssumption
         DEF Clock!TelemetryDue, TelemetryQuiet, TimersInv
    <3> QED
      BY <2>1, <3>1, <3>2 DEF TimersInv, SecondQuiet, TelemetryQuiet
  <2> QED
    BY <2>2, <2>3
<1>4. CASE send_telemetry
  <2>1. /\ pc = "send_telemetry" /\ pc' = "check_for_tc"
        /\ UNCHANGED <<timeSinceBoot, clockVars, link_up>>
    BY <1>4 DEF send_telemetry
  <2>2. SendQuiet' /\ previousTMSendMillis' \in 0..MaxTime
    <3>1. CASE SendDue
      <4>1. previousTMSendMillis' = timeSinceBoot
        BY <1>4, <3>1 DEF send_telemetry, Send
      <4>2. TelemetrySend_Interval \in Nat /\ TelemetrySend_Interval > 0
        BY IntervalsAssumption
      <4> QED
        BY <2>1, <4>1, <4>2, BoundsAssumption DEF SendQuiet, TimersInv
    <3>2. CASE ~SendDue
      <4>1. previousTMSendMillis' = previousTMSendMillis
        BY <1>4, <3>2 DEF send_telemetry
      <4> QED
        BY <2>1, <3>2, <4>1, IntervalsAssumption, BoundsAssumption
           DEF SendDue, SendQuiet, TimersInv
    <3> QED
      BY <3>1, <3>2
  <2> QED
    BY <2>1, <2>2 DEF TimersInv, SecondQuiet, TelemetryQuiet
<1>5. CASE check_for_tc
  <2>1. /\ pc' = "read"
        /\ UNCHANGED <<timeSinceBoot, clockVars, link_up, reportVars>>
    BY <1>5 DEF check_for_tc
  <2> QED
    BY <2>1 DEF TimersInv
<1>6. CASE Arrive \/ UNCHANGED simVars
  <2>1. UNCHANGED <<pc, timeSinceBoot, clockVars, link_up, reportVars>>
    BY <1>6 DEF Arrive, simVars
  <2> QED
    BY <2>1 DEF TimersInv, SecondQuiet, TelemetryQuiet, SendQuiet
<1> QED
  BY <1>1, <1>2, <1>3, <1>4, <1>5, <1>6 DEF Next, Pass

(* However late a pass comes, when it reaches the commands it has done     *)
(* everything that was due at the time it read.                            *)
THEOREM TimersServed == Spec => []NothingDueAfterTimers
<1>1. TimersInv => NothingDueAfterTimers
  BY DEF TimersInv, NothingDueAfterTimers, SecondQuiet, TelemetryQuiet,
         SendQuiet
<1> QED
  BY <1>1, InitTimersInv, NextTimersInv, PTL DEF Spec

(* The loop's own variables keep their types: the queue its bounds, the    *)
(* counters their widths.                                                  *)
THEOREM LoopTypeCorrect == Spec => []TypeOK
<1>1. TimersInv /\ QueueInv /\ NumbersInv => TypeOK
  BY EvenCountMod DEF TimersInv, QueueInv, NumbersInv, TypeOK
<1> QED
  BY <1>1, InitTimersInv, NextTimersInv, InitQueueInv, NextQueueInv,
     InitNumbersInv, NextNumbersInv, PTL DEF Spec

-----------------------------------------------------------------------------
(* The clock's lemmas, with the loop's position mapped to the clock's.     *)
CP == INSTANCE OnboardTimeProofs WITH pc <- clockPc

(* The simulator's constants satisfy what the clock assumes of its own.    *)
LEMMA ClockAssumptions ==
    /\ CP!IntervalsAssumption /\ CP!EpochAssumption
    /\ CP!CalendarAssumption /\ CP!HorizonAssumption
BY IntervalsAssumption, ClockAssumption, BoundsAssumption
   DEF CP!IntervalsAssumption, CP!EpochAssumption, CP!CalendarAssumption,
       CP!HorizonAssumption

(* The seconds counter when the last report was made, counted from the     *)
(* epoch.                                                                  *)
LastTime == IF tm = NoPacket THEN 0 ELSE Elapsed(tm.time)

(* A second counted after the last report is one that the report does not  *)
(* show.                                                                   *)
DatesInv ==
    /\ CP!TimeInv
    /\ LastTime \in Int
    /\ coarse_time - Epoch >= LastTime
    /\ previousSecondUpdate > previousTMSendMillis
         => coarse_time - Epoch > LastTime

(* At first there is no report and the clock shows the epoch.              *)
LEMMA InitDatesInv == Init => DatesInv
<1> SUFFICES ASSUME Init PROVE DatesInv
  OBVIOUS
<1>1. CP!TimeInv
  <2>1. CP!Init
    BY DEF Init, Clock!Init, CP!Init
  <2> QED
    BY <2>1, ClockAssumptions, CP!InitTimeInv
       DEF CP!InitTimeInv, CP!IntervalsAssumption, CP!EpochAssumption,
           CP!CalendarAssumption, CP!HorizonAssumption
<1>2. /\ LastTime = 0 /\ coarse_time = Epoch
      /\ previousSecondUpdate = 0 /\ previousTMSendMillis = 0
  BY DEF Init, Clock!Init, LastTime
<1>3. Epoch \in Nat
  BY ClockAssumption
<1> QED
  BY <1>1, <1>2, <1>3 DEF DatesInv

(* A step of the loop keeps the clock's invariant.                         *)
LEMMA StepKeepsClock == CP!TimeInv /\ [Next]_simVars => CP!TimeInv'
<1> SUFFICES ASSUME CP!TimeInv, [Next]_simVars PROVE CP!TimeInv'
  OBVIOUS
<1>1. [Clock!Next]_(Clock!timeVars)
  BY StepRunsClock
<1>2. [CP!Next]_(CP!timeVars)
  BY <1>1
     DEF Clock!Next, CP!Next, Clock!timeVars, CP!timeVars, Clock!calendar,
         CP!calendar, Clock!ReadClock, CP!ReadClock, Clock!update_time,
         CP!update_time, Clock!update_telemetry, CP!update_telemetry,
         Clock!UpdateTime, CP!UpdateTime, Clock!UpdateTelemetry,
         CP!UpdateTelemetry, Clock!Tick, CP!Tick, Clock!SecondDue,
         CP!SecondDue, Clock!TelemetryDue, CP!TelemetryDue,
         Clock!BigEndian, CP!BigEndian, Clock!NextSecond, CP!NextSecond,
         Clock!CarryMinute, CP!CarryMinute, Clock!CarryHour, CP!CarryHour
<1> QED
  BY <1>2, ClockAssumptions, CP!NextTimeInv
     DEF CP!NextTimeInv, CP!IntervalsAssumption, CP!EpochAssumption,
         CP!CalendarAssumption, CP!HorizonAssumption

(* What the clock's invariant says of the loop's variables.                *)
LEMMA ClockFacts ==
    ASSUME CP!TimeInv
    PROVE  /\ coarse_time \in Int /\ Epoch \in Int
           /\ previousSecondUpdate \in Nat
           /\ previousSecondUpdate <= timeSinceBoot
           /\ Elapsed(<<DAY, HOUR, MINUTE, SECOND>>) = coarse_time - Epoch
<1>1. coarse_time \in Int /\ Epoch \in Int /\ previousSecondUpdate \in Nat
  BY ClockAssumption, BoundsAssumption DEF CP!TimeInv, CP!TypeOK
<1>2. previousSecondUpdate <= timeSinceBoot
  BY DEF CP!TimeInv, CP!ClockNeverFast
<1>3. Elapsed(<<DAY, HOUR, MINUTE, SECOND>>) = coarse_time - Epoch
  BY DEF CP!TimeInv, CP!CalendarAgreesWithCoarse, Elapsed, CP!Seconds,
         Clock!Seconds
<1> QED
  BY <1>1, <1>2, <1>3

(* Whatever update_time does, it keeps what was said of the last report.   *)
LEMMA UpdateKeepsDates ==
    ASSUME DatesInv, CP!TimeInv', Clock!UpdateTime,
           previousTelemetryUpdate' \in {previousTelemetryUpdate,
                                         timeSinceBoot},
           UNCHANGED <<timeSinceBoot, reportVars>>
    PROVE  DatesInv'
<1>1. LastTime' = LastTime /\ UNCHANGED previousTMSendMillis
  BY DEF LastTime, reportVars, NoPacket, Elapsed, Clock!Seconds
<1>2. LastTime \in Int /\ coarse_time \in Int /\ Epoch \in Int
  BY ClockFacts DEF DatesInv
<1>3. CASE Clock!SecondDue
  <2>1. CP!SecondDue /\ CP!Tick
    BY <1>3 DEF Clock!UpdateTime, Clock!SecondDue, CP!SecondDue, Clock!Tick,
                CP!Tick, Clock!BigEndian, CP!BigEndian, Clock!NextSecond,
                CP!NextSecond, Clock!CarryMinute, CP!CarryMinute,
                Clock!CarryHour, CP!CarryHour
  <2>2. coarse_time' = coarse_time + 1
    BY <2>1, ClockAssumptions, CP!TickKeepsStep
       DEF DatesInv, CP!TickKeepsStep, CP!IntervalsAssumption,
           CP!EpochAssumption, CP!CalendarAssumption, CP!HorizonAssumption
  <2>3. coarse_time' - Epoch > LastTime
    BY <1>2, <2>2 DEF DatesInv
  <2> QED
    BY <1>1, <1>2, <2>2, <2>3 DEF DatesInv
<1>4. CASE ~Clock!SecondDue
  <2>1. UNCHANGED <<coarse_time, previousSecondUpdate>>
    BY <1>4 DEF Clock!UpdateTime
  <2> QED
    BY <1>1, <2>1 DEF DatesInv
<1> QED
  BY <1>3, <1>4

(* A report that is sent has a second counted since the one before it, for *)
(* no second is due when it is, and it is due no sooner than a second.     *)
LEMMA SentLater ==
    ASSUME DatesInv, TimersInv, Call("send_telemetry"), SendDue, Send,
           UNCHANGED <<timeSinceBoot, clockVars>>
    PROVE  /\ tm' # NoPacket /\ LastTime' = coarse_time - Epoch
           /\ Elapsed(tm'.time) > LastTime
           /\ previousTMSendMillis' = timeSinceBoot
<1>1. tm'.type = <<3, 25>> /\ tm'.time = <<DAY, HOUR, MINUTE, SECOND>>
  BY DEF Send, Report
<1>2. tm' # NoPacket
  BY <1>1 DEF NoPacket
<1>3. Elapsed(tm'.time) = coarse_time - Epoch
  BY <1>1, ClockFacts DEF DatesInv
<1>4. LastTime' = coarse_time - Epoch
  <2>1. LastTime' = Elapsed(tm'.time)
    BY <1>2 DEF LastTime, Elapsed, Clock!Seconds, NoPacket
  <2> QED
    BY <1>3, <2>1
<1>5. previousSecondUpdate > previousTMSendMillis
  <2>1. /\ timeSinceBoot - previousSecondUpdate < SecondUpdate_Interval
        /\ timeSinceBoot \in Int /\ previousSecondUpdate \in Int
        /\ previousTMSendMillis \in Int
    BY BoundsAssumption DEF TimersInv, SecondQuiet, Call
  <2> QED
    BY <2>1, IntervalsAssumption DEF SendDue
<1> QED
  BY <1>2, <1>3, <1>4, <1>5 DEF DatesInv, Send

(* Each call keeps what is known of the last report's date.                *)
LEMMA NextDatesInv ==
    DatesInv /\ TimersInv /\ [Next]_simVars => DatesInv'
<1> SUFFICES ASSUME DatesInv, TimersInv, [Next]_simVars PROVE DatesInv'
  OBVIOUS
<1>0. CP!TimeInv'
  BY StepKeepsClock DEF DatesInv
<1>1. CASE update_time
  BY <1>0, <1>1, UpdateKeepsDates DEF update_time
<1>2. CASE update_telemetry
  <2>1. CASE Clock!TelemetryDue
    BY <1>0, <1>2, <2>1, UpdateKeepsDates
       DEF update_telemetry, Clock!UpdateTelemetry
  <2>2. CASE ~Clock!TelemetryDue
    <3>1. UNCHANGED <<coarse_time, previousSecondUpdate, reportVars>>
      BY <1>2, <2>2 DEF update_telemetry, Clock!UpdateTelemetry
    <3> QED
      BY <1>0, <3>1 DEF DatesInv, LastTime, reportVars, NoPacket, Elapsed,
                        Clock!Seconds
  <2> QED
    BY <2>1, <2>2
<1>3. CASE send_telemetry /\ SendDue
  <2>1. /\ LastTime' = coarse_time - Epoch
        /\ previousTMSendMillis' = timeSinceBoot
        /\ UNCHANGED <<coarse_time, previousSecondUpdate>>
    BY <1>3, SentLater DEF send_telemetry, clockVars
  <2>2. /\ coarse_time \in Int /\ Epoch \in Int
        /\ previousSecondUpdate \in Nat /\ timeSinceBoot \in Int
        /\ previousSecondUpdate <= timeSinceBoot
    BY ClockFacts, BoundsAssumption DEF DatesInv, TimersInv
  <2> QED
    BY <1>0, <2>1, <2>2 DEF DatesInv
<1>4. CASE \/ ReadClock \/ check_for_tc \/ Arrive
           \/ send_telemetry /\ ~SendDue
           \/ UNCHANGED simVars
  <2>1. UNCHANGED <<coarse_time, previousSecondUpdate, reportVars>>
    BY <1>4 DEF ReadClock, check_for_tc, Arrive, send_telemetry, simVars,
                clockVars
  <2> QED
    BY <1>0, <2>1 DEF DatesInv, LastTime, reportVars, NoPacket, Elapsed,
                      Clock!Seconds
<1> QED
  BY <1>1, <1>2, <1>3, <1>4 DEF Next, Pass

(* However late passes come, no report carries the time of another: a      *)
(* second has been counted between any two.                                *)
THEOREM ReportsDated == Spec => ReportTimesAdvance
<1>1. DatesInv /\ TimersInv /\ [Next]_simVars
        => [tm' # tm => Elapsed(tm'.time) > IF tm = NoPacket THEN 0
                                            ELSE Elapsed(tm.time)]_simVars
  <2> SUFFICES ASSUME DatesInv, TimersInv, Next, tm' # tm
               PROVE  Elapsed(tm'.time) > IF tm = NoPacket THEN 0
                                          ELSE Elapsed(tm.time)
    OBVIOUS
  <2>1. send_telemetry /\ SendDue
    BY DEF Next, Pass, ReadClock, update_time, update_telemetry,
           send_telemetry, check_for_tc, Arrive, reportVars
  <2> QED
    BY <2>1, SentLater DEF send_telemetry, LastTime
<1> QED
  BY <1>1, InitDatesInv, NextDatesInv, InitTimersInv, NextTimersInv, PTL
     DEF Spec, ReportTimesAdvance

-----------------------------------------------------------------------------
(* The reports sent so far have taken their intervals, as long as the      *)
(* message counter tells how many there were.                              *)
Sent == COUNTER_3_25 \div 2

BeaconInv ==
    /\ Sent * TelemetrySend_Interval <= previousTMSendMillis
    /\ previousTMSendMillis <= timeSinceBoot

(* A horizon within which the counter does not wrap: 18 hours in the code. *)
Horizon == MaxTime < (CountMod \div 2) * TelemetrySend_Interval

(* Products and intervals.                                                 *)
LEMMA OneMoreReport ==
    ASSUME NEW n \in Nat, NEW i \in Nat
    PROVE  (n + 1) * i = n * i + i /\ n * i \in Nat
OBVIOUS

(* Of two products with the same factor the smaller has the smaller other  *)
(* factor.                                                                 *)
LEMMA FewerReports ==
    ASSUME NEW m \in Nat, NEW n \in Nat, NEW i \in Nat, m * i < n * i
    PROVE  m < n
<1> SUFFICES ASSUME m >= n PROVE m * i >= n * i
  <2>1. m * i \in Nat /\ n * i \in Nat
    OBVIOUS
  <2> QED
    BY <2>1
<1>1. PICK d \in Nat : m = n + d
  OBVIOUS
<1>2. m * i = n * i + d * i /\ n * i \in Nat /\ d * i \in Nat
  BY <1>1
<1> QED
  BY <1>2

(* At first no report has been sent.                                       *)
LEMMA InitBeaconInv == Init => BeaconInv
<1> SUFFICES ASSUME Init PROVE BeaconInv
  OBVIOUS
<1>1. Sent = 0 /\ previousTMSendMillis = 0 /\ timeSinceBoot \in Nat
  BY BoundsAssumption DEF Init, Clock!Init, Sent
<1>2. 0 * TelemetrySend_Interval = 0
  BY IntervalsAssumption
<1> QED
  BY <1>1, <1>2 DEF BeaconInv

(* A report moves the counter by two without a wrap, and so the count of   *)
(* reports by one.                                                         *)
LEMMA OneReport ==
    ASSUME Horizon, BeaconInv, NumbersInv, TimersInv, SendDue, Send
    PROVE  /\ Sent \in Nat /\ Sent' = Sent + 1
           /\ (Sent + 1) * TelemetrySend_Interval <= timeSinceBoot
<1>1. /\ COUNTER_3_25 \in Nat /\ COUNTER_3_25 % 2 = 0
      /\ COUNTER_3_25 < CountMod
  BY EvenCountMod DEF NumbersInv
<1>2. Sent \in Nat /\ COUNTER_3_25 = 2 * Sent
  BY <1>1 DEF Sent
<1>3. (Sent + 1) * TelemetrySend_Interval
        = Sent * TelemetrySend_Interval + TelemetrySend_Interval
  BY <1>2, OneMoreReport, IntervalsAssumption
<1>4. (Sent + 1) * TelemetrySend_Interval <= timeSinceBoot
  <2>1. /\ TelemetrySend_Interval \in Nat /\ timeSinceBoot \in Nat
        /\ previousTMSendMillis \in Nat
        /\ Sent * TelemetrySend_Interval \in Nat
    BY <1>2, OneMoreReport, IntervalsAssumption, BoundsAssumption
       DEF TimersInv
  <2> QED
    BY <1>3, <2>1 DEF BeaconInv, SendDue
<1>5. PICK k : k = CountMod \div 2
  OBVIOUS
<1>6. k \in Nat /\ CountMod = 2 * k
  BY <1>5, EvenCountMod
<1>7. Sent + 1 < k
  <2>1. PICK a : a = (Sent + 1) * TelemetrySend_Interval
    OBVIOUS
  <2>2. PICK b : b = k * TelemetrySend_Interval
    OBVIOUS
  <2>3. a \in Nat /\ b \in Nat
    BY <1>2, <1>6, <2>1, <2>2, IntervalsAssumption, OneMoreReport
  <2>4. a < b
    <3>1. timeSinceBoot \in 0..MaxTime /\ MaxTime \in Nat
      BY BoundsAssumption DEF TimersInv
    <3>2. MaxTime < b
      BY <1>5, <2>2 DEF Horizon
    <3> QED
      BY <1>4, <2>1, <2>3, <3>1, <3>2
  <2> QED
    BY <1>2, <1>6, <2>1, <2>2, <2>4, FewerReports, IntervalsAssumption
<1>8. COUNTER_3_25' = COUNTER_3_25 + 2
  <2>1. COUNTER_3_25 + 2 < CountMod
    BY <1>2, <1>6, <1>7
  <2> QED
    BY <1>1, <2>1, EvenCountMod DEF Send, Counted
<1>9. Sent' = Sent + 1
  BY <1>1, <1>2, <1>8 DEF Sent
<1> QED
  BY <1>2, <1>4, <1>9

(* A step of the loop sends a report when one is due, or lets time pass,   *)
(* or does neither.                                                        *)
LEMMA StepIsTimer ==
    ASSUME [Next]_simVars, TimersInv
    PROVE  \/ SendDue /\ Send /\ UNCHANGED timeSinceBoot
           \/ /\ UNCHANGED reportVars
              /\ timeSinceBoot' \in Nat /\ timeSinceBoot' >= timeSinceBoot
<1>1. timeSinceBoot \in Nat
  BY BoundsAssumption DEF TimersInv
<1>2. CASE ReadClock
  BY <1>1, <1>2, BoundsAssumption DEF ReadClock
<1>3. CASE send_telemetry
  BY <1>1, <1>3 DEF send_telemetry
<1>4. CASE update_time \/ update_telemetry \/ check_for_tc \/ Arrive
           \/ UNCHANGED simVars
  <2>1. UNCHANGED <<timeSinceBoot, reportVars>>
    BY <1>4 DEF update_time, update_telemetry, check_for_tc, Arrive, simVars
  <2> QED
    BY <1>1, <2>1
<1> QED
  BY <1>2, <1>3, <1>4 DEF Next, Pass

(* A report takes an interval, and nothing else counts one.                *)
LEMMA NextBeaconInv ==
    ASSUME Horizon
    PROVE  BeaconInv /\ NumbersInv /\ TimersInv /\ [Next]_simVars
             => BeaconInv'
<1> SUFFICES ASSUME BeaconInv, NumbersInv, TimersInv, [Next]_simVars
             PROVE  BeaconInv'
  OBVIOUS
<1>1. CASE SendDue /\ Send /\ UNCHANGED timeSinceBoot
  <2>1. previousTMSendMillis' = timeSinceBoot /\ timeSinceBoot \in Nat
    BY <1>1, BoundsAssumption DEF Send, TimersInv
  <2>2. Sent' = Sent + 1
        /\ (Sent + 1) * TelemetrySend_Interval <= timeSinceBoot
    BY <1>1, OneReport
  <2> QED
    BY <1>1, <2>1, <2>2 DEF BeaconInv
<1>2. CASE /\ UNCHANGED reportVars
           /\ timeSinceBoot' \in Nat /\ timeSinceBoot' >= timeSinceBoot
  <2>1. UNCHANGED <<Sent, previousTMSendMillis>>
    BY <1>2 DEF reportVars, Sent
  <2>2. previousTMSendMillis \in Nat /\ timeSinceBoot \in Nat
    BY BoundsAssumption DEF TimersInv
  <2> QED
    BY <1>2, <2>1, <2>2 DEF BeaconInv
<1> QED
  BY <1>1, <1>2, StepIsTimer

(* Until the message counter wraps, the reports are a periodic timer of    *)
(* the monotonic clock.                                                    *)
THEOREM LoopIsBeacon ==
    ASSUME Horizon
    PROVE  Spec => BeaconSpec
<1>1. Init => Beacon!Init
  BY BoundsAssumption DEF Init, Clock!Init, Beacon!Init
<1>2. BeaconInv /\ NumbersInv /\ TimersInv /\ [Next]_simVars
        => [Beacon!Next]_(Beacon!timerVars)
  <2> SUFFICES ASSUME BeaconInv, NumbersInv, TimersInv, [Next]_simVars
               PROVE  [Beacon!Next]_(Beacon!timerVars)
    OBVIOUS
  <2>1. CASE SendDue /\ Send /\ UNCHANGED timeSinceBoot
    <3>1. Sent' = Sent + 1
      BY <2>1, OneReport
    <3> QED
      BY <2>1, <3>1 DEF Send, SendDue, Sent, Beacon!Next, Beacon!Fire,
                        Beacon!Due
  <2>2. CASE /\ UNCHANGED reportVars
             /\ timeSinceBoot' \in Nat /\ timeSinceBoot' >= timeSinceBoot
    BY <2>2 DEF reportVars, Beacon!Next, Beacon!Pass
  <2> QED
    BY <2>1, <2>2, StepIsTimer
<1> QED
  BY <1>1, <1>2, InitBeaconInv, NextBeaconInv, InitNumbersInv,
     NextNumbersInv, InitTimersInv, NextTimersInv, PTL
     DEF Spec, BeaconSpec, Beacon!Spec

-----------------------------------------------------------------------------
(* The queue as the satellite sees it.                                     *)
Counts(q) == [i \in 1..Len(q) |-> q[i][1] \div 16 = 1]

(* Taking the first command, or adding one, does so in both views.         *)
LEMMA CountsTail ==
    ASSUME NEW q \in Seq(Commands), q # <<>>
    PROVE  /\ Counts(q) # <<>> /\ Head(Counts(q)) = (Head(q)[1] \div 16 = 1)
           /\ Tail(Counts(q)) = Counts(Tail(q))
<1>1. Len(q) \in Nat /\ Len(q) >= 1 /\ Head(q) = q[1]
  OBVIOUS
<1>2. Counts(q) \in Seq(BOOLEAN) /\ Len(Counts(q)) = Len(q)
  BY <1>1 DEF Counts
<1>3. Counts(q) # <<>>
  BY <1>1, <1>2
<1>4. Head(Counts(q)) = Counts(q)[1]
  BY <1>2, <1>3
<1>5. Counts(q)[1] = (q[1][1] \div 16 = 1)
  BY <1>1 DEF Counts
<1>6. /\ Tail(q) \in Seq(Commands) /\ Len(Tail(q)) = Len(q) - 1
      /\ \A i \in 1..(Len(q) - 1) : Tail(q)[i] = q[i + 1]
  BY <1>1
<1>7. /\ Tail(Counts(q)) \in Seq(BOOLEAN)
      /\ Len(Tail(Counts(q))) = Len(q) - 1
      /\ \A i \in 1..(Len(q) - 1) : Tail(Counts(q))[i] = Counts(q)[i + 1]
  BY <1>1, <1>2, <1>3
<1>8. /\ Counts(Tail(q)) \in Seq(BOOLEAN)
      /\ Len(Counts(Tail(q))) = Len(q) - 1
  BY <1>1, <1>6 DEF Counts
<1>9. \A i \in 1..(Len(q) - 1) : Counts(Tail(q))[i] = Counts(q)[i + 1]
  <2> TAKE i \in 1..(Len(q) - 1)
  <2>1. Counts(Tail(q))[i] = (Tail(q)[i][1] \div 16 = 1)
    BY <1>6 DEF Counts
  <2>2. i + 1 \in 1..Len(q)
    BY <1>1
  <2>3. Counts(q)[i + 1] = (q[i + 1][1] \div 16 = 1)
    BY <2>2 DEF Counts
  <2> QED
    BY <1>6, <2>1, <2>3
<1>10. Tail(Counts(q)) = Counts(Tail(q))
  BY <1>7, <1>8, <1>9, SeqEqual
<1> QED
  BY <1>1, <1>3, <1>4, <1>5, <1>10

(* One more command is one more in both views.                             *)
LEMMA CountsAppend ==
    ASSUME NEW q \in Seq(Commands), NEW cmd \in Commands
    PROVE  /\ Len(Counts(q)) = Len(q)
           /\ Counts(Append(q, cmd)) = Append(Counts(q), cmd[1] \div 16 = 1)
<1> DEFINE counted == (cmd[1] \div 16 = 1)
           longer == Append(q, cmd)
<1>1. Len(q) \in Nat /\ counted \in BOOLEAN
  OBVIOUS
<1>2. Counts(q) \in Seq(BOOLEAN) /\ Len(Counts(q)) = Len(q)
  BY <1>1 DEF Counts
<1>3. /\ longer \in Seq(Commands) /\ Len(longer) = Len(q) + 1
      /\ longer[Len(q) + 1] = cmd
      /\ \A i \in 1..Len(q) : longer[i] = q[i]
  OBVIOUS
<1>4. Counts(longer) \in Seq(BOOLEAN) /\ Len(Counts(longer)) = Len(q) + 1
  BY <1>1, <1>3 DEF Counts
<1>5. /\ Append(Counts(q), counted) \in Seq(BOOLEAN)
      /\ Len(Append(Counts(q), counted)) = Len(q) + 1
      /\ Append(Counts(q), counted)[Len(q) + 1] = counted
      /\ \A i \in 1..Len(q) :
            Append(Counts(q), counted)[i] = Counts(q)[i]
  <2> HIDE DEF counted
  <2> QED
    BY <1>1, <1>2
<1>6. \A i \in 1..(Len(q) + 1) :
         Counts(longer)[i] = Append(Counts(q), counted)[i]
  <2> TAKE i \in 1..(Len(q) + 1)
  <2>1. Counts(longer)[i] = (longer[i][1] \div 16 = 1)
    BY <1>3 DEF Counts
  <2>2. CASE i = Len(q) + 1
    BY <1>3, <1>5, <2>1, <2>2
  <2>3. CASE i # Len(q) + 1
    <3>1. i \in 1..Len(q)
      BY <1>1, <2>3
    <3>2. Counts(q)[i] = (q[i][1] \div 16 = 1)
      BY <3>1 DEF Counts
    <3> QED
      BY <1>3, <1>5, <2>1, <3>1, <3>2
  <2> QED
    BY <2>2, <2>3
<1>7. Counts(longer) = Append(Counts(q), counted)
  <2> HIDE DEF counted, longer
  <2> QED
    BY <1>4, <1>5, <1>6, SeqEqual
<1> QED
  BY <1>2, <1>7

(* Executing a command counts it if its PUS version is 1, whatever the     *)
(* command does otherwise.                                                 *)
LEMMA CommandCounted ==
    ASSUME NEW cmd \in Commands, TC!HandleCommand(cmd)
    PROVE  CMD_RCV_COUNT' = IF cmd[1] \div 16 = 1
                            THEN (CMD_RCV_COUNT + 1) % CountMod
                            ELSE CMD_RCV_COUNT
<1>1. Len(cmd) > 0 /\ DataSize \in Nat \ {0}
  BY PayloadAssumption
<1>2. TC!Unpacked(data, cmd)[0] = cmd[1]
  BY <1>1 DEF TC!Unpacked
<1> QED
  BY <1>2 DEF TC!HandleCommand, TC!handle_pus_tc, TC!Version

(* Every step of the loop is one of the satellite's, or is not seen.       *)
LEMMA StepIsSatellite ==
    ASSUME QueueInv, [Next]_simVars
    PROVE  [Sat!Next]_(Sat!satVars)
<1> USE DEF Sat!satVars
<1>1. CASE ReadClock \/ update_time \/ update_telemetry \/ UNCHANGED simVars
  <2>1. UNCHANGED <<rxq, CMD_RCV_COUNT, sp_packet_count, tm>>
    BY <1>1 DEF ReadClock, update_time, update_telemetry, simVars, tcVars,
                linkVars, reportVars
  <2> QED
    BY <2>1 DEF NoPacket
<1>2. CASE send_telemetry
  <2>1. CASE SendDue
    <3>1. /\ tm' = Report
          /\ sp_packet_count' = (sp_packet_count + 2) % CountMod
          /\ UNCHANGED <<rxq, CMD_RCV_COUNT>>
      BY <1>2, <2>1 DEF send_telemetry, Send, Counted, linkVars, tcVars
    <3>2. /\ tm' # NoPacket
          /\ tm'.seq = sp_packet_count % SeqMod
          /\ tm'.CMD_RCV_COUNT = CMD_RCV_COUNT
      BY <3>1 DEF Report, NoPacket, SequenceField
    <3>3. Sat!Release
      BY <3>1, <3>2 DEF Sat!Release, NoPacket
    <3> QED
      BY <3>3 DEF Sat!Next
  <2>2. CASE ~SendDue
    <3>1. UNCHANGED <<rxq, CMD_RCV_COUNT, sp_packet_count, tm>>
      BY <1>2, <2>2 DEF send_telemetry, reportVars, linkVars, tcVars
    <3> QED
      BY <3>1 DEF NoPacket
  <2> QED
    BY <2>1, <2>2
<1>3. CASE check_for_tc
  <2>1. CASE rxq = <<>>
    <3>1. UNCHANGED <<rxq, CMD_RCV_COUNT, sp_packet_count, tm>>
      BY <1>3, <2>1 DEF check_for_tc, tcVars, reportVars
    <3> QED
      BY <3>1 DEF NoPacket
  <2>2. CASE rxq # <<>>
    <3>1. /\ TC!HandleCommand(Head(rxq)) /\ rxq' = Tail(rxq)
          /\ UNCHANGED <<sp_packet_count, tm>>
      BY <1>3, <2>2 DEF check_for_tc, reportVars
    <3>2. Head(rxq) \in Commands /\ rxq \in Seq(Commands)
      BY <2>2, QueueTail DEF QueueInv
    <3>3. CMD_RCV_COUNT' = IF Head(rxq)[1] \div 16 = 1
                           THEN (CMD_RCV_COUNT + 1) % CountMod
                           ELSE CMD_RCV_COUNT
      BY <3>1, <3>2, CommandCounted
    <3>4. /\ Counts(rxq) # <<>> /\ Counts(rxq') = Tail(Counts(rxq))
          /\ Head(Counts(rxq)) = (Head(rxq)[1] \div 16 = 1)
      BY <2>2, <3>1, <3>2, CountsTail
    <3>5. Sat!Execute
      BY <3>1, <3>3, <3>4 DEF Sat!Execute, Counts, NoPacket
    <3> QED
      BY <3>5 DEF Sat!Next
  <2> QED
    BY <2>1, <2>2
<1>4. CASE Arrive
  <2>1. PICK cmd \in Commands : rxq' = Append(rxq, cmd)
    BY <1>4 DEF Arrive
  <2>2. /\ Len(rxq) < QueueSize
        /\ UNCHANGED <<CMD_RCV_COUNT, sp_packet_count, tm>>
    BY <1>4 DEF Arrive, tcVars, reportVars
  <2>3. /\ Len(Counts(rxq)) = Len(rxq)
        /\ Counts(rxq') = Append(Counts(rxq), cmd[1] \div 16 = 1)
    BY <2>1, CountsAppend DEF QueueInv
  <2>4. Sat!Receive(cmd[1] \div 16 = 1)
    BY <2>2, <2>3 DEF Sat!Receive, Counts, NoPacket
  <2> QED
    BY <2>4 DEF Sat!Next
<1> QED
  BY <1>1, <1>2, <1>3, <1>4 DEF Next, Pass

(* The simulator's first state is the satellite's.                         *)
LEMMA InitIsSatellite == Init => Sat!Init
<1> SUFFICES ASSUME Init PROVE Sat!Init
  OBVIOUS
<1>1. rxq = <<>> /\ tm = NoPacket /\ CMD_RCV_COUNT = 0 /\ sp_packet_count = 1
  BY DEF Init, TC!Init
<1>2. [i \in 1..Len(rxq) |-> rxq[i][1] \div 16 = 1] = <<>>
  BY <1>1
<1> QED
  BY <1>1, <1>2 DEF Sat!Init, Sat!NoReport

(* The simulator implements the satellite that the ground sees: a report   *)
(* carries the count of exactly the commands executed before it.           *)
THEOREM LoopIsSatellite == Spec => SatelliteSpec
<1>1. QueueInv /\ [Next]_simVars => [Sat!Next]_(Sat!satVars)
  BY StepIsSatellite
<1> QED
  BY <1>1, InitIsSatellite, InitQueueInv, NextQueueInv, PTL
     DEF Spec, SatelliteSpec, Sat!Spec

-----------------------------------------------------------------------------
(* The command handler's lemmas, for the handler that the loop runs.       *)
TP == INSTANCE TelecommandProofs

(* What the handler's lemmas assume of the constants.                      *)
LEMMA HandlerAssumptions == TP!SizesAssumption /\ TP!CommandsAssumption
BY EvenCountMod, PayloadAssumption, BoundsAssumption
   DEF TP!SizesAssumption, TP!CommandsAssumption, TP!Byte

(* The handler of the lemmas is the one that the loop runs.                *)
LEMMA SameHandler ==
    ASSUME NEW cmd, TC!HandleCommand(cmd)
    PROVE  TP!HandleCommand(cmd)
BY Zenon
   DEF TC!U16, TP!U16, TC!Version, TP!Version, TC!AcceptanceRequested,
       TP!AcceptanceRequested, TC!CompletionRequested,
       TP!CompletionRequested, TC!Is, TP!Is, TC!Accept, TP!Accept,
       TC!Reject, TP!Reject, TC!Silent, TP!Silent, TC!FallThrough,
       TP!FallThrough, TC!LedValue, TP!LedValue, TC!Verdict_2_1,
       TP!Verdict_2_1, TC!ModeChange, TP!ModeChange, TC!DeviceVerdict,
       TP!DeviceVerdict, TC!Verdict_2_7, TP!Verdict_2_7, TC!KnownID,
       TP!KnownID, TC!Verdict_3_5, TP!Verdict_3_5, TC!Unpacked,
       TP!Unpacked, TC!CountAccepted, TP!CountAccepted, TC!Conclude,
       TP!Conclude, TC!TC_2_1, TP!TC_2_1, TC!TC_2_7, TP!TC_2_7,
       TC!HkDisabled, TP!HkDisabled, TC!TC_3_5, TP!TC_3_5, TC!TC_3_6,
       TP!TC_3_6, TC!TC_5_5, TP!TC_5_5, TC!TC_5_6, TP!TC_5_6, TC!TC_17_1,
       TP!TC_17_1, TC!TC_23, TP!TC_23, TC!Supported, TP!Supported,
       TC!Unsupported, TP!Unsupported, TC!handle_pus_tc, TP!handle_pus_tc,
       TC!Remember, TP!Remember, TC!HandleCommand, TP!HandleCommand

(* A step of the loop keeps the handler's inductive invariant.             *)
LEMMA StepKeepsHandler ==
    TP!TCInv /\ QueueInv /\ [Next]_simVars => TP!TCInv'
<1> SUFFICES ASSUME TP!TCInv, QueueInv, [Next]_simVars PROVE TP!TCInv'
  OBVIOUS
<1>1. [TC!Next]_(TC!tcVars)
  BY StepRunsCommands
<1>2. [TP!Next]_(TP!tcVars)
  <2>1. TC!Next => TP!Next
    BY SameHandler DEF TC!Next, TP!Next
  <2>2. TC!Next \/ UNCHANGED TP!tcVars
    BY <1>1 DEF TC!tcVars, TC!codeVars, TC!historyVars, TP!tcVars,
                TP!codeVars, TP!historyVars
  <2> QED
    BY <2>1, <2>2
<1> QED
  BY <1>2, HandlerAssumptions, TP!NextTCInv
     DEF TP!NextTCInv, TP!SizesAssumption, TP!CommandsAssumption

(* simulator_init establishes it.                                          *)
LEMMA InitHandler == Init => TP!TCInv
<1> SUFFICES ASSUME Init PROVE TP!TCInv
  OBVIOUS
<1>1. TP!Init
  BY DEF Init, TC!Init, TP!Init, TC!NoReports, TP!NoReports
<1> QED
  BY <1>1, HandlerAssumptions, TP!InitTCInv
     DEF TP!InitTCInv, TP!SizesAssumption, TP!CommandsAssumption

(* In the loop, too, the flags and the counters mean what they mean in the *)
(* command handler alone.                                                  *)
THEOREM LoopKeepsCommands ==
    Spec => [](/\ TC!HkOffOnceEnabled
               /\ TC!EventsOffNeedEnable
               /\ TC!CountersExplained)
<1>1. TP!TCInv => /\ TC!HkOffOnceEnabled
                  /\ TC!EventsOffNeedEnable
                  /\ TC!CountersExplained
  BY DEF TP!TCInv, TP!HkOffOnceEnabled, TP!EventsOffNeedEnable,
         TP!CountersExplained, TC!HkOffOnceEnabled, TC!EventsOffNeedEnable,
         TC!CountersExplained
<1> QED
  BY <1>1, InitHandler, StepKeepsHandler, InitQueueInv, NextQueueInv, PTL
     DEF Spec

(* In the loop, too, the two clocks agree and are never fast.              *)
THEOREM LoopKeepsTime ==
    Spec => [](/\ Clock!ClockNeverFast
               /\ Clock!CalendarAgreesWithCoarse
               /\ Clock!PusTimeEncodesCoarse)
<1>1. Init => CP!TimeInv
  BY InitDatesInv DEF DatesInv
<1>2. CP!TimeInv => /\ Clock!ClockNeverFast
                    /\ Clock!CalendarAgreesWithCoarse
                    /\ Clock!PusTimeEncodesCoarse
  BY DEF CP!TimeInv, CP!ClockNeverFast, CP!CalendarAgreesWithCoarse,
         CP!PusTimeEncodesCoarse, CP!Seconds, CP!BytesValue,
         Clock!ClockNeverFast, Clock!CalendarAgreesWithCoarse,
         Clock!PusTimeEncodesCoarse, Clock!Seconds, Clock!BytesValue
<1> QED
  BY <1>1, <1>2, StepKeepsClock, PTL DEF Spec

(* However irregularly the loop runs, it never sends more reports than one *)
(* per interval of the monotonic clock.                                    *)
THEOREM BeaconNeverFast ==
    ASSUME Horizon
    PROVE  Spec => [](Beacon!LastNotAhead /\ Beacon!NeverFast)
<1>1. BeaconInv => Beacon!LastNotAhead /\ Beacon!NeverFast
  BY DEF BeaconInv, Sent, Beacon!LastNotAhead, Beacon!NeverFast
<1> QED
  BY <1>1, InitBeaconInv, NextBeaconInv, InitNumbersInv, NextNumbersInv,
     InitTimersInv, NextTimersInv, PTL DEF Spec

-----------------------------------------------------------------------------
(* After n commands there is another, and the loop is at a call.           *)
Waiting(n, call) == handled = n /\ rxq # <<>> /\ pc = call

(* Until the call of check_for_tc the command waits, and each call brings  *)
(* the loop to the next.                                                   *)
LEMMA WaitingKept ==
    ASSUME NEW n \in Nat, QueueInv, [Next]_simVars,
           NEW call \in {"read", "update_time", "update_telemetry",
                         "send_telemetry"},
           Waiting(n, call)
    PROVE  /\ Waiting(n, call)' \/ Waiting(n, After(call))'
           /\ <<Pass>>_simVars => Waiting(n, After(call))'
<1> USE DEF Waiting, Call, After, tcVars, tcHistory, linkVars
<1>1. ASSUME Pass PROVE Waiting(n, After(call))'
  <2>1. ~check_for_tc
    BY DEF check_for_tc
  <2>2. CASE ReadClock
    BY <2>2 DEF ReadClock
  <2>3. CASE update_time
    BY <2>3 DEF update_time
  <2>4. CASE update_telemetry
    BY <2>4 DEF update_telemetry
  <2>5. CASE send_telemetry
    BY <2>5 DEF send_telemetry
  <2> QED
    BY <1>1, <2>1, <2>2, <2>3, <2>4, <2>5 DEF Pass
<1>2. ASSUME Arrive PROVE Waiting(n, call)'
  <2>1. PICK cmd \in Commands : rxq' = Append(rxq, cmd)
    BY <1>2 DEF Arrive
  <2>2. rxq' # <<>>
    BY <2>1, QueueAppend DEF QueueInv
  <2> QED
    BY <1>2, <2>2 DEF Arrive
<1>3. ASSUME UNCHANGED simVars PROVE Waiting(n, call)'
  BY <1>3 DEF simVars
<1> QED
  BY <1>1, <1>2, <1>3 DEF Next

(* check_for_tc executes a command that waits.                             *)
LEMMA WaitingEnds ==
    ASSUME NEW n \in Nat, QueueInv, [Next]_simVars,
           Waiting(n, "check_for_tc")
    PROVE  /\ Waiting(n, "check_for_tc")' \/ (handled > n)'
           /\ <<Pass>>_simVars => (handled > n)'
<1> USE DEF Waiting
<1>1. ASSUME Pass PROVE (handled > n)'
  <2>1. check_for_tc
    BY <1>1 DEF Pass, Call, ReadClock, update_time, update_telemetry,
                send_telemetry
  <2>2. handled' = n + 1
    BY <2>1 DEF check_for_tc, TC!HandleCommand, TC!Remember
  <2> QED
    BY <2>2
<1>2. ASSUME Arrive PROVE Waiting(n, "check_for_tc")'
  <2>1. PICK cmd \in Commands : rxq' = Append(rxq, cmd)
    BY <1>2 DEF Arrive
  <2>2. rxq' # <<>>
    BY <2>1, QueueAppend DEF QueueInv
  <2> QED
    BY <1>2, <2>2 DEF Arrive, tcVars, tcHistory
<1>3. ASSUME UNCHANGED simVars PROVE Waiting(n, "check_for_tc")'
  BY <1>3 DEF simVars, tcVars, tcHistory, linkVars
<1> QED
  BY <1>1, <1>2, <1>3 DEF Next

(* As long as the loop can always make its next call, which the runs check *)
(* of it, and goes on making it, a command in the socket's buffer is       *)
(* executed, whatever arrives meanwhile.                                   *)
THEOREM CommandsServed == FairSpec /\ []NeverBlocks => CommandsHandled
<1>1. ASSUME NEW n \in 0..(MaxHandled - 1)
      PROVE  FairSpec /\ []NeverBlocks
               => (handled = n /\ rxq # <<>> ~> handled > n)
  <2> DEFINE W(call) == Waiting(n, call)
             R == W("read")
             T == W("update_time")
             U == W("update_telemetry")
             S == W("send_telemetry")
             C == W("check_for_tc")
             Done == handled > n
  <2>1. n \in Nat
    OBVIOUS
  <2>2. QueueInv /\ R /\ [Next]_simVars
          => (R' \/ T') /\ (<<Pass>>_simVars => T')
    BY <2>1, WaitingKept DEF After
  <2>3. QueueInv /\ T /\ [Next]_simVars
          => (T' \/ U') /\ (<<Pass>>_simVars => U')
    BY <2>1, WaitingKept DEF After
  <2>4. QueueInv /\ U /\ [Next]_simVars
          => (U' \/ S') /\ (<<Pass>>_simVars => S')
    BY <2>1, WaitingKept DEF After
  <2>5. QueueInv /\ S /\ [Next]_simVars
          => (S' \/ C') /\ (<<Pass>>_simVars => C')
    BY <2>1, WaitingKept DEF After
  <2>6. QueueInv /\ C /\ [Next]_simVars
          => (C' \/ Done') /\ (<<Pass>>_simVars => Done')
    BY <2>1, WaitingEnds
  <2>7. TimersInv /\ handled = n /\ rxq # <<>> => R \/ T \/ U \/ S \/ C
    BY DEF TimersInv, Waiting
  <2> HIDE DEF W, R, T, U, S, C, Done
  <2>8. NeverBlocks => ENABLED <<Pass>>_simVars
    BY DEF NeverBlocks
  <2>9. FairSpec /\ []NeverBlocks => (handled = n /\ rxq # <<>> ~> Done)
    BY <2>2, <2>3, <2>4, <2>5, <2>6, <2>7, <2>8, InitQueueInv, NextQueueInv,
       InitTimersInv, NextTimersInv, PTL DEF FairSpec, Spec
  <2> QED
    BY <2>9 DEF Done
<1> QED
  BY <1>1 DEF CommandsHandled

-----------------------------------------------------------------------------
(* The loop is at a call, or already at the next.                          *)
LEMMA CallsFollow ==
    ASSUME TimersInv, [Next]_simVars
    PROVE  /\ pc' = pc \/ pc' = After(pc)
           /\ <<Pass>>_simVars => pc' = After(pc)
<1>1. Pass => pc' = After(pc)
  BY DEF Pass, Call, ReadClock, update_time, update_telemetry,
         send_telemetry, check_for_tc
<1>2. Arrive \/ UNCHANGED simVars => pc' = pc
  BY DEF Arrive, simVars
<1> QED
  BY <1>1, <1>2 DEF Next

(* A loop that can make its next call and does comes round again and       *)
(* again, and each time it leaves nothing due.                             *)
LEMMA LoopGoesRound ==
    FairSpec /\ []NeverBlocks => /\ []<>(pc = "read")
                                 /\ []<>(SecondQuiet /\ SendQuiet)
<1> DEFINE R == pc = "read"
           T == pc = "update_time"
           U == pc = "update_telemetry"
           S == pc = "send_telemetry"
           C == pc = "check_for_tc"
<1>1. TimersInv => (R \/ T \/ U \/ S \/ C) /\ (C => SecondQuiet /\ SendQuiet)
  BY DEF TimersInv
<1>2. TimersInv /\ [Next]_simVars
        => /\ R => (R' \/ T') /\ (<<Pass>>_simVars => T')
           /\ T => (T' \/ U') /\ (<<Pass>>_simVars => U')
           /\ U => (U' \/ S') /\ (<<Pass>>_simVars => S')
           /\ S => (S' \/ C') /\ (<<Pass>>_simVars => C')
           /\ C => (C' \/ R') /\ (<<Pass>>_simVars => R')
  BY CallsFollow DEF After
<1>3. NeverBlocks => ENABLED <<Pass>>_simVars
  BY DEF NeverBlocks
<1> HIDE DEF R, T, U, S, C
<1>4. FairSpec /\ []NeverBlocks => []<>R /\ []<>(SecondQuiet /\ SendQuiet)
  BY <1>1, <1>2, <1>3, InitTimersInv, NextTimersInv, PTL DEF FairSpec, Spec
<1> QED
  BY <1>4 DEF R

(* The report has been sent and its timer started again.                   *)
Served == SendQuiet /\ tm # NoPacket

(* What the timer of the reports has to do with them: it starts at zero,   *)
(* and leaves zero with the first of them.                                 *)
StartInv == previousTMSendMillis > 0 => tm # NoPacket

(* It holds of simulator_init.                                             *)
LEMMA InitStartInv == Init => StartInv
BY DEF Init, StartInv

(* Its timer is moved by a report that is due and by nothing else.         *)
LEMMA SentOrKept ==
    ASSUME TimersInv, [Next]_simVars
    PROVE  \/ UNCHANGED reportVars
           \/ /\ SendDue /\ Send
              /\ UNCHANGED timeSinceBoot
<1>1. CASE send_telemetry
  BY <1>1 DEF send_telemetry
<1>2. CASE ~send_telemetry
  BY <1>2 DEF Next, Pass, ReadClock, update_time, update_telemetry,
              check_for_tc, Arrive, simVars
<1> QED
  BY <1>1, <1>2

(* Every step keeps StartInv.                                              *)
LEMMA NextStartInv == TimersInv /\ StartInv /\ [Next]_simVars => StartInv'
<1> SUFFICES ASSUME TimersInv, StartInv, [Next]_simVars PROVE StartInv'
  OBVIOUS
<1>1. CASE UNCHANGED reportVars
  BY <1>1 DEF reportVars, StartInv, NoPacket
<1>2. CASE Send
  <2>1. tm' # NoPacket
    BY <1>2, ReportIsPacket DEF Send
  <2> QED
    BY <2>1 DEF StartInv, NoPacket
<1> QED
  BY <1>1, <1>2, SentOrKept

(* The clock goes forward, up to the end of the run.                       *)
LEMMA ClockForward ==
    ASSUME TimersInv, [Next]_simVars
    PROVE  timeSinceBoot' \in Nat /\ timeSinceBoot' >= timeSinceBoot
<1>1. CASE ReadClock
  BY <1>1, BoundsAssumption DEF ReadClock, TimersInv
<1>2. CASE ~ReadClock
  <2>1. timeSinceBoot' = timeSinceBoot
    BY <1>2 DEF Next, Pass, update_time, update_telemetry, send_telemetry,
                check_for_tc, Arrive, simVars
  <2> QED
    BY <2>1, BoundsAssumption DEF TimersInv
<1> QED
  BY <1>1, <1>2

(* What is due stays due while the clock goes on and its timer is kept.    *)
LEMMA StaysDue ==
    ASSUME NEW i \in Nat, NEW now \in Nat, NEW previous \in Nat,
           NEW later \in Nat, later >= now, now - previous >= i
    PROVE  later - previous >= i
OBVIOUS

(* A report that is due stays due until it is sent.                        *)
LEMMA DueUntilSent ==
    ASSUME TimersInv, [Next]_simVars, SendDue
    PROVE  SendDue' \/ Served'
<1>1. /\ timeSinceBoot \in Nat /\ previousTMSendMillis \in Nat
      /\ TelemetrySend_Interval \in Nat /\ TelemetrySend_Interval > 0
  BY IntervalsAssumption, BoundsAssumption DEF TimersInv
<1>2. CASE UNCHANGED reportVars
  <2>1. timeSinceBoot - previousTMSendMillis >= TelemetrySend_Interval
    BY DEF SendDue
  <2>2. timeSinceBoot' - previousTMSendMillis >= TelemetrySend_Interval
    BY <1>1, <2>1, ClockForward, StaysDue
  <2> QED
    BY <1>2, <2>2 DEF reportVars, SendDue
<1>3. CASE Send /\ UNCHANGED timeSinceBoot
  <2>1. tm' # NoPacket
    BY <1>3, ReportIsPacket DEF Send
  <2>2. timeSinceBoot' - previousTMSendMillis' = 0
    BY <1>1, <1>3 DEF Send
  <2> QED
    BY <1>1, <2>1, <2>2 DEF Served, SendQuiet, NoPacket
<1> QED
  BY <1>2, <1>3, SentOrKept

(* A timer is due or quiet.                                                *)
LEMMA DueOrQuiet ==
    ASSUME TimersInv
    PROVE  /\ SendDue <=> ~SendQuiet
           /\ Clock!SecondDue <=> ~SecondQuiet
BY IntervalsAssumption, BoundsAssumption
   DEF TimersInv, SendDue, SendQuiet, Clock!SecondDue, SecondQuiet

(* Under the same condition a report that is due is sent, however often    *)
(* the clock is read and whatever is executed before.                      *)
THEOREM DueReportsSent ==
    FairSpec /\ []NeverBlocks => (SendDue ~> ~SendDue /\ tm # NoPacket)
<1>1. TimersInv /\ [Next]_simVars /\ SendDue => SendDue' \/ Served'
  BY DueUntilSent
<1>2. TimersInv => (SendDue <=> ~SendQuiet)
  BY DueOrQuiet
<1>3. Served => SendQuiet /\ tm # NoPacket
  BY DEF Served
<1> QED
  BY <1>1, <1>2, <1>3, LoopGoesRound, InitTimersInv, NextTimersInv, PTL
     DEF FairSpec, Spec

(* A loop that comes round again and again and whose clock passes every    *)
(* instant reaches the end of the run, and stays there.                    *)
LEMMA ClockReachesEnd ==
    FairSpec /\ []NeverBlocks => <>[](timeSinceBoot = MaxTime)
<1> DEFINE End == timeSinceBoot = MaxTime
           R == pc = "read"
<1>1. <<TimePasses>>_simVars => End'
  BY DEF TimePasses
<1>2. TimersInv /\ [Next]_simVars /\ End => End'
  <2> SUFFICES ASSUME TimersInv, [Next]_simVars, End, TimersInv' PROVE End'
    BY NextTimersInv
  <2>1. timeSinceBoot' \in 0..MaxTime /\ timeSinceBoot' >= MaxTime
    BY ClockForward DEF TimersInv
  <2> QED
    BY <2>1, BoundsAssumption
<1>3. NeverBlocks /\ R => ENABLED <<TimePasses>>_simVars
  BY DEF NeverBlocks
<1>4. FairSpec /\ []NeverBlocks => []<>R
  BY LoopGoesRound, PTL
<1> HIDE DEF End, R
<1>5. FairSpec /\ []NeverBlocks => <>[]End
  BY <1>1, <1>2, <1>3, <1>4, InitTimersInv, NextTimersInv, PTL
     DEF FairSpec, Spec
<1> QED
  BY <1>5 DEF End

(* A report is followed by another, unless its timer has started again     *)
(* less than an interval before the end of the run or a command clears the *)
(* flag of the periodic reports first.                                     *)
THEOREM ReportsGoOn == FairSpec /\ []NeverBlocks => BeaconGoesOn
<1>1. ASSUME NEW t \in 0..(MaxTime - TelemetrySend_Interval)
      PROVE  FairSpec /\ []NeverBlocks
               => (previousTMSendMillis = t /\ hk_enabled
                     ~> previousTMSendMillis > t \/ ~hk_enabled)
  <2> DEFINE P == previousTMSendMillis = t
             Q == previousTMSendMillis > t
             H == hk_enabled
             End == timeSinceBoot = MaxTime
  <2>1. TimersInv /\ [Next]_simVars /\ P => P' \/ Q'
    <3> SUFFICES ASSUME TimersInv, SendDue, Send, P PROVE Q'
      BY SentOrKept DEF reportVars
    <3>1. /\ previousTMSendMillis' = timeSinceBoot
          /\ timeSinceBoot - t >= TelemetrySend_Interval
          /\ timeSinceBoot \in 0..MaxTime
      BY DEF Send, SendDue, TimersInv
    <3> QED
      BY <3>1, IntervalsAssumption, BoundsAssumption
  <2>2. TimersInv /\ P /\ End => ~SendQuiet
    BY IntervalsAssumption, BoundsAssumption DEF SendQuiet
  <2>3. FairSpec /\ []NeverBlocks => <>[]End
    BY ClockReachesEnd
  <2> HIDE DEF P, Q, H, End
  <2>4. FairSpec /\ []NeverBlocks => (P ~> Q)
    BY <2>1, <2>2, <2>3, LoopGoesRound, InitTimersInv, NextTimersInv, PTL
       DEF FairSpec, Spec
  <2>5. FairSpec /\ []NeverBlocks => (P /\ H ~> Q \/ ~H)
    BY <2>4, PTL
  <2> QED
    BY <2>5 DEF P, Q, H
<1> QED
  BY <1>1 DEF BeaconGoesOn

(* There is a first report, if the run is long enough for one, unless a    *)
(* command clears the flag of the periodic reports before it.              *)
THEOREM FirstReport ==
    ASSUME TelemetrySend_Interval <= MaxTime
    PROVE  FairSpec /\ []NeverBlocks => BeaconStarts
<1> DEFINE End == timeSinceBoot = MaxTime
           Seen == tm # NoPacket
           H == hk_enabled
<1>1. TimersInv /\ StartInv /\ End /\ SendQuiet => Seen
  BY IntervalsAssumption, BoundsAssumption
     DEF TimersInv, StartInv, SendQuiet
<1>2. FairSpec /\ []NeverBlocks => <>[]End
  BY ClockReachesEnd
<1> HIDE DEF End, Seen, H
<1>3. FairSpec /\ []NeverBlocks => <>Seen
  BY <1>1, <1>2, LoopGoesRound, InitStartInv, NextStartInv, InitTimersInv,
     NextTimersInv, PTL DEF FairSpec, Spec
<1>4. FairSpec /\ []NeverBlocks => <>(Seen \/ ~H)
  BY <1>3, PTL
<1> QED
  BY <1>4 DEF Seen, H, BeaconStarts

(* A second that is due stays due until it is counted.                     *)
LEMMA DueUntilCounted ==
    ASSUME TimersInv, [Next]_simVars, Clock!SecondDue
    PROVE  \/ Clock!SecondDue' /\ coarse_time' = coarse_time
           \/ coarse_time' = (coarse_time + 1) % CoarseMod
<1>1. CASE Clock!Tick
  BY <1>1 DEF Clock!Tick
<1>2. CASE UNCHANGED <<coarse_time, previousSecondUpdate>>
  <2>1. /\ timeSinceBoot \in Nat /\ previousSecondUpdate \in Nat
        /\ SecondUpdate_Interval \in Nat
    BY IntervalsAssumption, BoundsAssumption DEF TimersInv
  <2>2. timeSinceBoot - previousSecondUpdate >= SecondUpdate_Interval
    BY DEF Clock!SecondDue
  <2>3. timeSinceBoot' - previousSecondUpdate >= SecondUpdate_Interval
    BY <2>1, <2>2, ClockForward, StaysDue
  <2> QED
    BY <1>2, <2>3 DEF Clock!SecondDue
<1>3. Clock!Tick \/ UNCHANGED <<coarse_time, previousSecondUpdate>>
  BY DEF Next, Pass, ReadClock, update_time, update_telemetry,
         send_telemetry, check_for_tc, Arrive, simVars, clockVars,
         Clock!UpdateTime, Clock!UpdateTelemetry
<1> QED
  BY <1>1, <1>2, <1>3

(* No second that has passed is left out for good: the counter is moved by *)
(* one, however late the pass that finds it due.                           *)
THEOREM SecondsCounted ==
    FairSpec /\ []NeverBlocks
        => \A c \in Nat : Clock!SecondDue /\ coarse_time = c
                             ~> coarse_time = (c + 1) % CoarseMod
<1>1. ASSUME NEW c \in Nat
      PROVE  FairSpec /\ []NeverBlocks
               => (Clock!SecondDue /\ coarse_time = c
                     ~> coarse_time = (c + 1) % CoarseMod)
  <2> DEFINE D == Clock!SecondDue
             P == coarse_time = c
             Q == coarse_time = (c + 1) % CoarseMod
  <2>1. TimersInv /\ [Next]_simVars /\ D /\ P => (D /\ P)' \/ Q'
    BY DueUntilCounted
  <2>2. TimersInv => (D <=> ~SecondQuiet)
    BY DueOrQuiet
  <2> HIDE DEF D, P, Q
  <2>3. FairSpec /\ []NeverBlocks => (D /\ P ~> Q)
    BY <2>1, <2>2, LoopGoesRound, InitTimersInv, NextTimersInv, PTL
       DEF FairSpec, Spec
  <2> QED
    BY <2>3 DEF D, P, Q
<1> QED
  BY <1>1
=============================================================================
