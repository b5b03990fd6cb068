----------------------------- MODULE Simulator -----------------------------
(***************************************************************************)
(* The satellite simulator, main.c: one thread that for ever reads the     *)
(* clock, updates it (OnboardTime), sends a housekeeping report TM[3,25]   *)
(* when one is due, and executes at most one telecommand (Telecommand).    *)
(* Its only other actor is the socket, into which the ground puts          *)
(* datagrams at any moment.                                                *)
(*                                                                         *)
(* Each call of the loop is one step, so that datagrams arrive between any *)
(* two of them.  The packet passed to send_udp is kept in tm; whether the  *)
(* network delivers it is not this module's concern, for the code ignores  *)
(* the result of send_udp.                                                 *)
(***************************************************************************)
EXTENDS Integers, Sequences

CONSTANTS
    SecondUpdate_Interval, TelemetryUpdate_Interval, Epoch, CoarseMod,
    DayMod, InitDay, InitHour, InitMinute, InitSecond, MaxTime,
                                \* see OnboardTime
    DataSize, CountMod, Commands, MaxHandled,
                                \* see Telecommand
    TelemetrySend_Interval,     \* 2000 in the code
    SeqMod,                     \* values of the 14-bit sequence count field
    QueueSize                   \* datagrams the socket buffers

ASSUME IntervalsAssumption ==
    /\ SecondUpdate_Interval \in Nat \ {0}
    /\ TelemetryUpdate_Interval \in Nat \ {0}
    /\ TelemetrySend_Interval \in Nat
    /\ TelemetrySend_Interval >= SecondUpdate_Interval

(* The clock's own assumptions; see OnboardTime.                           *)
ASSUME ClockAssumption ==
    /\ CoarseMod \in Nat /\ (CoarseMod - 1) \div 65536 <= 65535
    /\ Epoch \in Nat /\ Epoch < CoarseMod
    /\ DayMod \in Nat /\ InitDay \in 0..(DayMod - 1)
    /\ InitHour \in 0..23 /\ InitMinute \in 0..59 /\ InitSecond \in 0..59
    /\ (CoarseMod - Epoch) * SecondUpdate_Interval > MaxTime
    /\ InitDay + 2 + (CoarseMod - Epoch) \div 86400 < DayMod

ASSUME NumbersAssumption ==
    /\ SeqMod \in Nat \ {0} /\ SeqMod % 2 = 0
    /\ CountMod \in Nat
    /\ CountMod % SeqMod = 0 /\ CountMod > SeqMod

ASSUME BoundsAssumption ==
    /\ QueueSize \in Nat \ {0}
    /\ MaxHandled \in Nat /\ MaxTime \in Nat

(* Every datagram carries at least the first byte of a PUS header, and no  *)
(* more than the handler's buffer takes; see Telecommand.                  *)
ASSUME PayloadAssumption ==
    /\ DataSize \in Nat /\ DataSize >= 11
    /\ \A cmd \in Commands :
          cmd \in Seq(0..255) /\ Len(cmd) \in 1..DataSize

VARIABLES
    pc,                         \* the next call of the loop
    timeSinceBoot, previousSecondUpdate, previousTelemetryUpdate,
    coarse_time, pus_time, DAY, HOUR, MINUTE, SECOND,
    data, tc_3_5_SID, tc_5_5_ID, CMD_RCV_COUNT, CMD_ACC_CNT, hk_enabled,
    ev_enabled, tm_5_1_data, announced, last, handled, uncounted,
    hkEnables, evEnables,
    link_up,                    \* whether init_udp succeeded
    rxq,                        \* datagrams in the socket's buffer
    previousTMSendMillis,
    sp_packet_count,            \* sequence count of the next space packet
    COUNTER_3_25,               \* message type counter of the next TM[3,25]
    tm                          \* the last packet passed to send_udp

clockPc == IF pc \in {"read", "update_time", "update_telemetry"}
           THEN pc ELSE "read"

Clock == INSTANCE OnboardTime WITH pc <- clockPc
TC == INSTANCE Telecommand

clockVars == <<previousSecondUpdate, previousTelemetryUpdate, coarse_time,
               pus_time, DAY, HOUR, MINUTE, SECOND>>
tcHistory == <<last, handled, uncounted, hkEnables, evEnables>>
tcVars == <<data, tc_3_5_SID, tc_5_5_ID, CMD_RCV_COUNT, CMD_ACC_CNT,
            hk_enabled, ev_enabled, tm_5_1_data, announced, tcHistory>>
reportVars == <<previousTMSendMillis, sp_packet_count, COUNTER_3_25, tm>>
linkVars == <<link_up, rxq>>
simVars == <<pc, timeSinceBoot, clockVars, tcVars, linkVars, reportVars>>

-----------------------------------------------------------------------------
(* Mutated: the report is sent before the clock has been updated.          *)
After_SendFirst(call) ==
    [read |-> "send_telemetry", send_telemetry |-> "update_time",
     update_time |-> "update_telemetry", update_telemetry |-> "check_for_tc",
     check_for_tc |-> "read"][call]

(* The order of the loop.                                                  *)
After(call) ==
    [read |-> "update_time", update_time |-> "update_telemetry",
     update_telemetry |-> "send_telemetry", send_telemetry |-> "check_for_tc",
     check_for_tc |-> "read"][call]

Call(call) == pc = call /\ pc' = After(call)

(* Mutated: a settable wall clock is read, which may be set back.          *)
ReadClock_Wall ==
    /\ Call("read")
    /\ \E t \in 0..MaxTime : timeSinceBoot' = t
    /\ UNCHANGED <<clockVars, tcVars, linkVars, reportVars>>

ReadClock ==
    /\ Call("read")
    /\ \E t \in timeSinceBoot..MaxTime : timeSinceBoot' = t
    /\ UNCHANGED <<clockVars, tcVars, linkVars, reportVars>>

update_time ==
    /\ Call("update_time")
    /\ Clock!UpdateTime
    /\ UNCHANGED <<timeSinceBoot, previousTelemetryUpdate, tcVars,
                   linkVars, reportVars>>

update_telemetry ==
    /\ Call("update_telemetry")
    /\ Clock!UpdateTelemetry
    /\ UNCHANGED <<timeSinceBoot, tcVars, linkVars, reportVars>>

-----------------------------------------------------------------------------
(* Mutated: the report is due one unit before its interval has passed.     *)
SendDue_Early ==
    timeSinceBoot - previousTMSendMillis >= TelemetrySend_Interval - 1

(* Mutated: the report is due at exactly its instant, which a late pass    *)
(* misses for good.                                                        *)
SendDue_Exact == timeSinceBoot - previousTMSendMillis = TelemetrySend_Interval

(* Mutated: the report waits for more than its interval.                   *)
SendDue_Late == timeSinceBoot - previousTMSendMillis > TelemetrySend_Interval

SendDue == timeSinceBoot - previousTMSendMillis >= TelemetrySend_Interval

(* Mutated: the increments of the caller are left out.                     *)
Counted_Once(n) == (n + 1) % CountMod

(* A counter after a report: generate_tm_3_25 and its caller increment it. *)
Counted(n) == (n + 2) % CountMod

(* Mutated: the count is not cut to the 14 bits of its field.              *)
SequenceField_Unmasked(n) == n

SequenceField(n) == n % SeqMod

(* The TM[3,25] packet that generate_tm_3_25(1) builds.                    *)
Report ==
    [type |-> <<3, 25>>,
     seq |-> SequenceField(sp_packet_count),
     counter |-> COUNTER_3_25,
     time |-> <<DAY, HOUR, MINUTE, SECOND>>,
     CMD_RCV_COUNT |-> CMD_RCV_COUNT,
     CMD_ACC_CNT |-> CMD_ACC_CNT]

NoPacket == [type |-> <<0, 0>>]

Send ==
    /\ tm' = Report
    /\ sp_packet_count' = Counted(sp_packet_count)
    /\ COUNTER_3_25' = Counted(COUNTER_3_25)
    /\ previousTMSendMillis' = timeSinceBoot

(* Mutated: the timer is restarted by every pass.                          *)
send_telemetry_Restart ==
    /\ Call("send_telemetry")
    /\ IF SendDue THEN Send
       ELSE /\ previousTMSendMillis' = timeSinceBoot
            /\ UNCHANGED <<tm, sp_packet_count, COUNTER_3_25>>
    /\ UNCHANGED <<timeSinceBoot, clockVars, tcVars, linkVars>>

send_telemetry ==
    /\ Call("send_telemetry")
    /\ IF SendDue THEN Send ELSE UNCHANGED reportVars
    /\ UNCHANGED <<timeSinceBoot, clockVars, tcVars, linkVars>>

-----------------------------------------------------------------------------
(* Mutated: a pass that received nothing executes the old buffer again.    *)
check_for_tc_Again ==
    /\ Call("check_for_tc")
    /\ IF rxq = <<>>
       THEN /\ TC!handle_pus_tc(data)
            /\ UNCHANGED <<rxq, data, tcHistory>>
       ELSE TC!HandleCommand(Head(rxq)) /\ rxq' = Tail(rxq)
    /\ UNCHANGED <<timeSinceBoot, clockVars, link_up, reportVars>>

(* Mutated: the command received is left in the buffer for the next pass   *)
(* and the one before it executed.                                         *)
check_for_tc_Late ==
    /\ Call("check_for_tc")
    /\ IF rxq = <<>>
       THEN UNCHANGED <<rxq, tcVars>>
       ELSE TC!HandleCommand(rxq[Len(rxq)]) /\ rxq' = Tail(rxq)
    /\ UNCHANGED <<timeSinceBoot, clockVars, link_up, reportVars>>

(* Mutated: the socket is polled only in passes that have sent a report.   *)
check_for_tc_WithReport ==
    /\ Call("check_for_tc")
    /\ IF rxq = <<>> \/ previousTMSendMillis # timeSinceBoot
       THEN UNCHANGED <<rxq, tcVars>>
       ELSE TC!HandleCommand(Head(rxq)) /\ rxq' = Tail(rxq)
    /\ UNCHANGED <<timeSinceBoot, clockVars, link_up, reportVars>>

(* Mutated: set_udp_nonblocking is not called, and receiving waits for a   *)
(* datagram.                                                               *)
check_for_tc_Blocking ==
    /\ Call("check_for_tc")
    /\ rxq # <<>>
    /\ TC!HandleCommand(Head(rxq))
    /\ rxq' = Tail(rxq)
    /\ UNCHANGED <<timeSinceBoot, clockVars, link_up, reportVars>>

(* The socket does not block: with no datagram, or after init_udp has      *)
(* failed, nothing is received.                                            *)
check_for_tc ==
    /\ Call("check_for_tc")
    /\ IF rxq = <<>>
       THEN UNCHANGED <<rxq, tcVars>>
       ELSE TC!HandleCommand(Head(rxq)) /\ rxq' = Tail(rxq)
    /\ UNCHANGED <<timeSinceBoot, clockVars, link_up, reportVars>>

(* A telecommand reaches the socket; one that finds the buffer full is     *)
(* lost.  MaxHandled bounds the commands of a run.                         *)
Arrive ==
    /\ link_up
    /\ Len(rxq) < QueueSize
    /\ handled + Len(rxq) < MaxHandled
    /\ \E cmd \in Commands : rxq' = Append(rxq, cmd)
    /\ UNCHANGED <<pc, timeSinceBoot, clockVars, tcVars, link_up,
                   reportVars>>

-----------------------------------------------------------------------------
(* simulator_init, which goes on whether or not init_udp succeeded.        *)
Init ==
    /\ pc = "read"
    /\ Clock!Init
    /\ TC!Init
    /\ link_up \in BOOLEAN
    /\ rxq = <<>>
    /\ previousTMSendMillis = 0
    /\ sp_packet_count = 1
    /\ COUNTER_3_25 = 0
    /\ tm = NoPacket

Pass == ReadClock \/ update_time \/ update_telemetry \/ send_telemetry
        \/ check_for_tc

Next == Pass \/ Arrive

Spec == Init /\ [][Next]_simVars

(* The clock has come to the last instant of the run.                      *)
TimePasses == ReadClock /\ timeSinceBoot' = MaxTime

(* The loop has no blocking call, so it keeps running; and the monotonic   *)
(* clock passes every instant, so that the loop, which reads it again and  *)
(* again, reads the last one at some time.                                 *)
FairSpec == Spec /\ WF_simVars(Pass) /\ SF_simVars(TimePasses)

-----------------------------------------------------------------------------
(* The state of the loop itself is of its type; that of the clock and of   *)
(* the command handler is covered by ClockSpec and CommandSpec.            *)
TypeOK ==
    /\ pc \in {"read", "update_time", "update_telemetry", "send_telemetry",
               "check_for_tc"}
    /\ link_up \in BOOLEAN
    /\ rxq \in Seq(Commands) /\ Len(rxq) <= QueueSize
    /\ handled + Len(rxq) <= MaxHandled
    /\ previousTMSendMillis \in 0..MaxTime
    /\ sp_packet_count \in 0..(CountMod - 1)
    /\ COUNTER_3_25 \in 0..(CountMod - 1)
    /\ tm # NoPacket => /\ tm.seq \in 0..(SeqMod - 1)
                        /\ tm.counter \in 0..(CountMod - 1)

(* When a pass comes to the commands, nothing the three timers drive is    *)
(* still due at the time the pass has read: neither a late pass nor the    *)
(* order of the calls makes a report or a second wait for another pass.    *)
NothingDueAfterTimers ==
    pc = "check_for_tc" =>
        /\ timeSinceBoot - previousSecondUpdate < SecondUpdate_Interval
        /\ timeSinceBoot - previousTelemetryUpdate < TelemetryUpdate_Interval
        /\ timeSinceBoot - previousTMSendMillis < TelemetrySend_Interval

(* The two counters a report carries stay in step although four statements *)
(* in two files move them; both advance by two, so every report has an odd *)
(* sequence count and an even message counter.                             *)
ReportNumbers ==
    /\ sp_packet_count = (COUNTER_3_25 + 1) % CountMod
    /\ tm # NoPacket => /\ tm.seq = (tm.counter + 1) % SeqMod
                        /\ tm.seq % 2 = 1

(* The numbers of two reports in a row are two apart, those of the field   *)
(* wrapping: what the sequence counts of the simulator look like to the    *)
(* ground's continuity check (a process of Downlink whose SeqStep is 2).   *)
SequenceStepsByTwo ==
    [][tm' # tm =>
          tm'.seq = IF tm = NoPacket THEN 1 ELSE (tm.seq + 2) % SeqMod]_simVars

(* Seconds since the initial date.                                         *)
Elapsed(time) ==
    Clock!Seconds(time[1], time[2], time[3], time[4])
        - Clock!Seconds(InitDay, InitHour, InitMinute, InitSecond)

(* The time in a report is always later than that in the report before it, *)
(* and that in the first later than the initial date: however irregularly  *)
(* the loop runs, a second is counted between any two reports.             *)
ReportTimesAdvance ==
    [][tm' # tm =>
          Elapsed(tm'.time) > IF tm = NoPacket THEN 0
                              ELSE Elapsed(tm.time)]_simVars

(* The loop runs the clock as OnboardTime describes it, whatever happens   *)
(* between its calls.                                                      *)
ClockSpec == Clock!Spec

(* The loop runs the command handler as Telecommand describes it: once per *)
(* datagram, and never without one.                                        *)
CommandSpec == TC!Spec

(* The reports are a periodic timer of the monotonic clock (while the      *)
(* message counter has not wrapped).                                       *)
Beacon == INSTANCE PeriodicTimer
          WITH Interval <- TelemetrySend_Interval, now <- timeSinceBoot,
               last <- previousTMSendMillis, count <- COUNTER_3_25 \div 2

(* send_telemetry implements the periodic timer.                           *)
BeaconSpec == Beacon!Spec

(* What the ground can tell of the loop: a queue of commands, of which     *)
(* those with PUS version 1 count, and reports.                            *)
Sat == INSTANCE Satellite
       WITH rxq <- [i \in 1..Len(rxq) |-> rxq[i][1] \div 16 = 1],
            tm <- IF tm = NoPacket THEN [seq |-> 0, CMD_RCV_COUNT |-> 0]
                  ELSE [seq |-> tm.seq, CMD_RCV_COUNT |-> tm.CMD_RCV_COUNT]

(* The loop is such a satellite: a report carries the count of exactly the *)
(* commands executed before it, whatever is still waiting in the socket,   *)
(* and no command is counted twice or without having been taken from the   *)
(* queue in its turn.                                                      *)
SatelliteSpec == Sat!Spec

(* The loop never waits: whatever has arrived or has not, whatever a       *)
(* command left in the buffers and however late the pass, the next call    *)
(* can be made and returns, and reading the clock never keeps it from      *)
(* going on.  What the loop owes the ground rests on this.                 *)
NeverBlocks ==
    /\ ENABLED <<Pass>>_simVars
    /\ pc = "read" => ENABLED <<TimePasses>>_simVars

(* A command in the socket's buffer is eventually executed: reports never  *)
(* keep the loop from it.                                                  *)
CommandsHandled ==
    \A n \in 0..(MaxHandled - 1) :
        handled = n /\ rxq # <<>> ~> handled > n

(* A report is eventually sent, however often the loop polls and whatever  *)
(* commands it executes, unless one of them has cleared the flag of the    *)
(* periodic reports.                                                       *)
BeaconStarts == <>(tm # NoPacket \/ ~hk_enabled)

(* And the reports go on: while the flag of the periodic reports is set,   *)
(* each is followed by another, however late and irregular the passes are, *)
(* as long as the run has an interval left for it.  Nothing is claimed of  *)
(* reports while the flag is clear; see SilentWhileDisabled.               *)
BeaconGoesOn ==
    \A t \in 0..(MaxTime - TelemetrySend_Interval) :
        previousTMSendMillis = t /\ hk_enabled
            ~> previousTMSendMillis > t \/ ~hk_enabled

-----------------------------------------------------------------------------
(* What comments say of the loop, and the code does not do.                *)

(* The comments where the flag is set and where it is cleared: it enables  *)
(* and disables the periodic reports, so that none is sent while it is     *)
(* clear.                                                                  *)
SilentWhileDisabled == [][tm' # tm => hk_enabled]_simVars
=============================================================================
