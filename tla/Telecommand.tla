---------------------------- MODULE Telecommand ----------------------------
(***************************************************************************)
(* The simulator's command handler, telecommand.c: handle_sp unpacks a     *)
(* space packet into the static buffer space_packet_tc.data, and           *)
(* handle_pus_tc decodes that buffer, executes the command and announces   *)
(* its verification reports.  Both run to completion for one datagram, so  *)
(* a command is one step.                                                  *)
(*                                                                         *)
(* A command is the payload of an intact datagram: the bytes handle_sp     *)
(* copies, without packet header and checksum.  Bytes beyond the payload   *)
(* keep what earlier commands left there.  The reports are only announced  *)
(* on the simulator's console; the calls that would send them are          *)
(* commented out.                                                          *)
(***************************************************************************)
EXTENDS Integers, Sequences

CONSTANTS
    DataSize,       \* size of space_packet_tc.data, 256 in the code
    CountMod,       \* values of a uint16_t counter, 2^16 in the code
    Commands,       \* the payloads the ground may send
    MaxHandled      \* bound: commands handled in a run

Byte == 0..255
Word == 0..65535

ASSUME SizesAssumption ==
    /\ DataSize \in Nat /\ DataSize >= 11
    /\ CountMod \in Nat \ {0}
    /\ MaxHandled \in Nat

ASSUME CommandsAssumption ==
    \A cmd \in Commands : cmd \in Seq(Byte) /\ Len(cmd) <= DataSize

VARIABLES
    data,               \* space_packet_tc.data
    tc_3_5_SID,         \* tc_3_5.housekeeping_SID
    tc_5_5_ID,          \* tc_5_5.event_definition_ID
    CMD_RCV_COUNT,      \* the two counters of tm_3_25_1
    CMD_ACC_CNT,
    hk_enabled,         \* tm_3_25_1.event_enabled
    ev_enabled,         \* tm_5_1.event_enabled
    tm_5_1_data,        \* event ID and mode, tm_5_1.data[1] and [3]
    announced,          \* how often the last command announced each report
    last,               \* history: the last command
    handled,            \* history: commands handled
    uncounted,          \* history: those whose PUS version was not 1
    hkEnables,          \* history: those that decoded as TC[3,5] for SID 1
    evEnables           \* history: those that decoded as TC[5,5] for event 1

codeVars == <<data, tc_3_5_SID, tc_5_5_ID, CMD_RCV_COUNT, CMD_ACC_CNT,
              hk_enabled, ev_enabled, tm_5_1_data, announced>>
historyVars == <<last, handled, uncounted, hkEnables, evEnables>>
tcVars == <<codeVars, historyVars>>

-----------------------------------------------------------------------------
(* Fields of a command buffer d.                                           *)
U16(d, i) == d[i] * 256 + d[i + 1]

Version(d) == d[0] \div 16
AcceptanceRequested(d) == (d[0] \div 8) % 2 = 1
CompletionRequested(d) == d[0] % 2 = 1
Is(d, service, subtype) == d[1] = service /\ d[2] = subtype

(* What the branches that the switches run through decide: how often they  *)
(* accept and how often they reject.  A missing break runs one after the   *)
(* other.                                                                  *)
Accept == [accept |-> 1, reject |-> 0]
Reject == [accept |-> 0, reject |-> 1]
Silent == [accept |-> 0, reject |-> 0]

FallThrough(v, w) == [accept |-> v.accept + w.accept,
                      reject |-> v.reject + w.reject]

(* The value of TC[2,1] is never decoded: tc_2_1.Value stays 0.            *)
LedValue == 0

(* Mutated: the address is taken one byte too late.                        *)
Verdict_2_1_Late(d) ==
    LET Address == U16(d, 9)
    IN  CASE Address = 1 -> Accept
          [] Address = 2 -> Silent
          [] Address = 3 -> IF LedValue \in {0, 1} THEN Accept ELSE Reject
          [] OTHER -> Reject

(* Mutated: switching the LED off lacks its break.                         *)
Verdict_2_1_NoBreak(d) ==
    LET Address == U16(d, 8)
    IN  CASE Address = 1 -> Accept
          [] Address = 2 -> Silent
          [] Address = 3 -> FallThrough(Accept, Accept)
          [] OTHER -> Reject

Verdict_2_1(d) ==
    LET Address == U16(d, 8)
    IN  CASE Address = 1 -> Accept
          [] Address = 2 -> Silent
          [] Address = 3 -> IF LedValue \in {0, 1} THEN Accept ELSE Reject
          [] OTHER -> Reject

ModeChange(d) == /\ U16(d, 5) = 1 /\ d[7] = 7 /\ d[8] = 0
                 /\ U16(d, 9) \in 0..3

DeviceVerdict(d) ==
    CASE d[7] = 2 -> IF d[8] = 0 THEN Accept ELSE Reject
      [] d[7] = 5 -> IF d[8] = 0 THEN Accept
                     ELSE IF d[8] \in {1, 2} THEN Silent ELSE Reject
      [] d[7] = 7 -> IF d[8] = 0
                     THEN IF U16(d, 9) \in 0..3 THEN Accept ELSE Reject
                     ELSE IF d[8] \in {2, 3, 4, 6, 7, 8} THEN Silent
                     ELSE Reject
      [] OTHER -> Silent

(* TC[2,7] has no break: it ends in the default branch of its service.     *)
Verdict_2_7(d) ==
    FallThrough(IF U16(d, 5) = 1 THEN DeviceVerdict(d) ELSE Reject, Reject)

KnownID(id) == IF id = 1 THEN Accept ELSE Reject

(* TC[3,5] lacks two breaks: SID 1 runs on into the branch of an unknown   *)
(* SID, and the command runs on into the case of TC[3,6].                  *)
Verdict_3_5(sid) ==
    FallThrough(FallThrough(IF sid = 1 THEN Accept ELSE Silent, Reject),
                KnownID(sid))

-----------------------------------------------------------------------------
(* The buffer after handle_sp has copied the payload over buffer b.        *)
Unpacked(b, cmd) ==
    [i \in 0..(DataSize - 1) |-> IF i < Len(cmd) THEN cmd[i + 1] ELSE b[i]]

(* Mutated: the counter is wider than its telemetry field.                 *)
CountAccepted_Wide(d, v) == CMD_ACC_CNT' = CMD_ACC_CNT + v.accept

CountAccepted(d, v) == CMD_ACC_CNT' = (CMD_ACC_CNT + v.accept) % CountMod

(* The leaves of the switches: count what was accepted, announce the       *)
(* reports the acknowledgement flags ask for.                              *)
Conclude(d, v, events) ==
    /\ CountAccepted(d, v)
    /\ announced' =
         [TM_1_1 |-> IF AcceptanceRequested(d) THEN v.accept ELSE 0,
          TM_1_2 |-> IF AcceptanceRequested(d) THEN v.reject ELSE 0,
          TM_1_7 |-> IF CompletionRequested(d) THEN v.accept ELSE 0,
          TM_1_8 |-> IF CompletionRequested(d) THEN v.reject ELSE 0,
          TM_5_1 |-> events]

TC_2_1(d) ==
    /\ Is(d, 2, 1)
    /\ Conclude(d, Verdict_2_1(d), 0)
    /\ UNCHANGED <<tc_3_5_SID, tc_5_5_ID, hk_enabled, ev_enabled, tm_5_1_data>>

TC_2_7(d) ==
    LET reported == ModeChange(d) /\ ev_enabled
    IN  /\ Is(d, 2, 7)
        /\ Conclude(d, Verdict_2_7(d), IF reported THEN 1 ELSE 0)
        /\ tm_5_1_data' = IF reported THEN <<1, U16(d, 9)>> ELSE tm_5_1_data
        /\ UNCHANGED <<tc_3_5_SID, tc_5_5_ID, hk_enabled, ev_enabled>>

(* The case of TC[3,6], which names no field of its own command.           *)
HkDisabled(sid, flag) == flag /\ sid # 1

(* TC[3,5] sets the flag for SID 1, then runs the case of TC[3,6].         *)
TC_3_5(d) ==
    LET sid == U16(d, 7)
        enabled == hk_enabled \/ sid = 1
    IN  /\ Is(d, 3, 5)
        /\ tc_3_5_SID' = sid
        /\ Conclude(d, Verdict_3_5(sid), 0)
        /\ hk_enabled' = HkDisabled(sid, enabled)
        /\ UNCHANGED <<tc_5_5_ID, ev_enabled, tm_5_1_data>>

(* Mutated: TC[3,6] decodes and uses its own structure identifier.         *)
TC_3_6_OwnSID(d) ==
    /\ Is(d, 3, 6)
    /\ Conclude(d, KnownID(U16(d, 7)), 0)
    /\ hk_enabled' = HkDisabled(U16(d, 7), hk_enabled)
    /\ UNCHANGED <<tc_3_5_SID, tc_5_5_ID, ev_enabled, tm_5_1_data>>

TC_3_6(d) ==
    /\ Is(d, 3, 6)
    /\ Conclude(d, KnownID(tc_3_5_SID), 0)
    /\ hk_enabled' = HkDisabled(tc_3_5_SID, hk_enabled)
    /\ UNCHANGED <<tc_3_5_SID, tc_5_5_ID, ev_enabled, tm_5_1_data>>

TC_5_5(d) ==
    LET id == U16(d, 7)
    IN  /\ Is(d, 5, 5)
        /\ tc_5_5_ID' = id
        /\ Conclude(d, KnownID(id), 0)
        /\ ev_enabled' = (ev_enabled \/ id = 1)
        /\ UNCHANGED <<tc_3_5_SID, hk_enabled, tm_5_1_data>>

(* Mutated: TC[5,6] uses the event ID it decodes.                          *)
TC_5_6_OwnID(d) ==
    /\ Is(d, 5, 6)
    /\ Conclude(d, KnownID(U16(d, 7)), 0)
    /\ ev_enabled' = (ev_enabled /\ U16(d, 7) # 1)
    /\ UNCHANGED <<tc_3_5_SID, tc_5_5_ID, hk_enabled, tm_5_1_data>>

(* TC[5,6] decodes its own event ID and then looks at that of TC[5,5].     *)
TC_5_6(d) ==
    /\ Is(d, 5, 6)
    /\ Conclude(d, KnownID(tc_5_5_ID), 0)
    /\ ev_enabled' = (ev_enabled /\ tc_5_5_ID # 1)
    /\ UNCHANGED <<tc_3_5_SID, tc_5_5_ID, hk_enabled, tm_5_1_data>>

TC_17_1(d) ==
    /\ Is(d, 17, 1)
    /\ Conclude(d, Accept, 0)
    /\ UNCHANGED <<tc_3_5_SID, tc_5_5_ID, hk_enabled, ev_enabled, tm_5_1_data>>

TC_23(d) ==
    /\ d[1] = 23
    /\ Conclude(d, Silent, 0)
    /\ UNCHANGED <<tc_3_5_SID, tc_5_5_ID, hk_enabled, ev_enabled, tm_5_1_data>>

Supported == {<<2, 1>>, <<2, 7>>, <<3, 5>>, <<3, 6>>, <<5, 5>>, <<5, 6>>,
              <<17, 1>>}

Unsupported(d) ==
    /\ d[1] # 23 /\ <<d[1], d[2]>> \notin Supported
    /\ Conclude(d, Reject, 0)
    /\ UNCHANGED <<tc_3_5_SID, tc_5_5_ID, hk_enabled, ev_enabled, tm_5_1_data>>

handle_pus_tc(d) ==
    /\ CMD_RCV_COUNT' = IF Version(d) = 1
                        THEN (CMD_RCV_COUNT + 1) % CountMod ELSE CMD_RCV_COUNT
    /\ \/ TC_2_1(d) \/ TC_2_7(d) \/ TC_3_5(d) \/ TC_3_6(d) \/ TC_5_5(d)
       \/ TC_5_6(d) \/ TC_17_1(d) \/ TC_23(d) \/ Unsupported(d)

(* What the history variables remember of a handled command.               *)
Remember(cmd, d) ==
    /\ last' = cmd
    /\ handled' = handled + 1
    /\ uncounted' = uncounted + IF Version(d) = 1 THEN 0 ELSE 1
    /\ hkEnables' = hkEnables + IF Is(d, 3, 5) /\ U16(d, 7) = 1 THEN 1 ELSE 0
    /\ evEnables' = evEnables + IF Is(d, 5, 5) /\ U16(d, 7) = 1 THEN 1 ELSE 0

(* check_for_tc with a datagram: handle_sp, then handle_pus_tc.            *)
HandleCommand(cmd) ==
    /\ data' = Unpacked(data, cmd)
    /\ handle_pus_tc(data')
    /\ Remember(cmd, data')

-----------------------------------------------------------------------------
NoReports == [TM_1_1 |-> 0, TM_1_2 |-> 0, TM_1_7 |-> 0, TM_1_8 |-> 0,
              TM_5_1 |-> 0]

Init ==
    /\ data = [i \in 0..(DataSize - 1) |-> 0]
    /\ tc_3_5_SID = 0
    /\ tc_5_5_ID = 0
    /\ CMD_RCV_COUNT = 0
    /\ CMD_ACC_CNT = 0
    /\ hk_enabled = TRUE
    /\ ev_enabled = TRUE
    /\ tm_5_1_data = <<0, 0>>
    /\ announced = NoReports
    /\ last = <<>>
    /\ handled = 0
    /\ uncounted = 0
    /\ hkEnables = 0
    /\ evEnables = 0

Next == /\ handled < MaxHandled
        /\ \E cmd \in Commands : HandleCommand(cmd)

Spec == Init /\ [][Next]_tcVars

-----------------------------------------------------------------------------
(* Every field holds a value of its type.                                  *)
TypeOK ==
    /\ data \in [0..(DataSize - 1) -> Byte]
    /\ tc_3_5_SID \in Word /\ tc_5_5_ID \in Word
    /\ CMD_RCV_COUNT \in 0..(CountMod - 1)
    /\ CMD_ACC_CNT \in 0..(CountMod - 1)
    /\ hk_enabled \in BOOLEAN /\ ev_enabled \in BOOLEAN
    /\ tm_5_1_data \in {<<0, 0>>} \cup ({1} \X (0..3))
    /\ announced \in [TM_1_1 : 0..2, TM_1_2 : 0..2, TM_1_7 : 0..2,
                     TM_1_8 : 0..2, TM_5_1 : 0..1]
    /\ last \in Commands \cup {<<>>}
    /\ handled \in 0..MaxHandled
    /\ uncounted \in 0..handled /\ hkEnables \in 0..handled
    /\ evEnables \in 0..handled

(* The flag of periodic housekeeping is off exactly if some command asked  *)
(* to enable it: TC[3,5] falls through into TC[3,6], and TC[3,6] acts on   *)
(* the identifier the last TC[3,5] left behind.  No sequence of commands   *)
(* sets the flag again, and none clears it without a TC[3,5].              *)
HkOffOnceEnabled == hk_enabled <=> hkEnables = 0

(* Event reports go off only after a command asked to enable them: TC[5,6] *)
(* acts on the identifier of the last TC[5,5], so a fresh simulator cannot *)
(* be told to stop reporting.                                              *)
EventsOffNeedEnable == ~ev_enabled => evEnables > 0

(* The counters the ground compares.  While neither has wrapped, received  *)
(* counts every command with PUS version 1, and accepted exceeds the       *)
(* number of commands by at most one per TC[3,5] for SID 1.                *)
CountersExplained ==
    2 * handled < CountMod =>
        /\ CMD_RCV_COUNT = handled - uncounted
        /\ CMD_ACC_CNT <= handled + hkEnables

(* The number of payload bytes a command must have for its branch to read  *)
(* only bytes of its own.                                                  *)
BytesRead(cmd) ==
    CASE cmd[2] = 2 /\ cmd[3] = 1 -> 10
      [] cmd[2] = 2 /\ cmd[3] = 7 -> 11
      [] cmd[2] \in {3, 5} /\ cmd[3] = 5 -> 9
      [] OTHER -> 3

Complete(cmd) == Len(cmd) >= 3 /\ Len(cmd) >= BytesRead(cmd)

(* What the buffer alone decides of a command.                             *)
BufferVerdict(d) ==
    CASE Is(d, 2, 1) -> Verdict_2_1(d)
      [] Is(d, 2, 7) -> Verdict_2_7(d)
      [] Is(d, 3, 5) -> Verdict_3_5(U16(d, 7))
      [] Is(d, 5, 5) -> KnownID(U16(d, 7))
      [] OTHER -> Silent

(* Whatever earlier, longer commands have left in the static buffer, a     *)
(* complete command gets the verdict it would get in an empty buffer.      *)
CompleteCommandsStandAlone ==
    \A cmd \in Commands : Complete(cmd) =>
        LET empty == [i \in 0..(DataSize - 1) |-> 0]
        IN  BufferVerdict(Unpacked(data, cmd))
              = BufferVerdict(Unpacked(empty, cmd))

-----------------------------------------------------------------------------
(* What comments and documents say of the handler, and the code does not   *)
(* do.                                                                     *)

(* The user guide's table of acknowledgements: a requested acceptance      *)
(* report is given, as successful or as unsuccessful, not both.            *)
OneVerdict ==
    handled > 0 /\ AcceptanceRequested(data)
        => announced.TM_1_1 + announced.TM_1_2 = 1

(* The comments on TC[5,6]: it disables the reports of the event whose ID  *)
(* it carries.                                                             *)
DisableUsesOwnID ==
    handled > 0 /\ Is(data, 5, 6) /\ U16(data, 7) = 1 => ~ev_enabled
=============================================================================
