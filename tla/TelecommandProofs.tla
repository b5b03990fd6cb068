------------------------- MODULE TelecommandProofs -------------------------
(***************************************************************************)
(* The command handler's invariants for every set of commands, every       *)
(* buffer size and every counter width.  The inductive invariant adds to   *)
(* the checked ones where a stored identifier 1 comes from: it can only    *)
(* have been left by a TC[3,5] or a TC[5,5] that was counted.              *)
(***************************************************************************)
EXTENDS Telecommand, TLAPS

Buffers == [0..(DataSize - 1) -> Byte]
Verdicts == [accept : 0..2, reject : 0..2]

IDsExplained == /\ tc_3_5_SID = 1 => hkEnables > 0
                /\ tc_5_5_ID = 1 => evEnables > 0

TCInv == TypeOK /\ HkOffOnceEnabled /\ EventsOffNeedEnable
         /\ CountersExplained /\ IDsExplained

(* A field of a buffer is a byte, and two of them make a word.             *)
LEMMA BufferFields ==
    ASSUME NEW d \in Buffers
    PROVE  /\ \A i \in 0..10 : d[i] \in Byte
           /\ \A i \in 0..9 : U16(d, i) \in Word
<1>1. \A i \in 0..10 : d[i] \in Byte
  BY SizesAssumption DEF Buffers
<1>2. \A x, y \in Byte : x * 256 + y \in Word
  BY SMT DEF Byte, Word
<1>3. ASSUME NEW i \in 0..9 PROVE U16(d, i) \in Word
  <2>1. d[i] \in Byte /\ d[i + 1] \in Byte
    BY <1>1
  <2> QED
    BY <1>2, <2>1 DEF U16
<1> QED
  BY <1>1, <1>3

(* handle_sp leaves a buffer of bytes.                                     *)
LEMMA UnpackedIsBuffer ==
    ASSUME NEW b \in Buffers, NEW cmd \in Commands
    PROVE  Unpacked(b, cmd) \in Buffers
<1>1. cmd \in Seq(Byte) /\ Len(cmd) \in Nat
  BY CommandsAssumption
<1>2. ASSUME NEW i \in 0..(DataSize - 1), i < Len(cmd)
      PROVE  cmd[i + 1] \in Byte
  <2>1. i + 1 \in 1..Len(cmd)
    BY <1>1, <1>2, SizesAssumption
  <2> QED
    BY <1>1, <2>1
<1>3. ASSUME NEW i \in 0..(DataSize - 1)
      PROVE  (IF i < Len(cmd) THEN cmd[i + 1] ELSE b[i]) \in Byte
  BY <1>2 DEF Buffers
<1> QED
  BY <1>3 DEF Unpacked, Buffers

(* No verdict accepts more than once, except that of a TC[3,5].            *)
LEMMA VerdictsBounded ==
    /\ Accept \in Verdicts /\ Accept.accept = 1
    /\ Reject \in Verdicts /\ Reject.accept = 0
    /\ Silent \in Verdicts /\ Silent.accept = 0
    /\ \A id : KnownID(id) \in {Accept, Reject}
    /\ \A d : Verdict_2_1(d) \in {Accept, Silent, Reject}
    /\ \A d : DeviceVerdict(d) \in {Accept, Silent, Reject}
<1>1. /\ Accept \in Verdicts /\ Accept.accept = 1
      /\ Reject \in Verdicts /\ Reject.accept = 0
      /\ Silent \in Verdicts /\ Silent.accept = 0
  BY DEF Accept, Reject, Silent, Verdicts
<1>2. \A id : KnownID(id) \in {Accept, Reject}
  BY DEF KnownID
<1>3. \A d : Verdict_2_1(d) \in {Accept, Silent, Reject}
  BY DEF Verdict_2_1
<1>4. \A d : DeviceVerdict(d) \in {Accept, Silent, Reject}
  BY DEF DeviceVerdict
<1> QED
  BY <1>1, <1>2, <1>3, <1>4

(* Falling through adds the two outcomes.                                  *)
LEMMA FallThroughBounded ==
    ASSUME NEW v \in {Accept, Silent, Reject},
           NEW w \in {Accept, Silent, Reject}
    PROVE  /\ FallThrough(v, w) \in Verdicts
           /\ w = Reject => FallThrough(v, w).accept \in 0..1
BY DEF FallThrough, Accept, Silent, Reject, Verdicts

(* The leaves count and announce what the verdict says, within bounds.     *)
LEMMA ConcludeBounded ==
    ASSUME NEW d \in Buffers, NEW v \in Verdicts, NEW e \in 0..1,
           Conclude(d, v, e)
    PROVE  /\ CMD_ACC_CNT' = (CMD_ACC_CNT + v.accept) % CountMod
           /\ announced' \in [TM_1_1 : 0..2, TM_1_2 : 0..2, TM_1_7 : 0..2,
                              TM_1_8 : 0..2, TM_5_1 : 0..1]
BY DEF Conclude, CountAccepted, Verdicts

-----------------------------------------------------------------------------
EnablesHk(d) == Is(d, 3, 5) /\ U16(d, 7) = 1
EnablesEv(d) == Is(d, 5, 5) /\ U16(d, 7) = 1

(* Everything the invariants need to know of a handled command: its        *)
(* acceptances, the two flags and the two identifiers it leaves behind.    *)
CountEffect(d) ==
    /\ \E n \in 0..2 : /\ CMD_ACC_CNT' = (CMD_ACC_CNT + n) % CountMod
                       /\ n = 2 => EnablesHk(d)
    /\ announced' \in [TM_1_1 : 0..2, TM_1_2 : 0..2, TM_1_7 : 0..2,
                       TM_1_8 : 0..2, TM_5_1 : 0..1]

FlagEffect(d) ==
    /\ hk_enabled' \in BOOLEAN /\ ev_enabled' \in BOOLEAN
    /\ hk_enabled' => hk_enabled /\ ~EnablesHk(d)
    /\ ~hk_enabled' => ~hk_enabled \/ EnablesHk(d) \/ tc_3_5_SID = 1
    /\ ~ev_enabled' => ~ev_enabled \/ tc_5_5_ID = 1
    /\ tc_3_5_SID' \in Word /\ tc_5_5_ID' \in Word
    /\ tc_3_5_SID' = 1 => tc_3_5_SID = 1 \/ EnablesHk(d)
    /\ tc_5_5_ID' = 1 => tc_5_5_ID = 1 \/ EnablesEv(d)

(* A verdict that accepts at most once has the effect of an ordinary       *)
(* command on the counters.                                                *)
LEMMA OrdinaryCount ==
    ASSUME NEW d \in Buffers, NEW v \in Verdicts, NEW e \in 0..1,
           Conclude(d, v, e), v.accept \in 0..1
    PROVE  CountEffect(d)
<1>1. /\ CMD_ACC_CNT' = (CMD_ACC_CNT + v.accept) % CountMod
      /\ announced' \in [TM_1_1 : 0..2, TM_1_2 : 0..2, TM_1_7 : 0..2,
                         TM_1_8 : 0..2, TM_5_1 : 0..1]
  BY ConcludeBounded
<1>2. v.accept \in 0..2 /\ v.accept # 2
  OBVIOUS
<1> QED
  BY <1>1, <1>2 DEF CountEffect

(* The verdicts of a single branch accept at most once.                    *)
LEMMA PlainVerdicts ==
    ASSUME NEW v \in {Accept, Silent, Reject}
    PROVE  v \in Verdicts /\ v.accept \in 0..1
BY VerdictsBounded

(* Every branch of handle_pus_tc has the effect on the counters that the   *)
(* invariants rely on.                                                     *)
LEMMA CommandCounts ==
    ASSUME TypeOK, NEW d \in Buffers, handle_pus_tc(d)
    PROVE  CountEffect(d)
<1>1. CASE TC_2_1(d)
  <2>1. Conclude(d, Verdict_2_1(d), 0)
    BY <1>1 DEF TC_2_1
  <2>2. Verdict_2_1(d) \in Verdicts /\ Verdict_2_1(d).accept \in 0..1
    BY VerdictsBounded, PlainVerdicts
  <2> QED
    BY <2>1, <2>2, OrdinaryCount
<1>2. CASE TC_2_7(d)
  <2> DEFINE reported == ModeChange(d) /\ ev_enabled
  <2>1. Conclude(d, Verdict_2_7(d), IF reported THEN 1 ELSE 0)
    BY <1>2 DEF TC_2_7
  <2>2. /\ Verdict_2_7(d) \in Verdicts
        /\ Verdict_2_7(d).accept \in 0..1
    <3>1. (IF U16(d, 5) = 1 THEN DeviceVerdict(d) ELSE Reject)
             \in {Accept, Silent, Reject}
      BY VerdictsBounded
    <3> QED
      BY <3>1, FallThroughBounded DEF Verdict_2_7
  <2>3. (IF reported THEN 1 ELSE 0) \in 0..1
    OBVIOUS
  <2> QED
    BY <2>1, <2>2, <2>3, OrdinaryCount
<1>3. CASE TC_3_5(d)
  <2> DEFINE sid == U16(d, 7)
             v == Verdict_3_5(sid)
  <2>1. Conclude(d, v, 0)
    BY <1>3 DEF TC_3_5
  <2>2. v \in Verdicts /\ v.accept \in 0..2
    BY DEF Verdict_3_5, KnownID, FallThrough, Accept, Reject, Silent, Verdicts
  <2>3. v.accept = 2 => EnablesHk(d)
    <3>1. sid # 1 => v.accept = 0
      BY DEF Verdict_3_5, KnownID, FallThrough, Reject, Silent
    <3> QED
      BY <1>3, <3>1 DEF EnablesHk, TC_3_5
  <2>4. /\ CMD_ACC_CNT' = (CMD_ACC_CNT + v.accept) % CountMod
        /\ announced' \in [TM_1_1 : 0..2, TM_1_2 : 0..2, TM_1_7 : 0..2,
                           TM_1_8 : 0..2, TM_5_1 : 0..1]
    BY <2>1, <2>2, ConcludeBounded
  <2> QED
    BY <2>2, <2>3, <2>4 DEF CountEffect
<1>4. CASE TC_3_6(d)
  <2>1. Conclude(d, KnownID(tc_3_5_SID), 0)
    BY <1>4 DEF TC_3_6
  <2>2. KnownID(tc_3_5_SID) \in {Accept, Silent, Reject}
    BY VerdictsBounded
  <2> QED
    BY <2>1, <2>2, PlainVerdicts, OrdinaryCount
<1>5. CASE TC_5_5(d)
  <2>1. Conclude(d, KnownID(U16(d, 7)), 0)
    BY <1>5 DEF TC_5_5
  <2>2. KnownID(U16(d, 7)) \in {Accept, Silent, Reject}
    BY VerdictsBounded
  <2> QED
    BY <2>1, <2>2, PlainVerdicts, OrdinaryCount
<1>6. CASE TC_5_6(d)
  <2>1. Conclude(d, KnownID(tc_5_5_ID), 0)
    BY <1>6 DEF TC_5_6
  <2>2. KnownID(tc_5_5_ID) \in {Accept, Silent, Reject}
    BY VerdictsBounded
  <2> QED
    BY <2>1, <2>2, PlainVerdicts, OrdinaryCount
<1>7. CASE TC_17_1(d) \/ TC_23(d) \/ Unsupported(d)
  <2>1. \E v \in {Accept, Silent, Reject} : Conclude(d, v, 0)
    BY <1>7 DEF TC_17_1, TC_23, Unsupported
  <2> QED
    BY <2>1, PlainVerdicts, OrdinaryCount
<1> QED
  BY <1>1, <1>2, <1>3, <1>4, <1>5, <1>6, <1>7 DEF handle_pus_tc

(* Every branch of handle_pus_tc has the effect on the flags and stored    *)
(* identifiers that the invariants rely on.                                *)
LEMMA CommandFlags ==
    ASSUME TypeOK, NEW d \in Buffers, handle_pus_tc(d)
    PROVE  /\ FlagEffect(d)
           /\ tm_5_1_data' \in {<<0, 0>>} \cup ({1} \X (0..3))
           /\ CMD_RCV_COUNT' = IF Version(d) = 1
                               THEN (CMD_RCV_COUNT + 1) % CountMod
                               ELSE CMD_RCV_COUNT
<1> USE DEF FlagEffect, TypeOK
<1>1. CASE TC_2_7(d)
  <2>1. /\ UNCHANGED <<tc_3_5_SID, tc_5_5_ID, hk_enabled, ev_enabled>>
        /\ ~EnablesHk(d) /\ ~EnablesEv(d)
    BY <1>1 DEF TC_2_7, EnablesHk, EnablesEv, Is
  <2>2. tm_5_1_data' \in {tm_5_1_data} \cup ({1} \X (0..3))
    BY <1>1 DEF TC_2_7, ModeChange
  <2> QED
    BY <2>1, <2>2 DEF handle_pus_tc
<1>2. CASE TC_3_5(d)
  <2>1. /\ tc_3_5_SID' = U16(d, 7) /\ U16(d, 7) \in Word
        /\ hk_enabled' = ((hk_enabled \/ U16(d, 7) = 1) /\ U16(d, 7) # 1)
        /\ UNCHANGED <<tc_5_5_ID, ev_enabled, tm_5_1_data>>
    BY <1>2, BufferFields DEF TC_3_5, HkDisabled
  <2>2. /\ EnablesHk(d) <=> U16(d, 7) = 1
        /\ ~EnablesEv(d)
    BY <1>2 DEF TC_3_5, EnablesHk, EnablesEv, Is
  <2> QED
    BY <2>1, <2>2 DEF handle_pus_tc
<1>3. CASE TC_3_6(d)
  <2>1. /\ hk_enabled' = (hk_enabled /\ tc_3_5_SID # 1)
        /\ UNCHANGED <<tc_3_5_SID, tc_5_5_ID, ev_enabled, tm_5_1_data>>
        /\ ~EnablesHk(d) /\ ~EnablesEv(d)
    BY <1>3 DEF TC_3_6, HkDisabled, EnablesHk, EnablesEv, Is
  <2> QED
    BY <2>1 DEF handle_pus_tc
<1>4. CASE TC_5_5(d)
  <2>1. /\ tc_5_5_ID' = U16(d, 7) /\ U16(d, 7) \in Word
        /\ ev_enabled' = (ev_enabled \/ U16(d, 7) = 1)
        /\ UNCHANGED <<tc_3_5_SID, hk_enabled, tm_5_1_data>>
    BY <1>4, BufferFields DEF TC_5_5
  <2>2. /\ EnablesEv(d) <=> U16(d, 7) = 1
        /\ ~EnablesHk(d)
    BY <1>4 DEF TC_5_5, EnablesHk, EnablesEv, Is
  <2> QED
    BY <2>1, <2>2 DEF handle_pus_tc
<1>5. CASE TC_5_6(d)
  <2>1. /\ ev_enabled' = (ev_enabled /\ tc_5_5_ID # 1)
        /\ UNCHANGED <<tc_3_5_SID, tc_5_5_ID, hk_enabled, tm_5_1_data>>
        /\ ~EnablesHk(d) /\ ~EnablesEv(d)
    BY <1>5 DEF TC_5_6, EnablesHk, EnablesEv, Is
  <2> QED
    BY <2>1 DEF handle_pus_tc
<1>6. CASE TC_2_1(d) \/ TC_17_1(d) \/ TC_23(d) \/ Unsupported(d)
  <2>1. /\ UNCHANGED <<tc_3_5_SID, tc_5_5_ID, hk_enabled, ev_enabled,
                      tm_5_1_data>>
        /\ ~EnablesHk(d) /\ ~EnablesEv(d)
    BY <1>6 DEF TC_2_1, TC_17_1, TC_23, Unsupported, Supported, EnablesHk,
                EnablesEv, Is
  <2> QED
    BY <2>1 DEF handle_pus_tc
<1> QED
  BY <1>1, <1>2, <1>3, <1>4, <1>5, <1>6 DEF handle_pus_tc

-----------------------------------------------------------------------------
(* The static zero values and simulator_init establish the invariant.      *)
LEMMA InitTCInv == Init => TCInv
<1> SUFFICES ASSUME Init PROVE TCInv
  OBVIOUS
<1>1. /\ data \in Buffers
      /\ tc_3_5_SID \in Word /\ tc_5_5_ID \in Word
      /\ tc_3_5_SID # 1 /\ tc_5_5_ID # 1
  BY SMT DEF Init, Buffers, Byte, Word
<1>2. /\ CMD_RCV_COUNT \in 0..(CountMod - 1)
      /\ CMD_ACC_CNT \in 0..(CountMod - 1)
      /\ handled \in 0..MaxHandled
      /\ uncounted \in 0..handled /\ hkEnables \in 0..handled
      /\ evEnables \in 0..handled
  BY SizesAssumption DEF Init
<1>3. announced \in [TM_1_1 : 0..2, TM_1_2 : 0..2, TM_1_7 : 0..2,
                     TM_1_8 : 0..2, TM_5_1 : 0..1]
  BY DEF Init, NoReports
<1>4. /\ hk_enabled \in BOOLEAN /\ ev_enabled \in BOOLEAN
      /\ tm_5_1_data = <<0, 0>> /\ last = <<>>
  BY DEF Init
<1>5. TypeOK
  BY <1>1, <1>2, <1>3, <1>4 DEF TypeOK, Buffers
<1>6. HkOffOnceEnabled /\ EventsOffNeedEnable /\ CountersExplained
  BY DEF Init, HkOffOnceEnabled, EventsOffNeedEnable, CountersExplained
<1> QED
  BY <1>1, <1>5, <1>6 DEF TCInv, IDsExplained

(* A counter of CountMod values keeps its range, and adding to it is       *)
(* ordinary addition as long as the sum fits.                              *)
LEMMA CounterSum ==
    ASSUME NEW c \in 0..(CountMod - 1), NEW n \in 0..2
    PROVE  /\ (c + n) % CountMod \in 0..(CountMod - 1)
           /\ c + n < CountMod => (c + n) % CountMod = c + n
BY SizesAssumption

(* Handling one command keeps every field in its type.                     *)
LEMMA HandleKeepsType ==
    ASSUME TCInv, handled < MaxHandled,
           NEW cmd \in Commands, NEW d \in Buffers,
           d = data', handle_pus_tc(d), Remember(cmd, d)
    PROVE  TypeOK'
<1> USE DEF TCInv
<1>1. PICK n \in 0..2 : CMD_ACC_CNT' = (CMD_ACC_CNT + n) % CountMod
  BY CommandCounts DEF CountEffect
<1>2. CMD_ACC_CNT' \in 0..(CountMod - 1)
  BY <1>1, CounterSum DEF TypeOK
<1>3. CMD_RCV_COUNT' \in 0..(CountMod - 1)
  <2>1. CMD_RCV_COUNT \in 0..(CountMod - 1)
    BY DEF TypeOK
  <2>2. (CMD_RCV_COUNT + 1) % CountMod \in 0..(CountMod - 1)
    BY <2>1, CounterSum
  <2>3. CMD_RCV_COUNT' \in {CMD_RCV_COUNT, (CMD_RCV_COUNT + 1) % CountMod}
    BY CommandFlags
  <2> QED
    BY <2>1, <2>2, <2>3
<1>4. announced' \in [TM_1_1 : 0..2, TM_1_2 : 0..2, TM_1_7 : 0..2,
                      TM_1_8 : 0..2, TM_5_1 : 0..1]
  BY CommandCounts DEF CountEffect
<1>5. /\ hk_enabled' \in BOOLEAN /\ ev_enabled' \in BOOLEAN
      /\ tc_3_5_SID' \in Word /\ tc_5_5_ID' \in Word
      /\ tm_5_1_data' \in {<<0, 0>>} \cup ({1} \X (0..3))
  BY CommandFlags DEF FlagEffect
<1>6. /\ handled' \in 0..MaxHandled
      /\ uncounted' \in 0..handled' /\ hkEnables' \in 0..handled'
      /\ evEnables' \in 0..handled'
  BY SizesAssumption DEF TypeOK, Remember
<1>7. last' \in Commands \cup {<<>>}
  BY DEF Remember
<1>8. data' \in [0..(DataSize - 1) -> Byte]
  BY DEF Buffers
<1> QED
  BY <1>2, <1>3, <1>4, <1>5, <1>6, <1>7, <1>8 DEF TypeOK

(* Handling one command keeps what the two report flags say of the         *)
(* commands so far.                                                        *)
LEMMA HandleKeepsFlags ==
    ASSUME TCInv, NEW cmd, NEW d \in Buffers,
           d = data', handle_pus_tc(d), Remember(cmd, d)
    PROVE  (HkOffOnceEnabled /\ EventsOffNeedEnable /\ IDsExplained)'
<1>1. FlagEffect(d)
  BY CommandFlags DEF TCInv
<1>2. /\ hkEnables' = hkEnables + IF EnablesHk(d) THEN 1 ELSE 0
      /\ evEnables' = evEnables + IF EnablesEv(d) THEN 1 ELSE 0
      /\ hkEnables \in Nat /\ evEnables \in Nat
  BY DEF Remember, EnablesHk, EnablesEv, TCInv, TypeOK
<1> QED
  BY <1>1, <1>2
     DEF TCInv, HkOffOnceEnabled, EventsOffNeedEnable, IDsExplained, FlagEffect

(* Handling one command keeps the relation between the two counters.       *)
LEMMA HandleKeepsCounters ==
    ASSUME TCInv, NEW cmd, NEW d \in Buffers,
           d = data', handle_pus_tc(d), Remember(cmd, d)
    PROVE  CountersExplained'
<1> SUFFICES ASSUME 2 * handled' < CountMod
             PROVE  /\ CMD_RCV_COUNT' = handled' - uncounted'
                    /\ CMD_ACC_CNT' <= handled' + hkEnables'
  BY DEF CountersExplained
<1>1. /\ handled \in Nat /\ uncounted \in 0..handled /\ hkEnables \in 0..handled
      /\ CMD_RCV_COUNT \in 0..(CountMod - 1)
      /\ CMD_ACC_CNT \in 0..(CountMod - 1)
      /\ CountMod \in Nat \ {0}
  BY SizesAssumption DEF TCInv, TypeOK
<1>2. /\ handled' = handled + 1
      /\ uncounted' = uncounted + IF Version(d) = 1 THEN 0 ELSE 1
      /\ hkEnables' = hkEnables + IF EnablesHk(d) THEN 1 ELSE 0
  BY DEF Remember, EnablesHk
<1>3. /\ CMD_RCV_COUNT = handled - uncounted
      /\ CMD_ACC_CNT <= handled + hkEnables
  BY <1>1, <1>2 DEF TCInv, CountersExplained
<1>4. CMD_RCV_COUNT' = handled' - uncounted'
  <2>1. CMD_RCV_COUNT' = IF Version(d) = 1
                         THEN (CMD_RCV_COUNT + 1) % CountMod
                         ELSE CMD_RCV_COUNT
    BY CommandFlags DEF TCInv
  <2>2. CMD_RCV_COUNT + 1 < CountMod
    BY <1>1, <1>2, <1>3
  <2>3. (CMD_RCV_COUNT + 1) % CountMod = CMD_RCV_COUNT + 1
    BY <1>1, <2>2, CounterSum
  <2> QED
    BY <1>1, <1>2, <1>3, <2>1, <2>3
<1>5. CMD_ACC_CNT' <= handled' + hkEnables'
  <2>1. PICK n \in 0..2 : /\ CMD_ACC_CNT' = (CMD_ACC_CNT + n) % CountMod
                          /\ n = 2 => EnablesHk(d)
    BY CommandCounts DEF CountEffect, TCInv
  <2>2. CMD_ACC_CNT + n <= handled' + hkEnables'
    BY <1>1, <1>2, <1>3, <2>1
  <2>3. (CMD_ACC_CNT + n) % CountMod <= CMD_ACC_CNT + n
    BY <1>1
  <2> QED
    BY <1>1, <1>2, <2>1, <2>2, <2>3
<1> QED
  BY <1>4, <1>5

(* Every step of the handler preserves the inductive invariant.            *)
LEMMA NextTCInv == TCInv /\ [Next]_tcVars => TCInv'
<1>1. ASSUME TCInv, Next PROVE TCInv'
  <2>1. PICK cmd \in Commands : HandleCommand(cmd)
    BY <1>1 DEF Next
  <2>2. PICK d \in Buffers :
           d = data' /\ handle_pus_tc(d) /\ Remember(cmd, d)
    <3>1. data \in Buffers
      BY <1>1 DEF TCInv, TypeOK, Buffers
    <3>2. data' \in Buffers
      BY <2>1, <3>1, UnpackedIsBuffer DEF HandleCommand
    <3> QED
      BY <2>1, <3>2 DEF HandleCommand
  <2>3. TypeOK'
    BY <1>1, <2>2, HandleKeepsType DEF Next
  <2>4. (HkOffOnceEnabled /\ EventsOffNeedEnable /\ IDsExplained)'
    BY <1>1, <2>2, HandleKeepsFlags
  <2>5. CountersExplained'
    BY <1>1, <2>2, HandleKeepsCounters
  <2> QED
    BY <2>3, <2>4, <2>5 DEF TCInv
<1>2. ASSUME TCInv, UNCHANGED tcVars PROVE TCInv'
  BY <1>2 DEF TCInv, TypeOK, HkOffOnceEnabled, EventsOffNeedEnable,
              CountersExplained, IDsExplained, tcVars, codeVars, historyVars
<1> QED
  BY <1>1, <1>2

(* The inductive invariant holds in every reachable state.                 *)
LEMMA TCInvHolds == Spec => []TCInv
  BY InitTCInv, NextTCInv, PTL DEF Spec

-----------------------------------------------------------------------------
(* Whatever payloads are sent in whatever order, every field of the        *)
(* handler keeps a value of its type: no verdict counts or announces a     *)
(* report more than twice, and no copy leaves the buffer.                  *)
THEOREM CommandTypeCorrect == Spec => []TypeOK
  BY TCInvHolds, PTL DEF TCInv

(* The housekeeping flag is off exactly if some TC[3,5] for SID 1 was      *)
(* handled: no sequence of commands of any length can enable it.           *)
THEOREM EnableSwitchesOff == Spec => []HkOffOnceEnabled
  BY TCInvHolds, PTL DEF TCInv

(* Event reports can only be switched off after a TC[5,5] for event 1.     *)
THEOREM DisableNeedsEnable == Spec => []EventsOffNeedEnable
  BY TCInvHolds, PTL DEF TCInv

(* The received and accepted counters agree with the commands handled, for *)
(* every width of the counters, until one of them may have wrapped.        *)
THEOREM CountersAgree == Spec => []CountersExplained
  BY TCInvHolds, PTL DEF TCInv

-----------------------------------------------------------------------------
(* A complete command's branch reads only bytes handle_sp has just copied. *)
LEMMA VerdictIgnoresTail ==
    ASSUME NEW b, NEW e, NEW cmd \in Commands, Complete(cmd)
    PROVE  BufferVerdict(Unpacked(b, cmd)) = BufferVerdict(Unpacked(e, cmd))
<1> DEFINE x == Unpacked(b, cmd)
           y == Unpacked(e, cmd)
<1>1. Len(cmd) \in Nat /\ Len(cmd) <= DataSize /\ Len(cmd) >= 3
  BY CommandsAssumption DEF Complete
<1>2. ASSUME NEW i \in Nat, i < Len(cmd)
      PROVE  x[i] = cmd[i + 1] /\ y[i] = cmd[i + 1]
  <2>1. i \in 0..(DataSize - 1)
    BY <1>1, <1>2, SizesAssumption
  <2> QED
    BY <1>2, <2>1 DEF Unpacked
<1>3. /\ x[1] = cmd[2] /\ y[1] = cmd[2]
      /\ x[2] = cmd[3] /\ y[2] = cmd[3]
  <2>1. 1 \in Nat /\ 1 < Len(cmd) /\ 2 \in Nat /\ 2 < Len(cmd)
    BY <1>1
  <2>2. 1 + 1 = 2 /\ 2 + 1 = 3
    OBVIOUS
  <2> QED
    BY <1>2, <2>1, <2>2
<1> HIDE DEF x, y
<1>4. ASSUME NEW i \in Nat, i + 1 < Len(cmd)
      PROVE  U16(x, i) = U16(y, i)
  <2>1. x[i] = y[i] /\ x[i + 1] = y[i + 1]
    <3>1. i < Len(cmd) /\ i + 1 \in Nat
      BY <1>1, <1>4
    <3> QED
      BY <1>2, <1>4, <3>1
  <2> QED
    BY <2>1 DEF U16
<1>5. CASE cmd[2] = 2 /\ cmd[3] = 1
  <2>1. 8 \in Nat /\ 8 + 1 < Len(cmd)
    BY <1>1, <1>5 DEF Complete, BytesRead
  <2>2. U16(x, 8) = U16(y, 8)
    BY <1>4, <2>1
  <2>3. Is(x, 2, 1) /\ Is(y, 2, 1)
    BY <1>3, <1>5 DEF Is
  <2>4. /\ BufferVerdict(x) = Verdict_2_1(x)
        /\ BufferVerdict(y) = Verdict_2_1(y)
    BY <2>3 DEF BufferVerdict, Is
  <2> QED
    BY <2>2, <2>4 DEF Verdict_2_1, x, y
<1>6. CASE cmd[2] = 2 /\ cmd[3] = 7
  <2>1. Len(cmd) >= 11
    BY <1>1, <1>6 DEF Complete, BytesRead
  <2>2. U16(x, 5) = U16(y, 5) /\ U16(x, 9) = U16(y, 9)
    <3>1. 5 \in Nat /\ 5 + 1 < Len(cmd) /\ 9 \in Nat /\ 9 + 1 < Len(cmd)
      BY <1>1, <2>1
    <3> QED
      BY <1>4, <3>1
  <2>3. x[7] = y[7] /\ x[8] = y[8]
    <3>1. 7 \in Nat /\ 7 < Len(cmd) /\ 8 \in Nat /\ 8 < Len(cmd)
      BY <1>1, <2>1
    <3> QED
      BY <1>2, <3>1
  <2>4. /\ BufferVerdict(x) = Verdict_2_7(x)
        /\ BufferVerdict(y) = Verdict_2_7(y)
    BY <1>3, <1>6 DEF BufferVerdict, Is
  <2>5. DeviceVerdict(x) = DeviceVerdict(y)
    BY <2>2, <2>3, Zenon DEF DeviceVerdict
  <2> QED
    BY <2>2, <2>4, <2>5 DEF Verdict_2_7, x, y
<1>7. CASE cmd[2] \in {3, 5} /\ cmd[3] = 5
  <2>1. 7 \in Nat /\ 7 + 1 < Len(cmd)
    BY <1>1, <1>7 DEF Complete, BytesRead
  <2>2. U16(x, 7) = U16(y, 7)
    BY <1>4, <2>1
  <2>3. CASE cmd[2] = 3
    <3>1. /\ BufferVerdict(x) = Verdict_3_5(U16(x, 7))
          /\ BufferVerdict(y) = Verdict_3_5(U16(y, 7))
      BY <1>3, <1>7, <2>3 DEF BufferVerdict, Is
    <3> QED
      BY <2>2, <3>1 DEF x, y
  <2>4. CASE cmd[2] = 5
    <3>1. /\ BufferVerdict(x) = KnownID(U16(x, 7))
          /\ BufferVerdict(y) = KnownID(U16(y, 7))
      BY <1>3, <1>7, <2>4 DEF BufferVerdict, Is
    <3> QED
      BY <2>2, <3>1 DEF x, y
  <2> QED
    BY <1>7, <2>3, <2>4
<1>8. CASE /\ ~(cmd[2] = 2 /\ cmd[3] \in {1, 7})
           /\ ~(cmd[2] \in {3, 5} /\ cmd[3] = 5)
  <2>1. BufferVerdict(x) = Silent /\ BufferVerdict(y) = Silent
    BY <1>3, <1>8 DEF BufferVerdict, Is
  <2> QED
    BY <2>1 DEF x, y
<1> QED
  BY <1>5, <1>6, <1>7, <1>8

(* The verdict of a complete command never depends on what earlier         *)
(* commands left in the static buffer.                                     *)
THEOREM CommandsStandAlone == Spec => []CompleteCommandsStandAlone
<1>1. CompleteCommandsStandAlone
  BY VerdictIgnoresTail DEF CompleteCommandsStandAlone
<1> QED
  BY <1>1, PTL
=============================================================================
