---------------------------- MODULE EGSEProofs ----------------------------
(***************************************************************************)
(* What Yamcs shows is of the present run and true, for every size of the  *)
(* sockets, any number of runs, wherever each was broken off, and whichever *)
(* process died in it.                                                     *)
(***************************************************************************)
EXTENDS EGSE, SequenceTheorems, TLAPS

-----------------------------------------------------------------------------
(* Where the script is, and what it has reached there.                     *)
BeforeStart == {"term_yamcs", "check_yamcs", "kill_yamcs", "term_sim",
                "start_yamcs", "start_sim"}

ScriptInv ==
    /\ script \in BeforeStart => simRun < run
    /\ script \in {"term_sim", "start_yamcs"} => yamcs = "off"
    /\ script \in {"start_yamcs", "start_sim"} => sim = "off"
    /\ script = "start_sim" => yamcs = "off" \/ yamcsRun = run

(* A Yamcs and a simulator that run at once are of the same run, and all   *)
(* reports that Yamcs has are of that run.                                 *)
RunsInv ==
    /\ yamcs # "off" /\ sim = "up" => simRun = yamcsRun
    /\ ~Listening => shown = NoReport /\ downlink = <<>>
    /\ downlink # <<>> \/ shown.from # 0 => simRun = yamcsRun
    /\ \A i \in 1..Len(downlink) : downlink[i].from = yamcsRun
    /\ shown.from \in {0, yamcsRun}

(* No count is ahead of the simulator's, nor that of the commands issued.  *)
CountsInv ==
    /\ simRun = yamcsRun => CMD_RCV_COUNT + lost + Len(rxq) <= issued
    /\ \A i \in 1..Len(downlink) :
          downlink[i].CMD_RCV_COUNT <= CMD_RCV_COUNT
    /\ shown.from # 0 => shown.CMD_RCV_COUNT <= CMD_RCV_COUNT

SatInv == tm \in [seq : 0..(SeqMod - 1), CMD_RCV_COUNT : 0..(CountMod - 1)]

EGSEInv == TypeOK /\ SatInv /\ ScriptInv /\ RunsInv /\ CountsInv

(* At first nothing runs and nothing is shown.                             *)
LEMMA InitEGSEInv == Init => EGSEInv
<1> SUFFICES ASSUME Init PROVE EGSEInv
  OBVIOUS
<1> USE BoundsAssumption DEF Init, Sat!Init, NoReport, Listening
<1>1. TypeOK
  BY DEF TypeOK, Reports
<1>2. SatInv
  BY DEF SatInv, Sat!NoReport
<1>3. ScriptInv
  BY DEF ScriptInv, BeforeStart
<1>4. RunsInv
  BY DEF RunsInv
<1>5. CountsInv
  BY DEF CountsInv
<1> QED
  BY <1>1, <1>2, <1>3, <1>4, <1>5 DEF EGSEInv

-----------------------------------------------------------------------------
(* The script.                                                             *)
LEMMA ScriptKeeps ==
    ASSUME EGSEInv, StartScript \/ pkill_yamcs \/ pgrep_yamcs
    PROVE  EGSEInv'
<1> USE DEF EGSEInv, yamcsVars, simVars, satVars, Step
<1>1. CASE StartScript
  <2> USE <1>1 DEF StartScript
  <2>1. TypeOK'
    BY BoundsAssumption DEF TypeOK
  <2>2. SatInv'
    BY DEF SatInv
  <2>3. ScriptInv'
    BY BoundsAssumption DEF ScriptInv, TypeOK
  <2>4. RunsInv' /\ CountsInv'
    BY DEF RunsInv, CountsInv, Listening
  <2> QED
    BY <2>1, <2>2, <2>3, <2>4
<1>2. CASE pkill_yamcs
  <2> USE <1>2 DEF pkill_yamcs
  <2>1. TypeOK' /\ SatInv'
    BY DEF TypeOK, SatInv
  <2>2. ScriptInv'
    BY DEF ScriptInv, BeforeStart
  <2>3. RunsInv' /\ CountsInv'
    BY DEF RunsInv, CountsInv, Listening, TypeOK
  <2> QED
    BY <2>1, <2>2, <2>3
<1>3. CASE pgrep_yamcs
  <2> USE <1>3 DEF pgrep_yamcs
  <2>1. TypeOK' /\ SatInv'
    BY DEF TypeOK, SatInv
  <2>2. ScriptInv'
    BY DEF ScriptInv, BeforeStart
  <2>3. RunsInv' /\ CountsInv'
    BY DEF RunsInv, CountsInv, Listening
  <2> QED
    BY <2>1, <2>2, <2>3
<1> QED
  BY <1>1, <1>2, <1>3

(* A Yamcs that is gone takes its reports with it.                         *)
LEMMA GoneRuns ==
    ASSUME EGSEInv, YamcsGone, UNCHANGED <<run, simVars, lost>>
    PROVE  SatInv' /\ RunsInv' /\ CountsInv'
BY BoundsAssumption
   DEF EGSEInv, YamcsGone, simVars, satVars, SatInv, RunsInv, CountsInv,
       Listening, NoReport, TypeOK

(* A process that ends, by the script or by itself, leaves nothing behind  *)
(* that the others could mistake.                                          *)
LEMMA StopsKeep ==
    ASSUME EGSEInv, pkill_9_yamcs \/ YamcsExit \/ pkill_sim \/ SimExit
    PROVE  EGSEInv'
<1> USE DEF EGSEInv, Step
<1>1. CASE pkill_9_yamcs /\ yamcs # "off"
  <2>1. /\ script = "kill_yamcs" /\ script' = "term_sim"
        /\ YamcsGone /\ UNCHANGED <<run, simVars, lost>>
    BY <1>1 DEF pkill_9_yamcs
  <2>2. TypeOK'
    BY <2>1, BoundsAssumption
       DEF TypeOK, Reports, NoReport, YamcsGone, simVars, satVars
  <2>3. ScriptInv'
    BY <2>1 DEF ScriptInv, BeforeStart, YamcsGone, simVars
  <2> QED
    BY <2>1, <2>2, <2>3, GoneRuns
<1>2. CASE pkill_9_yamcs /\ yamcs = "off"
  <2>1. /\ script' = "aborted"
        /\ UNCHANGED <<run, yamcsVars, simVars, lost>>
    BY <1>2 DEF pkill_9_yamcs
  <2> USE <2>1 DEF yamcsVars, simVars, satVars
  <2>2. TypeOK' /\ SatInv'
    BY DEF TypeOK, SatInv
  <2>3. ScriptInv'
    BY DEF ScriptInv, BeforeStart
  <2>4. RunsInv' /\ CountsInv'
    BY DEF RunsInv, CountsInv, Listening
  <2> QED
    BY <2>2, <2>3, <2>4
<1>3. CASE YamcsExit
  <2>1. YamcsGone /\ UNCHANGED <<script, run, simVars, lost>>
    BY <1>3 DEF YamcsExit
  <2>2. TypeOK'
    BY <2>1, BoundsAssumption
       DEF TypeOK, Reports, NoReport, YamcsGone, simVars, satVars
  <2>3. ScriptInv'
    BY <2>1 DEF ScriptInv, BeforeStart, YamcsGone, simVars
  <2> QED
    BY <2>1, <2>2, <2>3, GoneRuns
<1>4. CASE pkill_sim
  <2> USE <1>4 DEF pkill_sim, yamcsVars, satVars
  <2>1. TypeOK' /\ SatInv'
    BY DEF TypeOK, SatInv
  <2>2. ScriptInv'
    BY DEF ScriptInv, BeforeStart
  <2>3. RunsInv' /\ CountsInv'
    BY DEF RunsInv, CountsInv, Listening
  <2> QED
    BY <2>1, <2>2, <2>3
<1>5. CASE SimExit
  <2> USE <1>5 DEF SimExit, yamcsVars, satVars
  <2>1. TypeOK' /\ SatInv'
    BY DEF TypeOK, SatInv
  <2>2. ScriptInv'
    BY DEF ScriptInv, BeforeStart
  <2>3. RunsInv' /\ CountsInv'
    BY DEF RunsInv, CountsInv, Listening
  <2> QED
    BY <2>1, <2>2, <2>3
<1> QED
  BY <1>1, <1>2, <1>3, <1>4, <1>5

(* Starting either process begins with nothing of an earlier run.          *)
LEMMA StartsKeep ==
    ASSUME EGSEInv, yamcsd \/ satll_sim \/ Bind
    PROVE  EGSEInv'
<1> USE DEF EGSEInv, Step
<1>1. CASE yamcsd
  <2>1. /\ script = "start_yamcs" /\ script' = "start_sim" /\ run' = run
        /\ yamcs = "off" /\ yamcs' = "booting" /\ yamcsRun' = run
        /\ issued' = 0 /\ lost' = 0 /\ shown' = NoReport
        /\ UNCHANGED <<downlink, simVars>>
    BY <1>1 DEF yamcsd, StartYamcs
  <2>2. simRun < run /\ sim = "off" /\ downlink = <<>>
        /\ simRun \in Nat /\ run \in Nat
    BY <2>1, BoundsAssumption
       DEF ScriptInv, BeforeStart, RunsInv, Listening, TypeOK
  <2> USE <2>1, <2>2 DEF simVars, satVars
  <2>3. TypeOK'
    BY BoundsAssumption DEF TypeOK, Reports, NoReport
  <2>4. SatInv' /\ ScriptInv'
    BY DEF SatInv, ScriptInv, BeforeStart
  <2>5. RunsInv'
    BY DEF RunsInv, Listening, NoReport
  <2>6. CountsInv'
    BY DEF CountsInv, NoReport
  <2> QED
    BY <2>3, <2>4, <2>5, <2>6
<1>2. CASE satll_sim
  <2>1. /\ script = "start_sim" /\ script' = "wait" /\ run' = run
        /\ UNCHANGED <<yamcsVars, lost>>
        /\ sim = "off" /\ simRun < run
        /\ yamcs = "off" \/ yamcsRun = run
    BY <1>2 DEF satll_sim, ScriptInv, BeforeStart
  <2>2. /\ sim' = "up" /\ simRun' = run /\ deaf' = deaf
        /\ rxq' = <<>> /\ CMD_RCV_COUNT' = 0 /\ sp_packet_count' = 1
        /\ tm' = Sat!NoReport
    BY <1>2, <2>1 DEF satll_sim, StartSim, Sat!Boot
  <2>3. simRun \in Nat /\ run \in Nat
    BY BoundsAssumption DEF TypeOK
  <2>4. downlink = <<>> /\ shown.from = 0
    BY <2>1, <2>3 DEF RunsInv, Listening, NoReport
  <2> USE <2>1, <2>2, <2>3, <2>4 DEF yamcsVars
  <2>5. TypeOK' /\ SatInv'
    BY BoundsAssumption DEF TypeOK, SatInv, Sat!NoReport
  <2>6. ScriptInv'
    BY DEF ScriptInv, BeforeStart
  <2>7. RunsInv'
    BY DEF RunsInv, Listening
  <2>8. CountsInv'
    BY BoundsAssumption DEF CountsInv, TypeOK
  <2> QED
    BY <2>5, <2>6, <2>7, <2>8
<1>3. CASE Bind
  <2> USE <1>3 DEF Bind, simVars, satVars
  <2>1. TypeOK' /\ SatInv'
    BY DEF TypeOK, SatInv
  <2>2. ScriptInv'
    BY DEF ScriptInv, BeforeStart
  <2>3. RunsInv' /\ CountsInv'
    BY DEF RunsInv, CountsInv, Listening
  <2> QED
    BY <2>1, <2>2, <2>3
<1> QED
  BY <1>1, <1>2, <1>3

-----------------------------------------------------------------------------
(* Yamcs shows the first report of its socket.                             *)
LEMMA ShowKeeps ==
    ASSUME EGSEInv, Show
    PROVE  EGSEInv'
<1> USE DEF EGSEInv
<1>1. /\ Listening /\ downlink # <<>>
      /\ shown' = Head(downlink) /\ downlink' = Tail(downlink)
      /\ UNCHANGED <<script, run, yamcs, yamcsRun, issued, simVars, lost>>
  BY DEF Show
<1>2. downlink \in Seq(Reports) /\ Len(downlink) <= LinkSize
  BY DEF TypeOK
<1>3. /\ shown' = downlink[1] /\ 1 \in 1..Len(downlink)
      /\ shown' \in Reports
      /\ downlink' \in Seq(Reports) /\ Len(downlink') = Len(downlink) - 1
      /\ \A i \in 1..Len(downlink') :
            downlink'[i] = downlink[i + 1] /\ i + 1 \in 1..Len(downlink)
  BY <1>1, <1>2
<1>4. shown'.from = yamcsRun /\ simRun = yamcsRun
      /\ shown'.CMD_RCV_COUNT <= CMD_RCV_COUNT
  BY <1>1, <1>3 DEF RunsInv, CountsInv
<1> USE <1>1 DEF simVars, satVars
<1>5. TypeOK'
  BY <1>2, <1>3, BoundsAssumption DEF TypeOK
<1>6. SatInv' /\ ScriptInv'
  BY DEF SatInv, ScriptInv
<1>7. RunsInv'
  BY <1>3, <1>4 DEF RunsInv, Listening
<1>8. CountsInv'
  BY <1>3, <1>4 DEF CountsInv
<1> QED
  BY <1>5, <1>6, <1>7, <1>8

(* A command is issued: it waits in the simulator's socket or is lost.     *)
LEMMA IssueKeeps ==
    ASSUME EGSEInv, Issue
    PROVE  EGSEInv'
<1> USE DEF EGSEInv
<1>1. /\ yamcs = "running" /\ issued < MaxIssued /\ issued' = issued + 1
      /\ UNCHANGED <<script, run, yamcs, yamcsRun, shown, downlink, sim,
                     simRun, deaf>>
  BY DEF Issue
<1>2. /\ issued \in Nat /\ lost \in Nat /\ lost <= issued
      /\ rxq \in Seq(BOOLEAN) /\ CMD_RCV_COUNT \in Nat
  BY BoundsAssumption DEF TypeOK
<1>3. CASE sim = "up" /\ Len(rxq) < QueueSize
  <2>1. PICK counted \in BOOLEAN : Sat!Receive(counted)
    BY <1>3 DEF Issue
  <2>2. /\ rxq' = Append(rxq, counted) /\ lost' = lost
        /\ UNCHANGED <<CMD_RCV_COUNT, sp_packet_count, tm>>
    BY <1>3, <2>1 DEF Issue, Sat!Receive
  <2>3. rxq' \in Seq(BOOLEAN) /\ Len(rxq') = Len(rxq) + 1
    BY <1>2, <2>2
  <2> USE <1>1, <1>2, <2>2, <2>3
  <2>4. TypeOK' /\ SatInv'
    BY <1>3, BoundsAssumption DEF TypeOK, SatInv
  <2>5. ScriptInv' /\ RunsInv'
    BY DEF ScriptInv, RunsInv, Listening
  <2>6. CountsInv'
    BY DEF CountsInv
  <2> QED
    BY <2>4, <2>5, <2>6
<1>4. CASE ~(sim = "up" /\ Len(rxq) < QueueSize)
  <2>1. lost' = lost + 1 /\ UNCHANGED satVars
    BY <1>4 DEF Issue
  <2> USE <1>1, <1>2, <2>1 DEF satVars
  <2>2. TypeOK' /\ SatInv'
    BY BoundsAssumption DEF TypeOK, SatInv
  <2>3. ScriptInv' /\ RunsInv'
    BY DEF ScriptInv, RunsInv, Listening
  <2>4. CountsInv'
    BY DEF CountsInv
  <2> QED
    BY <2>2, <2>3, <2>4
<1> QED
  BY <1>3, <1>4

(* The simulator executes a command: it moves from the queue to the count, *)
(* or to neither if it is not one that counts.                             *)
LEMMA ExecuteKeeps ==
    ASSUME EGSEInv, Execute
    PROVE  EGSEInv'
<1> USE DEF EGSEInv
<1>1. /\ rxq # <<>> /\ rxq' = Tail(rxq)
      /\ CMD_RCV_COUNT' = IF Head(rxq) THEN (CMD_RCV_COUNT + 1) % CountMod
                          ELSE CMD_RCV_COUNT
      /\ UNCHANGED <<sp_packet_count, tm>>
      /\ UNCHANGED <<script, run, yamcsVars, sim, simRun, deaf, lost>>
  BY DEF Execute, Sat!Execute
<1>2. /\ issued \in 0..MaxIssued /\ lost \in Nat
      /\ rxq \in Seq(BOOLEAN) /\ Len(rxq) <= QueueSize
      /\ CMD_RCV_COUNT \in 0..(CountMod - 1)
  BY BoundsAssumption DEF TypeOK
<1>3. rxq' \in Seq(BOOLEAN) /\ Len(rxq') = Len(rxq) - 1
  <2>1. rxq \in Seq(BOOLEAN) /\ rxq # <<>> /\ rxq' = Tail(rxq)
    BY <1>1, <1>2
  <2> HIDE DEF EGSEInv
  <2> QED
    BY <2>1
<1>4. Len(rxq) \in Nat /\ Len(rxq) >= 1
  <2>1. rxq \in Seq(BOOLEAN) /\ rxq # <<>>
    BY <1>1, <1>2
  <2> HIDE DEF EGSEInv
  <2> QED
    BY <2>1
<1>5. CMD_RCV_COUNT' \in 0..(CountMod - 1)
  <2>1. (CMD_RCV_COUNT + 1) % CountMod \in 0..(CountMod - 1)
    BY <1>2, BoundsAssumption
  <2> HIDE DEF EGSEInv
  <2> QED
    BY <1>1, <1>2, <2>1
<1>6. simRun = yamcsRun => /\ CMD_RCV_COUNT' + lost + Len(rxq') <= issued
                           /\ CMD_RCV_COUNT <= CMD_RCV_COUNT'
  <2> SUFFICES ASSUME simRun = yamcsRun
               PROVE  /\ CMD_RCV_COUNT' + lost + Len(rxq') <= issued
                      /\ CMD_RCV_COUNT <= CMD_RCV_COUNT'
    OBVIOUS
  <2>1. CMD_RCV_COUNT + lost + Len(rxq) <= issued
    BY DEF CountsInv
  <2> HIDE DEF EGSEInv
  <2>2. CMD_RCV_COUNT + 1 < CountMod
    BY <1>2, <1>4, <2>1, BoundsAssumption
  <2>3. (CMD_RCV_COUNT + 1) % CountMod = CMD_RCV_COUNT + 1
    BY <1>2, <2>2, BoundsAssumption
  <2>4. CMD_RCV_COUNT' \in {CMD_RCV_COUNT, CMD_RCV_COUNT + 1}
    BY <1>1, <2>3
  <2> QED
    BY <1>2, <1>3, <1>4, <2>1, <2>4
<1>7. TypeOK'
  <2>1. Len(rxq') <= QueueSize
    BY <1>2, <1>3, <1>4, BoundsAssumption
  <2> QED
    BY <1>1, <1>3, <1>5, <2>1 DEF TypeOK, yamcsVars
<1>8. SatInv' /\ ScriptInv' /\ RunsInv'
  BY <1>1 DEF SatInv, ScriptInv, RunsInv, Listening, yamcsVars
<1>9. CountsInv'
  <2>1. /\ downlink \in Seq(Reports) /\ shown \in Reports
        /\ downlink # <<>> \/ shown.from # 0 => simRun = yamcsRun
        /\ \A i \in 1..Len(downlink) :
              downlink[i].CMD_RCV_COUNT <= CMD_RCV_COUNT
        /\ shown.from # 0 => shown.CMD_RCV_COUNT <= CMD_RCV_COUNT
    BY DEF TypeOK, RunsInv, CountsInv
  <2>2. /\ downlink' = downlink /\ shown' = shown /\ lost' = lost
        /\ simRun' = simRun /\ yamcsRun' = yamcsRun /\ issued' = issued
    BY <1>1 DEF yamcsVars
  <2> HIDE DEF EGSEInv
  <2>3. ASSUME NEW n \in Nat, simRun = yamcsRun, n <= CMD_RCV_COUNT
        PROVE  n <= CMD_RCV_COUNT'
    BY <1>2, <1>5, <1>6, <2>3, BoundsAssumption
  <2>4. ASSUME NEW i \in 1..Len(downlink)
        PROVE  downlink[i].CMD_RCV_COUNT <= CMD_RCV_COUNT'
    <3>1. downlink[i] \in Reports /\ downlink # <<>>
      BY <2>1, <2>4, ElementOfSeq
    <3>2. downlink[i].CMD_RCV_COUNT \in Nat
      BY <3>1, BoundsAssumption DEF Reports
    <3> QED
      BY <2>1, <2>3, <2>4, <3>1, <3>2
  <2>5. shown.from # 0 => shown.CMD_RCV_COUNT <= CMD_RCV_COUNT'
    <3>1. shown.CMD_RCV_COUNT \in Nat
      BY <2>1, BoundsAssumption DEF Reports
    <3> QED
      BY <2>1, <2>3, <3>1
  <2> QED
    BY <1>6, <2>2, <2>4, <2>5 DEF CountsInv
<1> QED
  BY <1>7, <1>8, <1>9

(* The simulator sends a report, of its own run and with its own count.    *)
LEMMA ReleaseKeeps ==
    ASSUME EGSEInv, Release
    PROVE  EGSEInv'
<1> USE DEF EGSEInv
<1> DEFINE report == [from |-> simRun, seq |-> tm'.seq,
                      CMD_RCV_COUNT |-> tm'.CMD_RCV_COUNT]
<1>1. /\ sim = "up"
      /\ tm' = [seq |-> sp_packet_count % SeqMod,
                CMD_RCV_COUNT |-> CMD_RCV_COUNT]
      /\ sp_packet_count' = (sp_packet_count + 2) % CountMod
      /\ UNCHANGED <<rxq, CMD_RCV_COUNT>>
      /\ UNCHANGED <<script, run, yamcs, yamcsRun, issued, shown, sim,
                     simRun, deaf, lost>>
  BY DEF Release, Sat!Release
<1>2. /\ sp_packet_count \in Nat /\ CMD_RCV_COUNT \in 0..(CountMod - 1)
      /\ downlink \in Seq(Reports) /\ simRun \in 0..MaxRuns
  BY BoundsAssumption DEF TypeOK
<1>3. /\ sp_packet_count % SeqMod \in 0..(SeqMod - 1)
      /\ sp_packet_count' \in 0..(CountMod - 1)
  BY <1>1, <1>2, BoundsAssumption
<1>4. SatInv' /\ ScriptInv'
  BY <1>1, <1>2, <1>3 DEF SatInv, ScriptInv
<1>5. CASE Listening /\ Len(downlink) < LinkSize
  <2>1. downlink' = Append(downlink, report)
    BY <1>5 DEF Release
  <2>2. /\ report \in Reports /\ report.from = simRun
        /\ report.CMD_RCV_COUNT = CMD_RCV_COUNT
    BY <1>1, <1>2, <1>3 DEF Reports
  <2> HIDE DEF report
  <2>3. /\ downlink' \in Seq(Reports) /\ Len(downlink') = Len(downlink) + 1
        /\ \A i \in 1..Len(downlink') :
              \/ i \in 1..Len(downlink) /\ downlink'[i] = downlink[i]
              \/ downlink'[i] = report
    BY <1>2, <2>1, <2>2, AppendProperties
  <2>4. simRun = yamcsRun
    BY <1>1, <1>5 DEF RunsInv, Listening
  <2>5. TypeOK'
    BY <1>1, <1>3, <1>5, <2>3, BoundsAssumption DEF TypeOK
  <2>6. RunsInv'
    BY <1>1, <1>5, <2>2, <2>3, <2>4 DEF RunsInv, Listening
  <2>7. CountsInv'
    BY <1>1, <1>2, <2>2, <2>3 DEF CountsInv
  <2> QED
    BY <1>4, <2>5, <2>6, <2>7
<1>6. CASE ~(Listening /\ Len(downlink) < LinkSize)
  <2>1. downlink' = downlink
    BY <1>6 DEF Release
  <2>2. TypeOK'
    BY <1>1, <1>3, <2>1 DEF TypeOK
  <2>3. RunsInv' /\ CountsInv'
    BY <1>1, <2>1 DEF RunsInv, CountsInv, Listening
  <2> QED
    BY <1>4, <2>2, <2>3
<1> QED
  BY <1>5, <1>6

-----------------------------------------------------------------------------
(* Every step keeps the invariant.                                         *)
LEMMA NextEGSEInv == EGSEInv /\ [Next]_vars => EGSEInv'
<1> SUFFICES ASSUME EGSEInv, [Next]_vars PROVE EGSEInv'
  OBVIOUS
<1>1. CASE UNCHANGED vars
  BY <1>1 DEF vars, yamcsVars, simVars, satVars, EGSEInv, TypeOK, SatInv,
              ScriptInv, RunsInv, CountsInv, Listening
<1>2. CASE Next
  BY <1>2, ScriptKeeps, StopsKeep, StartsKeep, ShowKeeps, IssueKeeps,
     ExecuteKeeps, ReleaseKeeps DEF Next, ScriptStep, Processes
<1> QED
  BY <1>1, <1>2

(* Queues, counters and runs keep within their bounds.                     *)
THEOREM EquipmentTypeCorrect == Spec => []TypeOK
<1>1. EGSEInv => TypeOK
  BY DEF EGSEInv
<1> QED
  BY <1>1, InitEGSEInv, NextEGSEInv, PTL DEF Spec

(* After any sequence of runs, broken off anywhere, and of crashes, Yamcs  *)
(* shows reports of its own run only.                                      *)
THEOREM ReportsFresh == Spec => []NoStaleReport
<1>1. EGSEInv => NoStaleReport
  BY DEF EGSEInv, RunsInv, NoStaleReport
<1> QED
  BY <1>1, InitEGSEInv, NextEGSEInv, PTL DEF Spec

(* No count shown exceeds the commands of this Yamcs that were received    *)
(* and executed.                                                           *)
THEOREM CountsTrue == Spec => []ShownNeverOverstates
<1>1. EGSEInv => ShownNeverOverstates
  <2> SUFFICES ASSUME EGSEInv, shown.from # 0
               PROVE  shown.CMD_RCV_COUNT + lost + Len(rxq) <= issued
    BY DEF ShownNeverOverstates
  <2>1. /\ shown.CMD_RCV_COUNT <= CMD_RCV_COUNT
        /\ CMD_RCV_COUNT + lost + Len(rxq) <= issued
    BY DEF EGSEInv, RunsInv, CountsInv
  <2>2. /\ shown.CMD_RCV_COUNT \in Nat /\ CMD_RCV_COUNT \in Nat
        /\ lost \in Nat /\ issued \in Nat /\ Len(rxq) \in Nat
    BY BoundsAssumption DEF EGSEInv, TypeOK, Reports
  <2> QED
    BY <2>1, <2>2
<1> QED
  BY <1>1, InitEGSEInv, NextEGSEInv, PTL DEF Spec

-----------------------------------------------------------------------------
(* Run r has come to a command.                                            *)
At(r, command) == run = r /\ script = command

(* What run r is to reach.                                                 *)
Over(r) == shown.from = r \/ run > r \/ Died \/ script = "aborted"

(* The simulator that a run has started is its own.                        *)
WaitInv == EGSEInv /\ (script = "wait" => simRun = run)

(* It holds at first, and every step keeps it.                             *)
LEMMA InitWaitInv == Init => WaitInv
BY InitEGSEInv DEF WaitInv, Init

(* A run comes to wait only by starting a simulator where none is left.    *)
LEMMA NextWaitInv == WaitInv /\ [Next]_vars => WaitInv'
<1> SUFFICES ASSUME WaitInv, [Next]_vars PROVE WaitInv'
  OBVIOUS
<1>1. EGSEInv'
  BY NextEGSEInv DEF WaitInv
<1>2. CASE satll_sim
  <2>1. sim = "off" /\ run' = run
    BY <1>2 DEF WaitInv, EGSEInv, ScriptInv, satll_sim, Step
  <2>2. simRun' = run
    BY <1>2, <2>1 DEF satll_sim, StartSim
  <2> QED
    BY <1>1, <2>1, <2>2 DEF WaitInv
<1>3. CASE StartScript \/ (ScriptStep /\ ~satll_sim)
  <2>1. script' # "wait"
    BY <1>3 DEF StartScript, ScriptStep, pkill_yamcs, pgrep_yamcs,
                pkill_9_yamcs, pkill_sim, yamcsd, Step
  <2> QED
    BY <1>1, <2>1 DEF WaitInv
<1>4. CASE Processes \/ UNCHANGED vars
  <2>1. UNCHANGED <<script, run, simRun>>
    BY <1>4 DEF Processes, Bind, YamcsExit, Show, Issue, Execute, Release,
                SimExit, vars, simVars
  <2> QED
    BY <1>1, <2>1 DEF WaitInv
<1> QED
  BY <1>2, <1>3, <1>4 DEF Next

(* A run stays at its command until the script makes a step, or another    *)
(* run begins.                                                             *)
LEMMA RunStays ==
    ASSUME WaitInv, [Next]_vars, NEW r \in Nat, NEW command, At(r, command)
    PROVE  At(r, command)' \/ Over(r)' \/ ScriptStep
<1>1. CASE StartScript
  <2>1. run' = r + 1
    BY <1>1 DEF StartScript, At
  <2> QED
    BY <2>1 DEF Over
<1>2. CASE Processes \/ UNCHANGED vars
  BY <1>2 DEF At, Processes, Bind, YamcsExit, Show, Issue, Execute, Release,
              SimExit, vars
<1> QED
  BY <1>1, <1>2 DEF Next

(* The order of the script's commands.                                     *)
LEMMA ScriptMoves ==
    ASSUME NEW r, ScriptStep
    PROVE  /\ At(r, "term_yamcs") => At(r, "check_yamcs")'
           /\ At(r, "check_yamcs") => \/ At(r, "kill_yamcs")'
                                      \/ At(r, "term_sim")'
           /\ At(r, "kill_yamcs") => At(r, "term_sim")' \/ Over(r)'
           /\ At(r, "term_sim") => At(r, "start_yamcs")'
           /\ At(r, "start_yamcs") => At(r, "start_sim")'
           /\ At(r, "start_sim") => At(r, "wait")'
           /\ ~At(r, "wait")
<1> USE DEF At, Over, Step
<1>1. CASE pkill_yamcs
  BY <1>1 DEF pkill_yamcs
<1>2. CASE pgrep_yamcs
  BY <1>2 DEF pgrep_yamcs
<1>3. CASE pkill_9_yamcs
  BY <1>3 DEF pkill_9_yamcs
<1>4. CASE pkill_sim
  BY <1>4 DEF pkill_sim
<1>5. CASE yamcsd
  BY <1>5 DEF yamcsd
<1>6. CASE satll_sim
  BY <1>6 DEF satll_sim
<1> QED
  BY <1>1, <1>2, <1>3, <1>4, <1>5, <1>6 DEF ScriptStep

(* What is left to do when the script has made its last step: Yamcs boots, *)
(* waits for a report, or has one to show.                                 *)
Booting(r) == At(r, "wait") /\ yamcs = "booting"
Hearing(r) == At(r, "wait") /\ Listening /\ sim = "up" /\ downlink = <<>>
Holding(r) == At(r, "wait") /\ Listening /\ downlink # <<>>

(* There is no other case while both processes live.                       *)
LEMMA WaitCases ==
    ASSUME WaitInv, NEW r, At(r, "wait")
    PROVE  Over(r) \/ Booting(r) \/ Hearing(r) \/ Holding(r)
BY DEF WaitInv, EGSEInv, TypeOK, At, Over, Died, Booting, Hearing, Holding,
       Listening

(* Booting gives way to hearing and hearing to holding, never the other    *)
(* way, and a report that is held is of the run itself.                    *)
LEMMA WaitMoves ==
    ASSUME WaitInv, [Next]_vars, NEW r \in Nat, At(r, "wait"), ~Over(r)'
    PROVE  /\ At(r, "wait")' /\ WaitInv'
           /\ Hearing(r) \/ Holding(r) => ~Booting(r)'
           /\ Holding(r) => Holding(r)'
           /\ Bind => ~Booting(r)'
           /\ Hearing(r) /\ Release => Holding(r)'
           /\ ~(Holding(r) /\ Show)
<1>1. WaitInv'
  BY NextWaitInv
<1>2. ~ScriptStep /\ At(r, "wait")'
  BY RunStays, ScriptMoves
<1>3. Hearing(r) \/ Holding(r) => ~Booting(r)'
  <2> SUFFICES ASSUME Listening PROVE ~Booting(r)'
    BY DEF Hearing, Holding
  <2>1. CASE Processes \/ UNCHANGED vars
    BY <2>1 DEF Booting, Listening, Processes, Bind, YamcsExit, YamcsGone,
                Show, Issue, Execute, Release, SimExit, vars, yamcsVars
  <2>2. CASE StartScript
    BY <2>2 DEF StartScript, Booting, At
  <2> QED
    BY <1>2, <2>1, <2>2 DEF Next
<1>4. ~(Holding(r) /\ Show)
  <2> SUFFICES ASSUME Holding(r), Show PROVE FALSE
    OBVIOUS
  <2>1. downlink \in Seq(Reports) /\ downlink # <<>> /\ shown' = Head(downlink)
    BY DEF WaitInv, EGSEInv, TypeOK, Holding, Show
  <2>2. shown' = downlink[1] /\ 1 \in 1..Len(downlink)
    BY <2>1
  <2>3. /\ downlink[1].from = yamcsRun /\ simRun = yamcsRun /\ simRun = r
    BY <2>1, <2>2 DEF WaitInv, EGSEInv, RunsInv, At
  <2> QED
    BY <2>2, <2>3 DEF Over
<1>5. Holding(r) => Holding(r)'
  <2> SUFFICES ASSUME Holding(r) PROVE Holding(r)'
    OBVIOUS
  <2>1. yamcs' # "off" /\ sim' # "off"
    BY <1>2 DEF Over, Died, At
  <2>2. CASE YamcsExit \/ SimExit
    BY <2>1, <2>2 DEF YamcsExit, YamcsGone, SimExit
  <2>3. CASE Bind \/ Issue \/ Execute \/ UNCHANGED vars
    BY <1>2, <2>3 DEF Holding, Listening, Bind, Issue, Execute, vars,
                      yamcsVars
  <2>4. CASE Release
    <3>1. UNCHANGED yamcs /\ downlink \in Seq(Reports) /\ downlink # <<>>
      BY <2>4 DEF Release, WaitInv, EGSEInv, TypeOK, Holding
    <3>2. \A d \in Seq(Reports) : \A x : Append(d, x) # <<>>
      OBVIOUS
    <3>3. downlink' # <<>>
      BY <2>4, <3>1, <3>2 DEF Release
    <3> QED
      BY <1>2, <3>1, <3>3 DEF Holding, Listening
  <2>5. CASE StartScript
    BY <1>2, <2>5 DEF StartScript, At
  <2> QED
    BY <1>2, <1>4, <2>2, <2>3, <2>4, <2>5 DEF Next, Processes
<1>6. Bind => ~Booting(r)'
  BY DEF Bind, Booting
<1>7. Hearing(r) /\ Release => Holding(r)'
  <2> SUFFICES ASSUME Hearing(r), Release PROVE Holding(r)'
    OBVIOUS
  <2>1. downlink = <<>> /\ Listening /\ 0 < LinkSize /\ yamcs' = yamcs
    BY BoundsAssumption DEF Hearing, Release
  <2>2. downlink' = Append(downlink, [from |-> simRun, seq |-> tm'.seq,
                                      CMD_RCV_COUNT |-> tm'.CMD_RCV_COUNT])
    BY <2>1 DEF Release
  <2>3. downlink' # <<>>
    BY <2>1, <2>2
  <2> QED
    BY <1>2, <2>1, <2>3 DEF Holding, Listening
<1> QED
  BY <1>1, <1>2, <1>3, <1>4, <1>5, <1>6, <1>7

(* As long as whoever is to move can, which the run checks, and does, a    *)
(* run of the script ends in telemetry of its own simulator, wherever      *)
(* earlier runs were broken off; or in another run, in the death of a      *)
(* process or in the abort of the script.                                  *)
THEOREM TelemetryComes == FairSpec /\ []NobodyStuck => ScriptBringsTelemetry
<1>1. ASSUME NEW r \in 1..MaxRuns
      PROVE  FairSpec /\ []NobodyStuck
               => (script = "term_yamcs" /\ run = r
                     ~> shown.from = r \/ run > r \/ Died
                        \/ script = "aborted")
  <2> DEFINE T == At(r, "term_yamcs")
             C == At(r, "check_yamcs")
             K == At(r, "kill_yamcs")
             S == At(r, "term_sim")
             Y == At(r, "start_yamcs")
             M == At(r, "start_sim")
             W == At(r, "wait")
             B == Booting(r)
             H == Hearing(r)
             D == Holding(r)
             Done == Over(r)
  <2>1. r \in Nat
    OBVIOUS
  <2>2. WaitInv /\ [Next]_vars
          => /\ T => T' \/ Done' \/ ScriptStep
             /\ C => C' \/ Done' \/ ScriptStep
             /\ K => K' \/ Done' \/ ScriptStep
             /\ S => S' \/ Done' \/ ScriptStep
             /\ Y => Y' \/ Done' \/ ScriptStep
             /\ M => M' \/ Done' \/ ScriptStep
    BY <2>1, RunStays
  <2>3. ScriptStep => /\ T => C'
                      /\ C => K' \/ S'
                      /\ K => S' \/ Done'
                      /\ S => Y'
                      /\ Y => M'
                      /\ M => W'
    BY ScriptMoves
  <2>4. WaitInv /\ W => Done \/ B \/ H \/ D
    BY WaitCases
  <2>5. WaitInv /\ [Next]_vars /\ W
          => \/ Done'
             \/ /\ W' /\ WaitInv'
                /\ H \/ D => ~B'
                /\ D => D'
                /\ Bind => ~B'
                /\ H /\ Release => D'
                /\ ~(D /\ Show)
    BY <2>1, WaitMoves
  <2>6. B \/ H \/ D => W
    BY DEF Booting, Hearing, Holding
  <2>7. NobodyStuck
          => /\ T \/ C \/ K \/ S \/ Y \/ M => ENABLED <<ScriptStep>>_vars
             /\ B => ENABLED <<Bind>>_vars
             /\ H => ENABLED <<Release>>_vars
             /\ D => ENABLED <<Show>>_vars
    BY DEF NobodyStuck, At, Booting, Hearing, Holding
  <2>8. script = "term_yamcs" /\ run = r => T
    BY DEF At
  <2>9. Done => shown.from = r \/ run > r \/ Died \/ script = "aborted"
    BY DEF Over
  <2> HIDE DEF T, C, K, S, Y, M, W, B, H, D, Done
  <2> QED
    BY <2>2, <2>3, <2>4, <2>5, <2>6, <2>7, <2>8, <2>9, InitWaitInv,
       NextWaitInv, PTL DEF FairSpec, Fairness, Spec
<1> QED
  BY <1>1 DEF ScriptBringsTelemetry
=============================================================================
