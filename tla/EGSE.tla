------------------------------- MODULE EGSE -------------------------------
(***************************************************************************)
(* The ground equipment on one machine: Yamcs and the simulator, two       *)
(* processes that talk over two UDP ports of the loopback interface, and   *)
(* egse_run_simulator.sh, which stops what is left of an earlier run and   *)
(* starts both anew.  Any of the processes may die at any moment, and the  *)
(* operator may break off the script and start it again between any two of *)
(* its commands; what it has started in the background stays.              *)
(*                                                                         *)
(* The simulator is the Satellite that Simulator implements.  Only the     *)
(* instance that has the command port matters to the others: one that is   *)
(* started while it is taken (init_udp fails) neither hears nor is heard,  *)
(* for as long as it runs.                                                 *)
(*                                                                         *)
(* Spec has the script alone.  ManualSpec has also an operator who starts  *)
(* and stops the processes by hand, as the user guide describes.           *)
(***************************************************************************)
EXTENDS Integers, Sequences

CONSTANTS
    CountMod, SeqMod, QueueSize,    \* see Satellite
    LinkSize,           \* reports that Yamcs's socket buffers
    MaxRuns,            \* bound: runs of the script, or starts by hand
    MaxIssued,          \* bound: commands issued to one Yamcs
    MaxDeaf             \* bound: simulators without the port

ASSUME BoundsAssumption ==
    /\ CountMod \in Nat /\ CountMod > 1 /\ SeqMod \in Nat \ {0}
    /\ QueueSize \in Nat \ {0} /\ LinkSize \in Nat \ {0}
    /\ MaxRuns \in Nat /\ MaxDeaf \in Nat
    /\ MaxIssued \in Nat /\ MaxIssued < CountMod

VARIABLES
    script,             \* the next command of the script
    run,                \* the number of its run
    yamcs,              \* "off", "booting", "running" or "stopping"
    yamcsRun,           \* the run that started it
    issued,             \* commands the operator has issued from it
    shown,              \* the housekeeping report it shows
    downlink,           \* the reports in its socket
    sim,                \* "off" or "up": the simulator that has the port
    simRun,             \* the run that started it
    rxq, CMD_RCV_COUNT, sp_packet_count, tm,    \* see Satellite
    deaf,               \* simulators that run without the port
    lost                \* history: commands of this Yamcs that no
                        \* simulator received

Sat == INSTANCE Satellite

yamcsVars == <<yamcs, yamcsRun, issued, shown, downlink>>
satVars == <<rxq, CMD_RCV_COUNT, sp_packet_count, tm>>
simVars == <<sim, simRun, satVars, deaf>>
vars == <<script, run, yamcsVars, simVars, lost>>

-----------------------------------------------------------------------------
(* Processes.                                                              *)
Listening == yamcs \in {"running", "stopping"}

NoReport == [from |-> 0, seq |-> 0, CMD_RCV_COUNT |-> 0]

StartYamcs(r) ==
    /\ yamcs = "off"
    /\ yamcs' = "booting"
    /\ yamcsRun' = r
    /\ issued' = 0 /\ lost' = 0
    /\ shown' = NoReport
    /\ UNCHANGED downlink

(* The process is gone, and its socket with it.                            *)
YamcsGone ==
    /\ yamcs' = "off"
    /\ shown' = NoReport /\ downlink' = <<>>
    /\ UNCHANGED <<yamcsRun, issued>>

StartSim(r) ==
    IF sim = "off"
    THEN sim' = "up" /\ simRun' = r /\ Sat!Boot /\ UNCHANGED deaf
    ELSE deaf' = deaf + 1 /\ UNCHANGED <<sim, simRun, satVars>>

-----------------------------------------------------------------------------
(* egse_run_simulator.sh.  A run broken off leaves everything as it is.    *)
StartScript ==
    /\ run < MaxRuns
    /\ run' = run + 1
    /\ script' = "term_yamcs"
    /\ UNCHANGED <<yamcsVars, simVars, lost>>

Step(command, next) == script = command /\ script' = next /\ UNCHANGED run

pkill_yamcs ==
    /\ Step("term_yamcs", "check_yamcs")
    /\ yamcs' = IF yamcs = "off" THEN "off" ELSE "stopping"
    /\ UNCHANGED <<yamcsRun, issued, shown, downlink, simVars, lost>>

(* Mutated: three seconds are taken to be enough for Yamcs to end.         *)
pgrep_yamcs_Trusting ==
    /\ Step("check_yamcs", "term_sim")
    /\ UNCHANGED <<yamcsVars, simVars, lost>>

(* Three seconds later, is it still there?                                 *)
pgrep_yamcs ==
    /\ Step("check_yamcs", IF yamcs = "off" THEN "term_sim" ELSE "kill_yamcs")
    /\ UNCHANGED <<yamcsVars, simVars, lost>>

(* pkill fails if it has nothing to kill, and under errexit a command that *)
(* fails ends the script.                                                  *)
pkill_9_yamcs ==
    \/ /\ yamcs # "off"
       /\ Step("kill_yamcs", "term_sim")
       /\ YamcsGone
       /\ UNCHANGED <<simVars, lost>>
    \/ /\ yamcs = "off"
       /\ Step("kill_yamcs", "aborted")
       /\ UNCHANGED <<yamcsVars, simVars, lost>>

(* Mutated: simulators of earlier runs are left running.                   *)
pkill_sim_None ==
    /\ Step("term_sim", "start_yamcs")
    /\ UNCHANGED <<yamcsVars, simVars, lost>>

pkill_sim ==
    /\ Step("term_sim", "start_yamcs")
    /\ sim' = "off" /\ deaf' = 0
    /\ UNCHANGED <<yamcsVars, simRun, satVars, lost>>

yamcsd ==
    /\ Step("start_yamcs", "start_sim")
    /\ StartYamcs(run)
    /\ UNCHANGED simVars

satll_sim ==
    /\ Step("start_sim", "wait")
    /\ StartSim(run)
    /\ UNCHANGED <<yamcsVars, lost>>

ScriptStep == pkill_yamcs \/ pgrep_yamcs \/ pkill_9_yamcs \/ pkill_sim
              \/ yamcsd \/ satll_sim

-----------------------------------------------------------------------------
(* Yamcs.                                                                  *)
Bind ==
    /\ yamcs = "booting"
    /\ yamcs' = "running"
    /\ UNCHANGED <<script, run, yamcsRun, issued, shown, downlink, simVars,
                   lost>>

(* It has shut down after a signal, or died.                               *)
YamcsExit ==
    /\ yamcs # "off"
    /\ YamcsGone
    /\ UNCHANGED <<script, run, simVars, lost>>

Show ==
    /\ Listening /\ downlink # <<>>
    /\ shown' = Head(downlink)
    /\ downlink' = Tail(downlink)
    /\ UNCHANGED <<script, run, yamcs, yamcsRun, issued, simVars, lost>>

(* A command that finds no simulator, or its socket's buffer full, is      *)
(* lost, and nobody is told.                                               *)
Issue ==
    /\ yamcs = "running" /\ issued < MaxIssued
    /\ issued' = issued + 1
    /\ IF sim = "up" /\ Len(rxq) < QueueSize
       THEN (\E counted \in BOOLEAN : Sat!Receive(counted)) /\ UNCHANGED lost
       ELSE lost' = lost + 1 /\ UNCHANGED satVars
    /\ UNCHANGED <<script, run, yamcs, yamcsRun, shown, downlink, sim, simRun,
                   deaf>>

-----------------------------------------------------------------------------
(* The simulator.                                                          *)
Execute ==
    /\ sim = "up"
    /\ Sat!Execute
    /\ UNCHANGED <<script, run, yamcsVars, sim, simRun, deaf, lost>>

(* A report that finds no Yamcs, or its buffer full, is lost: the result   *)
(* of send_udp is ignored.                                                 *)
Release ==
    /\ sim = "up"
    /\ Sat!Release
    /\ downlink' =
         IF Listening /\ Len(downlink) < LinkSize
         THEN Append(downlink, [from |-> simRun, seq |-> tm'.seq,
                                CMD_RCV_COUNT |-> tm'.CMD_RCV_COUNT])
         ELSE downlink
    /\ UNCHANGED <<script, run, yamcs, yamcsRun, issued, shown, sim, simRun,
                   deaf, lost>>

(* It has died, or its terminal was closed.                                *)
SimExit ==
    /\ sim = "up"
    /\ sim' = "off"
    /\ UNCHANGED <<script, run, yamcsVars, simRun, satVars, deaf, lost>>

-----------------------------------------------------------------------------
(* The operator's own hands: run-yamcs.sh, ./satll-sim, and closing it.    *)
RunYamcs ==
    /\ StartYamcs(run)
    /\ UNCHANGED <<script, run, simVars>>

RunSim ==
    /\ run < MaxRuns
    /\ sim = "up" => deaf < MaxDeaf
    /\ run' = run + 1
    /\ StartSim(run')
    /\ UNCHANGED <<script, yamcsVars, lost>>

CloseDeaf ==
    /\ deaf > 0
    /\ deaf' = deaf - 1
    /\ UNCHANGED <<script, run, yamcsVars, sim, simRun, satVars, lost>>

-----------------------------------------------------------------------------
Init ==
    /\ script = "idle" /\ run = 0
    /\ yamcs = "off" /\ yamcsRun = 0 /\ issued = 0
    /\ shown = NoReport /\ downlink = <<>>
    /\ sim = "off" /\ simRun = 0 /\ Sat!Init /\ deaf = 0
    /\ lost = 0

Processes == Bind \/ YamcsExit \/ Show \/ Issue \/ Execute \/ Release
             \/ SimExit

Next == StartScript \/ ScriptStep \/ Processes

Spec == Init /\ [][Next]_vars

ManualNext == RunYamcs \/ RunSim \/ CloseDeaf \/ Processes

ManualSpec == Init /\ [][ManualNext]_vars

(* The script does not stop by itself between two commands, Yamcs comes up *)
(* and reads its socket, and the simulator's loop keeps sending.  Nobody   *)
(* has to start the script, to issue a command, or to die.                 *)
Fairness == /\ WF_vars(ScriptStep)
            /\ WF_vars(Bind) /\ WF_vars(Show)
            /\ WF_vars(Execute) /\ WF_vars(Release)

FairSpec == Spec /\ Fairness

ManualFairSpec == ManualSpec /\ Fairness

-----------------------------------------------------------------------------
Reports == [from : 0..MaxRuns, seq : 0..(SeqMod - 1),
            CMD_RCV_COUNT : 0..(CountMod - 1)]

(* Queues, counters and runs keep within their bounds.                     *)
TypeOK ==
    /\ script \in {"idle", "term_yamcs", "check_yamcs", "kill_yamcs",
                   "term_sim", "start_yamcs", "start_sim", "wait", "aborted"}
    /\ run \in 0..MaxRuns /\ yamcsRun \in 0..run /\ simRun \in 0..run
    /\ yamcs \in {"off", "booting", "running", "stopping"}
    /\ issued \in 0..MaxIssued /\ lost \in 0..issued
    /\ shown \in Reports
    /\ downlink \in Seq(Reports) /\ Len(downlink) <= LinkSize
    /\ sim \in {"off", "up"}
    /\ rxq \in Seq(BOOLEAN) /\ Len(rxq) <= QueueSize
    /\ CMD_RCV_COUNT \in 0..(CountMod - 1)
    /\ sp_packet_count \in 0..(CountMod - 1)
    /\ deaf \in Nat

(* Whatever was left over from earlier runs, wherever they were broken     *)
(* off: what Yamcs shows was sent by the simulator that the same run of    *)
(* the script has started.                                                 *)
NoStaleReport == shown.from \in {0, yamcsRun}

(* The operator who compares the commands issued with the count shown is   *)
(* never shown too many: a count includes neither commands that were lost  *)
(* nor those still waiting in the simulator's socket, nor any that an      *)
(* earlier Yamcs has issued.                                               *)
ShownNeverOverstates ==
    shown.from # 0 => shown.CMD_RCV_COUNT + lost + Len(rxq) <= issued

(* Whoever is to move can: the script is stuck at none of its commands, so *)
(* that no Yamcs is left when it comes to start one; a Yamcs that boots    *)
(* can bind its port; and a report can be sent to a Yamcs that listens,    *)
(* and be shown by it.                                                     *)
NobodyStuck ==
    /\ script \notin {"idle", "wait", "aborted"}
         => ENABLED <<ScriptStep>>_vars
    /\ yamcs = "booting" => ENABLED <<Bind>>_vars
    /\ Listening /\ downlink # <<>> => ENABLED <<Show>>_vars
    /\ Listening /\ downlink = <<>> /\ sim = "up"
         => ENABLED <<Release>>_vars

(* A run of the script ends in telemetry, wherever earlier runs were       *)
(* broken off: Yamcs shows a report of that run's simulator.  Otherwise    *)
(* the script is run again, a process that it has started has died, or     *)
(* Yamcs has ended between pgrep and pkill -9, which aborts the script.    *)
Died == \/ script \in {"start_sim", "wait"} /\ yamcs = "off"
        \/ script = "wait" /\ sim = "off"

ScriptBringsTelemetry ==
    \A r \in 1..MaxRuns :
        script = "term_yamcs" /\ run = r
            ~> shown.from = r \/ run > r \/ Died \/ script = "aborted"

-----------------------------------------------------------------------------
(* What a document says of the equipment, and it does not do.              *)

(* The user guide, after ./satll-sim: live telemetry should now be coming. *)
(* So with Yamcs and a simulator running, Yamcs shows a report.            *)
LiveTelemetry ==
    yamcs = "running" /\ (sim = "up" \/ deaf > 0)
        ~> shown.from # 0 \/ yamcs = "off" \/ (sim = "off" /\ deaf = 0)
=============================================================================
