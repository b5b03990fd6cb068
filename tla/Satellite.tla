----------------------------- MODULE Satellite -----------------------------
(***************************************************************************)
(* What the ground can tell of the simulator: commands go into a queue and *)
(* are executed one at a time, and now and then a report is released that  *)
(* carries a sequence count and the number of commands counted so far.     *)
(* Simulator is shown to implement it; EGSE puts it on a ground station.   *)
(*                                                                         *)
(* Of a command only this is kept: whether its PUS version is 1, so that   *)
(* CMD_RCV_COUNT counts it.                                                *)
(***************************************************************************)
EXTENDS Integers, Sequences

CONSTANTS
    CountMod,           \* values of the counters
    SeqMod,             \* values of the sequence count field
    QueueSize           \* commands the socket buffers

VARIABLES
    rxq,                \* the commands not executed yet
    CMD_RCV_COUNT,
    sp_packet_count,    \* sequence count of the next report
    tm                  \* the last report released

satVars == <<rxq, CMD_RCV_COUNT, sp_packet_count, tm>>

NoReport == [seq |-> 0, CMD_RCV_COUNT |-> 0]

Init ==
    /\ rxq = <<>>
    /\ CMD_RCV_COUNT = 0
    /\ sp_packet_count = 1
    /\ tm = NoReport

(* A process started anew remembers nothing.                               *)
Boot ==
    /\ rxq' = <<>>
    /\ CMD_RCV_COUNT' = 0
    /\ sp_packet_count' = 1
    /\ tm' = NoReport

Receive(counted) ==
    /\ Len(rxq) < QueueSize
    /\ rxq' = Append(rxq, counted)
    /\ UNCHANGED <<CMD_RCV_COUNT, sp_packet_count, tm>>

(* Mutated: the loop counts the command as well, as it does with reports.  *)
Execute_CountedTwice ==
    /\ rxq # <<>>
    /\ rxq' = Tail(rxq)
    /\ CMD_RCV_COUNT' = IF Head(rxq) THEN (CMD_RCV_COUNT + 2) % CountMod
                        ELSE CMD_RCV_COUNT
    /\ UNCHANGED <<sp_packet_count, tm>>

Execute ==
    /\ rxq # <<>>
    /\ rxq' = Tail(rxq)
    /\ CMD_RCV_COUNT' = IF Head(rxq) THEN (CMD_RCV_COUNT + 1) % CountMod
                        ELSE CMD_RCV_COUNT
    /\ UNCHANGED <<sp_packet_count, tm>>

(* Mutated: the counter is put into the report without the conversion to   *)
(* the width of its field.                                                 *)
Release_Wide ==
    /\ tm' = [seq |-> sp_packet_count, CMD_RCV_COUNT |-> CMD_RCV_COUNT]
    /\ sp_packet_count' = (sp_packet_count + 2) % CountMod
    /\ UNCHANGED <<rxq, CMD_RCV_COUNT>>

Release ==
    /\ tm' = [seq |-> sp_packet_count % SeqMod,
              CMD_RCV_COUNT |-> CMD_RCV_COUNT]
    /\ sp_packet_count' = (sp_packet_count + 2) % CountMod
    /\ UNCHANGED <<rxq, CMD_RCV_COUNT>>

Next == (\E counted \in BOOLEAN : Receive(counted)) \/ Execute \/ Release

Spec == Init /\ [][Next]_satVars
=============================================================================
