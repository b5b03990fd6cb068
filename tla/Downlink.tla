----------------------------- MODULE Downlink -----------------------------
(***************************************************************************)
(* Telemetry on its way to the ground's continuity check: application      *)
(* processes release packets, UDP loses, repeats and reorders them, and    *)
(* the preprocessor judges what is left of them.  What do its warnings,    *)
(* and its silence, tell of the packets?                                   *)
(*                                                                         *)
(* The standard asks the senders for sequence counts one apart; the        *)
(* simulator's are two apart (see Simulator).  SeqStep may be either for   *)
(* each process.                                                           *)
(***************************************************************************)
EXTENDS Integers, Sequences, FiniteSets

CONSTANTS
    Apids, SeqMod,      \* see PacketPreprocessor
    SeqStep,            \* from one sequence count of a process to the next
    MaxSent,            \* bound: packets an application process releases
    InFlight,           \* bound: packets on their way at once
    MaxGot              \* bound: packets of one received, repeated or not

ASSUME CountsAssumption ==
    /\ SeqMod \in Nat /\ SeqMod > 1
    /\ SeqStep \in [Apids -> Nat]
    /\ MaxSent \in Nat /\ MaxGot \in Nat /\ InFlight \in Nat

VARIABLES
    sent,               \* how many packets each process has released
    network,            \* the packets on their way
    seqCounts, event,   \* see PacketPreprocessor
    got,                \* history: the packets of each process passed on,
                        \* each by its number in the order of release
    jumped              \* history: whether there has been a warning

vars == <<sent, network, seqCounts, event, got, jumped>>

Preprocessor == INSTANCE PacketPreprocessor

-----------------------------------------------------------------------------
(* The sequence count of the n-th packet of a process; the first is 1.     *)
SeqOf(apid, n) == ((n - 1) * SeqStep[apid] + 1) % SeqMod

(* In the header the sequence flags, both set, precede the count.          *)
Packet(apid, n) ==
    [apid |-> apid, n |-> n, word |-> 3 * SeqMod + SeqOf(apid, n)]

Init ==
    /\ sent = [apid \in Apids |-> 0]
    /\ network = {}
    /\ Preprocessor!Init
    /\ got = [apid \in Apids |-> <<>>]
    /\ jumped = [apid \in Apids |-> FALSE]

Release(apid) ==
    /\ sent[apid] < MaxSent /\ Cardinality(network) < InFlight
    /\ sent' = [sent EXCEPT ![apid] = @ + 1]
    /\ network' = network \cup {Packet(apid, sent[apid] + 1)}
    /\ UNCHANGED <<seqCounts, event, got, jumped>>

Lose(packet) ==
    /\ network' = network \ {packet}
    /\ UNCHANGED <<sent, seqCounts, event, got, jumped>>

(* A packet that stays on its way is delivered again, or late.             *)
Deliver(packet) ==
    /\ Len(got[packet.apid]) < MaxGot
    /\ Preprocessor!process(packet.apid, packet.word)
    /\ network' \in {network, network \ {packet}}
    /\ got' = [got EXCEPT ![packet.apid] = Append(@, packet.n)]
    /\ jumped' = [jumped EXCEPT ![packet.apid] =
                     @ \/ event' = "SEQ_COUNT_JUMP"]
    /\ UNCHANGED sent

(* A datagram that is no packet reaches the port.                          *)
DeliverShort ==
    /\ Preprocessor!DropShort
    /\ UNCHANGED <<sent, network, got, jumped>>

Next ==
    \/ \E apid \in Apids : Release(apid)
    \/ \E packet \in network : Lose(packet) \/ Deliver(packet)
    \/ DeliverShort

Spec == Init /\ [][Next]_vars

-----------------------------------------------------------------------------
(* The network carries released packets only, and the counts of the        *)
(* preprocessor fit their field.                                           *)
TypeOK ==
    /\ sent \in [Apids -> 0..MaxSent]
    /\ \A packet \in network :
          /\ packet.apid \in Apids
          /\ packet.n \in 1..sent[packet.apid]
          /\ packet = Packet(packet.apid, packet.n)
    /\ seqCounts \in [Apids -> 0..(SeqMod - 1)]
    /\ event \in {"none", "SHORT_PACKET", "SEQ_COUNT_JUMP"}
    /\ got \in [Apids -> Seq(1..MaxSent)]
    /\ \A apid \in Apids : Len(got[apid]) <= MaxGot
    /\ jumped \in [Apids -> BOOLEAN]

(* A process that counts by one: no warning has been given for it if and   *)
(* only if its packets were passed on complete and in order from the first *)
(* one on, as far as the field can tell (a loss of SeqMod packets in a row *)
(* cannot be seen).  Packets of other processes, however these count, and  *)
(* datagrams that are none, have no part in it.                            *)
SilenceMeansComplete ==
    \A apid \in Apids : SeqStep[apid] = 1 =>
        (~jumped[apid] <=> \A i \in 1..Len(got[apid]) :
                               got[apid][i] % SeqMod = i % SeqMod)

(* A process that counts by two, as the simulator does, in a field of an   *)
(* even number of values: from its second packet on, every packet is       *)
(* warned of, whether anything was lost or not, so that the check tells    *)
(* nothing.                                                                *)
CheckBlind ==
    [][\A apid \in Apids :
          /\ SeqStep[apid] = 2 /\ SeqMod % 2 = 0
          /\ got[apid] # <<>> /\ got'[apid] # got[apid]
          => event' = "SEQ_COUNT_JUMP"]_vars
=============================================================================
