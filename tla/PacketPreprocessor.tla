------------------------ MODULE PacketPreprocessor ------------------------
(***************************************************************************)
(* MyPacketPreprocessor, the ground's check of the telemetry it receives:  *)
(* a packet shorter than its primary header is dropped, any other is       *)
(* passed on, with a warning if its sequence count does not follow that of *)
(* the packet received before it from the same application process.        *)
(***************************************************************************)
EXTENDS Integers

CONSTANTS
    Apids,              \* application processes
    SeqMod              \* values of the sequence count field, 2^14

VARIABLES
    seqCounts,          \* the last sequence count of each APID
    event               \* the warning of the last packet, or "none"

ppVars == <<seqCounts, event>>

(* Mutated: the sequence flags before the count are taken with it.         *)
SeqField_WithFlags(word) == word

(* The sequence count in the second word of the primary header.            *)
SeqField(word) == word % SeqMod

(* Mutated: only a jump ahead is one, without regard to the wrap.          *)
Jump_Unmasked(oldseq, seq) == seq - oldseq > 1

Jump(oldseq, seq) == (seq - oldseq) % SeqMod # 1

(* computeIfAbsent starts the count of an APID at 0.                       *)
Init ==
    /\ seqCounts = [apid \in Apids |-> 0]
    /\ event = "none"

DropShort ==
    /\ event' = "SHORT_PACKET"
    /\ UNCHANGED seqCounts

(* Mutated: one count for all application processes.                       *)
process_OneCount(apid, word) ==
    /\ event' = IF Jump(seqCounts[apid], SeqField(word))
                THEN "SEQ_COUNT_JUMP" ELSE "none"
    /\ seqCounts' = [a \in Apids |-> SeqField(word)]

process(apid, word) ==
    /\ event' = IF Jump(seqCounts[apid], SeqField(word))
                THEN "SEQ_COUNT_JUMP" ELSE "none"
    /\ seqCounts' = [seqCounts EXCEPT ![apid] = SeqField(word)]
=============================================================================
