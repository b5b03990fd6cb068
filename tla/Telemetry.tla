----------------------------- MODULE Telemetry -----------------------------
(***************************************************************************)
(* The report generators of telemetry.c, down to the bytes they leave in   *)
(* SPPacketOut: each writes its parameters into pus_data, builds the PUS   *)
(* frame in PusFrameOut, copies that into the data of the space packet and *)
(* builds the packet.  All four buffers are static, and every report finds *)
(* in them what longer ones have left.                                     *)
(*                                                                         *)
(* Only generate_tm_3_25 has a caller today, send_telemetry; the calls of  *)
(* the others are commented out.  They are modelled as what they are, the  *)
(* functions of a library: called in any order, with any arguments.        *)
(*                                                                         *)
(* A word is two digits to the base Base, 256 in the code; Base is a       *)
(* parameter so that counts wrap within a run.  The checksum is one, too:  *)
(* EcssCrc is about it.                                                    *)
(***************************************************************************)
EXTENDS Integers, Sequences

CONSTANTS
    Base,               \* values of a byte of a word
    BufferSize,         \* bytes of each static buffer
    NUM_COARSE_BYTES,   \* bytes of the time that are sent
    NUM_FINE_BYTES,
    Packet_ID,          \* first word of every packet: telemetry, with a
                        \* secondary header, APID 1
    ecss_crc16(_),      \* the checksum of a sequence of bytes
    Times,              \* seconds at which reports are generated
    Parameters,         \* values of the eight parameters of TM[3,25]
    Arguments,          \* the two words other generators are called with
    MaxReports          \* bound: reports generated

WordMod == Base * Base
SeqMod == WordMod \div 4
Word == 0..(WordMod - 1)

(* The longest report is TM[3,25], with 17 bytes of data.                  *)
ASSUME SizesAssumption ==
    /\ Base \in Nat /\ Base > 1
    /\ NUM_COARSE_BYTES \in 1..4 /\ NUM_FINE_BYTES \in 0..3
    /\ BufferSize \in Nat /\ BufferSize <= WordMod
    /\ 33 + NUM_COARSE_BYTES + NUM_FINE_BYTES <= BufferSize

(* PUSTime, which Yamcs reads, has 32 bits: the P-field and these bytes.   *)
ASSUME TimeAssumption == NUM_COARSE_BYTES + NUM_FINE_BYTES = 3

ASSUME InputsAssumption ==
    /\ Packet_ID \in Word
    /\ Times \subseteq Nat
    /\ Parameters \subseteq [1..8 -> Word]
    /\ Arguments \subseteq [1..2 -> Word]
    /\ MaxReports \in Nat

VARIABLES
    pus_time,           \* 18 bytes, of which update_time sets four
    pus_data,           \* the parameters of the report
    PusFrameOut,        \* the PUS frame
    sp_data,            \* space_packet.data
    SPPacketOut,        \* the space packet
    SPPacketLength,
    sp_packet_count,    \* sequence count of the next packet
    COUNTER,            \* COUNTER_1_1 and so on, by report
    report,             \* history: what the last report was to say
    generated,          \* history: how many there were, by report
    total,              \* history: and in all
    seconds             \* history: what pus_time was set from

bufferVars == <<pus_data, PusFrameOut, sp_data, SPPacketOut, SPPacketLength>>
tmVars == <<pus_time, bufferVars, sp_packet_count, COUNTER, report,
            generated, total, seconds>>

Types == {<<1, 1>>, <<1, 2>>, <<1, 7>>, <<1, 8>>, <<3, 25>>, <<5, 1>>,
          <<17, 2>>}

-----------------------------------------------------------------------------
(* Bytes.                                                                  *)
Hi(w) == w \div Base
Lo(w) == w % Base

(* The bytes of some words, the more significant byte of each first.       *)
Bytes(words) ==
    [i \in 1..(2 * Len(words)) |-> IF i % 2 = 1 THEN Hi(words[(i + 1) \div 2])
                                   ELSE Lo(words[i \div 2])]

(* The first bytes of a buffer, and a buffer after they are written.       *)
First(buffer, length) == SubSeq(buffer, 1, length)

Overwrite(buffer, bytes) ==
    bytes \o SubSeq(buffer, Len(bytes) + 1, BufferSize)

Zeros == [i \in 1..BufferSize |-> 0]

(* Mutated: a byte is not cut off from those above it.                     *)
TimeBytes_NotCast(coarse_time) ==
    [i \in 1..18 |->
        CASE i = 1 -> coarse_time \div (WordMod * Base)
          [] i = 2 -> coarse_time \div WordMod
          [] i = 3 -> coarse_time \div Base
          [] i = 4 -> coarse_time % Base
          [] OTHER -> 0]

(* update_time puts the seconds into the first four bytes.                 *)
TimeBytes(coarse_time) ==
    [i \in 1..18 |->
        CASE i = 1 -> (coarse_time \div (WordMod * Base)) % Base
          [] i = 2 -> (coarse_time \div WordMod) % Base
          [] i = 3 -> (coarse_time \div Base) % Base
          [] i = 4 -> coarse_time % Base
          [] OTHER -> 0]

-----------------------------------------------------------------------------
(* pus.c                                                                   *)
buildpField == 4 * (NUM_COARSE_BYTES - 1) + NUM_FINE_BYTES

(* Mutated: the time is read from its second byte on.                      *)
SentTime_Shifted ==
    [i \in 1..(NUM_COARSE_BYTES + NUM_FINE_BYTES) |->
        IF i <= NUM_COARSE_BYTES THEN pus_time[i + 1] ELSE pus_time[8 + i]]

(* The fine bytes are taken at the place reached in the frame, not in the  *)
(* time.  That place depends on which operand of the assignment is read    *)
(* first, which C leaves open; there are zeros at either.                  *)
SentTime ==
    [i \in 1..(NUM_COARSE_BYTES + NUM_FINE_BYTES) |->
        IF i <= NUM_COARSE_BYTES THEN pus_time[i] ELSE pus_time[8 + i]]

(* Version 2, time reference status 1; no destination.                     *)
buildPUSFrame(type, counter, data) ==
    <<2 * 16 + 1, type[1], type[2]>> \o Bytes(<<counter, 0>>)
      \o <<buildpField>> \o SentTime \o data

-----------------------------------------------------------------------------
(* space_packet.c                                                          *)

Checksum(bytes) == Bytes(<<ecss_crc16(bytes)>>)

PacketSequenceControl == 3 * SeqMod + (sp_packet_count % SeqMod)

(* Without the checksum.  The loop that copies the data counts in eight    *)
(* bits, which is enough for every report (see TypeOK).                    *)
Unchecked(PacketDataLength, data) ==
    Bytes(<<Packet_ID, PacketSequenceControl, PacketDataLength>>)
      \o First(data, PacketDataLength - 1)

buildSPPacket(PacketDataLength, data) ==
    Unchecked(PacketDataLength, data)
      \o Checksum(Unchecked(PacketDataLength, data))

-----------------------------------------------------------------------------
(* telemetry.c                                                             *)

(* Mutated: the length field counts the bytes, not the bytes less one.     *)
DataLength_NotLessOne(PusFrameLength) == PusFrameLength + 2

(* The data and the checksum, less one.                                    *)
DataLength(PusFrameLength) == (PusFrameLength + 2) - 1

(* What every generator does with its counter and its data.                *)
Build(type, counter, data) ==
    LET frame == buildPUSFrame(type, counter, First(pus_data', Len(data)))
    IN  /\ pus_data' = Overwrite(pus_data, data)
        /\ PusFrameOut' = Overwrite(PusFrameOut, frame)
        /\ sp_data' = Overwrite(sp_data, First(PusFrameOut', Len(frame)))
        /\ LET packet == buildSPPacket(DataLength(Len(frame)), sp_data')
           IN  /\ SPPacketOut' = Overwrite(SPPacketOut, packet)
               /\ SPPacketLength' = Len(packet)

(* Both counts, moved by n, n = 1 but where the caller moves them again.   *)
Count(type, n) ==
    /\ sp_packet_count' = (sp_packet_count + n) % WordMod
    /\ COUNTER' = [COUNTER EXCEPT ![type] = (@ + n) % WordMod]

(* What a report was to say: its words, under its own counter.             *)
Note(type, words) ==
    /\ total < MaxReports /\ total' = total + 1
    /\ generated' = [generated EXCEPT ![type] = @ + 1]
    /\ report' = [type |-> type, counter |-> COUNTER[type], words |-> words,
                  seq |-> sp_packet_count % SeqMod, seconds |-> seconds]
    /\ UNCHANGED <<pus_time, seconds>>

generate_tm_1_1(in) ==
    /\ Build(<<1, 1>>, COUNTER[<<1, 1>>], Bytes(in))
    /\ Count(<<1, 1>>, 1)
    /\ Note(<<1, 1>>, in)

(* TM[1,2], TM[1,7] and TM[1,8] all say failure code 1, data 0, and all    *)
(* send the counter of TM[1,2].                                            *)
generate_tm_1_278(type, in) ==
    /\ Build(type, COUNTER[<<1, 2>>], Bytes(<<in[1], in[2], 1, 0>>))
    /\ Count(type, 1)
    /\ Note(type, <<in[1], in[2], 1, 0>>)

(* The structure ID has one byte.  With the two increments of its caller,  *)
(* send_telemetry.                                                         *)
generate_tm_3_25(parameters) ==
    /\ Build(<<3, 25>>, COUNTER[<<3, 25>>], <<1>> \o Bytes(parameters))
    /\ Count(<<3, 25>>, 2)
    /\ Note(<<3, 25>>, parameters)

(* Mutated: one of the two counts is forgotten.                            *)
generate_tm_5_1_Uncounted(in) ==
    /\ Build(<<5, 1>>, COUNTER[<<5, 1>>], Bytes(in))
    /\ sp_packet_count' = (sp_packet_count + 1) % WordMod
    /\ Note(<<5, 1>>, in)
    /\ UNCHANGED COUNTER

generate_tm_5_1(in) ==
    /\ Build(<<5, 1>>, COUNTER[<<5, 1>>], Bytes(in))
    /\ Count(<<5, 1>>, 1)
    /\ Note(<<5, 1>>, in)

generate_tm_17_2 ==
    /\ Build(<<17, 2>>, COUNTER[<<17, 2>>], <<>>)
    /\ Count(<<17, 2>>, 1)
    /\ Note(<<17, 2>>, <<>>)

update_time(coarse_time) ==
    /\ pus_time' = TimeBytes(coarse_time) /\ seconds' = coarse_time
    /\ UNCHANGED <<bufferVars, sp_packet_count, COUNTER, report, generated,
                   total>>

-----------------------------------------------------------------------------
NoReport == [type |-> <<0, 0>>, counter |-> 0, words |-> <<>>, seq |-> 0,
             seconds |-> 0]

Init ==
    /\ pus_time = TimeBytes(0) /\ seconds = 0
    /\ pus_data = Zeros /\ PusFrameOut = Zeros /\ sp_data = Zeros
    /\ SPPacketOut = Zeros /\ SPPacketLength = 0
    /\ sp_packet_count = 1
    /\ COUNTER = [type \in Types |-> 0]
    /\ report = NoReport
    /\ generated = [type \in Types |-> 0] /\ total = 0

Next ==
    \/ \E in \in Arguments :
          \/ generate_tm_1_1(in) \/ generate_tm_5_1(in)
          \/ \E type \in {<<1, 2>>, <<1, 7>>, <<1, 8>>} :
                generate_tm_1_278(type, in)
    \/ \E parameters \in Parameters : generate_tm_3_25(parameters)
    \/ generate_tm_17_2
    \/ \E coarse_time \in Times : update_time(coarse_time)

Spec == Init /\ [][Next]_tmVars

-----------------------------------------------------------------------------
(* What is to be found in a packet.                                        *)
WordAt(packet, i) == packet[i] * Base + packet[i + 1]

(* What the generators put before the words of a report: 17 bytes of       *)
(* headers, and in TM[3,25] a structure ID of one byte.                    *)
BytesAhead(type) == IF type = <<3, 25>> THEN 18 ELSE 17

-----------------------------------------------------------------------------
(* The mission database: how Yamcs reads a packet.                         *)

(* The PUS version that the container of a report requires.                *)
DatabaseVersion(type) == IF type = <<3, 25>> THEN 2 ELSE 1

(* The fields behind the headers, by first byte and number of bytes: the   *)
(* packet ID and sequence control of the command that TM[1,x] is about,    *)
(* with a failure code of one byte in two of them; the event and its data; *)
(* and the eight parameters of TM[3,25].                                   *)
DatabaseFields(type) ==
    CASE type \in {<<1, 1>>, <<1, 7>>} -> <<<<18, 2>>, <<20, 2>>>>
      [] type \in {<<1, 2>>, <<1, 8>>} -> <<<<18, 2>>, <<20, 2>>, <<22, 1>>>>
      [] type = <<5, 1>> -> <<<<18, 1>>, <<19, 1>>>>
      [] type = <<3, 25>> -> [k \in 1..8 |-> <<17 + 2 * k, 2>>]
      [] type = <<17, 2>> -> <<>>

FieldRead(packet, field) ==
    IF field[2] = 1 THEN packet[field[1]] ELSE WordAt(packet, field[1])

(* The packet has the version that its container requires, and TM[3,25]    *)
(* the structure ID of the only structure there is.                        *)
Accepted(packet, type) ==
    /\ packet[7] \div 16 = DatabaseVersion(type)
    /\ type = <<3, 25>> => packet[18] = 1

(* Every field is read as the word that the report was to say there.       *)
FieldsRead(packet, type, words) ==
    \A k \in DOMAIN DatabaseFields(type) :
        FieldRead(packet, DatabaseFields(type)[k]) = words[k]

-----------------------------------------------------------------------------
(* The buffers keep their sizes, the packet fits in them, and the counters *)
(* are words.                                                              *)
TypeOK ==
    /\ pus_time \in [1..18 -> 0..(Base - 1)]
    /\ pus_data \in [1..BufferSize -> 0..(Base - 1)]
    /\ Len(PusFrameOut) = BufferSize
    /\ Len(sp_data) = BufferSize
    /\ Len(SPPacketOut) = BufferSize
    /\ SPPacketLength \in 0..BufferSize
    /\ sp_packet_count \in Word
    /\ COUNTER \in [Types -> Word]
    /\ generated \in [Types -> Nat] /\ total \in 0..MaxReports
    /\ report = NoReport \/ report.type \in Types

(* Whatever the generators have left in the static buffers before, the     *)
(* packet says what its own report was to say, at the places where its     *)
(* generator puts it, and no more, and its length field and its checksum   *)
(* are those of this packet.  Its counter is that of its own type but in   *)
(* TM[1,7] and TM[1,8], which send another.  That Yamcs, too, reads it as  *)
(* it was meant is claimed of TM[3,25] only, the one report the simulator  *)
(* sends; of the others see ReportAsInDatabase.                            *)
PacketReadsBack ==
    report # NoReport =>
        LET packet == First(SPPacketOut, SPPacketLength)
            words == report.words
        IN  /\ SPPacketLength = BytesAhead(report.type) + 2 * Len(words) + 2
            /\ WordAt(packet, 1) = Packet_ID
            /\ WordAt(packet, 3) = 3 * SeqMod + report.seq
            /\ WordAt(packet, 5) = SPPacketLength - 7
            /\ <<packet[8], packet[9]>> = report.type
            /\ report.type \notin {<<1, 7>>, <<1, 8>>} =>
                  WordAt(packet, 10) = report.counter
            /\ \A k \in 1..Len(words) :
                  WordAt(packet, BytesAhead(report.type) + 2 * k - 1)
                    = words[k]
            /\ SubSeq(packet, SPPacketLength - 1, SPPacketLength)
                  = Bytes(<<ecss_crc16(SubSeq(packet, 1,
                                              SPPacketLength - 2))>>)
            /\ report.type = <<3, 25>> =>
                  /\ Accepted(packet, report.type)
                  /\ FieldsRead(packet, report.type, words)

(* The sequence count and the counters, kept in two files, tell how many   *)
(* reports there were: one each, and two for each TM[3,25].                *)
CountersExplained ==
    /\ sp_packet_count = (1 + total + generated[<<3, 25>>]) % WordMod
    /\ \A type \in Types :
          COUNTER[type] = (IF type = <<3, 25>> THEN 2 * generated[type]
                           ELSE generated[type]) % WordMod

(* Of the four bytes of the time a report sends the upper two, and then a  *)
(* fine byte that is always zero, wherever in the buffer it was taken      *)
(* from.  Yamcs, which reads them as they are, dates the report to the     *)
(* beginning of the WordMod seconds, 18 hours in the code, in which it was *)
(* generated: never later, and never earlier than that.                    *)
TimeTagTruncates ==
    report # NoReport /\ NUM_COARSE_BYTES = 2
        /\ report.seconds < WordMod * WordMod =>
            LET packet == First(SPPacketOut, SPPacketLength)
                tag == WordAt(packet, 15)
            IN  /\ packet[17] = 0
                /\ tag * WordMod <= report.seconds
                /\ report.seconds < tag * WordMod + WordMod

-----------------------------------------------------------------------------
(* What the mission database says of the reports, and the code does not    *)
(* do.                                                                     *)

(* Four claims of the database: the packet has the version that its        *)
(* container requires; its fields are read as what they were to say; its   *)
(* counter counts the packets of its own type; and the sequence count has  *)
(* moved by one for each packet released.  Each of the four, made of every *)
(* report, implies this weaker statement, that at least one holds of each: *)
(* a report that breaks it breaks all four at once.                        *)
ReportAsInDatabase ==
    report # NoReport =>
        LET packet == First(SPPacketOut, SPPacketLength)
        IN  \/ Accepted(packet, report.type)
            \/ FieldsRead(packet, report.type, report.words)
            \/ WordAt(packet, 10) = report.counter
            \/ sp_packet_count = (1 + total) % WordMod
=============================================================================
