------------------------------ MODULE EcssCrc ------------------------------
(***************************************************************************)
(* The checksum at the end of a space packet: ecss_crc.c, with its use by  *)
(* the builder (the end of buildSPPacket) and by the checker (handle_sp).  *)
(* Telemetry is built by the simulator and checked by Yamcs, a command the *)
(* other way round; both ends compute the same function, so one builder    *)
(* and one checker stand for either direction.                             *)
(*                                                                         *)
(* A byte and the 16-bit register are the sets of the positions of their   *)
(* 1 bits, position 0 being the least significant: exclusive or is the     *)
(* symmetric difference, a shift moves every position by one.  An          *)
(* iteration of the loop over the bytes is a step.                         *)
(***************************************************************************)
EXTENDS Integers, Sequences

CONSTANTS
    crc_polynomial,     \* 0x1021 in the code: positions 0, 5 and 12
    Initial,            \* the register before the first byte, 0xFFFF
    Messages,           \* the byte values a packet is made of
    Bursts,             \* the bits that the way may invert, from the last on
    LengthField,        \* the places of the packet's own length, 5 and 6
    MaxLength           \* bound: bytes before the checksum

Byte == SUBSET (0..7)
Register == SUBSET (0..15)

ASSUME PolynomialAssumption ==
    /\ crc_polynomial \in Register /\ 0 \in crc_polynomial
    /\ Initial \in Register

ASSUME BytesAssumption ==
    /\ Messages \subseteq Byte
    /\ Bursts \subseteq Register /\ {} \in Bursts
    /\ MaxLength \in Nat

VARIABLES
    phase,              \* "build", "sent", "check" or "judged"
    out,                \* the packet as buildSPPacket builds it
    crc_shift,          \* the builder's register
    in,                 \* the packet as handle_sp has it
    data_byte_counter,  \* how many of its bytes are checked
    crc_check,          \* the checker's register
    verdict             \* what handle_sp prints

crcVars == <<phase, out, crc_shift, in, data_byte_counter, crc_check,
             verdict>>

-----------------------------------------------------------------------------
Xor(a, b) == (a \ b) \cup (b \ a)

(* Mutated: the bit shifted out stays, for want of the cast to 16 bits.    *)
ShiftLeft_Wide(r) == {b + 1 : b \in r}

ShiftLeft(r) == {b + 1 : b \in r \ {15}}

(* Mutated: the polynomial is never applied.                               *)
Shift_NoFeedback(r) == ShiftLeft(r)

Shift(r) == IF 15 \in r THEN Xor(ShiftLeft(r), crc_polynomial)
            ELSE ShiftLeft(r)

(* Mutated: the loop over the bits runs seven times.                       *)
EightShifts_Seven(r) == Shift(Shift(Shift(Shift(Shift(Shift(Shift(r)))))))

EightShifts(r) ==
    Shift(Shift(Shift(Shift(Shift(Shift(Shift(Shift(r))))))))

(* A byte shifted to the upper half of the register.                       *)
Upper(byte) == {b + 8 : b \in byte}

ByteStep(r, byte) == EightShifts(Xor(r, Upper(byte)))

HighByte(r) == {b - 8 : b \in r \cap (8..15)}
LowByte(r) == r \cap (0..7)

-----------------------------------------------------------------------------
Init ==
    /\ phase = "build"
    /\ out = <<>>
    /\ crc_shift = Initial
    /\ in = <<>>
    /\ data_byte_counter = 0
    /\ crc_check = Initial
    /\ verdict = "none"

(* The builder appends a byte, which the checksum will cover.              *)
AddByte ==
    /\ phase = "build"
    /\ Len(out) < MaxLength
    /\ \E byte \in Messages :
          /\ out' = Append(out, byte)
          /\ crc_shift' = ByteStep(crc_shift, byte)
    /\ UNCHANGED <<phase, in, data_byte_counter, crc_check, verdict>>

(* Mutated: the low byte goes first.                                       *)
Checksum_Swapped == <<LowByte(crc_shift), HighByte(crc_shift)>>

Checksum == <<HighByte(crc_shift), LowByte(crc_shift)>>

AppendChecksum ==
    /\ phase = "build"
    /\ out # <<>>
    /\ phase' = "sent"
    /\ out' = out \o Checksum
    /\ UNCHANGED <<crc_shift, in, data_byte_counter, crc_check, verdict>>

(* A packet with a burst added to its bits, the last of which is at place  *)
(* at.  Place 0 is the least significant bit of the last byte.             *)
Hit(packet, burst, at) ==
    [i \in 1..Len(packet) |->
        Xor(packet[i],
            {b \in 0..7 : b + 8 * (Len(packet) - i) - at \in burst})]

(* The way inverts bits of 16 successive ones, or none, wherever these     *)
(* begin; the length field, which says how many bytes are checked, comes   *)
(* through.                                                                *)
Deliver ==
    /\ phase = "sent"
    /\ phase' = "check"
    /\ \E at \in 0..(8 * Len(out) - 16), burst \in Bursts :
          in' = Hit(out, burst, at)
    /\ \A i \in LengthField \cap DOMAIN out : in'[i] = out[i]
    /\ UNCHANGED <<out, crc_shift, data_byte_counter, crc_check, verdict>>

CheckByte ==
    /\ phase = "check"
    /\ data_byte_counter < Len(in)
    /\ data_byte_counter' = data_byte_counter + 1
    /\ crc_check' = ByteStep(crc_check, in[data_byte_counter'])
    /\ UNCHANGED <<phase, out, crc_shift, in, verdict>>

Judge ==
    /\ phase = "check"
    /\ data_byte_counter = Len(in)
    /\ phase' = "judged"
    /\ verdict' = IF crc_check = {} THEN "Correct SP CRC"
                  ELSE "Incorrect SP CRC"
    /\ UNCHANGED <<out, crc_shift, in, data_byte_counter, crc_check>>

(* The next packet starts afresh.                                          *)
NextPacket ==
    /\ phase = "judged"
    /\ phase' = "build"
    /\ out' = <<>> /\ crc_shift' = Initial
    /\ in' = <<>> /\ data_byte_counter' = 0 /\ crc_check' = Initial
    /\ verdict' = "none"

Next == AddByte \/ AppendChecksum \/ Deliver \/ CheckByte \/ Judge
        \/ NextPacket

Spec == Init /\ [][Next]_crcVars

-----------------------------------------------------------------------------
(* Both registers keep to 16 bits and every byte to eight, through the     *)
(* shifts of ecss_crc16.                                                   *)
TypeOK ==
    /\ phase \in {"build", "sent", "check", "judged"}
    /\ out \in Seq(Byte) /\ Len(out) <= MaxLength + 2
    /\ in \in Seq(Byte) /\ Len(in) \in {0, Len(out)}
    /\ crc_shift \in Register /\ crc_check \in Register
    /\ data_byte_counter \in 0..Len(in)
    /\ verdict \in {"none", "Correct SP CRC", "Incorrect SP CRC"}

(* A polynomial over GF(2) is the set of its exponents.  Long division of  *)
(* one of degree below 16 + n by x^16 + crc_polynomial takes n steps, each *)
(* of which cancels the leading term if it is there; what is left is the   *)
(* remainder.                                                              *)
Poly(n) == SUBSET (0..(15 + n))

Times(p, n) == {e + n : e \in p}

Cancel(p, n) == IF 15 + n \in p
                THEN Xor(p, Times(crc_polynomial \cup {16}, n - 1)) ELSE p

Remainder[n \in Nat] ==
    [p \in Poly(n) |-> IF n = 0 THEN p ELSE Remainder[n - 1][Cancel(p, n)]]

(* A packet as one polynomial, its first byte the most significant.        *)
Polynomial(bytes) ==
    UNION {Times(bytes[k], 8 * (Len(bytes) - k)) : k \in DOMAIN bytes}

(* The remainder of a packet, followed by 16 zeros, with the initial value *)
(* added to its first 16 bits, which is how the ECSS standard that the     *)
(* code names defines the checksum.                                        *)
RemainderOf(bytes) ==
    Remainder[8 * Len(bytes)]
        [Xor(Times(Polynomial(bytes), 16), Times(Initial, 8 * Len(bytes)))]

(* What ecss_crc16 computes byte by byte is the remainder of the bytes     *)
(* that it has taken, at both ends.                                        *)
RegisterIsRemainder ==
    /\ phase = "build" => crc_shift = RemainderOf(out)
    /\ phase \in {"check", "judged"} =>
          crc_check = RemainderOf(SubSeq(in, 1, data_byte_counter))

(* A packet that arrives as it was built is found correct: the register    *)
(* that has taken the packet and then its own two bytes, in the order in   *)
(* which buildSPPacket writes them, is zero, as handle_sp expects.         *)
IntactAccepted ==
    phase = "judged" /\ in = out => verdict = "Correct SP CRC"

(* A packet of which any bits were damaged, no two of them more than 15    *)
(* apart and the checksum's own included, is never found correct.          *)
DamageSeen ==
    phase = "judged" /\ in # out => verdict = "Incorrect SP CRC"
=============================================================================
