---------------------------- MODULE MCTelemetry ----------------------------
(* Telemetry with words of 36 values, of which the sequence field has nine,*)
(* and with a checksum of the length, three header bytes and the last two. *)
EXTENDS Telemetry

MCecss_crc16(bytes) ==
    LET n == Len(bytes)
    IN  (n + 5 * bytes[2] + 7 * bytes[4] + 11 * bytes[6]
           + 13 * bytes[n - 1] + 17 * bytes[n]) % WordMod

MCParameters == {[k \in 1..8 |-> k], [k \in 1..8 |-> WordMod - 1]}
MCArguments == {<<0, 7>>, <<35, 20>>}
=============================================================================
