---------------------------- MODULE MCDownlink ----------------------------
(* Two application processes, one that counts by one and one that counts   *)
(* by two, in a sequence field of four values, so that the counts of both  *)
(* wrap within the packets released.                                       *)
EXTENDS Downlink

CONSTANTS a1, a2

MCApids == {a1, a2}
MCSeqStep == [apid \in MCApids |-> IF apid = a1 THEN 1 ELSE 2]
=============================================================================
