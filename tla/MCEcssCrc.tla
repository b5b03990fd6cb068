----------------------------- MODULE MCEcssCrc -----------------------------
(* EcssCrc with the code's polynomial and initial value.                   *)
EXTENDS EcssCrc

MCPolynomial == {0, 5, 12}
MCInitial == 0..15
MCMessages == {{}, {0}, {7}, {1, 4, 6}, 0..7}
MCBursts == {{}, {0}, {0, 15}, {0, 5, 12}, {2, 3, 13}, 0..15}
MCLengthField == {2}
=============================================================================
