------------------------------ MODULE MCEGSE ------------------------------
(* Enough runs of the script for one to be broken off and one to abort     *)
(* before the last, and a counter that does not wrap within the commands   *)
(* issued.                                                                 *)
EXTENDS EGSE
=============================================================================
