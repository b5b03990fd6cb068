--------------------------- MODULE MCOnboardTime ---------------------------
(* OnboardTime on a small instance: a second is two clock units, the run   *)
(* starts two seconds before a midnight and two before the low half of the *)
(* seconds counter overflows into the high half.                           *)
EXTENDS OnboardTime
=============================================================================
