--------------------------- MODULE PeriodicTimer ---------------------------
(***************************************************************************)
(* What the simulator means by "every so many milliseconds".  main.c and   *)
(* telemetry.c do all their periodic work with the same idiom,             *)
(*                                                                         *)
(*     if ((timeSinceBoot - previous) >= interval) {                       *)
(*         ... ; previous = timeSinceBoot; }                               *)
(*                                                                         *)
(* This module is the promise of that idiom on its own: a clock that only  *)
(* moves forward, the instant of the last firing, and the number of        *)
(* firings.  OnboardTime and Simulator are shown to implement it.          *)
(***************************************************************************)
EXTENDS Integers

CONSTANT Interval     \* a number of milliseconds

VARIABLES
    now,      \* milliseconds since boot
    last,     \* the value of now at the last firing, 0 before the first
    count     \* how often the timer has fired

timerVars == <<now, last, count>>

TimerTypeOK == now \in Nat /\ last \in Nat /\ count \in Nat

Init == now \in Nat /\ last = 0 /\ count = 0

Due == now - last >= Interval

Pass == /\ now' \in Nat
        /\ now' >= now
        /\ UNCHANGED <<last, count>>

Fire == /\ Due
        /\ last' = now
        /\ count' = count + 1
        /\ UNCHANGED now

Next == Pass \/ Fire

Spec == Init /\ [][Next]_timerVars

-----------------------------------------------------------------------------
(* The unsigned difference now - last of the code never wraps around: the  *)
(* last firing is never in the future.                                     *)
LastNotAhead == last <= now

(* However irregularly the clock is read, the timer never fires more often *)
(* than once per interval: a late poll loses firings, it never makes up    *)
(* for them.                                                               *)
NeverFast == count * Interval <= last
=============================================================================
