------------------------ MODULE PeriodicTimerProofs ------------------------
(* The promise of PeriodicTimer, proved for every interval.                *)
EXTENDS PeriodicTimer, TLAPS

TimerInv == TimerTypeOK /\ LastNotAhead /\ NeverFast

(* One more firing adds one more interval: the only fact about products    *)
(* the invariant needs.                                                    *)
LEMMA OneMoreInterval ==
    ASSUME NEW n \in Nat, NEW i \in Nat
    PROVE  (n + 1) * i = n * i + i
OBVIOUS

(* A timer polled at arbitrary instants of a clock that only moves forward *)
(* has its last firing in the past and has fired at most once per          *)
(* interval.                                                               *)
THEOREM TimerNeverFast ==
    ASSUME Interval \in Nat
    PROVE  Spec => [](LastNotAhead /\ NeverFast)
<1>1. Init => TimerInv
  BY DEF Init, TimerInv, TimerTypeOK, LastNotAhead, NeverFast
<1>2. TimerInv /\ [Next]_timerVars => TimerInv'
  <2> SUFFICES ASSUME TimerInv, [Next]_timerVars
               PROVE  TimerInv'
    OBVIOUS
  <2>1. CASE Pass
    BY <2>1 DEF Pass, TimerInv, TimerTypeOK, LastNotAhead, NeverFast
  <2>2. CASE Fire
    <3>1. TimerTypeOK' /\ LastNotAhead'
      BY <2>2 DEF Fire, TimerInv, TimerTypeOK, LastNotAhead
    <3>2. count * Interval + Interval <= now
      <4>1. count * Interval \in Int /\ Interval \in Int
        BY DEF TimerInv, TimerTypeOK
      <4> QED
        BY <2>2, <4>1 DEF Fire, Due, TimerInv, TimerTypeOK, NeverFast
    <3>3. NeverFast'
      BY <2>2, <3>2, OneMoreInterval
         DEF Fire, NeverFast, TimerInv, TimerTypeOK
    <3> QED
      BY <3>1, <3>3 DEF TimerInv
  <2>3. CASE UNCHANGED timerVars
    BY <2>3 DEF timerVars, TimerInv, TimerTypeOK, LastNotAhead, NeverFast
  <2> QED
    BY <2>1, <2>2, <2>3 DEF Next
<1> QED
  BY <1>1, <1>2, PTL DEF Spec, TimerInv
=============================================================================
