---------------------------- MODULE BreakerContract ----------------------------
(***************************************************************************)
(* What a circuit breaker promises the code it guards, said without the    *)
(* counters of an implementation:                                          *)
(*   - it opens only after FailureThreshold failures in a row,             *)
(*   - while it is half-open it lets at most HalfOpenMaxCalls calls        *)
(*     through, one failure opens it again,                                *)
(*   - it closes only after HalfOpenMaxCalls successes reported since it   *)
(*     became half-open.                                                   *)
(* A result reported while it is open changes nothing.                     *)
(***************************************************************************)
EXTENDS Naturals

CONSTANTS FailureThreshold, HalfOpenMaxCalls

VARIABLES
  mode,     \* "closed", "open" or "half_open"
  row,      \* failures in a row since the circuit was last closed or succeeded
  trials,   \* calls let through since the circuit became half-open
  good      \* successes reported since the circuit became half-open

vars == <<mode, row, trials, good>>

Init == mode = "closed" /\ row = 0 /\ trials = 0 /\ good = 0

\* The transitions that leave a state start the next one from zero.
Enter(m) == mode' = m /\ row' = 0 /\ trials' = 0 /\ good' = 0

\* The first call after the recovery timeout is also the first trial.
Retry == /\ mode = "open"
         /\ mode' = "half_open" /\ trials' = 1 /\ row' = 0 /\ good' = 0

Trial == /\ mode = "half_open" /\ trials < HalfOpenMaxCalls
         /\ trials' = trials + 1
         /\ UNCHANGED <<mode, row, good>>

Succeed ==
  \/ mode = "closed" /\ row' = 0 /\ UNCHANGED <<mode, trials, good>>
  \/ mode = "half_open" /\ good + 1 >= HalfOpenMaxCalls /\ Enter("closed")
  \/ /\ mode = "half_open" /\ good + 1 < HalfOpenMaxCalls
     /\ good' = good + 1
     /\ UNCHANGED <<mode, row, trials>>

Fail ==
  \/ mode = "closed" /\ row + 1 >= FailureThreshold /\ Enter("open")
  \/ /\ mode = "closed" /\ row + 1 < FailureThreshold
     /\ row' = row + 1
     /\ UNCHANGED <<mode, trials, good>>
  \/ mode = "half_open" /\ Enter("open")

Next == Retry \/ Trial \/ Succeed \/ Fail

Spec == Init /\ [][Next]_vars
=============================================================================
