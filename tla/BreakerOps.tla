------------------------------ MODULE BreakerOps ------------------------------
(***************************************************************************)
(* The state of one providers/circuit_breaker.py CircuitBreaker as a value *)
(* and its synchronous methods as operators on that value.                 *)
(*                                                                         *)
(* Every method runs on the event loop without an await in it, so each is  *)
(* a function from the breaker before to the breaker after.  Time is kept  *)
(* as one bit: "elapsed" says that at least recovery_timeout seconds have  *)
(* passed since last_failure_time.  record_failure clears it; the passage  *)
(* of time, an action of the modules that use this one, sets it.           *)
(***************************************************************************)
EXTENDS Naturals

CONSTANTS
  FailureThreshold,   \* failure_threshold: failures before the circuit opens
  HalfOpenMaxCalls    \* half_open_max_calls: trial calls in the half-open state

ASSUME BreakerAssumption ==
  /\ FailureThreshold \in Nat \ {0}
  /\ HalfOpenMaxCalls \in Nat \ {0}

CircuitBreakerState == {"closed", "open", "half_open"}

Breaker == [ state         : CircuitBreakerState,
             failure_count : Nat,
             success_count : Nat,
             half_open_calls : Nat,
             elapsed       : BOOLEAN ]

NewBreaker == [ state |-> "closed", failure_count |-> 0, success_count |-> 0,
                half_open_calls |-> 0, elapsed |-> FALSE ]

\* Variant: the timeout is never looked at.
BeforeAnswer_StaysOpen(b) == b

\* should_allow_request moves an open breaker whose timeout has elapsed to
\* half-open before it answers; the other states answer without a change.
BeforeAnswer(b) ==
  IF b.state = "open" /\ b.elapsed
  THEN [b EXCEPT !.state = "half_open", !.half_open_calls = 0]
  ELSE b

\* Variant: off by one.
should_allow_request_OneMore(b) ==
  LET n == BeforeAnswer(b) IN
    \/ n.state = "closed"
    \/ n.state = "half_open" /\ n.half_open_calls <= HalfOpenMaxCalls

should_allow_request(b) ==
  LET n == BeforeAnswer(b) IN
    \/ n.state = "closed"
    \/ n.state = "half_open" /\ n.half_open_calls < HalfOpenMaxCalls

\* The locked first part of call(), for a request that is let through.
Admit(b) ==
  LET n == BeforeAnswer(b) IN
    IF n.state = "half_open" THEN [n EXCEPT !.half_open_calls = @ + 1] ELSE n

\* Variant: a success makes up for one failure, even when there was none.
record_success_TakesOneBack(b) ==
  CASE b.state = "half_open" /\ b.success_count + 1 >= HalfOpenMaxCalls -> NewBreaker
    [] b.state = "half_open" /\ b.success_count + 1 < HalfOpenMaxCalls ->
         [b EXCEPT !.success_count = @ + 1, !.half_open_calls = @ + 1]
    [] b.state = "closed" -> [b EXCEPT !.failure_count = @ - 1]
    [] OTHER -> b

\* Variant: closing keeps the failures that opened the circuit.
record_success_KeepsFailures(b) ==
  CASE b.state = "half_open" /\ b.success_count + 1 >= HalfOpenMaxCalls ->
         [b EXCEPT !.state = "closed", !.success_count = 0, !.half_open_calls = 0]
    [] b.state = "half_open" /\ b.success_count + 1 < HalfOpenMaxCalls ->
         [b EXCEPT !.success_count = @ + 1, !.half_open_calls = @ + 1]
    [] b.state = "closed" -> [b EXCEPT !.failure_count = 0]
    [] OTHER -> b

\* A half-open success is counted as a call once more: Admit counted it already.
record_success(b) ==
  CASE b.state = "half_open" /\ b.success_count + 1 >= HalfOpenMaxCalls ->
         [b EXCEPT !.state = "closed", !.failure_count = 0,
                   !.success_count = 0, !.half_open_calls = 0]
    [] b.state = "half_open" /\ b.success_count + 1 < HalfOpenMaxCalls ->
         [b EXCEPT !.success_count = @ + 1, !.half_open_calls = @ + 1]
    [] b.state = "closed" -> [b EXCEPT !.failure_count = 0]
    [] OTHER -> b

record_failure(b) ==
  LET n == [b EXCEPT !.failure_count = @ + 1, !.elapsed = FALSE] IN
  CASE b.state = "half_open" ->
         [n EXCEPT !.state = "open", !.success_count = 0, !.half_open_calls = 0]
    [] b.state = "closed" /\ n.failure_count >= FailureThreshold ->
         [n EXCEPT !.state = "open"]
    [] OTHER -> n

\* recovery_timeout seconds have passed since the last recorded failure.
TimeoutElapses(b) == [b EXCEPT !.elapsed = TRUE]
=============================================================================
