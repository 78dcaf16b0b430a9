---------------------------- MODULE CircuitBreaker ----------------------------
(***************************************************************************)
(* providers/circuit_breaker.py CircuitBreaker.call, used by concurrent    *)
(* tasks.  The lock is held for the admission and again for the recording  *)
(* of the result, never while the guarded function runs, and neither       *)
(* locked part awaits: a call is two atomic steps, its beginning and its   *)
(* end, and anything may happen to the breaker in between.                 *)
(***************************************************************************)
EXTENDS BreakerOps

CONSTANTS
  Callers,       \* tasks that call through the breaker
  MaxFailures    \* bound on failure_count, which only closing resets

ASSUME CallersAssumption == MaxFailures \in Nat

VARIABLES
  cb,        \* the breaker
  pc,        \* pc[c]: "idle", or "running" between the two locked parts
  admitted   \* history: calls let through since the breaker became half-open

vars == <<cb, pc, admitted>>

Init == /\ cb = NewBreaker
        /\ pc = [c \in Callers |-> "idle"]
        /\ admitted = 0

-----------------------------------------------------------------------------
Begin(c) ==
  /\ pc[c] = "idle"
  /\ should_allow_request(cb)
  /\ cb' = Admit(cb)
  /\ pc' = [pc EXCEPT ![c] = "running"]
  /\ admitted' = IF cb'.state # "half_open" THEN 0
                 ELSE IF cb.state = "half_open" THEN admitted + 1 ELSE 1

\* CircuitBreakerError: the caller is turned away, the breaker is as it was.
Blocked(c) ==
  /\ pc[c] = "idle"
  /\ ~should_allow_request(cb)
  /\ UNCHANGED vars

Finish(c, b) ==
  /\ pc[c] = "running"
  /\ cb' = b
  /\ pc' = [pc EXCEPT ![c] = "idle"]
  /\ admitted' = IF b.state = "half_open" THEN admitted ELSE 0

Succeeds(c) == Finish(c, record_success(cb))

\* The function raised expected_exception.
Fails(c) == cb.failure_count < MaxFailures /\ Finish(c, record_failure(cb))

\* Any other exception, or the cancellation of the task: nothing is recorded.
RaisesOther(c) == Finish(c, cb)

TimePasses == /\ cb.state = "open" /\ ~cb.elapsed
              /\ cb' = TimeoutElapses(cb)
              /\ UNCHANGED <<pc, admitted>>

Next == \/ \E c \in Callers : \/ Begin(c) \/ Blocked(c)
                              \/ Succeeds(c) \/ Fails(c) \/ RaisesOther(c)
        \/ TimePasses

Spec == Init /\ [][Next]_vars

\* Tasks keep coming, a guarded function ends (providers time out), time passes.
FairSpec ==
  /\ Spec
  /\ WF_vars(TimePasses)
  /\ \A c \in Callers :
       WF_vars(Begin(c)) /\ WF_vars(Succeeds(c) \/ Fails(c) \/ RaisesOther(c))

-----------------------------------------------------------------------------
TypeOK == /\ cb \in Breaker
          /\ pc \in [Callers -> {"idle", "running"}]
          /\ admitted \in Nat

\* A closed breaker has not reached the threshold, whatever calls from before
\* an opening still report into it.
ClosedBelowThreshold == cb.state = "closed" => cb.failure_count < FailureThreshold

\* success_count belongs to the current half-open period: no result left over
\* from an earlier one helps to close the circuit.
SuccessesBelongToPeriod ==
  /\ cb.state # "half_open" => cb.success_count = 0
  /\ cb.success_count < HalfOpenMaxCalls

\* half_open_max_calls is a bound on the calls let through in one half-open
\* period (not only on those in flight).
TrialsBounded == admitted <= HalfOpenMaxCalls

\* Every call let through is counted, and every counted call is a call let
\* through or a success that was counted a second time.
TrialsCounted ==
  cb.state = "half_open" =>
    /\ admitted <= cb.half_open_calls
    /\ cb.half_open_calls <= admitted + cb.success_count

Contract == INSTANCE BreakerContract WITH
  mode   <- cb.state,
  row    <- IF cb.state = "closed" THEN cb.failure_count ELSE 0,
  trials <- admitted,
  good   <- cb.success_count

\* The breaker keeps the contract of BreakerContract.
KeepsContract == Contract!Spec

\* An open breaker that callers keep trying is tried again: late failures of
\* calls from before the opening can put the retry off, never for good.
OpenIsRetried == cb.state = "open" ~> cb.state # "open"

\* circuit_breaker.py:36 and :53: half-open tests whether the service has
\* recovered, with up to half_open_max_calls calls; so the test has an outcome.
HalfOpenDecides == cb.state = "half_open" ~> cb.state # "half_open"
=============================================================================
