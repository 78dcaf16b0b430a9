------------------------------ MODULE Bulkhead ------------------------------
(***************************************************************************)
(* reliability/retry_strategy.py: BulkheadRetryExecutor over RetryExecutor.*)
(* execute puts its item on the queue and takes one off again without      *)
(* suspending, so the queue is empty at every await and nothing is ever    *)
(* rejected; callers wait for the semaphore instead, in their order. The   *)
(* slot is kept through the pauses between attempts, whose length follows   *)
(* the strategy and, for the adaptive one, how the last attempts of all     *)
(* callers went.                                                            *)
(***************************************************************************)
EXTENDS Naturals, Sequences, FiniteSets, SequencesExt

CONSTANTS Tasks, MaxConcurrent, MaxAttempts,
          Strategies, InitialDelay, MaxDelay, \* in tenths of a unit of time
          Jitter,                \* tenths of a tenth that may be added or taken
          Recent,                \* attempts the adaptive strategy looks at, 10 in the code
          Retryable, RetryOnTimeout

VARIABLES at, attempt, waiting, active, strategy, pause, history
vars == <<at, attempt, waiting, active, strategy, pause, history>>

Holders == {t \in Tasks : at[t] \in {"running", "pausing"}}

Init ==
  /\ at = [t \in Tasks |-> "new"]
  /\ attempt = [t \in Tasks |-> 0]
  /\ waiting = <<>>
  /\ active = 0
  /\ strategy \in Strategies
  /\ pause = [t \in Tasks |-> 0]
  /\ history = <<>>

TypeOK ==
  /\ at \in [Tasks -> {"new", "waiting", "running", "pausing", "done"}]
  /\ attempt \in [Tasks -> 0..MaxAttempts]
  /\ waiting \in Seq(Tasks)
  /\ active \in 0..MaxConcurrent
  /\ strategy \in Strategies /\ pause \in [Tasks -> Nat]
  /\ history \in Seq(BOOLEAN) /\ Len(history) <= Recent

(* --- The pause before an attempt ----------------------------------------- *)
_exponential_backoff(n) == InitialDelay * 2 ^ (n - 2)
_linear_backoff(n) == InitialDelay * (n - 1)

\* Variant: counted from the attempt before.
_fibonacci_backoff_Early(n) ==
  LET fib[k \in Nat] == IF k < 2 THEN k ELSE fib[k - 1] + fib[k - 2] IN InitialDelay * fib[n - 2]
_fibonacci_backoff(n) ==
  LET fib[k \in Nat] == IF k < 2 THEN k ELSE fib[k - 1] + fib[k - 2] IN InitialDelay * fib[n - 1]

_adaptive_backoff(n, past) ==
  LET good == Cardinality({k \in DOMAIN past : past[k]}) * 10
      base == _exponential_backoff(n)
  IN  IF Len(past) < Recent THEN base
      ELSE IF good < 2 * Recent THEN (base * 3) \div 2
      ELSE IF good > 8 * Recent THEN (base * 7) \div 10
      ELSE base

_apply_jitter(d) == {d - (d * Jitter) \div 10, d, d + (d * Jitter) \div 10}

(* The bound comes before the jitter. *)
_calculate_delay(n, past) ==
  LET delay == CASE strategy = "exponential" -> _exponential_backoff(n)
                 [] strategy = "linear" -> _linear_backoff(n)
                 [] strategy = "fibonacci" -> _fibonacci_backoff(n)
                 [] strategy = "adaptive" -> _adaptive_backoff(n, past)
                 [] OTHER -> InitialDelay
      capped == IF delay > MaxDelay THEN MaxDelay ELSE delay
  IN  _apply_jitter(capped)

(* Timeouts are exceptions like any other: retry_on_timeout is looked at    *)
(* only when the configured classes leave them out.                         *)
_should_retry(n, kind) ==
  /\ n < MaxAttempts
  /\ kind # "fatal"
  /\ kind \in Retryable \/ (kind = "timeout" /\ RetryOnTimeout)

Noted(ok) == LET all == Append(history, ok) IN
             IF Len(all) > Recent THEN Tail(all) ELSE all

(* --- Calls --------------------------------------------------------------- *)
(* A free slot is not taken past those who wait for one. *)
Enter(t) ==
  /\ at[t] = "new"
  /\ UNCHANGED <<strategy, pause, history>>
  /\ IF active < MaxConcurrent /\ waiting = <<>>
       THEN /\ at' = [at EXCEPT ![t] = "running"]
            /\ attempt' = [attempt EXCEPT ![t] = 1]
            /\ active' = active + 1
            /\ UNCHANGED waiting
       ELSE /\ at' = [at EXCEPT ![t] = "waiting"]
            /\ waiting' = Append(waiting, t)
            /\ UNCHANGED <<attempt, active>>

Granted(t) ==
  /\ UNCHANGED <<strategy, pause, history>>
  /\ waiting # <<>> /\ t = Head(waiting)
  /\ active < MaxConcurrent
  /\ waiting' = Tail(waiting)
  /\ at' = [at EXCEPT ![t] = "running"]
  /\ attempt' = [attempt EXCEPT ![t] = 1]
  /\ active' = active + 1

\* Variant: the slot is given back on success only.
Leave_Succeeded(t) ==
  /\ at' = [at EXCEPT ![t] = "done"]
  /\ active' = IF attempt[t] < MaxAttempts THEN active - 1 ELSE active
  /\ pause' = [pause EXCEPT ![t] = 0]
  /\ UNCHANGED <<attempt, waiting, strategy>>
(* The end of `async with` and of the finally clause. *)
Leave(t) ==
  /\ at' = [at EXCEPT ![t] = "done"]
  /\ active' = active - 1
  /\ pause' = [pause EXCEPT ![t] = 0]
  /\ UNCHANGED <<attempt, waiting, strategy>>

Returns(t) == at[t] = "running" /\ Leave(t) /\ history' = Noted(TRUE)

(* The last failure, or the first that is not retried, is what the caller   *)
(* sees. The next pause is decided on at once.                              *)
Raises(t) ==
  /\ at[t] = "running"
  /\ history' = Noted(FALSE)
  /\ \E kind \in {"fatal", "timeout", "other"} :
       \/ ~_should_retry(attempt[t], kind) /\ Leave(t)
       \/ /\ _should_retry(attempt[t], kind)
          /\ \E delay \in _calculate_delay(attempt[t] + 1, Noted(FALSE)) :
               pause' = [pause EXCEPT ![t] = delay]
          /\ at' = [at EXCEPT ![t] = "pausing"]
          /\ UNCHANGED <<attempt, waiting, active, strategy>>

Again(t) ==
  /\ at[t] = "pausing"
  /\ at' = [at EXCEPT ![t] = "running"]
  /\ attempt' = [attempt EXCEPT ![t] = @ + 1]
  /\ pause' = [pause EXCEPT ![t] = 0]
  /\ UNCHANGED <<waiting, active, strategy, history>>

Cancel(t) ==
  \/ /\ at[t] = "waiting"
     /\ \E i \in DOMAIN waiting : waiting[i] = t /\ waiting' = RemoveAt(waiting, i)
     /\ at' = [at EXCEPT ![t] = "done"]
     /\ UNCHANGED <<attempt, active, strategy, pause, history>>
  \/ at[t] \in {"running", "pausing"} /\ Leave(t) /\ UNCHANGED history

Next == \E t \in Tasks : Enter(t) \/ Granted(t) \/ Returns(t) \/ Raises(t)
                         \/ Again(t) \/ Cancel(t)

Spec == Init /\ [][Next]_vars

(* The semaphore wakes its waiters; what is called ends, and pauses do. *)
Fairness ==
  \A t \in Tasks : WF_vars(Granted(t)) /\ WF_vars(Returns(t) \/ Raises(t) \/ Again(t))

(* No more run at once than there are slots, and the count says how many.  *)
WithinSlots == active <= MaxConcurrent /\ Cardinality(Holders) <= MaxConcurrent
CountIsHolders == active = Cardinality(Holders)
(* Who waits has one place in the line, and nobody else has one: a slot is  *)
(* never handed to a caller that has gone away.                             *)
LineIsWaiting ==
  /\ IsInjective(waiting)
  /\ \A t \in Tasks : at[t] = "waiting" <=> t \in ToSet(waiting)
(* A pause is never shorter than the initial delay allows, less the jitter  *)
(* and what a good past takes off, and never longer than the longest delay  *)
(* with the jitter on top of it, whatever the strategy, the attempt and the *)
(* other callers' attempts are (_calculate_delay).                          *)
PausesWithin ==
  \A t \in Tasks : at[t] = "pausing" =>
    /\ pause[t] * 100 >= InitialDelay * (10 - Jitter) * (IF strategy = "adaptive" THEN 7 ELSE 10)
    /\ pause[t] * 10 <= MaxDelay * (10 + Jitter)
(* Everyone who asked is served, or has gone away. *)
AllServed == \A t \in Tasks : []<>(at[t] \in {"new", "done"})
=============================================================================
