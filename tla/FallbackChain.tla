--------------------------- MODULE FallbackChain ---------------------------
(***************************************************************************)
(* orchestration/fallback_manager.py: requests walk one chain of models,   *)
(* each model with a breaker once it has failed. A model whose breaker is  *)
(* not closed is skipped, and the skip counts as an attempt. Asking a      *)
(* breaker whether it is closed may make it half-open; no success is ever  *)
(* reported to it. `since` is the age of a breaker's last failure, up to   *)
(* the recovery timeout and one unit more.                                 *)
(***************************************************************************)
EXTENDS Naturals, Sequences

CONSTANTS Requests, Models,
          Chain,                  \* the models to try, primary first
          MaxAttempts, Threshold, Recovery

VARIABLES breaker, at, pos, skipped
vars == <<breaker, at, pos, skipped>>

Least(a, b) == IF a <= b THEN a ELSE b
NewBreaker == [state |-> "closed", failures |-> 0, since |-> 0]

Init ==
  /\ breaker = [m \in Models |-> NewBreaker]
  /\ at = [r \in Requests |-> "idle"]
  /\ pos = [r \in Requests |-> 0]
  /\ skipped = {}

TypeOK ==
  /\ breaker \in [Models -> [state : {"closed", "open", "half_open"},
                             failures : 0..Threshold, since : 0..Recovery + 1]]
  /\ at \in [Requests -> {"idle", "waiting", "asking"}]
  /\ pos \in [Requests -> 0..Len(Chain)]
  /\ skipped \subseteq Models

(* is_closed answers and, once the wait is over, moves on to half-open. *)
Waited(b) == b.state = "open" /\ b.since > Recovery
is_closed(b) == b.state # "open" \/ Waited(b)
\* Variant: a breaker that is asked while open starts its wait again.
Asked_Restarts(b) ==
  IF Waited(b) THEN [b EXCEPT !.state = "half_open"]
  ELSE IF b.state = "open" THEN [b EXCEPT !.since = 0] ELSE b

Asked(b) == IF Waited(b) THEN [b EXCEPT !.state = "half_open"] ELSE b

(* Failures are counted over all time: after the threshold every failure    *)
(* opens the breaker.                                                       *)
record_failure(b) ==
  LET n == Least(b.failures + 1, Threshold) IN
    [state |-> IF n >= Threshold \/ b.state = "half_open" THEN "open" ELSE b.state,
     failures |-> n, since |-> 0]

(* The loop from the i-th model on, up to its next await: the first model   *)
(* that may be asked, all those before it having been skipped.              *)
Limit == Least(MaxAttempts, Len(Chain))
Stops(bs, i) == {j \in i..Limit : is_closed(bs[Chain[j]])}
Walk(r, bs, i) ==
  LET S == Stops(bs, i)
      stop == IF S = {} THEN Limit + 1 ELSE CHOOSE j \in S : \A k \in S : j <= k
      seen == {Chain[j] : j \in i..Least(stop, Limit)}
  IN /\ breaker' = [m \in Models |-> IF m \in seen THEN Asked(bs[m]) ELSE bs[m]]
     /\ skipped' = {Chain[j] : j \in i..(stop - 1)}
     /\ pos' = [pos EXCEPT ![r] = IF S = {} THEN 0 ELSE stop]
     /\ at' = [at EXCEPT ![r] = IF S = {} THEN "idle"
                                ELSE IF stop = 1 THEN "asking" ELSE "waiting"]

execute_with_fallback(r) ==
  /\ at[r] = "idle"
  /\ Walk(r, breaker, 1)

(* The backoff of every attempt but the first. *)
Wake(r) ==
  /\ at[r] = "waiting"
  /\ at' = [at EXCEPT ![r] = "asking"]
  /\ skipped' = {}
  /\ UNCHANGED <<breaker, pos>>

(* A valid answer, or the cancellation of the request: no breaker is told.  *)
Ends(r) ==
  /\ at[r] # "idle"
  /\ at' = [at EXCEPT ![r] = "idle"]
  /\ pos' = [pos EXCEPT ![r] = 0]
  /\ skipped' = {}
  /\ UNCHANGED breaker

(* A timeout, an error or an answer that is not valid. *)
Fails(r) ==
  LET m == Chain[pos[r]] IN
    /\ at[r] = "asking"
    /\ Walk(r, [breaker EXCEPT ![m] = record_failure(@)], pos[r] + 1)

(* create_adaptive_chain and get_fallback_stats ask every breaker. *)
Survey ==
  /\ breaker' = [m \in Models |-> Asked(breaker[m])]
  /\ skipped' = {}
  /\ UNCHANGED <<at, pos>>

Tick ==
  /\ breaker' = [m \in Models |->
                   [breaker[m] EXCEPT !.since = Least(@ + 1, Recovery + 1)]]
  /\ skipped' = {}
  /\ UNCHANGED <<at, pos>>

Next ==
  \/ \E r \in Requests : execute_with_fallback(r) \/ Wake(r) \/ Ends(r) \/ Fails(r)
  \/ Survey \/ Tick

(* Requests keep coming, each attempt has its timeout, and time passes. *)
Fairness ==
  /\ \A r \in Requests : WF_vars(execute_with_fallback(r))
                         /\ WF_vars(Wake(r) \/ Ends(r) \/ Fails(r))
  /\ WF_vars(Tick)

Spec == Init /\ [][Next]_vars /\ Fairness

(* A model is skipped only for a failure of the last recovery period, of    *)
(* which there have been as many as the threshold.                          *)
SkippedForCause ==
  \A m \in skipped : breaker[m].failures = Threshold /\ breaker[m].since <= Recovery
(* The primary model is asked again and again: no breaker, told of failures *)
(* only, keeps it out for good.                                             *)
PrimaryIsAskedAgain == []<>(breaker[Chain[1]].state # "open")
=============================================================================
