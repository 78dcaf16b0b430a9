------------------------- MODULE ProviderOrchestrator -------------------------
(***************************************************************************)
(* providers/orchestrator.py ProviderOrchestrator over a set of providers, *)
(* each behind its own circuit breaker, serving concurrent completions and *)
(* streams.                                                                *)
(*                                                                         *)
(* A request runs without a break from one await to the next: the loop     *)
(* body that chooses a provider, and the breaker's admission of the call,  *)
(* are one step with the event that came before it (the arrival of the     *)
(* request, or the end of the pause before a retry).  The awaits are the   *)
(* provider's answer, the chunks of a stream and the pause.                *)
(*                                                                         *)
(* No code changes BaseProvider.status, so is_healthy() is always true.    *)
(***************************************************************************)
EXTENDS BreakerOps, FiniteSets, Sequences

CONSTANTS
  Providers,
  Requests,     \* each is made once
  Streams,      \* those that go through complete_stream, not complete
  Supports,     \* Supports[r]: the providers with the model r asks for
  MaxRetries,   \* max_retries
  StreamLen,    \* at most this many chunks in one answer, a bound of the model
  NoProvider

ASSUME OrchestratorAssumption ==
  /\ Streams \subseteq Requests
  /\ Supports \in [Requests -> SUBSET Providers]
  /\ MaxRetries \in Nat
  /\ StreamLen \in Nat \ {0}
  /\ NoProvider \notin Providers
  /\ IsFiniteSet(Providers)

VARIABLES
  breaker,     \* circuit_breakers: breaker[p]
  pc,          \* where request r is
  attempt,     \* the loop counter of r
  tried,       \* attempted_providers of r; a stream keeps none
  at,          \* the provider whose answer r awaits
  chunks,      \* chunk_count of the current stream of r
  delivered,   \* history: the chunks the consumer of stream r was given, each with
               \* the attempt it came from
  stats        \* total_requests, successful_requests, failed_requests, failover_count

request == <<pc, attempt, tried, at, chunks, delivered>>
vars == <<breaker, request, stats>>

Active   == {"calling", "streaming", "backoff"}
Terminal == {"served", "failed", "no_providers", "cancelled"}

Init ==
  /\ breaker = [p \in Providers |-> NewBreaker]
  /\ pc = [r \in Requests |-> "idle"]
  /\ attempt = [r \in Requests |-> 0]
  /\ tried = [r \in Requests |-> {}]
  /\ at = [r \in Requests |-> NoProvider]
  /\ chunks = [r \in Requests |-> 0]
  /\ delivered = [r \in Requests |-> <<>>]
  /\ stats = [total |-> 0, successful |-> 0, failed |-> 0, failover |-> 0]

-----------------------------------------------------------------------------
\* Variant: open breakers are not left out.
get_healthy_providers_All == Providers

get_healthy_providers == {p \in Providers : breaker[p].state # "open"}

\* Every strategy may return any of these; the default one draws at random with
\* a weight of at least 0.1 for each.
select_provider(r) ==
  LET healthy == get_healthy_providers
      compatible == healthy \cap Supports[r]
  IN  IF compatible = {} THEN healthy ELSE compatible

\* The provider of the next attempt of r.  A completion that is given one it
\* has tried takes any other healthy one, compatible or not.
Choices(r) ==
  LET selected == select_provider(r) IN
    IF r \in Streams THEN selected
    ELSE (selected \ tried[r])
           \cup (IF selected \cap tried[r] # {}
                 THEN get_healthy_providers \ tried[r] ELSE {})

\* r ends, counted as failed unless it found no provider at all or was cancelled.
End(r, how) ==
  /\ pc' = [pc EXCEPT ![r] = how]
  /\ at' = [at EXCEPT ![r] = NoProvider]

\* Variant: the last failure is not counted.
AfterError_Uncounted(r, a, counted) ==
  /\ End(r, IF a < MaxRetries THEN "backoff" ELSE "failed")
  /\ stats' = counted

\* The attempt failed: pause before the next one, or give up after the last.
AfterError(r, a, counted) ==
  IF a < MaxRetries
  THEN /\ End(r, "backoff")
       /\ stats' = counted
  ELSE /\ End(r, "failed")
       /\ stats' = [counted EXCEPT !.failed = @ + 1]

\* Attempt a of r goes to p.  The CircuitBreakerError of a refused call is
\* handled like any other exception.
Call(r, p, a, counted) ==
  /\ attempt' = [attempt EXCEPT ![r] = a]
  /\ tried' = [tried EXCEPT ![r] = IF r \in Streams THEN @ ELSE @ \cup {p}]
  /\ IF should_allow_request(breaker[p])
     THEN /\ pc' = [pc EXCEPT ![r] = IF r \in Streams THEN "streaming" ELSE "calling"]
          /\ at' = [at EXCEPT ![r] = p]
          /\ breaker' = [breaker EXCEPT ![p] =
                IF r \in Streams THEN record_success(Admit(@)) ELSE Admit(@)]
          /\ stats' = counted
     ELSE AfterError(r, a, counted) /\ UNCHANGED breaker

\* Variant: gives up as soon as the chosen provider is one it has tried.
Iterate_GivesUpEarly(r, a, counted) ==
  /\ chunks' = [chunks EXCEPT ![r] = 0]
  /\ UNCHANGED delivered
  /\ \/ \E p \in select_provider(r) \ tried[r] : Call(r, p, a, counted)
     \/ /\ select_provider(r) \cap tried[r] # {}
        /\ End(r, "failed")
        /\ stats' = [counted EXCEPT !.failed = @ + 1]
        /\ UNCHANGED <<breaker, attempt, tried>>

\* One pass of the loop, from select_provider to the next await.
Iterate(r, a, counted) ==
  /\ chunks' = [chunks EXCEPT ![r] = 0]
  /\ UNCHANGED delivered
  /\ \/ \E p \in Choices(r) : Call(r, p, a, counted)
     \/ /\ get_healthy_providers = {}
        /\ End(r, "no_providers")
        /\ stats' = counted
        /\ UNCHANGED <<breaker, attempt, tried>>
     \/ /\ r \notin Streams
        /\ select_provider(r) \cap tried[r] # {}
        /\ get_healthy_providers \subseteq tried[r]
        /\ End(r, "failed")
        /\ stats' = [counted EXCEPT !.failed = @ + 1]
        /\ UNCHANGED <<breaker, attempt, tried>>

-----------------------------------------------------------------------------
Submit(r) ==
  /\ pc[r] = "idle"
  /\ Iterate(r, 0, [stats EXCEPT !.total = @ + 1])

\* Variant: the loop counter stands still.
Wake_SameAttempt(r) == pc[r] = "backoff" /\ Iterate(r, attempt[r], stats)

\* The pause is over.  The one after a rate limit comes even after the last attempt.
Wake(r) ==
  /\ pc[r] = "backoff"
  /\ IF attempt[r] < MaxRetries
     THEN Iterate(r, attempt[r] + 1, stats)
     ELSE /\ End(r, "failed")
          /\ stats' = [stats EXCEPT !.failed = @ + 1]
          /\ UNCHANGED <<breaker, attempt, tried, chunks, delivered>>

Serve(r) ==
  /\ End(r, "served")
  /\ stats' = [stats EXCEPT !.successful = @ + 1,
                            !.failover = IF attempt[r] > 0 THEN @ + 1 ELSE @]
  /\ UNCHANGED <<attempt, tried, chunks, delivered>>

Answers(r) ==
  /\ pc[r] = "calling"
  /\ breaker' = [breaker EXCEPT ![at[r]] = record_success(@)]
  /\ Serve(r)

\* The provider raises: ProviderError counts against its breaker, anything else
\* does not; a RateLimitError with a retry_after always pauses.
Raises(r, error) ==
  /\ pc[r] = "calling"
  /\ breaker' = IF error = "unexpected" THEN breaker
                ELSE [breaker EXCEPT ![at[r]] = record_failure(@)]
  /\ \/ AfterError(r, attempt[r], stats)
     \/ error = "rate_limit" /\ End(r, "backoff") /\ stats' = stats
  /\ UNCHANGED <<attempt, tried, chunks, delivered>>

\* Variant: chunks of the provider that broke off are still counted.
Chunk_CountsAll(r) ==
  /\ pc[r] = "streaming"
  /\ chunks' = [chunks EXCEPT ![r] = Len(delivered[r]) + 1]
  /\ delivered' = [delivered EXCEPT ![r] =
                     Append(@, [start |-> attempt[r], chunk |-> Len(@) + 1])]
  /\ Len(delivered[r]) <= StreamLen
  /\ UNCHANGED <<breaker, pc, attempt, tried, at, stats>>

Chunk(r) ==
  /\ pc[r] = "streaming" /\ chunks[r] < StreamLen
  /\ chunks' = [chunks EXCEPT ![r] = @ + 1]
  /\ delivered' = [delivered EXCEPT ![r] =
                     Append(@, [start |-> attempt[r], chunk |-> chunks[r] + 1])]
  /\ UNCHANGED <<breaker, pc, attempt, tried, at, stats>>

\* The generator ends, wherever it does: that is taken for the end of the answer.
StreamEnds(r) ==
  /\ pc[r] = "streaming"
  /\ Serve(r)
  /\ UNCHANGED breaker

\* Variant: no other provider is asked once the consumer was given a chunk.
StreamBreaks_GivesUp(r) ==
  /\ pc[r] = "streaming"
  /\ IF chunks[r] = 0 THEN AfterError(r, attempt[r], stats)
     ELSE End(r, "failed") /\ stats' = [stats EXCEPT !.failed = @ + 1]
  /\ UNCHANGED <<breaker, attempt, tried, chunks, delivered>>

\* The stream breaks off between two chunks.  Its breaker was told of a success
\* when the generator was made, and is told nothing now.
StreamBreaks(r) ==
  /\ pc[r] = "streaming"
  /\ AfterError(r, attempt[r], stats)
  /\ UNCHANGED <<breaker, attempt, tried, chunks, delivered>>

\* The client goes away: CancelledError or GeneratorExit passes every except clause.
Cancel(r) ==
  /\ pc[r] \in Active
  /\ End(r, "cancelled")
  /\ UNCHANGED <<breaker, attempt, tried, chunks, delivered, stats>>

RecoveryTimeout(p) ==
  /\ breaker[p].state = "open" /\ ~breaker[p].elapsed
  /\ breaker' = [breaker EXCEPT ![p] = TimeoutElapses(@)]
  /\ UNCHANGED <<request, stats>>

Errors == {"provider_error", "rate_limit", "unexpected"}

Next ==
  \/ \E r \in Requests :
       \/ Submit(r) \/ Wake(r)
       \/ Answers(r) \/ \E e \in Errors : Raises(r, e)
       \/ Chunk(r) \/ StreamEnds(r) \/ StreamBreaks(r)
       \/ Cancel(r)
  \/ \E p \in Providers : RecoveryTimeout(p)

Spec == Init /\ [][Next]_vars

\* A provider's client times out, so an awaited answer, chunk or error comes;
\* the event loop resumes a request whose pause is over.
FairSpec ==
  Spec /\ \A r \in Requests :
    /\ WF_vars(Answers(r) \/ \E e \in Errors : Raises(r, e))
    /\ WF_vars(Chunk(r) \/ StreamEnds(r) \/ StreamBreaks(r))
    /\ WF_vars(Wake(r))

-----------------------------------------------------------------------------
\* What a consumer may be given.
Given == [start : 0..MaxRetries, chunk : 1..StreamLen]

TypeOK ==
  /\ breaker \in [Providers -> Breaker]
  /\ pc \in [Requests -> {"idle"} \cup Active \cup Terminal]
  /\ attempt \in [Requests -> 0..MaxRetries]
  /\ tried \in [Requests -> SUBSET Providers]
  /\ at \in [Requests -> Providers \cup {NoProvider}]
  /\ chunks \in [Requests -> 0..StreamLen]
  /\ delivered \in [Requests -> Seq(Given)]
  /\ stats \in [total : Nat, successful : Nat, failed : Nat, failover : Nat]

\* attempted_providers keeps the loop of a completion from asking the same
\* provider again: its attempts went to as many different providers.
EachAttemptAnotherProvider ==
  \A r \in Requests \ Streams :
    pc[r] \in Active => Cardinality(tried[r]) = attempt[r] + 1

\* The counters add up with the requests in flight; a request that found no
\* provider, or was cancelled, is in total_requests and in no other counter.
CountersAddUp ==
  LET uncounted == {r \in Requests : pc[r] \in Active \cup {"no_providers", "cancelled"}}
  IN  stats.total = stats.successful + stats.failed + Cardinality(uncounted)

\* Chunk c continues the answer that chunk b belongs to, or begins that of a later
\* attempt.
Follows(b, c) ==
  \/ c.start = b.start /\ c.chunk = b.chunk + 1
  \/ c.start > b.start /\ c.chunk = 1

\* A stream that broke off starts over with the next provider, whatever its
\* consumer was given by then: the chunks are answers one after another, each from
\* its first chunk and none taken up again.  One that ends normally ends with what
\* its last attempt gave, so that a consumer that drops the chunks of earlier
\* attempts has that answer; one that fails has started as often as it may.
StreamsStartOver ==
  \A r \in Streams :
    LET d == delivered[r]
        n == Len(d)
    IN  /\ n > 0 => d[1].chunk = 1
        /\ \A i \in 1..n : i < n => Follows(d[i], d[i + 1])
        /\ pc[r] = "served" /\ chunks[r] > 0
             => n > 0 /\ d[n] = [start |-> attempt[r], chunk |-> chunks[r]]
        /\ pc[r] = "failed" => attempt[r] = MaxRetries

\* No admission of the orchestrator is refused by a breaker, so none of its
\* retries is spent on one: it never offers a request to an open breaker, and
\* no breaker is ever half-open here.
NoAttemptIsWasted ==
  \A p \in Providers : breaker[p].state # "open" => should_allow_request(breaker[p])

\* The failover promise to completions, and what it sees of one that is at x.
Completions == Requests \ Streams

PhaseOf(x) ==
  CASE x = "idle" -> "new"
    [] x \in Active -> "working"
    [] x = "served" -> "answered"
    [] x \in {"failed", "no_providers"} -> "refused"
    [] x = "cancelled" -> "gone"

Service == INSTANCE FailoverService WITH
  Requests    <- Completions,
  MaxAttempts <- MaxRetries + 1,
  up          <- get_healthy_providers,
  asked       <- [r \in Completions |-> tried[r]],
  phase       <- [r \in Completions |-> PhaseOf(pc[r])]

KeepsFailoverPromise == Service!Spec

\* Every request gets an answer or an error.
EveryRequestEnds ==
  \A r \in Requests : pc[r] \in Active ~> pc[r] \in Terminal

\* circuit_breaker.py:36: a breaker is half-open to test whether its service has
\* recovered.  So a request is not refused for want of a provider while one is
\* due for that test.
RecoveryIsTested ==
  [][\A r \in Requests :
       pc[r] # "no_providers" /\ pc'[r] = "no_providers"
         => \A p \in Providers : ~(breaker[p].state = "open" /\ breaker[p].elapsed)]_vars
=============================================================================
