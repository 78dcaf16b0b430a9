---------------------- MODULE ProviderOrchestratorProofs ----------------------
(***************************************************************************)
(* The orchestrator's invariants and its failover promise, for every set   *)
(* of requests, finite set of providers, number of retries and length of   *)
(* an answer.                                                              *)
(*                                                                         *)
(* None of the properties is inductive.  That the counters add up needs    *)
(* the requests in flight to be finitely many, though Requests need not    *)
(* be; that a stream starts over cleanly needs to say what the consumer    *)
(* was given at any point of it, and by which attempt (InTurn); and that   *)
(* no attempt is wasted, on which the failover promise rests, that no      *)
(* breaker is ever half-open.                                              *)
(***************************************************************************)
EXTENDS ProviderOrchestrator, FiniteSetTheorems, TLAPS

\* The breakers of this orchestrator never test a provider.
Untested == {b \in Breaker : b.state # "half_open"}

Stats == [total : Nat, successful : Nat, failed : Nat, failover : Nat]

\* The requests that are in total_requests and in no other counter.
NotCounted == Active \cup {"no_providers", "cancelled"}
Uncounted == {r \in Requests : pc[r] \in NotCounted}

\* A request is where its kind of call can take it.
Placed ==
  \A r \in Requests :
    /\ pc[r] = "idle" => tried[r] = {}
    /\ pc[r] = "calling" => r \notin Streams /\ at[r] \in Providers
    /\ pc[r] = "streaming" => r \in Streams /\ at[r] \in Providers

\* What the consumer of a request at x was given, in attempt a with c chunks of
\* it: answers in turn, none of a later attempt, and those of this one last.
InTurn(d, a, c, x) ==
  /\ Len(d) > 0 => d[1].chunk = 1 /\ d[Len(d)].start <= a
  /\ \A i \in 1..Len(d) : i < Len(d) => Follows(d[i], d[i + 1])
  /\ c > 0 => Len(d) > 0 /\ d[Len(d)] = [start |-> a, chunk |-> c]
  /\ x = "idle" => Len(d) = 0
  /\ x = "streaming" /\ c = 0 /\ Len(d) > 0 => d[Len(d)].start < a

AnswersInTurn ==
  \A r \in Requests : InTurn(delivered[r], attempt[r], chunks[r], pc[r])

FailedAtTheEnd ==
  \A r \in Streams : pc[r] = "failed" => attempt[r] = MaxRetries

IInv == /\ TypeOK
        /\ breaker \in [Providers -> Untested]
        /\ IsFiniteSet(Uncounted)
        /\ CountersAddUp
        /\ Placed
        /\ EachAttemptAnotherProvider
        /\ AnswersInTurn
        /\ FailedAtTheEnd

-----------------------------------------------------------------------------
\* No breaker is ever half-open: what the methods do to one that is not.
LEMMA UntestedFields ==
  ASSUME NEW b \in Untested
  PROVE  /\ b.state \in {"closed", "open"}
         /\ b.failure_count + 1 \in Nat
         /\ \A f \in Nat : [b EXCEPT !.failure_count = f] \in Untested
         /\ \A f \in Nat : [b EXCEPT !.failure_count = f, !.elapsed = FALSE] \in Untested
         /\ \A f \in Nat : [b EXCEPT !.failure_count = f, !.elapsed = FALSE,
                                     !.state = "open"] \in Untested
         /\ [b EXCEPT !.elapsed = TRUE] \in Untested
<1>1. b \in Breaker /\ b.state # "half_open"
  BY DEF Untested
<1>2. b.state \in {"closed", "open"} /\ b.failure_count + 1 \in Nat
  BY <1>1 DEF Breaker, CircuitBreakerState
<1>3. \A f \in Nat : [b EXCEPT !.failure_count = f] \in Untested
  BY <1>1 DEF Untested, Breaker
<1>4. \A f \in Nat : [b EXCEPT !.failure_count = f, !.elapsed = FALSE] \in Untested
  BY <1>1 DEF Untested, Breaker
<1>5. \A f \in Nat : [b EXCEPT !.failure_count = f, !.elapsed = FALSE,
                               !.state = "open"] \in Untested
  BY <1>1 DEF Untested, Breaker, CircuitBreakerState
<1>6. [b EXCEPT !.elapsed = TRUE] \in Untested
  BY <1>1 DEF Untested, Breaker
<1>7. QED BY <1>2, <1>3, <1>4, <1>5, <1>6

\* A closed breaker lets every request through and is not changed by it.
LEMMA ClosedAdmits ==
  ASSUME NEW b \in Untested, b.state # "open"
  PROVE  should_allow_request(b) /\ Admit(b) = b
BY UntestedFields DEF should_allow_request, Admit, BeforeAnswer

LEMMA SuccessUntested ==
  ASSUME NEW b \in Untested PROVE record_success(b) \in Untested
<1>1. CASE b.state = "closed"
  <2>1. record_success(b) = [b EXCEPT !.failure_count = 0]
    BY <1>1 DEF record_success
  <2>2. QED BY <2>1, UntestedFields
<1>2. CASE b.state = "open"
  BY <1>2 DEF record_success
<1>3. QED BY <1>1, <1>2, UntestedFields

LEMMA FailureUntested ==
  ASSUME NEW b \in Untested PROVE record_failure(b) \in Untested
<1> DEFINE f == b.failure_count + 1
<1>1. b.state \in {"closed", "open"} /\ f \in Nat
  BY UntestedFields
<1>2. \/ record_failure(b) = [b EXCEPT !.failure_count = f, !.elapsed = FALSE]
      \/ record_failure(b) = [b EXCEPT !.failure_count = f, !.elapsed = FALSE,
                                       !.state = "open"]
  BY <1>1 DEF record_failure
<1> HIDE DEF f
<1>3. QED BY <1>1, <1>2, UntestedFields

LEMMA TimeoutUntested ==
  ASSUME NEW b \in Untested PROVE TimeoutElapses(b) \in Untested
BY UntestedFields DEF TimeoutElapses

-----------------------------------------------------------------------------
\* One request moves from one place to another: how many are not counted.
LEMMA OneMoves ==
  ASSUME TypeOK, IsFiniteSet(Uncounted), NEW r \in Requests, NEW x,
         pc' = [pc EXCEPT ![r] = x]
  PROVE  /\ IsFiniteSet(Uncounted')
         /\ Cardinality(Uncounted \cup {r}) \in Nat
         /\ x \in NotCounted => Cardinality(Uncounted') = Cardinality(Uncounted \cup {r})
         /\ x \notin NotCounted =>
              Cardinality(Uncounted') + 1 = Cardinality(Uncounted \cup {r})
<1> DEFINE more == Uncounted \cup {r}
<1>1. IsFiniteSet(more) /\ Cardinality(more) \in Nat /\ r \in more
  BY FS_AddElement, FS_CardinalityType
<1>2. IsFiniteSet(more \ {r}) /\ Cardinality(more \ {r}) = Cardinality(more) - 1
  BY <1>1, FS_RemoveElement
<1>3. CASE x \in NotCounted
  <2>1. Uncounted' = more
    BY <1>3 DEF Uncounted, TypeOK
  <2>2. QED BY <1>1, <1>3, <2>1
<1>4. CASE x \notin NotCounted
  <2>1. Uncounted' = more \ {r}
    BY <1>4 DEF Uncounted, TypeOK
  <2>2. QED BY <1>1, <1>2, <1>4, <2>1
<1>5. QED BY <1>3, <1>4

\* A request that was given a provider counts among those not counted yet.
LEMMA ActiveIsUncounted ==
  ASSUME NEW r \in Requests, pc[r] \in Active PROVE Uncounted \cup {r} = Uncounted
BY DEF Uncounted, NotCounted

\* The sum of CountersAddUp, with its set named.
LEMMA CountersSum ==
  CountersAddUp <=> stats.total = stats.successful + stats.failed + Cardinality(Uncounted)
BY DEF CountersAddUp, Uncounted, NotCounted

-----------------------------------------------------------------------------
\* What one pass of the loop can come to: r asks a provider that is healthy
\* and, if r is a completion, one it has not asked; or it is refused, when no
\* provider is healthy or r has asked all that are.
Asks(r, a, counted) ==
  \E p \in get_healthy_providers :
    /\ r \notin Streams => p \notin tried[r]
    /\ attempt' = [attempt EXCEPT ![r] = a]
    /\ tried' = [tried EXCEPT ![r] = IF r \in Streams THEN @ ELSE @ \cup {p}]
    /\ pc' = [pc EXCEPT ![r] = IF r \in Streams THEN "streaming" ELSE "calling"]
    /\ at' = [at EXCEPT ![r] = p]
    /\ stats' = counted

IsRefused(r, counted) ==
  /\ UNCHANGED <<breaker, attempt, tried>>
  /\ at' = [at EXCEPT ![r] = NoProvider]
  /\ get_healthy_providers \subseteq tried[r]
  /\ \/ /\ get_healthy_providers = {}
        /\ pc' = [pc EXCEPT ![r] = "no_providers"]
        /\ stats' = counted
     \/ /\ r \notin Streams
        /\ pc' = [pc EXCEPT ![r] = "failed"]
        /\ stats' = [counted EXCEPT !.failed = @ + 1]

LEMMA ChoicesMean ==
  ASSUME IInv, NEW r \in Requests, NEW p \in Choices(r)
  PROVE  /\ p \in get_healthy_providers /\ p \in Providers
         /\ r \notin Streams => p \notin tried[r]
BY DEF Choices, select_provider, get_healthy_providers

LEMMA IterateMeans ==
  ASSUME IInv, NEW r \in Requests, NEW a, NEW counted, Iterate(r, a, counted)
  PROVE  /\ chunks' = [chunks EXCEPT ![r] = 0] /\ delivered' = delivered
         /\ breaker' \in [Providers -> Untested]
         /\ Asks(r, a, counted) \/ IsRefused(r, counted)
<1>1. breaker \in [Providers -> Untested]
  BY DEF IInv
<1>2. chunks' = [chunks EXCEPT ![r] = 0] /\ delivered' = delivered
  BY DEF Iterate
<1>3. ASSUME NEW p \in Choices(r), Call(r, p, a, counted)
      PROVE  breaker' \in [Providers -> Untested] /\ Asks(r, a, counted)
  <2>1. /\ p \in get_healthy_providers /\ p \in Providers
        /\ r \notin Streams => p \notin tried[r]
    BY ChoicesMean
  <2>2. breaker[p] \in Untested /\ breaker[p].state # "open"
    BY <1>1, <2>1 DEF get_healthy_providers
  <2>3. should_allow_request(breaker[p]) /\ Admit(breaker[p]) = breaker[p]
    BY <2>2, ClosedAdmits
  <2>4. breaker' = [breaker EXCEPT ![p] =
                      IF r \in Streams THEN record_success(breaker[p]) ELSE breaker[p]]
    BY <2>3, <1>3 DEF Call
  <2>5. breaker' \in [Providers -> Untested]
    BY <1>1, <2>2, <2>4, SuccessUntested
  <2>6. /\ attempt' = [attempt EXCEPT ![r] = a]
        /\ tried' = [tried EXCEPT ![r] = IF r \in Streams THEN @ ELSE @ \cup {p}]
        /\ pc' = [pc EXCEPT ![r] = IF r \in Streams THEN "streaming" ELSE "calling"]
        /\ at' = [at EXCEPT ![r] = p]
        /\ stats' = counted
    BY <2>3, <1>3 DEF Call
  <2>7. QED BY <2>1, <2>5, <2>6 DEF Asks
<1>4. ASSUME /\ get_healthy_providers = {}
             /\ End(r, "no_providers")
             /\ stats' = counted
             /\ UNCHANGED <<breaker, attempt, tried>>
      PROVE  breaker' \in [Providers -> Untested] /\ IsRefused(r, counted)
  BY <1>1, <1>4 DEF IsRefused, End
<1>5. ASSUME /\ r \notin Streams
             /\ get_healthy_providers \subseteq tried[r]
             /\ End(r, "failed")
             /\ stats' = [counted EXCEPT !.failed = @ + 1]
             /\ UNCHANGED <<breaker, attempt, tried>>
      PROVE  breaker' \in [Providers -> Untested] /\ IsRefused(r, counted)
  BY <1>1, <1>5 DEF IsRefused, End
<1>6. QED BY <1>2, <1>3, <1>4, <1>5 DEF Iterate

-----------------------------------------------------------------------------
\* A step of a request leaves the places of the others as they are.
LEMMA PcType ==
  ASSUME TypeOK, NEW r \in Requests, NEW x \in {"idle"} \cup Active \cup Terminal,
         pc' = [pc EXCEPT ![r] = x]
  PROVE  /\ pc' \in [Requests -> {"idle"} \cup Active \cup Terminal]
         /\ pc'[r] = x
         /\ \A q \in Requests : q # r => pc'[q] = pc[q]
BY DEF TypeOK

LEMMA GivenFields ==
  ASSUME NEW d \in Seq(Given), NEW i \in 1..Len(d)
  PROVE  d[i].start \in Int /\ d[i].chunk \in Int
<1>1. d[i] \in Given
  OBVIOUS
<1>2. QED BY <1>1, OrchestratorAssumption DEF Given

LEMMA IterateIInv ==
  ASSUME IInv, NEW r \in Requests, pc[r] \in {"idle", "backoff"},
         NEW a \in 0..MaxRetries, NEW counted \in Stats, Iterate(r, a, counted),
         r \notin Streams => Cardinality(tried[r]) = a,
         pc[r] = "backoff" => attempt[r] < a,
         counted.total = counted.successful + counted.failed
                           + Cardinality(Uncounted \cup {r})
  PROVE  IInv'
<1> USE OrchestratorAssumption
<1>1. TypeOK /\ IsFiniteSet(Uncounted)
  BY DEF IInv
<1>2. /\ chunks' = [chunks EXCEPT ![r] = 0] /\ delivered' = delivered
      /\ breaker' \in [Providers -> Untested]
      /\ Asks(r, a, counted) \/ IsRefused(r, counted)
  BY IterateMeans
<1>3. /\ breaker' \in [Providers -> Breaker]
      /\ chunks' \in [Requests -> 0..StreamLen]
      /\ delivered' \in [Requests -> Seq(Given)]
  BY <1>1, <1>2 DEF TypeOK, Untested
<1>4. ASSUME NEW b \in Int, NEW x \in {"streaming", "calling", "no_providers", "failed"},
             IF x \in {"streaming", "calling"} THEN b = a ELSE b = attempt[r]
      PROVE  InTurn(delivered[r], b, 0, x)
  <2>1. InTurn(delivered[r], attempt[r], chunks[r], pc[r])
    BY DEF IInv, AnswersInTurn
  <2>2. /\ delivered[r] \in Seq(Given) /\ Len(delivered[r]) \in Nat
        /\ attempt[r] \in Int /\ a \in Int
    BY <1>1 DEF TypeOK
  <2>3. Len(delivered[r]) > 0 => delivered[r][Len(delivered[r])].start \in Int
    BY <2>2, GivenFields
  <2>4. QED BY <1>4, <2>1, <2>2, <2>3 DEF InTurn
<1>5. CASE Asks(r, a, counted)
  <2> DEFINE x == IF r \in Streams THEN "streaming" ELSE "calling"
  <2>1. PICK p \in get_healthy_providers :
          /\ r \notin Streams => p \notin tried[r]
          /\ attempt' = [attempt EXCEPT ![r] = a]
          /\ tried' = [tried EXCEPT ![r] = IF r \in Streams THEN @ ELSE @ \cup {p}]
          /\ pc' = [pc EXCEPT ![r] = x]
          /\ at' = [at EXCEPT ![r] = p]
          /\ stats' = counted
    BY <1>5 DEF Asks
  <2>2. p \in Providers
    BY DEF get_healthy_providers
  <2>3. x \in Active /\ x \in NotCounted /\ x # "idle" /\ x # "served"
    BY DEF Active, NotCounted
  <2> HIDE DEF x
  <2>4. /\ pc' \in [Requests -> {"idle"} \cup Active \cup Terminal]
        /\ pc'[r] = x
        /\ \A q \in Requests : q # r => pc'[q] = pc[q]
    BY <1>1, <2>1, <2>3, PcType
  <2>5. TypeOK'
    <3>1. attempt' \in [Requests -> 0..MaxRetries] /\ at' \in [Requests -> Providers \cup {NoProvider}]
      BY <1>1, <2>1, <2>2 DEF TypeOK
    <3>2. tried' \in [Requests -> SUBSET Providers]
      BY <1>1, <2>1, <2>2 DEF TypeOK
    <3>3. QED BY <1>3, <2>1, <2>4, <3>1, <3>2 DEF TypeOK, Stats
  <2>6. IsFiniteSet(Uncounted') /\ CountersAddUp'
    <3>1. IsFiniteSet(Uncounted') /\ Cardinality(Uncounted') = Cardinality(Uncounted \cup {r})
      BY <1>1, <2>1, <2>3, OneMoves
    <3>2. stats'.total = stats'.successful + stats'.failed + Cardinality(Uncounted')
      BY <2>1, <3>1
    <3>3. QED BY <3>1, <3>2 DEF CountersAddUp, Uncounted, NotCounted
  <2>7. Placed'
    BY <1>1, <2>1, <2>2, <2>3, <2>4 DEF IInv, Placed, TypeOK, x
  <2>8. EachAttemptAnotherProvider'
    <3> SUFFICES ASSUME NEW q \in Requests \ Streams, pc'[q] \in Active
                 PROVE  Cardinality(tried'[q]) = attempt'[q] + 1
      BY DEF EachAttemptAnotherProvider
    <3>1. CASE q = r
      <4>1. tried'[r] = tried[r] \cup {p} /\ p \notin tried[r] /\ attempt'[r] = a
        BY <1>1, <2>1, <3>1 DEF TypeOK
      <4>2. IsFiniteSet(tried[r])
        BY <1>1, FS_Subset DEF TypeOK
      <4>3. Cardinality(tried'[r]) = Cardinality(tried[r]) + 1
        BY <4>1, <4>2, FS_AddElement
      <4>4. QED BY <3>1, <4>1, <4>3
    <3>2. CASE q # r
      <4>1. tried'[q] = tried[q] /\ attempt'[q] = attempt[q] /\ pc'[q] = pc[q]
        BY <1>1, <2>1, <2>4, <3>2 DEF TypeOK
      <4>2. QED BY <4>1 DEF IInv, EachAttemptAnotherProvider
    <3>3. QED BY <3>1, <3>2
  <2>9. FailedAtTheEnd'
    <3>1. x # "failed"
      BY DEF x
    <3>2. QED BY <1>1, <2>1, <2>4, <3>1 DEF IInv, FailedAtTheEnd, TypeOK
  <2>10. AnswersInTurn'
    <3> SUFFICES ASSUME NEW q \in Requests
                 PROVE  InTurn(delivered'[q], attempt'[q], chunks'[q], pc'[q])
      BY DEF AnswersInTurn
    <3>1. CASE q = r
      <4>1. attempt'[q] = a /\ chunks'[q] = 0 /\ pc'[q] = x /\ delivered'[q] = delivered[r]
        BY <1>1, <1>2, <2>1, <2>4, <3>1 DEF TypeOK
      <4>2. x \in {"streaming", "calling"}
        BY DEF x
      <4>3. a \in Int
        OBVIOUS
      <4>4. QED BY <1>4, <4>1, <4>2, <4>3
    <3>2. CASE q # r
      <4>1. /\ attempt'[q] = attempt[q] /\ chunks'[q] = chunks[q] /\ pc'[q] = pc[q]
            /\ delivered'[q] = delivered[q]
        BY <1>1, <1>2, <2>1, <2>4, <3>2 DEF TypeOK
      <4>2. QED BY <4>1 DEF IInv, AnswersInTurn
    <3>3. QED BY <3>1, <3>2
  <2>11. QED BY <1>2, <2>5, <2>6, <2>7, <2>8, <2>9, <2>10 DEF IInv
<1>6. CASE IsRefused(r, counted)
  <2>1. PICK x \in {"no_providers", "failed"} : pc' = [pc EXCEPT ![r] = x]
    BY <1>6 DEF IsRefused
  <2>2. /\ UNCHANGED <<breaker, attempt, tried>>
        /\ at' = [at EXCEPT ![r] = NoProvider]
        /\ x = "no_providers" => stats' = counted
        /\ x = "failed" => stats' = [counted EXCEPT !.failed = @ + 1]
    <3>1. pc'[r] = x
      BY <1>1, <2>1 DEF TypeOK
    <3>2. pc'[r] \in {"no_providers", "failed"} /\ (pc'[r] = "no_providers" => stats' = counted)
          /\ (pc'[r] = "failed" => stats' = [counted EXCEPT !.failed = @ + 1])
      BY <1>1, <1>6 DEF IsRefused, TypeOK
    <3>3. QED BY <1>6, <3>1, <3>2 DEF IsRefused
  <2>3. /\ pc' \in [Requests -> {"idle"} \cup Active \cup Terminal]
        /\ pc'[r] = x
        /\ \A q \in Requests : q # r => pc'[q] = pc[q]
    <3>1. x \in {"idle"} \cup Active \cup Terminal
      BY DEF Terminal
    <3>2. QED BY <1>1, <2>1, <3>1, PcType
  <2>4. TypeOK'
    <3>1. stats' \in Stats
      BY <2>2 DEF Stats
    <3>2. at' \in [Requests -> Providers \cup {NoProvider}]
      BY <1>1, <2>2 DEF TypeOK
    <3>3. QED BY <1>1, <1>3, <2>2, <2>3, <3>1, <3>2 DEF TypeOK, Stats
  <2>5. IsFiniteSet(Uncounted') /\ CountersAddUp'
    <3>1. /\ IsFiniteSet(Uncounted')
          /\ Cardinality(Uncounted \cup {r}) \in Nat
          /\ x \in NotCounted => Cardinality(Uncounted') = Cardinality(Uncounted \cup {r})
          /\ x \notin NotCounted =>
               Cardinality(Uncounted') + 1 = Cardinality(Uncounted \cup {r})
      BY <1>1, <2>1, OneMoves
    <3>2. Cardinality(Uncounted') \in Nat
      BY <3>1, FS_CardinalityType
    <3>3. "no_providers" \in NotCounted /\ "failed" \notin NotCounted
      BY DEF NotCounted, Active
    <3>4. CASE x = "no_providers"
      BY <2>2, <3>1, <3>3, <3>4
         DEF CountersAddUp, Uncounted, NotCounted
    <3>5. CASE x = "failed"
      <4>1. /\ stats'.total = counted.total /\ stats'.successful = counted.successful
            /\ stats'.failed = counted.failed + 1
        BY <2>2, <3>5 DEF Stats
      <4>2. counted.successful \in Nat /\ counted.failed \in Nat
        BY DEF Stats
      <4>3. stats'.total = stats'.successful + stats'.failed + Cardinality(Uncounted')
        BY <3>1, <3>2, <3>3, <3>5, <4>1, <4>2
      <4>4. QED BY <3>1, <4>3 DEF CountersAddUp, Uncounted, NotCounted
    <3>6. QED BY <3>1, <3>4, <3>5
  <2>6. Placed'
    BY <1>1, <2>2, <2>3 DEF IInv, Placed, TypeOK
  <2>7. EachAttemptAnotherProvider'
    <3>1. x \notin Active
      BY DEF Active
    <3>2. QED BY <2>2, <2>3, <3>1 DEF IInv, EachAttemptAnotherProvider
  <2>8. FailedAtTheEnd'
    <3>1. x = "failed" => r \notin Streams
      BY <1>1, <1>6, <2>1 DEF IsRefused, TypeOK
    <3>2. QED BY <1>1, <2>2, <2>3, <3>1 DEF IInv, FailedAtTheEnd, TypeOK
  <2>9. AnswersInTurn'
    <3> SUFFICES ASSUME NEW q \in Requests
                 PROVE  InTurn(delivered'[q], attempt'[q], chunks'[q], pc'[q])
      BY DEF AnswersInTurn
    <3>1. CASE q = r
      <4>1. /\ attempt'[q] = attempt[r] /\ chunks'[q] = 0 /\ pc'[q] = x
            /\ delivered'[q] = delivered[r] /\ attempt[r] \in Int
        BY <1>1, <1>2, <2>2, <2>3, <3>1 DEF TypeOK
      <4>2. QED BY <1>4, <4>1
    <3>2. CASE q # r
      <4>1. /\ attempt'[q] = attempt[q] /\ chunks'[q] = chunks[q] /\ pc'[q] = pc[q]
            /\ delivered'[q] = delivered[q]
        BY <1>1, <1>2, <2>2, <2>3, <3>2 DEF TypeOK
      <4>2. QED BY <4>1 DEF IInv, AnswersInTurn
    <3>3. QED BY <3>1, <3>2
  <2>10. QED BY <1>2, <2>4, <2>5, <2>6, <2>7, <2>8, <2>9 DEF IInv
<1>7. QED BY <1>2, <1>5, <1>6

\* A request that was given a provider stops waiting for it or ends; what its
\* attempts were, and what its consumer was given, stays.
LEMMA LeavesIInv ==
  ASSUME IInv, NEW r \in Requests, pc[r] \in Active,
         NEW x \in {"backoff", "failed", "served", "cancelled"}, End(r, x),
         breaker' \in [Providers -> Untested], stats' \in Stats,
         UNCHANGED <<attempt, tried, chunks, delivered>>,
         x = "failed" /\ r \in Streams => attempt[r] = MaxRetries,
         stats'.total = stats.total,
         x \in NotCounted => stats'.successful + stats'.failed = stats.successful + stats.failed,
         x \notin NotCounted =>
           stats'.successful + stats'.failed = stats.successful + stats.failed + 1
  PROVE  IInv'
<1>1. TypeOK /\ IsFiniteSet(Uncounted) /\ Cardinality(Uncounted) \in Nat
  BY FS_CardinalityType DEF IInv
<1>2. pc' = [pc EXCEPT ![r] = x] /\ at' = [at EXCEPT ![r] = NoProvider]
  BY DEF End
<1>3. /\ pc' \in [Requests -> {"idle"} \cup Active \cup Terminal]
      /\ pc'[r] = x
      /\ \A q \in Requests : q # r => pc'[q] = pc[q]
  <2>1. x \in {"idle"} \cup Active \cup Terminal
    BY DEF Active, Terminal
  <2>2. QED BY <1>1, <1>2, <2>1, PcType
<1>4. TypeOK'
  <2>1. breaker' \in [Providers -> Breaker]
    BY DEF Untested
  <2>2. at' \in [Requests -> Providers \cup {NoProvider}]
    BY <1>1, <1>2 DEF TypeOK
  <2>3. QED BY <1>1, <1>3, <2>1, <2>2 DEF TypeOK, Stats
<1>5. IsFiniteSet(Uncounted') /\ CountersAddUp'
  <2>1. /\ IsFiniteSet(Uncounted')
        /\ x \in NotCounted => Cardinality(Uncounted') = Cardinality(Uncounted)
        /\ x \notin NotCounted => Cardinality(Uncounted') + 1 = Cardinality(Uncounted)
    <3>1. Uncounted \cup {r} = Uncounted
      BY ActiveIsUncounted
    <3>2. /\ IsFiniteSet(Uncounted')
          /\ x \in NotCounted => Cardinality(Uncounted') = Cardinality(Uncounted \cup {r})
          /\ x \notin NotCounted =>
               Cardinality(Uncounted') + 1 = Cardinality(Uncounted \cup {r})
      BY <1>1, <1>2, OneMoves
    <3>3. QED BY <3>1, <3>2, Zenon
  <2>2. Cardinality(Uncounted') \in Nat
    BY <2>1, FS_CardinalityType
  <2>3. stats.total = stats.successful + stats.failed + Cardinality(Uncounted)
    BY CountersSum DEF IInv
  <2>4. /\ stats.successful \in Nat /\ stats.failed \in Nat
        /\ stats'.successful \in Nat /\ stats'.failed \in Nat
    BY <1>1 DEF TypeOK, Stats
  <2>5. stats'.total = stats'.successful + stats'.failed + Cardinality(Uncounted')
    BY <1>1, <2>1, <2>2, <2>3, <2>4
  <2>6. QED BY <2>1, <2>5 DEF CountersAddUp, Uncounted, NotCounted
<1>6. Placed'
  BY <1>1, <1>2, <1>3 DEF IInv, Placed, TypeOK
<1>7. EachAttemptAnotherProvider'
  BY <1>3 DEF IInv, EachAttemptAnotherProvider
<1>8. AnswersInTurn'
  <2> SUFFICES ASSUME NEW q \in Requests
               PROVE  InTurn(delivered[q], attempt[q], chunks[q], pc'[q])
    BY DEF AnswersInTurn
  <2>1. InTurn(delivered[q], attempt[q], chunks[q], pc[q])
    BY DEF IInv, AnswersInTurn
  <2>2. CASE q = r
    <3>1. pc'[q] # "idle" /\ pc'[q] # "streaming"
      BY <1>3, <2>2
    <3>2. QED BY <2>1, <3>1 DEF InTurn
  <2>3. CASE q # r
    BY <1>3, <2>1, <2>3
  <2>4. QED BY <2>2, <2>3
<1>9. FailedAtTheEnd'
  BY <1>3, OrchestratorAssumption DEF IInv, FailedAtTheEnd
<1>10. QED BY <1>4, <1>5, <1>6, <1>7, <1>8, <1>9 DEF IInv

\* The counters of a request that failed an attempt, whichever it was.
LEMMA AfterErrorMeans ==
  ASSUME IInv, NEW r \in Requests, AfterError(r, attempt[r], stats)
  PROVE  \E x \in {"backoff", "failed"} :
           /\ End(r, x)
           /\ x = "backoff" => stats' = stats
           /\ x = "failed" =>
                /\ stats' = [stats EXCEPT !.failed = @ + 1]
                /\ ~(attempt[r] < MaxRetries)
<1>1. CASE attempt[r] < MaxRetries
  <2>1. End(r, "backoff") /\ stats' = stats
    BY <1>1 DEF AfterError
  <2>2. QED BY <2>1
<1>2. CASE ~(attempt[r] < MaxRetries)
  <2>1. End(r, "failed") /\ stats' = [stats EXCEPT !.failed = @ + 1]
    BY <1>2 DEF AfterError
  <2>2. QED BY <1>2, <2>1
<1>3. QED BY <1>1, <1>2

LEMMA AfterErrorIInv ==
  ASSUME IInv, NEW r \in Requests, pc[r] \in Active,
         \/ AfterError(r, attempt[r], stats)
         \/ End(r, "backoff") /\ stats' = stats,
         breaker' \in [Providers -> Untested],
         UNCHANGED <<attempt, tried, chunks, delivered>>
  PROVE  IInv'
<1> USE OrchestratorAssumption
<1>1. stats \in Stats /\ "backoff" \in NotCounted /\ "failed" \notin NotCounted
  BY DEF IInv, TypeOK, Stats, NotCounted, Active
<1>2. PICK x \in {"backoff", "failed"} :
        /\ End(r, x)
        /\ x = "backoff" => stats' = stats
        /\ x = "failed" => stats' = [stats EXCEPT !.failed = @ + 1]
        /\ x = "failed" => ~(attempt[r] < MaxRetries)
  BY AfterErrorMeans
<1>3. CASE x = "backoff"
  BY <1>1, <1>2, <1>3, LeavesIInv
<1>4. CASE x = "failed"
  <2>1. /\ stats' \in Stats /\ stats'.total = stats.total
        /\ stats'.successful + stats'.failed = stats.successful + stats.failed + 1
    BY <1>1, <1>2, <1>4 DEF Stats
  <2>2. attempt[r] = MaxRetries
    BY <1>2, <1>4 DEF IInv, TypeOK
  <2>3. QED BY <1>1, <1>2, <1>4, <2>1, <2>2, LeavesIInv
<1>5. QED BY <1>3, <1>4

LEMMA ServeIInv ==
  ASSUME IInv, NEW r \in Requests, pc[r] \in Active, Serve(r),
         breaker' \in [Providers -> Untested]
  PROVE  IInv'
<1>1. stats \in Stats /\ "served" \notin NotCounted
  BY DEF IInv, TypeOK, Stats, NotCounted, Active
<1>2. /\ stats' \in Stats /\ stats'.total = stats.total
      /\ stats'.successful + stats'.failed = stats.successful + stats.failed + 1
  <2>1. stats' = [stats EXCEPT !.successful = stats.successful + 1,
                    !.failover = IF attempt[r] > 0 THEN stats.failover + 1 ELSE stats.failover]
    BY DEF Serve
  <2>2. (IF attempt[r] > 0 THEN stats.failover + 1 ELSE stats.failover) \in Nat
    BY <1>1 DEF Stats
  <2>3. ASSUME NEW f \in Nat
        PROVE  LET s == [stats EXCEPT !.successful = stats.successful + 1, !.failover = f]
               IN  /\ s \in Stats /\ s.total = stats.total
                   /\ s.successful + s.failed = stats.successful + stats.failed + 1
    <3> DEFINE s == [stats EXCEPT !.successful = stats.successful + 1, !.failover = f]
    <3>1. stats.successful \in Nat /\ stats.failed \in Nat /\ stats.successful + 1 \in Nat
      BY <1>1 DEF Stats
    <3>2. /\ s \in Stats /\ s.total = stats.total /\ s.failed = stats.failed
          /\ s.successful = stats.successful + 1
      BY <1>1, <3>1 DEF Stats
    <3> HIDE DEF s
    <3>3. s.successful + s.failed = stats.successful + stats.failed + 1
      BY <3>1, <3>2
    <3>4. QED BY <3>2, <3>3 DEF s
  <2>4. QED BY <2>1, <2>2, <2>3
<1>3. End(r, "served") /\ UNCHANGED <<attempt, tried, chunks, delivered>>
  BY DEF Serve
<1>4. QED BY <1>1, <1>2, <1>3, LeavesIInv

LEMMA ChunkIInv ==
  ASSUME IInv, NEW r \in Requests, Chunk(r) PROVE IInv'
<1> USE OrchestratorAssumption
<1>1. /\ TypeOK /\ chunks[r] \in Nat /\ chunks[r] < StreamLen /\ pc[r] = "streaming"
      /\ chunks[r] + 1 \in 1..StreamLen
      /\ delivered[r] \in Seq(Given) /\ Len(delivered[r]) \in Nat
  BY DEF IInv, TypeOK, Chunk
<1>2. /\ chunks'[r] = chunks[r] + 1
      /\ delivered'[r] = Append(delivered[r], [start |-> attempt[r], chunk |-> chunks[r] + 1])
      /\ \A q \in Requests : q # r => chunks'[q] = chunks[q] /\ delivered'[q] = delivered[q]
  BY <1>1 DEF Chunk, TypeOK
<1>3. UNCHANGED <<breaker, pc, attempt, tried, at, stats>>
  BY DEF Chunk
<1> DEFINE g == [start |-> attempt[r], chunk |-> chunks[r] + 1]
<1>4. attempt[r] \in 0..MaxRetries /\ g \in Given
  BY <1>1 DEF TypeOK, Given
<1>5. TypeOK'
  <2>1. delivered'[r] \in Seq(Given) /\ chunks'[r] \in 0..StreamLen
    BY <1>1, <1>2, <1>4
  <2>2. delivered' \in [Requests -> Seq(Given)] /\ chunks' \in [Requests -> 0..StreamLen]
    BY <1>1, <1>2, <2>1 DEF Chunk, TypeOK
  <2>3. QED BY <1>3, <2>2 DEF IInv, TypeOK
<1>6. AnswersInTurn'
  <2> SUFFICES ASSUME NEW q \in Requests
               PROVE  InTurn(delivered'[q], attempt[q], chunks'[q], pc[q])
    BY <1>3 DEF AnswersInTurn
  <2>1. CASE q # r
    BY <1>2, <2>1 DEF IInv, AnswersInTurn
  <2>2. CASE q = r
    <3> DEFINE d == delivered[r]
               c == chunks[r]
               e == delivered'[r]
    <3>1. InTurn(d, attempt[r], c, pc[r])
      BY DEF IInv, AnswersInTurn
    <3>2. /\ c \in Nat /\ d \in Seq(Given) /\ Len(d) \in Nat
          /\ chunks'[r] = c + 1 /\ e = Append(d, g)
          /\ g.start = attempt[r] /\ g.chunk = c + 1 /\ attempt[r] \in Int
      BY <1>1, <1>2, <1>4
    <3>3. g = [start |-> attempt[r], chunk |-> c + 1]
      OBVIOUS
    <3>4. \A i \in 1..Len(d) : d[i].start \in Int /\ d[i].chunk \in Int
      BY <3>2, GivenFields
    <3>5. pc[r] = "streaming"
      BY <1>1
    <3> HIDE DEF c, d, g, e
    <3>6. /\ Len(e) = Len(d) + 1 /\ e[Len(d) + 1] = g
          /\ \A i \in 1..Len(d) : e[i] = d[i]
      BY <3>2
    <3>7. Len(d) > 0 => Follows(d[Len(d)], g)
      <4>1. CASE c > 0
        <5>1. d[Len(d)].start = attempt[r] /\ d[Len(d)].chunk = c
          BY <3>1, <4>1 DEF InTurn
        <5>2. QED BY <3>2, <5>1 DEF Follows
      <4>2. CASE c = 0
        <5>1. Len(d) > 0 => d[Len(d)].start < attempt[r]
          BY <3>1, <3>5, <4>2 DEF InTurn
        <5>2. QED BY <3>2, <3>4, <4>2, <5>1 DEF Follows
      <4>3. QED BY <3>2, <4>1, <4>2
    <3>8. ASSUME NEW i \in 1..Len(e), i < Len(e) PROVE Follows(e[i], e[i + 1])
      <4>1. CASE i = Len(d)
        BY <3>2, <3>6, <3>7, <4>1
      <4>2. CASE i < Len(d)
        <5>1. i \in 1..Len(d) /\ i + 1 \in 1..Len(d)
          BY <3>2, <4>2
        <5>2. e[i] = d[i] /\ e[i + 1] = d[i + 1] /\ Follows(d[i], d[i + 1])
          BY <3>1, <3>6, <4>2, <5>1 DEF InTurn
        <5>3. QED BY <5>2
      <4>3. QED BY <3>2, <3>6, <3>8, <4>1, <4>2
    <3>9. Len(e) > 0 /\ e[Len(e)] = g /\ e[1].chunk = 1
      <4>1. CASE Len(d) = 0
        <5>1. c = 0
          BY <3>1, <3>2, <4>1 DEF InTurn
        <5>2. QED BY <3>2, <3>6, <4>1, <5>1
      <4>2. CASE Len(d) > 0
        BY <3>1, <3>2, <3>6, <4>2 DEF InTurn
      <4>3. QED BY <3>2, <4>1, <4>2
    <3>10. InTurn(e, attempt[r], c + 1, pc[r])
      BY <3>2, <3>3, <3>5, <3>8, <3>9 DEF InTurn
    <3>11. QED BY <2>2, <3>2, <3>10 DEF e
  <2>3. QED BY <2>1, <2>2
<1>7. Uncounted' = Uncounted /\ CountersAddUp'
  BY <1>3 DEF IInv, Uncounted, CountersAddUp
<1>8. Placed' /\ EachAttemptAnotherProvider' /\ FailedAtTheEnd'
  BY <1>3 DEF IInv, Placed, EachAttemptAnotherProvider, FailedAtTheEnd
<1>9. QED BY <1>3, <1>5, <1>6, <1>7, <1>8 DEF IInv

-----------------------------------------------------------------------------
LEMMA InitIInv == Init => IInv
<1> SUFFICES ASSUME Init PROVE IInv
  OBVIOUS
<1> USE OrchestratorAssumption
<1>1. NewBreaker \in Untested
  BY DEF NewBreaker, Untested, Breaker, CircuitBreakerState
<1>2. TypeOK
  <2>1. breaker \in [Providers -> Breaker]
    BY <1>1 DEF Init, Untested
  <2>2. <<>> \in Seq(Given)
    OBVIOUS
  <2>3. delivered \in [Requests -> Seq(Given)] /\ chunks \in [Requests -> 0..StreamLen]
    BY <2>2 DEF Init
  <2>4. QED BY <2>1, <2>3 DEF Init, TypeOK
<1>3. Uncounted = {}
  BY DEF Init, Uncounted, NotCounted, Active
<1>4. IsFiniteSet(Uncounted) /\ Cardinality(Uncounted) = 0
  BY <1>3, FS_EmptySet
<1>5. CountersAddUp
  BY <1>4, CountersSum DEF Init
<1>6. Placed /\ EachAttemptAnotherProvider /\ FailedAtTheEnd
  BY DEF Init, Placed, EachAttemptAnotherProvider, FailedAtTheEnd, Active
<1>7. AnswersInTurn
  <2>1. \A r \in Requests : delivered[r] = <<>> /\ chunks[r] = 0
    BY DEF Init
  <2>2. Len(<<>>) = 0 /\ 1..0 = {}
    OBVIOUS
  <2>3. QED BY <2>1, <2>2 DEF AnswersInTurn, InTurn
<1>8. QED BY <1>1, <1>2, <1>4, <1>5, <1>6, <1>7 DEF Init, IInv

LEMMA SubmitIInv ==
  ASSUME IInv, NEW r \in Requests, Submit(r) PROVE IInv'
<1> DEFINE counted == [stats EXCEPT !.total = @ + 1]
<1>1. pc[r] = "idle" /\ Iterate(r, 0, counted) /\ 0 \in 0..MaxRetries
  BY OrchestratorAssumption DEF Submit
<1>2. stats \in Stats /\ IsFiniteSet(Uncounted) /\ Cardinality(Uncounted) \in Nat
  BY FS_CardinalityType DEF IInv, TypeOK, Stats
<1>3. /\ counted \in Stats /\ counted.total = stats.total + 1
      /\ counted.successful = stats.successful /\ counted.failed = stats.failed
  BY <1>2 DEF Stats
<1>4. Cardinality(Uncounted \cup {r}) = Cardinality(Uncounted) + 1
  <2>1. r \notin Uncounted
    BY <1>1 DEF Uncounted, NotCounted, Active
  <2>2. QED BY <1>2, <2>1, FS_AddElement
<1>5. stats.total = stats.successful + stats.failed + Cardinality(Uncounted)
  BY CountersSum DEF IInv
<1>6. counted.total = counted.successful + counted.failed + Cardinality(Uncounted \cup {r})
  <2>1. stats.successful \in Nat /\ stats.failed \in Nat /\ stats.total \in Nat
    BY <1>2 DEF Stats
  <2> HIDE DEF counted
  <2>2. QED BY <1>2, <1>3, <1>4, <1>5, <2>1
<1>7. Cardinality(tried[r]) = 0
  BY <1>1, FS_EmptySet DEF IInv, Placed
<1> HIDE DEF counted
<1>8. QED BY <1>1, <1>3, <1>6, <1>7, IterateIInv

LEMMA WakeIInv ==
  ASSUME IInv, NEW r \in Requests, Wake(r) PROVE IInv'
<1>1. /\ pc[r] = "backoff" /\ pc[r] \in Active
      /\ attempt[r] \in 0..MaxRetries /\ stats \in Stats
  BY DEF Wake, Active, IInv, TypeOK, Stats
<1>2. CASE attempt[r] < MaxRetries
  <2>1. Iterate(r, attempt[r] + 1, stats) /\ attempt[r] + 1 \in 0..MaxRetries
    BY <1>1, <1>2, OrchestratorAssumption DEF Wake
  <2>2. stats.total = stats.successful + stats.failed + Cardinality(Uncounted \cup {r})
    BY <1>1, CountersSum, ActiveIsUncounted DEF IInv
  <2>3. r \notin Streams => Cardinality(tried[r]) = attempt[r] + 1
    BY <1>1 DEF IInv, EachAttemptAnotherProvider
  <2>4. attempt[r] < attempt[r] + 1
    BY <1>1
  <2>5. QED BY <1>1, <2>1, <2>2, <2>3, <2>4, IterateIInv
<1>3. CASE ~(attempt[r] < MaxRetries)
  <2>1. /\ End(r, "failed") /\ stats' = [stats EXCEPT !.failed = @ + 1]
        /\ UNCHANGED <<breaker, attempt, tried, chunks, delivered>>
    BY <1>3 DEF Wake
  <2>2. /\ stats' \in Stats /\ stats'.total = stats.total
        /\ stats'.successful + stats'.failed = stats.successful + stats.failed + 1
    BY <1>1, <2>1 DEF Stats
  <2>3. "failed" \notin NotCounted
    BY DEF NotCounted, Active
  <2>4. breaker' \in [Providers -> Untested]
    BY <2>1 DEF IInv
  <2>5. attempt[r] = MaxRetries
    BY <1>1, <1>3, OrchestratorAssumption
  <2>6. QED BY <1>1, <2>1, <2>2, <2>3, <2>4, <2>5, LeavesIInv
<1>4. QED BY <1>2, <1>3

\* The breaker of the provider whose answer r awaits hears of it.
LEMMA BreakerHears ==
  ASSUME IInv, NEW r \in Requests, pc[r] = "calling", NEW b \in Untested,
         breaker' = [breaker EXCEPT ![at[r]] = b]
  PROVE  breaker' \in [Providers -> Untested]
BY DEF IInv, Placed

LEMMA AnswersIInv ==
  ASSUME IInv, NEW r \in Requests, Answers(r) PROVE IInv'
<1>1. pc[r] = "calling" /\ Serve(r) /\ pc[r] \in Active
  BY DEF Answers, Active
<1>2. at[r] \in Providers /\ r \notin Streams /\ breaker \in [Providers -> Untested]
  BY <1>1 DEF IInv, Placed
<1>3. record_success(breaker[at[r]]) \in Untested
  BY <1>2, SuccessUntested
<1>4. breaker' \in [Providers -> Untested]
  BY <1>1, <1>3, BreakerHears DEF Answers
<1>5. QED BY <1>1, <1>2, <1>4, ServeIInv

LEMMA RaisesIInv ==
  ASSUME IInv, NEW r \in Requests, NEW e \in Errors, Raises(r, e) PROVE IInv'
<1>1. pc[r] = "calling" /\ pc[r] \in Active
  BY DEF Raises, Active
<1>2. at[r] \in Providers /\ breaker \in [Providers -> Untested]
  BY <1>1 DEF IInv, Placed
<1>3. breaker' \in [Providers -> Untested]
  <2>1. record_failure(breaker[at[r]]) \in Untested
    BY <1>2, FailureUntested
  <2>2. CASE e = "unexpected"
    BY <1>2, <2>2 DEF Raises
  <2>3. CASE e # "unexpected"
    BY <1>1, <2>1, <2>3, BreakerHears DEF Raises
  <2>4. QED BY <2>2, <2>3
<1>4. \/ AfterError(r, attempt[r], stats)
      \/ End(r, "backoff") /\ stats' = stats
  BY DEF Raises
<1>5. UNCHANGED <<attempt, tried, chunks, delivered>>
  BY DEF Raises
<1>6. QED BY <1>1, <1>3, <1>4, <1>5, AfterErrorIInv

LEMMA StreamEndsIInv ==
  ASSUME IInv, NEW r \in Requests, StreamEnds(r) PROVE IInv'
<1>1. /\ pc[r] \in Active /\ Serve(r)
      /\ breaker' \in [Providers -> Untested]
  BY DEF StreamEnds, Active, IInv
<1>2. QED BY <1>1, ServeIInv

LEMMA StreamBreaksIInv ==
  ASSUME IInv, NEW r \in Requests, StreamBreaks(r) PROVE IInv'
<1>1. /\ pc[r] \in Active /\ AfterError(r, attempt[r], stats)
      /\ breaker' \in [Providers -> Untested]
      /\ UNCHANGED <<attempt, tried, chunks, delivered>>
  BY DEF StreamBreaks, Active, IInv
<1>2. QED BY <1>1, AfterErrorIInv

LEMMA CancelIInv ==
  ASSUME IInv, NEW r \in Requests, Cancel(r) PROVE IInv'
<1>1. /\ pc[r] \in Active /\ End(r, "cancelled")
      /\ UNCHANGED <<attempt, tried, chunks, delivered, stats>>
      /\ breaker' \in [Providers -> Untested] /\ stats' \in Stats
      /\ "cancelled" \in NotCounted
  BY DEF Cancel, IInv, TypeOK, Stats, NotCounted
<1>2. QED BY <1>1, LeavesIInv

LEMMA RecoveryTimeoutIInv ==
  ASSUME IInv, NEW p \in Providers, RecoveryTimeout(p) PROVE IInv'
<1>1. UNCHANGED <<pc, attempt, tried, at, chunks, delivered, stats>>
  BY DEF RecoveryTimeout, request
<1>2. breaker' \in [Providers -> Untested]
  <2>1. breaker[p] \in Untested /\ breaker \in [Providers -> Untested]
    BY DEF IInv
  <2>2. QED BY <2>1, TimeoutUntested DEF RecoveryTimeout
<1>3. TypeOK'
  BY <1>1, <1>2 DEF IInv, TypeOK, Untested
<1>4. QED
  BY <1>1, <1>2, <1>3
     DEF IInv, Uncounted, CountersAddUp, Placed, EachAttemptAnotherProvider,
         AnswersInTurn, FailedAtTheEnd

LEMMA NextIInv == IInv /\ [Next]_vars => IInv'
<1> SUFFICES ASSUME IInv, [Next]_vars PROVE IInv'
  OBVIOUS
<1>1. ASSUME NEW r \in Requests, Submit(r) PROVE IInv'
  BY <1>1, SubmitIInv
<1>2. ASSUME NEW r \in Requests, Wake(r) PROVE IInv'
  BY <1>2, WakeIInv
<1>3. ASSUME NEW r \in Requests, Answers(r) PROVE IInv'
  BY <1>3, AnswersIInv
<1>4. ASSUME NEW r \in Requests, NEW e \in Errors, Raises(r, e) PROVE IInv'
  BY <1>4, RaisesIInv
<1>5. ASSUME NEW r \in Requests, Chunk(r) PROVE IInv'
  BY <1>5, ChunkIInv
<1>6. ASSUME NEW r \in Requests, StreamEnds(r) PROVE IInv'
  BY <1>6, StreamEndsIInv
<1>7. ASSUME NEW r \in Requests, StreamBreaks(r) PROVE IInv'
  BY <1>7, StreamBreaksIInv
<1>8. ASSUME NEW r \in Requests, Cancel(r) PROVE IInv'
  BY <1>8, CancelIInv
<1>9. ASSUME NEW p \in Providers, RecoveryTimeout(p) PROVE IInv'
  BY <1>9, RecoveryTimeoutIInv
<1>10. CASE UNCHANGED vars
  BY <1>10
     DEF vars, request, IInv, TypeOK, Uncounted, CountersAddUp, Placed,
         EachAttemptAnotherProvider, AnswersInTurn, FailedAtTheEnd
<1>11. QED
  BY <1>1, <1>2, <1>3, <1>4, <1>5, <1>6, <1>7, <1>8, <1>9, <1>10 DEF Next

-----------------------------------------------------------------------------
\* The counters of the orchestrator keep their types, and hold every request
\* that was submitted: the successful, the failed, and those still in flight,
\* cancelled or refused for want of a provider.
THEOREM OrchestratorTypes == Spec => []TypeOK
<1>1. IInv => TypeOK
  BY DEF IInv
<1>2. QED BY <1>1, InitIInv, NextIInv, PTL DEF Spec

THEOREM OrchestratorCounts == Spec => []CountersAddUp
<1>1. IInv => CountersAddUp
  BY DEF IInv
<1>2. QED BY <1>1, InitIInv, NextIInv, PTL DEF Spec

\* The attempts of a completion go to as many different providers.
THEOREM AttemptsDiffer == Spec => []EachAttemptAnotherProvider
<1>1. IInv => EachAttemptAnotherProvider
  BY DEF IInv
<1>2. QED BY <1>1, InitIInv, NextIInv, PTL DEF Spec

\* A stream gives its consumer whole beginnings of answers, one per attempt and in
\* their order; it ends with what its last attempt gave, or after its last attempt.
THEOREM StreamsStartOverCleanly == Spec => []StreamsStartOver
<1>1. IInv => StreamsStartOver
  <2> SUFFICES ASSUME IInv, NEW r \in Streams
               PROVE  LET d == delivered[r]
                          n == Len(d)
                      IN  /\ n > 0 => d[1].chunk = 1
                          /\ \A i \in 1..n : i < n => Follows(d[i], d[i + 1])
                          /\ pc[r] = "served" /\ chunks[r] > 0
                               => n > 0 /\ d[n] = [start |-> attempt[r], chunk |-> chunks[r]]
                          /\ pc[r] = "failed" => attempt[r] = MaxRetries
    BY DEF StreamsStartOver
  <2>1. InTurn(delivered[r], attempt[r], chunks[r], pc[r])
    BY OrchestratorAssumption DEF IInv, AnswersInTurn
  <2>2. pc[r] = "failed" => attempt[r] = MaxRetries
    BY DEF IInv, FailedAtTheEnd
  <2>3. QED BY <2>1, <2>2 DEF InTurn
<1>2. QED BY <1>1, InitIInv, NextIInv, PTL DEF Spec

\* No attempt is spent on a breaker that refuses it: the orchestrator offers no
\* request to an open one, and no other refuses.
THEOREM AttemptsAreAdmitted == Spec => []NoAttemptIsWasted
<1>1. IInv => NoAttemptIsWasted
  BY ClosedAdmits DEF IInv, NoAttemptIsWasted
<1>2. QED BY <1>1, InitIInv, NextIInv, PTL DEF Spec

-----------------------------------------------------------------------------
\* What the service sees of the completions.
Phase == [r \in Completions |-> PhaseOf(pc[r])]
Asked == [r \in Completions |-> tried[r]]

LEMMA Phases ==
  /\ PhaseOf("idle") = "new"
  /\ \A x \in Active : PhaseOf(x) = "working"
  /\ PhaseOf("served") = "answered"
  /\ PhaseOf("failed") = "refused" /\ PhaseOf("no_providers") = "refused"
  /\ PhaseOf("cancelled") = "gone"
<1>1. PhaseOf("idle") = "new"
  BY DEF PhaseOf, Active
<1>2. \A x \in Active : PhaseOf(x) = "working"
  BY DEF PhaseOf, Active
<1>3. PhaseOf("served") = "answered"
  BY DEF PhaseOf, Active
<1>4. PhaseOf("failed") = "refused" /\ PhaseOf("no_providers") = "refused"
  BY DEF PhaseOf, Active
<1>5. PhaseOf("cancelled") = "gone"
  BY DEF PhaseOf, Active
<1>6. QED BY <1>1, <1>2, <1>3, <1>4, <1>5

LEMMA HealthyAreProviders ==
  get_healthy_providers \in SUBSET Providers /\ get_healthy_providers' \in SUBSET Providers
BY DEF get_healthy_providers

\* The instance has the definitions of FiniteSets again.
LEMMA SameCardinality ==
  ASSUME NEW S PROVE Service!Cardinality(S) = Cardinality(S)
BY DEF Cardinality, Service!Cardinality

\* The steps of the service in these terms.
LEMMA ServiceAsks ==
  ASSUME NEW r \in Completions, NEW p \in get_healthy_providers,
         Phase[r] \in {"new", "working"}, p \notin Asked[r],
         Cardinality(Asked[r]) < MaxRetries + 1,
         Asked' = [Asked EXCEPT ![r] = @ \cup {p}],
         Phase' = [Phase EXCEPT ![r] = "working"]
  PROVE  Service!Next
<1>1. Service!Ask(r, p)
  BY SameCardinality DEF Service!Ask, Service!To, Phase, Asked
<1>2. QED BY <1>1, HealthyAreProviders DEF Service!Next

LEMMA ServiceAnswers ==
  ASSUME NEW r \in Completions, Phase[r] = "working",
         Phase' = [Phase EXCEPT ![r] = "answered"], Asked' = Asked
  PROVE  Service!Next
<1>1. Service!Answer(r)
  BY DEF Service!Answer, Service!To, Phase, Asked
<1>2. QED BY <1>1, HealthyAreProviders DEF Service!Next

LEMMA ServiceRefuses ==
  ASSUME NEW r \in Completions, Phase[r] \in {"new", "working"},
         \/ get_healthy_providers \subseteq Asked[r]
         \/ Cardinality(Asked[r]) = MaxRetries + 1,
         Phase' = [Phase EXCEPT ![r] = "refused"], Asked' = Asked
  PROVE  Service!Next
<1>1. Service!Refuse(r)
  BY SameCardinality DEF Service!Refuse, Service!To, Phase, Asked
<1>2. QED BY <1>1, HealthyAreProviders DEF Service!Next

LEMMA ServiceLeaves ==
  ASSUME NEW r \in Completions, Phase[r] = "working",
         Phase' = [Phase EXCEPT ![r] = "gone"], Asked' = Asked
  PROVE  Service!Next
<1>1. Service!Leave(r)
  BY DEF Service!Leave, Service!To, Phase, Asked
<1>2. QED BY <1>1, HealthyAreProviders DEF Service!Next

LEMMA ServiceIdles ==
  ASSUME Phase' = Phase, Asked' = Asked PROVE Service!Next
BY HealthyAreProviders DEF Service!Next, Phase, Asked

\* One request moves: what the service sees of it.
LEMMA PhaseMoves ==
  ASSUME TypeOK, NEW r \in Requests, NEW x, pc' = [pc EXCEPT ![r] = x]
  PROVE  /\ r \in Streams => Phase' = Phase
         /\ r \in Completions => Phase[r] = PhaseOf(pc[r])
         /\ r \in Completions => Phase' = [Phase EXCEPT ![r] = PhaseOf(x)]
         /\ PhaseOf(pc[r]) = PhaseOf(x) => Phase' = Phase
BY DEF TypeOK, Phase, Completions

LEMMA AskedStays ==
  ASSUME UNCHANGED tried PROVE Asked' = Asked
BY DEF Asked

\* A pass of the loop asks a provider or is refused.
LEMMA IterateService ==
  ASSUME IInv, NEW r \in Requests, pc[r] \in {"idle", "backoff"},
         NEW a \in 0..MaxRetries, NEW counted, Iterate(r, a, counted),
         r \notin Streams => Cardinality(tried[r]) = a
  PROVE  Service!Next
<1> USE OrchestratorAssumption
<1>1. TypeOK
  BY DEF IInv
<1>2. PhaseOf(pc[r]) \in {"new", "working"}
  BY Phases DEF Active
<1>3. Asks(r, a, counted) \/ IsRefused(r, counted)
  BY IterateMeans
<1>4. CASE r \in Streams
  <2>1. PICK x : pc' = [pc EXCEPT ![r] = x]
    BY <1>3 DEF Asks, IsRefused
  <2>2. Phase' = Phase
    BY <1>1, <1>4, <2>1, PhaseMoves
  <2>3. Asked' = Asked
    BY <1>1, <1>3, <1>4 DEF Asks, IsRefused, Asked, Completions, TypeOK
  <2>4. QED BY <2>2, <2>3, ServiceIdles
<1>5. CASE r \notin Streams
  <2>1. /\ r \in Completions /\ Asked[r] = tried[r]
        /\ Phase[r] \in {"new", "working"}
    BY <1>1, <1>2, <1>5 DEF Completions, Asked, Phase
  <2>2. CASE Asks(r, a, counted)
    <3>1. PICK p \in get_healthy_providers :
            /\ p \notin tried[r]
            /\ tried' = [tried EXCEPT ![r] = @ \cup {p}]
            /\ pc' = [pc EXCEPT ![r] = "calling"]
      BY <1>5, <2>2 DEF Asks
    <3>2. Asked' = [Asked EXCEPT ![r] = @ \cup {p}]
      BY <1>1, <2>1, <3>1 DEF Asked, Completions, TypeOK
    <3>3. Phase' = [Phase EXCEPT ![r] = "working"]
      <4>1. PhaseOf("calling") = "working"
        BY Phases DEF Active
      <4>2. Phase' = [Phase EXCEPT ![r] = PhaseOf("calling")]
        BY <1>1, <2>1, <3>1, PhaseMoves
      <4>3. QED BY <4>1, <4>2
    <3>4. Cardinality(Asked[r]) < MaxRetries + 1
      BY <1>5, <2>1
    <3>5. QED BY <2>1, <3>1, <3>2, <3>3, <3>4, ServiceAsks
  <2>3. CASE IsRefused(r, counted)
    <3>1. PICK x \in {"no_providers", "failed"} : pc' = [pc EXCEPT ![r] = x]
      BY <2>3 DEF IsRefused
    <3>2. Phase' = [Phase EXCEPT ![r] = "refused"]
      <4>1. PhaseOf(x) = "refused"
        BY Phases
      <4>2. Phase' = [Phase EXCEPT ![r] = PhaseOf(x)]
        BY <1>1, <2>1, <3>1, PhaseMoves
      <4>3. QED BY <4>1, <4>2
    <3>3. get_healthy_providers \subseteq Asked[r] /\ Asked' = Asked
      BY <2>1, <2>3, AskedStays DEF IsRefused
    <3>4. QED BY <2>1, <3>2, <3>3, ServiceRefuses
  <2>4. QED BY <1>3, <2>2, <2>3
<1>6. QED BY <1>4, <1>5

\* A request that was given a provider pauses, which the service does not
\* see, or ends; a completion that fails has made all its attempts.
LEMMA LeavesService ==
  ASSUME IInv, NEW r \in Requests, pc[r] \in Active,
         NEW x \in {"backoff", "failed", "served", "cancelled"}, End(r, x),
         x = "failed" => ~(attempt[r] < MaxRetries),
         UNCHANGED tried
  PROVE  Service!Next
<1> USE OrchestratorAssumption
<1>1. TypeOK /\ pc' = [pc EXCEPT ![r] = x] /\ PhaseOf(pc[r]) = "working" /\ Asked' = Asked
  BY Phases, AskedStays DEF IInv, End
<1>2. CASE r \in Streams \/ x = "backoff"
  <2>1. x = "backoff" => PhaseOf(pc[r]) = PhaseOf(x)
    BY <1>1, Phases DEF Active
  <2>2. Phase' = Phase
    BY <1>1, <1>2, <2>1, PhaseMoves
  <2>3. QED BY <1>1, <2>2, ServiceIdles
<1>3. CASE r \notin Streams /\ x # "backoff"
  <2>1. /\ r \in Completions /\ Asked[r] = tried[r] /\ Phase[r] = "working"
        /\ Phase' = [Phase EXCEPT ![r] = PhaseOf(x)]
    <3>1. r \in Completions
      BY <1>3 DEF Completions
    <3>2. QED BY <1>1, <3>1, PhaseMoves DEF Asked
  <2>2. CASE x = "served"
    BY <1>1, <2>1, <2>2, Phases, ServiceAnswers
  <2>3. CASE x = "cancelled"
    BY <1>1, <2>1, <2>3, Phases, ServiceLeaves
  <2>4. CASE x = "failed"
    <3>1. Cardinality(Asked[r]) = MaxRetries + 1
      <4>1. attempt[r] \in 0..MaxRetries /\ ~(attempt[r] < MaxRetries)
        BY <1>1, <2>4 DEF TypeOK
      <4>2. attempt[r] = MaxRetries
        BY <4>1
      <4>3. Cardinality(tried[r]) = attempt[r] + 1
        BY <1>3 DEF IInv, EachAttemptAnotherProvider
      <4>4. QED BY <2>1, <4>2, <4>3
    <3>2. QED BY <1>1, <2>1, <2>4, <3>1, Phases, ServiceRefuses
  <2>5. QED BY <1>3, <2>2, <2>3, <2>4
<1>4. QED BY <1>2, <1>3

LEMMA AfterErrorService ==
  ASSUME IInv, NEW r \in Requests, pc[r] \in Active,
         \/ AfterError(r, attempt[r], stats)
         \/ End(r, "backoff") /\ stats' = stats,
         UNCHANGED tried
  PROVE  Service!Next
<1>1. \E x \in {"backoff", "failed"} :
        End(r, x) /\ (x = "failed" => ~(attempt[r] < MaxRetries))
  BY AfterErrorMeans
<1>2. QED BY <1>1, LeavesService

LEMMA StepsService ==
  ASSUME IInv, NEW r \in Requests
  PROVE  /\ Submit(r) \/ Wake(r) => Service!Next
         /\ Answers(r) \/ StreamEnds(r) \/ StreamBreaks(r) \/ Cancel(r) => Service!Next
         /\ \A e \in Errors : Raises(r, e) => Service!Next
<1> USE OrchestratorAssumption
<1>1. CASE Submit(r)
  <2>1. pc[r] = "idle" /\ tried[r] = {} /\ 0 \in 0..MaxRetries
    BY <1>1 DEF Submit, IInv, Placed
  <2>2. Cardinality(tried[r]) = 0
    BY <2>1, FS_EmptySet
  <2>3. QED BY <1>1, <2>1, <2>2, IterateService DEF Submit
<1>2. CASE Wake(r)
  <2>1. pc[r] = "backoff" /\ pc[r] \in Active /\ attempt[r] \in 0..MaxRetries
    BY <1>2 DEF Wake, Active, IInv, TypeOK
  <2>2. CASE attempt[r] < MaxRetries
    <3>1. attempt[r] + 1 \in 0..MaxRetries
      BY <2>1, <2>2
    <3>2. r \notin Streams => Cardinality(tried[r]) = attempt[r] + 1
      BY <2>1 DEF IInv, EachAttemptAnotherProvider
    <3>3. Iterate(r, attempt[r] + 1, stats)
      BY <1>2, <2>2 DEF Wake
    <3>4. QED BY <2>1, <3>1, <3>2, <3>3, IterateService
  <2>3. CASE ~(attempt[r] < MaxRetries)
    BY <1>2, <2>1, <2>3, LeavesService DEF Wake
  <2>4. QED BY <2>2, <2>3
<1>3. CASE Answers(r) \/ StreamEnds(r)
  <2>1. pc[r] \in Active /\ Serve(r)
    BY <1>3 DEF Answers, StreamEnds, Active
  <2>2. QED BY <2>1, LeavesService DEF Serve
<1>4. CASE StreamBreaks(r)
  <2>1. pc[r] \in Active
    BY <1>4 DEF StreamBreaks, Active
  <2>2. QED BY <1>4, <2>1, AfterErrorService DEF StreamBreaks
<1>5. CASE Cancel(r)
  BY <1>5, LeavesService DEF Cancel
<1>6. ASSUME NEW e \in Errors, Raises(r, e) PROVE Service!Next
  <2>1. pc[r] \in Active
    BY <1>6 DEF Raises, Active
  <2>2. QED BY <1>6, <2>1, AfterErrorService DEF Raises
<1>7. QED BY <1>1, <1>2, <1>3, <1>4, <1>5, <1>6

\* Whatever strategy picks the providers, a completion asks them one at a time
\* and none twice, and is refused only when it has asked every provider that is
\* up, or MaxRetries + 1 of them.
THEOREM FailoverKeepsPromise == Spec => KeepsFailoverPromise
<1>1. Init => Service!Init
  <2> SUFFICES ASSUME Init PROVE Service!Init
    OBVIOUS
  <2>1. \A r \in Completions : pc[r] = "idle" /\ tried[r] = {}
    BY DEF Init, Completions
  <2>2. QED BY <2>1, Phases, HealthyAreProviders DEF Service!Init
<1>2. IInv /\ [Next]_vars => [Service!Next]_(Service!vars)
  <2> SUFFICES ASSUME IInv, Next \/ UNCHANGED vars
               PROVE  Service!Next \/ UNCHANGED Service!vars
    OBVIOUS
  <2>1. ASSUME NEW r \in Requests, Chunk(r) PROVE Service!Next
    <3>1. pc' = pc /\ tried' = tried
      BY <2>1 DEF Chunk
    <3>2. QED BY <3>1, ServiceIdles DEF Phase, Asked
  <2>2. ASSUME NEW p \in Providers, RecoveryTimeout(p) PROVE Service!Next
    <3>1. pc' = pc /\ tried' = tried
      BY <2>2 DEF RecoveryTimeout, request
    <3>2. QED BY <3>1, ServiceIdles DEF Phase, Asked
  <2>3. CASE UNCHANGED vars
    <3>1. pc' = pc /\ tried' = tried /\ breaker' = breaker
      BY <2>3 DEF vars, request
    <3>2. QED BY <3>1 DEF Service!vars, get_healthy_providers
  <2>4. QED BY <2>1, <2>2, <2>3, StepsService DEF Next
<1>3. QED
  BY <1>1, <1>2, InitIInv, NextIInv, PTL DEF Spec, KeepsFailoverPromise, Service!Spec
=============================================================================
