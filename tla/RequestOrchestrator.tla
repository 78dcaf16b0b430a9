------------------------ MODULE RequestOrchestrator ------------------------
(***************************************************************************)
(* The request orchestrator of orchestrator/orchestrator.py: complete      *)
(* checks the idempotency store, the rate windows and the caches, then     *)
(* calls providers until one answers; complete_stream only selects one.    *)
(* The event loop switches tasks at three places of complete: while a      *)
(* provider works (`calling`), in the pause before the next attempt        *)
(* (`pausing`), and never between the checks, which are one step.          *)
(*                                                                         *)
(* A response is named by the request whose provider call produced it, a   *)
(* stamp in a rate window by the request that left it. The contents share  *)
(* one semantic key: `semantic` is the list kept under it, by the order in *)
(* which its entries came. `loops` holds, for each reset loop started,     *)
(* when it last turned, None once it has ended. `admitted`, `answered` and *)
(* `calls` are history, kept as long as a property asks for it: when a     *)
(* request passed the rate windows, when a provider answered it, and when  *)
(* each provider was given a call.                                         *)
(***************************************************************************)
EXTENDS Naturals, Sequences, FiniteSets

CONSTANTS Requests, Streams, Providers, None,
          tenant,         \* the tenant of a request, or None
          idempotencyKey, \* the idempotency key of a request, or None
          content,        \* what a request asks: its exact cache key
          Similar,        \* pairs of contents the semantic cache takes for equal
          GlobalLimit, TenantLimit, MaxPerMinute, MaxAttempts, SemanticSize,
          Minute, CacheTtl, IdempotencyTtl, Day,  \* durations, in clock units
          MaxClock, MaxStarts                     \* bounds of the model

\* No duration that is compared with .seconds is longer than the day it wraps at.
ASSUME RequestAssumption ==
  /\ Streams \subseteq Requests
  /\ \A n \in {TenantLimit, MaxPerMinute, MaxClock, MaxStarts} : n \in Nat
  /\ \A n \in {GlobalLimit, MaxAttempts, SemanticSize, Minute, Day} : n \in Nat \ {0}
  /\ CacheTtl \in 1..Day /\ IdempotencyTtl \in 1..Day
  /\ None \notin Requests \cup [response : Requests, at : 0..MaxClock]
  /\ None \notin 0..MaxClock

VARIABLES clock, cache, semantic, stored, stamps, current, running, loops,
          req, admitted, answered, calls

vars == <<clock, cache, semantic, stored, stamps, current, running, loops,
          req, admitted, answered, calls>>
stores == <<cache, semantic, stored>>
background == <<running, loops>>

Contents == {content[r] : r \in Requests}
Keys == {idempotencyKey[r] : r \in Requests} \ {None}
Tenants == {tenant[r] : r \in Requests} \ {None}
Outcomes == {"none", "replayed", "refused", "cached", "too_costly",
             "no_providers", "answered", "failed", "raised"}
Request == [at : {"new", "calling", "pausing", "done"},
            on : Providers \cup {None}, attempts : 0..MaxAttempts,
            out : Outcomes, response : Requests \cup {None}]

Init ==
  /\ clock = 0
  /\ cache = [c \in Contents |-> None]
  /\ semantic = <<>>
  /\ stored = [k \in Keys |-> None]
  /\ stamps = [t \in Tenants |-> {}]
  /\ current = [p \in Providers |-> 0]
  /\ running = FALSE /\ loops = <<>>
  /\ req = [r \in Requests |-> [at |-> "new", on |-> None, attempts |-> 0,
                                out |-> "none", response |-> None]]
  /\ admitted = [r \in Requests |-> None]
  /\ answered = [r \in Requests |-> None]
  /\ calls = [p \in Providers |-> {}]

-----------------------------------------------------------------------------
(* timedelta.seconds is what is left of an age after its whole days. *)
Seconds(at) == (clock - at) % Day
Entry(response) == [response |-> response, at |-> clock]
Fresh(entry) == Seconds(entry.at) < CacheTtl
Recent(events) == {e \in events : clock - e.at < Minute}

\* Variant: an answer is handed out once and then counts as expired.
Stored_Once(r) ==
  LET k == idempotencyKey[r] IN
    IF k = None \/ stored[k] = None \/ stored[k].at < clock
      THEN None ELSE stored[k].response

(* The stored answer of r's key, or None; Forgets is the deletion of an     *)
(* expired one.                                                             *)
Stored(r) ==
  LET k == idempotencyKey[r] IN
    IF k = None \/ stored[k] = None \/ Seconds(stored[k].at) >= IdempotencyTtl
      THEN None ELSE stored[k].response
Forgets(r) ==
  stored' = IF idempotencyKey[r] # None /\ Stored(r) = None
              THEN [stored EXCEPT ![idempotencyKey[r]] = None] ELSE stored

(* The global window counts every stamp there is, stale ones of other       *)
(* tenants too; the tenant's own stamps are pruned first.                   *)
AllStamps == UNION {stamps[t] : t \in Tenants}
GlobalCount == Cardinality(AllStamps)
\* Variant: the comparison lets one more through.
WithinRate_OneMore(r) ==
  /\ GlobalCount < GlobalLimit
  /\ tenant[r] # None => Cardinality(Recent(stamps[tenant[r]])) <= TenantLimit

WithinRate(r) ==
  /\ GlobalCount < GlobalLimit
  /\ tenant[r] # None => Cardinality(Recent(stamps[tenant[r]])) < TenantLimit
Stamp(r) ==
  stamps' = IF tenant[r] = None THEN stamps
            ELSE [stamps EXCEPT ![tenant[r]] = Recent(@) \cup {[by |-> r, at |-> clock]}]
Prune(r) ==
  stamps' = IF tenant[r] = None \/ GlobalCount >= GlobalLimit THEN stamps
            ELSE [stamps EXCEPT ![tenant[r]] = Recent(@)]

(* RequestCache.get with the hybrid strategy: exact, then the first similar *)
(* content in the order they were cached; an expired exact entry is deleted.*)
Exact(r) == cache[content[r]] # None /\ Fresh(cache[content[r]])
First(places) == {n \in places : \A m \in places : n <= m}
Candidates(r) ==
  {n \in DOMAIN semantic : /\ Fresh(semantic[n])
                           /\ <<content[r], semantic[n].content>> \in Similar}
Cached(r) ==
  IF Exact(r) THEN {cache[content[r]].response}
  ELSE {semantic[n].response : n \in First(Candidates(r))}
DropExpired(r) ==
  cache' = IF Exact(r) THEN cache ELSE [cache EXCEPT ![content[r]] = None]

Ends(r, out, response) ==
  req' = [req EXCEPT ![r].at = "done", ![r].on = None,
                     ![r].out = out, ![r].response = response]

Given(r, attempts) == [by |-> r, attempt |-> attempts, at |-> clock]

\* Variant: without a provider the request waits instead of failing.
Selects_Waits(r, attempts) ==
  \/ \E p \in Providers :
       /\ current[p] < MaxPerMinute
       /\ current' = [current EXCEPT ![p] = @ + 1]
       /\ calls' = [calls EXCEPT ![p] = Recent(@) \cup {Given(r, attempts)}]
       /\ req' = [req EXCEPT ![r].at = "calling", ![r].on = p,
                             ![r].attempts = attempts]
  \/ /\ \A p \in Providers : current[p] >= MaxPerMinute
     /\ req' = [req EXCEPT ![r].at = "pausing", ![r].attempts = attempts]
     /\ UNCHANGED <<current, calls>>
(* _select_provider: any provider that may be healthy and has room; the     *)
(* routing strategies are the choice. No provider need be healthy.          *)
Selects(r, attempts) ==
  \/ \E p \in Providers :
       /\ current[p] < MaxPerMinute
       /\ current' = [current EXCEPT ![p] = @ + 1]
       /\ calls' = [calls EXCEPT ![p] = Recent(@) \cup {Given(r, attempts)}]
       /\ req' = [req EXCEPT ![r].at = "calling", ![r].on = p,
                             ![r].attempts = attempts]
  \/ /\ Ends(r, "no_providers", None)
     /\ UNCHANGED <<current, calls>>

-----------------------------------------------------------------------------
(* complete up to its first provider call. *)
Replay(r) ==
  /\ Stored(r) # None
  /\ Ends(r, "replayed", Stored(r))
  /\ UNCHANGED <<cache, semantic, stored, stamps, current, admitted, calls>>

Refuse(r) ==
  /\ Stored(r) = None
  /\ ~WithinRate(r)
  /\ Forgets(r) /\ Prune(r)
  /\ Ends(r, "refused", None)
  /\ UNCHANGED <<cache, semantic, current, admitted, calls>>

Execute(r) ==
  /\ Stored(r) = None
  /\ WithinRate(r)
  /\ Forgets(r) /\ Stamp(r) /\ DropExpired(r)
  /\ admitted' = [admitted EXCEPT ![r] = clock]
  /\ UNCHANGED semantic
  /\ \/ /\ \E response \in Cached(r) : Ends(r, "cached", response)
        /\ UNCHANGED <<current, calls>>
     \/ /\ Cached(r) = {}
        /\ Ends(r, "too_costly", None)
        /\ UNCHANGED <<current, calls>>
     \/ /\ Cached(r) = {}
        /\ Selects(r, 0)

Submit(r) ==
  /\ r \notin Streams
  /\ req[r].at = "new"
  /\ Replay(r) \/ Refuse(r) \/ Execute(r)
  /\ UNCHANGED <<clock, background, answered>>

(* complete_stream passes no window and no cache. *)
SubmitStream(r) ==
  /\ r \in Streams
  /\ req[r].at = "new"
  /\ Selects(r, 0)
  /\ UNCHANGED <<clock, stores, stamps, background, admitted, answered>>

-----------------------------------------------------------------------------
After(places) == {n \in {1} \cup {m + 1 : m \in places} : \A m \in places : m < n}
\* Variant: the list of similar contents is never cut.
Remembers_All(r) ==
  \E n \in After(DOMAIN semantic) :
    semantic' = [m \in DOMAIN semantic \cup {n} |->
                   IF m = n THEN [content |-> content[r], response |-> r, at |-> clock]
                   ELSE semantic[m]]
(* The answer goes to the end of the list of similar contents, which loses  *)
(* its first entry when it is full.                                         *)
Remembers(r) ==
  \E n \in After(DOMAIN semantic) :
  \E dropped \in IF Cardinality(DOMAIN semantic) < SemanticSize THEN {{}}
                 ELSE {{m} : m \in First(DOMAIN semantic)} :
    semantic' = [m \in (DOMAIN semantic \ dropped) \cup {n} |->
                   IF m = n THEN [content |-> content[r], response |-> r, at |-> clock]
                   ELSE semantic[m]]

(* The provider's answer is cached, and stored under the request's key.    *)
Keep(r) ==
  /\ cache' = [cache EXCEPT ![content[r]] = Entry(r)]
  /\ Remembers(r)
  /\ stored' = IF idempotencyKey[r] = None THEN stored
               ELSE [stored EXCEPT ![idempotencyKey[r]] = Entry(r)]

Answer(r) ==
  /\ req[r].at = "calling"
  /\ IF r \in Streams THEN UNCHANGED <<stores, answered>>
     ELSE Keep(r) /\ answered' = [answered EXCEPT ![r] = clock]
  /\ Ends(r, "answered", r)
  /\ UNCHANGED <<clock, stamps, current, background, admitted, calls>>

(* A retryable ProviderError costs an attempt; nothing keeps the next       *)
(* attempt away from the provider that has just failed.                     *)
Fail(r) ==
  /\ req[r].at = "calling"
  /\ r \notin Streams
  /\ IF req[r].attempts + 1 < MaxAttempts
       THEN req' = [req EXCEPT ![r].at = "pausing", ![r].on = None,
                               ![r].attempts = @ + 1]
       ELSE Ends(r, "failed", None)
  /\ UNCHANGED <<clock, stores, stamps, current, background, admitted, answered, calls>>

(* An error that is not retried, or the cancellation of the caller. *)
Raise(r) ==
  /\ req[r].at = "calling"
  /\ Ends(r, "raised", None)
  /\ UNCHANGED <<clock, stores, stamps, current, background, admitted, answered, calls>>

Retry(r) ==
  /\ req[r].at = "pausing"
  /\ Selects(r, req[r].attempts)
  /\ UNCHANGED <<clock, stores, stamps, background, admitted, answered>>

-----------------------------------------------------------------------------
(* start makes a reset loop each time; stop leaves it asleep, and a start   *)
(* before it wakes keeps it alive beside the new one.                       *)
Start ==
  /\ ~running /\ Len(loops) < MaxStarts
  /\ running' = TRUE
  /\ loops' = Append(loops, clock)
  /\ UNCHANGED <<clock, stores, stamps, current, req, admitted, answered, calls>>

Stop ==
  /\ running
  /\ running' = FALSE
  /\ UNCHANGED <<clock, stores, stamps, current, loops, req, admitted, answered, calls>>

\* Variant: the loop resets the counters before its pause as well.
Reset_Twice(i) ==
  /\ current' = [p \in Providers |-> 0]
  /\ UNCHANGED <<clock, stores, stamps, background, req, admitted, answered, calls>>

(* A reset loop wakes a minute after its last turn, or later. *)
Reset(i) ==
  /\ loops[i] # None
  /\ clock - loops[i] >= Minute
  /\ current' = [p \in Providers |-> 0]
  /\ stamps' = [t \in Tenants |-> Recent(stamps[t])]
  /\ loops' = [loops EXCEPT ![i] = IF running THEN clock ELSE None]
  /\ UNCHANGED <<clock, stores, running, req, admitted, answered, calls>>

(* clear_expired, from the hourly clean-up loop. *)
ClearExpired ==
  /\ loops # <<>>
  /\ cache' = [c \in Contents |->
                 IF cache[c] # None /\ Fresh(cache[c]) THEN cache[c] ELSE None]
  /\ semantic' = [n \in {m \in DOMAIN semantic : Fresh(semantic[m])} |-> semantic[n]]
  /\ UNCHANGED <<clock, stored, stamps, current, background, req,
                 admitted, answered, calls>>

Tick ==
  /\ clock < MaxClock
  /\ clock' = clock + 1
  /\ calls' = [p \in Providers |->
                 {given \in calls[p] : clock' - given.at < Minute}]
  /\ admitted' = [r \in Requests |->
                    IF admitted[r] # None /\ clock' - admitted[r] < Minute
                      THEN admitted[r] ELSE None]
  /\ answered' = [r \in Requests |->
                    IF answered[r] # None /\ clock' - answered[r] < IdempotencyTtl
                      THEN answered[r] ELSE None]
  /\ UNCHANGED <<stores, stamps, current, background, req>>

Next ==
  \/ \E r \in Requests : Submit(r) \/ SubmitStream(r) \/ Answer(r) \/ Fail(r)
                         \/ Raise(r) \/ Retry(r)
  \/ \E i \in DOMAIN loops : Reset(i)
  \/ Start \/ Stop \/ ClearExpired \/ Tick

(* A provider's client times out, and a pause ends. *)
Fairness ==
  \A r \in Requests : WF_vars(Answer(r) \/ Fail(r) \/ Raise(r) \/ Retry(r))
Spec == Init /\ [][Next]_vars /\ Fairness

-----------------------------------------------------------------------------
(* Types; the stores hold responses of requests, the counters stay within   *)
(* the limits a provider was added with.                                    *)
Held == [response : Requests, at : 0..MaxClock] \cup {None}
TypeOK ==
  /\ clock \in 0..MaxClock /\ running \in BOOLEAN
  /\ cache \in [Contents -> Held] /\ stored \in [Keys -> Held]
  /\ IsFiniteSet(DOMAIN semantic) /\ Cardinality(DOMAIN semantic) <= SemanticSize
  /\ semantic \in [DOMAIN semantic ->
                     [content : Contents, response : Requests, at : 0..MaxClock]]
  /\ stamps \in [Tenants -> SUBSET [by : Requests, at : 0..MaxClock]]
  /\ \A t \in Tenants : IsFiniteSet(stamps[t]) /\ Cardinality(stamps[t]) <= TenantLimit
  /\ current \in [Providers -> 0..MaxPerMinute]
  /\ loops \in Seq(0..MaxClock \cup {None}) /\ Len(loops) <= MaxStarts
  /\ req \in [Requests -> Request]
  /\ admitted \in [Requests -> 0..MaxClock \cup {None}]
  /\ answered \in [Requests -> 0..MaxClock \cup {None}]
  /\ calls \in [Providers -> SUBSET [by : Requests, attempt : 0..MaxAttempts, at : 0..MaxClock]]

(* No tenant gets more requests past the windows within a minute than its   *)
(* limit, whatever is pruned when, and all tenants together no more than    *)
(* the global limit.                                                        *)
Passed(rs) == Cardinality({r \in rs : admitted[r] # None})
WithinLimits ==
  /\ \A t \in Tenants : Passed({r \in Requests : tenant[r] = t}) <= TenantLimit
  /\ Passed({r \in Requests : tenant[r] # None}) <= GlobalLimit

(* The counters are zeroed at fixed minutes, so a provider can be given     *)
(* more than its limit within a minute: a full share for every reset loop   *)
(* (one, or more after a quick restart) and one more, but never beyond.     *)
ShareIsBounded ==
  \A p \in Providers : Cardinality(calls[p]) <= (Len(loops) + 1) * MaxPerMinute

(* A key is executed once its answer is stored no more: a request that      *)
(* comes within the store's time to live of the last answer to its key is   *)
(* given that answer and no provider is called.                             *)
SameKey(r) == {q \in Requests \ Streams : answered[q] # None
                 /\ idempotencyKey[q] = idempotencyKey[r] /\ idempotencyKey[r] # None}
LastAnswered(q, r) == \A s \in SameKey(r) : answered[s] <= answered[q]
RetryIsReplayed ==
  [][\A r \in Requests \ Streams :
       (req[r].at = "new" /\ req'[r].at # "new")
         => \A q \in SameKey(r) :
              LastAnswered(q, r)
                => /\ req'[r].out = "replayed"
                   /\ answered[req'[r].response] = answered[q]]_vars

(* Every request that calls a provider ends: attempts run out, whatever the *)
(* providers do and whichever of them is tried again.                       *)
EveryRequestEnds ==
  \A r \in Requests : []<>(req[r].at \in {"new", "done"})
=============================================================================
