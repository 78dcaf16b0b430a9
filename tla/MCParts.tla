------------------------------ MODULE MCParts ------------------------------
(***************************************************************************)
(* The parts of the system that share no state with one another, each on a *)
(* small instance, in two groups: the reliability, routing, rate limiting, *)
(* billing and key code (Resilience) and the streaming, socket,            *)
(* integration and metering code (Services). A behaviour is one of a       *)
(* single part, chosen at the start: the state spaces add up instead of    *)
(* multiplying. The variables are lent to the part that runs; those it     *)
(* does not need stay as they are.                                         *)
(***************************************************************************)
EXTENDS Naturals, Sequences

CONSTANTS m1, m2, i1, i2, s1, s2, r1, r2, c1, c2, u1, t1, t2, e1, e2, None

VARIABLES part, a, b, c, d, e, f, g, h, i, j
vars == <<part, a, b, c, d, e, f, g, h, i, j>>

-----------------------------------------------------------------------------
Rolling == INSTANCE RollingBreaker WITH
  Callers <- {1, 2}, Threshold <- 2, Percentage <- 50, MinRequests <- 2,
  Recovery <- 2, Window <- 2, Kept <- 3,
  state <- a, since <- b, consecutive <- c, window <- d, calling <- e
Slots == INSTANCE Bulkhead WITH
  Tasks <- 1..4, MaxConcurrent <- 2, MaxAttempts <- 2,
  Strategies <- {"fixed"}, InitialDelay <- 10, MaxDelay <- 10, Jitter <- 0, Recent <- 0,
  Retryable <- {"timeout", "other"}, RetryOnTimeout <- TRUE,
  at <- a, attempt <- b, waiting <- c, active <- d, strategy <- e, pause <- f, history <- g
Retries == INSTANCE Bulkhead WITH
  Tasks <- {1, 2}, MaxConcurrent <- 2, MaxAttempts <- 4,
  Strategies <- {"fixed", "exponential", "linear", "fibonacci", "adaptive"},
  InitialDelay <- 10, MaxDelay <- 30, Jitter <- 1, Recent <- 3,
  Retryable <- {"other"}, RetryOnTimeout <- FALSE,
  at <- a, attempt <- b, waiting <- c, active <- d, strategy <- e, pause <- f, history <- g
Timeouts == INSTANCE Deadlines WITH
  Operations <- {1}, Requested <- {2, 5}, MinTimeout <- 1, MaxTimeout <- 6,
  Buffer <- 1, MaxDepth <- 2, MaxClock <- 3, Default <- 5, MaxEvents <- 1, KeptEvents <- 1,
  clock <- a, stack <- b, deadline <- c, usual <- d, events <- e
Balancer == INSTANCE LoadBalancer WITH
  Instances <- {i1, i2}, Requests <- 1..2, MaxConnections <- 1, Many <- 1, Weak <- {i2},
  kind <- a, present <- b, available <- c, connections <- d, total <- e, failed <- f,
  at <- g, on <- h
Pool == INSTANCE ConnectionPool WITH
  Users <- 1..3, MaxSize <- 2, MinSize <- 1, ToClose <- 2, MaxResults <- 2,
  idle <- a, active <- b, lock <- c, at <- d, closing <- e,
  breaker <- f, good <- g, bad <- h, elapsed <- i
Chain == INSTANCE FallbackChain WITH
  Requests <- {1, 2}, Models <- {m1, m2}, Chain <- <<m1, m2>>,
  MaxAttempts <- 2, Threshold <- 2, Recovery <- 1,
  breaker <- a, at <- b, pos <- c, skipped <- d
Bucket == INSTANCE TokenBucket WITH
  Capacity <- 3, Rate <- 2, Unit <- 3, Burst <- 2, Idle <- 4, Asked <- {1, 2},
  MaxClock <- 12,
  kind <- a, clock <- b, tokens <- c, last <- d, used <- e
Sliding == INSTANCE SlidingWindow WITH
  Kinds <- {"memory", "commands", "script"}, Callers <- {1, 2}, MaxRequests <- 2, Window <- 4, MaxClock <- 6,
  kind <- a, clock <- b, at <- c, now <- d, stamps <- e, passed <- f
Fixed == INSTANCE SlidingWindow WITH
  Kinds <- {"fixed"}, Callers <- {1, 2}, MaxRequests <- 1, Window <- 2, MaxClock <- 3,
  kind <- a, clock <- b, at <- c, now <- d, stamps <- e, passed <- f
Failover == INSTANCE MultiRegion WITH
  Regions <- 1..3, Priority <- [r \in 1..3 |-> IF r = 3 THEN 2 ELSE 1],
  Threshold <- 2, Connected <- {1, 3},
  status <- a, failures <- b, primary <- c, flagged <- d, checking <- e, due <- f, spare <- g

(* The table with an experiment and nothing measured; sessions routed by    *)
(* what is measured; reports of what one region says; two deployments.      *)
Says(busy, errors, late, recovered) ==
  [load |-> busy, errors |-> errors, late |-> late, recovered |-> recovered]
Global == INSTANCE GlobalRouting WITH
  Regions <- {1, 2}, Experiments <- {1}, Metrics <- [u \in {"ok", "slow"} |-> {Says(0, 0, FALSE, None)}],
  Duration <- 0, Goal <- 1, Sticky <- <<>>, Places <- {}, Deployments <- {}, Targets <- {}, Rounds <- 2,
  MaxResponse <- 4,
  up <- a, health <- b, response <- c, at <- d, seen <- e, experiment <- f,
  load <- g, deployment <- h, deployed <- i
Traffic == INSTANCE GlobalRouting WITH
  Regions <- {1, 2}, Experiments <- {},
  Metrics <- [u \in {"ok", "slow"} |-> {Says(10, IF u = "ok" THEN 0 ELSE 40, FALSE, None),
                                        Says(100, 0, FALSE, None)}],
  Duration <- 0, Goal <- 1, Sticky <- <<1, 2>>, Places <- {<<0, 0>>, <<30, 18>>, <<18, 30>>, <<100, 20>>},
  Deployments <- {}, Targets <- {}, Rounds <- 2, MaxResponse <- 4,
  up <- a, health <- b, response <- c, at <- d, seen <- e, experiment <- f,
  load <- g, deployment <- h, deployed <- i
Chaos == INSTANCE GlobalRouting WITH
  Regions <- {1}, Experiments <- {1},
  Metrics <- [u \in {"ok", "slow"} |->
                IF u = "ok" THEN {Says(10, 0, FALSE, None), Says(10, 1, FALSE, 80)}
                ELSE {Says(10, 3, FALSE, 20), Says(10, 9, TRUE, None)}],
  Duration <- 3, Goal <- 1, Sticky <- <<>>, Places <- {}, Deployments <- {}, Targets <- {}, Rounds <- 2,
  MaxResponse <- 4,
  up <- a, health <- b, response <- c, at <- d, seen <- e, experiment <- f,
  load <- g, deployment <- h, deployed <- i
Rollout == INSTANCE GlobalRouting WITH
  Regions <- {1, 2}, Experiments <- {}, Metrics <- <<>>,
  Duration <- 0, Goal <- 1, Sticky <- <<>>, Places <- {}, Deployments <- 1..2,
  Targets <- {<<1>>, <<1, 2>>, <<2, 0>>}, Rounds <- 2, MaxResponse <- 4,
  up <- a, health <- b, response <- c, at <- d, seen <- e, experiment <- f,
  load <- g, deployment <- h, deployed <- i

(* Requests of each tier, task and restriction the router tells apart, and  *)
(* reports of the cheapest and of the dearest model: a slow and dear        *)
(* success and a failure. Prices are ten-thousandths of a dollar.          *)
Plain == [tier |-> "basic", words |-> {"qa"}, tokens |-> 1, answer |-> 1, max_cost |-> 0,
          max_latency |-> 0, excluded |-> {}, strategy |-> None]
Contexts ==
  {Plain,
   [Plain EXCEPT !.strategy = "other", !.max_cost = 100, !.tier = "enterprise"],
   [Plain EXCEPT !.words = {"code_generation", "qa"}, !.tier = "professional",
                 !.max_latency = 150],
   [Plain EXCEPT !.words = {"vision"}, !.tier = "enterprise", !.tokens = 10,
                 !.excluded = {"claude-3-opus"}],
   [Plain EXCEPT !.words = {"vision", "reasoning"}, !.tier = "enterprise"],
   [Plain EXCEPT !.words = {"vision"}, !.tier = "enterprise", !.excluded = {"gpt-4-turbo"}],
   [Plain EXCEPT !.words = {"creative_writing"}, !.tier = "enterprise", !.tokens = 150]}
Router == INSTANCE ModelRouter WITH
  Contexts <- Contexts, Measured <- {5, 6}, Many <- 1,
  Outcomes <- {[success |-> TRUE, latency |-> 900, cost |-> 9000],
               [success |-> FALSE, latency |-> 900, cost |-> 0]},
  MaxHistory <- 3, KeptHistory <- 2, MaxReports <- 2, MaxAge <- 2,
  history <- a, model_profiles <- b, hist <- c, last <- d

Completion == INSTANCE ChatCompletion WITH
  Requests <- {1}, Models <- {"g", "c", "x"},
  provider <- [m \in {"g", "c"} |-> IF m = "g" THEN "openai" ELSE "anthropic"],
  MaxRetries <- 2, Roles <- {"system", "user", "assistant", "tool"}, MaxMessages <- 3,
  at <- a, asked <- b, sent <- c, seen <- d
Merge == INSTANCE ProviderStreams WITH
  Streams <- {1, 2}, kind <- <<"openai", "provider_b">>, MaxChunks <- 2, BufferSize <- 2,
  task <- a, made <- b, queue <- c, active <- d, consumer <- e, buffer <- f, given <- g

Bills == INSTANCE Billing WITH
  Tenants <- {i1, i2}, MaxEntries <- 2, MaxInvoices <- 2, Month <- 1, MaxDay <- 1, Offered <- {4},
  Calls <- {[requests |-> 6000, prompt |-> 160, completion |-> 507, model |-> "model-4"]},
  today <- a, entries <- b, daily <- c, monthly <- d, tenant_tiers <- e, invoices <- f
(* Bound: two entries and one bill, or one entry and two bills.             *)
BillsBound == Len(b') + Len(f') <= 3

Factory == INSTANCE ModelFactory WITH
  Requests <- {1, 2}, Asked <- {"gpt-4-turbo", "claude-3-sonnet", "other"},
  Attempts <- 2, Threshold <- 2, ResetTimeout <- 1,
  at <- a, request <- b, asks <- c, circuit <- d

(* A request without a user, one with, and one for a model whose name holds *)
(* the other's; the third question looked up is of another user.            *)
Text(w, m) == [words |-> w, marks |-> m]
Ask(model, user, t, w, m) ==
  [model |-> model, user |-> user, temperature |-> t,
   messages |-> <<[role |-> "system", content |-> Text("be brief", 0)],
                  [role |-> "user", content |-> Text(w, m)]>>]
Stored == <<Ask("gpt-4", None, 700, "hello", 1), Ask("gpt-4", "u", 704, "hello", 0),
            Ask("GPT-4-turbo", "u", 0, "bye", 0)>>
CachedKeys == INSTANCE CacheKeys WITH
  Requests <- Stored, Large <- {Stored[1], Stored[2]},
  Asked <- {Stored[1], Stored[3], Ask("gpt-4", "v", 100, "bye", 1)},
  Cleared <- {<<None, None>>, <<None, "u">>, <<"gpt-4", None>>},
  Lower <- [m \in {"gpt-4", "GPT-4-turbo"} |-> IF m = "gpt-4" THEN m ELSE "gpt-4-turbo"],
  Within <- {<<"gpt-4", "gpt-4">>, <<"gpt-4", "gpt-4-turbo">>, <<"gpt-4-turbo", "gpt-4-turbo">>},
  Score <- [x \in 0..3, y \in 0..3 |-> 40], Threshold <- 95, MaxCandidates <- 2,
  MaxIndex <- 1, Dropped <- 1,
  data <- a, meta <- b, index <- c, storing <- d, clear <- e, disturbed <- f

NoJ == j = None
NoIJ == i = None /\ NoJ
NoHIJ == h = None /\ NoIJ
NoGHIJ == g = None /\ NoHIJ
NoFGHIJ == f = None /\ NoGHIJ
NoEFGHIJ == e = None /\ NoFGHIJ

ResilienceInit ==
  \/ part = "breaker"  /\ Rolling!Init  /\ NoFGHIJ
  \/ part = "bulkhead" /\ Slots!Init    /\ NoHIJ
  \/ part = "retries"  /\ Retries!Init  /\ NoHIJ
  \/ part = "deadline" /\ Timeouts!Init /\ NoFGHIJ
  \/ part = "balancer" /\ Balancer!Init /\ NoIJ
  \/ part = "pool"     /\ Pool!Init     /\ NoJ
  \/ part = "chain"    /\ Chain!Init    /\ NoEFGHIJ
  \/ part = "bucket"   /\ Bucket!Init   /\ NoFGHIJ
  \/ part = "sliding"  /\ Sliding!Init  /\ NoGHIJ
  \/ part = "fixed"    /\ Fixed!Init    /\ NoGHIJ
  \/ part = "failover" /\ Failover!Init /\ NoHIJ
  \/ part = "global"   /\ Global!Init     /\ NoJ
  \/ part = "traffic"  /\ Traffic!Init     /\ NoJ
  \/ part = "chaos"    /\ Chaos!Init     /\ NoJ
  \/ part = "rollout"  /\ Rollout!Init  /\ a = [r \in {1, 2} |-> "ok"] /\ NoJ
  \/ part = "router"   /\ Router!Init   /\ NoEFGHIJ
  \/ part = "chat"     /\ Completion!Init /\ NoEFGHIJ
  \/ part = "merge"    /\ Merge!Init    /\ NoHIJ
  \/ part = "bills"    /\ Bills!Init    /\ NoGHIJ
  \/ part = "factory"  /\ Factory!Init  /\ NoEFGHIJ
  \/ part = "keys"     /\ CachedKeys!Init /\ NoGHIJ

Keeps(vs) == UNCHANGED <<part, vs>>

ResilienceNext ==
  \/ part = "breaker"  /\ Rolling!Next  /\ Keeps(<<f, g, h, i, j>>)
  \/ part = "bulkhead" /\ Slots!Next    /\ Keeps(<<h, i, j>>)
  \/ part = "retries"  /\ Retries!Next  /\ Keeps(<<h, i, j>>)
  \/ part = "deadline" /\ Timeouts!Next /\ Keeps(<<f, g, h, i, j>>)
  \/ part = "balancer" /\ Balancer!Next /\ Keeps(<<i, j>>)
  \/ part = "pool"     /\ Pool!Next     /\ Keeps(<<j>>)
  \/ part = "chain"    /\ Chain!Next    /\ Keeps(<<e, f, g, h, i, j>>)
  \/ part = "bucket"   /\ Bucket!Next   /\ Keeps(<<f, g, h, i, j>>)
  \/ part = "sliding"  /\ Sliding!Next  /\ Keeps(<<g, h, i, j>>)
  \/ part = "fixed"    /\ Fixed!Next    /\ Keeps(<<g, h, i, j>>)
  \/ part = "failover" /\ Failover!Next /\ Keeps(<<h, i, j>>)
  \/ part = "global"   /\ Global!Next   /\ Keeps(<<j>>)
  \/ part = "traffic"  /\ Traffic!Next  /\ Keeps(<<j>>)
  \/ part = "chaos"    /\ (Chaos!Experimenting \/ Chaos!Changes(1)) /\ Keeps(<<j>>)
  \/ part = "rollout"  /\ Rollout!Deploying /\ Keeps(<<j>>)
  \/ part = "router"   /\ Router!Next   /\ Keeps(<<e, f, g, h, i, j>>)
  \/ part = "chat"     /\ Completion!Next /\ Keeps(<<e, f, g, h, i, j>>)
  \/ part = "merge"    /\ Merge!Next    /\ Keeps(<<h, i, j>>)
  \/ part = "bills"    /\ Bills!Next    /\ BillsBound /\ Keeps(<<g, h, i, j>>)
  \/ part = "factory"  /\ Factory!Next  /\ Keeps(<<e, f, g, h, i, j>>)
  \/ part = "keys"     /\ CachedKeys!Next /\ Keeps(<<g, h, i, j>>)

(* The fairness of the part that runs: asked again, ended, and time passes. *)
(* A behaviour stays with its part, so fairness of an action of several     *)
(* parts is fairness of each of them.                                       *)
TimePasses ==
  \/ part = "breaker" /\ Rolling!Tick /\ Keeps(<<f, g, h, i, j>>)
  \/ part = "chain" /\ Chain!Tick /\ Keeps(<<e, f, g, h, i, j>>)
  \/ part = "factory" /\ Factory!Tick /\ Keeps(<<e, f, g, h, i, j>>)
  \/ part = "global" /\ Global!Loop /\ Keeps(<<j>>)
  \/ part = "merge" /\ (Merge!Takes \/ Merge!Asks \/ Merge!Cleans) /\ Keeps(<<h, i, j>>)
Asks(n) ==
  \/ /\ part = "breaker" /\ n = 1 /\ Keeps(<<f, g, h, i, j>>)
     /\ \E m \in {1, 2} : Rolling!Opens(m) \/ Rolling!Begin(m)
  \/ part = "chain" /\ n \in {1, 2} /\ Chain!execute_with_fallback(n) /\ Keeps(<<e, f, g, h, i, j>>)
  \/ /\ part = "factory" /\ n \in {1, 2} /\ Keeps(<<e, f, g, h, i, j>>)
     /\ Factory!execute_with_fallback(n, None)
  \/ part = "bulkhead" /\ Slots!Granted(n) /\ Keeps(<<h, i, j>>)
Ends(n) ==
  \/ /\ part = "breaker" /\ n = 1 /\ Keeps(<<f, g, h, i, j>>)
     /\ \E m \in {1, 2} : Rolling!Reports(m)
  \/ /\ part = "chain" /\ n \in {1, 2} /\ Keeps(<<e, f, g, h, i, j>>)
     /\ Chain!Wake(n) \/ Chain!Ends(n) \/ Chain!Fails(n)
  \/ part = "factory" /\ n \in {1, 2} /\ Factory!Works(n) /\ Keeps(<<e, f, g, h, i, j>>)
  \/ part = "merge" /\ n \in {1, 2} /\ Merge!Ends(n) /\ Keeps(<<h, i, j>>)
  \/ /\ part = "bulkhead" /\ Keeps(<<h, i, j>>)
     /\ Slots!Returns(n) \/ Slots!Raises(n) \/ Slots!Again(n)
ResilienceFairness ==
  WF_vars(TimePasses) /\ \A n \in 1..4 : WF_vars(Asks(n)) /\ WF_vars(Ends(n))

Resilience == ResilienceInit /\ [][ResilienceNext]_vars /\ ResilienceFairness

-----------------------------------------------------------------------------
Reconnecting == INSTANCE Reconnection WITH
  Callers <- {1, 2}, MaxAttempts <- 1, Infos <- {11, 12}, MaxCalls <- 3,
  current <- a, state <- b, attempts <- c, loop <- d, doing <- e, calls <- f, dropped <- g
Flow == INSTANCE Backpressure WITH
  Senders <- {1, 2}, MaxInFlight <- 3, MaxBuffer <- 2, InitialWindow <- 2,
  MaxSent <- 7, MaxDrains <- 2,
  strategy <- a, sent <- b, acked <- c, window <- d, slow <- e, buffered <- f,
  at <- g, drains <- h, best <- i
Stream == INSTANCE StreamSessions WITH
  Sessions <- {s1, s2}, Rooms <- {r1}, Callers <- {"caller"},
  Loops <- {"heartbeat", "cleanup"}, MaxConnections <- 1, Tokens <- {1, 2},
  connections <- a, tokens <- b, expiring <- c, rooms <- d, doing <- e
Events == INSTANCE EventSockets WITH
  Connections <- {c1, c2}, Tenants <- {t1, t2}, MaxPerTenant <- 1,
  Loops <- {"heartbeat", "shutdown"}, AuthTenant <- t2,
  connections <- a, tenant <- b, joined <- c, index <- d, at <- e, dead <- f,
  running <- g, busy <- h, leaving <- i
Scalable == INSTANCE ScalableSockets WITH
  Sockets <- {c1, c2}, Users <- {u1}, Rooms <- {r1, r2}, Joins <- {1},
  user <- [s \in {c1, c2} |-> u1], home <- [s \in {c1, c2} |-> r1],
  connections <- a, status <- b, room <- c, sessions <- d, members <- e, presence <- f,
  connecting <- g, leaving <- h, joining <- i, overtaken <- j
Hooks == INSTANCE Webhooks WITH
  Sessions <- {1}, MaxAttempts <- 2, MaxQueue <- 2, MaxRestarts <- 1,
  row <- a, queue <- b, posting <- c, accepted <- d, restarts <- e,
  hooked <- f, session <- g, seen <- h, unmarked <- i
(* Bound: one post ends without the table being told, which stands for the  *)
(* strong fairness of its module.                                           *)
HooksBound ==
  i' \subseteq {<<1, "started">>} /\ (Hooks!Unmarked /\ c \in Hooks!Logged => i' # i)
Metering == INSTANCE UsageMetering WITH
  Calls <- {1, 2}, Month <- 2, KeepDays <- 3, MaxDay <- 4,
  Tracked <- {[what |-> "tokens", n |-> 30000000], [what |-> "delete", n |-> 1000]},
  today <- a, daily <- b, monthly <- c, call <- d, reading <- e, issued <- f
(* Bound: only the tracking of call 1 fails. *)
MeteringBound == d'[2].step # "failed"

Answers == INSTANCE SemanticCache WITH
  Callers <- {1, 2}, Entries <- {e1, e2}, Tenants <- {t1}, MaxEntries <- 1, MaxCalls <- 2,
  tenant <- [x \in {e1, e2} |-> IF x = e1 THEN t1 ELSE None],
  lru <- a, redis <- b, expired <- c, at <- d, counts <- e, gone <- f
Queued == INSTANCE RoomQueue WITH
  Sessions <- {1, 2}, Messages <- {1, 2},
  on <- a, reading <- b, queue <- c, expired <- d, sending <- e, given <- f, sweep <- g,
  covered <- h, missed <- i
(* Bounds: only message 2 expires, only message 1 is pushed twice, only the *)
(* socket of session 1 leaves, and the loop lists when something has expired*)
QueuedBound ==
  /\ d' \subseteq {2} /\ [of |-> 2, nth |-> 2] \notin Queued!ToSet(c')
  /\ 2 \in a => 2 \in a'
  /\ g = <<>> /\ g' # <<>> => Queued!Held(c) \cap d # {}
Page == INSTANCE ChatPage WITH
  Sends <- {1, 2}, MaxMessages <- 1, MaxChunks <- 1, MaxReloads <- 1, MaxPending <- 1,
  messages <- a, pending <- b, ref <- c, loading <- d, http <- e, got <- f,
  server <- g, wire <- h, stored <- i, reloads <- j

ServicesInit ==
  \/ part = "reconnection" /\ Reconnecting!Init /\ NoHIJ
  \/ part = "flow"         /\ Flow!Init         /\ NoJ
  \/ part = "stream"       /\ Stream!Init       /\ NoFGHIJ
  \/ part = "events"       /\ Events!Init       /\ NoJ
  \/ part = "scalable"     /\ Scalable!Init
  \/ part = "webhooks"     /\ Hooks!Init        /\ NoJ
  \/ part = "metering"     /\ Metering!Init     /\ NoGHIJ
  \/ part = "answers"      /\ Answers!Init      /\ NoGHIJ
  \/ part = "queued"       /\ Queued!Init       /\ NoJ
  \/ part = "page"         /\ Page!Init

ServicesNext ==
  \/ part = "reconnection" /\ Reconnecting!Next /\ Keeps(<<h, i, j>>)
  \/ part = "flow"         /\ Flow!Next         /\ Keeps(<<j>>)
  \/ part = "stream"       /\ Stream!Next       /\ Keeps(<<f, g, h, i, j>>)
  \/ part = "events"       /\ Events!Next       /\ Keeps(<<j>>)
  \/ part = "scalable"     /\ Scalable!Next     /\ Keeps(<<>>)
  \/ part = "webhooks"     /\ Hooks!Next        /\ HooksBound /\ Keeps(<<j>>)
  \/ part = "metering"     /\ Metering!Next     /\ MeteringBound /\ Keeps(<<g, h, i, j>>)
  \/ part = "answers"      /\ Answers!Next      /\ Keeps(<<g, h, i, j>>)
  \/ part = "queued"       /\ Queued!Next       /\ QueuedBound /\ Keeps(<<j>>)
  \/ part = "page"         /\ Page!Next         /\ Keeps(<<>>)

(* The fairness of the part that runs, as its module states it: the loop's  *)
(* next step, and the end of what is under way.                             *)
LoopSteps ==
  \/ part = "reconnection" /\ Reconnecting!LoopStep /\ Keeps(<<h, i, j>>)
  \/ part = "stream" /\ Stream!Watch("heartbeat", s1) /\ Keeps(<<f, g, h, i, j>>)
  \/ part = "events" /\ Events!Takes("heartbeat", c1) /\ Keeps(<<j>>)
  \/ part = "scalable" /\ Scalable!_cleanup_connections(c1) /\ Keeps(<<>>)
  \/ part = "webhooks" /\ Hooks!_webhook_retry_worker /\ Keeps(<<j>>)
Finishes(n) ==
  \/ part = "reconnection" /\ Reconnecting!Notified(n) /\ Keeps(<<h, i, j>>)
  \/ /\ part = "stream" /\ n = 1 /\ Keeps(<<f, g, h, i, j>>)
     /\ Stream!LeavesOne("heartbeat") \/ Stream!Closed("heartbeat")
  \/ part = "events" /\ n = 1 /\ Events!Drops("heartbeat") /\ Keeps(<<j>>)
  \/ part = "scalable" /\ n = 1 /\ (Scalable!Left(c1) \/ Scalable!Removed(c1)) /\ Keeps(<<>>)
  \/ part = "webhooks" /\ n = 1 /\ Hooks!Works /\ Keeps(<<j>>)
ServicesFairness ==
  WF_vars(LoopSteps) /\ WF_vars(Finishes(1)) /\ WF_vars(Finishes(2))

Services == ServicesInit /\ [][ServicesNext]_vars /\ ServicesFairness

-----------------------------------------------------------------------------
(* Every part keeps to its types. *)
TypesOK ==
  CASE part = "breaker" -> Rolling!TypeOK
    [] part = "bulkhead" -> Slots!TypeOK
    [] part = "retries" -> Retries!TypeOK
    [] part = "deadline" -> Timeouts!TypeOK
    [] part = "balancer" -> Balancer!TypeOK
    [] part = "pool" -> Pool!TypeOK
    [] part = "chain" -> Chain!TypeOK
    [] part = "bucket" -> Bucket!TypeOK
    [] part = "sliding" -> Sliding!TypeOK
    [] part = "fixed" -> Fixed!TypeOK
    [] part = "failover" -> Failover!TypeOK
    [] part = "global" -> Global!TypeOK
    [] part = "traffic" -> Traffic!TypeOK
    [] part = "chaos" -> Chaos!TypeOK
    [] part = "rollout" -> Rollout!TypeOK
    [] part = "router" -> Router!TypeOK
    [] part = "chat" -> Completion!TypeOK
    [] part = "merge" -> Merge!TypeOK
    [] part = "bills" -> Bills!TypeOK
    [] part = "factory" -> Factory!TypeOK
    [] part = "keys" -> CachedKeys!TypeOK
    [] part = "reconnection" -> Reconnecting!TypeOK
    [] part = "flow" -> Flow!TypeOK
    [] part = "stream" -> Stream!TypeOK
    [] part = "events" -> Events!TypeOK
    [] part = "scalable" -> Scalable!TypeOK
    [] part = "webhooks" -> Hooks!TypeOK
    [] part = "metering" -> Metering!TypeOK
    [] part = "answers" -> Answers!TypeOK
    [] part = "queued" -> Queued!TypeOK
    [] part = "page" -> Page!TypeOK

(* What is limited stays within its limit, whatever is asked for at once,   *)
(* or passes it by no more than those at work at once.                      *)
LimitsHold ==
  CASE part = "bulkhead" -> Slots!WithinSlots
    [] part = "deadline" -> Timeouts!NestedEndFirst
    [] part = "retries" -> Retries!PausesWithin
    [] part = "bucket" -> Bucket!UsedIsCovered
    [] part = "sliding" -> Sliding!WindowHolds
    [] part = "fixed" -> Fixed!WindowHolds
    [] part = "chat" -> Completion!AskedAsNeeded
    [] part = "factory" -> Factory!AsksBounded
    [] part = "keys" -> CachedKeys!IndexHolds
    [] part = "flow" -> Flow!InFlightBounded
    [] part = "stream" -> Stream!LimitHolds
    [] OTHER -> TRUE

(* What is counted, noted or started for a call goes with it, what a call   *)
(* is given of several streams is in the order of each, and what was used,  *)
(* billed and paid adds up.                                                 *)
NothingLeftBehind ==
  CASE part = "bulkhead" -> Slots!CountIsHolders /\ Slots!LineIsWaiting
    [] part = "balancer" -> Balancer!NoLoadLeftBehind
    [] part = "pool" -> Pool!EveryConnectionCounted
    [] part = "deadline" -> Timeouts!DeadlineIsLive /\ Timeouts!EventsTell
    [] part = "merge" -> Merge!NoTaskLeft /\ Merge!MergedInOrder
    [] part = "bills" -> Bills!SumsMatchEntries /\ Bills!BalanceIsOwn
    [] part = "keys" -> CachedKeys!ClearedAreGone /\ CachedKeys!UnreadableForCause
    [] part = "rollout" -> Rollout!DeploymentsEndWhole
    [] OTHER -> TRUE

(* A model or region is passed over only for what was measured of it, a     *)
(* request goes only where it fits and whole, its answer tells what went    *)
(* wrong, one region is the primary, and the tier advised is the cheapest.  *)
ChoicesAreSound ==
  CASE part = "chain" -> Chain!SkippedForCause
    [] part = "balancer" -> Balancer!SidelinedForCause
    [] part = "failover" -> Failover!OnePrimary /\ Failover!UnhealthyForCause
    [] part = "router" -> Router!DecisionFits /\ Router!FailuresStandBehind
    [] part = "chat" -> Completion!StatusTells /\ Completion!TurnsAreWhole
    [] part = "bills" -> Bills!AdviceIsCheapest /\ Bills!SavingsWithinCost
    [] part = "factory" -> Factory!FailsAfterBoth /\ Factory!NamedModelAnswers
    [] part = "keys" -> CachedKeys!ClearTakesItsOwn /\ CachedKeys!SimilarIsCached
    [] part = "traffic" -> Traffic!SessionsStay
    [] part = "chaos" -> Chaos!ReportsAgree
    [] OTHER -> TRUE

(* Tables that describe the same connections agree with one another, in     *)
(* whatever order connections come, move and go; what is logged as          *)
(* delivered, counted, queued or charged is what happened; and what is      *)
(* shown of an answer is what came of it.                                   *)
RecordsAreTrue ==
  CASE part = "reconnection" -> Reconnecting!ReconnectingIsPursued
    [] part = "stream" -> Stream!MemberIsInRoom /\ Stream!TokenLeadsHome
    [] part = "events" -> Events!IndexMatches
    [] part = "scalable" -> Scalable!SocketIsListed /\ Scalable!PresenceIsRight
    [] part = "webhooks" -> Hooks!DeliveredWasTaken /\ Hooks!NoneForgotten
                            /\ Hooks!StartIsPostedFirst
    [] part = "metering" -> Metering!InvoiceIsRight /\ Metering!CountersAgree
    [] part = "answers" -> Answers!OrderMatches /\ Answers!QueriesAddUp /\ Answers!GoneStaysGone
    [] part = "queued" -> Queued!NoneLostUnread /\ Queued!GivenOnce
    [] part = "page" -> Page!LoadingHasCause /\ Page!ChunksShownOnce /\ Page!NoneShownEarlier
                      /\ Page!ListIsSound
    [] OTHER -> TRUE

(* No refusal lasts: who waits for a slot is served, an open breaker or     *)
(* circuit that is asked is tested, the primary model is tried again, and a *)
(* region that answers becomes a candidate again, one that is down ceases   *)
(* to be. And a merge of streams ends once each of them has.                *)
RefusalsEnd ==
  /\ []<>CASE part = "breaker" -> a # "open"
            [] part = "chain" -> a[m1].state # "open"
            [] part = "factory" -> ~d.open
            [] part = "merge" -> e \in {"ended", "left"} \/ "raised" \in {a[1], a[2]}
            [] OTHER -> TRUE
  /\ \A n \in 1..4 : []<>(part = "bulkhead" => a[n] \in {"new", "done"})
  /\ \A r \in {1, 2} :
       /\ []<>(part = "global" => (a[r] = "down" => r \notin Global!Candidates))
       /\ []<>(part = "global" => (a[r] = "ok" => r \in Global!Candidates))
       /\ []<>(part = "global" => (a[r] = "ok" => c[r] = 0))

(* A reconnection loop ends, connections whose client has gone are dropped, *)
(* and a failed delivery is delivered or given up. Connections are alike:   *)
(* one of them stands for all, in the fairness too.                         *)
LoopsEnd ==
  /\ []<>CASE part = "reconnection" -> d = None
            [] part = "stream" -> s1 \notin Stream!Known \/ ~a[s1].stale
            [] part = "events" -> c1 \notin a \cap f \/ ~g
            [] part = "scalable" -> c1 \notin a \/ b[c1] = "connected" \/ c1 \in j
            [] OTHER -> TRUE
  /\ \A n \in {"started", "message"} : []<>(part = "webhooks" => ~Hooks!Retriable(<<1, n>>))
=============================================================================
