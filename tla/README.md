# A verification development for the chatbot system

The repository is a multi-tenant chat server in Python (FastAPI, asyncio, Redis)
that forwards chat requests to language-model providers. This directory holds
TLA+ models of its stateful parts, the TLC configurations that check them on small
instances, and theorems proved with TLAPS for every value of the constants. All
paths below are relative to `src/src/chatbot_ai_system/` unless they begin with `src/`.

## How to run

    tlc -workers 2 -config CircuitBreaker.cfg CircuitBreaker
    tlapm CircuitBreakerProofs.tla

`PROJECT.json` lists every run with its module, configuration and properties, the
source lines behind every definition, for each property a plausible bug that
breaks it (the `\* Variant:` operators in the modules), the hazards and the
findings.

## The system and its components

One server process runs one event loop, so two tasks interleave only at an
`await`. That is the atomicity of the models: the code from one await that really
suspends to the next is one action. Locks that are never held across a suspension
(the breaker's) are therefore part of an action; a lock that is (the connection
manager's) is modelled.

| Component | State | Operations | Talks to | Hard because of | Correct when |
|---|---|---|---|---|---|
| Provider circuit breaker (`providers/circuit_breaker.py`) | state, three counters, time of the last failure | `call` (admit, then record) | called by the orchestrator around each provider call | results arrive in any order and any number of periods late | counts are of the current period, few trial calls, an open circuit is retried and a half-open one decided |
| Provider orchestrator (`providers/orchestrator.py`, `base.py`) | one breaker per provider, four counters; per request its attempts | `complete`, `complete_stream` | providers, breakers | retries, rate limits, streams that break off, cancelled clients | every attempt goes to another provider, every request ends, counters add up |
| WebSocket connection manager (`websocket/ws_manager.py`) | connections, index by user, one lock, two background tasks | `connect`, `disconnect`, `receive_message`, send, heartbeat and clean-up loops | the chat endpoint; the sockets | everything under one non-reentrant lock across awaits; three parties disconnect the same socket | limit kept, index consistent, loops alive, dead connections removed |
| WebSocket chat session (`api/websocket.py`, `websocket/ws_handlers.py`) | `active_streams`, `message_history`, one task per answer | the reader loop, `_handle_chat`, `_handle_cancel`, `_stream_chat_response`, `cleanup_connection` | manager, providers | cancellation only takes effect later; entries are keyed by connection, not by stream | answers whole, cancelled ones silent, nothing left behind |
| Redis response cache (`cache/redis_cache.py`) | data, metadata and tag keys in Redis; its own breaker | get, put, invalidate by key, tag, pattern, all | Redis | several commands per operation, expiry between them, failing commands | what was stored can be read and found by its tag |
| Request orchestrator (`orchestrator/orchestrator.py`) | idempotency store, request and semantic cache, rate windows, provider shares | `complete`, `complete_stream`, reset and clean-up loops | providers | check-then-act across the provider call; ages compared with `timedelta.seconds` | a stored answer is replayed, windows and shares hold, every request ends |
| Rate limiters (`core/tenancy/rate_limiter.py`, `tenancy/rate_limiter.py`, `middleware/`) | token buckets and windows, in memory or in Redis | `is_allowed`, `allow_request`, `check_rate_limit` | Redis | read-modify-write in several commands, truncated refill, buckets swept | no more than capacity plus refill is let through; windows exceed their limit by no more than the callers at work |
| Stream transport (`streaming/`) | sessions, tokens, rooms, windows, acknowledgements, reconnection tasks | connect, disconnect, send, ack, reconnection, heartbeat and clean-up loops | sockets | reconnect, disconnect and clean-up race around their awaits | tables agree, what is in flight is bounded, loops end |
| Routing and fallback (`orchestration/`, `orchestrator/router.py`, `core/models/`) | endpoint records, chains with breakers, learnt scores | select, start/end, record, execute a chain, route | providers | selection and counting are separate calls; endpoints come back under their id | load goes with the request, a model is passed over for cause, the primary is tried again |
| Reliability library (`reliability/`) | rolling-window breaker, retries behind a bulkhead, deadlines | `call`, `execute`, `execute_with_timeout` | any coroutine | results from an earlier period, slots kept through pauses, nested deadlines | slots and pauses bounded, nested deadlines never later, no refusal lasts |
| Event WebSocket server (`ws_handlers/`) | connections with tenant, user and conversation indexes | connect, authenticate, disconnect, broadcast, heartbeat, shutdown | sockets | a connection changes its tenant; three parties drop it | the index is right for everyone who did not change |
| HTTP chat API and provider adapters (`api/chat.py`, `providers/`) | per request: the adapter's attempts and the messages it sends | `chat_completion`, `complete`, `stream`, `merge_streams`, `buffer_stream` | vendors | errors mapped three times on their way; a merged stream that raises | the status tells what went wrong, turns are whole, chunks in order |
| Caches by similarity and key (`cache/semantic_cache.py`, `cache/cache_key_generator.py`) | local LRU, table, key index | get, put, clear, find_similar_key | Redis | local tables changed beside awaits; patterns matched while entries are stored | tables agree, a clear takes its own entries |
| Usage, tenancy and cost (`tenancy/`, `finops/`) | counters in Redis; entries, sums, tiers, invoices | track, summarise, bill, pay, advise | Redis | counters added to one after another, expiring while read | invoices are right, the advised tier is cheapest |
| Infrastructure (`infrastructure/`) | regions, routing table, experiments, deployments, pool, socket server | health loops, failover, chaos, deploy, acquire/release, connect/join | Redis, sockets | loops and experiments write back what they read before a wait | one primary, pool within limits, sockets listed where they are |
| Enterprise integrations (`integrations/enterprise_platform.py`) | chat sessions, webhooks, deliveries | create, send, trigger, worker, retry worker | Redis, database, HTTP | queue in memory beside a log in a table; restarts | what is logged as delivered was, nothing is forgotten without a restart |
| Front end chat page (`src/frontend/hooks/`) | message list, loading flag, streaming reference | send, stream frames, stop, reload | HTTP API, WebSocket | updaters run when React renders | a chunk is shown once, loading has a cause |

The remaining parts (HTTP middleware, authentication, database layer, schemas,
telemetry, SDK, deployment and benchmarks) are listed in `PROJECT.json` with the
reason each is left out: they keep no state across awaits, only move data, or are
glue to services. "Not modelled" below says the same of parts of the components above.

In the running server (`server/main.py`) the live paths are the HTTP chat API, the
WebSocket endpoint with its manager and session handler, and the Redis cache; the
orchestrators, the reliability, routing and streaming libraries, the infrastructure,
the integrations and the tenancy services are importable and tested, but not
installed there. Where a property below says "everyone who did not ...", the code
breaks the plain statement and no document of the repository claims it: the
exception is part of the property and listed under "What the code does".

## Modules

| Module | Models | State and actions in the code |
|---|---|---|
| `BreakerOps` | methods of `CircuitBreaker` as functions on a record | `Breaker` is the object's fields; `Admit`, `record_success`, `record_failure` are its methods; time is one bit, `elapsed` |
| `CircuitBreaker` | `call` by concurrent tasks | `Begin`/`Blocked` is the first locked part, `Succeeds`/`Fails`/`RaisesOther` the end of the guarded function |
| `BreakerContract` | what a breaker promises, without its counters | abstract; `CircuitBreaker` implements it (`KeepsContract`) |
| `ProviderOrchestrator` | `complete` and `complete_stream` over breakers that are `BreakerOps` records | `Iterate` is one pass of the retry loop; `Answers`, `Raises`, `Chunk`, `StreamEnds`, `StreamBreaks`, `Cancel` end its awaits; a generator may end anywhere, which the code takes for the end of the answer; `delivered` is what the consumer was given |
| `FailoverService` | what failover promises a client | abstract; completions implement it (`KeepsFailoverPromise`) |
| `WebSocketManager` | connections, index, lock, loops | `lock` is the FIFO queue of an `asyncio.Lock`, its head the holder; `phase` is where each endpoint is; `loop` where the two background tasks are |
| `ChatSession` | one connection's reader and answer tasks | `entry` is `active_streams.get(id)`, `stopped` a `Task.cancel()` not yet delivered, `Finally` the finally clause |
| `RedisCache` | cache calls as Redis commands | `data`, `meta`, `tag` are the Redis keys with times to live, `call` the local state of each coroutine, `Fault` a failing command; a clear by pattern is any number of `ScanPage` and `DelPage`, each with any of the names that exist (data, metadata, the tag's set), as the pattern is the caller's; `raced` and `torn` are history: what a write met beside it, what pages took from an entry |
| `RequestOrchestrator` | `complete` and `complete_stream` of `orchestrator/orchestrator.py` | the checks before the provider call are one step; `calling` and `pausing` are its awaits; reset and clean-up loops, stop and start are actions. `stamps` are the rate windows as sets (a stamp carries the request that left it), `semantic` the list of similar contents by the order in which they came, `loops` when each reset loop last turned; `admitted`, `answered` and `calls` are history |
| `TokenBucket` | the in-process buckets: whole tokens, fractions, swept, with bursts | one action per limiter's `allow`; `used` is history |
| `SlidingWindow` | windows in memory, as Redis commands, as a script, as a hash | one action per command; `passed` is history; `MayPass` is what each kind may let through |
| `RollingBreaker`, `Bulkhead`, `Deadlines` | `reliability/`: breaker, retry executor behind a semaphore, nested timeouts | `calling`, `at` and `stack` are where each coroutine is; results carry their ages |
| `LoadBalancer` | `orchestration/load_balancer.py` and `orchestrator/router.py` | select, `mark_request_start`, `mark_request_end`, add, remove and check are actions of their own |
| `FallbackChain` | `orchestration/fallback_manager.py` | a request walks the chain; each model has its breaker |
| `ModelRouter` | `orchestration/model_router.py` | `route` as a function of request and profiles; reports change the profiles |
| `ModelFactory` | `core/models/` factory and fallback handlers | `asks` is what a request did to each vendor, `circuit` the shared handler's |
| `ChatCompletion` | `api/chat.py` over the adapters' `complete` | `sent` is what the vendor gets, message by message; errors are mapped as in the code |
| `ProviderStreams` | adapter streams, `merge_streams`, `buffer_stream` | one task per stream, one queue, one consumer |
| `CacheKeys` | `cache/cache_key_generator.py` with the clearing of `api/chat.py` | keys are the fields they are made of; a clear is a scan of Redis keys |
| `SemanticCache` | `cache/semantic_cache.py` | every Redis command is two moments; the local order and table change between them |
| `Reconnection`, `Backpressure`, `StreamSessions` | `streaming/` | calls with their awaits, loops, the session and token tables |
| `EventSockets` | `ws_handlers/` | connections, tenant index, heartbeat and shutdown |
| `ScalableSockets`, `RoomQueue` | `infrastructure/websocket_scalable.py`: sockets with rooms and presence; queued room messages | every handler is a task with its awaits; a presence message stores any word. A push or a removal may be repeated (`retry_on_timeout`): `nth` tells the copies of a message apart; `missed` is history, what was emitted to a socket that had gone or lapsed with its list |
| `ConnectionPool` | `infrastructure/connection_pool.py` | acquire and release around a lock and an await; its breaker |
| `MultiRegion` | `infrastructure/multi_region.py` | rounds of health checks, failover tasks; the configuration may flag any set of regions as primary, none included |
| `GlobalRouting` | `infrastructure/global_routing.py` | the routing table and everyone who writes it: health and capacity loops, chaos experiments; deployments. A client is a place: its distance to each region, or none without a GeoIP database |
| `Webhooks` | chat sessions and webhooks of the integrations | `row` is the log in the database, `queue` the list in memory; every call to the database may fail, the update after a post and that of its failure included (`Unmarked`) |
| `Billing` | `finops/` | entries, day and month sums, invoices; what is computed are operators |
| `UsageMetering` | `tenancy/usage_tracker.py` | Redis counters, one command per step |
| `ChatPage` | the chat page's hooks | `pending` are the state updaters React has not run; the server's streams (`ws_handlers.py`) are over-approximated: any number side by side, ending in any way |
| `CircuitBreakerProofs`, `ProviderOrchestratorProofs`, `WebSocketManagerProofs`, `RedisCacheProofs`, `RequestOrchestratorProofs` | theorems of one module each, as at the end of `ChatSession` | see "What is proved" |
| `PartsProofs` | theorems of `TokenBucket`, `ConnectionPool`, `Bulkhead`, `Backpressure`, `RoomQueue`, `MultiRegion`, `LoadBalancer`, `FallbackChain`, `ModelFactory`, `Deadlines` and `SemanticCache`, as instances over constants without values | see "What is proved" |
| `ServicesProofs` | likewise of `EventSockets`, `StreamSessions`, `ScalableSockets`, `Reconnection`, `Webhooks`, `GlobalRouting`, `CacheKeys`, `ChatPage`, `ChatCompletion` and `ProviderStreams` | see "What is proved" |
| `MCProviderOrchestrator`, `MCChatSession`, `MCRequestOrchestrator` | values of the constants for TLC | |
| `MCParts` | parts that share no state with one another, side by side, as two suites with a specification each: `Resilience` and `Services` | a behaviour is one of a single part (`part`), so the state spaces add up instead of multiplying; the variables `a`, `b`, ... are lent to the part that runs |

`ProviderOrchestrator` composes the failover loop with `BreakerOps`, the same
operators `CircuitBreaker` is checked and proved with. The manager and the session
meet in two places: `Hangup` and `Leave` in `ChatSession` stand for what
`WebSocketManager` does to a connection (`Notice`, `Forget`), and the endpoint's
clean-up appears in both (`Cleanup` there, `Break` and `Returns` here). They are
kept apart because sessions share nothing in the handler but the registry, and a
connection's place in the registry does not depend on its streams.
Other parts that meet in the code are composed inside a module: the bulkhead is
modelled with the retry executor it runs, the fallback chain with its breakers, the
pool with its breaker, the chat endpoint with its adapters, merged streams with the
adapters' streams, webhooks with the chat sessions that trigger them, invoices with
the counters they are made from, and chaos experiments with the routing table
they and the health loop write.

## What the runs check

| Run | Instance | Shows |
|---|---|---|
| `circuit_breaker` | 3 tasks, threshold 2, 2 trials, at most 6 counted failures | types, trial limit, refinement of the contract (results are counted in their period); an open breaker that callers keep trying is tried again |
| `failover` | 2 providers, 2 completions, 1 stream of 2 chunks, 1 retry, threshold 2 | counters add up with the requests in flight, a stream that breaks off starts over and is never resumed in the middle, no attempt is wasted, the failover promise, every request ends |
| `websocket_manager` | 3 connections (2 of one user, one without a token), 2 places | limit across the handshake, index, loops restarted in time, no connect hangs, dead connections go |
| `chat_session` | 3 chats (one of 2 chunks, one not streamed), history limit 1 | answers whole, the entry is a live stream, nothing re-enters after clean-up, silence after cancel, streams end |
| `redis_cache` | 3 coroutines, 1 key with its tag, 2 values, life 2, threshold 2 | undisturbed entries stay readable and findable by tag, but for what a clear by pattern takes of them; the breaker's count and state agree |
| `requests` | 3 completions (two with one idempotency key, of one tenant) and a stream, 1 provider, limits 2 in all, 1 a tenant, 1 a minute for the provider, 1 restart | the rate windows and the provider's share hold up to what the resets allow, a stored answer is replayed, every request ends |
| `resilience` | the suite `Resilience` of `MCParts` | `LimitsHold`, `NothingLeftBehind`, `ChoicesAreSound`, `RefusalsEnd` |
| `services` | the suite `Services` of `MCParts` | `LimitsHold`, `RecordsAreTrue`, `LoopsEnd` |

The properties of the last two runs are cases by part. What each part owes:

| Part (module) | Properties |
|---|---|
| `breaker` (`RollingBreaker`) | an open breaker that is asked is tested (`RefusalsEnd`) |
| `bulkhead` (`Bulkhead`) | `WithinSlots`, `CountIsHolders`, `LineIsWaiting`: no more at work than slots, the count is that of the holders, the line that of who waits; who waits is served |
| `retries` (`Bulkhead`) | `PausesWithin`: each strategy's pause keeps to the limits, but for the jitter |
| `deadline` (`Deadlines`) | `NestedEndFirst`, `DeadlineIsLive`, `EventsTell`: a nested call is never due later, no call is bound by the deadline of one that has ended, events tell what happened |
| `balancer` (`LoadBalancer`) | `NoLoadLeftBehind`, `SidelinedForCause`: load is that of requests under way, an endpoint is out only for failures enough or because it was taken out |
| `chain` (`FallbackChain`) | `SkippedForCause`; the primary is tried again |
| `factory` (`ModelFactory`) | `AsksBounded`, `FailsAfterBoth`, `NamedModelAnswers`; the shared circuit closes again |
| `router` (`ModelRouter`) | `DecisionFits`, `FailuresStandBehind`: what is chosen fits the request by its strategy's own filter, and a model that failed ranks behind |
| `bucket` (`TokenBucket`) | `UsedIsCovered`: what was let through is covered by capacity and refill |
| `sliding`, `fixed` (`SlidingWindow`) | `WindowHolds`: no window lets through more than its limit but for callers at work together |
| `pool` (`ConnectionPool`) | `EveryConnectionCounted`: idle, lent and being made are what the pool counts |
| `failover` (`MultiRegion`) | `OnePrimary` (no failover flags a second region), `UnhealthyForCause` |
| `global`, `traffic`, `chaos`, `rollout` (`GlobalRouting`) | a region that answers becomes a candidate again and one that is down ceases to be; `SessionsStay`; `ReportsAgree`; `DeploymentsEndWhole` |
| `chat` (`ChatCompletion`) | `AskedAsNeeded`, `StatusTells`, `TurnsAreWhole` |
| `merge` (`ProviderStreams`) | `NoTaskLeft`, `MergedInOrder`; a merge ends once its streams have |
| `bills` (`Billing`) | `SumsMatchEntries`, `BalanceIsOwn`, `AdviceIsCheapest`, `SavingsWithinCost` |
| `keys` (`CacheKeys`) | `IndexHolds`, `ClearedAreGone`, `UnreadableForCause`, `ClearTakesItsOwn`, `SimilarIsCached` |
| `reconnection` (`Reconnection`) | `ReconnectingIsPursued`: a session that is reconnecting has a loop at work on it; the loop ends |
| `flow` (`Backpressure`) | `InFlightBounded`: by the window and the senders at work |
| `stream` (`StreamSessions`) | `LimitHolds`, `MemberIsInRoom`, `TokenLeadsHome`; stale connections are dropped |
| `events` (`EventSockets`) | `IndexMatches`; dead connections are dropped |
| `scalable` (`ScalableSockets`) | `SocketIsListed`, `PresenceIsRight`; silent sockets are dropped |
| `queued` (`RoomQueue`) | `NoneLostUnread`, `GivenOnce` |
| `webhooks` (`Webhooks`) | `DeliveredWasTaken`, `NoneForgotten`, `StartIsPostedFirst`; a failed delivery is delivered or given up |
| `metering` (`UsageMetering`) | `InvoiceIsRight`, `CountersAgree` |
| `answers` (`SemanticCache`) | `OrderMatches`, `QueriesAddUp`, `GoneStaysGone` |
| `page` (`ChatPage`) | `LoadingHasCause`, `ChunksShownOnce`, `NoneShownEarlier`, `ListIsSound` |

The comment above each property in its module says it in full, with the exceptions
the code forces.

Runs that end in a counterexample, each a disagreement between the code and its
own comments (`findings` in `PROJECT.json`):

| Run | Claim | What happens |
|---|---|---|
| `breaker_half_open_verdict` | half-open tests whether the service has recovered | successes and unexpected exceptions use up `half_open_calls`: the breaker refuses every call for ever |
| `recovery_is_tested` | after the timeout the service is tested | open breakers are filtered out before the only code that looks at the timeout; all providers tripped means `no_providers` until a restart |
| `superseded_chat` | a stream that stops silently was cancelled | the finally clause of a cancelled stream removes the entry of its successor, which then takes itself for cancelled |
| `cache_breaker` | the cache's circuit opens for failures of Redis | data and metadata of different writes fail to decode, which counts as a failure of Redis |

### What the code does

Behaviour the models have because the code has it, and that a reader of the code
may not expect. The repository says nothing of these, so no run refutes a claim;
the properties state what holds all the same.

- `RollingBreaker`: a success from before the opening closes the breaker and leaves
  the failures in its window; the next request opens it again.
- `Bulkhead`: `retry_on_timeout` is ignored under the default retryable classes, and
  jitter is added after the cap.
- `LoadBalancer`: an endpoint added again under its id has an empty record, so its
  error rate can pass 1; the adaptive strategy never again picks an instance whose first
  request failed while another scores; a model `orchestrator/router.py` has taken out
  does not come back by later successes.
- `ModelRouter`: the adaptive strategy's average latency starts at 0.
- `ProviderOrchestrator`: whatever ends a provider's generator ends the stream as served,
  an answer cut short or empty included (`streaming_mixin.py` ends on errors too).
- `RedisCache`: `invalidate_cache` deletes the names of each page of a SCAN. A pattern that
  matches `<key>:meta` or `tag:<model>` and not the entry, or whose pages come in that order,
  leaves entries that cannot be decoded or found by their tag.
- `GlobalRouting`: proximity (40 points) outweighs a session's bonus (25): a client that moves
  1,300 km nearer to another region may leave the one his session is in.
- `RoomQueue`: an emit to a socket that has gone returns like any other and the message is
  removed, although the code speaks of "guaranteed delivery" (line 111) and removes "after
  successful delivery" (line 657); a message whose EXPIRE failed goes with the list's older
  ones; a push whose reply timed out is repeated, so that two copies are delivered.
- `ScalableSockets`: a presence message of a client may say "offline" while he is connected.
- `Webhooks`: a delivery after whose post the database fails twice stays in the log as
  neither delivered nor failed and is not tried again.
- `MultiRegion`: several flagged regions stay flagged; with none, the primary is not flagged.
- `ChatPage`: chunks of an answer are shown with a later question, if that streams.
- `GlobalRouting`: experiments watch the regions only after the mark was put back, and
  downed regions report nothing and count as healthy; a canary cannot be rolled back
  (`_rollback_canary` is unreachable), the blue-green "rollback" reverts nothing, and
  a rolling deployment goes to regions that are not in the table.
- `MultiRegion`: `test_failover` never reports success.
- `EventSockets`: after authentication a connection is listed under the tenant it came
  with, and stays in that tenant's index when it is gone.
- `StreamSessions`: on a reconnection what is queued is written to the new socket before
  it is accepted, which the framework refuses: a session with anything queued cannot be
  taken up by its token.
- `ScalableSockets`: nobody is told that a user went offline, because the session was
  taken out of the room first; a socket overtaken by its disconnect stays in the table.
- `SlidingWindow`: a fixed window is opened again by each caller that saw none.
- `Billing`: at the thresholds of the discounts more usage costs less.
- `CacheKeys`: the pattern of a clear misses keys without a user but deletes their
  metadata; `find_similar_key` ignores user and temperature and takes model names
  that contain one another for equal.
- `Webhooks`: a trigger hands every user's events to the endpoints of all webhooks.

### Bounds

Three tasks at a breaker are one that trips or tests it and two that report late,
the smallest number with late results of both kinds; periods repeat without bound,
and `MaxFailures` only bounds a counter the code never reads above its threshold.
Two providers and one retry give every outcome of the loop: another provider, none
left, retries used up, a half-tried set; the stream of two chunks can break off
before, between and after them. Three clients for two places reach the refusal, a
shared and a single user, and a place given on by a disconnect. Three chats are a
cancelled one, its successor and a third that meets the successor's missing entry.
Three coroutines on one key are a writer, a second writer or reader, and an
invalidation (they are alike: the run uses their symmetry, which is sound for its
invariants); the keys of the cache share only the tag set and the breaker, and a
life of two units separates an entry's data, its metadata and its tag's set in age.
Two keys or a longer life pass on smaller instances but exceed a practical run.
Time is one bit where the code compares it with one timeout, and a small number
where ages are compared with each other.

In `requests` a minute is 2 units, a day 3 and the clock stops at 3 (`MaxClock`), so that
windows end, ages wrap at a day and a reset falls inside a window; one restart (`MaxStarts`)
leaves two reset loops. In the two suites each part has two actors where its hazards are
between two, three for the pool and four for the bulkhead (two holders, two waiters, which
makes the order of waiting visible); limits are 1 or 2, so that they are reached; thresholds
are 2, so that one failure is not enough. Both windows of `SlidingWindow` are long enough
for the history to reach `MayPass`. In `queued` one of two messages expires, the other is
pushed twice, and one of two sockets leaves (`QueuedBound`); in `webhooks` one post goes
untold (`HooksBound`), in `metering` one of two calls fails (`MeteringBound`), and `bills`
has three entries and bills together (`BillsBound`). The bounds of the models, all named in the
`CONSTANTS` of their module with the comment "bound of the model", are: `MaxClock` and
`MaxDay` (at or past the end of the last window, deadline or counter's life that matters),
`Infos`, `MaxCalls`, `MaxEntries` and `MaxInvoices` (one registration, entry or bill after
another), `Tokens` (a token for either session), `MaxSent` and `MaxDrains` (more than the
window twice over), `MaxDepth` (a call in a call), `MaxRestarts`, `MaxStarts` and
`MaxReloads` (once), `MaxQueue` (a copy more than there are deliveries), `MaxPending` and
`MaxChunks` (one change waiting for a render, one chunk), `MaxMessages` of the chat endpoint
(three), `MaxResults`, `MaxResponse` (two of what experiments add), `MaxReports` and
`MaxAge` (two reports, past what is kept of the history). Durations, capacities and
histories of the code are constants scaled down in their proportions. No duration that the
request orchestrator compares with `timedelta.seconds` is longer than a day, as in the
code (a minute, an hour, 24 hours); a longer one would never expire. Prices and tiers are
the code's own tables.

### Fairness

Weak fairness is assumed only for steps the event loop or a bounded wait owes: a
task that can run is run, a provider's client times out, an `asyncio.Lock` serves
its waiters in turn, a closed socket is noticed by the reader. Clients are
not fair: they may connect, send, hang up or do nothing. Nor are the manager's
background loops: dead connections go without them.
`OpenIsRetried` assumes that callers keep calling. Without that assumption an idle
open breaker stays open, as the code has no timer. The suites assume the same of
their parts: a coroutine that can run does, a loop that is started makes its rounds,
time passes, and who was refused asks again. One connection stands for all in
`LoopsEnd`, as the loops treat connections alike. `Webhooks` assumes that a database which
fails does not fail for ever (strong fairness of the marked ends of a post); in the run the
bound of one untold post stands for it. Calls of clients, hang-ups, failures,
experiments and operators are not fair anywhere.

Deadlock checking is off where the system may really stop: all requests served,
the connection gone, all clients gone. A behaviour of a suite stops when its part does.

## What is proved

The theorems hold for every number of tasks or chats and every threshold, limit and
answer length that the named assumptions allow (`BreakerAssumption`:
threshold and trial limit are positive; `SessionAssumption`: the history is cut to
no more than its limit, and the entry's "none" is no chat; `ManagerAssumption`: the
sockets are finitely many and no loops; `CacheAssumption`: there is a key, tagged keys
and large values are keys and values, life and threshold are positive;
`OrchestratorAssumption`: the providers are finitely many, streams are requests, an
answer has a part; `RequestAssumption`: the limits are numbers and those that a request
must stay below positive, and the times to live are no longer than the day at which
`timedelta.seconds` wraps). Requests need not be finitely many. The theorems about
the parts that are instantiated several at a time state their assumptions
themselves, under a name ending in `Numbers` or `Names`: limits, thresholds and
durations are numbers, those that must be are positive (`BucketNumbers`, `BulkNumbers`,
`LoadNames`, `FallbackNames`, `FactoryNames`, `TimeoutNames`, `PageNumbers`,
`ApiNames`, and the threshold of the regions); the pool starts with no more than it
may have (`PoolNumbers`); the first window is open and no larger than the limit
(`FlowNumbers`); a clean-up of the key index drops some keys and no more than all
(`KeyNumbers`); regions are numbered, sessions are kept to regions and the measurements
are numbers (`RegionNames`), a deployment has a target (`RolloutNames`); and "none" is no
tenant, session, key, name or number (there, and in `EventNames`, `StreamNames`,
`SocketNames`, `AgainNames`, `HookNames`). Finitely many are the callers of the stream
sessions and of the semantic cache, the senders, the webhooks' sessions, the balancer's
requests and the merged streams, because something counts them.

`CircuitBreakerProofs`: type correctness, `TrialsBounded` and the three facts about the
counters it rests on (`ClosedBelowThreshold`, `SuccessesBelongToPeriod`, `TrialsCounted`), and
the refinement `Spec => Contract!Spec`. The inductive invariant `IInv` is these five
with `NoTrialsOutside`, that the history variable `admitted` is 0
unless the breaker is half-open; without it a breaker could become half-open with
trials already counted and `TrialsBounded` would not be inductive. One lemma per
method says what it does to a well-typed breaker, one per action that it preserves
`IInv`. The refinement is by cases on the action: a result reported while the
breaker is open, or a refused call, is a stutter of the contract.

`ProviderOrchestratorProofs`: type correctness, `CountersAddUp`, `StreamsStartOver`,
`NoAttemptIsWasted`, `EachAttemptAnotherProvider`, and the refinement of `FailoverService`
by the orchestrator with its breakers and counters. `IInv` adds to these what none of them
says: no breaker is ever half-open (so every breaker the loop chooses is closed and admits
the call, which is why no attempt is wasted and why the promise holds); the requests in
`total_requests` and no other counter are finitely many, though there may be infinitely many
requests, so that one counter's step changes their number by one; what a consumer was given
ends with what the attempt that runs has given, if anything (`AnswersInTurn`), whatever broken
streams gave before it; and a request is where its kind of call can take it. The
lemmas follow the loop: one says what a pass can come to, one each what leaving it and
what an error mean, and each action is a case of these.

`RequestOrchestratorProofs`: type correctness, `WithinLimits`, `ShareIsBounded` and the action
property `RetryIsReplayed`. The properties speak of history, what happened within a minute
or a time to live; the code keeps windows that are pruned by whoever comes, a store from
which expired answers are deleted, and counters that loops reset. The invariant ties the two
together. A request counted as admitted still has a stamp of its own (`Windows`), as pruning takes
only stamps that are older than the minute; the global window never exceeds its limit, so the stamps of
distinct requests bound how many were admitted. An answer within its time to live is stored, or
a later one of the same key is (`Replays`), and as no time to live exceeds a day, the age that
`.seconds` gives is the true one. What a provider was given since any moment of the last
minute is at most its counter and a full share for every loop that has turned since or
ended (`Shares`): a loop does not turn twice within a minute, and that is also why the claim
must be made for every moment and not only for the last minute.

`ChatSession`: type correctness, `CompleteIsWhole`, `EntryIsLive`,
`GoneIsForgotten` and the action property `SilentAfterCancel`. The inductive
invariant `SessionInv` adds three facts: a stream that was told cancelled is stopped
(so the steps that write are disabled for it), nothing is stopped before its task
exists, and a stream that has its last message writes no more.

`WebSocketManagerProofs`: type correctness, `WithinLimit`, `UsersMatch` and
`LoopsWatch`, for every finite set of sockets, every assignment of users and every
limit. `ManagerInv` adds what the lock is for: a socket between the limit's check and
its welcome is the holder (`ConnectsExclude`), there is still room for it
(`RoomForAccepted`), and a connection being closed is still registered
(`ClosingIsActive`, without which removing it from its user's set could raise). Lemmas
say that asking for the lock never changes its holder, and that adding to and dropping
from the index follow the registry.

`RedisCacheProofs`: type correctness, `CountMatchesState`, `CleanEntriesAreReadable` and
`TagFindsEntries`, with any number of coroutines, keys and values. The two last are not
inductive: they speak of entries nobody is writing. `CacheInv` says what holds on the
way, while a key's last write is undisturbed. Its writer is alone with the key and no
invalidation is at work (`WriterIsAlone`), so what is stored after the first command is
the writer's own (`DataIsWriters`); from the tag on the entry is whole
(`WrittenIsWhole`): large values have metadata that lives at least as long, others have
none that says compressed. The tag has the key from its SADD on (`TagHasWritten`), and
afterwards lives as long as the data (`TagHasLiving`). An invalidation by tag takes the
members before the tag (`MembersGoFirst`), from what it found some commands ago: a write
since then has begun beside it and is marked. What a page of a clear by pattern takes of an
entry and leaves the rest is in `torn`, and that is the only exception. One lemma per
command, one for time.

`PartsProofs`, of parts that share no state, each for any number of actors:

- `BucketIsCovered` (`TokenBucket`): no more is let through than the bucket held and what
  has flowed in. The invariant adds that what is left and what was used balance with the
  inflow up to the last refill (`CameIn`); rounding down, refusals and reports keep it, and
  so does dropping an idle bucket, if it would have been full by then.
- `PoolCounts` (`ConnectionPool`): types and `EveryConnectionCounted`. A connection's way
  is one of a number of users who hold one, so the invariant needs only that creating
  is exclusive and was begun with room (`CreatesLocked`); `PoolStep` says that a user
  takes along as many connections as the pool counts, and every action is such a step.
- `BulkheadHolds` (`Bulkhead`): `WithinSlots`, `CountIsHolders` and `LineIsWaiting`. The three
  need each other: a slot is given to the head of the line, who must be somebody that
  waits, and a caller that goes away must be in the line once.
- `FlowIsBounded` (`Backpressure`): types and `InFlightBounded`. The bound is not
  inductive, as a sender is let in before its message counts. `FlowCounts` has senders at
  work beside the messages sent: each of them was let in when there was room, and there
  are no more than all senders; what a reset leaves under way counts for nobody.
- `QueueLosesNothing` (`RoomQueue`): `NoneLostUnread` and `GivenOnce`. Every reader has given
  a front part of the list it has read and removes only what it has given or what was missed
  (`Reader`), no copy is in the queue twice, and what is in it was pushed (`QueueSound`); as
  removals are by value, they may take either copy, and the first of the two that were given.
- `RegionsStaySound` (`MultiRegion`): the primary is flagged if any region is, none is flagged
  that was not at first, but for the primary, and a region is unhealthy only with the threshold's failures, which is inductive together with the types.

- `LoadIsTrue` (`LoadBalancer`): types, `NoLoadLeftBehind` and `SidelinedForCause`. What an
  endpoint is charged with is compared with the requests that run there and those that
  have ended there (`Charged`): an endpoint added again starts from nothing, so the
  charges are bounds and no equations, and a request that ends late may lower them further.
- `ModelsAreSkippedForCause` (`FallbackChain`): types and `SkippedForCause`. A breaker that
  is not closed has as many failures as the threshold (`Tripped`); what a request skips
  before it comes to a model is found by the least place at which a breaker lets it pass.
- `RequestFallsBackInOrder` (`ModelFactory`): types, `AsksBounded`, `FailsAfterBoth` and
  `NamedModelAnswers`. `Asking` says of each stage of a request how often each vendor was
  asked until then, the direct attempt and the shared circuit included.
- `NestedCallsEndFirst` (`Deadlines`): `DeadlineIsLive` and `NestedEndFirst`. Every call on
  the stack keeps what it was given (`EndsInside`), through timeouts and errors that unwind it.
- `GoneAnswersStayGone` (`SemanticCache`): `QueriesAddUp` and `GoneStaysGone`. What is gone is
  known to no table and held by no call (`AnswersInv`); the queries that are neither hits nor
  misses are those of callers between two commands, counted as a finite set.

The lemmas they share count who is at a place as one moves (`OneMoves`) and say what joining
and leaving do to a line (`LineGrows`, `LineShrinks`).

`ServicesProofs`, in the same way, of what serves clients and regions:

- `TenantIndexMatches` (`EventSockets`): types and `IndexMatches`. A connection that is not yet
  accepted is in no table, and later its tenant is the one it came with or the one an
  authentication gave it (`Indexed`); so what a removal fails to find has changed its tenant,
  and nothing else is left in the index.
- `TokensAndRoomsAgree` (`StreamSessions`): types, `LimitHolds`, `MemberIsInRoom` and
  `TokenLeadsHome`. A token on its way to deletion is no connection's, and a disconnection's
  leads to its session or nowhere (`TokensApart`); callers that passed the limit's check count
  beside the connections (`WithRoom`).
- `SocketsAreListed` (`ScalableSockets`): types, `SocketIsListed` and `PresenceIsRight`. How far
  the two handlers of a socket have come, the one that connects and the one that disconnects,
  decides in which tables it may be (`Phase`, `Session`, `Housed`), and all of a
  user's sockets together what his presence says (`Present`).
- `ReconnectionIsPursued` (`Reconnection`): types and `ReconnectingIsPursued`. A loop has an
  attempt before it or under way, or a caller that is to start it has not come back (`Sought`).
- `DeliveriesAreKept` (`Webhooks`): types, `DeliveredWasTaken`, `NoneForgotten` and
  `StartIsPostedFirst`. Every delivery's row, its place in the queue and the worker that posts
  it agree (`Delivery`), whichever calls to the database fail, and a start still to be posted is queued before its messages (`InOrder`).
- `RoutesAndReportsHold` (`GlobalRouting`): `SessionsStay` and `ReportsAgree`. The score is
  bounded by what each term can take from it, proximity included; the parts of a report are related through the
  first sample in which no region fails, a least number.
- `RolloutsEndWhole` (`GlobalRouting`): `DeploymentsEndWhole`. Deployments that start in one
  second share an identifier and overwrite one another's marks: the mark of a success stands,
  or a rolling deployment of the same identifier is at that region once more (`Stands`, `IsAt`).
- `ClearsTakeTheirOwn` (`CacheKeys`): types, `IndexHolds`, `ClearTakesItsOwn`, `ClearedAreGone`
  and `UnreadableForCause`. A pattern finds, among the keys as they are written, those of the
  model and user and no others (`PatternFinds`). What stood when a clear began is found or
  still to be scanned (`StoodIsFound`), what it has found is theirs (`FoundIsTheirs`), and what
  came since was marked as stored beside it (`BesideIsDisturbed`).
- `ChunksAreShownOnce` (`ChatPage`): `LoadingHasCause`, `ChunksShownOnce` and `NoneShownEarlier`.
  The chunks on the
  wire are in their order (`WireInOrder`) and after those the page has (`GotBeforeWire`),
  through cuts that lose the rest of the wire; while a message streams no later question's
  answer is being made or is on the wire (`NoneAhead`).
- `RetriesEndAndTell` (`ChatCompletion`): `AskedAsNeeded` and `StatusTells`. The attempt under
  way is one more than the answers so far, all of which may pass (`CallCounts`).
- `MergeWaitsForAll` (`ProviderStreams`): `NoTaskLeft`, and that a merge that ends by itself has
  heard all its streams end. The counter `active` is the number of streams that run or whose
  end is still in the queue (`Open`), each end being there once.

Proving `SessionsStay` corrected it: as first stated it held on the small instance only. A
region with full load, half its requests failing and slow answers has no bonus left to
keep its sessions; the condition is now the one of the code, a score above 20 without it.

## Only model-checked

Liveness (`OpenIsRetried`, `EveryRequestEnds`, `StreamsEnd`, `ConnectsEnd`,
`DeadAreForgotten`, `RefusalsEnd`, `LoopsEnd`) is out of the prover's reach. The
properties of the two suites (`TypesOK`, `LimitsHold`, `NothingLeftBehind`,
`ChoicesAreSound`, `RecordsAreTrue`) are cases over instances whose constants are fixed
there; what is proved is about the part's own module, for every value of its constants, in
`PartsProofs` and `ServicesProofs`. Of the parts' safety properties these stay with TLC:

- what folds and sums compute over data of any length: `WindowHolds` (`SlidingWindow`),
  the properties of `Billing` and `UsageMetering`, `TurnsAreWhole` (`ChatCompletion`),
  `ListIsSound` (`ChatPage`); proving them takes induction over the data;
- what a filtered sequence holds: `OrderMatches` (`SemanticCache`), `MergedInOrder`
  (`ProviderStreams`), the window of `RollingBreaker`; the library defines the filter by
  recursion over the sequence;
- `EventsTell` (`Deadlines`), which follows the stack by a recursive function;
- `DecisionFits` and `FailuresStandBehind` (`ModelRouter`) and `SimilarIsCached`
  (`CacheKeys`), which rest on rankings of candidates by scores;
- `PausesWithin` and the types of `Bulkhead` (pauses are products and powers of any length)
  and the types of `RoomQueue`.


## Not modelled

In the components above:

- Breaker: `reset` and `force_open` (they use `with` on an `asyncio.Lock` and raise before
  they change anything); `AsyncCircuitBreaker` (unused).
- Orchestrators: selection and routing strategies (one nondeterministic choice among the
  candidates); the request orchestrator's health loop (it reads and logs).
- Connection manager: `broadcast`, `send_user_message`, `queue_message` and
  `flush_pending_messages` (no callers), `shutdown` (called after every endpoint has ended).
- Redis cache: statistics, connection set-up and `warm_cache` (a loop of `cache_response`).
- Rate limiters: the bucket kept in Redis, whose requests overwrite one another's state
  so that no bound on what is let through holds; the enterprise platform's limit,
  whose keys are compared with bytes and never match.
- Streams: message queues of `StreamSessions`; `core/streaming` (stubs).
- `SemanticCache`: cancellation of a lookup, which would pass its handlers uncounted: nothing in
  the repository cancels one.
- `ChatPage`: the library under `useWebSocket`, which is not in the repository; a frame is taken to
  raise one of its events (`useWebSocket.ts` hands three of them to the same handler).
- `CacheMiddleware` (it caches nothing); embeddings and similarity (floating point; a choice).
- `providers/model_factory.py` (it cannot be built); mock and simple adapters.
- Usage and cost: forecasts and trends (floating point); `tenant_middleware` (it imports a
  module that does not exist); records that are written once and never read.
- Infrastructure: AWS calls; session migration and replication (data of other servers);
  `dr_automation` (its constructor raises).
- Integrations: GraphQL and read-only handlers, code samples, SSO.
- Front end: pages without state of their own.

Statistics that only statistics read are left out everywhere. Message contents, model
names, token counts and prices are left out unless a property is about them.

Whole components (see `PROJECT.json`): authentication (single operations of Redis or the
database), HTTP middleware, database layer, schemas, telemetry, SDK, deployment, scripts and
benchmarks: nothing in them is kept across two awaits and read again.

## What is left

The modules and theorems that were planned are written. What would come next:

1. `DecisionFits` for any profiles: the ranking by scores needs the lemma that a finite set
   ordered by a score has a place for each of its members.
2. `WindowHolds` and the sums of `Billing` and `UsageMetering`, once induction over data is
   within the prover's reach.
3. The bucket in Redis, if its commands are made one: as they are, no bound on what it lets
   through holds.
