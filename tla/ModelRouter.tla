---------------------------- MODULE ModelRouter ----------------------------
(***************************************************************************)
(* orchestration/model_router.py: ModelRouter.route reads the task off the *)
(* query's words, picks a strategy from the request and from how many      *)
(* requests it has routed, and the strategy picks a model and up to two    *)
(* fallbacks. Each strategy has a filter and a ranking of its own; the     *)
(* adaptive one ranks by the outcomes it was told of. Units: thousands of  *)
(* tokens, ten-thousandths of a dollar, tens of milliseconds, percent for  *)
(* qualities and thousandths for scores.                                   *)
(***************************************************************************)
EXTENDS Naturals, Sequences, FiniteSets, FiniteSetsExt

CONSTANTS Contexts,   \* the requests that come in
          Measured,   \* the models whose outcomes are reported
          Outcomes,   \* what is reported: success, latency and cost
          None,
          Many,       \* routings after which the adaptive strategy is used
          MaxHistory, KeptHistory,
          MaxReports, MaxAge  \* bounds of the model

VARIABLES history, model_profiles, hist, last
vars == <<history, model_profiles, hist, last>>

(* The models are numbered in list order. *)
_load_model_profiles ==
  LET profile(model, input, output, ms, quality, window, caps, tiers) ==
        [model |-> model, input |-> input, output |-> output, latency |-> ms,
         quality |-> quality, window |-> window, capabilities |-> caps, tiers |-> tiers]
      top == {"enterprise"}
      paid == {"professional", "enterprise"}
      all == {"basic", "professional", "enterprise"}
  IN <<profile("gpt-3.5-turbo", 5, 15, 80, 70, 16, {}, all),
       profile("gpt-4", 300, 600, 200, 90, 8, {"code"}, paid),
       profile("gpt-4-turbo", 100, 300, 150, 95, 128, {"code", "vision", "long_context"}, top),
       profile("claude-3-sonnet", 30, 150, 120, 85, 200, {"code", "long_context"}, paid),
       profile("claude-3-opus", 150, 750, 250, 98, 200, {"code", "vision", "long_context"}, top),
       profile("llama-3-8b", 1, 2, 40, 65, 8, {}, all),
       profile("llama-3-70b", 5, 10, 100, 80, 8, {"code"}, paid)>>

Models == 1..7
Strategies == {"cost_optimized", "performance_optimized", "capability_based", "adaptive"}
Unmeasured == [total |-> 0, won |-> 0, cost |-> 0, age |-> 0]

Init ==
  /\ history = 0
  /\ model_profiles = _load_model_profiles
  /\ hist = [m \in Models |-> Unmeasured]
  /\ last = None

TypeOK ==
  /\ history \in 0..MaxHistory
  /\ \A m \in Models : model_profiles[m].latency \in Nat
  /\ hist \in [Models -> [total : 0..MaxReports, won : 0..MaxReports, cost : Nat, age : 0..MaxAge]]
  /\ last # None => /\ last.request \in Contexts /\ last.strategy \in Strategies
                    /\ last.models \in Seq(Models) /\ Len(last.models) \in 1..3

(* _detect_task_type: the first task of this order one of whose words the   *)
(* query has.                                                               *)
Task(c) ==
  LET order == <<"code_generation", "code_review", "creative_writing", "analysis",
                 "translation", "summarization", "qa", "reasoning", "vision">>
      named == {i \in DOMAIN order : order[i] \in c.words}
  IN IF named = {} THEN "chat" ELSE order[Min(named)]

(* _determine_capabilities; every model generates text. *)
Required(c) ==
  (IF Task(c) \in {"code_generation", "code_review"} THEN {"code"} ELSE {})
    \cup (IF Task(c) = "vision" THEN {"vision"} ELSE {})
    \cup (IF c.tokens > 4 THEN {"long_context"} ELSE {})

Cost(m, c) == c.tokens * model_profiles[m].input + c.answer * model_profiles[m].output
Capable(m, c) == Required(c) \subseteq model_profiles[m].capabilities
Permitted(m, c) == c.tier \in model_profiles[m].tiers
Fits(m, c) == c.tokens <= model_profiles[m].window /\ model_profiles[m].model \notin c.excluded

Eligible(strategy, c) ==
  CASE strategy = "cost_optimized" ->
         {m \in Models : /\ Permitted(m, c) /\ Capable(m, c) /\ Fits(m, c)
                         /\ c.max_cost > 0 => Cost(m, c) <= c.max_cost}
    [] strategy = "performance_optimized" ->
         {m \in Models : /\ Permitted(m, c) /\ Fits(m, c)
                         /\ c.max_latency > 0 => model_profiles[m].latency <= c.max_latency}
    [] strategy = "capability_based" -> {m \in Models : Permitted(m, c) /\ Capable(m, c)}
    [] strategy = "adaptive" -> {m \in Models : Permitted(m, c) /\ Fits(m, c)}

Least(a, b) == IF a <= b THEN a ELSE b

(* The task_boosts of the two models that have any. *)
Boost(m, task) ==
  LET boosts == [code_generation |-> <<20, 25>>, creative_writing |-> <<15, 20>>,
                 reasoning |-> <<20, 15>>]
      model == model_profiles[m].model
  IN IF task \notin DOMAIN boosts THEN 0
     ELSE CASE model = "gpt-4" -> boosts[task][1]
            [] model = "claude-3-opus" -> boosts[task][2]
            [] OTHER -> 0

PerformanceScore(m, c) ==
  LET raised == 10 * (model_profiles[m].quality + Boost(m, Task(c)))
      penalty == Least(200, model_profiles[m].latency)
  IN Least(1000, raised - Least(raised, penalty))

CapabilityScore(m, c) ==
  LET caps == model_profiles[m].capabilities
      wanted == [code_generation |-> "code", vision |-> "vision", qa |-> "long_context"]
      suits == Task(c) \in DOMAIN wanted /\ wanted[Task(c)] \in caps
  IN Least(1000, 5 * model_profiles[m].quality
                 + 100 * (1 + Cardinality(caps \cap Required(c)))
                 + (IF 2 * c.tokens < model_profiles[m].window THEN 100 ELSE 0)
                 + (IF suits THEN 200 ELSE 0))

\* Variant: what was not used lately counts for nothing.
AdaptiveScore_Fades(m, c) ==
  LET h == hist[m]
      rate == IF h.total > 0 THEN (600 * h.won) \div h.total ELSE 6 * model_profiles[m].quality
      cost == IF h.total > 0 THEN h.cost \div h.total ELSE Cost(m, c)
  IN (rate + 4000000 \div (10000 + cost)) \div (1 + h.age)
(* _calculate_adaptive_score: the success rate and the cost of a model that *)
(* was measured, the quality and the estimate of one that was not; what is  *)
(* a day old or more counts for less, down to four fifths.                  *)
AdaptiveScore(m, c) ==
  LET h == hist[m]
      rate == IF h.total > 0 THEN (600 * h.won) \div h.total ELSE 6 * model_profiles[m].quality
      cost == IF h.total > 0 THEN h.cost \div h.total ELSE Cost(m, c)
      recency == IF h.total > 0 THEN 800 + 200 \div (1 + h.age) ELSE 1000
  IN ((rate + 4000000 \div (10000 + cost)) * recency) \div 1000

Badness(strategy, m, c) ==
  CASE strategy = "cost_optimized" -> Cost(m, c)
    [] strategy = "performance_optimized" -> 1000 - PerformanceScore(m, c)
    [] strategy = "capability_based" -> 1000 - CapabilityScore(m, c)
    [] strategy = "adaptive" -> 1000 - AdaptiveScore(m, c)

(* The model with i - 1 others before it; the sorts are stable, so of equal *)
(* models the earlier in the list comes first.                              *)
Ranked(strategy, c) ==
  LET models == Eligible(strategy, c)
      badness == [m \in models |-> Badness(strategy, m, c)]
      before(m) == {n \in models : \/ badness[n] < badness[m]
                                   \/ badness[n] = badness[m] /\ n < m}
      place == [m \in models |-> 1 + Cardinality(before(m))]
  IN [i \in 1..Cardinality(models) |-> CHOOSE m \in models : place[m] = i]

(* A strategy that is asked for by a name nobody knows is the cheapest. *)
_select_strategy(c) ==
  IF c.strategy # None
    THEN IF c.strategy \in Strategies THEN c.strategy ELSE "cost_optimized"
  ELSE IF history > Many THEN "adaptive"
  ELSE IF Cardinality(Required(c)) > 1 THEN "capability_based"
  ELSE IF Task(c) \in {"code_generation", "reasoning", "creative_writing"}
    THEN "performance_optimized" ELSE "cost_optimized"

\* Variant: the fallbacks are the other models of the list.
Chosen_AnyFallback(order) ==
  SubSeq(order \o [m \in Models |-> m], 1, 3)
Chosen(order) == SubSeq(order, 1, Least(3, Len(order)))

(* _record_routing keeps the recent half once there are too many. *)
_record_routing == history' = IF history + 1 > MaxHistory THEN KeptHistory ELSE history + 1

(* With no eligible model route raises and records nothing. *)
route(c) ==
  LET strategy == _select_strategy(c) IN
    /\ Eligible(strategy, c) # {}
    /\ last' = [request |-> c, strategy |-> strategy, models |-> Chosen(Ranked(strategy, c))]
    /\ _record_routing
    /\ UNCHANGED <<model_profiles, hist>>

(* update_history of the adaptive strategy. *)
update_history(m, o) ==
  hist' = [hist EXCEPT ![m] =
    [total |-> @.total + 1, won |-> @.won + (IF o.success THEN 1 ELSE 0),
     cost |-> @.cost + o.cost, age |-> 0]]

(* The profile's latency moves by a twentieth towards what was measured.    *)
update_model_performance(m, o) ==
  /\ hist[m].total < MaxReports
  /\ update_history(m, o)
  /\ model_profiles' = [model_profiles EXCEPT ![m].latency = (95 * @ + 5 * o.latency) \div 100]
  /\ UNCHANGED <<history, last>>

(* A day passes. *)
DayPasses ==
  /\ \E m \in Models : hist[m].total > 0 /\ hist[m].age < MaxAge
  /\ hist' = [m \in Models |-> IF hist[m].total = 0 THEN hist[m]
                               ELSE [hist[m] EXCEPT !.age = Least(@ + 1, MaxAge)]]
  /\ UNCHANGED <<history, model_profiles, last>>

Next ==
  \/ \E c \in Contexts : route(c)
  \/ \E m \in Measured, o \in Outcomes : update_model_performance(m, o)
  \/ DayPasses

(* What a caller may rely on whichever strategy the router took: the model  *)
(* and its fallbacks are of the tenant's tier; they hold the request and    *)
(* are not excluded, but for capability_based; they can do what it needs,   *)
(* but for performance_optimized and adaptive.                              *)
DecisionFits ==
  last # None => \A i \in DOMAIN last.models :
    LET m == last.models[i] c == last.request IN
      /\ Permitted(m, c)
      /\ last.strategy # "capability_based" => Fits(m, c)
      /\ last.strategy \in {"cost_optimized", "capability_based"} => Capable(m, c)

(* The adaptive strategy learns: a model all of whose requests failed,      *)
(* however cheap and lately used, stands behind each model it could take    *)
(* that never failed, however dear and long unused.                         *)
FailuresStandBehind ==
  LET failed == {m \in Models : hist[m].total > 0 /\ hist[m].won = 0}
      proven == {n \in Models : hist[n].won = hist[n].total}
  IN \A c \in Contexts :
       \A m \in failed \cap Eligible("adaptive", c), n \in proven \cap Eligible("adaptive", c) :
         AdaptiveScore(m, c) < AdaptiveScore(n, c)
=============================================================================
