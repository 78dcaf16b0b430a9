--------------------------- MODULE GlobalRouting ---------------------------
(***************************************************************************)
(* infrastructure/global_routing.py: the table of regions that             *)
(* route_request scores, written by the health loop one region after       *)
(* another, by the capacity loop, and by chaos experiments, which mark a   *)
(* region, put the mark back after a wait and then watch what the regions   *)
(* report. The loops keep what they learned across their awaits. `up` is    *)
(* what the regions are in truth. Deployments to the regions keep a table   *)
(* of their own. Response times are seconds.                                *)
(***************************************************************************)
EXTENDS Naturals, Sequences, FiniteSetsExt

CONSTANTS Regions,      \* 1..n, in the order of the table
          Experiments, None,
          Metrics,      \* what the metrics of a region may say, "ok" or "slow"
          Duration, Goal, \* samples of an experiment; those 60 seconds take
          Sticky,       \* session -> the region its name hashes to
          Places,       \* of clients: region -> points of proximity, 0..100
          Deployments,  \* 1..n, by start
          Targets,      \* lists of regions to deploy to; 0 is no region of the table
          Rounds,       \* of a canary: 5, 25, 50 and 100 percent
          MaxResponse   \* bound of the model on what experiments add

VARIABLES up, health, response, at, seen, experiment, load, deployment, deployed
vars == <<up, health, response, at, seen, experiment, load, deployment, deployed>>
table == <<up, health, response, at, seen, load>>
rollout == <<deployment, deployed>>

Idle == [kind |-> None]
(* What the metrics of a region say: percent of its capacity and of errors, *)
(* answers above half a second, and in how many seconds it recovered.       *)
Unused == [load |-> 0, errors |-> 0, late |-> FALSE, recovered |-> None]

Init ==
  /\ up \in [Regions -> {"ok", "slow", "down"}]
  /\ health = [r \in Regions |-> "healthy"]
  /\ response = [r \in Regions |-> 0]
  /\ at = 0 /\ seen = None
  /\ experiment = [e \in Experiments |-> Idle]
  /\ load = [r \in Regions |-> Unused]
  /\ deployment = [d \in Deployments |-> Idle] /\ deployed = {}

TypeOK ==
  /\ up \in [Regions -> {"ok", "slow", "down"}]
  /\ health \in [Regions -> {"healthy", "degraded", "unhealthy"}]
  /\ response \in [Regions -> 0..MaxResponse]
  /\ at \in Regions \cup {0}
  /\ seen \in {None, "healthy", "degraded", "unhealthy"}
  /\ \A e \in Experiments :
       \/ experiment[e] = Idle
       \/ experiment[e].kind \in {"failure", "latency"} /\ experiment[e].region \in Regions
       \/ experiment[e].kind = "watching" /\ Len(experiment[e].data) <= Duration
       \/ experiment[e].kind = "ended"
  /\ \A d \in Deployments : deployment[d].kind \in
       {None, "blue_green", "canary", "rolling", "success", "raised"}

(* The regions route_request chooses among; with none it raises. *)
Candidates == {r \in Regions : health[r] # "unhealthy"}

Lack(n) == IF n > 100 THEN 0 ELSE 100 - n

(* Thousandths of a point. A place is what the GeoIP database tells of the  *)
(* client: a point less for every 100 km to a region, and without database  *)
(* or entry no points at all. Distances are kept in whole points.           *)
RegionScore(place, r) ==
  (place[r] * 4 + Lack(load[r].load) * 3 + Lack(response[r] * 10) * 2 + Lack(load[r].errors))
    * (IF health[r] = "degraded" THEN 70 ELSE 100)

\* Variant: a bonus of 2.5 points.
Bonus_Small == 2500
Bonus == 25000

SessionScore(s, place, r) ==
  RegionScore(place, r)
    + (IF r = Sticky[s] /\ RegionScore(place, r) > 20000 THEN Bonus ELSE 0)

(* The first of the best, in the order of the table. *)
route_request(s, place) ==
  IF Candidates = {} THEN None
  ELSE CHOOSE r \in Candidates : \A o \in Candidates :
         \/ SessionScore(s, place, o) < SessionScore(s, place, r)
         \/ SessionScore(s, place, o) = SessionScore(s, place, r) /\ r <= o

Changes(r) ==
  /\ \E s \in {"ok", "slow", "down"} : up' = [up EXCEPT ![r] = s]
  /\ UNCHANGED <<health, response, at, seen, experiment, load, rollout>>

WakesUp ==
  /\ at = 0
  /\ at' = 1
  /\ UNCHANGED <<up, health, response, seen, experiment, load, rollout>>

Verdict(r) ==
  CASE up[r] = "ok" -> "healthy" [] up[r] = "slow" -> "degraded" [] OTHER -> "unhealthy"

(* _check_region_health: the response time is taken as soon as there is a   *)
(* response, the verdict is written by the loop when the body is read.      *)
Responds ==
  /\ at # 0 /\ seen = None
  /\ seen' = Verdict(at)
  /\ response' = IF up[at] = "down" THEN response
                 ELSE [response EXCEPT ![at] = IF up[at] = "slow" THEN 2 ELSE 0]
  /\ UNCHANGED <<up, health, at, experiment, load, rollout>>

Checked ==
  /\ seen # None
  /\ health' = [health EXCEPT ![at] = seen]
  /\ seen' = None
  /\ at' = IF at + 1 \in Regions THEN at + 1 ELSE 0
  /\ UNCHANGED <<up, response, experiment, load, rollout>>

(* _capacity_monitoring_loop: a region that does not tell counts as idle    *)
(* and without errors. The regions are read one by one, here in any order.  *)
Measured(r) ==
  /\ \E m \in IF up[r] = "down" THEN {Unused} ELSE Metrics[up[r]] :
       load' = [load EXCEPT ![r] = m]
  /\ UNCHANGED <<up, health, response, at, seen, experiment, rollout>>

(* --- Experiments --------------------------------------------------------- *)
Free(e) == experiment[e].kind \in {None, "ended"}

_simulate_region_failure(e, r) ==
  /\ Free(e)
  /\ health' = [health EXCEPT ![r] = "unhealthy"]
  /\ experiment' = [experiment EXCEPT ![e] = [kind |-> "failure", region |-> r]]
  /\ UNCHANGED <<up, response, at, seen, load, rollout>>

(* Two seconds more, on top of what another experiment may have added. *)
_simulate_network_latency(e, r) ==
  /\ Free(e)
  /\ response[r] + 2 <= MaxResponse
  /\ response' = [response EXCEPT ![r] = @ + 2]
  /\ experiment' = [experiment EXCEPT ![e] =
                      [kind |-> "latency", region |-> r, original |-> response[r]]]
  /\ UNCHANGED <<up, health, at, seen, load, rollout>>

Watching == [kind |-> "watching", data |-> <<>>]
(* The stress of a processor or of memory marks nothing. *)
_simulate_stress(e) ==
  /\ Free(e)
  /\ experiment' = [experiment EXCEPT ![e] = Watching]
  /\ UNCHANGED <<table, rollout>>

(* The region is healthy again whatever it was before, and its response     *)
(* time what the experiment found, whatever was measured since.             *)
Restores(e) ==
  /\ \/ /\ experiment[e].kind = "failure"
        /\ health' = [health EXCEPT ![experiment[e].region] = "healthy"]
        /\ UNCHANGED response
     \/ /\ experiment[e].kind = "latency"
        /\ response' = [response EXCEPT ![experiment[e].region] = experiment[e].original]
        /\ UNCHANGED health
  /\ experiment' = [experiment EXCEPT ![e] = Watching]
  /\ UNCHANGED <<up, at, seen, load, rollout>>

(* The sleep is in no finally: nothing is put back. *)
Cancelled(e) ==
  /\ ~Free(e)
  /\ experiment' = [experiment EXCEPT ![e] = Idle]
  /\ UNCHANGED <<table, rollout>>

(* _monitor_during_experiment: only now, with the mark put back, the        *)
(* regions are sampled. One that is down reports nothing.                   *)
Samples(e) ==
  /\ experiment[e].kind = "watching" /\ Len(experiment[e].data) < Duration
  /\ \E sample \in [Regions -> {Unused} \cup UNION {Metrics[u] : u \in DOMAIN Metrics}] :
       /\ \A r \in Regions :
            sample[r] \in IF up[r] = "down" THEN {Unused} ELSE Metrics[up[r]]
       /\ experiment' = [experiment EXCEPT ![e].data = Append(@, sample)]
  /\ UNCHANGED <<table, rollout>>

\* Variant: errors at the limit count as well.
Failing_AtLimit(m) == m.errors >= 1
Failing(m) == m.errors > 1

(* The samples before the first without errors; None when there is none.    *)
_calculate_recovery_time(data) ==
  LET calm == {n \in DOMAIN data : \A r \in Regions : ~Failing(data[n][r])}
  IN  IF calm = {} THEN None ELSE (CHOOSE n \in calm : \A k \in calm : n <= k) - 1

_check_sla_violations(data) ==
  {v \in (DOMAIN data) \X Regions \X {"response_time", "error_rate"} :
     LET m == data[v[1]][v[2]] IN IF v[3] = "response_time" THEN m.late ELSE m.errors > 1}

(* Recovered within a minute on average, as far as regions say so.          *)
_measure_failover_success(data) ==
  LET told == {x \in (DOMAIN data) \X Regions : data[x[1]][x[2]].recovered # None}
  IN  told # {}
      /\ MapThenSumSet(LAMBDA x : data[x[1]][x[2]].recovered, told) < 60 * Cardinality(told)

_generate_recommendations(data) ==
  (IF _calculate_recovery_time(data) = None \/ _calculate_recovery_time(data) > Goal
   THEN {"failover speed"} ELSE {})
  \cup (IF \E n \in DOMAIN data : \E r \in Regions : data[n][r].errors > 5
        THEN {"error handling"} ELSE {})

_analyze_experiment_results(e) ==
  /\ experiment[e].kind = "watching" /\ Len(experiment[e].data) = Duration
  /\ LET data == experiment[e].data IN
       experiment' = [experiment EXCEPT ![e] =
         [kind |-> "ended",
          recovery |-> _calculate_recovery_time(data),
          violations |-> _check_sla_violations(data),
          failover |-> _measure_failover_success(data),
          recommendations |-> _generate_recommendations(data)]]
  /\ UNCHANGED <<table, rollout>>

(* --- Deployments --------------------------------------------------------- *)
Running(d) == deployment[d].kind \in {"blue_green", "canary", "rolling"}

(* BlueGreenDeploymentManager.deployment_states by deployment and region,   *)
(* with 0 those of canaries, and with None the deployment_state of regions. *)
Marked(what, id, r) ==
  {mark \in deployed : <<mark[2], mark[3]>> # <<id, r>>} \cup {<<what, id, r>>}

(* The id is the second the deployment started in; two may share it.        *)
deploy_new_version(d, strategy, regions) ==
  /\ deployment[d] = Idle /\ \A before \in Deployments : before < d => deployment[before] # Idle
  /\ \E id \in {d} \cup {deployment[o].id : o \in {o \in Deployments : Running(o)}} :
       /\ deployment' = [deployment EXCEPT ![d] =
                           [kind |-> strategy, id |-> id, regions |-> regions, todo |-> regions,
                            round |-> 1, strategy |-> strategy, succeeded |-> {}]]
       /\ deployed' = IF strategy = "rolling" THEN Marked("deploying", id, Head(regions))
                      ELSE deployed
  /\ UNCHANGED <<table, experiment>>

Advances(d, ok) ==
  LET left == Tail(deployment[d].todo) IN
  deployment' = [deployment EXCEPT
    ![d].todo = left,
    ![d].succeeded = IF ok THEN @ \cup {Head(deployment[d].todo)} ELSE @,
    ![d].kind = IF left = <<>> /\ @ # "canary" THEN "success" ELSE @]

(* _blue_green_deployment: a region becomes green when its new environment  *)
(* answers. A name that is not in the table raises, and what is called the  *)
(* rollback reverts nothing.                                                *)
SwitchesToGreen(d) ==
  /\ deployment[d].kind = "blue_green"
  /\ LET r == Head(deployment[d].todo) IN
     \/ /\ r \in Regions
        /\ \E ok \in BOOLEAN :
             /\ Advances(d, ok)
             /\ deployed' = IF ok THEN Marked("green", None, r) ELSE deployed
     \/ /\ r \notin Regions
        /\ deployment' = [deployment EXCEPT ![d].kind = "raised"]
        /\ UNCHANGED deployed
  /\ UNCHANGED <<table, experiment>>

\* Variant: the last region is reported before it is marked.
RollsOut_Last(d) ==
  /\ deployment[d].kind = "rolling"
  /\ Advances(d, TRUE)
  /\ LET todo == deployment[d].todo IN
       deployed' = IF Len(todo) > 1 THEN Marked("deployed", deployment[d].id, Head(todo)) ELSE deployed
  /\ UNCHANGED <<table, experiment>>
(* _rolling_deployment, from one sleep to the next. *)
RollsOut(d) ==
  /\ deployment[d].kind = "rolling"
  /\ Advances(d, TRUE)
  /\ LET id == deployment[d].id
         now == Marked("deployed", id, Head(deployment[d].todo))
         next == Tail(deployment[d].todo)
     IN  deployed' = IF next = <<>> THEN now
                     ELSE {mark \in now : <<mark[2], mark[3]>> # <<id, Head(next)>>}
                          \cup {<<"deploying", id, Head(next)>>}
  /\ UNCHANGED <<table, experiment>>

(* _canary_deployment: the metrics that are looked at between two rounds    *)
(* are constants, so that no canary is ever rolled back.                    *)
Shifts(d) ==
  /\ deployment[d].kind = "canary"
  /\ \/ /\ deployment[d].todo # <<>>
        /\ Advances(d, TRUE)
        /\ deployed' = Marked("active", 0, Head(deployment[d].todo))
     \/ /\ deployment[d].todo = <<>>
        /\ deployment' = [deployment EXCEPT
             ![d].kind = IF deployment[d].round = Rounds THEN "success" ELSE @,
             ![d].todo = IF deployment[d].round = Rounds THEN @ ELSE deployment[d].regions,
             ![d].round = IF @ = Rounds THEN @ ELSE @ + 1]
        /\ UNCHANGED deployed
  /\ UNCHANGED <<table, experiment>>

Deploying ==
  \E d \in Deployments :
    \/ SwitchesToGreen(d) \/ RollsOut(d) \/ Shifts(d)
    \/ \E strategy \in {"blue_green", "canary", "rolling"} :
         \E regions \in Targets : deploy_new_version(d, strategy, regions)

Loop == WakesUp \/ Responds \/ Checked
Experimenting ==
  \E e \in Experiments :
    \/ Restores(e) \/ Cancelled(e) \/ _simulate_stress(e)
    \/ Samples(e) \/ _analyze_experiment_results(e)
    \/ \E r \in Regions : _simulate_region_failure(e, r) \/ _simulate_network_latency(e, r)
Next ==
  \/ Loop
  \/ \E r \in Regions : Changes(r) \/ Measured(r)
  \/ Experimenting
  \/ Deploying

Spec == Init /\ [][Next]_vars

(* The loop sleeps, its requests time out, and it survives exceptions. *)
Fairness == WF_vars(Loop)

(* Whatever experiments leave in the table, the loop puts it right: a       *)
(* region that is down leaves the candidates, one that answers comes back,  *)
(* and added latency does not stay.                                         *)
TableCatchesUp ==
  \A r \in Regions :
    /\ []<>(up[r] = "down" => r \notin Candidates)
    /\ []<>(up[r] = "ok" => r \in Candidates)
    /\ []<>(up[r] = "ok" => response[r] = 0)

(* The bonus of a session is more than slow answers cost and 1,250 km:      *)
(* however slow it answers, a healthy region keeps a session while it has   *)
(* no more load and errors than the others, is no 13 points of proximity    *)
(* farther from the client than any of them, and has the 20 points without  *)
(* which there is no bonus (route_request, whose table the loops and        *)
(* experiments write). Proximity alone outweighs the bonus.                 *)
SessionsStay ==
  \A s \in DOMAIN Sticky : \A place \in Places : LET r == Sticky[s] IN
    /\ health[r] = "healthy" /\ RegionScore(place, r) > 20000
    /\ \A o \in Regions : /\ load[r].load <= load[o].load /\ load[r].errors <= load[o].errors
                           /\ place[o] <= place[r] + 12
    => route_request(s, place) = r

(* The parts of a report agree, though each goes through the samples by     *)
(* itself: no recovery is reported when and only when each sample has a     *)
(* region above the limit of errors, and then speed is recommended; better  *)
(* handling of errors is recommended only where some were above it          *)
(* (_calculate_recovery_time, _check_sla_violations,                        *)
(* _generate_recommendations).                                              *)
ReportsAgree ==
  \A e \in Experiments : experiment[e].kind = "ended" =>
    LET report == experiment[e]
        failing == {v[1] : v \in {v \in report.violations : v[3] = "error_rate"}}
    IN  /\ report.recovery = None <=> failing = 1..Duration
        /\ report.recovery = None => "failover speed" \in report.recommendations
        /\ "error handling" \in report.recommendations => failing # {}
        /\ report.recovery # None => report.recovery + 1 \notin failing

(* A deployment that ended well left every region it reports as it says,    *)
(* once none of the same second runs, and only a running one is at work     *)
(* somewhere (_rolling_deployment, _canary_deployment,                      *)
(* _blue_green_deployment).                                                 *)
DeploymentsEndWhole ==
  /\ \A d \in Deployments :
       /\ deployment[d].kind = "success"
       /\ \A o \in Deployments : Running(o) => deployment[o].id # deployment[d].id
       => \A r \in deployment[d].succeeded :
            CASE deployment[d].strategy = "rolling" -> <<"deployed", deployment[d].id, r>> \in deployed
              [] deployment[d].strategy = "canary" -> <<"active", 0, r>> \in deployed
              [] OTHER -> <<"green", None, r>> \in deployed
  /\ \A mark \in deployed : mark[1] = "deploying" =>
       \E d \in Deployments : deployment[d].kind = "rolling" /\ deployment[d].id = mark[2]
=============================================================================
