---------------------------- MODULE LoadBalancer ----------------------------
(***************************************************************************)
(* Choosing an endpoint by its record:                                     *)
(*   "any", "hashed", "adaptive"  strategies of orchestration/             *)
(*             load_balancer.py: requests select an instance, count        *)
(*             themselves in with mark_request_start and out with          *)
(*             mark_request_end, in calls of their own;                    *)
(*   "models"  orchestrator/router.py: a model is selected, and its result *)
(*             recorded.                                                   *)
(* Meanwhile endpoints are added, removed, checked and marked. One that is *)
(* added again under its id is a new object with an empty record. Latency  *)
(* and costs, by which strategies order the candidates, are left open.     *)
(***************************************************************************)
EXTENDS Integers, FiniteSets

CONSTANTS Instances, Requests, None, MaxConnections,
          Many,    \* the requests after which failures count
          Weak     \* endpoints that checks and operators may take out

VARIABLES kind, present, available, connections, total, failed, at, on
vars == <<kind, present, available, connections, total, failed, at, on>>
record == <<connections, total, failed>>

Kinds == {"any", "hashed", "adaptive", "models"}
Init ==
  /\ kind \in Kinds
  /\ present = Instances
  /\ available = [i \in Instances |-> TRUE]
  /\ connections = [i \in Instances |-> 0]
  /\ total = [i \in Instances |-> 0] /\ failed = [i \in Instances |-> 0]
  /\ at = [r \in Requests |-> "new"]
  /\ on = [r \in Requests |-> None]

TypeOK ==
  /\ kind \in Kinds
  /\ present \subseteq Instances
  /\ available \in [Instances -> BOOLEAN]
  /\ connections \in [Instances -> 0..Cardinality(Requests)]
  /\ total \in [Instances -> 0..Cardinality(Requests)]
  /\ failed \in [Instances -> 0..Cardinality(Requests)]
  /\ at \in [Requests -> {"new", "selected", "running", "done"}]
  /\ on \in [Requests -> Instances \cup {None}]

(***************************************************************************)
(* The endpoints                                                           *)
(***************************************************************************)
Fresh(f, i) == [f EXCEPT ![i] = 0]
add_instance(i) ==
  /\ present' = present \cup {i}
  /\ available' = [available EXCEPT ![i] = TRUE]
  /\ connections' = Fresh(connections, i)
  /\ total' = Fresh(total, i) /\ failed' = Fresh(failed, i)
  /\ UNCHANGED <<kind, at, on>>

remove_instance(i) ==
  /\ kind # "models" /\ i \in present
  /\ present' = present \ {i}
  /\ UNCHANGED <<kind, available, record, at, on>>

check_instance_health(i) ==
  /\ kind # "models" /\ i \in present
  /\ \E healthy \in BOOLEAN :
       /\ healthy \/ i \in Weak
       /\ available' = [available EXCEPT ![i] = healthy]
  /\ UNCHANGED <<kind, present, record, at, on>>

mark_available(i, is) ==
  /\ kind = "models" /\ (is \/ i \in Weak)
  /\ available' = [available EXCEPT ![i] = is]
  /\ UNCHANGED <<kind, present, record, at, on>>
reset_metrics ==
  /\ kind = "models"
  /\ available' = [i \in Instances |-> TRUE]
  /\ total' = [i \in Instances |-> 0] /\ failed' = [i \in Instances |-> 0]
  /\ UNCHANGED <<kind, present, connections, at, on>>

(***************************************************************************)
(* The requests                                                            *)
(***************************************************************************)
Candidates == {i \in present : available[i] /\ connections[i] < MaxConnections}

(* Nothing is left of the score of an instance all of whose requests have   *)
(* failed; the recent error and the rest only lower it.                     *)
Scores(i) == total[i] = 0 \/ failed[i] < total[i]

(* Consistent hashing takes the request's place on the ring of all          *)
(* instances once there is a candidate; the adaptive strategy draws by      *)
(* score, when anyone has one.                                              *)
Choices ==
  CASE kind = "hashed" -> present
    [] kind = "adaptive" /\ \E i \in Candidates : Scores(i) -> {i \in Candidates : Scores(i)}
    [] OTHER -> Candidates
Selects(r, choices, next) ==
  /\ at[r] = "new"
  /\ IF choices = {}
       THEN at' = [at EXCEPT ![r] = "done"] /\ UNCHANGED on
       ELSE /\ at' = [at EXCEPT ![r] = next]
            /\ \E i \in choices : on' = [on EXCEPT ![r] = i]
  /\ UNCHANGED <<kind, present, available, record>>

select_instance(r) ==
  kind # "models" /\ Selects(r, IF Candidates = {} THEN {} ELSE Choices, "selected")
select_model(r, excluded) ==
  kind = "models" /\ Selects(r, {i \in Instances : available[i]} \ excluded, "running")

mark_request_start(r) ==
  LET i == on[r] IN
    /\ at[r] = "selected"
    /\ at' = [at EXCEPT ![r] = "running"]
    /\ IF i \in present
         THEN /\ connections' = [connections EXCEPT ![i] = @ + 1]
              /\ total' = [total EXCEPT ![i] = @ + 1]
         ELSE UNCHANGED <<connections, total>>
    /\ UNCHANGED <<kind, present, available, failed, on>>

Saturation(busy) ==
  IF 10 * busy > 9 * MaxConnections THEN 7 ELSE IF 10 * busy > 7 * MaxConnections THEN 9 ELSE 10
\* Variant: failures count from the first request on.
_update_health_score_First(i, bad, busy, slow) ==
  (total[i] - bad) * slow * Saturation(busy) < 20 * total[i]
(* The score is below a fifth: the share of its requests that have not      *)
(* failed, times ten for a fast instance, eight or five for a slow one,     *)
(* times its saturation.                                                    *)
_update_health_score(i, bad, busy, slow) ==
  /\ total[i] > Many
  /\ (total[i] - bad) * slow * Saturation(busy) < 20 * total[i]

\* Variant: a request that fails is not counted out.
mark_request_end_Fails(r) ==
  /\ kind # "models" /\ at[r] = "running"
  /\ at' = [at EXCEPT ![r] = "done"]
  /\ on[r] \in present
  /\ \/ connections' = [connections EXCEPT ![on[r]] = IF @ = 0 THEN 0 ELSE @ - 1]
     \/ UNCHANGED connections
  /\ UNCHANGED <<kind, present, available, total, failed, on>>
(* The count never goes below zero, and failures of before an instance was  *)
(* added again are charged to the new one. The record is never cleared: an  *)
(* instance that a check brings back goes again with the next result.       *)
mark_request_end(r) ==
  LET i == on[r] IN
    /\ kind # "models" /\ at[r] = "running"
    /\ at' = [at EXCEPT ![r] = "done"]
    /\ IF i \notin present
         THEN UNCHANGED <<connections, failed, available>>
         ELSE \E success \in BOOLEAN, slow \in {10, 8, 5} :
           LET bad == failed[i] + (IF success THEN 0 ELSE 1)
               busy == IF connections[i] = 0 THEN 0 ELSE connections[i] - 1 IN
             /\ connections' = [connections EXCEPT ![i] = busy]
             /\ failed' = [failed EXCEPT ![i] = bad]
             /\ available' = [available EXCEPT ![i] = @ /\ ~_update_health_score(i, bad, busy, slow)]
    /\ UNCHANGED <<kind, present, total, on>>

record_success(r) ==
  /\ kind = "models" /\ at[r] = "running"
  /\ at' = [at EXCEPT ![r] = "done"]
  /\ total' = [total EXCEPT ![on[r]] = @ + 1]
  /\ UNCHANGED <<kind, present, available, connections, failed, on>>
\* Variant: a model of which half the requests succeed is taken out, too.
record_failure_Half(r) ==
  LET i == on[r] IN
    /\ kind = "models" /\ at[r] = "running"
    /\ at' = [at EXCEPT ![r] = "done"]
    /\ total' = [total EXCEPT ![i] = @ + 1] /\ failed' = [failed EXCEPT ![i] = @ + 1]
    /\ available' = [available EXCEPT ![i] = @ /\ ~(2 * (total[i] - failed[i]) <= total[i] + 1
                                                    /\ total[i] + 1 > Many)]
    /\ UNCHANGED <<kind, present, connections, on>>
(* Fewer than half of the requests have succeeded: the model is not asked   *)
(* again, and no later success brings it back.                              *)
record_failure(r) ==
  LET i == on[r] IN
    /\ kind = "models" /\ at[r] = "running"
    /\ at' = [at EXCEPT ![r] = "done"]
    /\ total' = [total EXCEPT ![i] = @ + 1] /\ failed' = [failed EXCEPT ![i] = @ + 1]
    /\ available' = [available EXCEPT ![i] = @ /\ ~(2 * (total[i] - failed[i]) < total[i] + 1
                                                    /\ total[i] + 1 > Many)]
    /\ UNCHANGED <<kind, present, connections, on>>

Next ==
  \/ \E i \in Instances :
       \/ add_instance(i) \/ remove_instance(i) \/ check_instance_health(i)
       \/ \E is \in BOOLEAN : mark_available(i, is)
  \/ \E r \in Requests :
       \/ select_instance(r) \/ mark_request_start(r) \/ mark_request_end(r)
       \/ \E excluded \in SUBSET Instances : select_model(r, excluded)
       \/ record_success(r) \/ record_failure(r)
  \/ reset_metrics

Spec == Init /\ [][Next]_vars

(* An instance is never charged for more requests than run on it, whatever  *)
(* is removed, added again and ended late: no load stays behind to keep it  *)
(* from being selected.                                                     *)
NoLoadLeftBehind ==
  \A i \in present :
    connections[i] <= Cardinality({r \in Requests : at[r] = "running" /\ on[r] = i})
(* Where no check and no operator steps in, an endpoint is taken out only   *)
(* after more than Many requests, of which a model has failed more than     *)
(* half and an instance, which may have been slow and full, three of seven. *)
SidelinedForCause ==
  \A i \in present \ Weak :
    ~available[i] =>
      /\ total[i] > Many
      /\ IF kind = "models" THEN 2 * failed[i] > Many + 1 ELSE 7 * failed[i] > 3 * (Many + 1)
=============================================================================
