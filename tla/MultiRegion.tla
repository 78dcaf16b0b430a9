---------------------------- MODULE MultiRegion ----------------------------
(***************************************************************************)
(* infrastructure/multi_region.py: MultiRegionManager's rounds of health   *)
(* checks, run for all regions at once, and the failover that a region's   *)
(* turning unhealthy starts as a task of its own. The task changes what is *)
(* modelled here before its first await. Sessions and replicated keys are  *)
(* data of the regions' Redis servers and are left out.                    *)
(***************************************************************************)
EXTENDS Naturals

CONSTANTS Regions,
          Priority,   \* region -> its priority, the least is preferred
          Threshold,  \* unhealthy_threshold
          Connected   \* regions for which a Redis connection object was made

VARIABLES status, failures, primary, flagged, checking, due,
          spare                  \* history: flagged by the configuration beside the primary
vars == <<status, failures, primary, flagged, checking, due, spare>>

(* The configuration flags any regions, by default none. The constructor    *)
(* finds every region healthy and takes a flagged one (the first), else the *)
(* best; initialize then marks the regions whose ping fails.                *)
Init ==
  /\ status \in [Regions -> {"healthy", "unavailable"}]
  /\ failures = [r \in Regions |-> 0]
  /\ flagged \in SUBSET Regions
  /\ primary \in IF flagged # {} THEN flagged
                  ELSE {r \in Regions : \A s \in Regions : Priority[r] <= Priority[s]}
  /\ checking = {} /\ due = FALSE
  /\ spare = flagged \ {primary}

TypeOK ==
  /\ status \in [Regions -> {"healthy", "degraded", "unhealthy", "unavailable"}]
  /\ failures \in [Regions -> 0..Threshold]
  /\ primary \in Regions /\ flagged \subseteq Regions
  /\ checking \subseteq Regions /\ due \in BOOLEAN /\ spare \subseteq Regions

(* _find_best_region; latency decides among equal priorities. *)
Best ==
  LET usable == {r \in Regions : status[r] \in {"healthy", "degraded"}}
  IN {r \in usable : \A s \in usable : Priority[r] <= Priority[s]}

_check_all_regions_health ==
  /\ checking = {} /\ ~due
  /\ checking' = Regions
  /\ UNCHANGED <<status, failures, primary, flagged, due, spare>>

_mark_region_healthy(r) ==
  /\ failures' = [failures EXCEPT ![r] = 0]
  /\ status' = [status EXCEPT ![r] = "healthy"]

(* A slow answer is no failure, but does not clear those before it. *)
_mark_region_degraded(r) ==
  /\ status' = [status EXCEPT ![r] = "degraded"]
  /\ UNCHANGED failures

Passes(r) ==
  /\ r \in checking
  /\ checking' = checking \ {r}
  /\ _mark_region_healthy(r) \/ _mark_region_degraded(r)
  /\ UNCHANGED <<primary, flagged, due, spare>>

(* Only the step into unhealthy starts a failover. *)
_mark_region_unhealthy(r) ==
  LET n == IF failures[r] < Threshold THEN failures[r] + 1 ELSE Threshold IN
    /\ r \in checking
    /\ checking' = checking \ {r}
    /\ failures' = [failures EXCEPT ![r] = n]
    /\ \/ /\ n < Threshold
          /\ UNCHANGED <<status, due>>
       \/ /\ n = Threshold
          /\ status' = [status EXCEPT ![r] = "unhealthy"]
          /\ due' = (due \/ (status[r] # "unhealthy" /\ r = primary))
    /\ UNCHANGED <<primary, flagged, spare>>

\* Variant: the rollback leaves the flag of the region it gives up.
Rollback_KeepsFlag(new) == primary' = primary /\ flagged' = flagged \cup {primary, new}
(* A region without a connection fails the migration at once. *)
Rollback(new) ==
  /\ primary' = primary
  /\ flagged' = (flagged \cup {primary}) \ {new}

_perform_failover ==
  /\ due
  /\ due' = FALSE
  /\ \/ /\ Best = {}
        /\ UNCHANGED <<primary, flagged>>
     \/ \E new \in Best :
          IF new = primary THEN UNCHANGED <<primary, flagged>>
          ELSE IF primary \in Connected /\ new \notin Connected THEN Rollback(new)
          ELSE primary' = new /\ flagged' = (flagged \ {primary}) \cup {new}
  /\ UNCHANGED <<status, failures, checking, spare>>

Next ==
  \/ _check_all_regions_health \/ _perform_failover
  \/ \E r \in Regions : Passes(r) \/ _mark_region_unhealthy(r)

Spec == Init /\ [][Next]_vars

(* The region requests go to is flagged if any is, and no other is that the *)
(* configuration did not flag, through failovers that find no region, or    *)
(* fail and are rolled back: with one flagged region or none there is never *)
(* a second.                                                                *)
OnePrimary ==
  /\ flagged # {} => primary \in flagged
  /\ flagged \ {primary} \subseteq spare
(* A region is unhealthy only for as many failures as the threshold without *)
(* a passing check among them.                                              *)
UnhealthyForCause == \A r \in Regions : status[r] = "unhealthy" => failures[r] = Threshold
=============================================================================
