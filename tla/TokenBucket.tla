----------------------------- MODULE TokenBucket -----------------------------
(***************************************************************************)
(* The in-process token buckets, one caller's bucket of one kind each:     *)
(*   "whole"  core/tenancy/rate_limiter.py, which refills whole tokens and *)
(*            forgets the fraction (also under the adaptive and the tenant *)
(*            limiter of that file);                                       *)
(*   "exact"  tenancy/rate_limiter.py, its copies under middleware/ and    *)
(*            server/middleware/, and middleware/rate_limit.py;            *)
(*   "swept"  middleware/security.py, which drops buckets left idle.       *)
(* No limiter suspends between reading a bucket and writing it. `tokens`   *)
(* counts Unit-ths of a token: Rate of them arrive in a unit of time.      *)
(* `used` counts the tokens let through since the start.                   *)
(***************************************************************************)
EXTENDS Naturals

CONSTANTS Capacity, Rate, Unit, Burst,
          Idle,            \* an older bucket is dropped by the sweep
          Asked,           \* how many tokens callers ask for
          MaxClock         \* bound of the model

VARIABLES kind, clock, tokens, last, used
vars == <<kind, clock, tokens, last, used>>

Least(a, b) == IF a <= b THEN a ELSE b
Full == Capacity * Unit

Init ==
  /\ kind \in {"whole", "exact", "swept"}
  /\ clock = 0 /\ tokens = Full /\ last = 0 /\ used = 0

TypeOK ==
  /\ kind \in {"whole", "exact", "swept"}
  /\ clock \in Nat /\ last \in 0..clock
  /\ tokens \in 0..Full /\ used \in Nat

\* Variant: the fraction is rounded up.
Earned_RoundedUp ==
  LET parts == (clock - last) * Rate IN
    IF kind = "whole" THEN ((parts + Unit - 1) \div Unit) * Unit ELSE parts

(* What the time since the last refill adds. *)
Earned ==
  LET parts == (clock - last) * Rate IN
    IF kind = "whole" THEN (parts \div Unit) * Unit ELSE parts

(* The sweep removes the bucket, and the caller gets a full one. *)
Swept == kind = "swept" /\ clock > last + Idle
Refilled == IF Swept THEN Full ELSE Least(Full, tokens + Earned)

(* is_allowed, check_rate_limit, check: refused or not, the time is noted. *)
Take(n) ==
  /\ last' = clock
  /\ IF Refilled >= n * Unit
       THEN tokens' = Refilled - n * Unit /\ used' = used + n
       ELSE tokens' = Refilled /\ UNCHANGED used
  /\ UNCHANGED <<kind, clock>>

Ask(n) ==
  /\ kind = "whole" \/ n = 1 \/ kind = "exact"
  /\ Take(n)

(* A burst is allowed out of what the bucket held at its last use. *)
allow_burst(n) ==
  /\ kind = "whole"
  /\ n <= Burst
  /\ tokens >= n * Unit
  /\ Take(n)

(* get_tenant_status refills every bucket it reports. *)
get_tenant_status ==
  /\ kind = "exact"
  /\ tokens' = Refilled /\ last' = clock
  /\ UNCHANGED <<kind, clock, used>>

Tick ==
  /\ clock < MaxClock
  /\ clock' = clock + 1
  /\ UNCHANGED <<kind, tokens, last, used>>

Next == (\E n \in Asked : Ask(n) \/ allow_burst(n)) \/ get_tenant_status \/ Tick

Spec == Init /\ [][Next]_vars

(* Nobody gets more than a full bucket and what has flowed in since the     *)
(* start, however requests, reports, refusals and sweeps are mixed.         *)
UsedIsCovered == Unit * used <= Full + Rate * clock
=============================================================================
