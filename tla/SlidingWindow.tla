---------------------------- MODULE SlidingWindow ----------------------------
(***************************************************************************)
(* The sliding windows of core/tenancy/rate_limiter.py, and the fixed one  *)
(* of infrastructure/websocket_scalable.py, for one key:                   *)
(*   "memory"    the list of this process, read and written at once;       *)
(*   "commands"  a Redis sorted set, counted and added to by two commands; *)
(*   "script"    a Redis sorted set behind one script;                     *)
(*   "fixed"     a Redis hash with a window's start and its count, read    *)
(*               and written by commands of their own.                     *)
(* A caller of Redis takes its time first and its command runs later. A    *)
(* sorted set holds an instant once, however many requests it let through. *)
(* The clean-up of "commands" makes a coroutine that nobody awaits: it     *)
(* never runs. `passed` remembers what was let through when.               *)
(***************************************************************************)
EXTENDS Naturals, FiniteSets, FiniteSetsExt

CONSTANTS Kinds, Callers, MaxRequests, Window,
          MaxClock                         \* bound of the model

VARIABLES kind, clock, at, now, stamps, passed
vars == <<kind, clock, at, now, stamps, passed>>

Instants == 0..MaxClock

Init ==
  /\ kind \in Kinds
  /\ clock = 0
  /\ at = [c \in Callers |-> "out"]
  /\ now = [c \in Callers |-> 0]
  /\ stamps = [t \in Instants |-> 0]
  /\ passed = [t \in Instants |-> 0]

TypeOK ==
  /\ kind \in Kinds
  /\ clock \in Instants
  /\ at \in [Callers -> {"out", "asked", "counted", "first"}]
  /\ now \in [Callers -> Instants]
  /\ stamps \in [Instants -> Nat] /\ passed \in [Instants -> Nat]

Total(f, S) == MapThenSumSet(LAMBDA t : f[t], S)
Since(t) == {s \in Instants : s + Window > t}
Once(f, t) == [f EXCEPT ![t] = 1]

Memory(c) ==
  /\ kind = "memory"
  /\ Total(stamps, Since(clock)) < MaxRequests
  /\ stamps' = [stamps EXCEPT ![clock] = @ + 1]
  /\ passed' = [passed EXCEPT ![clock] = @ + 1]
  /\ UNCHANGED <<kind, clock, at, now>>

Asks(c) ==
  /\ kind # "memory" /\ at[c] = "out"
  /\ at' = [at EXCEPT ![c] = "asked"]
  /\ now' = [now EXCEPT ![c] = clock]
  /\ UNCHANGED <<kind, clock, stamps, passed>>

(* zcount, from the window's first instant to the caller's own. *)
zcount(c) ==
  LET seen == {t \in Instants : t + Window >= now[c] /\ t <= now[c]} IN
    /\ kind = "commands" /\ at[c] = "asked"
    /\ at' = [at EXCEPT ![c] = IF Total(stamps, seen) < MaxRequests
                                 THEN "counted" ELSE "out"]
    /\ UNCHANGED <<kind, clock, now, stamps, passed>>

zadd(c) ==
  /\ kind = "commands" /\ at[c] = "counted"
  /\ at' = [at EXCEPT ![c] = "out"]
  /\ stamps' = Once(stamps, now[c])
  /\ passed' = Once(passed, now[c])
  /\ UNCHANGED <<kind, clock, now>>

(* The script: remove what is older, count the rest, add. *)
eval(c) ==
  LET kept == [t \in Instants |-> IF t + Window <= now[c] THEN 0 ELSE stamps[t]] IN
    /\ kind = "script" /\ at[c] = "asked"
    /\ at' = [at EXCEPT ![c] = "out"]
    /\ IF Total(kept, Instants) < MaxRequests
         THEN stamps' = Once(kept, now[c]) /\ passed' = Once(passed, now[c])
         ELSE stamps' = kept /\ UNCHANGED passed
    /\ UNCHANGED <<kind, clock, now>>

Opened == {t \in Instants : stamps[t] > 0}
Within(c) == \E t \in Opened : now[c] < t + Window
\* Variant: the count is not looked at.
hgetall_Unlimited(c) ==
  /\ kind = "fixed" /\ at[c] = "asked"
  /\ at' = [at EXCEPT ![c] = IF Within(c) THEN "counted" ELSE "first"]
  /\ UNCHANGED <<kind, clock, now, stamps, passed>>
(* The hash is read: full in its window, with room in it, or of another     *)
(* window (there may be none), which a new one replaces. The caller's own   *)
(* time may lie before the window's start.                                  *)
hgetall(c) ==
  /\ kind = "fixed" /\ at[c] = "asked"
  /\ at' = [at EXCEPT ![c] = IF ~Within(c) THEN "first"
                              ELSE IF Total(stamps, Opened) >= MaxRequests THEN "out"
                              ELSE "counted"]
  /\ UNCHANGED <<kind, clock, now, stamps, passed>>

Passes(c) ==
  /\ at' = [at EXCEPT ![c] = "out"]
  /\ passed' = [passed EXCEPT ![now[c]] = @ + 1]
  /\ UNCHANGED <<kind, clock, now>>
(* One more in the window that is there now, whichever that is. In a hash   *)
(* that has expired a count without a start: of no window.                  *)
hincrby(c) ==
  /\ kind = "fixed" /\ at[c] = "counted"
  /\ stamps' = [t \in Instants |-> IF t \in Opened THEN stamps[t] + 1 ELSE 0]
  /\ Passes(c)
hset(c) ==
  /\ at[c] = "first"
  /\ stamps' = [t \in Instants |-> IF t = now[c] THEN 1 ELSE 0]
  /\ Passes(c)
(* The hash expires a window after it was last written to, so never before  *)
(* the window it counts has ended.                                          *)
Expires ==
  /\ kind = "fixed"
  /\ \E t \in Opened : clock >= t + Window
  /\ stamps' = [t \in Instants |-> 0]
  /\ UNCHANGED <<kind, clock, at, now, passed>>

(* No call of Redis takes longer than a window.                             *)
Prompt == \A c \in Callers : at[c] # "out" => clock < now[c] + Window
Tick ==
  /\ clock < MaxClock
  /\ kind = "fixed" => Prompt
  /\ clock' = clock + 1
  /\ UNCHANGED <<kind, at, now, stamps, passed>>

Next ==
  \/ \E c \in Callers : Memory(c) \/ Asks(c) \/ zcount(c) \/ zadd(c) \/ eval(c)
                          \/ hgetall(c) \/ hincrby(c) \/ hset(c)
  \/ Expires \/ Tick

(* What may pass in any span of a window: the limit and, where the time is  *)
(* taken before Redis is asked, one for every other caller under way. Two   *)
(* fixed windows may meet in the span, each opened again by any caller that *)
(* found none, and the others pass late at its start, its end and where     *)
(* the windows meet.                                                        *)
Others == Cardinality(Callers) - 1
MayPass ==
  CASE kind = "memory" -> MaxRequests
    [] kind \in {"commands", "script"} -> MaxRequests + Others
    [] kind = "fixed" -> 2 * Cardinality(Callers) * MaxRequests + 3 * Others

(* No span of a window lets more through, however late the commands of      *)
(* Redis run; requests of one instant are one to a sorted set, and here.    *)
WindowHolds ==
  \A t \in Instants : Total(passed, {s \in Since(t) : s <= t}) <= MayPass
=============================================================================
