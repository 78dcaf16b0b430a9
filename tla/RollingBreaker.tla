--------------------------- MODULE RollingBreaker ---------------------------
(***************************************************************************)
(* The rolling-window breaker of reliability/circuit_breaker.py: `call`    *)
(* by concurrent callers. A closed breaker that has seen enough failures   *)
(* opens only when it is next asked; a half-open one lets everyone         *)
(* through, and the first result, whoever's, decides it.                   *)
(* `since` is the age of the state, `window` the results in the rolling    *)
(* window with their ages; both stop where the code stops comparing.       *)
(***************************************************************************)
EXTENDS Naturals, Sequences

CONSTANTS Callers,
          Threshold,    \* failure_threshold
          Percentage,   \* failure_percentage_threshold
          MinRequests,  \* min_requests_in_window
          Recovery,     \* recovery_timeout_ms, in time units
          Window,       \* rolling_window_ms, in time units
          Kept          \* maxlen of the deque

VARIABLES state, since, consecutive, window, calling
vars == <<state, since, consecutive, window, calling>>

Least(a, b) == IF a <= b THEN a ELSE b

Init ==
  /\ state = "closed" /\ since = 0 /\ consecutive = 0
  /\ window = <<>> /\ calling = {}

TypeOK ==
  /\ state \in {"closed", "open", "half_open"}
  /\ since \in 0..Recovery /\ consecutive \in 0..Threshold
  /\ window \in Seq([ok : BOOLEAN, age : 0..Window]) /\ Len(window) <= Kept
  /\ calling \subseteq Callers

Enters(s) == state' = s /\ since' = IF s = state THEN since ELSE 0

should_open ==
  LET errors == Len(SelectSeq(window, LAMBDA r : ~r.ok)) IN
    \/ consecutive >= Threshold
    \/ Len(window) >= MinRequests /\ 100 * errors >= Percentage * Len(window)

\* Variant: a refused request starts the recovery wait again.
Refused_Restarts(c) ==
  /\ c \notin calling
  /\ state = "open" /\ since < Recovery
  /\ since' = 0
  /\ UNCHANGED <<state, consecutive, window, calling>>
(* _can_attempt_request: refused, refused because this request opens the    *)
(* breaker, or let through - as a test when the wait is over.               *)
Refused(c) ==
  /\ c \notin calling
  /\ state = "open" /\ since < Recovery
  /\ UNCHANGED vars

Opens(c) ==
  /\ c \notin calling
  /\ state = "closed" /\ should_open
  /\ Enters("open")
  /\ UNCHANGED <<consecutive, window, calling>>

Begin(c) ==
  /\ c \notin calling
  /\ \/ state = "closed" /\ ~should_open /\ Enters("closed")
     \/ state = "open" /\ since >= Recovery /\ Enters("half_open")
     \/ state = "half_open" /\ Enters("half_open")
  /\ calling' = calling \cup {c}
  /\ UNCHANGED <<consecutive, window>>

Remembers(ok) ==
  LET all == Append(window, [ok |-> ok, age |-> 0])
  IN window' = IF Len(all) > Kept THEN Tail(all) ELSE all

Succeeds(c) ==
  /\ c \in calling
  /\ calling' = calling \ {c}
  /\ consecutive' = 0
  /\ Remembers(TRUE)
  /\ Enters(IF state = "half_open" THEN "closed" ELSE state)

(* An exception or the timeout of wait_for. *)
Fails(c) ==
  /\ c \in calling
  /\ calling' = calling \ {c}
  /\ consecutive' = Least(consecutive + 1, Threshold)
  /\ Remembers(FALSE)
  /\ Enters(IF state = "half_open" THEN "open" ELSE state)

(* A cancelled caller reports nothing. *)
Cancelled(c) ==
  /\ c \in calling
  /\ calling' = calling \ {c}
  /\ UNCHANGED <<state, since, consecutive, window>>

reset ==
  /\ state' = "closed" /\ since' = 0 /\ consecutive' = 0 /\ window' = <<>>
  /\ UNCHANGED calling

(* A unit of time; results older than the window are not looked at again. *)
Tick ==
  /\ since' = Least(since + 1, Recovery)
  /\ window' = SelectSeq([i \in DOMAIN window |-> [window[i] EXCEPT !.age = @ + 1]],
                         LAMBDA r : r.age <= Window)
  /\ UNCHANGED <<state, consecutive, calling>>

Asks(c) == Refused(c) \/ Opens(c) \/ Begin(c)
Reports(c) == Succeeds(c) \/ Fails(c) \/ Cancelled(c)
Next == (\E c \in Callers : Asks(c) \/ Reports(c)) \/ reset \/ Tick

(* Requests keep coming, calls end by their timeout, and time passes. *)
Fairness ==
  /\ WF_vars(\E c \in Callers : Opens(c) \/ Begin(c))
  /\ WF_vars(\E c \in Callers : Reports(c))
  /\ WF_vars(Tick)

Spec == Init /\ [][Next]_vars /\ Fairness

(* An open breaker that is asked again and again is tested again. *)
OpenEnds == []<>(state # "open")
=============================================================================
