--------------------------- MODULE ConnectionPool ---------------------------
(***************************************************************************)
(* infrastructure/connection_pool.py: users acquire and release            *)
(* connections that are checked, created under a lock and closed, each     *)
(* with an await; a breaker refuses when creating has failed too often.    *)
(* Connections are alike, so the queue is a number. `active` is            *)
(* active_connections; the breaker's window of results is two counters     *)
(* that time may take away.                                                *)
(***************************************************************************)
EXTENDS Naturals, FiniteSets

CONSTANTS Users, None, MaxSize, MinSize,
          ToClose,   \* successes a half-open breaker wants
          MaxResults \* bound of the model on the results in the window

VARIABLES idle, active, lock, at, closing, breaker, good, bad, elapsed
vars == <<idle, active, lock, at, closing, breaker, good, bad, elapsed>>
circuit == <<breaker, good, bad, elapsed>>

Init ==
  /\ idle = MinSize /\ active = MinSize
  /\ lock = None /\ closing = FALSE
  /\ at = [u \in Users |-> "out"]
  /\ breaker = [state |-> "closed", successes |-> 0]
  /\ good = 0 /\ bad = 0 /\ elapsed = FALSE

(* Where a user holds a connection: while it is checked, used or closed. *)
Holding == {"checking", "using", "rejecting", "returning"}
TypeOK ==
  /\ idle \in 0..MaxSize /\ active \in 0..MaxSize
  /\ lock \in Users \cup {None} /\ closing \in BOOLEAN
  /\ at \in [Users -> Holding \cup {"out", "locking", "creating", "waiting"}]
  /\ breaker \in [state : {"closed", "open", "half_open"}, successes : 0..ToClose]
  /\ good \in 0..MaxResults /\ bad \in 0..MaxResults /\ elapsed \in BOOLEAN

Goes(u, place) == at' = [at EXCEPT ![u] = place]

(* is_open makes the breaker half-open when its timeout is over. *)
IsOpen == breaker.state = "open" /\ ~elapsed
Asked == IF breaker.state = "open" /\ elapsed
           THEN [state |-> "half_open", successes |-> 0] ELSE breaker

(* acquire up to its first await; a rejected connection leads back here. *)
Acquires(u) ==
  \/ /\ IsOpen
     /\ Goes(u, "out")
     /\ UNCHANGED <<idle, breaker>>
  \/ /\ ~IsOpen
     /\ breaker' = Asked
     /\ \/ idle > 0 /\ idle' = idle - 1 /\ Goes(u, "checking")
        \/ idle = 0 /\ Goes(u, "locking") /\ UNCHANGED idle

Acquire(u) ==
  /\ at[u] = "out"
  /\ Acquires(u)
  /\ UNCHANGED <<active, lock, closing, good, bad, elapsed>>

Checked(u) ==
  /\ at[u] = "checking"
  /\ Goes(u, "using") \/ Goes(u, "rejecting")
  /\ UNCHANGED <<idle, active, lock, closing, circuit>>

(* A connection whose close raises stays counted. *)
Closes == active' = active - 1 \/ UNCHANGED active

Rejected(u) ==
  /\ at[u] = "rejecting"
  /\ Closes
  /\ Acquires(u)
  /\ UNCHANGED <<lock, closing, good, bad, elapsed>>

\* Variant: the size is compared before the lock is asked for.
Locks_Late(u) ==
  /\ at[u] = "locking"
  /\ IF active < MaxSize THEN lock' = u /\ Goes(u, "creating")
                         ELSE Goes(u, "waiting") /\ UNCHANGED lock
  /\ UNCHANGED <<idle, active, closing, circuit>>

Locks(u) ==
  /\ at[u] = "locking" /\ lock = None
  /\ IF active < MaxSize THEN lock' = u /\ Goes(u, "creating")
                         ELSE Goes(u, "waiting") /\ UNCHANGED lock
  /\ UNCHANGED <<idle, active, closing, circuit>>

Created(u) ==
  /\ at[u] = "creating"
  /\ good + bad < MaxResults
  /\ active' = active + 1 /\ lock' = None /\ good' = good + 1
  /\ breaker' = IF breaker.state # "half_open" THEN breaker
                ELSE IF breaker.successes + 1 < ToClose
                  THEN [breaker EXCEPT !.successes = @ + 1]
                  ELSE [state |-> "closed", successes |-> 0]
  /\ Goes(u, "using")
  /\ UNCHANGED <<idle, closing, bad, elapsed>>

(* More than half of the results bad opens a closed breaker. *)
NotCreated(u) ==
  /\ at[u] = "creating"
  /\ good + bad < MaxResults
  /\ lock' = None /\ bad' = bad + 1 /\ elapsed' = FALSE
  /\ breaker' = IF breaker.state = "half_open" \/
                   (breaker.state = "closed" /\ bad + 1 > good)
                  THEN [breaker EXCEPT !.state = "open"] ELSE breaker
  /\ Goes(u, "out")
  /\ UNCHANGED <<idle, active, closing, good>>

(* A released connection, or the end of the wait. A connection that is      *)
(* closed instead of released wakes nobody.                                 *)
Gets(u) ==
  /\ at[u] = "waiting" /\ idle > 0
  /\ idle' = idle - 1 /\ Goes(u, "using")
  /\ UNCHANGED <<active, lock, closing, circuit>>
Exhausted(u) ==
  /\ at[u] = "waiting"
  /\ Goes(u, "out")
  /\ UNCHANGED <<idle, active, lock, closing, circuit>>

Release(u) ==
  /\ at[u] = "using"
  /\ IF closing \/ idle = MaxSize
       THEN Goes(u, "returning") /\ UNCHANGED idle
       ELSE Goes(u, "out") /\ idle' = idle + 1
  /\ UNCHANGED <<active, lock, closing, circuit>>
Returned(u) ==
  /\ at[u] = "returning"
  /\ Closes
  /\ Goes(u, "out")
  /\ UNCHANGED <<idle, lock, closing, circuit>>

(* close takes the connections that lie in the pool, one after the other. *)
Close ==
  /\ ~closing /\ closing' = TRUE
  /\ UNCHANGED <<idle, active, lock, at, circuit>>
CloseOne ==
  /\ closing /\ idle > 0
  /\ idle' = idle - 1
  /\ Closes
  /\ UNCHANGED <<lock, at, closing, circuit>>

(* The breaker's timeout runs out, and old results leave its window. *)
Elapse ==
  /\ elapsed' = TRUE
  /\ \E g \in 0..good, b \in 0..bad : good' = g /\ bad' = b
  /\ UNCHANGED <<idle, active, lock, at, closing, breaker>>

Next ==
  \/ \E u \in Users :
       \/ Acquire(u) \/ Checked(u) \/ Rejected(u) \/ Locks(u) \/ Created(u)
       \/ NotCreated(u) \/ Gets(u) \/ Exhausted(u) \/ Release(u) \/ Returned(u)
  \/ Close \/ CloseOne \/ Elapse

Spec == Init /\ [][Next]_vars

(* Every connection that exists is counted, and no more than max_size are   *)
(* counted: a slot can be lost to a close that fails, never doubled.        *)
Held == Cardinality({u \in Users : at[u] \in Holding})
EveryConnectionCounted == idle + Held <= active /\ active <= MaxSize
=============================================================================
