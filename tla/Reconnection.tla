---------------------------- MODULE Reconnection ----------------------------
(***************************************************************************)
(* streaming/reconnection.py for one session id: connections and           *)
(* disconnections are handled by concurrent callers, each around an await, *)
(* and a background loop reconnects. Whoever got hold of a session's       *)
(* information keeps it when the session is registered anew; `current` is  *)
(* the one the table holds. A cancelled loop runs no more: at most one,    *)
(* the one in reconnect_tasks, is at work.                                 *)
(***************************************************************************)
EXTENDS Naturals

CONSTANTS Callers, None, MaxAttempts,
          Infos,                   \* bound of the model: registrations
          MaxCalls                 \* bound of the model: calls from outside

VARIABLES current, state, attempts, loop, doing, calls, dropped
vars == <<current, state, attempts, loop, doing, calls, dropped>>

Init ==
  /\ current = None
  /\ state = [i \in Infos |-> "unused"]
  /\ attempts = [i \in Infos |-> 0]
  /\ loop = None                              \* what the task works on
  /\ doing = [c \in Callers |-> None]
  /\ calls = 0
  /\ dropped = {}

Step == {"sleeping", "trying", "reporting"}
TypeOK ==
  /\ current \in Infos \cup {None}
  /\ state \in [Infos -> {"unused", "idle", "connecting", "connected",
                          "reconnecting", "failed"}]
  /\ attempts \in [Infos -> 0..MaxAttempts]
  /\ loop \in [info : Infos, at : Step] \cup {None}
  /\ doing \in [Callers -> [what : {"connect", "greet", "notify", "notify_last"}, info : Infos]
                           \cup {None}]
  /\ calls \in 0..MaxCalls /\ dropped \subseteq Infos

Turns(i, s) == state' = [state EXCEPT ![i] = s]
Free(i) == state[i] = "unused"
Call(c) == doing[c] = None /\ calls < MaxCalls /\ calls' = calls + 1
Waits(c, what, i) == doing' = [doing EXCEPT ![c] = [what |-> what, info |-> i]]
Doing(c, what) == doing[c] # None /\ doing[c].what = what
Ended(c) == doing' = [doing EXCEPT ![c] = None]

register_session(i) ==
  /\ Free(i)
  /\ current' = i /\ Turns(i, "idle")
  /\ UNCHANGED <<attempts, loop, doing, calls, dropped>>

(* Registers a session it does not know. A loop at work is left at work. *)
handle_connection(c) ==
  /\ Call(c)
  /\ \E i \in Infos :
       /\ IF current = None THEN Free(i) ELSE i = current
       /\ current' = i /\ Turns(i, "connecting") /\ Waits(c, "connect", i)
  /\ UNCHANGED <<attempts, loop, dropped>>

Connected(i) ==
  /\ Turns(i, "connected")
  /\ attempts' = [attempts EXCEPT ![i] = 0]

(* The attempt succeeds and on_connect is called, fails, or is cancelled. *)
Connects(c) ==
  /\ Doing(c, "connect")
  /\ \/ Connected(doing[c].info) /\ Waits(c, "greet", doing[c].info)
     \/ Turns(doing[c].info, "failed") /\ Ended(c) /\ UNCHANGED attempts
     \/ Ended(c) /\ UNCHANGED <<state, attempts>>
  /\ UNCHANGED <<current, loop, calls, dropped>>

(* An on_connect that raises makes the connection a failed one. *)
Greeted(c) ==
  /\ Doing(c, "greet")
  /\ UNCHANGED state \/ Turns(doing[c].info, "failed")
  /\ Ended(c)
  /\ UNCHANGED <<current, attempts, loop, calls, dropped>>

handle_disconnection(c, reconnect) ==
  /\ Call(c) /\ current # None
  /\ Turns(current, IF reconnect THEN "reconnecting" ELSE "failed")
  /\ Waits(c, IF reconnect THEN "notify" ELSE "notify_last", current)
  /\ UNCHANGED <<current, attempts, loop, dropped>>

(* After on_disconnect: the loop that works, if any, is replaced by one     *)
(* that looks the session up; a session that has been removed meanwhile     *)
(* makes it fail at once.                                                   *)
Notified(c) ==
  /\ Doing(c, "notify") \/ Doing(c, "notify_last")
  /\ loop' = IF doing[c].what = "notify_last" THEN loop
             ELSE IF current = None THEN None
             ELSE [info |-> current, at |-> "sleeping"]
  /\ Ended(c)
  /\ UNCHANGED <<current, state, attempts, calls, dropped>>

(* on_disconnect raises, or the caller is cancelled: no loop is started. *)
NotNotified(c) ==
  /\ Doing(c, "notify") \/ Doing(c, "notify_last")
  /\ dropped' = dropped \cup {doing[c].info}
  /\ Ended(c)
  /\ UNCHANGED <<current, state, attempts, loop, calls>>

At(step) == loop # None /\ loop.at = step
GoesTo(step) == loop' = [loop EXCEPT !.at = step]

(* The loop as it starts or after a failed attempt: out of attempts, it     *)
(* reports the failure, and fails itself when the session is gone.          *)
GivesUp ==
  /\ Turns(loop.info, "failed")
  /\ IF current = None THEN loop' = None ELSE GoesTo("reporting")

Wake ==
  /\ At("sleeping")
  /\ \/ /\ attempts[loop.info] >= MaxAttempts
        /\ GivesUp
        /\ UNCHANGED attempts
     \/ /\ attempts[loop.info] < MaxAttempts
        /\ attempts' = [attempts EXCEPT ![loop.info] = @ + 1]
        /\ Turns(loop.info, "reconnecting")
        /\ IF current = None THEN loop' = None ELSE GoesTo("trying")
  /\ UNCHANGED <<current, doing, calls, dropped>>

Reconnects ==
  /\ At("trying")
  /\ Connected(loop.info)
  /\ loop' = None
  /\ UNCHANGED <<current, doing, calls, dropped>>

(* A timeout or an error; or there is no on_reconnect to call. *)
NotReconnects ==
  /\ At("trying")
  /\ IF attempts[loop.info] < MaxAttempts
       THEN GoesTo("sleeping") /\ UNCHANGED state
       ELSE GivesUp
  /\ UNCHANGED <<current, attempts, doing, calls, dropped>>
NoCallback ==
  /\ At("trying")
  /\ GivesUp
  /\ UNCHANGED <<current, attempts, doing, calls, dropped>>

Reported ==
  /\ At("reporting")
  /\ loop' = None
  /\ UNCHANGED <<current, state, attempts, doing, calls, dropped>>

\* Variant: the loop is cancelled and the state left as it is.
cancel_reconnection_KeepsState ==
  /\ loop # None /\ loop' = None
  /\ UNCHANGED <<current, state, attempts, doing, calls, dropped>>

cancel_reconnection ==
  /\ loop' = None
  /\ IF current = None THEN UNCHANGED state ELSE Turns(current, "idle")
  /\ UNCHANGED <<current, attempts, doing, calls, dropped>>

force_reconnect(c) ==
  /\ Call(c) /\ current # None
  /\ loop' = None
  /\ attempts' = [attempts EXCEPT ![current] = 0]
  /\ Turns(current, "reconnecting") /\ Waits(c, "notify", current)
  /\ UNCHANGED <<current, dropped>>

(* An old session goes, with its callbacks and without its loop. *)
cleanup ==
  /\ current # None /\ state[current] \in {"idle", "failed"}
  /\ current' = None
  /\ UNCHANGED <<state, attempts, loop, doing, calls, dropped>>

LoopStep == Wake \/ Reconnects \/ NotReconnects \/ NoCallback \/ Reported
Next ==
  \/ \E i \in Infos : register_session(i)
  \/ \E c \in Callers :
       \/ handle_connection(c) \/ Connects(c) \/ Greeted(c) \/ force_reconnect(c)
       \/ \E reconnect \in BOOLEAN : handle_disconnection(c, reconnect)
       \/ Notified(c) \/ NotNotified(c)
  \/ LoopStep \/ cancel_reconnection \/ cleanup

(* Sleeps, attempts and callbacks have an end. *)
Fairness ==
  /\ WF_vars(LoopStep)
  /\ \A c \in Callers : WF_vars(Notified(c))

Spec == Init /\ [][Next]_vars /\ Fairness

(* A session that is said to be reconnecting is being reconnected, or will  *)
(* be as soon as its disconnection has been reported.                       *)
ReconnectingIsPursued ==
  current # None /\ current \notin dropped /\ state[current] = "reconnecting" =>
    \/ loop # None /\ loop.info = current
    \/ \E c \in Callers : Doing(c, "notify") /\ doing[c].info = current
(* Left alone, the loop comes to an end. *)
LoopEnds == []<>(loop = None)
=============================================================================
