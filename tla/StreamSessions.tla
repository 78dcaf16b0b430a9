--------------------------- MODULE StreamSessions ---------------------------
(***************************************************************************)
(* streaming/websocket_manager.py: sessions connect (again, with a token), *)
(* disconnect, join and leave rooms; the heartbeat and the clean-up loop   *)
(* disconnect those that have gone. Calls interleave at their awaits. A    *)
(* disconnection works on the connection it found, and deletes whichever   *)
(* its session has at the end. Tokens are numbered; the queues of unsent   *)
(* messages are left out.                                                  *)
(***************************************************************************)
EXTENDS Naturals, FiniteSets

CONSTANTS Sessions, Rooms, None, Callers, Loops, MaxConnections,
          Tokens                   \* bound of the model: connections made

VARIABLES connections, tokens, expiring, rooms, doing
vars == <<connections, tokens, expiring, rooms, doing>>

Connection == [token : Tokens, rooms : SUBSET Rooms,
               state : {"connected", "reconnecting", "disconnected"}, stale : BOOLEAN]
Activity ==
  [what : {"accept", "confirm"}, session : Sessions]
  \cup [what : {"close"}, session : Sessions, token : Tokens, rooms : SUBSET Rooms]

Init ==
  /\ connections = [s \in Sessions |-> None]
  /\ tokens = [t \in Tokens |-> None]
  /\ expiring = {}
  /\ rooms = [r \in Rooms |-> {}]
  /\ doing = [p \in Callers \cup Loops |-> None]

TypeOK ==
  /\ connections \in [Sessions -> Connection \cup {None}]
  /\ tokens \in [Tokens -> Sessions \cup {None}]
  /\ expiring \subseteq Tokens
  /\ rooms \in [Rooms -> SUBSET Sessions]
  /\ doing \in [Callers \cup Loops -> Activity \cup {None}]

Known == {s \in Sessions : connections[s] # None}
Does(p, activity) == doing' = [doing EXCEPT ![p] = activity]
Doing(p, what) == doing[p] # None /\ doing[p].what = what

(* With a token or without, a session that is there gets a new connection.  *)
(* What is queued is written before the socket is accepted.                 *)
connect(p, s) ==
  /\ p \in Callers /\ doing[p] = None
  /\ Cardinality(Known) < MaxConnections
  /\ Does(p, [what |-> "accept", session |-> s])
  /\ UNCHANGED <<connections, tokens, expiring, rooms>>

(* accept raised, or the socket is gone. *)
NotAccepted(p) ==
  /\ Doing(p, "accept")
  /\ Does(p, None)
  /\ UNCHANGED <<connections, tokens, expiring, rooms>>

Fresh(t) ==
  /\ tokens[t] = None /\ t \notin expiring
  /\ \A s \in Known : connections[s].token # t
  /\ \A p \in DOMAIN doing : Doing(p, "close") => doing[p].token # t
Accepted(p) ==
  LET s == doing[p].session IN
    /\ Doing(p, "accept")
    /\ \E t \in Tokens :
         /\ Fresh(t) /\ \A u \in Tokens : u < t => ~Fresh(u)
         /\ connections' = [connections EXCEPT ![s] =
              [token |-> t, rooms |-> {}, state |-> "connected",
               stale |-> FALSE]]
         /\ tokens' = [tokens EXCEPT ![t] = s]
    /\ Does(p, [what |-> "confirm", session |-> s])
    /\ UNCHANGED <<expiring, rooms>>

Confirmed(p) ==
  /\ Doing(p, "confirm")
  /\ Does(p, None)
  /\ UNCHANGED <<connections, tokens, expiring, rooms>>

disconnect(p, s) ==
  /\ s \in Known
  /\ connections' = [connections EXCEPT ![s].state = "disconnected"]
  /\ Does(p, [what |-> "close", session |-> s, token |-> connections[s].token,
              rooms |-> connections[s].rooms])
  /\ UNCHANGED <<tokens, expiring, rooms>>

Disconnect(p, s) ==
  /\ p \in Callers /\ doing[p] = None
  /\ disconnect(p, s)

\* Variant: a session leaves the room and its connection does not notice.
Leaves_RoomOnly(s, r) ==
  /\ rooms' = [rooms EXCEPT ![r] = @ \ {s}]
  /\ UNCHANGED connections

(* leave_room: the session leaves, and its connection of now. *)
Leaves(s, r) ==
  /\ rooms' = [rooms EXCEPT ![r] = @ \ {s}]
  /\ connections' = IF s \in rooms[r] /\ s \in Known
                      THEN [connections EXCEPT ![s].rooms = @ \ {r}] ELSE connections

LeavesOne(p) ==
  /\ Doing(p, "close")
  /\ \E r \in doing[p].rooms :
       /\ Leaves(doing[p].session, r)
       /\ doing' = [doing EXCEPT ![p].rooms = @ \ {r}]
  /\ UNCHANGED <<tokens, expiring>>

(* The socket is closed and the table's entry deleted. There being none     *)
(* raises, and the token then stays; a loop goes on with its next round.    *)
Closed(p) ==
  LET s == doing[p].session IN
    /\ Doing(p, "close") /\ doing[p].rooms = {}
    /\ Does(p, None)
    /\ IF s \in Known
         THEN /\ connections' = [connections EXCEPT ![s] = None]
              /\ expiring' = expiring \cup {doing[p].token}
         ELSE UNCHANGED <<connections, expiring>>
    /\ UNCHANGED <<tokens, rooms>>

_cleanup_reconnect_token(t) ==
  /\ t \in expiring
  /\ expiring' = expiring \ {t} /\ tokens' = [tokens EXCEPT ![t] = None]
  /\ UNCHANGED <<connections, rooms, doing>>

(* A write of any of the calls finds the connection lost.                   *)
SendFails(s) ==
  /\ s \in Known
  /\ connections' = [connections EXCEPT ![s].state = "reconnecting"]
  /\ UNCHANGED <<tokens, expiring, rooms, doing>>

join_room(s, r) ==
  /\ s \in Known
  /\ rooms' = [rooms EXCEPT ![r] = @ \cup {s}]
  /\ connections' = [connections EXCEPT ![s].rooms = @ \cup {r}]
  /\ UNCHANGED <<tokens, expiring, doing>>

leave_room(s, r) ==
  /\ s \in rooms[r]
  /\ Leaves(s, r)
  /\ UNCHANGED <<tokens, expiring, doing>>

Ages(s) ==
  /\ s \in Known
  /\ connections' = [connections EXCEPT ![s].stale = TRUE]
  /\ UNCHANGED <<tokens, expiring, rooms, doing>>
handle_heartbeat(s) ==
  /\ s \in Known
  /\ connections' = [connections EXCEPT ![s].stale = FALSE]
  /\ UNCHANGED <<tokens, expiring, rooms, doing>>

\* Variant: only those that wait to be taken up again are ever looked at.
Gone_Reconnecting(l, c) == c.stale /\ c.state = "reconnecting"
(* The loops go through all sessions, round after round: the heartbeat      *)
(* disconnects the stale ones, the clean-up those of them that wait to be   *)
(* taken up again.                                                          *)
Gone(l, c) == c.stale /\ (l = "heartbeat" \/ c.state = "reconnecting")
Watch(l, s) ==
  /\ doing[l] = None
  /\ s \in Known /\ Gone(l, connections[s])
  /\ disconnect(l, s)

Next ==
  \/ \E p \in Callers :
       \/ NotAccepted(p) \/ Accepted(p) \/ Confirmed(p)
       \/ \E s \in Sessions : connect(p, s) \/ Disconnect(p, s)
       \/ LeavesOne(p) \/ Closed(p)
  \/ \E t \in Tokens : _cleanup_reconnect_token(t)
  \/ \E s \in Sessions :
       \/ SendFails(s) \/ Ages(s) \/ handle_heartbeat(s)
       \/ \E r \in Rooms : join_room(s, r) \/ leave_room(s, r)
  \/ \E l \in Loops : LeavesOne(l) \/ Closed(l) \/ \E s \in Sessions : Watch(l, s)

Fairness ==
  /\ \A s \in Sessions : WF_vars(Watch("heartbeat", s))
  /\ WF_vars(LeavesOne("heartbeat") \/ Closed("heartbeat"))

Spec == Init /\ [][Next]_vars /\ Fairness

(* The limit is passed by no more than the connections being accepted at    *)
(* the same time.                                                           *)
LimitHolds == Cardinality(Known) < MaxConnections + Cardinality(Callers)
(* The rooms a connection has joined know its session, whoever connects and *)
(* disconnects it at the same time.                                         *)
MemberIsInRoom == \A s \in Known : \A r \in connections[s].rooms : s \in rooms[r]
(* The token a connected client was given leads back to its session. *)
TokenLeadsHome == \A s \in Known : tokens[connections[s].token] = s
(* A connection whose client has fallen silent does not stay in the table. *)
StaleEnds == \A s \in Sessions : []<>(s \notin Known \/ ~connections[s].stale)
=============================================================================
