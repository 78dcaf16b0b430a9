--------------------------- MODULE ScalableSockets ---------------------------
(***************************************************************************)
(* infrastructure/websocket_scalable.py: the Socket.IO handlers connect,   *)
(* disconnect, message and join_room of one server, each a task of its own *)
(* that may suspend several times, and the loops that watch presence and   *)
(* stale sockets. A socket is idle that has not been heard of for as long  *)
(* as the loops wait. A session id is made for every socket, so sockets stand for    *)
(* both. `overtaken` remembers the sockets whose disconnect handler ran    *)
(* while their connect handler was still under way.                        *)
(***************************************************************************)
EXTENDS Naturals, FiniteSets

CONSTANTS Sockets, Users, Rooms, None, Joins,
          user, home          \* a socket's user, and the room it starts in

VARIABLES connections, status, room, sessions, members, presence,
          connecting, leaving, joining, overtaken
vars == <<connections, status, room, sessions, members, presence,
          connecting, leaving, joining, overtaken>>
tables == <<connections, status, room, sessions, members>>

Init ==
  /\ connections = {} /\ overtaken = {}
  /\ status = [c \in Sockets |-> None]
  /\ room = [c \in Sockets |-> home[c]]
  /\ sessions = [u \in Users |-> {}]
  /\ members = [r \in Rooms |-> {}]
  /\ presence = [u \in Users |-> None]
  /\ connecting = [c \in Sockets |-> "limit"]
  /\ leaving = [c \in Sockets |-> "no"]
  /\ joining = [j \in Joins |-> None]

TypeOK ==
  /\ connections \subseteq Sockets /\ overtaken \subseteq Sockets
  /\ status \in [Sockets -> {"connected", "idle", "disconnected", None}]
  /\ room \in [Sockets -> Rooms]
  /\ sessions \in [Users -> SUBSET Sockets]
  /\ members \in [Rooms -> SUBSET Sockets]
  /\ presence \in [Users -> {"online", "away", "offline", "claimed", None}]
  /\ connecting \in [Sockets -> {"limit", "room", "queue", "done", "refused"}]
  /\ leaving \in [Sockets -> {"no", "room", "rest", "done"}]
  /\ joining \in [Joins -> [socket : Sockets, to : Rooms, at : {"leave", "enter"}]
                           \cup {None}]

Connecting(c, step) == connecting' = [connecting EXCEPT ![c] = step]
Leaving(c, step) == leaving' = [leaving EXCEPT ![c] = step]

(* This server's view; the copy in Redis is written after it.               *)
_update_user_presence(u, s) == presence' = [presence EXCEPT ![u] = s]

(* A token that is not valid, or the rate limit, which asks Redis. *)
Refused(c) ==
  /\ connecting[c] = "limit"
  /\ Connecting(c, "refused")
  /\ UNCHANGED <<tables, presence, leaving, joining, overtaken>>

Stored(c) ==
  /\ connecting[c] = "limit"
  /\ connections' = connections \cup {c}
  /\ status' = [status EXCEPT ![c] = "connected"]
  /\ sessions' = [sessions EXCEPT ![user[c]] = @ \cup {c}]
  /\ Connecting(c, "room")
  /\ UNCHANGED <<room, members, presence, leaving, joining, overtaken>>

(* enter_room returns; the room is the one the connection has by now. *)
Entered(c) ==
  /\ connecting[c] = "room"
  /\ members' = [members EXCEPT ![room[c]] = @ \cup {c}]
  /\ _update_user_presence(user[c], "online")
  /\ Connecting(c, "queue")
  /\ UNCHANGED <<connections, status, room, sessions, leaving, joining, overtaken>>

(* The queued messages are sent and the others told. *)
Welcomed(c) ==
  /\ connecting[c] = "queue"
  /\ Connecting(c, "done")
  /\ UNCHANGED <<tables, presence, leaving, joining, overtaken>>

(* The socket goes, or the server disconnects a stale one; a handler that   *)
(* finds no connection yet has nothing to do.                               *)
disconnect(c) ==
  /\ leaving[c] = "no"
  /\ IF c \in connections
       THEN Leaving(c, "room") /\ status' = [status EXCEPT ![c] = "disconnected"]
       ELSE Leaving(c, "done") /\ UNCHANGED status
  /\ overtaken' = IF connecting[c] = "done" THEN overtaken ELSE overtaken \cup {c}
  /\ UNCHANGED <<connections, room, sessions, members, presence, connecting, joining>>

\* Variant: the user is offline with any of its sockets.
Left_Offline(c) ==
  /\ leaving[c] = "room"
  /\ members' = [members EXCEPT ![room[c]] = @ \ {c}]
  /\ sessions' = [sessions EXCEPT ![user[c]] = @ \ {c}]
  /\ _update_user_presence(user[c], "offline")
  /\ Leaving(c, "rest")
  /\ UNCHANGED <<connections, status, room, connecting, joining, overtaken>>

(* leave_room returns: the last of a user's sockets takes the user offline. *)
Left(c) ==
  /\ leaving[c] = "room"
  /\ members' = [members EXCEPT ![room[c]] = @ \ {c}]
  /\ sessions' = [sessions EXCEPT ![user[c]] = @ \ {c}]
  /\ IF sessions[user[c]] \subseteq {c}
       THEN _update_user_presence(user[c], "offline") ELSE UNCHANGED presence
  /\ Leaving(c, "rest")
  /\ UNCHANGED <<connections, status, room, connecting, joining, overtaken>>

Removed(c) ==
  /\ leaving[c] = "rest"
  /\ connections' = connections \ {c}
  /\ Leaving(c, "done")
  /\ UNCHANGED <<status, room, sessions, members, presence, connecting, joining, overtaken>>

join_room(j, c, r) ==
  /\ joining[j] = None
  /\ c \in connections /\ leaving[c] = "no"
  /\ joining' = [joining EXCEPT ![j] = [socket |-> c, to |-> r, at |-> "leave"]]
  /\ UNCHANGED <<tables, presence, connecting, leaving, overtaken>>

LeftForJoin(j) ==
  LET c == joining[j].socket IN
    /\ joining[j] # None /\ joining[j].at = "leave"
    /\ members' = [members EXCEPT ![room[c]] = @ \ {c}]
    /\ room' = [room EXCEPT ![c] = joining[j].to]
    /\ joining' = [joining EXCEPT ![j].at = "enter"]
    /\ UNCHANGED <<connections, status, sessions, presence, connecting, leaving, overtaken>>

Joined(j) ==
  /\ joining[j] # None /\ joining[j].at = "enter"
  /\ members' = [members EXCEPT ![joining[j].to] = @ \cup {joining[j].socket}]
  /\ joining' = [joining EXCEPT ![j] = None]
  /\ UNCHANGED <<connections, status, room, sessions, presence, connecting, leaving, overtaken>>

Open(c) == c \in connections /\ status[c] \in {"connected", "idle"}
Ages(c) ==
  /\ c \in connections /\ status[c] = "connected"
  /\ status' = [status EXCEPT ![c] = "idle"]
  /\ UNCHANGED <<connections, room, sessions, members, presence,
                 connecting, leaving, joining, overtaken>>

(* Any message, one that says how its user is among them.                   *)
Heard(c) ==
  /\ c \in connections /\ leaving[c] = "no"
  /\ status' = IF status[c] = "idle" THEN [status EXCEPT ![c] = "connected"] ELSE status
  /\ UNCHANGED <<connections, room, sessions, members, connecting, leaving, joining, overtaken>>
message(c) == Heard(c) /\ UNCHANGED presence
(* Whatever the client says is stored, unchecked: an "offline" that is its  *)
(* word only is told apart as "claimed"; other words count as away.         *)
_handle_presence_message(c) ==
  /\ Heard(c)
  /\ \E s \in {"online", "away", "claimed"} : _update_user_presence(user[c], s)

(* What its user is, by one of its sockets; some way to idle it is away.    *)
_update_presence_info(c) ==
  /\ Open(c)
  /\ \E s \in {"online", "away"} :
       /\ s = "online" => status[c] = "connected"
       /\ _update_user_presence(user[c], s)
  /\ UNCHANGED <<tables, connecting, leaving, joining, overtaken>>

\* Variant: those are cleaned up that are known to be gone.
_cleanup_connections_Gone(c) ==
  /\ c \in connections /\ status[c] = "disconnected"
  /\ disconnect(c)
(* Socket.IO disconnects the idle socket and so runs its handler - not for  *)
(* a socket it has disconnected before.                                     *)
_cleanup_connections(c) ==
  /\ c \in connections /\ status[c] = "idle"
  /\ disconnect(c)

Next ==
  \/ \E c \in Sockets :
       \/ Refused(c) \/ Stored(c) \/ Entered(c) \/ Welcomed(c)
       \/ disconnect(c) \/ Left(c) \/ Removed(c)
       \/ Ages(c) \/ message(c) \/ _handle_presence_message(c)
       \/ _update_presence_info(c) \/ _cleanup_connections(c)
       \/ \E j \in Joins, r \in Rooms : join_room(j, c, r)
  \/ \E j \in Joins : LeftForJoin(j) \/ Joined(j)

Fairness ==
  \A c \in Sockets : WF_vars(_cleanup_connections(c)) /\ WF_vars(Left(c) \/ Removed(c))

Spec == Init /\ [][Next]_vars /\ Fairness

Settled(c) ==
  /\ connecting[c] = "done" /\ leaving[c] = "no"
  /\ \A j \in Joins : joining[j] # None => joining[j].socket # c

(* A connected socket is in its user's sessions and, once its handlers have *)
(* come to rest, a member of its room: none of the moves it made at the     *)
(* same time has taken it out again.                                        *)
SocketIsListed ==
  \A c \in connections :
    /\ Open(c) => c \in sessions[user[c]]
    /\ Settled(c) => c \in members[room[c]]
(* A user is offline only without a connected socket - unless one of them   *)
(* said so by the last word there was - and is offline when all have gone,  *)
(* unless one of them went before it had quite come.                        *)
PresenceIsRight ==
  \A u \in Users :
    LET mine == {c \in Sockets : user[c] = u} IN
      /\ presence[u] = "offline" => \A c \in mine : ~Settled(c)
      /\ /\ \E c \in mine : leaving[c] \in {"rest", "done"}
         /\ \A c \in mine : leaving[c] \in {"rest", "done"} \/ connecting[c] \in {"limit", "refused"}
         /\ mine \cap overtaken = {}
         => presence[u] = "offline"
(* A socket that has fallen silent does not stay in the table, unless it    *)
(* went before it had quite come.                                           *)
SilentEnds ==
  \A c \in Sockets :
    []<>(c \notin connections \/ status[c] = "connected" \/ c \in overtaken)
=============================================================================
