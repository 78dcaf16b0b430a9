--------------------------- MODULE WebSocketManager ---------------------------
(***************************************************************************)
(* The registry of websocket/ws_manager.py WebSocketManager under the      *)
(* endpoints of api/websocket.py and its two background loops.             *)
(*                                                                         *)
(* connect and disconnect do everything under one asyncio.Lock, which is   *)
(* not reentrant and serves its waiters in turn: "lock" is the queue of    *)
(* tasks, its head the holder.  Between two awaits a task runs alone, so   *)
(* the code from one await to the next is one step.  A peer that is gone   *)
(* may make a send fail or not: a write is noticed late, or never.         *)
(***************************************************************************)
EXTENDS Sequences, FiniteSets, Naturals

CONSTANTS
  Sockets,         \* connections that clients may open, each once
  Accounts,        \* the connections each user opens; the others have no token
  NoUser,
  MaxConnections,  \* max_connections
  NoSocket

ASSUME ManagerAssumption ==
  /\ MaxConnections \in Nat
  /\ NoSocket \notin Sockets
  /\ Sockets \cap {"heartbeat", "cleanup"} = {}
  /\ IsFiniteSet(Sockets)

VARIABLES
  lock,     \* _lock: its holder, then the tasks that wait for it
  closing,  \* the socket that the holder is closing in disconnect
  phase,    \* where the endpoint of a socket is
  left,     \* sockets that are closed, by their client or by disconnect
  active,   \* active_connections
  users,    \* user_connections
  loop,     \* where a background loop is
  todo,     \* connections the heartbeat has still to write to
  failed    \* failed_connections, inactive_connections

registry == <<active, users>>
work == <<loop, todo, failed>>
vars == <<lock, closing, phase, left, registry, work>>

\* A user is known by the first characters of its token: it is its connections.
User ==
  [s \in Sockets |->
     IF \E a \in Accounts : s \in a THEN CHOOSE a \in Accounts : s \in a ELSE NoUser]

Loops == {"heartbeat", "cleanup"}

Holds(t) == lock # <<>> /\ Head(lock) = t

\* A task asks for the lock; the holder lets it go; the holder lets it go and
\* asks again.
Asks(t) == lock' = Append(lock, t)
Releases == lock' = Tail(lock)
AsksAgain(t) == lock' = Append(Tail(lock), t)

Init ==
  /\ lock = <<>>
  /\ closing = NoSocket
  /\ phase = [s \in Sockets |-> "none"]
  /\ left = {}
  /\ active = {}
  /\ users = [u \in {} |-> {}]
  /\ loop = [w \in Loops |-> "none"]
  /\ todo = {}
  /\ failed = [w \in Loops |-> {}]

-----------------------------------------------------------------------------
\* connect

Connect(s) ==
  /\ phase[s] = "none"
  /\ phase' = [phase EXCEPT ![s] = "connecting"]
  /\ Asks(s)
  /\ UNCHANGED <<closing, left, registry, work>>

\* Variant: the limit is checked under the lock, the connection accepted outside.
Admit_Unlocked(s) ==
  /\ Holds(s) /\ phase[s] = "connecting"
  /\ IF Cardinality(active) >= MaxConnections
     THEN phase' = [phase EXCEPT ![s] = "gone"] /\ Releases
     ELSE phase' = [phase EXCEPT ![s] = "accepting"] /\ AsksAgain(s)
  /\ UNCHANGED <<closing, left, registry, work>>

\* With the lock, the limit is checked: the socket is closed and connect raises,
\* or the handshake is answered, with the lock held.
Admit(s) ==
  /\ Holds(s) /\ phase[s] = "connecting"
  /\ IF Cardinality(active) >= MaxConnections
     THEN phase' = [phase EXCEPT ![s] = "gone"] /\ Releases
     ELSE phase' = [phase EXCEPT ![s] = "accepting"] /\ UNCHANGED lock
  /\ UNCHANGED <<closing, left, registry, work>>

\* u's connections with s among them.
Indexed(u, s) ==
  [v \in DOMAIN users \cup {u} |->
     IF v # u THEN users[v] ELSE {s} \cup IF u \in DOMAIN users THEN users[u] ELSE {}]

\* Variant: connections without a user are indexed too.
AddUser_Anonymous(s) == users' = Indexed(User[s], s)

AddUser(s) == users' = IF User[s] = NoUser THEN users ELSE Indexed(User[s], s)

\* Variant: a loop that has run out is taken for a running one.
StartLoops_Once ==
  /\ loop' = [w \in Loops |-> IF loop[w] = "none" THEN "sleeping" ELSE loop[w]]
  /\ UNCHANGED <<todo, failed>>

\* A loop that was never started or has run out is started.
StartLoops ==
  /\ loop' = [w \in Loops |-> IF loop[w] \in {"none", "done"} THEN "sleeping" ELSE loop[w]]
  /\ UNCHANGED <<todo, failed>>

\* The handshake is answered: the connection is registered, the loops started,
\* and the welcome message written.
Register(s) ==
  /\ Holds(s) /\ phase[s] = "accepting"
  /\ phase' = [phase EXCEPT ![s] = "welcoming"]
  /\ active' = active \cup {s}
  /\ AddUser(s)
  /\ StartLoops
  /\ UNCHANGED <<lock, closing, left>>

\* accept raised: the client is gone.
AcceptFails(s) ==
  /\ Holds(s) /\ phase[s] = "accepting" /\ s \in left
  /\ phase' = [phase EXCEPT ![s] = "gone"]
  /\ Releases
  /\ UNCHANGED <<closing, left, registry, work>>

\* Variant: a failed welcome disconnects, and waits for the lock its task holds.
Welcomed_Disconnects(s) ==
  /\ Holds(s) /\ phase[s] = "welcoming"
  /\ IF s \in left
     THEN phase' = [phase EXCEPT ![s] = "dropping"] /\ Asks(s)
     ELSE phase' = [phase EXCEPT ![s] = "serving"] /\ Releases
  /\ UNCHANGED <<closing, left, registry, work>>

\* The welcome was written or failed, which send_personal_message swallows.
Welcomed(s) ==
  /\ Holds(s) /\ phase[s] = "welcoming"
  /\ phase' = [phase EXCEPT ![s] = "serving"]
  /\ Releases
  /\ UNCHANGED <<closing, left, registry, work>>

-----------------------------------------------------------------------------
\* receive_message, and the clean-up of the endpoint

\* The client closes the connection or is lost: the endpoint cannot tell before
\* it answers the handshake.
Hangup(s) ==
  /\ phase[s] \in {"accepting", "welcoming", "serving"}
  /\ s \notin left
  /\ left' = left \cup {s}
  /\ UNCHANGED <<lock, closing, phase, registry, work>>

\* receive_text finds the socket closed, and receive_message disconnects.
Notice(s) ==
  /\ phase[s] = "serving" /\ s \in left
  /\ phase' = [phase EXCEPT ![s] = "dropping"]
  /\ Asks(s)
  /\ UNCHANGED <<closing, left, registry, work>>

\* receive_message returns None at once, for a message that is no JSON, another
\* error or a connection it does not know, and the endpoint disconnects.
Break(s) ==
  /\ phase[s] = "serving"
  /\ phase' = [phase EXCEPT ![s] = "ending"]
  /\ Asks(s)
  /\ UNCHANGED <<closing, left, registry, work>>

-----------------------------------------------------------------------------
\* disconnect

\* After disconnect: receive_message returns None and the endpoint disconnects
\* once more; the endpoint ends; a loop goes on to the next connection.
Returns(t, c) ==
  \/ /\ t \in Sockets /\ phase[t] = "dropping"
     /\ phase' = [phase EXCEPT ![t] = "ending"]
     /\ AsksAgain(t)
     /\ UNCHANGED work
  \/ /\ t \in Sockets /\ phase[t] = "ending"
     /\ phase' = [phase EXCEPT ![t] = "gone"]
     /\ Releases
     /\ UNCHANGED work
  \/ /\ t \in Loops
     /\ failed' = [failed EXCEPT ![t] = @ \ {c}]
     /\ IF failed'[t] = {}
        THEN /\ loop' = [loop EXCEPT ![t] = "sleeping"]
             /\ Releases
        ELSE AsksAgain(t) /\ UNCHANGED loop
     /\ UNCHANGED <<phase, todo>>

\* The task t, which has the lock, disconnects c.
Disconnects(t, c) ==
  /\ Holds(t)
  /\ \/ t = c /\ phase[t] \in {"dropping", "ending"}
     \/ t \in Loops /\ loop[t] = "dropping" /\ c \in failed[t]

\* Somebody else has removed c already.
AlreadyGone(t, c) ==
  /\ closing = NoSocket /\ Disconnects(t, c) /\ c \notin active
  /\ Returns(t, c)
  /\ UNCHANGED <<closing, left, registry>>

CloseSocket(t, c) ==
  /\ closing = NoSocket /\ Disconnects(t, c) /\ c \in active
  /\ closing' = c
  /\ UNCHANGED <<lock, phase, left, registry, work>>

\* Variant: a user's entry stays when its last connection goes.
DropUser_KeepsEmpty(c) ==
  users' = IF User[c] = NoUser THEN users ELSE [users EXCEPT ![User[c]] = @ \ {c}]

DropUser(c) ==
  users' = IF User[c] = NoUser THEN users
           ELSE IF users[User[c]] = {c}
                THEN [u \in DOMAIN users \ {User[c]} |-> users[u]]
                ELSE [users EXCEPT ![User[c]] = @ \ {c}]

\* Variant: a connection whose socket is already closed stays registered.
Forget_IfOpen(t, c) ==
  /\ closing = c /\ Disconnects(t, c)
  /\ closing' = NoSocket
  /\ left' = left \cup {c}
  /\ IF c \in left THEN UNCHANGED registry ELSE active' = active \ {c} /\ DropUser(c)
  /\ Returns(t, c)

\* The socket is closed, or closing it raised: the connection is forgotten.
Forget(t, c) ==
  /\ closing = c /\ Disconnects(t, c)
  /\ closing' = NoSocket
  /\ left' = left \cup {c}
  /\ active' = active \ {c}
  /\ DropUser(c)
  /\ Returns(t, c)

-----------------------------------------------------------------------------
\* The background loops.  A loop collects the connections that failed or were
\* idle, and disconnects them one by one.

\* The writes are done: the failed connections, if any, are disconnected.
Collected(w, connections) ==
  /\ failed' = [failed EXCEPT ![w] = connections]
  /\ IF connections = {}
     THEN /\ loop' = [loop EXCEPT ![w] = "sleeping"]
          /\ UNCHANGED lock
     ELSE loop' = [loop EXCEPT ![w] = "dropping"] /\ Asks(w)

\* Without connections a loop ends.
RunsOut(w) ==
  /\ active = {}
  /\ loop' = [loop EXCEPT ![w] = "done"]
  /\ UNCHANGED <<lock, todo, failed>>

\* An iteration of _heartbeat_loop begins with the connections there are.
Heartbeat ==
  /\ loop["heartbeat"] = "sleeping"
  /\ \/ RunsOut("heartbeat")
     \/ /\ active # {}
        /\ loop' = [loop EXCEPT !["heartbeat"] = "sending"]
        /\ todo' = active
        /\ UNCHANGED <<lock, failed>>
  /\ UNCHANGED <<closing, phase, left, registry>>

\* The next write: it fails when the connection is no longer registered, and may
\* fail when its socket is closed.
Ping(c, ok) ==
  /\ loop["heartbeat"] = "sending" /\ c \in todo
  /\ IF ok THEN c \in active ELSE c \notin active \/ c \in left \/ c = closing
  /\ todo' = todo \ {c}
  /\ LET bad == failed["heartbeat"] \cup (IF ok THEN {} ELSE {c}) IN
     IF todo = {c} THEN Collected("heartbeat", bad)
     ELSE failed' = [failed EXCEPT !["heartbeat"] = bad] /\ UNCHANGED <<lock, loop>>
  /\ UNCHANGED <<closing, phase, left, registry>>

\* An iteration of _cleanup_loop finds the connections that were inactive too long.
Cleanup ==
  /\ loop["cleanup"] = "sleeping"
  /\ \/ RunsOut("cleanup")
     \/ /\ active # {}
        /\ \E idle \in SUBSET active : Collected("cleanup", idle)
        /\ UNCHANGED todo
  /\ UNCHANGED <<closing, phase, left, registry>>

-----------------------------------------------------------------------------
\* The task that has the lock goes on with connect or disconnect.
Holder ==
  /\ lock # <<>>
  /\ LET t == Head(lock) IN
       IF t \in Sockets /\ phase[t] \in {"connecting", "accepting", "welcoming"}
       THEN Admit(t) \/ Register(t) \/ AcceptFails(t) \/ Welcomed(t)
       ELSE \E c \in Sockets : AlreadyGone(t, c) \/ CloseSocket(t, c) \/ Forget(t, c)

HeartbeatLoop == Heartbeat \/ \E c \in Sockets, ok \in BOOLEAN : Ping(c, ok)

Next ==
  \/ Holder
  \/ \E s \in Sockets : Connect(s) \/ Hangup(s) \/ Notice(s) \/ Break(s)
  \/ HeartbeatLoop
  \/ Cleanup

Spec == Init /\ [][Next]_vars

\* accept, close and send return or raise, and receive_text notices a closed
\* socket (the server's keep-alive closes dead peers).  Nothing is asked of the
\* clients, nor of the background loops.
FairSpec ==
  /\ Spec
  /\ WF_vars(Holder)
  /\ WF_vars(\E s \in Sockets : Notice(s))

-----------------------------------------------------------------------------
TypeOK ==
  /\ lock \in Seq(Sockets \cup Loops)
  /\ closing \in Sockets \cup {NoSocket}
  /\ phase \in [Sockets -> {"none", "connecting", "accepting", "welcoming",
                            "serving", "dropping", "ending", "gone"}]
  /\ left \subseteq Sockets
  /\ active \subseteq Sockets
  /\ DOMAIN users \subseteq {User[s] : s \in Sockets} \ {NoUser}
  /\ \A u \in DOMAIN users : users[u] \subseteq Sockets
  /\ loop \in [Loops -> {"none", "done", "sleeping", "sending", "dropping"}]
  /\ todo \subseteq Sockets
  /\ failed \in [Loops -> SUBSET Sockets]

\* max_connections is never exceeded, although accepting a connection takes a
\* round trip between the check and the registration.
WithinLimit == Cardinality(active) <= MaxConnections

\* user_connections lists the registered connections of every user, and no user
\* without one.
UsersMatch ==
  users = [u \in {User[s] : s \in active} \ {NoUser} |-> {s \in active : User[s] = u}]

\* While a connection is registered both loops watch over it: the last iteration
\* of a loop and the registration that should restart it do not miss each other.
LoopsWatch == active # {} => \A w \in Loops : loop[w] \notin {"none", "done"}

\* Every connect gets the lock and ends, served or refused: nobody holds the lock
\* for ever, and nobody waits for it while holding it.
ConnectsEnd ==
  []<>(\A s \in Sockets : phase[s] \notin {"connecting", "accepting", "welcoming"})

\* A connection whose client is gone is removed from the registry.
DeadAreForgotten == []<>(active \cap left = {})
=============================================================================
