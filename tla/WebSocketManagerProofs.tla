------------------------- MODULE WebSocketManagerProofs -------------------------
(***************************************************************************)
(* Theorems about WebSocketManager for every finite set of sockets, every  *)
(* assignment of users and every limit.  The inductive invariant says what *)
(* the lock is for: a task between the check of the limit and its welcome  *)
(* message is the holder, and the holder it stays whoever queues up.       *)
(***************************************************************************)
EXTENDS WebSocketManager, FiniteSetTheorems, TLAPS

\* Only the holder of the lock is in connect's critical section.
ConnectsExclude ==
  \A s \in Sockets : phase[s] \in {"accepting", "welcoming"} => Holds(s)

\* What the limit was checked for still holds when the handshake is answered.
RoomForAccepted ==
  \A s \in Sockets : phase[s] = "accepting" => Cardinality(active) < MaxConnections

\* A connection that is being closed is still registered.
ClosingIsActive == closing # NoSocket => closing \in active

ManagerInv ==
  /\ TypeOK
  /\ ConnectsExclude /\ RoomForAccepted /\ ClosingIsActive
  /\ WithinLimit /\ UsersMatch /\ LoopsWatch

-----------------------------------------------------------------------------
\* What happens to the queue of tasks.

LEMMA AskKeepsHolder ==
  ASSUME lock \in Seq(Sockets \cup Loops), NEW t \in Sockets \cup Loops, Asks(t)
  PROVE  /\ lock' \in Seq(Sockets \cup Loops)
         /\ \A s : Holds(s) => Holds(s)'
BY DEF Asks, Holds

LEMMA ReleaseIsQueue ==
  ASSUME lock \in Seq(Sockets \cup Loops), lock # <<>>, Releases
  PROVE  lock' \in Seq(Sockets \cup Loops)
BY DEF Releases

LEMMA AskAgainIsQueue ==
  ASSUME lock \in Seq(Sockets \cup Loops), lock # <<>>,
         NEW t \in Sockets \cup Loops, AsksAgain(t)
  PROVE  lock' \in Seq(Sockets \cup Loops)
BY DEF AsksAgain

\* There is one holder.
LEMMA OneHolder ==
  ASSUME NEW s, NEW t, Holds(s), Holds(t) PROVE s = t
BY DEF Holds

-----------------------------------------------------------------------------
\* The index of users follows the registry.

LEMMA AddUserMatches ==
  ASSUME UsersMatch, NEW s \in Sockets, active \subseteq Sockets,
         active' = active \cup {s}, AddUser(s)
  PROVE  UsersMatch'
<1>1. CASE User[s] = NoUser
  BY <1>1 DEF UsersMatch, AddUser
<1>2. CASE User[s] # NoUser
  <2>1. /\ DOMAIN users' = DOMAIN users \cup {User[s]}
        /\ \A v \in DOMAIN users' :
             users'[v] = IF v # User[s] THEN users[v]
                         ELSE {s} \cup IF v \in DOMAIN users THEN users[v] ELSE {}
    BY <1>2 DEF AddUser, Indexed
  <2>2. DOMAIN users' = {User[x] : x \in active'} \ {NoUser}
    BY <2>1, <1>2 DEF UsersMatch
  <2>3. ASSUME NEW v \in DOMAIN users'
        PROVE  users'[v] = {x \in active' : User[x] = v}
    <3>1. v \in DOMAIN users => users[v] = {x \in active : User[x] = v}
      BY DEF UsersMatch
    <3>2. v \notin DOMAIN users => v = User[s] /\ {x \in active : User[x] = v} = {}
      BY <2>1, <2>3, <1>2 DEF UsersMatch
    <3>3. v # User[s] => {x \in active' : User[x] = v} = {x \in active : User[x] = v}
      OBVIOUS
    <3>4. v = User[s] =>
            {x \in active' : User[x] = v} = {s} \cup {x \in active : User[x] = v}
      OBVIOUS
    <3> QED
      BY <2>1, <2>3, <3>1, <3>2, <3>3, <3>4
  <2>4. users' = [v \in DOMAIN users' |-> users'[v]]
    BY <1>2 DEF AddUser, Indexed
  <2> QED
    BY <2>2, <2>3, <2>4 DEF UsersMatch
<1> QED
  BY <1>1, <1>2

LEMMA DropUserMatches ==
  ASSUME UsersMatch, NEW c \in active, active' = active \ {c}, DropUser(c)
  PROVE  UsersMatch'
<1>1. CASE User[c] = NoUser
  BY <1>1 DEF UsersMatch, DropUser
<1>2. CASE User[c] # NoUser
  <2>1. /\ User[c] \in DOMAIN users
        /\ users[User[c]] = {x \in active : User[x] = User[c]}
    BY <1>2 DEF UsersMatch
  <2>2. CASE users[User[c]] = {c}
    <3>1. \A x \in active : User[x] = User[c] => x = c
      BY <2>1, <2>2
    <3> QED
      BY <1>2, <2>1, <2>2, <3>1 DEF UsersMatch, DropUser
  <2>3. CASE users[User[c]] # {c}
    <3>1. PICK d \in active : d # c /\ User[d] = User[c]
      BY <2>1, <2>3
    <3>2. users' = [users EXCEPT ![User[c]] = @ \ {c}]
      BY <1>2, <2>3 DEF DropUser
    <3>3. {User[x] : x \in active'} = {User[x] : x \in active}
      BY <3>1
    <3>4. ASSUME NEW v \in DOMAIN users
          PROVE  users'[v] = {x \in active' : User[x] = v}
      <4>1. users[v] = {x \in active : User[x] = v}
        BY DEF UsersMatch
      <4> QED
        BY <3>2, <4>1
    <3>5. users' = [v \in DOMAIN users |-> users'[v]]
      BY <3>2
    <3> QED
      BY <3>3, <3>4, <3>5 DEF UsersMatch
  <2> QED
    BY <2>2, <2>3
<1> QED
  BY <1>1, <1>2

-----------------------------------------------------------------------------
\* connect

LEMMA ConnectKeeps ==
  ASSUME ManagerInv, NEW s \in Sockets, Connect(s) PROVE ManagerInv'
<1>1. lock' \in Seq(Sockets \cup Loops) /\ \A t : Holds(t) => Holds(t)'
  BY AskKeepsHolder DEF Connect, ManagerInv, TypeOK
<1> QED
  BY <1>1 DEF Connect, registry, work, ManagerInv, TypeOK, ConnectsExclude, RoomForAccepted,
              ClosingIsActive, WithinLimit, UsersMatch, LoopsWatch

LEMMA AdmitKeeps ==
  ASSUME ManagerInv, NEW s \in Sockets, Admit(s) PROVE ManagerInv'
<1> USE DEF ManagerInv, TypeOK, registry, work
<1>1. CASE Cardinality(active) >= MaxConnections
  <2>1. lock' \in Seq(Sockets \cup Loops)
    BY <1>1, ReleaseIsQueue DEF Admit, Holds
  <2>2. \A t \in Sockets : phase[t] \notin {"accepting", "welcoming"}
    BY OneHolder DEF Admit, ConnectsExclude
  <2> QED
    BY <1>1, <2>1, <2>2
       DEF Admit, ConnectsExclude, RoomForAccepted, ClosingIsActive, WithinLimit, UsersMatch,
           LoopsWatch
<1>2. CASE ~(Cardinality(active) >= MaxConnections)
  <2>1. Cardinality(active) \in Nat
    BY ManagerAssumption, FS_Subset, FS_CardinalityType
  <2>2. Cardinality(active) < MaxConnections
    BY <1>2, <2>1, ManagerAssumption
  <2> QED
    BY <1>2, <2>2
       DEF Admit, Holds, ConnectsExclude, RoomForAccepted, ClosingIsActive, WithinLimit,
           UsersMatch, LoopsWatch
<1> QED
  BY <1>1, <1>2

LEMMA RegisterKeeps ==
  ASSUME ManagerInv, NEW s \in Sockets, Register(s) PROVE ManagerInv'
<1> USE DEF ManagerInv, TypeOK, registry, work
<1>1. \A t \in Sockets : phase'[t] # "accepting"
  BY OneHolder DEF Register, ConnectsExclude
<1>2. WithinLimit'
  <2>1. IsFiniteSet(active)
    BY ManagerAssumption, FS_Subset
  <2>2. Cardinality(active \cup {s}) <= Cardinality(active) + 1
    <3>1. Cardinality(active) \in Nat
      BY <2>1, FS_CardinalityType
    <3>2. Cardinality(active \cup {s}) =
            IF s \in active THEN Cardinality(active) ELSE Cardinality(active) + 1
      BY <2>1, FS_AddElement, Zenon
    <3> QED
      BY <3>1, <3>2
  <2>3. Cardinality(active) < MaxConnections
    BY DEF Register, RoomForAccepted
  <2>4. Cardinality(active) \in Nat /\ Cardinality(active \cup {s}) \in Nat
    BY <2>1, FS_AddElement, FS_CardinalityType
  <2> QED
    BY <2>2, <2>3, <2>4, ManagerAssumption DEF Register, WithinLimit
<1>3. UsersMatch'
  BY AddUserMatches DEF Register
<1>4. TypeOK'
  BY <1>3 DEF Register, StartLoops, UsersMatch
<1>5. LoopsWatch'
  BY DEF Register, StartLoops, LoopsWatch
<1>6. ConnectsExclude' /\ RoomForAccepted' /\ ClosingIsActive'
  BY <1>1 DEF Register, Holds, ConnectsExclude, RoomForAccepted, ClosingIsActive
<1> QED
  BY <1>2, <1>3, <1>4, <1>5, <1>6

\* The handshake or the welcome ends, and the lock is let go.
LEMMA LeavesKeeps ==
  ASSUME ManagerInv, NEW s \in Sockets, AcceptFails(s) \/ Welcomed(s) PROVE ManagerInv'
<1> USE DEF ManagerInv, TypeOK, registry, work
<1>1. lock' \in Seq(Sockets \cup Loops)
  BY ReleaseIsQueue DEF AcceptFails, Welcomed, Holds
<1>2. \A t \in Sockets : phase'[t] \notin {"accepting", "welcoming"}
  BY OneHolder DEF AcceptFails, Welcomed, ConnectsExclude
<1>3. CASE AcceptFails(s)
  BY <1>1, <1>2, <1>3
     DEF AcceptFails, ConnectsExclude, RoomForAccepted, ClosingIsActive, WithinLimit,
         UsersMatch, LoopsWatch
<1>4. CASE Welcomed(s)
  BY <1>1, <1>2, <1>4
     DEF Welcomed, ConnectsExclude, RoomForAccepted, ClosingIsActive, WithinLimit,
         UsersMatch, LoopsWatch
<1> QED
  BY <1>3, <1>4

-----------------------------------------------------------------------------
\* receive_message

LEMMA ReceiveKeeps ==
  ASSUME ManagerInv, NEW s \in Sockets, Hangup(s) \/ Notice(s) \/ Break(s)
  PROVE  ManagerInv'
<1> USE DEF ManagerInv, TypeOK, registry, work
<1>1. CASE Hangup(s)
  BY <1>1 DEF Hangup, Holds, ConnectsExclude, RoomForAccepted, ClosingIsActive, WithinLimit,
              UsersMatch, LoopsWatch
<1>2. CASE Notice(s) \/ Break(s)
  <2>1. lock' \in Seq(Sockets \cup Loops) /\ \A t : Holds(t) => Holds(t)'
    BY <1>2, AskKeepsHolder DEF Notice, Break
  <2>2. CASE Notice(s)
    BY <2>1, <2>2
       DEF Notice, ConnectsExclude, RoomForAccepted, ClosingIsActive, WithinLimit,
           UsersMatch, LoopsWatch
  <2>3. CASE Break(s)
    BY <2>1, <2>3
       DEF Break, ConnectsExclude, RoomForAccepted, ClosingIsActive, WithinLimit,
           UsersMatch, LoopsWatch
  <2> QED
    BY <1>2, <2>2, <2>3
<1> QED
  BY <1>1, <1>2

-----------------------------------------------------------------------------
\* disconnect

\* A task that disconnects keeps everybody else out of connect.
LEMMA DisconnectExcludes ==
  ASSUME ManagerInv, NEW t \in Sockets \cup Loops, NEW c \in Sockets, Disconnects(t, c)
  PROVE  \A s \in Sockets : phase[s] \notin {"accepting", "welcoming"}
BY OneHolder, ManagerAssumption
   DEF Disconnects, ManagerInv, ConnectsExclude, Loops

\* What follows a disconnect leaves the tasks' states well-typed, nobody inside
\* connect, and no loop ended.
LEMMA ReturnsKeeps ==
  ASSUME ManagerInv, NEW t \in Sockets \cup Loops, NEW c \in Sockets,
         Disconnects(t, c), Returns(t, c)
  PROVE  /\ lock' \in Seq(Sockets \cup Loops)
         /\ phase' \in [Sockets -> {"none", "connecting", "accepting", "welcoming",
                                    "serving", "dropping", "ending", "gone"}]
         /\ loop' \in [Loops -> {"none", "done", "sleeping", "sending", "dropping"}]
         /\ todo' \subseteq Sockets
         /\ failed' \in [Loops -> SUBSET Sockets]
         /\ \A s \in Sockets : phase'[s] \notin {"accepting", "welcoming"}
         /\ \A w \in Loops : loop'[w] \in {"none", "done"} => loop[w] \in {"none", "done"}
<1> USE DEF ManagerInv, TypeOK, work
<1>1. lock' \in Seq(Sockets \cup Loops)
  BY ReleaseIsQueue, AskAgainIsQueue DEF Disconnects, Holds, Returns
<1>2. \A s \in Sockets : phase[s] \notin {"accepting", "welcoming"}
  BY DisconnectExcludes
<1> QED
  BY <1>1, <1>2 DEF Returns

LEMMA DisconnectKeeps ==
  ASSUME ManagerInv, NEW t \in Sockets \cup Loops, NEW c \in Sockets,
         AlreadyGone(t, c) \/ CloseSocket(t, c) \/ Forget(t, c)
  PROVE  ManagerInv'
<1> USE DEF ManagerInv, TypeOK, registry, work
<1>1. CASE AlreadyGone(t, c)
  <2>1. Disconnects(t, c) /\ Returns(t, c)
    BY <1>1 DEF AlreadyGone
  <2> QED
    BY <1>1, <2>1, ReturnsKeeps
       DEF AlreadyGone, ConnectsExclude, RoomForAccepted, ClosingIsActive, WithinLimit,
           UsersMatch, LoopsWatch
<1>2. CASE CloseSocket(t, c)
  BY <1>2 DEF CloseSocket, Holds, ConnectsExclude, RoomForAccepted, ClosingIsActive,
              WithinLimit, UsersMatch, LoopsWatch
<1>3. CASE Forget(t, c)
  <2>1. Disconnects(t, c) /\ Returns(t, c)
    BY <1>3 DEF Forget
  <2>2. c \in active
    BY <1>3, ManagerAssumption DEF Forget, ClosingIsActive
  <2>3. UsersMatch'
    BY <1>3, <2>2, DropUserMatches DEF Forget
  <2>4. WithinLimit'
    <3>1. IsFiniteSet(active)
      BY ManagerAssumption, FS_Subset
    <3>2. /\ Cardinality(active \ {c}) <= Cardinality(active)
          /\ Cardinality(active \ {c}) \in Nat /\ Cardinality(active) \in Nat
      BY <3>1, FS_Subset, FS_CardinalityType
    <3> QED
      BY <1>3, <3>2, ManagerAssumption DEF Forget, WithinLimit
  <2>5. TypeOK'
    BY <1>3, <2>1, <2>3, ReturnsKeeps DEF Forget, UsersMatch
  <2>6. LoopsWatch'
    BY <1>3, <2>1, <2>2, ReturnsKeeps DEF LoopsWatch
  <2>7. ConnectsExclude' /\ RoomForAccepted' /\ ClosingIsActive'
    BY <1>3, <2>1, ReturnsKeeps DEF Forget, ConnectsExclude, RoomForAccepted, ClosingIsActive
  <2> QED
    BY <2>3, <2>4, <2>5, <2>6, <2>7
<1> QED
  BY <1>1, <1>2, <1>3

-----------------------------------------------------------------------------
\* The background loops

\* A loop that has collected what to disconnect goes on, and asks for the lock
\* at the end of the queue.
LEMMA CollectedKeeps ==
  ASSUME ManagerInv, NEW w \in Loops, NEW bad \in SUBSET Sockets, Collected(w, bad)
  PROVE  /\ lock' \in Seq(Sockets \cup Loops)
         /\ \A s : Holds(s) => Holds(s)'
         /\ failed' \in [Loops -> SUBSET Sockets]
         /\ loop' \in [Loops -> {"none", "done", "sleeping", "sending", "dropping"}]
         /\ \A v \in Loops : loop'[v] \in {"none", "done"} => loop[v] \in {"none", "done"}
<1> USE DEF ManagerInv, TypeOK
<1>1. lock' \in Seq(Sockets \cup Loops) /\ \A s : Holds(s) => Holds(s)'
  BY AskKeepsHolder DEF Collected, Holds
<1> QED
  BY <1>1 DEF Collected

LEMMA HeartbeatKeeps ==
  ASSUME ManagerInv, Heartbeat PROVE ManagerInv'
BY DEF Heartbeat, RunsOut, Loops, registry, ManagerInv, TypeOK, Holds, ConnectsExclude,
       RoomForAccepted, ClosingIsActive, WithinLimit, UsersMatch, LoopsWatch

LEMMA PingKeeps ==
  ASSUME ManagerInv, NEW c \in Sockets, NEW ok \in BOOLEAN, Ping(c, ok) PROVE ManagerInv'
<1> USE DEF ManagerInv, TypeOK, registry
<1> DEFINE bad == failed["heartbeat"] \cup (IF ok THEN {} ELSE {c})
<1>1. bad \in SUBSET Sockets /\ "heartbeat" \in Loops
  BY DEF Loops
<1>2. CASE Collected("heartbeat", bad)
  BY <1>1, <1>2, CollectedKeeps
     DEF Ping, ConnectsExclude, RoomForAccepted, ClosingIsActive, WithinLimit, UsersMatch,
         LoopsWatch
<1>3. CASE failed' = [failed EXCEPT !["heartbeat"] = bad] /\ UNCHANGED <<lock, loop>>
  BY <1>1, <1>3
     DEF Ping, Holds, ConnectsExclude, RoomForAccepted, ClosingIsActive, WithinLimit,
         UsersMatch, LoopsWatch
<1> QED
  BY <1>2, <1>3 DEF Ping

LEMMA CleanupKeeps ==
  ASSUME ManagerInv, Cleanup PROVE ManagerInv'
<1> USE DEF ManagerInv, TypeOK, registry
<1>1. CASE RunsOut("cleanup")
  BY <1>1 DEF Cleanup, RunsOut, Loops, Holds, ConnectsExclude, RoomForAccepted,
              ClosingIsActive, WithinLimit, UsersMatch, LoopsWatch
<1>2. CASE \E idle \in SUBSET active : Collected("cleanup", idle) /\ UNCHANGED todo
  <2> PICK idle \in SUBSET active : Collected("cleanup", idle) /\ UNCHANGED todo
    BY <1>2
  <2>1. idle \in SUBSET Sockets /\ "cleanup" \in Loops
    BY DEF Loops
  <2> QED
    BY <2>1, CollectedKeeps
       DEF Cleanup, ConnectsExclude, RoomForAccepted, ClosingIsActive, WithinLimit, UsersMatch,
           LoopsWatch
<1> QED
  BY <1>1, <1>2 DEF Cleanup

-----------------------------------------------------------------------------
\* The manager starts empty.
LEMMA ManagerInit == Init => ManagerInv
<1> SUFFICES ASSUME Init PROVE ManagerInv
  OBVIOUS
<1>1. Cardinality(active) <= MaxConnections
  BY ManagerAssumption, FS_EmptySet DEF Init
<1> QED
  BY <1>1 DEF Init, ManagerInv, TypeOK, ConnectsExclude, RoomForAccepted, ClosingIsActive,
              WithinLimit, UsersMatch, LoopsWatch

LEMMA ManagerStep == ManagerInv /\ [Next]_vars => ManagerInv'
<1> SUFFICES ASSUME ManagerInv, [Next]_vars PROVE ManagerInv'
  OBVIOUS
<1>1. CASE Holder
  <2>1. lock # <<>> /\ Head(lock) \in Sockets \cup Loops
    BY <1>1 DEF Holder, ManagerInv, TypeOK
  <2> QED
    BY <1>1, <2>1, AdmitKeeps, RegisterKeeps, LeavesKeeps, DisconnectKeeps DEF Holder
<1>2. CASE \E s \in Sockets : Connect(s) \/ Hangup(s) \/ Notice(s) \/ Break(s)
  BY <1>2, ConnectKeeps, ReceiveKeeps
<1>3. CASE HeartbeatLoop
  BY <1>3, HeartbeatKeeps, PingKeeps DEF HeartbeatLoop
<1>4. CASE Cleanup
  BY <1>4, CleanupKeeps
<1>5. CASE UNCHANGED vars
  BY <1>5 DEF vars, registry, work, ManagerInv, TypeOK, Holds, ConnectsExclude,
              RoomForAccepted, ClosingIsActive, WithinLimit, UsersMatch, LoopsWatch
<1> QED
  BY <1>1, <1>2, <1>3, <1>4, <1>5 DEF Next

\* The invariant holds of connect, receive_message, disconnect and the loops.
THEOREM ManagerInvariant == Spec => []ManagerInv
<1>1. Init => ManagerInv
  BY ManagerInit
<1>2. ManagerInv /\ [Next]_vars => ManagerInv'
  BY ManagerStep
<1> QED
  BY <1>1, <1>2, PTL DEF Spec

\* Every variable of the manager keeps its type.
THEOREM TypeCorrect == Spec => []TypeOK
<1>1. ManagerInv => TypeOK
  BY DEF ManagerInv
<1> QED
  BY <1>1, ManagerInvariant, PTL

\* connect never registers more than max_connections, whatever else runs while
\* it answers a handshake.
THEOREM LimitKept == Spec => []WithinLimit
<1>1. ManagerInv => WithinLimit
  BY DEF ManagerInv
<1> QED
  BY <1>1, ManagerInvariant, PTL

\* user_connections and active_connections say the same at every await.
THEOREM IndexMatches == Spec => []UsersMatch
<1>1. ManagerInv => UsersMatch
  BY DEF ManagerInv
<1> QED
  BY <1>1, ManagerInvariant, PTL

\* No registered connection is without the heartbeat and the clean-up.
THEOREM LoopsAlwaysWatch == Spec => []LoopsWatch
<1>1. ManagerInv => LoopsWatch
  BY DEF ManagerInv
<1> QED
  BY <1>1, ManagerInvariant, PTL
=============================================================================
