---------------------------- MODULE ServicesProofs ---------------------------
(***************************************************************************)
(* Theorems about the socket servers and what hangs on them: the event     *)
(* server's index of tenants, the stream sessions' tokens and rooms, the   *)
(* scalable server's rooms and presence, the reconnection loop and the     *)
(* webhooks; and about the routing of regions, the keys of the cache, the  *)
(* chat page, the HTTP completions and the merge of streams. Each is an    *)
(* instance of its module over constants and variables declared here;      *)
(* names that two have in common are declared once, for no theorem is      *)
(* about two of them. What a part needs of its constants is the hypothesis *)
(* of its theorem.                                                         *)
(***************************************************************************)
EXTENDS Integers, Sequences, FiniteSetTheorems, TLAPS

CONSTANTS None, Connections, Tenants, MaxPerTenant, Loops, AuthTenant,
          Sessions, Rooms, Callers, MaxConnections, Tokens,
          Sockets, Users, Joins, user, home,
          MaxAttempts, Infos, MaxCalls, MaxQueue, MaxRestarts
VARIABLES connections, tenant, joined, index, at, dead, running, busy, leaving,
          tokens, expiring, rooms, doing,
          status, room, sessions, members, presence, connecting, joining, overtaken,
          current, state, attempts, loop, calls, dropped,
          row, queue, posting, accepted, restarts, hooked, session, seen, unmarked

Events == INSTANCE EventSockets
Stream == INSTANCE StreamSessions
Scalable == INSTANCE ScalableSockets
Again == INSTANCE Reconnection
Hooks == INSTANCE Webhooks

-----------------------------------------------------------------------------
EventNames == AuthTenant \in Tenants /\ None \notin Tenants /\ None \notin Connections

(* Before it is accepted, a connection is in no table; afterwards its tenant *)
(* is the one it came with or the one an authentication gave it.            *)
Arrived(c) == at[c] \notin {"new", "accepting"}
Indexed ==
  /\ \A c \in Connections : ~Arrived(c) => c \notin connections
  /\ \A t \in Tenants : \A c \in index[t] :
       Arrived(c) /\ joined[c] = t /\ tenant[c] \in {t, AuthTenant}

EventInv == Events!TypeOK /\ Indexed /\ Events!IndexMatches

LEMMA EventInit == EventNames /\ Events!Init => EventInv
BY DEF EventNames, Events!Init, EventInv, Events!TypeOK, Indexed, Arrived, Events!IndexMatches

(* The end of a connection, by whomever and as often as it comes.           *)
LEMMA ConnectionGoes ==
  ASSUME EventNames, EventInv, NEW c \in Connections, Events!Removed(c),
         UNCHANGED <<tenant, joined>>,
         at' \in [Connections -> {"new", "accepting", "welcoming", "serving", "answering",
                                  "closing", "ended"}],
         \A d \in Connections : Arrived(d) <=> Arrived(d)'
  PROVE  /\ Indexed' /\ Events!IndexMatches'
         /\ connections' \subseteq Connections /\ index' \in [Tenants -> SUBSET Connections]
<1>1. /\ connections' = connections \ {c}
      /\ \A t \in Tenants : index'[t] = IF t = tenant[c] THEN index[t] \ {c} ELSE index[t]
      /\ tenant' = tenant /\ joined' = joined
  BY DEF Events!Removed
<1>2. connections' \subseteq Connections /\ index' \in [Tenants -> SUBSET Connections]
  BY DEF Events!Removed, EventInv, Events!TypeOK
<1>3. \A t \in Tenants : index'[t] \subseteq index[t] /\ index[t] \subseteq Connections
  BY <1>1 DEF EventInv, Events!TypeOK
<1>4. \A d \in Connections : ~Arrived(d)' => d \notin connections'
  BY <1>1 DEF EventInv, Indexed
<1>5. \A t \in Tenants : \A d \in index'[t] :
        Arrived(d)' /\ joined'[d] = t /\ tenant'[d] \in {t, AuthTenant}
  BY <1>1, <1>3 DEF EventInv, Indexed
<1>6. ASSUME NEW d \in connections', joined'[d] # None PROVE d \in index'[joined'[d]]
  <2>1. d \in connections /\ d # c /\ joined[d] \in Tenants
    BY <1>1, <1>6 DEF EventInv, Events!TypeOK
  <2>2. d \in index[joined[d]]
    BY <1>1, <1>6, <2>1 DEF EventInv, Events!IndexMatches
  <2> QED BY <1>1, <2>1, <2>2
<1>7. ASSUME NEW t \in Tenants, NEW d \in index'[t] \ connections'
      PROVE  joined'[d] = t /\ tenant'[d] = AuthTenant /\ tenant'[d] # t
  <2>1. d \in index[t] /\ joined[d] = t /\ tenant[d] \in {t, AuthTenant}
    BY <1>3 DEF EventInv, Indexed
  <2>2. CASE d \in connections
    BY <1>1, <1>7, <2>1, <2>2
  <2>3. CASE d \notin connections
    BY <1>1, <2>1, <2>3 DEF EventInv, Events!IndexMatches
  <2> QED BY <2>2, <2>3
<1> QED BY <1>2, <1>4, <1>5, <1>6, <1>7 DEF Indexed, Events!IndexMatches

LEMMA EventStep ==
  ASSUME EventNames, EventInv, [Events!Next]_Events!vars
  PROVE  EventInv'
<1>1. ASSUME NEW c \in Connections, NEW t \in Tenants \cup {None}, Events!connect(c, t)
      PROVE  EventInv'
  <2>1. /\ Events!TypeOK' /\ ~Arrived(c) /\ ~Arrived(c)'
        /\ \A d \in Connections : d # c => tenant'[d] = tenant[d] /\ at'[d] = at[d]
    BY <1>1 DEF Events!connect, Events!Goes, EventInv, Events!TypeOK, Arrived
  <2>2. UNCHANGED <<connections, joined, index>>
    BY <1>1 DEF Events!connect
  <2>3. Indexed'
    BY <2>1, <2>2 DEF EventInv, Indexed, Arrived, Events!TypeOK
  <2>4. Events!IndexMatches'
    BY <2>1, <2>2 DEF EventInv, Indexed, Events!IndexMatches, Events!TypeOK
  <2> QED BY <2>1, <2>3, <2>4 DEF EventInv
<1>2. ASSUME NEW c \in Connections, Events!Accepted(c) PROVE EventInv'
  <2>1. /\ Events!TypeOK' /\ ~Arrived(c) /\ Arrived(c)'
        /\ \A d \in Connections : d # c => joined'[d] = joined[d] /\ at'[d] = at[d]
        /\ joined'[c] = tenant[c] /\ tenant' = tenant /\ connections' = connections \cup {c}
        /\ \A t \in Tenants : index'[t] = IF t = tenant[c] THEN index[t] \cup {c} ELSE index[t]
    BY <1>2 DEF Events!Accepted, Events!Goes, EventInv, Events!TypeOK, Arrived
  <2>2. \A t \in Tenants : c \notin index[t] /\ index[t] \subseteq Connections
    BY <2>1 DEF EventInv, Indexed, Events!TypeOK
  <2>3. \A d \in Connections : ~Arrived(d)' => d \notin connections'
    BY <2>1 DEF EventInv, Indexed, Arrived
  <2>4. ASSUME NEW t \in Tenants, NEW d \in index'[t]
        PROVE  Arrived(d)' /\ joined'[d] = t /\ tenant'[d] \in {t, AuthTenant}
    <3>1. CASE d = c
      BY <2>1, <2>2, <2>4, <3>1
    <3>2. CASE d # c
      <4>1. d \in index[t] /\ d \in Connections
        BY <2>1, <2>2, <2>4, <3>2
      <4> QED BY <2>1, <3>2, <4>1 DEF EventInv, Indexed, Arrived
    <3> QED BY <3>1, <3>2
  <2>5. Events!IndexMatches'
    BY <2>1, <2>2 DEF EventInv, Indexed, Events!IndexMatches, Events!TypeOK
  <2> QED BY <2>1, <2>3, <2>4, <2>5 DEF EventInv, Indexed
<1>3. ASSUME NEW c \in Connections,
             Events!NotAccepted(c) \/ Events!Welcomed(c) \/ Events!Answered(c)
             \/ Events!_handle_chat_message(c) \/ Events!Finishes(c)
      PROVE  EventInv'
  <2>1. /\ UNCHANGED <<connections, tenant, joined, index>>
        /\ \A d \in Connections : d # c => at'[d] = at[d]
        /\ at'[c] \notin {"new", "accepting"} /\ Events!TypeOK'
        /\ Arrived(c) \/ at[c] = "accepting"
    BY <1>3 DEF Events!NotAccepted, Events!Welcomed, Events!Answered, Events!_handle_chat_message,
                Events!Finishes, Events!Goes, EventInv, Events!TypeOK, Arrived
  <2> QED BY <2>1 DEF EventInv, Indexed, Arrived, Events!IndexMatches, Events!TypeOK
<1>4. ASSUME NEW c \in Connections, Events!_handle_auth_request(c) PROVE EventInv'
  <2>1. /\ UNCHANGED <<connections, joined, index, at>> /\ Arrived(c) /\ Events!TypeOK'
        /\ tenant'[c] = AuthTenant
        /\ \A d \in Connections : d # c => tenant'[d] = tenant[d]
    BY <1>4 DEF Events!_handle_auth_request, EventNames, EventInv, Events!TypeOK, Arrived
  <2>2. Indexed'
    BY <2>1 DEF EventInv, Indexed, Arrived, Events!TypeOK
  <2>3. \A t \in Tenants : \A d \in index[t] \ connections :
          joined[d] = t /\ tenant'[d] = AuthTenant /\ tenant'[d] # t
    <3> SUFFICES ASSUME NEW t \in Tenants, c \in index[t] \ connections
                 PROVE  joined[c] = t /\ AuthTenant # t
      BY <2>1 DEF EventInv, Events!IndexMatches, Events!TypeOK
    <3> QED BY <2>1 DEF EventInv, Indexed, Events!IndexMatches
  <2> QED BY <2>1, <2>2, <2>3 DEF EventInv, Events!IndexMatches
<1>5. ASSUME NEW c \in Connections, Events!EndpointCloses(c) PROVE EventInv'
  <2>1. /\ Events!Removed(c) /\ UNCHANGED <<tenant, joined, dead, running, busy, leaving>>
        /\ at' = [at EXCEPT ![c] = "ended"] /\ at[c] = "closing"
    BY <1>5 DEF Events!EndpointCloses, Events!Goes
  <2>2. /\ at' \in [Connections -> {"new", "accepting", "welcoming", "serving", "answering",
                                    "closing", "ended"}]
        /\ \A d \in Connections : Arrived(d) <=> Arrived(d)'
    BY <2>1 DEF EventInv, Events!TypeOK, Arrived
  <2> QED BY <2>1, <2>2, ConnectionGoes DEF EventInv, Events!TypeOK
<1>6. ASSUME NEW l \in Loops, Events!Drops(l) PROVE EventInv'
  <2>1. /\ busy[l] \in Connections /\ Events!Removed(busy[l])
        /\ UNCHANGED <<tenant, joined, at, dead, running>>
        /\ busy' = [busy EXCEPT ![l] = None] /\ leaving' \subseteq leaving
    BY <1>6 DEF Events!Drops, EventInv, Events!TypeOK
  <2>2. at' = at /\ \A d \in Connections : Arrived(d) <=> Arrived(d)'
    BY <2>1 DEF Arrived
  <2>3. /\ Indexed' /\ Events!IndexMatches'
        /\ connections' \subseteq Connections /\ index' \in [Tenants -> SUBSET Connections]
    BY <2>1, <2>2, ConnectionGoes DEF EventInv, Events!TypeOK
  <2> QED BY <2>1, <2>3 DEF EventInv, Events!TypeOK
<1>7. CASE \/ \E c \in Connections : Events!Vanishes(c) \/ \E l \in Loops : Events!Takes(l, c)
           \/ Events!shutdown \/ UNCHANGED Events!vars
  <2>1. UNCHANGED <<connections, tenant, joined, index, at>>
    BY <1>7 DEF Events!Vanishes, Events!Takes, Events!shutdown, Events!vars
  <2>2. Events!TypeOK'
    BY <1>7 DEF Events!Vanishes, Events!Takes, Events!shutdown, Events!vars, EventInv, Events!TypeOK
  <2> QED BY <2>1, <2>2 DEF EventInv, Indexed, Arrived, Events!IndexMatches
<1> QED BY <1>1, <1>2, <1>3, <1>4, <1>5, <1>6, <1>7 DEF Events!Next, Events!Endpoint

(* ws_handlers/: however often and by whomever connections are ended, every *)
(* one in the table is indexed under the tenant it came with, and what the  *)
(* index holds beyond the table has changed its tenant since.               *)
THEOREM TenantIndexMatches ==
  ASSUME EventNames
  PROVE  Events!Spec => [](Events!TypeOK /\ Events!IndexMatches)
<1>1. Events!Init => EventInv
  BY EventInit
<1>2. EventInv /\ [Events!Next]_Events!vars => EventInv'
  BY EventStep
<1> QED BY <1>1, <1>2, PTL DEF Events!Spec, EventInv

-----------------------------------------------------------------------------
StreamNames ==
  /\ None \notin Sessions /\ None \notin Stream!Connection /\ None \notin Stream!Activity
  /\ IsFiniteSet(Callers) /\ MaxConnections \in Nat \ {0} /\ Tokens \subseteq Nat

Known == {s \in Sessions : connections[s] # None}
Accepting == {p \in Callers : doing[p] # None /\ doing[p].what = "accept"}

(* A token under deletion is no connection's, and one a disconnection works *)
(* with leads to its session or nowhere.                                    *)
TokensApart ==
  /\ \A s \in Known : connections[s].token \notin expiring
  /\ \A p \in Callers \cup Loops :
       doing[p] # None /\ doing[p].what = "close" =>
         tokens[doing[p].token] \in {doing[p].session, None}

(* A caller lets itself in before its connection counts.                    *)
WithRoom ==
  /\ IsFiniteSet(Known) /\ IsFiniteSet(Accepting)
  /\ Cardinality(Known) + Cardinality(Accepting) < MaxConnections + Cardinality(Callers)

StreamTables == Stream!TypeOK /\ Stream!MemberIsInRoom /\ Stream!TokenLeadsHome /\ TokensApart
StreamInv == StreamTables /\ WithRoom

(* The actions, those of callers and loops that are alike put together. *)
Calls(p) == p \in Callers /\ (Stream!NotAccepted(p) \/ Stream!Confirmed(p) \/ Stream!Accepted(p)
                              \/ \E s \in Sessions : Stream!connect(p, s))
Closes(p) == \/ \E s \in Sessions : doing[p] = None /\ Stream!disconnect(p, s)
             \/ Stream!LeavesOne(p) \/ Stream!Closed(p)
Touches(s) == Stream!SendFails(s) \/ Stream!Ages(s) \/ Stream!handle_heartbeat(s)

LEMMA StreamNext ==
  ASSUME [Stream!Next]_Stream!vars
  PROVE  \/ \E p \in Callers : Calls(p)
         \/ \E p \in Callers \cup Loops : Closes(p)
         \/ \E t \in Tokens : Stream!_cleanup_reconnect_token(t)
         \/ \E s \in Sessions : Touches(s)
         \/ \E s \in Sessions, r \in Rooms : Stream!join_room(s, r) \/ Stream!leave_room(s, r)
         \/ UNCHANGED Stream!vars
BY DEF Stream!Next, Stream!Disconnect, Stream!Watch, Calls, Closes, Touches

(* What the types say of one connection and of one call. *)
LEMMA StreamTypes ==
  ASSUME StreamNames, Stream!TypeOK
  PROVE  /\ \A s \in Known : /\ connections[s] \in Stream!Connection /\ connections[s].token \in Tokens
                             /\ connections[s].rooms \subseteq Rooms
         /\ \A p \in Callers \cup Loops : doing[p] # None =>
              /\ doing[p] \in Stream!Activity /\ doing[p].session \in Sessions
              /\ doing[p].what = "close" => doing[p].token \in Tokens /\ doing[p].rooms \subseteq Rooms
BY DEF Stream!TypeOK, Stream!Connection, Stream!Activity, Known

(* One connection is put in the table, or changed. *)
LEMMA Recorded ==
  ASSUME StreamNames, Stream!TypeOK, NEW s \in Sessions, NEW rec \in Stream!Connection,
         connections' = [connections EXCEPT ![s] = rec]
  PROVE  /\ connections' \in [Sessions -> Stream!Connection \cup {None}]
         /\ Known' = Known \cup {s} /\ connections'[s] = rec
         /\ \A u \in Sessions : u # s => connections'[u] = connections[u]
BY DEF StreamNames, Stream!TypeOK, Known

(* A connection that stays what it was in its token and its rooms. *)
LEMMA Touched ==
  ASSUME StreamNames, StreamTables, NEW s \in Known, NEW rec \in Stream!Connection,
         rec.token = connections[s].token, rec.rooms = connections[s].rooms,
         connections' = [connections EXCEPT ![s] = rec], UNCHANGED <<tokens, expiring, rooms>>,
         doing' \in [Callers \cup Loops -> Stream!Activity \cup {None}],
         \A p \in Callers \cup Loops : doing'[p] # None /\ doing'[p].what = "close" =>
           tokens[doing'[p].token] \in {doing'[p].session, None}
  PROVE  StreamTables' /\ Known' = Known
<1>1. /\ s \in Sessions /\ Known' = Known
      /\ connections' \in [Sessions -> Stream!Connection \cup {None}]
      /\ \A u \in Known : /\ connections'[u].token = connections[u].token
                          /\ connections'[u].rooms = connections[u].rooms
  BY Recorded DEF StreamTables, Known
<1>2. Stream!TypeOK'
  BY <1>1 DEF StreamTables, Stream!TypeOK
<1>3. Stream!MemberIsInRoom' /\ Stream!TokenLeadsHome'
  BY <1>1 DEF StreamTables, Stream!MemberIsInRoom, Stream!TokenLeadsHome, Stream!Known, Known
<1>4. TokensApart'
  BY <1>1 DEF StreamTables, TokensApart
<1> QED BY <1>1, <1>2, <1>3, <1>4 DEF StreamTables

(* The token of a new connection is nobody's. *)
LEMMA CallerGoesOn ==
  ASSUME StreamNames, StreamTables, NEW p \in Callers, Calls(p)
  PROVE  StreamTables'
<1>1. doing \in [Callers \cup Loops -> Stream!Activity \cup {None}] /\ p \in Callers \cup Loops
  BY DEF StreamTables, Stream!TypeOK
<1>2. CASE \/ Stream!NotAccepted(p) \/ Stream!Confirmed(p)
           \/ \E s \in Sessions : Stream!connect(p, s)
  <2>1. PICK a \in [what : {"accept"}, session : Sessions] \cup {None} :
          doing' = [doing EXCEPT ![p] = a] /\ UNCHANGED <<connections, tokens, expiring, rooms>>
    BY <1>2 DEF Stream!NotAccepted, Stream!Confirmed, Stream!connect, Stream!Does
  <2>2. a = None \/ (a \in Stream!Activity /\ a.what = "accept")
    BY <2>1 DEF Stream!Activity
  <2>3. doing' \in [Callers \cup Loops -> Stream!Activity \cup {None}]
    BY <1>1, <2>1, <2>2
  <2>4. TokensApart'
    BY <1>1, <2>1, <2>2 DEF StreamTables, TokensApart, Known
  <2> QED BY <2>1, <2>3, <2>4
          DEF StreamTables, Stream!TypeOK, Stream!MemberIsInRoom, Stream!TokenLeadsHome, Stream!Known
<1>3. CASE Stream!Accepted(p)
  <2> DEFINE s == doing[p].session
  <2>1. doing[p] # None /\ s \in Sessions
    BY <1>3, <1>1, StreamTypes DEF Stream!Accepted, Stream!Doing, StreamTables
  <2>2. PICK t \in Tokens :
          /\ Stream!Fresh(t)
          /\ connections' = [connections EXCEPT ![s] =
               [token |-> t, rooms |-> {}, state |-> "connected", stale |-> FALSE]]
          /\ tokens' = [tokens EXCEPT ![t] = s]
    BY <1>3 DEF Stream!Accepted
  <2> DEFINE rec == [token |-> t, rooms |-> {}, state |-> "connected", stale |-> FALSE]
             note == [what |-> "confirm", session |-> s]
  <2>3. rec \in Stream!Connection /\ rec.token = t /\ rec.rooms = {}
    BY <2>2 DEF Stream!Connection
  <2>4. note \in Stream!Activity /\ note.what = "confirm" /\ doing' = [doing EXCEPT ![p] = note]
        /\ UNCHANGED <<expiring, rooms>>
    BY <1>3, <2>1 DEF Stream!Activity, Stream!Accepted, Stream!Does
  <2>5. connections' = [connections EXCEPT ![s] = rec]
    BY <2>2
  <2> HIDE DEF rec, note
  <2>6. /\ connections' \in [Sessions -> Stream!Connection \cup {None}]
        /\ Known' = Known \cup {s} /\ connections'[s] = rec
        /\ \A u \in Sessions : u # s => connections'[u] = connections[u]
    BY <2>1, <2>3, <2>5, Recorded DEF StreamTables
  <2> HIDE DEF s
  <2>7. /\ t \notin expiring /\ \A u \in Known : connections[u].token # t
        /\ \A q \in Callers \cup Loops : doing[q] # None /\ doing[q].what = "close" => doing[q].token # t
    BY <1>1, <2>2 DEF Stream!Fresh, Stream!Known, Stream!Doing, Known
  <2>8. doing' \in [Callers \cup Loops -> Stream!Activity \cup {None}]
        /\ tokens' \in [Tokens -> Sessions \cup {None}]
    BY <1>1, <2>1, <2>2, <2>4 DEF StreamTables, Stream!TypeOK
  <2>9. Stream!TypeOK'
    BY <2>4, <2>6, <2>8 DEF StreamTables, Stream!TypeOK
  <2>10. Stream!MemberIsInRoom'
    BY <2>3, <2>4, <2>6 DEF StreamTables, Stream!MemberIsInRoom, Stream!Known, Known
  <2>11. tokens'[t] = s /\ \A u \in Tokens : u # t => tokens'[u] = tokens[u]
    BY <2>2 DEF StreamTables, Stream!TypeOK
  <2>12. \A u \in Known : connections[u].token \in Tokens
    BY StreamTypes DEF StreamTables
  <2>13. Stream!TokenLeadsHome'
    <3>1. \A u \in Known : tokens[connections[u].token] = u
      BY DEF StreamTables, Stream!TokenLeadsHome, Stream!Known, Known
    <3>2. \A u \in Known' : tokens'[connections'[u].token] = u
      BY <2>3, <2>6, <2>7, <2>11, <2>12, <3>1 DEF Known
    <3> QED BY <3>2 DEF Stream!TokenLeadsHome, Stream!Known, Known
  <2>14. TokensApart'
    <3>1. \A u \in Known' : connections'[u].token \notin expiring'
      BY <2>3, <2>4, <2>6, <2>7 DEF StreamTables, TokensApart, Known
    <3>2. ASSUME NEW q \in Callers \cup Loops, doing'[q] # None, doing'[q].what = "close"
          PROVE  tokens'[doing'[q].token] \in {doing'[q].session, None}
      <4>1. q # p /\ doing'[q] = doing[q]
        BY <1>1, <2>4, <3>2
      <4>2. doing[q].token \in Tokens /\ doing[q].token # t
        BY <2>7, <3>2, <4>1, StreamTypes DEF StreamTables
      <4> QED BY <2>11, <3>2, <4>1, <4>2 DEF StreamTables, TokensApart
    <3> QED BY <3>1, <3>2 DEF TokensApart
  <2> QED BY <2>9, <2>10, <2>13, <2>14 DEF StreamTables
<1> QED BY <1>2, <1>3 DEF Calls

(* Leaving a room takes the session out of it and the room out of the       *)
(* connection.                                                              *)
LEMMA RoomIsLeft ==
  ASSUME StreamNames, StreamTables, NEW s \in Sessions, NEW r \in Rooms, Stream!Leaves(s, r),
         UNCHANGED <<tokens, expiring>>,
         doing' \in [Callers \cup Loops -> Stream!Activity \cup {None}],
         \A p \in Callers \cup Loops : doing'[p] # None /\ doing'[p].what = "close" =>
           tokens[doing'[p].token] \in {doing'[p].session, None}
  PROVE  StreamTables' /\ Known' = Known
<1>1. /\ rooms' \in [Rooms -> SUBSET Sessions] /\ rooms'[r] = rooms[r] \ {s}
      /\ \A q \in Rooms : q # r => rooms'[q] = rooms[q]
  BY DEF Stream!Leaves, StreamTables, Stream!TypeOK
<1>2. /\ connections' \in [Sessions -> Stream!Connection \cup {None}] /\ Known' = Known
      /\ \A u \in Known : /\ connections'[u].token = connections[u].token
                          /\ connections'[u].rooms \subseteq connections[u].rooms
      /\ s \in Known => r \notin connections'[s].rooms
  <2>1. CASE s \in rooms[r] /\ s \in Known
    <3> DEFINE rec == [connections[s] EXCEPT !.rooms = @ \ {r}]
    <3>1. /\ rec \in Stream!Connection /\ rec.token = connections[s].token
          /\ rec.rooms = connections[s].rooms \ {r}
      BY <2>1, StreamTypes DEF StreamTables, Stream!Connection
    <3>2. connections' = [connections EXCEPT ![s] = rec]
      BY <2>1 DEF Stream!Leaves, Stream!Known, Known
    <3> HIDE DEF rec
    <3>3. /\ connections' \in [Sessions -> Stream!Connection \cup {None}]
          /\ Known' = Known \cup {s} /\ connections'[s] = rec
          /\ \A u \in Sessions : u # s => connections'[u] = connections[u]
      BY <3>1, <3>2, Recorded DEF StreamTables
    <3> QED BY <2>1, <3>1, <3>3 DEF Known
  <2>2. CASE ~(s \in rooms[r] /\ s \in Known)
    <3>1. connections' = connections
      BY <2>2 DEF Stream!Leaves, Stream!Known, Known
    <3>2. s \in Known => r \notin connections[s].rooms
      BY <2>2 DEF StreamTables, Stream!MemberIsInRoom, Stream!Known, Known
    <3> QED BY <3>1, <3>2 DEF StreamTables, Stream!TypeOK, Known
  <2> QED BY <2>1, <2>2
<1>3. Stream!TypeOK'
  BY <1>1, <1>2 DEF StreamTables, Stream!TypeOK
<1>4. Stream!MemberIsInRoom'
  <2>1. \A u \in Known : \A q \in connections[u].rooms : u \in rooms[q] /\ q \in Rooms
    BY StreamTypes DEF StreamTables, Stream!MemberIsInRoom, Stream!Known, Known
  <2>2. \A u \in Known : \A q \in connections'[u].rooms : u \in rooms'[q]
    BY <1>1, <1>2, <2>1
  <2> QED BY <1>2, <2>2 DEF Stream!MemberIsInRoom, Stream!Known, Known
<1>5. Stream!TokenLeadsHome' /\ TokensApart'
  BY <1>2 DEF StreamTables, Stream!TokenLeadsHome, TokensApart, Stream!Known, Known
<1> QED BY <1>2, <1>3, <1>4, <1>5 DEF StreamTables

LEMMA CallCloses ==
  ASSUME StreamNames, StreamTables, NEW p \in Callers \cup Loops, Closes(p)
  PROVE  StreamTables'
<1>1. doing \in [Callers \cup Loops -> Stream!Activity \cup {None}]
  BY DEF StreamTables, Stream!TypeOK
<1>2. ASSUME NEW s \in Sessions, Stream!disconnect(p, s) PROVE StreamTables'
  <2> DEFINE rec == [connections[s] EXCEPT !.state = "disconnected"]
             note == [what |-> "close", session |-> s, token |-> connections[s].token,
                      rooms |-> connections[s].rooms]
  <2>1. s \in Known /\ connections' = [connections EXCEPT ![s] = rec]
        /\ doing' = [doing EXCEPT ![p] = note] /\ UNCHANGED <<tokens, expiring, rooms>>
    BY <1>2 DEF Stream!disconnect, Stream!Known, Known, Stream!Does
  <2>2. /\ rec \in Stream!Connection /\ rec.token = connections[s].token
        /\ rec.rooms = connections[s].rooms
    BY <2>1, StreamTypes DEF StreamTables, Stream!Connection
  <2>3. note \in Stream!Activity /\ note.session = s /\ note.token = connections[s].token
    BY <2>1, StreamTypes DEF StreamTables, Stream!Activity
  <2> HIDE DEF rec, note
  <2>4. doing' \in [Callers \cup Loops -> Stream!Activity \cup {None}]
    BY <1>1, <2>1, <2>3
  <2>5. tokens[connections[s].token] = s
    BY <2>1 DEF StreamTables, Stream!TokenLeadsHome, Stream!Known, Known
  <2>6. \A q \in Callers \cup Loops : doing'[q] # None /\ doing'[q].what = "close" =>
          tokens[doing'[q].token] \in {doing'[q].session, None}
    BY <1>1, <2>1, <2>3, <2>5 DEF StreamTables, TokensApart
  <2> QED BY <2>1, <2>2, <2>4, <2>6, Touched
<1>3. CASE Stream!LeavesOne(p)
  <2> DEFINE s == doing[p].session
  <2>1. PICK r \in doing[p].rooms : /\ Stream!Leaves(s, r) /\ UNCHANGED <<tokens, expiring>>
                                    /\ doing' = [doing EXCEPT ![p].rooms = @ \ {r}]
    BY <1>3 DEF Stream!LeavesOne
  <2>2. doing[p] \in Stream!Activity /\ doing[p].what = "close" /\ s \in Sessions /\ r \in Rooms
    BY <1>3, StreamTypes DEF Stream!LeavesOne, Stream!Doing, StreamTables
  <2> DEFINE note == [doing[p] EXCEPT !.rooms = @ \ {r}]
  <2>3. /\ note \in Stream!Activity /\ note.session = s /\ note.token = doing[p].token
        /\ doing' = [doing EXCEPT ![p] = note]
    BY <2>1, <2>2 DEF Stream!Activity
  <2> HIDE DEF note
  <2>4. doing' \in [Callers \cup Loops -> Stream!Activity \cup {None}]
    BY <1>1, <2>3
  <2>5. doing[p] # None
    BY <1>3 DEF Stream!LeavesOne, Stream!Doing
  <2>6. \A q \in Callers \cup Loops : doing'[q] # None /\ doing'[q].what = "close" =>
          tokens[doing'[q].token] \in {doing'[q].session, None}
    BY <1>1, <2>2, <2>3, <2>5 DEF StreamTables, TokensApart
  <2> QED BY <2>1, <2>2, <2>4, <2>6, RoomIsLeft
<1>4. CASE Stream!Closed(p)
  <2> DEFINE s == doing[p].session
             t == doing[p].token
  <2>1. doing[p] # None /\ doing[p].what = "close" /\ s \in Sessions /\ t \in Tokens
    BY <1>4, StreamTypes DEF Stream!Closed, Stream!Doing, StreamTables
  <2>2. tokens[t] \in {s, None}
    BY <2>1 DEF StreamTables, TokensApart
  <2>3. /\ doing' = [doing EXCEPT ![p] = None] /\ UNCHANGED <<tokens, rooms>>
        /\ IF s \in Known
             THEN connections' = [connections EXCEPT ![s] = None] /\ expiring' = expiring \cup {t}
             ELSE UNCHANGED <<connections, expiring>>
    BY <1>4 DEF Stream!Closed, Stream!Does, Stream!Known, Known
  <2> HIDE DEF s, t
  <2>4. /\ connections' \in [Sessions -> Stream!Connection \cup {None}] /\ expiring' \subseteq Tokens
        /\ Known' = Known \ {s}
        /\ \A u \in Known' : connections'[u] = connections[u]
    BY <2>1, <2>3 DEF StreamTables, Stream!TypeOK, Known
  <2>5. Stream!TypeOK'
    BY <1>1, <2>3, <2>4 DEF StreamTables, Stream!TypeOK
  <2>6. Stream!MemberIsInRoom' /\ Stream!TokenLeadsHome'
    BY <2>3, <2>4 DEF StreamTables, Stream!MemberIsInRoom, Stream!TokenLeadsHome, Stream!Known, Known
  <2>7. \A u \in Known : tokens[connections[u].token] = u
    BY DEF StreamTables, Stream!TokenLeadsHome, Stream!Known, Known
  <2>8. \A u \in Known' : connections'[u].token \notin expiring'
    BY <2>2, <2>3, <2>4, <2>7 DEF StreamNames, StreamTables, TokensApart, Known
  <2>9. TokensApart'
    BY <1>1, <2>3, <2>8 DEF StreamTables, TokensApart
  <2> QED BY <2>5, <2>6, <2>9 DEF StreamTables
<1> QED BY <1>2, <1>3, <1>4 DEF Closes

LEMMA StreamStep ==
  ASSUME StreamNames, StreamTables, [Stream!Next]_Stream!vars
  PROVE  StreamTables'
<1>1. doing \in [Callers \cup Loops -> Stream!Activity \cup {None}]
  BY DEF StreamTables, Stream!TypeOK
<1>2. \A p \in Callers \cup Loops : doing[p] # None /\ doing[p].what = "close" =>
        tokens[doing[p].token] \in {doing[p].session, None}
  BY DEF StreamTables, TokensApart
<1>3. CASE \E t \in Tokens : Stream!_cleanup_reconnect_token(t)
  <2>1. PICK t \in Tokens :
          /\ t \in expiring /\ expiring' = expiring \ {t} /\ tokens' = [tokens EXCEPT ![t] = None]
          /\ UNCHANGED <<connections, rooms, doing>>
    BY <1>3 DEF Stream!_cleanup_reconnect_token
  <2>2. \A u \in Known : connections[u].token \in Tokens /\ connections[u].token # t
    BY <2>1, StreamTypes DEF StreamTables, TokensApart
  <2>3. /\ tokens' \in [Tokens -> Sessions \cup {None}] /\ tokens'[t] = None
        /\ \A u \in Tokens : u # t => tokens'[u] = tokens[u]
    BY <2>1 DEF StreamTables, Stream!TypeOK
  <2>4. Stream!TypeOK' /\ Stream!MemberIsInRoom'
    BY <2>1, <2>3 DEF StreamTables, Stream!TypeOK, Stream!MemberIsInRoom, Stream!Known
  <2>5. Stream!TokenLeadsHome'
    BY <2>1, <2>2, <2>3 DEF StreamTables, Stream!TokenLeadsHome, Stream!Known, Known
  <2>6. \A p \in Callers \cup Loops : doing[p] # None /\ doing[p].what = "close" =>
          tokens'[doing[p].token] \in {doing[p].session, None}
    BY <1>2, <2>3, StreamTypes DEF StreamTables
  <2>7. TokensApart'
    BY <2>1, <2>6 DEF StreamTables, TokensApart, Known
  <2> QED BY <2>4, <2>5, <2>7 DEF StreamTables
<1>4. ASSUME NEW s \in Sessions, Touches(s) PROVE StreamTables'
  <2>1. s \in Known /\ connections[s] \in Stream!Connection
    BY <1>4, StreamTypes DEF Touches, Stream!SendFails, Stream!Ages, Stream!handle_heartbeat,
                             Stream!Known, Known, StreamTables
  <2>2. PICK rec \in Stream!Connection :
          /\ rec.token = connections[s].token /\ rec.rooms = connections[s].rooms
          /\ connections' = [connections EXCEPT ![s] = rec]
    <3>1. [connections[s] EXCEPT !.state = "reconnecting"] \in Stream!Connection
          /\ \A b \in BOOLEAN : [connections[s] EXCEPT !.stale = b] \in Stream!Connection
      BY <2>1 DEF Stream!Connection
    <3> QED BY <1>4, <2>1, <3>1 DEF Touches, Stream!SendFails, Stream!Ages, Stream!handle_heartbeat,
                                    Stream!Connection
  <2>3. UNCHANGED <<tokens, expiring, rooms, doing>>
    BY <1>4 DEF Touches, Stream!SendFails, Stream!Ages, Stream!handle_heartbeat
  <2> QED BY <1>1, <1>2, <2>1, <2>2, <2>3, Touched
<1>5. ASSUME NEW s \in Sessions, NEW r \in Rooms, Stream!join_room(s, r) PROVE StreamTables'
  <2> DEFINE rec == [connections[s] EXCEPT !.rooms = @ \cup {r}]
  <2>1. /\ s \in Known /\ connections' = [connections EXCEPT ![s] = rec]
        /\ rooms' = [rooms EXCEPT ![r] = @ \cup {s}] /\ UNCHANGED <<tokens, expiring, doing>>
    BY <1>5 DEF Stream!join_room, Stream!Known, Known
  <2>2. /\ rec \in Stream!Connection /\ rec.token = connections[s].token
        /\ rec.rooms = connections[s].rooms \cup {r}
    BY <2>1, StreamTypes DEF StreamTables, Stream!Connection
  <2> HIDE DEF rec
  <2>3. /\ connections' \in [Sessions -> Stream!Connection \cup {None}]
        /\ Known' = Known /\ connections'[s] = rec
        /\ \A u \in Sessions : u # s => connections'[u] = connections[u]
    BY <2>1, <2>2, Recorded DEF StreamTables, Known
  <2>4. /\ rooms' \in [Rooms -> SUBSET Sessions] /\ s \in rooms'[r]
        /\ \A q \in Rooms : rooms[q] \subseteq rooms'[q]
    BY <2>1 DEF StreamTables, Stream!TypeOK
  <2>5. Stream!TypeOK'
    BY <2>1, <2>3, <2>4 DEF StreamTables, Stream!TypeOK
  <2>6. \A u \in Known : \A q \in connections[u].rooms : u \in rooms[q] /\ q \in Rooms
    BY StreamTypes DEF StreamTables, Stream!MemberIsInRoom, Stream!Known, Known
  <2>7. \A u \in Known : \A q \in connections'[u].rooms : u \in rooms'[q]
    <3> SUFFICES ASSUME NEW u \in Known, NEW q \in connections'[u].rooms PROVE u \in rooms'[q]
      OBVIOUS
    <3>1. CASE u = s
      BY <2>1, <2>2, <2>3, <2>4, <2>6, <3>1
    <3>2. CASE u # s
      BY <2>3, <2>4, <2>6, <3>2 DEF Known
    <3> QED BY <3>1, <3>2
  <2>8. Stream!MemberIsInRoom'
    BY <2>3, <2>7 DEF Stream!MemberIsInRoom, Stream!Known, Known
  <2>9. \A u \in Known : connections'[u].token = connections[u].token
    BY <2>2, <2>3 DEF Known
  <2>10. Stream!TokenLeadsHome' /\ TokensApart'
    BY <2>1, <2>3, <2>9 DEF StreamTables, Stream!TokenLeadsHome, TokensApart, Stream!Known, Known
  <2> QED BY <2>5, <2>8, <2>10 DEF StreamTables
<1>6. ASSUME NEW s \in Sessions, NEW r \in Rooms, Stream!leave_room(s, r) PROVE StreamTables'
  <2>1. Stream!Leaves(s, r) /\ UNCHANGED <<tokens, expiring, doing>>
    BY <1>6 DEF Stream!leave_room
  <2> QED BY <1>1, <1>2, <2>1, RoomIsLeft
<1>7. CASE UNCHANGED Stream!vars
  BY <1>7 DEF Stream!vars, StreamTables, Stream!TypeOK, Stream!MemberIsInRoom,
              Stream!TokenLeadsHome, TokensApart, Stream!Known, Known
<1> QED BY <1>3, <1>4, <1>5, <1>6, <1>7, StreamNext, CallerGoesOn, CallCloses

(* How many there are changes in three ways only: none comes, a caller lets *)
(* itself in, or it has its connection recorded.                            *)
LEMMA StreamMoves ==
  ASSUME StreamNames, StreamTables, [Stream!Next]_Stream!vars
  PROVE  \/ Known' \subseteq Known /\ Accepting' \subseteq Accepting
         \/ /\ Known' = Known /\ Stream!Cardinality(Known) < MaxConnections
         \/ \E s \in Sessions, p \in Accepting :
              Known' \subseteq Known \cup {s} /\ Accepting' \subseteq Accepting \ {p}
<1>1. doing \in [Callers \cup Loops -> Stream!Activity \cup {None}]
  BY DEF StreamTables, Stream!TypeOK
<1>2. ASSUME NEW p \in Callers, Stream!NotAccepted(p) \/ Stream!Confirmed(p)
      PROVE  Known' \subseteq Known /\ Accepting' \subseteq Accepting
  BY <1>1, <1>2 DEF Stream!NotAccepted, Stream!Confirmed, Stream!Does, Known, Accepting
<1>3. ASSUME NEW p \in Callers, NEW s \in Sessions, Stream!connect(p, s)
      PROVE  Known' = Known /\ Stream!Cardinality(Known) < MaxConnections
  BY <1>3 DEF Stream!connect, Stream!Known, Known
<1>4. ASSUME NEW p \in Callers, Stream!Accepted(p)
      PROVE  \E s \in Sessions, q \in Accepting :
               Known' \subseteq Known \cup {s} /\ Accepting' \subseteq Accepting \ {q}
  <2> DEFINE s == doing[p].session
             note == [what |-> "confirm", session |-> s]
  <2>1. p \in Accepting /\ s \in Sessions
    BY <1>4, StreamTypes DEF StreamTables, Stream!Accepted, Stream!Doing, Accepting
  <2>2. \E rec : connections' = [connections EXCEPT ![s] = rec]
    BY <1>4 DEF Stream!Accepted
  <2>3. Known' \subseteq Known \cup {s}
    BY <2>1, <2>2 DEF StreamTables, Stream!TypeOK, Known
  <2>4. doing' = [doing EXCEPT ![p] = note] /\ note.what = "confirm"
    BY <1>4 DEF Stream!Accepted, Stream!Does
  <2> HIDE DEF note
  <2>5. Accepting' \subseteq Accepting \ {p}
    BY <1>1, <2>4 DEF Accepting
  <2> QED BY <2>1, <2>3, <2>5
<1>5. ASSUME NEW p \in Callers \cup Loops, Closes(p)
      PROVE  Known' \subseteq Known /\ Accepting' \subseteq Accepting
  <2>1. ASSUME NEW s \in Sessions, Stream!disconnect(p, s)
        PROVE  Known' \subseteq Known /\ Accepting' \subseteq Accepting
    <3> DEFINE note == [what |-> "close", session |-> s, token |-> connections[s].token,
                        rooms |-> connections[s].rooms]
    <3>1. s \in Known /\ (\E rec : connections' = [connections EXCEPT ![s] = rec])
          /\ doing' = [doing EXCEPT ![p] = note] /\ note.what = "close"
      BY <2>1 DEF Stream!disconnect, Stream!Known, Known, Stream!Does
    <3> HIDE DEF note
    <3>2. Known' \subseteq Known
      BY <3>1 DEF StreamTables, Stream!TypeOK, Known
    <3>3. Accepting' \subseteq Accepting
      BY <1>1, <3>1 DEF Accepting
    <3> QED BY <3>2, <3>3
  <2>2. ASSUME Stream!LeavesOne(p)
        PROVE  Known' \subseteq Known /\ Accepting' \subseteq Accepting
    <3>1. PICK r \in doing[p].rooms : /\ Stream!Leaves(doing[p].session, r)
                                      /\ doing' = [doing EXCEPT ![p].rooms = @ \ {r}]
      BY <2>2 DEF Stream!LeavesOne
    <3>2. Known' \subseteq Known
      <4>1. doing[p].session \in Known => \E rec : connections' = [connections EXCEPT ![doing[p].session] = rec]
                                            \/ connections' = connections
        BY <3>1 DEF Stream!Leaves
      <4>2. doing[p].session \notin Known => connections' = connections
        <5>1. doing[p].session \in Sessions
          BY <2>2, StreamTypes DEF Stream!LeavesOne, Stream!Doing, StreamTables
        <5> QED BY <3>1, <5>1 DEF Stream!Leaves, Stream!Known, Known
      <4> QED BY <4>1, <4>2 DEF StreamTables, Stream!TypeOK, Known
    <3>3. /\ doing[p] \in Stream!Activity /\ doing[p].what = "close"
      BY <2>2, StreamTypes DEF Stream!LeavesOne, Stream!Doing, StreamTables
    <3> DEFINE note == [doing[p] EXCEPT !.rooms = @ \ {r}]
    <3>4. note.what = "close" /\ doing' = [doing EXCEPT ![p] = note]
      BY <3>1, <3>3 DEF Stream!Activity
    <3> HIDE DEF note
    <3>5. Accepting' \subseteq Accepting
      BY <1>1, <3>4 DEF Accepting
    <3> QED BY <3>2, <3>5
  <2>3. ASSUME Stream!Closed(p)
        PROVE  Known' \subseteq Known /\ Accepting' \subseteq Accepting
    <3>1. doing' = [doing EXCEPT ![p] = None]
      BY <2>3 DEF Stream!Closed, Stream!Does
    <3>2. connections' = connections \/ connections' = [connections EXCEPT ![doing[p].session] = None]
      BY <2>3 DEF Stream!Closed
    <3>3. Known' \subseteq Known
      BY <3>2 DEF StreamTables, Stream!TypeOK, Known
    <3> QED BY <1>1, <3>1, <3>3 DEF Accepting
  <2> QED BY <1>5, <2>1, <2>2, <2>3 DEF Closes
<1>6. ASSUME NEW t \in Tokens, Stream!_cleanup_reconnect_token(t)
      PROVE  Known' \subseteq Known /\ Accepting' \subseteq Accepting
  BY <1>6 DEF Stream!_cleanup_reconnect_token, Known, Accepting
<1>7. ASSUME NEW s \in Sessions, \/ Touches(s)
                                 \/ \E r \in Rooms : Stream!join_room(s, r) \/ Stream!leave_room(s, r)
      PROVE  Known' \subseteq Known /\ Accepting' \subseteq Accepting
  <2>1. doing' = doing
    BY <1>7 DEF Touches, Stream!SendFails, Stream!Ages, Stream!handle_heartbeat, Stream!join_room,
                Stream!leave_room
  <2>2. \/ s \in Known /\ \E rec : connections' = [connections EXCEPT ![s] = rec]
        \/ connections' = connections
    BY <1>7 DEF Touches, Stream!SendFails, Stream!Ages, Stream!handle_heartbeat, Stream!join_room,
                Stream!leave_room, Stream!Leaves, Stream!Known, Known
  <2>3. Known' \subseteq Known
    BY <2>2 DEF StreamTables, Stream!TypeOK, Known
  <2> QED BY <2>1, <2>3 DEF Accepting
<1>8. CASE UNCHANGED Stream!vars
  BY <1>8 DEF Stream!vars, Known, Accepting
<1> QED BY <1>2, <1>3, <1>4, <1>5, <1>6, <1>7, <1>8, StreamNext DEF Calls

(* The connections there and those being accepted are fewer than the limit  *)
(* and the callers together.                                                *)
LEMMA RoomStays ==
  ASSUME StreamNames, StreamInv, [Stream!Next]_Stream!vars
  PROVE  WithRoom'
<1> DEFINE K == Cardinality(Known)
           A == Cardinality(Accepting)
           C == Cardinality(Callers)
<1>1. /\ IsFiniteSet(Known) /\ IsFiniteSet(Accepting) /\ IsFiniteSet(Callers)
      /\ K \in Nat /\ A \in Nat /\ C \in Nat /\ MaxConnections \in Nat \ {0}
  BY FS_CardinalityType DEF StreamNames, StreamInv, WithRoom
<1>2. /\ Accepting \subseteq Callers /\ Accepting' \subseteq Callers
      /\ IsFiniteSet(Accepting') /\ Cardinality(Accepting') \in Nat /\ Cardinality(Accepting') <= C
  <2>1. Accepting' \subseteq Callers /\ Accepting \subseteq Callers
    BY DEF Accepting
  <2> QED BY <1>1, <2>1, FS_Subset, FS_CardinalityType
<1>3. K + A < MaxConnections + C
  BY DEF StreamInv, WithRoom
<1>4. CASE Known' \subseteq Known /\ Accepting' \subseteq Accepting
  <2>1. /\ IsFiniteSet(Known') /\ Cardinality(Known') \in Nat /\ Cardinality(Known') <= K
        /\ Cardinality(Accepting') <= A
    BY <1>1, <1>4, FS_Subset, FS_CardinalityType
  <2> HIDE DEF K, A, C
  <2>2. Cardinality(Known') + Cardinality(Accepting') < MaxConnections + C
    BY <1>1, <1>2, <1>3, <2>1
  <2> QED BY <1>2, <2>1, <2>2 DEF WithRoom, C
<1>5. CASE Known' = Known /\ Stream!Cardinality(Known) < MaxConnections
  <2>1. Stream!Cardinality(Known) = K
    BY DEF Stream!Cardinality, Cardinality
  <2>2. Cardinality(Known') = K
    BY <1>5
  <2> HIDE DEF K, A, C
  <2>3. Cardinality(Known') + Cardinality(Accepting') < MaxConnections + C
    BY <1>1, <1>2, <1>5, <2>1, <2>2
  <2> QED BY <1>1, <1>2, <1>5, <2>3 DEF WithRoom, C
<1>6. CASE \E s \in Sessions, p \in Accepting :
             Known' \subseteq Known \cup {s} /\ Accepting' \subseteq Accepting \ {p}
  <2>1. PICK s \in Sessions, p \in Accepting :
          Known' \subseteq Known \cup {s} /\ Accepting' \subseteq Accepting \ {p}
    BY <1>6
  <2>2. IsFiniteSet(Known \cup {s}) /\ Cardinality(Known \cup {s}) <= K + 1
        /\ Cardinality(Known \cup {s}) \in Nat
    <3>1. IsFiniteSet(Known \cup {s}) /\ (Cardinality(Known \cup {s}) = K \/ Cardinality(Known \cup {s}) = K + 1)
      BY <1>1, FS_AddElement
    <3>2. Cardinality(Known \cup {s}) \in Nat
      BY <3>1, FS_CardinalityType
    <3> HIDE DEF K
    <3> QED BY <1>1, <3>1, <3>2
  <2>3. IsFiniteSet(Known') /\ Cardinality(Known') \in Nat /\ Cardinality(Known') <= K + 1
    <3>1. /\ IsFiniteSet(Known') /\ Cardinality(Known') <= Cardinality(Known \cup {s})
      BY <2>1, <2>2, FS_Subset
    <3>2. Cardinality(Known') \in Nat
      BY <3>1, FS_CardinalityType
    <3> HIDE DEF K
    <3> QED BY <1>1, <2>2, <3>1, <3>2
  <2>4. IsFiniteSet(Accepting \ {p}) /\ Cardinality(Accepting \ {p}) = A - 1
    BY <1>1, <2>1, FS_RemoveElement
  <2>5. Cardinality(Accepting') <= A - 1
    BY <2>1, <2>4, FS_Subset
  <2> HIDE DEF K, A, C
  <2>6. Cardinality(Known') + Cardinality(Accepting') < MaxConnections + C
    BY <1>1, <1>2, <1>3, <2>3, <2>5
  <2> QED BY <1>2, <2>3, <2>6 DEF WithRoom, C
<1> QED BY <1>4, <1>5, <1>6, StreamMoves DEF StreamInv

(* streaming/websocket_manager.py: a limit passed by no more than the calls *)
(* that wait to be accepted, rooms that know the sessions of the            *)
(* connections which have joined them, and tokens that lead a client back   *)
(* to its session.                                                          *)
THEOREM TokensAndRoomsAgree ==
  ASSUME StreamNames
  PROVE  Stream!Spec => [](/\ Stream!TypeOK /\ Stream!LimitHolds /\ Stream!MemberIsInRoom
                           /\ Stream!TokenLeadsHome)
<1>1. Stream!Init => StreamInv
  <2> SUFFICES ASSUME Stream!Init PROVE StreamInv
    OBVIOUS
  <2>1. Known = {} /\ Accepting = {}
    BY DEF Stream!Init, Known, Accepting
  <2>2. StreamTables
    BY <2>1 DEF StreamNames, Stream!Init, StreamTables, Stream!TypeOK, Stream!MemberIsInRoom,
                Stream!TokenLeadsHome, Stream!Known, TokensApart, Known
  <2>3. Cardinality({}) = 0 /\ IsFiniteSet({}) /\ Cardinality(Callers) \in Nat
    BY FS_EmptySet, FS_CardinalityType DEF StreamNames
  <2>4. WithRoom
    BY <2>1, <2>3 DEF WithRoom, StreamNames
  <2> QED BY <2>2, <2>4 DEF StreamInv
<1>2. StreamInv /\ [Stream!Next]_Stream!vars => StreamInv'
  BY StreamStep, RoomStays DEF StreamInv
<1>3. StreamInv => /\ Stream!TypeOK /\ Stream!LimitHolds /\ Stream!MemberIsInRoom
                   /\ Stream!TokenLeadsHome
  <2> SUFFICES ASSUME StreamInv PROVE Stream!LimitHolds
    BY DEF StreamInv, StreamTables
  <2>1. Stream!Cardinality(Known) = Cardinality(Known) /\ Stream!Cardinality(Callers) = Cardinality(Callers)
    BY DEF Stream!Cardinality, Cardinality
  <2>2. /\ Cardinality(Known) \in Nat /\ Cardinality(Accepting) \in Nat /\ Cardinality(Callers) \in Nat
    BY FS_CardinalityType DEF StreamNames, StreamInv, WithRoom
  <2>3. Cardinality(Known) < MaxConnections + Cardinality(Callers)
    BY <2>2 DEF StreamNames, StreamInv, WithRoom
  <2> QED BY <2>1, <2>3 DEF Stream!LimitHolds, Stream!Known, Known
<1> QED BY <1>1, <1>2, <1>3, PTL DEF Stream!Spec

-----------------------------------------------------------------------------
Joining == [socket : Sockets, to : Rooms, at : {"leave", "enter"}]
SocketNames == user \in [Sockets -> Users] /\ home \in [Sockets -> Rooms] /\ None \notin Joining

(* How far the two handlers of a socket have come.                          *)
Phase(c) ==
  /\ c \in connections => connecting[c] \in {"room", "queue", "done"}
  /\ connecting[c] \in {"room", "queue", "done"} /\ leaving[c] = "no" => c \in connections
  /\ leaving[c] \in {"room", "rest"} => c \in connections /\ status[c] = "disconnected"
  /\ leaving[c] # "no" /\ c \notin overtaken => connecting[c] = "done"
  /\ leaving[c] = "done" /\ c \in connections => c \in overtaken

(* A socket that is there is in its user's sessions until it leaves them,   *)
(* and stays there only when it went before it had come.                    *)
Session(c) ==
  /\ c \in connections /\ leaving[c] # "rest" => c \in sessions[user[c]]
  /\ \A u \in Users : c \in sessions[u] =>
       /\ user[c] = u /\ connecting[c] \in {"room", "queue", "done"}
       /\ leaving[c] \in {"rest", "done"} => c \in overtaken

(* A socket that has come is a member of its room, or about to enter it.    *)
Housed(c) ==
  connecting[c] \in {"queue", "done"} /\ leaving[c] = "no" =>
    \/ c \in members[room[c]]
    \/ \E j \in Joins : joining[j] # None /\ joining[j].at = "enter"
                        /\ joining[j].socket = c /\ joining[j].to = room[c]

(* Offline as PresenceIsRight says it, of the sockets that have come.       *)
Gone(u) ==
  /\ \E c \in Sockets : user[c] = u /\ leaving[c] \in {"rest", "done"}
  /\ \A c \in Sockets : user[c] = u =>
       c \notin overtaken /\ (leaving[c] \in {"rest", "done"} \/ connecting[c] \in {"limit", "refused"})
Present(u) ==
  /\ presence[u] = "offline" =>
       \A c \in Sockets : user[c] = u /\ connecting[c] \in {"queue", "done"} => leaving[c] # "no"
  /\ Gone(u) => presence[u] = "offline"

SocketTables ==
  /\ Scalable!TypeOK
  /\ \A c \in Sockets : Phase(c) /\ Session(c) /\ Housed(c)
  /\ \A u \in Users : Present(u)

(* Each step is a step of one socket, and of one call of join_room.         *)
Comes(c) == Scalable!Refused(c) \/ Scalable!Stored(c) \/ Scalable!Entered(c) \/ Scalable!Welcomed(c)
Goes(c) == Scalable!disconnect(c) \/ Scalable!Left(c) \/ Scalable!Removed(c)
Tells(c) == \/ Scalable!Ages(c) \/ Scalable!message(c) \/ Scalable!_handle_presence_message(c)
            \/ Scalable!_update_presence_info(c)

LEMMA ScalableNext ==
  ASSUME [Scalable!Next]_Scalable!vars
  PROVE  \/ \E c \in Sockets : Comes(c) \/ Goes(c) \/ Tells(c)
         \/ \E j \in Joins : Scalable!LeftForJoin(j) \/ Scalable!Joined(j)
                             \/ \E c \in Sockets, r \in Rooms : Scalable!join_room(j, c, r)
         \/ UNCHANGED Scalable!vars
BY DEF Scalable!Next, Scalable!_cleanup_connections, Comes, Goes, Tells

LEMMA PhaseComes ==
  ASSUME SocketNames, SocketTables, NEW c \in Sockets, Comes(c)
  PROVE  Scalable!TypeOK' /\ \A d \in Sockets : Phase(d)'
<1>1. /\ connecting \in [Sockets -> {"limit", "room", "queue", "done", "refused"}]
      /\ status \in [Sockets -> {"connected", "idle", "disconnected", None}]
      /\ sessions \in [Users -> SUBSET Sockets]
      /\ members \in [Rooms -> SUBSET Sockets]
      /\ presence \in [Users -> {"online", "away", "offline", "claimed", None}]
      /\ user[c] \in Users /\ room[c] \in Rooms
  BY DEF SocketNames, SocketTables, Scalable!TypeOK
<1>2. \A d \in Sockets : Phase(d)
  BY DEF SocketTables
<1>3. CASE Scalable!Refused(c)
  BY <1>1, <1>2, <1>3 DEF Scalable!Refused, Scalable!Connecting, Scalable!tables, Phase, SocketTables, Scalable!TypeOK
<1>4. CASE Scalable!Stored(c)
  BY <1>1, <1>2, <1>4 DEF Scalable!Stored, Scalable!Connecting, Phase, SocketTables, Scalable!TypeOK
<1>5. CASE Scalable!Entered(c)
  BY <1>1, <1>2, <1>5 DEF Scalable!Entered, Scalable!Connecting, Scalable!_update_user_presence, Phase, SocketTables, Scalable!TypeOK
<1>6. CASE Scalable!Welcomed(c)
  BY <1>1, <1>2, <1>6 DEF Scalable!Welcomed, Scalable!Connecting, Scalable!tables, Phase, SocketTables, Scalable!TypeOK
<1> QED BY <1>3, <1>4, <1>5, <1>6 DEF Comes

LEMMA PhaseGoes ==
  ASSUME SocketNames, SocketTables, NEW c \in Sockets, Goes(c)
  PROVE  Scalable!TypeOK' /\ \A d \in Sockets : Phase(d)'
<1>1. /\ leaving \in [Sockets -> {"no", "room", "rest", "done"}]
      /\ status \in [Sockets -> {"connected", "idle", "disconnected", None}]
      /\ sessions \in [Users -> SUBSET Sockets]
      /\ members \in [Rooms -> SUBSET Sockets]
      /\ presence \in [Users -> {"online", "away", "offline", "claimed", None}]
      /\ user[c] \in Users /\ room[c] \in Rooms
  BY DEF SocketNames, SocketTables, Scalable!TypeOK
<1>2. \A d \in Sockets : Phase(d)
  BY DEF SocketTables
<1>3. CASE Scalable!disconnect(c)
  BY <1>1, <1>2, <1>3 DEF Scalable!disconnect, Scalable!Leaving, Phase, SocketTables, Scalable!TypeOK
<1>4. CASE Scalable!Left(c)
  BY <1>1, <1>2, <1>4 DEF Scalable!Left, Scalable!Leaving, Scalable!_update_user_presence, Phase, SocketTables, Scalable!TypeOK
<1>5. CASE Scalable!Removed(c)
  BY <1>1, <1>2, <1>5 DEF Scalable!Removed, Scalable!Leaving, Phase, SocketTables, Scalable!TypeOK
<1> QED BY <1>3, <1>4, <1>5 DEF Goes

(* What a socket tells, and what joins a room, moves no handler.            *)
LEMMA PhaseStays ==
  ASSUME SocketNames, SocketTables, NEW c \in Sockets, Tells(c)
  PROVE  Scalable!TypeOK' /\ \A d \in Sockets : Phase(d)'
<1>1. /\ status \in [Sockets -> {"connected", "idle", "disconnected", None}]
      /\ presence \in [Users -> {"online", "away", "offline", "claimed", None}]
      /\ user[c] \in Users
  BY DEF SocketNames, SocketTables, Scalable!TypeOK
<1>2. \A d \in Sockets : Phase(d)
  BY DEF SocketTables
<1>3. CASE Scalable!Ages(c)
  BY <1>1, <1>2, <1>3 DEF Scalable!Ages, Phase, SocketTables, Scalable!TypeOK
<1>4. CASE Scalable!message(c) \/ Scalable!_handle_presence_message(c)
  BY <1>1, <1>2, <1>4 DEF Scalable!message, Scalable!_handle_presence_message, Scalable!Heard,
                          Scalable!_update_user_presence, Phase, SocketTables, Scalable!TypeOK
<1>5. CASE Scalable!_update_presence_info(c)
  BY <1>1, <1>2, <1>5 DEF Scalable!_update_presence_info, Scalable!tables,
                          Scalable!_update_user_presence, Phase, SocketTables, Scalable!TypeOK
<1> QED BY <1>3, <1>4, <1>5 DEF Tells

(* A socket's room changes with its membership.                             *)
LEMMA RoomJoined ==
  ASSUME SocketNames, SocketTables, NEW j \in Joins,
         \/ Scalable!LeftForJoin(j) \/ Scalable!Joined(j)
         \/ \E c \in Sockets, r \in Rooms : Scalable!join_room(j, c, r)
  PROVE  SocketTables'
<1>1. /\ joining \in [Joins -> Joining \cup {None}] /\ room \in [Sockets -> Rooms]
      /\ members \in [Rooms -> SUBSET Sockets] /\ \A c \in Sockets : Housed(c)
  BY DEF SocketTables, Scalable!TypeOK, Joining
<1>2. UNCHANGED <<connections, status, sessions, presence, connecting, leaving, overtaken>>
  BY DEF Scalable!LeftForJoin, Scalable!Joined, Scalable!join_room, Scalable!tables
<1>3. /\ \A c \in Sockets : Phase(c)' /\ Session(c)'
      /\ \A u \in Users : Present(u)'
  BY <1>2 DEF SocketTables, Phase, Session, Present, Gone
<1>4. ASSUME NEW call \in Joining \cup {None}, joining' = [joining EXCEPT ![j] = call],
             room' \in [Sockets -> Rooms], members' \in [Rooms -> SUBSET Sockets]
      PROVE  Scalable!TypeOK'
  BY <1>1, <1>2, <1>4 DEF SocketTables, Scalable!TypeOK, Joining
<1>5. ASSUME NEW c \in Sockets, NEW r \in Rooms, Scalable!join_room(j, c, r) PROVE SocketTables'
  <2> DEFINE call == [socket |-> c, to |-> r, at |-> "leave"]
  <2>1. call \in Joining /\ joining' = [joining EXCEPT ![j] = call] /\ joining[j] = None
        /\ room' = room /\ members' = members
    BY <1>5 DEF Joining, Scalable!join_room, Scalable!tables
  <2> HIDE DEF call
  <2>2. \A d \in Sockets : Housed(d)'
    BY <1>1, <1>2, <2>1 DEF Housed
  <2> QED BY <1>1, <1>3, <1>4, <2>1, <2>2 DEF SocketTables
<1>6. CASE Scalable!LeftForJoin(j)
  <2> DEFINE c == joining[j].socket
             call == [joining[j] EXCEPT !.at = "enter"]
  <2>1. joining[j] \in Joining /\ c \in Sockets /\ joining[j].to \in Rooms
    BY <1>1, <1>6 DEF Scalable!LeftForJoin, Joining
  <2>2. call \in Joining /\ call.socket = c /\ call.to = joining[j].to /\ call.at = "enter"
    BY <2>1 DEF Joining
  <2>3. /\ members' = [members EXCEPT ![room[c]] = @ \ {c}]
        /\ room' = [room EXCEPT ![c] = joining[j].to] /\ joining' = [joining EXCEPT ![j] = call]
        /\ joining[j].at = "leave"
    BY <1>6 DEF Scalable!LeftForJoin
  <2> HIDE DEF call, c
  <2>4. \A d \in Sockets : Housed(d)'
    <3> SUFFICES ASSUME NEW d \in Sockets PROVE Housed(d)'
      OBVIOUS
    <3>1. CASE d = c
      BY <1>1, <2>1, <2>2, <2>3, <3>1 DEF Housed, SocketNames
    <3>2. CASE d # c
      BY <1>1, <1>2, <2>1, <2>3, <3>2 DEF Housed
    <3> QED BY <3>1, <3>2
  <2> QED BY <1>1, <1>3, <1>4, <2>1, <2>2, <2>3, <2>4 DEF SocketTables
<1>7. CASE Scalable!Joined(j)
  <2>1. joining[j] \in Joining /\ joining[j].socket \in Sockets /\ joining[j].to \in Rooms
    BY <1>1, <1>7 DEF Scalable!Joined, Joining
  <2>2. /\ members' = [members EXCEPT ![joining[j].to] = @ \cup {joining[j].socket}]
        /\ room' = room /\ joining' = [joining EXCEPT ![j] = None]
    BY <1>7 DEF Scalable!Joined
  <2>3. \A d \in Sockets : Housed(d)'
    BY <1>1, <1>2, <2>1, <2>2 DEF Housed
  <2> QED BY <1>1, <1>3, <1>4, <2>1, <2>2, <2>3 DEF SocketTables
<1> QED BY <1>5, <1>6, <1>7

LEMMA SocketComes ==
  ASSUME SocketNames, SocketTables, NEW c \in Sockets, Comes(c)
  PROVE  SocketTables'
<1>1. /\ connecting \in [Sockets -> {"limit", "room", "queue", "done", "refused"}]
      /\ sessions \in [Users -> SUBSET Sockets]
      /\ members \in [Rooms -> SUBSET Sockets]
      /\ presence \in [Users -> {"online", "away", "offline", "claimed", None}]
      /\ user \in [Sockets -> Users] /\ room[c] \in Rooms
  BY DEF SocketNames, SocketTables, Scalable!TypeOK
<1>2. /\ \A d \in Sockets : Phase(d) /\ Session(d) /\ Housed(d)
      /\ \A u \in Users : Present(u)
  BY DEF SocketTables
<1>3. CASE Scalable!Refused(c)
  <2>1. /\ connecting[c] = "limit" /\ connecting' = [connecting EXCEPT ![c] = "refused"]
        /\ UNCHANGED <<connections, room, sessions, members, presence, leaving, joining, overtaken>>
    BY <1>3 DEF Scalable!Refused, Scalable!Connecting, Scalable!tables
  <2>2. \A d \in Sockets : Session(d)' /\ Housed(d)'
    BY <1>1, <1>2, <2>1 DEF Session, Housed
  <2>3. \A u \in Users : Present(u)'
    BY <1>1, <1>2, <2>1 DEF Present, Gone
  <2> QED BY <2>2, <2>3, PhaseComes DEF SocketTables
<1>4. CASE Scalable!Stored(c)
  <2>1. /\ connecting[c] = "limit" /\ connecting' = [connecting EXCEPT ![c] = "room"]
        /\ connections' = connections \cup {c}
        /\ sessions' = [sessions EXCEPT ![user[c]] = @ \cup {c}]
        /\ UNCHANGED <<room, members, presence, leaving, joining, overtaken>>
    BY <1>4 DEF Scalable!Stored, Scalable!Connecting
  <2>2. \A d \in Sockets : Session(d)'
    BY <1>1, <1>2, <2>1 DEF Session, Phase
  <2>3. \A d \in Sockets : Housed(d)'
    BY <1>1, <1>2, <2>1 DEF Housed
  <2>4. \A u \in Users : Present(u)'
    BY <1>1, <1>2, <2>1 DEF Present, Gone, Phase
  <2> QED BY <2>2, <2>3, <2>4, PhaseComes, <1>4 DEF SocketTables
<1>5. CASE Scalable!Entered(c)
  <2>1. /\ connecting[c] = "room" /\ connecting' = [connecting EXCEPT ![c] = "queue"]
        /\ members' = [members EXCEPT ![room[c]] = @ \cup {c}]
        /\ presence' = [presence EXCEPT ![user[c]] = "online"]
        /\ UNCHANGED <<connections, room, sessions, leaving, joining, overtaken>>
    BY <1>5 DEF Scalable!Entered, Scalable!Connecting, Scalable!_update_user_presence
  <2>2. \A d \in Sockets : Session(d)' /\ Housed(d)'
    BY <1>1, <1>2, <2>1 DEF Session, Housed
  <2>3. \A u \in Users : Present(u)'
    BY <1>1, <1>2, <2>1 DEF Present, Gone, Phase
  <2> QED BY <2>2, <2>3, PhaseComes DEF SocketTables
<1>6. CASE Scalable!Welcomed(c)
  <2>1. /\ connecting[c] = "queue" /\ connecting' = [connecting EXCEPT ![c] = "done"]
        /\ UNCHANGED <<connections, room, sessions, members, presence, leaving, joining, overtaken>>
    BY <1>6 DEF Scalable!Welcomed, Scalable!Connecting, Scalable!tables
  <2>2. \A d \in Sockets : Session(d)' /\ Housed(d)'
    BY <1>1, <1>2, <2>1 DEF Session, Housed
  <2>3. \A u \in Users : Present(u)'
    BY <1>1, <1>2, <2>1 DEF Present, Gone
  <2> QED BY <2>2, <2>3, PhaseComes DEF SocketTables
<1> QED BY <1>3, <1>4, <1>5, <1>6 DEF Comes

(* The last of its user's sockets that leaves finds no other in its         *)
(* sessions, and a socket that stays is found in them.                      *)
LEMMA SocketGoes ==
  ASSUME SocketNames, SocketTables, NEW c \in Sockets, Goes(c)
  PROVE  SocketTables'
<1>1. /\ leaving \in [Sockets -> {"no", "room", "rest", "done"}]
      /\ sessions \in [Users -> SUBSET Sockets]
      /\ members \in [Rooms -> SUBSET Sockets]
      /\ presence \in [Users -> {"online", "away", "offline", "claimed", None}]
      /\ user \in [Sockets -> Users] /\ room[c] \in Rooms
  BY DEF SocketNames, SocketTables, Scalable!TypeOK
<1>2. /\ \A d \in Sockets : Phase(d) /\ Session(d) /\ Housed(d)
      /\ \A u \in Users : Present(u)
      /\ connecting \in [Sockets -> {"limit", "room", "queue", "done", "refused"}]
  BY DEF SocketTables, Scalable!TypeOK
<1>3. CASE Scalable!disconnect(c)
  <2>1. /\ leaving[c] = "no"
        /\ leaving' = [leaving EXCEPT ![c] = IF c \in connections THEN "room" ELSE "done"]
        /\ overtaken' = IF connecting[c] = "done" THEN overtaken ELSE overtaken \cup {c}
        /\ UNCHANGED <<connections, room, sessions, members, presence, connecting, joining>>
    BY <1>3 DEF Scalable!disconnect, Scalable!Leaving
  <2>2. \A d \in Sockets : Session(d)'
    BY <1>1, <1>2, <2>1 DEF Session, Phase
  <2>3. \A d \in Sockets : Housed(d)'
    BY <1>1, <1>2, <2>1 DEF Housed
  <2>4. \A u \in Users : Present(u)'
    BY <1>1, <1>2, <2>1 DEF Present, Gone, Phase
  <2> QED BY <2>2, <2>3, <2>4, PhaseGoes DEF SocketTables
<1>4. CASE Scalable!Left(c)
  <2>1. /\ leaving[c] = "room" /\ leaving' = [leaving EXCEPT ![c] = "rest"]
        /\ members' = [members EXCEPT ![room[c]] = @ \ {c}]
        /\ sessions' = [sessions EXCEPT ![user[c]] = @ \ {c}]
        /\ presence' = IF sessions[user[c]] \subseteq {c}
                         THEN [presence EXCEPT ![user[c]] = "offline"] ELSE presence
        /\ UNCHANGED <<connections, room, connecting, joining, overtaken>>
    BY <1>4 DEF Scalable!Left, Scalable!Leaving, Scalable!_update_user_presence
  <2>2. \A d \in Sockets : Session(d)'
    BY <1>1, <1>2, <2>1 DEF Session
  <2>3. \A d \in Sockets : Housed(d)'
    BY <1>1, <1>2, <2>1 DEF Housed
  <2>4. ASSUME NEW u \in Users PROVE Present(u)'
    <3>1. CASE u # user[c]
      BY <1>1, <1>2, <2>1, <3>1 DEF Present, Gone
    <3>2. CASE u = user[c] /\ sessions[u] \subseteq {c}
      <4>1. presence'[u] = "offline"
        BY <1>1, <2>1, <3>2
      <4>2. ASSUME NEW d \in Sockets, user[d] = u, connecting[d] \in {"queue", "done"}
            PROVE  leaving'[d] # "no"
        BY <1>1, <1>2, <2>1, <3>2, <4>2 DEF Phase, Session
      <4> QED BY <2>1, <4>1, <4>2 DEF Present
    <3>3. CASE u = user[c] /\ ~(sessions[u] \subseteq {c})
      <4>1. PICK d \in sessions[u] : d # c
        BY <3>3
      <4>2. /\ d \in Sockets /\ user[d] = u /\ connecting[d] \in {"room", "queue", "done"}
            /\ leaving[d] \in {"rest", "done"} => d \in overtaken
        BY <1>1, <1>2, <4>1 DEF Session
      <4>3. ~Gone(u)'
        BY <1>1, <2>1, <4>1, <4>2 DEF Gone
      <4>4. presence' = presence
        BY <2>1, <3>3
      <4> QED BY <1>1, <1>2, <2>1, <4>3, <4>4 DEF Present
    <3> QED BY <3>1, <3>2, <3>3
  <2> QED BY <2>2, <2>3, <2>4, PhaseGoes DEF SocketTables
<1>5. CASE Scalable!Removed(c)
  <2>1. /\ leaving[c] = "rest" /\ leaving' = [leaving EXCEPT ![c] = "done"]
        /\ connections' = connections \ {c}
        /\ UNCHANGED <<room, sessions, members, presence, connecting, joining, overtaken>>
    BY <1>5 DEF Scalable!Removed, Scalable!Leaving
  <2>2. \A d \in Sockets : Session(d)' /\ Housed(d)'
    BY <1>1, <1>2, <2>1 DEF Session, Housed
  <2>3. \A u \in Users : Present(u)'
    BY <1>1, <1>2, <2>1 DEF Present, Gone
  <2> QED BY <2>2, <2>3, PhaseGoes DEF SocketTables
<1> QED BY <1>3, <1>4, <1>5 DEF Goes

(* Who tells that a user is there has a socket that has not gone.           *)
LEMMA SocketTells ==
  ASSUME SocketNames, SocketTables, NEW c \in Sockets, Tells(c)
  PROVE  SocketTables'
<1>1. /\ presence \in [Users -> {"online", "away", "offline", "claimed", None}]
      /\ user \in [Sockets -> Users]
      /\ \A d \in Sockets : Phase(d) /\ Session(d) /\ Housed(d)
      /\ \A u \in Users : Present(u)
      /\ leaving \in [Sockets -> {"no", "room", "rest", "done"}]
  BY DEF SocketNames, SocketTables, Scalable!TypeOK
<1>2. UNCHANGED <<connections, room, sessions, members, connecting, leaving, joining, overtaken>>
  BY DEF Tells, Scalable!Ages, Scalable!message, Scalable!_handle_presence_message, Scalable!Heard,
         Scalable!_update_presence_info, Scalable!tables
<1>3. \/ presence' = presence
      \/ /\ c \in connections /\ (leaving[c] = "no" \/ status[c] # "disconnected")
         /\ \E s \in {"online", "away", "claimed"} : presence' = [presence EXCEPT ![user[c]] = s]
  BY DEF Tells, Scalable!Ages, Scalable!message, Scalable!_handle_presence_message, Scalable!Heard,
         Scalable!_update_presence_info, Scalable!_update_user_presence, Scalable!Open
<1>4. \A d \in Sockets : Session(d)' /\ Housed(d)'
  BY <1>1, <1>2 DEF Session, Housed
<1>5. \A u \in Users : Present(u)'
  <2>1. CASE presence' = presence
    BY <1>1, <1>2, <2>1 DEF Present, Gone
  <2>2. CASE /\ c \in connections /\ (leaving[c] = "no" \/ status[c] # "disconnected")
             /\ \E s \in {"online", "away", "claimed"} : presence' = [presence EXCEPT ![user[c]] = s]
    <3>1. ~Gone(user[c])
      BY <1>1, <2>2 DEF Gone, Phase
    <3> QED BY <1>1, <1>2, <2>2, <3>1 DEF Present, Gone
  <2> QED BY <1>3, <2>1, <2>2
<1> QED BY <1>4, <1>5, PhaseStays DEF SocketTables

(* infrastructure/websocket_scalable.py: an open socket is in its user's    *)
(* sessions and, at rest, a member of its room; a user is offline without   *)
(* a socket that has come, or by its own word, and when all of them have    *)
(* gone - whatever the handlers of its sockets do at the same time.         *)
THEOREM SocketsAreListed ==
  ASSUME SocketNames
  PROVE  Scalable!Spec => [](Scalable!TypeOK /\ Scalable!SocketIsListed /\ Scalable!PresenceIsRight)
<1>1. Scalable!Init => SocketTables
  BY DEF SocketNames, Scalable!Init, SocketTables, Scalable!TypeOK, Phase, Session, Housed, Present,
         Gone
<1>2. SocketTables /\ [Scalable!Next]_Scalable!vars => SocketTables'
  <2> SUFFICES ASSUME SocketTables, [Scalable!Next]_Scalable!vars PROVE SocketTables'
    OBVIOUS
  <2>1. CASE UNCHANGED Scalable!vars
    BY <2>1 DEF Scalable!vars, SocketTables, Scalable!TypeOK, Phase, Session, Housed, Present, Gone
  <2> QED BY <2>1, ScalableNext, SocketComes, SocketGoes, SocketTells, RoomJoined
<1>3. SocketTables => /\ Scalable!TypeOK /\ Scalable!SocketIsListed /\ Scalable!PresenceIsRight
  <2> SUFFICES ASSUME SocketTables PROVE Scalable!SocketIsListed /\ Scalable!PresenceIsRight
    BY DEF SocketTables
  <2>1. Scalable!SocketIsListed
    BY DEF SocketTables, Scalable!TypeOK, Phase, Session, Housed, Scalable!SocketIsListed,
           Scalable!Open, Scalable!Settled
  <2>2. Scalable!PresenceIsRight
    <3> SUFFICES ASSUME NEW u \in Users
                 PROVE  LET mine == {c \in Sockets : user[c] = u} IN
                          /\ presence[u] = "offline" => \A c \in mine : ~Scalable!Settled(c)
                          /\ /\ \E c \in mine : leaving[c] \in {"rest", "done"}
                             /\ \A c \in mine : leaving[c] \in {"rest", "done"}
                                                \/ connecting[c] \in {"limit", "refused"}
                             /\ mine \cap overtaken = {}
                             => presence[u] = "offline"
      BY DEF Scalable!PresenceIsRight
    <3>1. Present(u)
      BY DEF SocketTables
    <3> QED BY <3>1 DEF Present, Gone, Scalable!Settled
  <2> QED BY <2>1, <2>2
<1> QED BY <1>1, <1>2, <1>3, PTL DEF Scalable!Spec

-----------------------------------------------------------------------------
LoopAt == [info : Infos, at : Again!Step]
Call == [what : {"connect", "greet", "notify", "notify_last"}, info : Infos]
AgainNames ==
  /\ None \notin Infos /\ None \notin LoopAt /\ None \notin Call
  /\ MaxAttempts \in Nat /\ MaxCalls \in Nat

(* The loop that pursues a session has an attempt before it, or one under   *)
(* way; a caller that is to start it has not yet come back.                 *)
Sought(i) ==
  \/ loop # None /\ loop.info = i /\ loop.at # "reporting"
  \/ \E c \in Callers : doing[c] # None /\ doing[c].what = "notify" /\ doing[c].info = i
Pursued == current # None /\ current \notin dropped /\ state[current] = "reconnecting" => Sought(current)
AgainInv == Again!TypeOK /\ Pursued

LEMMA CallerReconnects ==
  ASSUME AgainNames, AgainInv, NEW c \in Callers,
         \/ Again!handle_connection(c) \/ Again!Connects(c) \/ Again!Greeted(c) \/ Again!force_reconnect(c)
         \/ \E reconnect \in BOOLEAN : Again!handle_disconnection(c, reconnect)
         \/ Again!Notified(c) \/ Again!NotNotified(c)
  PROVE  AgainInv'
<1>1. /\ current \in Infos \cup {None} /\ doing \in [Callers -> Call \cup {None}]
      /\ state \in [Infos -> {"unused", "idle", "connecting", "connected", "reconnecting", "failed"}]
      /\ attempts \in [Infos -> 0..MaxAttempts] /\ loop \in LoopAt \cup {None}
      /\ calls \in 0..MaxCalls /\ dropped \subseteq Infos
  BY DEF AgainInv, Again!TypeOK, LoopAt, Call
<1>2. /\ \A i \in Infos, what \in {"connect", "greet", "notify", "notify_last"} :
           /\ [what |-> what, info |-> i] \in Call
           /\ [what |-> what, info |-> i].what = what /\ [what |-> what, info |-> i].info = i
      /\ \A call \in Call : call.info \in Infos
      /\ \A i \in Infos : [info |-> i, at |-> "sleeping"] \in LoopAt
      /\ \A a \in LoopAt : a.info \in Infos /\ a.at \in {"sleeping", "trying", "reporting"}
  BY DEF Call, LoopAt, Again!Step
<1>3. ASSUME /\ current' \in Infos \cup {None} /\ doing' \in [Callers -> Call \cup {None}]
             /\ state' \in [Infos -> {"unused", "idle", "connecting", "connected", "reconnecting", "failed"}]
             /\ attempts' \in [Infos -> 0..MaxAttempts] /\ loop' \in LoopAt \cup {None}
             /\ calls' \in 0..MaxCalls /\ dropped' \subseteq Infos
      PROVE  Again!TypeOK'
  BY <1>3 DEF Again!TypeOK, LoopAt, Call
<1> DEFINE call(what, i) == [what |-> what, info |-> i]
<1>4. CASE Again!handle_connection(c)
  <2>1. PICK i \in Infos :
          /\ current' = i /\ state' = [state EXCEPT ![i] = "connecting"] /\ calls < MaxCalls
          /\ doing' = [doing EXCEPT ![c] = call("connect", i)] /\ calls' = calls + 1
          /\ UNCHANGED <<attempts, loop, dropped>>
    BY <1>4 DEF Again!handle_connection, Again!Call, Again!Turns, Again!Waits
  <2>2. call("connect", i) \in Call
    BY <1>2
  <2> HIDE DEF call
  <2>3. Again!TypeOK'
    BY <1>1, <1>3, <2>1, <2>2 DEF AgainNames
  <2>4. Pursued'
    BY <1>1, <2>1 DEF Pursued
  <2> QED BY <2>3, <2>4 DEF AgainInv
<1>5. CASE Again!Connects(c)
  <2> DEFINE i == doing[c].info
  <2>1. doing[c] \in Call /\ doing[c].what = "connect" /\ i \in Infos
    BY <1>1, <1>2, <1>5 DEF Again!Connects, Again!Doing
  <2>2. /\ UNCHANGED <<current, loop, calls, dropped>>
        /\ \E x \in Call \cup {None} : doing' = [doing EXCEPT ![c] = x] /\ (x # None => x.what = "greet")
        /\ \/ state' = [state EXCEPT ![i] = "connected"] \/ state' = [state EXCEPT ![i] = "failed"]
           \/ state' = state
        /\ attempts' = attempts \/ attempts' = [attempts EXCEPT ![i] = 0]
    <3>1. call("greet", i) \in Call /\ call("greet", i).what = "greet"
      BY <1>2, <2>1
    <3>2. \/ doing' = [doing EXCEPT ![c] = call("greet", i)]
          \/ doing' = [doing EXCEPT ![c] = None]
      BY <1>5 DEF Again!Connects, Again!Ended, Again!Waits
    <3>3. /\ UNCHANGED <<current, loop, calls, dropped>>
          /\ \/ state' = [state EXCEPT ![i] = "connected"] \/ state' = [state EXCEPT ![i] = "failed"]
             \/ state' = state
          /\ attempts' = attempts \/ attempts' = [attempts EXCEPT ![i] = 0]
      BY <1>5 DEF Again!Connects, Again!Connected, Again!Turns
    <3> HIDE DEF call, i
    <3> QED BY <3>1, <3>2, <3>3
  <2> HIDE DEF i, call
  <2>3. Again!TypeOK'
    BY <1>1, <1>3, <2>1, <2>2 DEF AgainNames
  <2>4. Pursued'
    BY <1>1, <2>1, <2>2 DEF AgainInv, Pursued, Sought
  <2> QED BY <2>3, <2>4 DEF AgainInv
<1>6. CASE Again!Greeted(c)
  <2>1. doing[c] \in Call /\ doing[c].what = "greet" /\ doing[c].info \in Infos
    BY <1>1, <1>2, <1>6 DEF Again!Greeted, Again!Doing
  <2> QED BY <1>1, <1>2, <1>3, <1>6, <2>1 DEF AgainNames, AgainInv, Again!Greeted,
     Again!Ended, Again!Turns, Pursued, Sought
<1>7. CASE Again!force_reconnect(c)
  <2>1. /\ current \in Infos /\ state' = [state EXCEPT ![current] = "reconnecting"]
        /\ doing' = [doing EXCEPT ![c] = call("notify", current)]
        /\ calls < MaxCalls /\ calls' = calls + 1 /\ loop' = None
        /\ attempts' = [attempts EXCEPT ![current] = 0] /\ UNCHANGED <<current, dropped>>
    BY <1>1, <1>7 DEF Again!force_reconnect, Again!Call, Again!Turns, Again!Waits
  <2>2. call("notify", current) \in Call /\ call("notify", current).what = "notify"
        /\ call("notify", current).info = current
    BY <1>2, <2>1
  <2> HIDE DEF call
  <2>3. Again!TypeOK'
    BY <1>1, <1>3, <2>1, <2>2 DEF AgainNames
  <2>4. Pursued'
    BY <1>1, <2>1, <2>2 DEF AgainNames, Pursued, Sought
  <2> QED BY <2>3, <2>4 DEF AgainInv
<1>8. ASSUME NEW reconnect \in BOOLEAN, Again!handle_disconnection(c, reconnect) PROVE AgainInv'
  <2> DEFINE to == IF reconnect THEN "reconnecting" ELSE "failed"
             what == IF reconnect THEN "notify" ELSE "notify_last"
  <2>1. /\ current \in Infos /\ state' = [state EXCEPT ![current] = to]
        /\ doing' = [doing EXCEPT ![c] = call(what, current)]
        /\ calls < MaxCalls /\ calls' = calls + 1 /\ UNCHANGED <<current, attempts, loop, dropped>>
    BY <1>1, <1>8 DEF Again!handle_disconnection, Again!Call, Again!Turns, Again!Waits
  <2>2. call(what, current) \in Call /\ call(what, current).what = what
        /\ call(what, current).info = current
    BY <1>2, <2>1
  <2>3. to \in {"reconnecting", "failed"} /\ (to = "reconnecting" => what = "notify")
    OBVIOUS
  <2> HIDE DEF call, to, what
  <2>4. Again!TypeOK'
    BY <1>1, <1>3, <2>1, <2>2, <2>3 DEF AgainNames
  <2>5. Pursued'
    BY <1>1, <2>1, <2>2, <2>3 DEF AgainNames, Pursued, Sought
  <2> QED BY <2>4, <2>5 DEF AgainInv
<1>9. CASE Again!Notified(c)
  <2>1. doing[c] \in Call /\ doing[c].what \in {"notify", "notify_last"} /\ doing[c].info \in Infos
    BY <1>1, <1>2, <1>9 DEF Again!Notified, Again!Doing
  <2> QED BY <1>1, <1>2, <1>3, <1>9, <2>1 DEF AgainNames, AgainInv, Again!Notified,
     Again!Ended, Pursued, Sought
<1>10. CASE Again!NotNotified(c)
  <2>1. doing[c] \in Call /\ doing[c].what \in {"notify", "notify_last"} /\ doing[c].info \in Infos
    BY <1>1, <1>2, <1>10 DEF Again!NotNotified, Again!Doing
  <2> QED BY <1>1, <1>2, <1>3, <1>10, <2>1 DEF AgainNames, AgainInv, Again!NotNotified,
     Again!Ended, Pursued, Sought
<1> QED BY <1>4, <1>5, <1>6, <1>7, <1>8, <1>9, <1>10

LEMMA LoopReconnects ==
  ASSUME AgainNames, AgainInv, Again!LoopStep
  PROVE  AgainInv'
<1>1. /\ current \in Infos \cup {None} /\ doing \in [Callers -> Call \cup {None}]
      /\ state \in [Infos -> {"unused", "idle", "connecting", "connected", "reconnecting", "failed"}]
      /\ attempts \in [Infos -> 0..MaxAttempts] /\ loop \in LoopAt
      /\ UNCHANGED <<current, doing, calls, dropped>>
  BY DEF AgainInv, Again!TypeOK, LoopAt, Call, Again!LoopStep, Again!Wake, Again!Reconnects,
         Again!NotReconnects, Again!NoCallback, Again!Reported, Again!At
<1> DEFINE to(step) == [loop EXCEPT !.at = step]
<1>2. /\ loop.info \in Infos
      /\ \A step \in {"sleeping", "trying", "reporting"} :
           to(step) \in LoopAt /\ to(step).info = loop.info /\ to(step).at = step
  BY <1>1 DEF LoopAt, Again!Step
<1>3. \A step : Again!GoesTo(step) <=> loop' = to(step)
  BY DEF Again!GoesTo
<1> HIDE DEF to
<1>4. /\ loop' \in LoopAt \cup {None}
      /\ attempts' \in [Infos -> 0..MaxAttempts]
      /\ state' \in [Infos -> {"unused", "idle", "connecting", "connected", "reconnecting", "failed"}]
      /\ \A i \in Infos : i # loop.info => state'[i] = state[i]
      /\ state'[loop.info] = "reconnecting" /\ current # None =>
           (loop.at = "reporting" /\ state' = state)
           \/ (loop' # None /\ loop'.info = loop.info /\ loop'.at # "reporting")
  <2>1. CASE Again!Wake
    BY <1>1, <1>2, <1>3, <2>1 DEF AgainNames, Again!Wake, Again!GivesUp, Again!Turns
  <2>2. CASE Again!Reconnects
    BY <1>1, <1>2, <2>2 DEF AgainNames, Again!Reconnects, Again!Connected, Again!Turns
  <2>3. CASE Again!NotReconnects \/ Again!NoCallback
    BY <1>1, <1>2, <1>3, <2>3 DEF AgainNames, Again!NotReconnects, Again!NoCallback, Again!GivesUp, Again!Turns
  <2>4. CASE Again!Reported
    BY <1>1, <1>2, <2>4 DEF AgainNames, Again!Reported, Again!At
  <2> QED BY <2>1, <2>2, <2>3, <2>4 DEF Again!LoopStep
<1>5. Again!TypeOK'
  BY <1>1, <1>4 DEF AgainInv, Again!TypeOK, LoopAt, Call
<1>6. Pursued'
  BY <1>1, <1>2, <1>4 DEF AgainInv, Pursued, Sought
<1> QED BY <1>5, <1>6 DEF AgainInv

(* streaming/reconnection.py: a session that is said to be reconnecting is  *)
(* being reconnected, or will be once its disconnection has been reported - *)
(* whoever connects, disconnects and cancels it at the same time.           *)
THEOREM ReconnectionIsPursued ==
  ASSUME AgainNames
  PROVE  Again!Spec => [](Again!TypeOK /\ Again!ReconnectingIsPursued)
<1>1. Again!Init => AgainInv
  BY DEF AgainNames, Again!Init, AgainInv, Again!TypeOK, Pursued
<1>2. AgainInv /\ [Again!Next]_Again!vars => AgainInv'
  <2> SUFFICES ASSUME AgainInv, [Again!Next]_Again!vars PROVE AgainInv'
    OBVIOUS
  <2>1. CASE \E i \in Infos : Again!register_session(i)
    BY <2>1 DEF AgainNames, Again!register_session, Again!Free, Again!Turns, AgainInv, Again!TypeOK, Pursued
  <2>2. CASE Again!cancel_reconnection
    BY <2>2 DEF AgainNames, Again!cancel_reconnection, Again!Turns, AgainInv, Again!TypeOK, Pursued
  <2>3. CASE Again!cleanup \/ UNCHANGED Again!vars
    BY <2>3 DEF AgainNames, Again!cleanup, Again!vars, AgainInv, Again!TypeOK, Pursued, Sought
  <2> QED BY <2>1, <2>2, <2>3, CallerReconnects, LoopReconnects DEF Again!Next
<1>3. AgainInv => Again!TypeOK /\ Again!ReconnectingIsPursued
  BY DEF AgainInv, Again!ReconnectingIsPursued, Pursued, Sought, Again!Doing
<1> QED BY <1>1, <1>2, <1>3, PTL DEF Again!Spec

-----------------------------------------------------------------------------
Logs == [attempts : 0..(MaxAttempts + 1), failed : BOOLEAN, delivered : BOOLEAN, old : BOOLEAN]
Chats == [at : {"new", "stored", "known", "asked", "answered", "done"}, kept : BOOLEAN, messages : 0..1]
HookNames ==
  /\ None \notin Hooks!Deliveries /\ None \notin Logs
  /\ IsFiniteSet(Sessions) /\ MaxAttempts \in Nat /\ MaxQueue \in Nat /\ MaxRestarts \in Nat

HookTypes ==
  /\ row \in [Hooks!Deliveries -> Logs \cup {None}]
  /\ queue \in Seq(Hooks!Deliveries) /\ Len(queue) <= MaxQueue
  /\ posting \in Hooks!Deliveries \cup {None} /\ accepted \subseteq Hooks!Deliveries
  /\ unmarked \subseteq Hooks!Deliveries
  /\ restarts \in 0..MaxRestarts /\ hooked \in BOOLEAN
  /\ session \in [Sessions -> Chats]
  /\ seen \in [Hooks!Deliveries -> {"nothing", "queued", "posted"}]

(* Each event is triggered once, by its session's way through its steps.    *)
Chat(s) ==
  /\ session[s].at \in {"new", "stored"} => seen[<<s, "started">>] = "nothing"
  /\ session[s].at # "done" => seen[<<s, "message">>] = "nothing"

(* What is queued, posted or logged has been triggered; what has failed, or *)
(* is being posted, has been posted.                                        *)
Queued(d) == \E i \in 1..Len(queue) : queue[i] = d
Delivery(d) ==
  /\ Queued(d) \/ row[d] # None => seen[d] # "nothing"
  /\ posting = d => seen[d] = "posted"
  /\ row[d] # None /\ row[d].failed => seen[d] = "posted"
  /\ row[d] # None /\ row[d].delivered => d \in accepted
  /\ restarts = 0 /\ row[d] # None /\ d \notin unmarked =>
       row[d].delivered \/ row[d].failed \/ posting = d \/ Queued(d)

(* The start of a session that is still to be posted is in the queue, and   *)
(* no message of that session before it.                                    *)
InOrder(s) ==
  restarts = 0 /\ seen[<<s, "started">>] = "queued" =>
    /\ seen[<<s, "message">>] # "posted"
    /\ \E i \in 1..Len(queue) : queue[i] = <<s, "started">>
                                /\ \A k \in 1..i : queue[k] # <<s, "message">>

HookInv ==
  /\ HookTypes
  /\ \A d \in Hooks!Deliveries : Delivery(d)
  /\ \A s \in Sessions : Chat(s) /\ InOrder(s)

(* A delivery is triggered for the first time.                              *)
LEMMA Triggered ==
  ASSUME HookNames, HookInv, NEW s \in Sessions, NEW what \in {"started", "message"}, seen[<<s, what>>] = "nothing",
         seen[<<s, "message">>] = "nothing", Hooks!_trigger_webhook(<<s, what>>), Hooks!Idle,
         session' \in [Sessions -> Chats]
  PROVE  /\ HookTypes' /\ \A d \in Hooks!Deliveries : Delivery(d)'
         /\ \A u \in Sessions : InOrder(u)'
         /\ \A d \in Hooks!Deliveries : d # <<s, what>> => seen'[d] = seen[d]
<1> DEFINE d == <<s, what>>
<1>1. HookTypes /\ d \in Hooks!Deliveries /\ UNCHANGED <<posting, accepted, restarts, hooked, unmarked>>
  BY DEF HookInv, Hooks!Deliveries, Hooks!Idle
<1>2. CASE UNCHANGED <<row, queue, seen>>
  BY <1>1, <1>2 DEF HookInv, HookTypes, Delivery, InOrder, Queued
<1>3. CASE ~UNCHANGED <<row, queue, seen>>
  <2> HIDE DEF d
  <2>1. /\ Len(queue) < MaxQueue /\ queue' = Append(queue, d)
        /\ row' = [row EXCEPT ![d] = Hooks!New] \/ row' = row
        /\ seen' = [seen EXCEPT ![d] = "queued"]
    BY <1>3 DEF Hooks!_trigger_webhook, d
  <2>2. /\ Len(queue') = Len(queue) + 1 /\ queue'[Len(queue) + 1] = d /\ queue' \in Seq(Hooks!Deliveries)
        /\ \A i \in 1..Len(queue) : queue'[i] = queue[i]
        /\ Len(queue) \in Nat
    BY <1>1, <2>1 DEF HookTypes
  <2>3. Hooks!New \in Logs /\ Hooks!New.failed = FALSE /\ Hooks!New.delivered = FALSE
    BY DEF HookNames, Hooks!New, Logs
  <2>4. HookTypes'
    <3>1. row' \in [Hooks!Deliveries -> Logs \cup {None}]
      BY <1>1, <2>1, <2>3 DEF HookTypes
    <3>2. seen' \in [Hooks!Deliveries -> {"nothing", "queued", "posted"}]
      BY <1>1, <2>1 DEF HookTypes
    <3>3. Len(queue') <= MaxQueue
      BY <2>1, <2>2 DEF HookNames
    <3> QED BY <1>1, <2>2, <3>1, <3>2, <3>3 DEF HookTypes
  <2>5. \A e \in Hooks!Deliveries : Queued(e)' <=> (Queued(e) \/ e = d)
    <3>1. ASSUME NEW e, NEW i \in 1..Len(queue'), queue'[i] = e PROVE Queued(e) \/ e = d
      <4>1. i \in 1..Len(queue) \/ i = Len(queue) + 1
        BY <2>2
      <4> QED BY <2>2, <3>1, <4>1 DEF Queued
    <3>2. ASSUME NEW e, NEW i \in 1..Len(queue), queue[i] = e PROVE Queued(e)'
      <4>1. i \in 1..Len(queue') /\ queue'[i] = e
        BY <2>2, <3>2
      <4> QED BY <4>1 DEF Queued
    <3>3. Queued(d)'
      <4>1. Len(queue) + 1 \in 1..Len(queue') /\ queue'[Len(queue) + 1] = d
        BY <2>2
      <4> QED BY <4>1 DEF Queued
    <3> QED BY <3>1, <3>2, <3>3 DEF Queued
  <2>6. seen[d] = "nothing"
    BY DEF d
  <2>7. ASSUME NEW e \in Hooks!Deliveries PROVE Delivery(e)'
    <3>1. Delivery(e) /\ Delivery(d)
      BY <1>1 DEF HookInv
    <3>2. CASE e = d
      <4>1. row[d] = None /\ posting # d
        BY <2>6, <3>1, <3>2 DEF Delivery
      <4>2. row'[d] = None \/ row'[d] = Hooks!New
        BY <1>1, <2>1, <4>1 DEF HookTypes
      <4>3. seen'[d] = "queued"
        BY <1>1, <2>1 DEF HookTypes
      <4> QED BY <1>1, <2>3, <2>5, <3>2, <4>1, <4>2, <4>3 DEF Delivery
    <3>3. CASE e # d
      BY <1>1, <2>1, <2>5, <3>1, <3>3 DEF Delivery, HookTypes
    <3> QED BY <3>2, <3>3
  <2>8. ASSUME NEW u \in Sessions PROVE InOrder(u)'
    <3>1. InOrder(u) /\ <<u, "started">> \in Hooks!Deliveries /\ <<u, "message">> \in Hooks!Deliveries
      BY DEF HookInv, Hooks!Deliveries
    <3>2. CASE d = <<u, "started">>
      <4>1. u = s /\ seen[<<u, "message">>] = "nothing"
        BY <3>2 DEF d
      <4>2. \A i \in 1..Len(queue) : queue[i] # <<u, "message">>
        BY <3>1, <4>1 DEF HookInv, Delivery, Queued
      <4>3. seen'[<<u, "message">>] # "posted"
        BY <1>1, <2>1, <4>1, <3>1 DEF HookTypes
      <4>4. <<u, "started">> # <<u, "message">>
        OBVIOUS
      <4>5. ASSUME NEW k \in 1..Len(queue) + 1 PROVE queue'[k] # <<u, "message">>
        <5>1. k \in 1..Len(queue) \/ k = Len(queue) + 1
          BY <2>2
        <5>2. CASE k \in 1..Len(queue)
          BY <2>2, <4>2, <5>2
        <5>3. CASE k = Len(queue) + 1
          BY <2>2, <3>2, <4>4, <5>3
        <5> QED BY <5>1, <5>2, <5>3
      <4>6. /\ Len(queue) + 1 \in 1..Len(queue') /\ queue'[Len(queue) + 1] = <<u, "started">>
        BY <2>2, <3>2
      <4>7. \E i \in 1..Len(queue') : queue'[i] = <<u, "started">>
                                      /\ \A k \in 1..i : queue'[k] # <<u, "message">>
        BY <4>5, <4>6
      <4> QED BY <4>3, <4>7 DEF InOrder
    <3>3. CASE d # <<u, "started">>
      <4>1. seen'[<<u, "started">>] = seen[<<u, "started">>]
        BY <1>1, <2>1, <3>1, <3>3 DEF HookTypes
      <4>2. seen'[<<u, "message">>] \in {"queued", seen[<<u, "message">>]}
        BY <1>1, <2>1, <3>1 DEF HookTypes
      <4>3. CASE /\ restarts = 0 /\ seen[<<u, "started">>] = "queued"
        <5>1. PICK i \in 1..Len(queue) : queue[i] = <<u, "started">>
                                         /\ \A k \in 1..i : queue[k] # <<u, "message">>
          BY <3>1, <4>3 DEF InOrder
        <5>2. i \in 1..Len(queue') /\ queue'[i] = <<u, "started">>
              /\ \A k \in 1..i : queue'[k] # <<u, "message">>
          BY <2>2, <5>1
        <5>3. seen'[<<u, "message">>] # "posted"
          BY <3>1, <4>2, <4>3 DEF InOrder
        <5> QED BY <5>2, <5>3 DEF InOrder
      <4> QED BY <1>1, <4>1, <4>3 DEF InOrder
    <3> QED BY <3>2, <3>3
  <2>9. \A e \in Hooks!Deliveries : e # d => seen'[e] = seen[e]
    BY <1>1, <2>1 DEF HookTypes
  <2> QED BY <2>4, <2>7, <2>8, <2>9 DEF d
<1> QED BY <1>1, <1>2, <1>3 DEF HookTypes

(* A session goes on; what has been triggered is not triggered again.       *)
LEMMA ChatGoesOn ==
  ASSUME HookNames, HookInv, NEW s \in Sessions,
         \/ Hooks!_store_session(s) \/ Hooks!create_chat_session(s) \/ Hooks!send_message(s)
         \/ Hooks!_store_message(s) \/ Hooks!Answered(s) \/ Hooks!Expires(s)
  PROVE  HookInv'
<1>1. HookTypes /\ session[s] \in Chats /\ session \in [Sessions -> Chats]
  BY DEF HookInv, HookTypes
<1>2. ASSUME NEW rec \in Chats, session' = [session EXCEPT ![s] = rec]
      PROVE  /\ session' \in [Sessions -> Chats] /\ session'[s] = rec
             /\ \A u \in Sessions : u # s => session'[u] = session[u]
  BY <1>1, <1>2
<1>3. CASE Hooks!create_chat_session(s) \/ Hooks!Answered(s)
  <2> DEFINE what == IF session[s].at = "stored" THEN "started" ELSE "message"
             to == IF session[s].at = "stored" THEN "known" ELSE "done"
             rec == [session[s] EXCEPT !.at = to]
  <2>1. /\ Hooks!_trigger_webhook(<<s, what>>) /\ Hooks!Idle /\ session' = [session EXCEPT ![s] = rec]
        /\ session[s].at = "stored" \/ session[s].at = "answered"
    BY <1>3 DEF Hooks!create_chat_session, Hooks!Answered, Hooks!Becomes
  <2>2. rec \in Chats /\ rec.at = to
    BY <1>1 DEF Chats
  <2>3. seen[<<s, what>>] = "nothing" /\ seen[<<s, "message">>] = "nothing"
    BY <2>1 DEF HookInv, Chat
  <2>4. to = "known" => what = "started"
    OBVIOUS
  <2>5. what \in {"started", "message"} /\ to \in {"known", "done"}
    OBVIOUS
  <2> HIDE DEF what, rec, to
  <2>6. /\ HookTypes' /\ \A d \in Hooks!Deliveries : Delivery(d)'
        /\ \A u \in Sessions : InOrder(u)'
        /\ \A d \in Hooks!Deliveries : d # <<s, what>> => seen'[d] = seen[d]
    BY <1>2, <2>1, <2>2, <2>3, <2>5, Triggered
  <2>7. ASSUME NEW u \in Sessions PROVE Chat(u)'
    <3>1. Chat(u) /\ \A x \in {"started", "message"} : <<u, x>> \in Hooks!Deliveries
      BY DEF HookInv, Hooks!Deliveries
    <3>2. CASE u = s
      <4>1. <<s, "message">> # <<s, "started">>
        OBVIOUS
      <4> QED BY <1>2, <2>1, <2>2, <2>3, <2>4, <2>5, <2>6, <3>1, <3>2, <4>1 DEF Chat
    <3>3. CASE u # s
      <4>1. <<u, "message">> # <<s, what>> /\ <<u, "started">> # <<s, what>>
        BY <3>3
      <4> QED BY <1>2, <2>1, <2>2, <2>6, <3>1, <3>3, <4>1 DEF Chat
    <3> QED BY <3>2, <3>3
  <2> QED BY <2>6, <2>7 DEF HookInv
<1>4. CASE Hooks!_store_session(s) \/ Hooks!send_message(s) \/ Hooks!_store_message(s) \/ Hooks!Expires(s)
  <2>1. PICK rec \in Chats : /\ session' = [session EXCEPT ![s] = rec] /\ rec.at # "new"
                             /\ rec.at = "stored" => session[s].at \in {"new", "stored"}
                             /\ session[s].at = "done" => rec.at = "done"
                             /\ rec.at = "done" => session[s].at = "done"
    <3>1. CASE Hooks!_store_session(s)
      <4>1. PICK kept \in BOOLEAN : session' = [session EXCEPT ![s] = [session[s] EXCEPT !.at = "stored", !.kept = kept]]
                                    /\ session[s].at = "new"
        BY <3>1 DEF Hooks!_store_session, Hooks!Becomes
      <4>2. [session[s] EXCEPT !.at = "stored", !.kept = kept] \in Chats
            /\ [session[s] EXCEPT !.at = "stored", !.kept = kept].at = "stored"
        BY <1>1 DEF Chats
      <4> QED BY <4>1, <4>2
    <3>2. CASE Hooks!send_message(s)
      <4>1. session' = [session EXCEPT ![s] = [session[s] EXCEPT !.at = "asked"]] /\ session[s].at = "known"
        BY <3>2 DEF Hooks!send_message, Hooks!Becomes
      <4>2. [session[s] EXCEPT !.at = "asked"] \in Chats /\ [session[s] EXCEPT !.at = "asked"].at = "asked"
        BY <1>1 DEF Chats
      <4> QED BY <4>1, <4>2
    <3>3. CASE Hooks!_store_message(s)
      <4>1. PICK n \in 0..1 : session' = [session EXCEPT ![s] = [session[s] EXCEPT !.at = "answered", !.messages = n]]
                              /\ session[s].at = "asked"
        BY <3>3 DEF Hooks!_store_message, Hooks!Becomes
      <4>2. [session[s] EXCEPT !.at = "answered", !.messages = n] \in Chats
            /\ [session[s] EXCEPT !.at = "answered", !.messages = n].at = "answered"
        BY <1>1 DEF Chats
      <4> QED BY <4>1, <4>2
    <3>4. CASE Hooks!Expires(s)
      <4>1. session' = [session EXCEPT ![s] = [session[s] EXCEPT !.kept = FALSE]] /\ session[s].at # "new"
        BY <3>4 DEF Hooks!Expires, Hooks!Becomes
      <4>2. [session[s] EXCEPT !.kept = FALSE] \in Chats
            /\ [session[s] EXCEPT !.kept = FALSE].at = session[s].at
        BY <1>1 DEF Chats
      <4> QED BY <4>1, <4>2
    <3> QED BY <1>4, <3>1, <3>2, <3>3, <3>4
  <2>2. UNCHANGED <<row, queue, posting, accepted, restarts, hooked, seen, unmarked>>
    BY <1>4 DEF Hooks!_store_session, Hooks!send_message, Hooks!_store_message, Hooks!Expires, Hooks!Idle
  <2>3. HookTypes'
    BY <1>1, <1>2, <2>1, <2>2 DEF HookTypes
  <2>4. \A d \in Hooks!Deliveries : Delivery(d)'
    BY <2>2 DEF HookInv, Delivery, Queued
  <2>5. \A u \in Sessions : InOrder(u)' /\ Chat(u)'
    <3>1. \A u \in Sessions : InOrder(u)'
      BY <2>2 DEF HookInv, InOrder
    <3>2. ASSUME NEW u \in Sessions PROVE Chat(u)'
      <4>1. Chat(u)
        BY DEF HookInv
      <4>2. CASE u = s
        <5>1. session'[u] = rec
          BY <1>2, <2>1, <4>2
        <5> QED BY <2>1, <2>2, <4>1, <4>2, <5>1 DEF Chat
      <4>3. CASE u # s
        <5>1. session'[u] = session[u]
          BY <1>2, <2>1, <4>3
        <5> QED BY <2>2, <4>1, <5>1 DEF Chat
      <4> QED BY <4>2, <4>3
    <3> QED BY <3>1, <3>2
  <2> QED BY <2>3, <2>4, <2>5 DEF HookInv
<1> QED BY <1>3, <1>4

(* The worker takes the first of the queue: a start not posted yet has no   *)
(* message before it.                                                       *)
LEMMA FirstIsTaken ==
  ASSUME HookNames, HookInv, Hooks!_webhook_delivery_worker
  PROVE  HookInv'
<1> DEFINE h == Head(queue)
<1>1. /\ HookTypes /\ queue # <<>> /\ posting = None /\ posting' = h /\ queue' = Tail(queue)
      /\ seen' = [seen EXCEPT ![h] = "posted"] /\ UNCHANGED <<row, accepted, restarts, hooked, session, unmarked>>
  BY DEF HookInv, Hooks!_webhook_delivery_worker
<1>2. /\ h = queue[1] /\ h \in Hooks!Deliveries /\ Len(queue) \in Nat \ {0}
      /\ queue' \in Seq(Hooks!Deliveries) /\ Len(queue') = Len(queue) - 1
      /\ \A i \in 1..Len(queue') : queue'[i] = queue[i + 1]
  BY <1>1 DEF HookTypes
<1> HIDE DEF h
<1>3. HookTypes'
  BY <1>1, <1>2 DEF HookTypes, HookNames
<1>4. \A d \in Hooks!Deliveries : Queued(d) => d = h \/ Queued(d)'
  <2> SUFFICES ASSUME NEW i \in 1..Len(queue), queue[i] # h
               PROVE  \E k \in 1..Len(queue') : queue'[k] = queue[i]
    BY DEF Queued
  <2>1. i - 1 \in 1..Len(queue') /\ queue'[i - 1] = queue[i]
    BY <1>2
  <2> QED BY <2>1
<1>5. \A d \in Hooks!Deliveries : Queued(d)' => Queued(d)
  <2> SUFFICES ASSUME NEW i \in 1..Len(queue') PROVE \E k \in 1..Len(queue) : queue[k] = queue'[i]
    BY DEF Queued
  <2>1. i + 1 \in 1..Len(queue) /\ queue'[i] = queue[i + 1]
    BY <1>2
  <2> QED BY <2>1
<1>6. Queued(h)
  BY <1>2 DEF Queued
<1>7. /\ seen'[h] = "posted" /\ seen \in [Hooks!Deliveries -> {"nothing", "queued", "posted"}]
      /\ \A d \in Hooks!Deliveries : d # h => seen'[d] = seen[d]
  BY <1>1, <1>2 DEF HookTypes
<1>8. ASSUME NEW d \in Hooks!Deliveries PROVE Delivery(d)'
  <2>1. Delivery(d)
    BY DEF HookInv
  <2>2. row'[d] = row[d] /\ (d \in accepted' <=> d \in accepted) /\ d # None
    BY <1>1 DEF HookNames
  <2>3. (Queued(d)' => Queued(d)) /\ (Queued(d) => d = h \/ Queued(d)')
    BY <1>4, <1>5
  <2> QED BY <1>1, <1>7, <2>1, <2>2, <2>3 DEF Delivery
<1>9. ASSUME NEW s \in Sessions PROVE InOrder(s)' /\ Chat(s)'
  <2>1. InOrder(s) /\ Chat(s) /\ <<s, "started">> \in Hooks!Deliveries /\ <<s, "message">> \in Hooks!Deliveries
    BY DEF HookInv, Hooks!Deliveries
  <2>2. seen[h] # "nothing"
    BY <1>2, <1>6 DEF HookInv, Delivery
  <2>3. Chat(s)'
    BY <1>1, <1>7, <2>1, <2>2 DEF Chat
  <2>4. CASE restarts' = 0 /\ seen'[<<s, "started">>] = "queued"
    <3>1. <<s, "started">> # h /\ seen[<<s, "started">>] = "queued" /\ restarts = 0
      BY <1>1, <1>7, <2>1, <2>4
    <3>2. PICK i \in 1..Len(queue) : queue[i] = <<s, "started">>
                                     /\ \A k \in 1..i : queue[k] # <<s, "message">>
      BY <2>1, <3>1 DEF InOrder
    <3>3. i # 1 /\ h # <<s, "message">>
      BY <1>2, <3>1, <3>2
    <3>4. i - 1 \in 1..Len(queue') /\ queue'[i - 1] = <<s, "started">>
      BY <1>2, <3>2, <3>3
    <3>5. \A k \in 1..(i - 1) : queue'[k] # <<s, "message">>
      <4> SUFFICES ASSUME NEW k \in 1..(i - 1) PROVE queue'[k] # <<s, "message">>
        OBVIOUS
      <4>1. k + 1 \in 1..i /\ queue'[k] = queue[k + 1]
        BY <1>2, <3>2
      <4> QED BY <3>2, <4>1
    <3>6. seen'[<<s, "message">>] # "posted"
      BY <1>7, <2>1, <3>1, <3>3 DEF InOrder
    <3> QED BY <2>3, <3>4, <3>5, <3>6 DEF InOrder
  <2> QED BY <2>3, <2>4 DEF InOrder
<1> QED BY <1>3, <1>8, <1>9 DEF HookInv

(* An answer or a failure is noted in the table, if it still has the row    *)
(* and can be written.                                                      *)
LEMMA RowUpdates ==
  ASSUME HookNames, NEW r \in Logs
  PROVE  /\ Hooks!Taken(r) \in Logs /\ Hooks!Taken(r).delivered
         /\ Hooks!Failed(r) \in Logs /\ Hooks!Failed(r).failed
         /\ Hooks!Failed(r).delivered = r.delivered
<1>1. Hooks!Attempts(r) \in 0..(MaxAttempts + 1)
  BY DEF HookNames, Logs, Hooks!Attempts
<1> QED BY <1>1 DEF Logs, Hooks!Taken, Hooks!Failed

LEMMA PostEnds ==
  ASSUME HookNames, HookInv, Hooks!Answers \/ Hooks!Fails \/ Hooks!Unmarked
  PROVE  HookInv'
<1>1. /\ HookTypes /\ posting \in Hooks!Deliveries /\ posting' = None
      /\ UNCHANGED <<queue, restarts, hooked, session, seen>>
      /\ accepted \subseteq accepted' /\ accepted' \subseteq Hooks!Deliveries
      /\ unmarked \subseteq unmarked' /\ unmarked' \subseteq Hooks!Deliveries
  BY DEF HookInv, HookTypes, Hooks!Answers, Hooks!Fails, Hooks!Unmarked
<1>2. /\ \A d \in Hooks!Deliveries : d # posting => row'[d] = row[d]
      /\ row' \in [Hooks!Deliveries -> Logs \cup {None}]
      /\ row[posting] = None => row'[posting] = None
      /\ row[posting] # None =>
           /\ row'[posting] # None
           /\ row'[posting].delivered \/ row'[posting].failed \/ posting \in unmarked'
           /\ row'[posting].delivered => row[posting].delivered \/ posting \in accepted'
  <2>1. CASE UNCHANGED row /\ (row[posting] = None \/ posting \in unmarked')
    BY <1>1, <2>1 DEF HookTypes
  <2>2. CASE Hooks!Unmarked
    BY <1>1, <2>1, <2>2 DEF Hooks!Unmarked
  <2>3. CASE row[posting] = None /\ ~Hooks!Unmarked
    <3>1. row' = row
      BY <1>1, <2>3 DEF Hooks!Answers, Hooks!Fails, Hooks!Updated, Hooks!Logged
    <3> QED BY <2>1, <2>3, <3>1
  <2>4. CASE row[posting] # None /\ ~Hooks!Unmarked
    <3> DEFINE r == row[posting]
               taken == Hooks!Taken(r)
    <3>1. r \in Logs
      BY <1>1, <2>4 DEF HookTypes
    <3>2. taken \in Logs /\ taken.delivered
      BY <3>1, RowUpdates
    <3>3. \/ row' = [row EXCEPT ![posting] = taken] /\ posting \in accepted'
          \/ row' = [row EXCEPT ![posting] = Hooks!Failed(r)]
          \/ row' = [row EXCEPT ![posting] = Hooks!Failed(taken)] /\ posting \in accepted'
      BY <1>1, <2>4 DEF Hooks!Answers, Hooks!Fails, Hooks!Updated, Hooks!Logged
    <3> HIDE DEF taken
    <3>4. PICK to \in Logs : /\ row' = [row EXCEPT ![posting] = to]
                             /\ to.delivered \/ to.failed
                             /\ to.delivered => r.delivered \/ posting \in accepted'
      <4>1. /\ Hooks!Failed(r) \in Logs /\ Hooks!Failed(r).failed
            /\ Hooks!Failed(r).delivered = r.delivered
        BY <3>1, RowUpdates
      <4>2. /\ Hooks!Failed(taken) \in Logs /\ Hooks!Failed(taken).failed
        BY <3>2, RowUpdates
      <4> QED BY <3>2, <3>3, <4>1, <4>2
    <3>5. row \in [Hooks!Deliveries -> Logs \cup {None}] /\ None \notin Logs
      BY <1>1 DEF HookTypes, HookNames
    <3>6. row'[posting] = to /\ \A d \in Hooks!Deliveries : d # posting => row'[d] = row[d]
      BY <1>1, <3>4, <3>5
    <3>7. row' \in [Hooks!Deliveries -> Logs \cup {None}]
      BY <3>4, <3>5
    <3> QED BY <2>4, <3>4, <3>5, <3>6, <3>7
  <2> QED BY <2>2, <2>3, <2>4
<1>3. HookTypes'
  BY <1>1, <1>2 DEF HookTypes
<1>4. ASSUME NEW d \in Hooks!Deliveries PROVE Delivery(d)'
  <2>1. Delivery(d) /\ d # None
    BY DEF HookInv, HookNames
  <2>2. Queued(d)' <=> Queued(d)
    BY <1>1 DEF Queued
  <2>3. CASE d = posting
    <3>1. row[d] # None => seen[d] = "posted"
      BY <2>1, <2>3 DEF Delivery
    <3>2. row'[d] # None => row[d] # None
      BY <1>2, <2>3
    <3>3. row[d] # None /\ row[d].delivered => d \in accepted
      BY <2>1 DEF Delivery
    <3> QED BY <1>1, <1>2, <2>1, <2>2, <2>3, <3>1, <3>2, <3>3 DEF Delivery
  <2>4. CASE d # posting
    BY <1>1, <1>2, <2>1, <2>2, <2>4 DEF Delivery
  <2> QED BY <2>3, <2>4
<1>5. \A s \in Sessions : InOrder(s)' /\ Chat(s)'
  BY <1>1 DEF HookInv, InOrder, Chat
<1> QED BY <1>3, <1>4, <1>5 DEF HookInv

(* Only what has been posted is queued again, behind all the others.        *)
LEMMA QueuedAgain ==
  ASSUME HookNames, HookInv, Hooks!_webhook_retry_worker
  PROVE  HookInv'
<1> DEFINE R == {d \in Hooks!Deliveries : Hooks!Retriable(d)}
<1>0. PICK S \in SUBSET R : \E again \in Hooks!SetToSeqs(S) :
        /\ Len(queue) + Len(again) <= MaxQueue /\ queue' = queue \o again
        /\ UNCHANGED <<row, posting, accepted, restarts, hooked, session, seen, unmarked>>
  BY DEF Hooks!_webhook_retry_worker
<1>1. PICK again \in Hooks!SetToSeqs(S) :
        /\ Len(queue) + Len(again) <= MaxQueue /\ queue' = queue \o again
        /\ UNCHANGED <<row, posting, accepted, restarts, hooked, session, seen, unmarked>>
  BY <1>0
<1>2. \A d \in S : d \in Hooks!Deliveries /\ seen[d] = "posted"
  BY <1>0 DEF HookInv, Delivery, Hooks!Retriable, Hooks!Logged
<1>3. Hooks!Cardinality(S) \in Nat
  <2>1. IsFiniteSet({"started", "message"})
    <3>1. IsFiniteSet({"message"}) /\ {"started", "message"} = {"message"} \cup {"started"}
      BY FS_Singleton
    <3> QED BY <3>1, FS_AddElement
  <2>2. IsFiniteSet(Hooks!Deliveries)
    BY <2>1, FS_Product DEF HookNames, Hooks!Deliveries
  <2>3. Cardinality(S) \in Nat
    BY <1>0, <2>2, FS_Subset, FS_CardinalityType
  <2>4. Hooks!Cardinality(S) = Cardinality(S)
    BY DEF Hooks!Cardinality, Cardinality
  <2> QED BY <2>3, <2>4
<1> HIDE DEF R
<1>4. again \in [1..Hooks!Cardinality(S) -> S]
  BY DEF Hooks!SetToSeqs
<1>5. HookTypes /\ S \subseteq Hooks!Deliveries
  BY <1>2 DEF HookInv
<1>6. again \in Seq(S) /\ again \in Seq(Hooks!Deliveries)
  BY <1>3, <1>4, <1>5
<1>7. /\ queue' \in Seq(Hooks!Deliveries) /\ Len(queue) \in Nat /\ Len(again) \in Nat
      /\ Len(queue') = Len(queue) + Len(again)
      /\ \A i \in 1..Len(queue) : queue'[i] = queue[i]
      /\ \A i \in 1..Len(queue') : i \notin 1..Len(queue) => queue'[i] \in S
  BY <1>1, <1>5, <1>6 DEF HookTypes
<1>8. HookTypes'
  BY <1>1, <1>5, <1>7 DEF HookTypes
<1>9. \A d \in Hooks!Deliveries : /\ Queued(d) => Queued(d)'
                                  /\ Queued(d)' => Queued(d) \/ d \in S
  BY <1>7 DEF Queued
<1>10. ASSUME NEW d \in Hooks!Deliveries PROVE Delivery(d)'
  <2>1. Delivery(d)
    BY DEF HookInv
  <2> QED BY <1>1, <1>2, <1>9, <2>1 DEF Delivery
<1>11. ASSUME NEW s \in Sessions PROVE InOrder(s)' /\ Chat(s)'
  <2>1. InOrder(s) /\ Chat(s)
    BY DEF HookInv
  <2>2. CASE restarts = 0 /\ seen[<<s, "started">>] = "queued"
    <3>1. PICK i \in 1..Len(queue) : queue[i] = <<s, "started">>
                                     /\ \A k \in 1..i : queue[k] # <<s, "message">>
      BY <2>1, <2>2 DEF InOrder
    <3>2. i \in 1..Len(queue') /\ queue'[i] = <<s, "started">>
          /\ \A k \in 1..i : queue'[k] # <<s, "message">>
      BY <1>7, <3>1
    <3> QED BY <1>1, <2>1, <2>2, <3>2 DEF InOrder, Chat
  <2> QED BY <1>1, <2>1, <2>2 DEF InOrder, Chat
<1> QED BY <1>8, <1>10, <1>11 DEF HookInv

(* A row grows old and goes; the process restarts.                          *)
LEMMA DaysPass ==
  ASSUME HookNames, HookInv, Hooks!Restart \/ \E d \in Hooks!Deliveries : Hooks!Ages(d)
  PROVE  HookInv'
<1>1. ASSUME NEW d \in Hooks!Deliveries, Hooks!Ages(d) PROVE HookInv'
  <2>1. /\ HookTypes /\ row[d] \in Logs /\ UNCHANGED <<queue, posting, accepted, restarts, hooked, session, seen, unmarked>>
    BY <1>1 DEF HookInv, HookTypes, Hooks!Ages, Hooks!Logged
  <2> DEFINE aged == [row[d] EXCEPT !.old = TRUE]
  <2>2. aged \in Logs /\ aged.failed = row[d].failed /\ aged.delivered = row[d].delivered
    BY <2>1 DEF Logs
  <2>3. row' = [row EXCEPT ![d] = None] \/ row' = [row EXCEPT ![d] = aged]
    BY <1>1 DEF Hooks!Ages
  <2> HIDE DEF aged
  <2>4. HookTypes'
    BY <2>1, <2>2, <2>3 DEF HookTypes
  <2>5. ASSUME NEW e \in Hooks!Deliveries PROVE Delivery(e)'
    <3>1. Delivery(e) /\ (Queued(e)' <=> Queued(e)) /\ row[d] # None
      BY <2>1 DEF HookInv, Queued, HookNames
    <3>2. CASE e = d
      BY <2>1, <2>2, <2>3, <3>1, <3>2 DEF Delivery, HookTypes
    <3>3. CASE e # d
      BY <2>1, <2>3, <3>1, <3>3 DEF Delivery, HookTypes
    <3> QED BY <3>2, <3>3
  <2>6. \A s \in Sessions : InOrder(s)' /\ Chat(s)'
    BY <2>1 DEF HookInv, InOrder, Chat
  <2> QED BY <2>4, <2>5, <2>6 DEF HookInv
<1>2. CASE Hooks!Restart
  <2>1. /\ HookTypes /\ restarts' = restarts + 1 /\ restarts < MaxRestarts /\ queue' = <<>> /\ posting' = None
        /\ UNCHANGED <<row, accepted, hooked, seen, unmarked>>
    BY <1>2 DEF HookInv, Hooks!Restart
  <2>2. \A s \in Sessions : /\ session'[s] \in Chats
                            /\ session'[s].at = session[s].at \/ session'[s].at = "done"
    <3> SUFFICES ASSUME NEW s \in Sessions
                 PROVE  session'[s] \in Chats /\ (session'[s].at = session[s].at \/ session'[s].at = "done")
      OBVIOUS
    <3>1. session[s] \in Chats
      BY <2>1 DEF HookTypes
    <3>2. [session[s] EXCEPT !.at = "done"] \in Chats /\ [session[s] EXCEPT !.at = "done"].at = "done"
      BY <3>1 DEF Chats
    <3>3. session'[s] = session[s] \/ session'[s] = [session[s] EXCEPT !.at = "done"]
      BY <1>2 DEF Hooks!Restart
    <3> QED BY <3>1, <3>2, <3>3
  <2>3. session' \in [Sessions -> Chats]
    <3>1. session' = [s \in Sessions |-> session'[s]]
      BY <1>2 DEF Hooks!Restart
    <3> QED BY <2>2, <3>1
  <2>4. restarts' # 0 /\ restarts' \in 0..MaxRestarts
    BY <2>1 DEF HookTypes, HookNames
  <2>5. HookTypes'
    BY <2>1, <2>3, <2>4 DEF HookTypes, HookNames
  <2>6. \A d \in Hooks!Deliveries : Delivery(d)'
    BY <2>1, <2>4 DEF HookInv, Delivery, Queued, HookNames
  <2>7. \A s \in Sessions : InOrder(s)' /\ Chat(s)'
    BY <2>1, <2>2, <2>4 DEF HookInv, InOrder, Chat
  <2> QED BY <2>5, <2>6, <2>7 DEF HookInv
<1> QED BY <1>1, <1>2

(* integrations/enterprise_platform.py: what is logged as delivered was     *)
(* taken; while the process runs on, what is logged is delivered, failed or *)
(* still to be posted, unless the table could not be written after its post;*)
(* and no message is posted for the first time while the start of its       *)
(* session is still to be. Every call to the database may fail.             *)
THEOREM DeliveriesAreKept ==
  ASSUME HookNames
  PROVE  Hooks!Spec => [](/\ Hooks!TypeOK /\ Hooks!DeliveredWasTaken /\ Hooks!NoneForgotten
                          /\ Hooks!StartIsPostedFirst)
<1>1. Hooks!Init => HookInv
  <2> SUFFICES ASSUME Hooks!Init PROVE HookInv
    OBVIOUS
  <2>1. [at |-> "new", kept |-> FALSE, messages |-> 0] \in Chats
    BY DEF Chats
  <2>2. \A s \in Sessions : session[s].at = "new"
    BY DEF Hooks!Init
  <2>3. HookTypes
    <3>1. session \in [Sessions -> Chats]
      BY <2>1 DEF Hooks!Init
    <3>2. queue = <<>> /\ <<>> \in Seq(Hooks!Deliveries) /\ Len(<<>>) = 0
      BY DEF Hooks!Init
    <3>3. row \in [Hooks!Deliveries -> Logs \cup {None}]
      BY DEF Hooks!Init
    <3>4. seen \in [Hooks!Deliveries -> {"nothing", "queued", "posted"}]
      BY DEF Hooks!Init
    <3>5. /\ Len(queue) <= MaxQueue /\ restarts \in 0..MaxRestarts
      BY <3>2 DEF HookNames, Hooks!Init
    <3>6. /\ posting \in Hooks!Deliveries \cup {None} /\ accepted \subseteq Hooks!Deliveries
          /\ hooked \in BOOLEAN /\ unmarked \subseteq Hooks!Deliveries
      BY DEF Hooks!Init
    <3> QED BY <3>1, <3>2, <3>3, <3>4, <3>5, <3>6 DEF HookTypes
  <2>4. \A d \in Hooks!Deliveries : Delivery(d)
    <3> SUFFICES ASSUME NEW d \in Hooks!Deliveries PROVE Delivery(d)
      OBVIOUS
    <3>1. ~Queued(d)
      BY DEF Hooks!Init, Queued
    <3> QED BY <3>1 DEF HookNames, Hooks!Init, Delivery
  <2>5. \A s \in Sessions : <<s, "started">> \in Hooks!Deliveries /\ <<s, "message">> \in Hooks!Deliveries
    BY DEF Hooks!Deliveries
  <2>6. \A s \in Sessions : Chat(s) /\ InOrder(s)
    BY <2>5 DEF Hooks!Init, Chat, InOrder
  <2> QED BY <2>3, <2>4, <2>6 DEF HookInv
<1>2. HookInv /\ [Hooks!Next]_Hooks!vars => HookInv'
  <2> SUFFICES ASSUME HookInv, [Hooks!Next]_Hooks!vars PROVE HookInv'
    OBVIOUS
  <2>1. CASE Hooks!create_webhook
    BY <2>1 DEF Hooks!create_webhook, HookInv, HookTypes, Delivery, Queued, Chat, InOrder
  <2>2. CASE UNCHANGED Hooks!vars
    BY <2>2 DEF Hooks!vars, HookInv, HookTypes, Delivery, Queued, Chat, InOrder
  <2> QED BY <2>1, <2>2, ChatGoesOn, FirstIsTaken, PostEnds, QueuedAgain, DaysPass
          DEF Hooks!Next, Hooks!Works
<1>3. HookInv => /\ Hooks!TypeOK /\ Hooks!DeliveredWasTaken /\ Hooks!NoneForgotten
                 /\ Hooks!StartIsPostedFirst
  <2> SUFFICES ASSUME HookInv
               PROVE  /\ Hooks!TypeOK /\ Hooks!DeliveredWasTaken /\ Hooks!NoneForgotten
                      /\ Hooks!StartIsPostedFirst
    OBVIOUS
  <2>1. Hooks!TypeOK
    BY DEF HookInv, HookTypes, Hooks!TypeOK, Logs, Chats
  <2>2. Hooks!DeliveredWasTaken
    BY DEF HookInv, Delivery, Hooks!DeliveredWasTaken, Hooks!Logged
  <2>3. Hooks!NoneForgotten
    BY DEF HookInv, Delivery, Queued, Hooks!NoneForgotten, Hooks!Logged, Hooks!Pending, Hooks!Contains
  <2>4. Hooks!StartIsPostedFirst
    BY DEF HookInv, InOrder, Hooks!StartIsPostedFirst
  <2> QED BY <2>1, <2>2, <2>3, <2>4
<1> QED BY <1>1, <1>2, <1>3, PTL DEF Hooks!Spec

-----------------------------------------------------------------------------
CONSTANTS Regions, Experiments, Metrics, Duration, Goal, Sticky, Places, Deployments, Targets,
          Rounds, MaxResponse
VARIABLES up, health, response, experiment, load, deployment, deployed

Global == INSTANCE GlobalRouting

Said == [load : Nat, errors : Nat, late : BOOLEAN, recovered : Nat \cup {None}]
RegionNames ==
  /\ Regions \subseteq Nat \ {0} /\ 1 \in Regions /\ Sticky \in [DOMAIN Sticky -> Regions]
  /\ Places \subseteq [Regions -> 0..100]
  /\ \A u \in {"ok", "slow"} : Metrics[u] \subseteq Said
  /\ DOMAIN Metrics \subseteq {"ok", "slow"}
  /\ Duration \in Nat /\ Rounds \in Nat
  /\ Targets \subseteq Seq(Nat) \ {<<>>} /\ Deployments \subseteq Nat \ {0}
  /\ None \notin Nat
  /\ None \notin {"failure", "latency", "watching", "ended", "blue_green", "canary", "rolling",
                  "success", "raised"}

-----------------------------------------------------------------------------
Marks == {"healthy", "degraded", "unhealthy"}
RegionTable ==
  /\ up \in [Regions -> {"ok", "slow", "down"}]
  /\ health \in [Regions -> Marks] /\ response \in [Regions -> Nat] /\ load \in [Regions -> Said]
  /\ seen \in Marks \cup {None}

Samples == [Regions -> Said]
(* What a report of an experiment says of itself. *)
Agrees(report) ==
  LET failing == {v[1] : v \in {v \in report.violations : v[3] = "error_rate"}}
  IN  /\ report.recovery = None <=> failing = 1..Duration
      /\ report.recovery = None => "failover speed" \in report.recommendations
      /\ "error handling" \in report.recommendations => failing # {}
      /\ report.recovery # None => report.recovery + 1 \notin failing
Sound(x) ==
  /\ x.kind \in {None, "failure", "latency", "watching", "ended"}
  /\ x.kind = "latency" => x.original \in Nat
  /\ x.kind = "watching" => x = [kind |-> "watching", data |-> x.data] /\ x.data \in Seq(Samples)
  /\ x.kind = "ended" => Agrees(x)

TableInv ==
  /\ RegionTable
  /\ experiment = [e \in Experiments |-> experiment[e]]
  /\ \A e \in Experiments : Sound(experiment[e])

-----------------------------------------------------------------------------
LEMMA UnusedIsSaid == ASSUME RegionNames PROVE Global!Unused \in Said
BY DEF RegionNames, Global!Unused, Said

LEMMA LackBound ==
  ASSUME NEW n \in Nat
  PROVE  Global!Lack(n) \in 0..100 /\ \A k \in Nat : n <= k => Global!Lack(k) <= Global!Lack(n)
BY DEF Global!Lack

LEMMA SessionsAreKept ==
  ASSUME RegionNames, RegionTable PROVE Global!SessionsStay
<1> SUFFICES ASSUME NEW s \in DOMAIN Sticky, NEW place \in Places,
                    health[Sticky[s]] = "healthy",
                    Global!RegionScore(place, Sticky[s]) > 20000,
                    \A o \in Regions : /\ load[Sticky[s]].load <= load[o].load
                                       /\ load[Sticky[s]].errors <= load[o].errors
                                       /\ place[o] <= place[Sticky[s]] + 12
             PROVE  Global!route_request(s, place) = Sticky[s]
  BY DEF Global!SessionsStay
<1> DEFINE r == Sticky[s]
<1>1. r \in Regions /\ r \in Global!Candidates
  BY DEF RegionNames, Global!Candidates
<1> DEFINE Points(o) == place[o] * 4 + Global!Lack(load[o].load) * 3 + Global!Lack(response[o] * 10) * 2
                        + Global!Lack(load[o].errors)
<1>2. ASSUME NEW o \in Regions
      PROVE  Points(o) \in 0..1000 /\ Points(o) <= Points(r) + 248
  <2>1. /\ load[o].load \in Nat /\ load[o].errors \in Nat /\ response[o] * 10 \in Nat
        /\ load[r].load \in Nat /\ load[r].errors \in Nat /\ response[r] * 10 \in Nat
    BY <1>1 DEF RegionTable, Said
  <2>2. /\ Global!Lack(load[o].load) \in 0..100 /\ Global!Lack(load[o].errors) \in 0..100
        /\ Global!Lack(response[o] * 10) \in 0..100 /\ Global!Lack(response[r] * 10) \in 0..100
        /\ Global!Lack(load[r].load) \in 0..100 /\ Global!Lack(load[r].errors) \in 0..100
        /\ Global!Lack(load[o].load) <= Global!Lack(load[r].load)
        /\ Global!Lack(load[o].errors) <= Global!Lack(load[r].errors)
    BY <1>1, <2>1, LackBound
  <2>5. place[o] \in 0..100 /\ place[r] \in 0..100 /\ place[o] <= place[r] + 12
    BY <1>1 DEF RegionNames
  <2> DEFINE p == place[o]  q == place[r]
             a == Global!Lack(load[o].load)  b == Global!Lack(response[o] * 10)
             c == Global!Lack(load[o].errors)
             x == Global!Lack(load[r].load)  y == Global!Lack(response[r] * 10)
             z == Global!Lack(load[r].errors)
  <2>3. /\ a \in 0..100 /\ b \in 0..100 /\ c \in 0..100 /\ x \in 0..100 /\ y \in 0..100
        /\ z \in 0..100 /\ a <= x /\ c <= z
        /\ p \in 0..100 /\ q \in 0..100 /\ p <= q + 12
    BY <2>2, <2>5
  <2>4. Points(o) = p * 4 + a * 3 + b * 2 + c /\ Points(r) = q * 4 + x * 3 + y * 2 + z
    OBVIOUS
  <2> HIDE DEF p, q, a, b, c, x, y, z, Points
  <2> QED BY <2>3, <2>4
<1>3. ASSUME NEW o \in Regions
      PROVE  /\ Global!RegionScore(place, o) = Points(o) * (IF health[o] = "degraded" THEN 70 ELSE 100)
             /\ Global!RegionScore(place, o) \in Int /\ Global!RegionScore(place, o) <= Points(o) * 100
  <2>1. Points(o) \in Int /\ Points(o) >= 0
    BY <1>2
  <2>2. Global!RegionScore(place, o) = Points(o) * (IF health[o] = "degraded" THEN 70 ELSE 100)
    BY DEF Global!RegionScore
  <2> HIDE DEF Points
  <2> QED BY <2>1, <2>2
<1>4. Global!RegionScore(place, r) = Points(r) * 100
  BY <1>1, <1>3
<1>5. Global!SessionScore(s, place, r) = Points(r) * 100 + 25000
  BY <1>4 DEF Global!SessionScore, Global!Bonus
<1>6. ASSUME NEW o \in Regions, o # r
      PROVE  Global!SessionScore(s, place, o) \in Int /\ Global!SessionScore(s, place, o) < Global!SessionScore(s, place, r)
  <2>1. Global!SessionScore(s, place, o) = Global!RegionScore(place, o) + 0
    BY <1>6 DEF Global!SessionScore
  <2> HIDE DEF Points, r
  <2>2. Points(o) \in 0..1000 /\ Points(o) <= Points(r) + 248 /\ Points(r) \in 0..1000
    BY <1>1, <1>2
  <2>3. Global!RegionScore(place, o) \in Int /\ Global!RegionScore(place, o) <= Points(o) * 100
    BY <1>3
  <2>4. Points(o) \in Int /\ Points(r) \in Int
    BY <2>2
  <2> DEFINE p == Points(o)  q == Points(r)  x == Global!RegionScore(place, o)
             y == Global!SessionScore(s, place, o)  z == Global!SessionScore(s, place, r)
  <2>5. /\ p \in Int /\ q \in Int /\ p <= q + 248 /\ x \in Int /\ x <= p * 100
        /\ y = x + 0 /\ z = q * 100 + 25000
    BY <1>5, <2>1, <2>2, <2>3, <2>4
  <2> HIDE DEF p, q, x, y, z
  <2>6. y \in Int /\ y < z
    BY <2>5
  <2> QED BY <2>6 DEF y, z
<1>7. Global!SessionScore(s, place, r) \in Int
  <2>1. Points(r) \in Int
    BY <1>1, <1>2
  <2> HIDE DEF Points
  <2> QED BY <1>5, <2>1
<1> DEFINE First(c) == \A o \in Global!Candidates :
                         \/ Global!SessionScore(s, place, o) < Global!SessionScore(s, place, c)
                         \/ Global!SessionScore(s, place, o) = Global!SessionScore(s, place, c) /\ c <= o
<1>8. First(r)
  <2>1. \A o \in Global!Candidates : o \in Regions
    BY DEF Global!Candidates
  <2>2. r <= r
    BY <1>1 DEF RegionNames
  <2> HIDE DEF r
  <2> QED BY <1>6, <2>1, <2>2
<1>9. ASSUME NEW c \in Global!Candidates, First(c) PROVE c = r
  <2>1. c \in Regions
    BY DEF Global!Candidates
  <2>2. \/ Global!SessionScore(s, place, r) < Global!SessionScore(s, place, c)
        \/ Global!SessionScore(s, place, r) = Global!SessionScore(s, place, c)
    BY <1>1, <1>9
  <2> HIDE DEF r, First
  <2> QED BY <1>6, <1>7, <2>1, <2>2
<1> HIDE DEF r, First
<1>10. (CHOOSE c \in Global!Candidates : First(c)) = r
  BY <1>1, <1>8, <1>9
<1> QED BY <1>1, <1>10 DEF Global!route_request, First, r

-----------------------------------------------------------------------------
LEMMA LeastOf ==
  ASSUME NEW S, S \subseteq Nat, S # {}
  PROVE  \E n \in S : \A k \in S : n <= k
<1>1. PICK n \in S : \A k \in S : ~(<<k, n>> \in OpToRel(<, Nat))
  BY NatLessThanWellFounded, WFMin
<1>2. ASSUME NEW k \in S PROVE n <= k
  <2>1. <<k, n>> \in Nat \X Nat /\ n \in Nat /\ k \in Nat
    OBVIOUS
  <2>2. k < n => <<k, n>> \in OpToRel(<, Nat)
    BY <2>1 DEF OpToRel
  <2>3. ~(<<k, n>> \in OpToRel(<, Nat))
    BY <1>1
  <2>4. ~(k < n)
    BY <2>2, <2>3
  <2> QED BY <2>1, <2>4
<1> QED BY <1>2

LEMMA ReportAgrees ==
  ASSUME RegionNames, NEW data \in Seq(Samples), Len(data) = Duration,
         NEW report,
         report.recovery = Global!_calculate_recovery_time(data),
         report.violations = Global!_check_sla_violations(data),
         report.recommendations = Global!_generate_recommendations(data)
  PROVE  Agrees(report)
<1> DEFINE calm == {n \in DOMAIN data : \A r \in Regions : ~Global!Failing(data[n][r])}
           failing == {v[1] : v \in {v \in report.violations : v[3] = "error_rate"}}
<1>1. DOMAIN data = 1..Duration /\ Duration \in Nat
  BY DEF RegionNames
<1>2. ASSUME NEW n \in 1..Duration, NEW r \in Regions PROVE data[n][r].errors \in Nat
  <2>1. data[n] \in Samples
    BY <1>1
  <2> QED BY <2>1 DEF Samples, Said
<1>3. ASSUME NEW n
      PROVE  n \in failing <=> n \in 1..Duration /\ \E r \in Regions : Global!Failing(data[n][r])
  <2>1. ASSUME n \in failing
        PROVE  n \in 1..Duration /\ \E r \in Regions : Global!Failing(data[n][r])
    <3>1. PICK v \in Global!_check_sla_violations(data) : v[3] = "error_rate" /\ n = v[1]
      BY <2>1
    <3> QED BY <1>1, <3>1 DEF Global!_check_sla_violations, Global!Failing
  <2>2. ASSUME n \in 1..Duration, NEW r \in Regions, Global!Failing(data[n][r])
        PROVE  n \in failing
    <3> DEFINE v == <<n, r, "error_rate">>
    <3>1. v \in (DOMAIN data) \X Regions \X {"response_time", "error_rate"}
      BY <1>1, <2>2
    <3>2. v[1] = n /\ v[2] = r /\ v[3] = "error_rate"
      OBVIOUS
    <3>3. v \in Global!_check_sla_violations(data)
      BY <2>2, <3>1, <3>2 DEF Global!_check_sla_violations, Global!Failing
    <3> HIDE DEF v
    <3> QED BY <3>2, <3>3
  <2> QED BY <2>1, <2>2
<1> HIDE DEF failing
<1>4. calm = (1..Duration) \ failing
  BY <1>1, <1>3
<1>5. report.recovery = IF calm = {} THEN None ELSE (CHOOSE n \in calm : \A k \in calm : n <= k) - 1
  BY DEF Global!_calculate_recovery_time
<1> HIDE DEF calm
<1>6. ASSUME calm # {} PROVE report.recovery \in Nat /\ report.recovery + 1 \in calm
  <2>1. calm \subseteq Nat
    BY <1>1, <1>4
  <2>2. \E n \in calm : \A k \in calm : n <= k
    BY <1>6, <2>1, LeastOf
  <2>3. PICK n \in calm : report.recovery = n - 1
    BY <1>5, <1>6, <2>2
  <2>4. n \in 1..Duration
    BY <1>4
  <2> QED BY <1>1, <2>3, <2>4
<1>7. report.recovery = None <=> failing = 1..Duration
  <2>1. failing \subseteq 1..Duration
    BY <1>3
  <2>2. calm = {} <=> failing = 1..Duration
    BY <1>4, <2>1
  <2> QED BY <1>5, <1>6, <2>2 DEF RegionNames
<1>8. report.recovery = None => "failover speed" \in report.recommendations
  BY DEF Global!_generate_recommendations
<1>9. ASSUME NEW n \in 1..Duration, NEW r \in Regions, data[n][r].errors > 5
      PROVE  Global!Failing(data[n][r])
  BY <1>2, <1>9 DEF Global!Failing
<1>10. "error handling" \in report.recommendations => failing # {}
  <2>1. ASSUME ~\E n \in DOMAIN data : \E r \in Regions : data[n][r].errors > 5
        PROVE  "error handling" \notin report.recommendations
    <3>1. report.recommendations \subseteq {"failover speed"}
      BY <2>1 DEF Global!_generate_recommendations
    <3>2. "error handling" \notin {"failover speed"}
      OBVIOUS
    <3> QED BY <3>1, <3>2
  <2>2. ASSUME NEW n \in 1..Duration, NEW r \in Regions, data[n][r].errors > 5
        PROVE  failing # {}
    BY <1>3, <1>9, <2>2
  <2> QED BY <1>1, <2>1, <2>2
<1>11. report.recovery # None => report.recovery + 1 \notin failing
  BY <1>4, <1>5, <1>6
<1> QED BY <1>7, <1>8, <1>10, <1>11 DEF Agrees, failing

-----------------------------------------------------------------------------
LEMMA TableInit == ASSUME RegionNames, Global!Init PROVE TableInv
<1>1. /\ up \in [Regions -> {"ok", "slow", "down"}] /\ health = [r \in Regions |-> "healthy"] /\ response = [r \in Regions |-> 0] /\ seen = None
      /\ experiment = [e \in Experiments |-> Global!Idle] /\ load = [r \in Regions |-> Global!Unused]
  BY DEF Global!Init
<1>2. RegionTable
  BY <1>1, UnusedIsSaid DEF RegionTable, Marks
<1>3. \A e \in Experiments : Sound(experiment[e])
  BY <1>1 DEF Sound, Global!Idle, RegionNames
<1>4. experiment = [e \in Experiments |-> experiment[e]]
  BY <1>1
<1> QED BY <1>2, <1>3, <1>4 DEF TableInv

(* One experiment goes on; what it finds is put back as it was.             *)
LEMMA OneExperiment ==
  ASSUME TableInv, RegionTable', NEW e \in Experiments, NEW x, Sound(x),
         experiment' = [experiment EXCEPT ![e] = x]
  PROVE  TableInv'
<1>1. experiment' = [d \in Experiments |-> IF d = e THEN x ELSE experiment[d]]
  BY DEF TableInv
<1>2. experiment' = [d \in Experiments |-> experiment'[d]] /\ experiment'[e] = x
      /\ \A d \in Experiments : d # e => experiment'[d] = experiment[d]
  BY <1>1
<1>3. \A d \in Experiments : Sound(experiment[d])'
  BY <1>2 DEF TableInv, Sound, Agrees
<1> QED BY <1>2, <1>3 DEF TableInv

LEMMA TableStep ==
  ASSUME RegionNames, TableInv, [Global!Next]_Global!vars
  PROVE  TableInv'
<1>0. RegionTable
  BY DEF TableInv
<1>1. ASSUME RegionTable', experiment' = experiment PROVE TableInv'
  BY <1>1 DEF TableInv, Sound, Agrees
<1>2. ASSUME UNCHANGED <<up, health, response, seen, load>> PROVE RegionTable'
  BY <1>0, <1>2 DEF RegionTable
<1>3. CASE Global!WakesUp \/ Global!Responds \/ Global!Checked
  <2>1. CASE Global!WakesUp
    BY <1>1, <1>2, <2>1 DEF Global!WakesUp
  <2>2. CASE Global!Responds
    <3>1. /\ seen' \in Marks /\ response' \in [Regions -> Nat] /\ health' = health /\ load' = load
          /\ experiment' = experiment /\ up' = up
      BY <1>0, <2>2 DEF RegionTable, Marks, Global!Responds, Global!Verdict
    <3> QED BY <1>0, <1>1, <3>1 DEF RegionTable
  <2>3. CASE Global!Checked
    <3>1. /\ health' \in [Regions -> Marks] /\ seen' = None /\ response' = response /\ load' = load
          /\ experiment' = experiment /\ up' = up
      BY <1>0, <2>3 DEF RegionTable, Global!Checked
    <3> QED BY <1>0, <1>1, <3>1 DEF RegionTable
  <2> QED BY <1>3, <2>1, <2>2, <2>3
<1>4. ASSUME NEW r \in Regions, Global!Changes(r) \/ Global!Measured(r) PROVE TableInv'
  <2>1. CASE Global!Changes(r)
    <3>1. up' \in [Regions -> {"ok", "slow", "down"}] /\ UNCHANGED <<health, response, seen, load, experiment>>
      BY <1>0, <2>1 DEF Global!Changes, RegionTable
    <3> QED BY <1>0, <1>1, <3>1 DEF RegionTable
  <2>2. CASE Global!Measured(r)
    <3>1. PICK m \in IF up[r] = "down" THEN {Global!Unused} ELSE Metrics[up[r]] :
            load' = [load EXCEPT ![r] = m]
      BY <2>2 DEF Global!Measured
    <3>2. UNCHANGED <<up, health, response, seen, experiment>>
      BY <2>2 DEF Global!Measured
    <3>3. m \in Said
      BY <1>0, <3>1, UnusedIsSaid DEF RegionNames, RegionTable
    <3> QED BY <1>0, <1>1, <3>1, <3>2, <3>3 DEF RegionTable
  <2> QED BY <1>4, <2>1, <2>2
<1>5. ASSUME NEW e \in Experiments, NEW r \in Regions,
             Global!_simulate_region_failure(e, r) \/ Global!_simulate_network_latency(e, r)
      PROVE  TableInv'
  <2>1. CASE Global!_simulate_region_failure(e, r)
    <3> DEFINE x == [kind |-> "failure", region |-> r]
    <3>1. experiment' = [experiment EXCEPT ![e] = x] /\ RegionTable'
      BY <1>0, <2>1 DEF Global!_simulate_region_failure, RegionTable, Marks
    <3>2. Sound(x)
      BY DEF Sound
    <3> HIDE DEF x
    <3> QED BY <3>1, <3>2, OneExperiment
  <2>2. CASE Global!_simulate_network_latency(e, r)
    <3> DEFINE x == [kind |-> "latency", region |-> r, original |-> response[r]]
    <3>1. experiment' = [experiment EXCEPT ![e] = x] /\ RegionTable'
      BY <1>0, <2>2 DEF Global!_simulate_network_latency, RegionTable
    <3>2. Sound(x)
      BY <1>0 DEF Sound, RegionTable
    <3> HIDE DEF x
    <3> QED BY <3>1, <3>2, OneExperiment
  <2> QED BY <1>5, <2>1, <2>2
<1>6. ASSUME NEW e \in Experiments, Global!Restores(e) \/ Global!_simulate_stress(e) \/ Global!Cancelled(e)
      PROVE  TableInv'
  <2>1. RegionTable'
    <3>1. CASE Global!Restores(e)
      <4>1. experiment[e].kind = "latency" => experiment[e].original \in Nat
        BY DEF TableInv, Sound
      <4>2. /\ seen' = seen /\ up' = up /\ load' = load
            /\ \/ health' = [health EXCEPT ![experiment[e].region] = "healthy"] /\ response' = response
               \/ /\ experiment[e].kind = "latency" /\ health' = health
                  /\ response' = [response EXCEPT ![experiment[e].region] = experiment[e].original]
        BY <3>1 DEF Global!Restores
      <4> QED BY <1>0, <4>1, <4>2 DEF RegionTable, Marks
    <3>2. CASE Global!_simulate_stress(e) \/ Global!Cancelled(e)
      BY <1>2, <3>2 DEF Global!_simulate_stress, Global!Cancelled, Global!table
    <3> QED BY <1>6, <3>1, <3>2
  <2>2. Sound(Global!Watching) /\ Sound(Global!Idle)
    BY DEF Sound, Global!Watching, Global!Idle, RegionNames
  <2>3. \/ experiment' = [experiment EXCEPT ![e] = Global!Watching]
        \/ experiment' = [experiment EXCEPT ![e] = Global!Idle]
    BY <1>6 DEF Global!Restores, Global!_simulate_stress, Global!Cancelled
  <2> QED BY <2>1, <2>2, <2>3, OneExperiment
<1>7. ASSUME NEW e \in Experiments, Global!Samples(e) PROVE TableInv'
  <2>1. RegionTable' /\ experiment[e].kind = "watching"
    BY <1>2, <1>7 DEF Global!Samples, Global!table
  <2>2. /\ experiment[e] = [kind |-> "watching", data |-> experiment[e].data]
        /\ experiment[e].data \in Seq(Samples)
    BY <2>1 DEF TableInv, Sound
  <2>3. PICK sample \in [Regions -> {Global!Unused} \cup UNION {Metrics[u] : u \in DOMAIN Metrics}] :
          experiment' = [experiment EXCEPT ![e].data = Append(@, sample)]
    BY <1>7 DEF Global!Samples
  <2>4. sample \in Samples
    BY UnusedIsSaid DEF Samples, RegionNames
  <2> DEFINE x == [kind |-> "watching", data |-> Append(experiment[e].data, sample)]
  <2>5. experiment' = [experiment EXCEPT ![e] = x]
    <3>1. \A d, f : [[kind |-> "watching", data |-> d] EXCEPT !.data = f] = [kind |-> "watching", data |-> f]
      OBVIOUS
    <3> DEFINE d == experiment[e].data  f == Append(experiment[e].data, sample)
    <3>2. experiment[e] = [kind |-> "watching", data |-> d]
      BY <2>2
    <3>3. experiment' = [experiment EXCEPT ![e] = [experiment[e] EXCEPT !.data = f]]
      BY <2>3
    <3> HIDE DEF d, f
    <3>4. [experiment[e] EXCEPT !.data = f] = [kind |-> "watching", data |-> f]
      BY <3>1, <3>2
    <3> QED BY <3>3, <3>4 DEF f
  <2>6. Sound(x)
    BY <2>2, <2>4 DEF Sound
  <2> HIDE DEF x
  <2> QED BY <2>1, <2>5, <2>6, OneExperiment
<1>8. ASSUME NEW e \in Experiments, Global!_analyze_experiment_results(e) PROVE TableInv'
  <2> DEFINE data == experiment[e].data
             x == [kind |-> "ended",
                   recovery |-> Global!_calculate_recovery_time(data),
                   violations |-> Global!_check_sla_violations(data),
                   failover |-> Global!_measure_failover_success(data),
                   recommendations |-> Global!_generate_recommendations(data)]
  <2>1. RegionTable' /\ experiment[e].kind = "watching" /\ Len(data) = Duration
        /\ experiment' = [experiment EXCEPT ![e] = x]
    BY <1>2, <1>8 DEF Global!_analyze_experiment_results, Global!table
  <2>2. data \in Seq(Samples)
    BY <2>1 DEF TableInv, Sound
  <2>3. Agrees(x)
    BY <2>1, <2>2, ReportAgrees
  <2>4. Sound(x)
    BY <2>3 DEF Sound
  <2> HIDE DEF x
  <2> QED BY <2>1, <2>4, OneExperiment
<1>9. CASE Global!Deploying \/ UNCHANGED Global!vars
  <2>1. UNCHANGED <<up, health, response, seen, load, experiment>>
    BY <1>9 DEF Global!Deploying, Global!vars, Global!SwitchesToGreen, Global!RollsOut, Global!Shifts,
         Global!deploy_new_version, Global!table
  <2> QED BY <1>1, <1>2, <2>1
<1> QED BY <1>3, <1>4, <1>5, <1>6, <1>7, <1>8, <1>9 DEF Global!Next, Global!Loop, Global!Experimenting

(* infrastructure/global_routing.py: however the loops and experiments overlap, *)
(* and wherever the client is, the bonus of a session is more than slow answers *)
(* and 1,250 km to another region cost, and the parts of an experiment's        *)
(* report, each made by itself, do not contradict one another.                  *)
THEOREM RoutesAndReportsHold ==
  ASSUME RegionNames
  PROVE  Global!Spec => [](Global!SessionsStay /\ Global!ReportsAgree)
<1>1. Global!Init => TableInv
  BY TableInit
<1>2. TableInv /\ [Global!Next]_Global!vars => TableInv'
  BY TableStep
<1>3. TableInv => Global!SessionsStay /\ Global!ReportsAgree
  <2>1. TableInv => Global!SessionsStay
    BY SessionsAreKept DEF TableInv
  <2>2. TableInv => Global!ReportsAgree
    BY DEF TableInv, Sound, Agrees, Global!ReportsAgree
  <2> QED BY <2>1, <2>2
<1> QED BY <1>1, <1>2, <1>3, PTL DEF Global!Spec

-----------------------------------------------------------------------------
Strategies == {"blue_green", "canary", "rolling"}
RolloutNames ==
  /\ Rounds \in Nat /\ Targets \subseteq Seq(Nat) \ {<<>>}
  /\ 0 \notin Deployments /\ None \notin Deployments \cup {0}
  /\ None \notin Strategies \cup {"success", "raised"}

Rollouts == [kind : Strategies \cup {"success", "raised"}, id : Deployments, regions : Seq(Nat),
             todo : Seq(Nat), round : Nat, strategy : Strategies, succeeded : SUBSET Nat]
GoesOn(x) ==
  /\ x \in Rollouts
  /\ x.kind \in Strategies => x.strategy = x.kind
  /\ x.kind \in {"rolling", "blue_green"} => x.todo # <<>>

(* What stands in a table of marks of a region that succeeded; a rolling     *)
(* deployment of the same second may be at work there once more.             *)
Stands(marks, strategy, id, r) ==
  CASE strategy = "rolling" -> <<"deployed", id, r>> \in marks \/ <<"deploying", id, r>> \in marks
    [] strategy = "canary" -> <<"active", 0, r>> \in marks
    [] OTHER -> <<"green", None, r>> \in marks
IsAt(x, mark) == x.kind = "rolling" /\ x.id = mark[2] /\ Head(x.todo) = mark[3]

RolloutInv ==
  /\ deployment = [d \in Deployments |-> deployment[d]]
  /\ \A d \in Deployments : deployment[d] = Global!Idle \/ GoesOn(deployment[d])
  /\ \A mark \in deployed : mark[1] = "deploying" =>
       \E d \in Deployments : IsAt(deployment[d], mark)
  /\ \A d \in Deployments : deployment[d] # Global!Idle =>
       \A r \in deployment[d].succeeded :
         Stands(deployed, deployment[d].strategy, deployment[d].id, r)

LEMMA MarkIsPut ==
  ASSUME NEW S, NEW T, NEW w, NEW i, NEW p,
         T = {mark \in S : <<mark[2], mark[3]>> # <<i, p>>} \cup {<<w, i, p>>}
  PROVE  /\ <<w, i, p>> \in T
         /\ \A v, n, q : <<v, n, q>> \in S /\ (n # i \/ q # p) => <<v, n, q>> \in T
         /\ \A mark \in T : \/ mark = <<w, i, p>>
                            \/ mark \in S /\ (mark[2] # i \/ mark[3] # p)
<1>1. ASSUME NEW v, NEW n, NEW q, <<v, n, q>> \in S, n # i \/ q # p
      PROVE  <<v, n, q>> \in T
  <2> DEFINE m == <<v, n, q>>
  <2>1. m[2] = n /\ m[3] = q /\ m \in S
    BY <1>1
  <2> HIDE DEF m
  <2>2. <<m[2], m[3]>> # <<i, p>>
    BY <1>1, <2>1
  <2>3. m \in T
    BY <2>1, <2>2
  <2> QED BY <2>3 DEF m
<1>2. ASSUME NEW mark \in T, mark # <<w, i, p>> PROVE mark \in S /\ (mark[2] # i \/ mark[3] # p)
  BY <1>2
<1> QED BY <1>1, <1>2

(* A mark of one deployment leaves what stands of others standing.          *)
LEMMA StandsOn ==
  ASSUME RolloutNames, NEW S, NEW T, NEW w, NEW i, NEW p,
         T = {mark \in S : <<mark[2], mark[3]>> # <<i, p>>} \cup {<<w, i, p>>},
         \/ w \in {"deploying", "deployed"} /\ i \in Deployments
         \/ w = "active" /\ i = 0
         \/ w = "green" /\ i = None
  PROVE  \A strategy \in Strategies, id \in Deployments : \A r :
           Stands(S, strategy, id, r) => Stands(T, strategy, id, r)
<1> SUFFICES ASSUME NEW strategy \in Strategies, NEW id \in Deployments, NEW r, Stands(S, strategy, id, r)
             PROVE  Stands(T, strategy, id, r)
  OBVIOUS
<1>1. /\ <<w, i, p>> \in T
      /\ \A v, n, q : <<v, n, q>> \in S /\ (n # i \/ q # p) => <<v, n, q>> \in T
  BY MarkIsPut
<1>2. CASE strategy = "rolling"
  <2>1. CASE i = id /\ p = r
    <3>1. w \in {"deploying", "deployed"}
      BY <2>1 DEF RolloutNames
    <3> QED BY <1>1, <1>2, <2>1, <3>1 DEF Stands
  <2>2. CASE ~(i = id /\ p = r)
    BY <1>1, <1>2, <2>2 DEF Stands
  <2> QED BY <2>1, <2>2
<1>3. CASE strategy = "canary"
  <2>1. CASE i = 0 /\ p = r
    <3>1. w = "active"
      BY <2>1 DEF RolloutNames
    <3> QED BY <1>1, <1>3, <2>1, <3>1 DEF Stands
  <2>2. CASE ~(i = 0 /\ p = r)
    BY <1>1, <1>3, <2>2 DEF Stands
  <2> QED BY <2>1, <2>2
<1>4. CASE strategy = "blue_green"
  <2>1. CASE i = None /\ p = r
    <3>1. w = "green"
      BY <2>1 DEF RolloutNames
    <3> QED BY <1>1, <1>4, <2>1, <3>1 DEF Stands
  <2>2. CASE ~(i = None /\ p = r)
    BY <1>1, <1>4, <2>2 DEF Stands
  <2> QED BY <2>1, <2>2
<1> QED BY <1>2, <1>3, <1>4 DEF Strategies

LEMMA RolloutInit == ASSUME RolloutNames, Global!Init PROVE RolloutInv
BY DEF RolloutNames, Global!Init, RolloutInv

LEMMA OneRollout ==
  ASSUME RolloutInv, NEW d \in Deployments, NEW x, GoesOn(x), deployment' = [deployment EXCEPT ![d] = x],
         \A strategy \in Strategies, id \in Deployments : \A r :
           Stands(deployed, strategy, id, r) => Stands(deployed', strategy, id, r),
         \A r \in x.succeeded : Stands(deployed', x.strategy, x.id, r),
         \A mark \in deployed' : mark[1] = "deploying" =>
           \/ IsAt(x, mark)
           \/ mark \in deployed /\ ~IsAt(deployment[d], mark)
  PROVE  RolloutInv'
<1>1. deployment' = [o \in Deployments |-> IF o = d THEN x ELSE deployment[o]]
  BY DEF RolloutInv
<1>2. /\ deployment' = [o \in Deployments |-> deployment'[o]] /\ deployment'[d] = x
      /\ \A o \in Deployments : o # d => deployment'[o] = deployment[o]
  BY <1>1
<1>3. \A o \in Deployments : deployment'[o] = Global!Idle \/ GoesOn(deployment'[o])
  BY <1>2 DEF RolloutInv
<1>4. ASSUME NEW mark \in deployed', mark[1] = "deploying"
      PROVE  \E o \in Deployments : IsAt(deployment'[o], mark)
  <2>1. CASE IsAt(x, mark)
    BY <1>2, <2>1
  <2>2. CASE mark \in deployed /\ ~IsAt(deployment[d], mark)
    <3>1. PICK o \in Deployments : IsAt(deployment[o], mark)
      BY <1>4, <2>2 DEF RolloutInv
    <3> QED BY <1>2, <2>2, <3>1
  <2> QED BY <1>4, <2>1, <2>2
<1>5. ASSUME NEW o \in Deployments, deployment'[o] # Global!Idle, NEW r \in deployment'[o].succeeded
      PROVE  Stands(deployed', deployment'[o].strategy, deployment'[o].id, r)
  <2>1. CASE o = d
    BY <1>2, <1>5, <2>1
  <2>2. CASE o # d
    <3>1. /\ deployment'[o] = deployment[o] /\ deployment[o].strategy \in Strategies
          /\ deployment[o].id \in Deployments
      BY <1>2, <1>5, <2>2 DEF RolloutInv, GoesOn, Rollouts
    <3>2. Stands(deployed, deployment[o].strategy, deployment[o].id, r)
      BY <1>5, <3>1 DEF RolloutInv
    <3> QED BY <3>1, <3>2
  <2> QED BY <2>1, <2>2
<1>6. \A mark \in deployed' : mark[1] = "deploying" => \E o \in Deployments : IsAt(deployment'[o], mark)
  BY <1>4
<1> QED BY <1>2, <1>3, <1>5, <1>6 DEF RolloutInv, IsAt

(* The next region of a deployment is done. *)
LEMMA OneRegionDone ==
  ASSUME RolloutInv, NEW d \in Deployments, GoesOn(deployment[d]), deployment[d].kind \in Strategies,
         deployment[d].todo # <<>>, NEW ok \in BOOLEAN, Global!Advances(d, ok)
  PROVE  \E x : /\ deployment' = [deployment EXCEPT ![d] = x] /\ GoesOn(x)
                /\ x.id = deployment[d].id /\ x.strategy = deployment[d].strategy
                /\ x.todo = Tail(deployment[d].todo)
                /\ x.succeeded = IF ok THEN deployment[d].succeeded \cup {Head(deployment[d].todo)}
                                 ELSE deployment[d].succeeded
                /\ x.kind = IF x.todo = <<>> /\ deployment[d].kind # "canary" THEN "success"
                            ELSE deployment[d].kind
<1> DEFINE y == deployment[d]
           left == Tail(y.todo)
           done == IF ok THEN y.succeeded \cup {Head(y.todo)} ELSE y.succeeded
           kind == IF left = <<>> /\ y.kind # "canary" THEN "success" ELSE y.kind
           x == [y EXCEPT !.todo = left, !.succeeded = done, !.kind = kind]
<1>1. y \in Rollouts /\ left \in Seq(Nat) /\ done \in SUBSET Nat /\ kind \in Strategies \cup {"success"}
  BY DEF GoesOn, Rollouts
<1>2. deployment' = [deployment EXCEPT ![d] = x]
  BY DEF Global!Advances, RolloutInv
<1>3. (left = <<>> /\ y.kind # "canary" => kind = "success") /\ (kind # "success" => kind = y.kind)
  OBVIOUS
<1>4. y.kind \in Strategies /\ y.strategy = y.kind
  BY DEF GoesOn
<1> HIDE DEF y, left, done, kind
<1>5. /\ x \in Rollouts /\ x.id = y.id /\ x.strategy = y.strategy /\ x.todo = left
      /\ x.succeeded = done /\ x.kind = kind
  BY <1>1 DEF Rollouts
<1>6. GoesOn(x)
  BY <1>3, <1>4, <1>5 DEF GoesOn, Strategies
<1> HIDE DEF x
<1> QED BY <1>2, <1>5, <1>6 DEF y, left, done, kind

LEMMA RolloutStarts ==
  ASSUME RolloutNames, RolloutInv, NEW d \in Deployments, NEW strategy \in Strategies,
         NEW regions \in Targets, Global!deploy_new_version(d, strategy, regions)
  PROVE  RolloutInv'
<1>1. PICK id \in {d} \cup {deployment[o].id : o \in {o \in Deployments : Global!Running(o)}} :
        /\ deployment' = [deployment EXCEPT ![d] =
                            [kind |-> strategy, id |-> id, regions |-> regions, todo |-> regions,
                             round |-> 1, strategy |-> strategy, succeeded |-> {}]]
        /\ deployed' = IF strategy = "rolling" THEN Global!Marked("deploying", id, Head(regions))
                       ELSE deployed
  BY DEF Global!deploy_new_version
<1> DEFINE x == [kind |-> strategy, id |-> id, regions |-> regions, todo |-> regions,
                 round |-> 1, strategy |-> strategy, succeeded |-> {}]
<1>2. id \in Deployments
  <2>1. CASE id = d
    BY <2>1
  <2>2. ASSUME NEW o \in Deployments, Global!Running(o), id = deployment[o].id PROVE id \in Deployments
    <3>1. deployment[o] # Global!Idle
      BY <2>2 DEF Global!Running, Global!Idle, RolloutNames, Strategies
    <3> QED BY <2>2, <3>1 DEF RolloutInv, GoesOn, Rollouts
  <2> QED BY <1>1, <2>1, <2>2
<1>3. GoesOn(x) /\ x.id = id /\ x.kind = strategy /\ x.todo = regions /\ x.succeeded = {}
  BY <1>2 DEF GoesOn, Rollouts, RolloutNames, Strategies
<1>4. \A mark : ~IsAt(deployment[d], mark)
  BY DEF Global!deploy_new_version, Global!Idle, IsAt, RolloutNames, Strategies
<1> HIDE DEF x
<1>5. CASE strategy = "rolling"
  <2>1. deployed' = {mark \in deployed : <<mark[2], mark[3]>> # <<id, Head(regions)>>}
                    \cup {<<"deploying", id, Head(regions)>>}
    BY <1>1, <1>5 DEF Global!Marked
  <2>2. \A mark \in deployed' : mark = <<"deploying", id, Head(regions)>> \/ mark \in deployed
    BY <2>1
  <2>3. IsAt(x, <<"deploying", id, Head(regions)>>)
    BY <1>3, <1>5 DEF IsAt
  <2>4. \A s \in Strategies, n \in Deployments : \A r : Stands(deployed, s, n, r) => Stands(deployed', s, n, r)
    BY <1>2, <2>1, StandsOn
  <2> QED BY <1>1, <1>3, <1>4, <2>2, <2>3, <2>4, OneRollout DEF x
<1>6. CASE strategy # "rolling"
  <2>1. deployed' = deployed
    BY <1>1, <1>6
  <2> QED BY <1>1, <1>3, <1>4, <2>1, OneRollout DEF x
<1> QED BY <1>5, <1>6

LEMMA RegionTurnsGreen ==
  ASSUME RolloutNames, RolloutInv, NEW d \in Deployments, Global!SwitchesToGreen(d)
  PROVE  RolloutInv'
<1>1. deployment[d].kind = "blue_green" /\ deployment[d] # Global!Idle /\ GoesOn(deployment[d])
  BY DEF Global!SwitchesToGreen, Global!Idle, RolloutNames, RolloutInv, Strategies
<1>2. deployment[d].todo # <<>> /\ deployment[d].strategy = "blue_green"
      /\ deployment[d].id \in Deployments
  BY <1>1 DEF GoesOn, Rollouts, Strategies
<1>3. \A mark : ~IsAt(deployment[d], mark)
  BY <1>1 DEF IsAt
<1> DEFINE p == Head(deployment[d].todo)
<1>4. ASSUME NEW ok \in BOOLEAN, Global!Advances(d, ok),
             deployed' = IF ok THEN Global!Marked("green", None, p) ELSE deployed
      PROVE  RolloutInv'
  <2>1. PICK x : /\ deployment' = [deployment EXCEPT ![d] = x] /\ GoesOn(x)
                 /\ x.id = deployment[d].id /\ x.strategy = "blue_green"
                 /\ x.succeeded = IF ok THEN deployment[d].succeeded \cup {p}
                                  ELSE deployment[d].succeeded
    <3>1. deployment[d].kind \in Strategies
      BY <1>1 DEF Strategies
    <3> HIDE DEF p
    <3>2. PICK x : /\ deployment' = [deployment EXCEPT ![d] = x] /\ GoesOn(x)
                   /\ x.id = deployment[d].id /\ x.strategy = deployment[d].strategy
                   /\ x.succeeded = IF ok THEN deployment[d].succeeded \cup {Head(deployment[d].todo)}
                                    ELSE deployment[d].succeeded
      BY <1>1, <1>2, <1>4, <3>1, OneRegionDone
    <3> QED BY <1>2, <3>2 DEF p
  <2>2. \A r \in deployment[d].succeeded : Stands(deployed, "blue_green", deployment[d].id, r)
    BY <1>1, <1>2 DEF RolloutInv
  <2>3. CASE ok
    <3>1. deployed' = {mark \in deployed : <<mark[2], mark[3]>> # <<None, p>>}
                      \cup {<<"green", None, p>>}
      BY <1>4, <2>3 DEF Global!Marked
    <3>2. \A s \in Strategies, n \in Deployments : \A r : Stands(deployed, s, n, r) => Stands(deployed', s, n, r)
      <4> DEFINE q == Head(deployment[d].todo)
      <4>1. deployed' = {mark \in deployed : <<mark[2], mark[3]>> # <<None, q>>} \cup {<<"green", None, q>>}
        BY <3>1
      <4> HIDE DEF q
      <4> QED BY <4>1, StandsOn, Zenon
    <3>3. \A mark \in deployed' : mark = <<"green", None, p>> \/ mark \in deployed
      BY <3>1
    <3>4. <<"green", None, p>>[1] = "green" /\ "green" # "deploying"
      OBVIOUS
    <3>5. Stands(deployed', "blue_green", x.id, p)
      BY <3>1 DEF Stands
    <3>6. \A r \in x.succeeded : Stands(deployed', x.strategy, x.id, r)
      BY <1>2, <2>1, <2>2, <2>3, <3>2, <3>5 DEF Strategies
    <3> QED BY <1>3, <2>1, <3>2, <3>3, <3>4, <3>6, OneRollout
  <2>4. CASE ~ok
    <3>1. deployed' = deployed
      BY <1>4, <2>4
    <3>2. \A r \in x.succeeded : Stands(deployed', x.strategy, x.id, r)
      BY <2>1, <2>2, <2>4, <3>1
    <3> QED BY <1>3, <2>1, <3>1, <3>2, OneRollout
  <2> QED BY <2>3, <2>4
<1>5. ASSUME deployment' = [deployment EXCEPT ![d].kind = "raised"], deployed' = deployed
      PROVE  RolloutInv'
  <2> DEFINE y == deployment[d]  x == [y EXCEPT !.kind = "raised"]
  <2>1. deployment' = [deployment EXCEPT ![d] = x]
    BY <1>5 DEF RolloutInv
  <2>2. y \in Rollouts
    BY <1>1 DEF GoesOn
  <2>3. \A r \in y.succeeded : Stands(deployed, y.strategy, y.id, r)
    BY <1>1 DEF RolloutInv
  <2> HIDE DEF y
  <2>4. x \in Rollouts /\ x.kind = "raised" /\ x.id = y.id /\ x.strategy = y.strategy
        /\ x.succeeded = y.succeeded
    BY <2>2 DEF Rollouts
  <2>5. GoesOn(x)
    BY <2>4 DEF GoesOn, Strategies
  <2> HIDE DEF x
  <2> QED BY <1>3, <1>5, <2>1, <2>3, <2>4, <2>5, OneRollout DEF y
<1> QED BY <1>4, <1>5 DEF Global!SwitchesToGreen

LEMMA RegionRollsOut ==
  ASSUME RolloutNames, RolloutInv, NEW d \in Deployments, Global!RollsOut(d)
  PROVE  RolloutInv'
<1>1. deployment[d].kind = "rolling" /\ deployment[d] # Global!Idle /\ GoesOn(deployment[d])
      /\ Global!Advances(d, TRUE)
  <2>1. deployment[d].kind = "rolling" /\ Global!Advances(d, TRUE)
    BY DEF Global!RollsOut
  <2>2. deployment[d] # Global!Idle
    BY <2>1 DEF Global!Idle, RolloutNames, Strategies
  <2> QED BY <2>1, <2>2 DEF RolloutInv
<1>2. deployment[d].todo # <<>> /\ deployment[d].strategy = "rolling"
      /\ deployment[d].id \in Deployments
  BY <1>1 DEF GoesOn, Rollouts, Strategies
<1> DEFINE id == deployment[d].id
           p == Head(deployment[d].todo)
           next == Tail(deployment[d].todo)
           now == Global!Marked("deployed", id, p)
<1>3. PICK x : /\ deployment' = [deployment EXCEPT ![d] = x] /\ GoesOn(x)
               /\ x.id = id /\ x.strategy = "rolling" /\ x.todo = next
               /\ x.succeeded = deployment[d].succeeded \cup {p}
               /\ x.kind = IF next = <<>> THEN "success" ELSE "rolling"
  <2>1. deployment[d].kind \in Strategies
    BY <1>1 DEF Strategies
  <2>2. PICK x : /\ deployment' = [deployment EXCEPT ![d] = x] /\ GoesOn(x)
                 /\ x.id = deployment[d].id /\ x.strategy = deployment[d].strategy
                 /\ x.todo = Tail(deployment[d].todo)
                 /\ x.succeeded = deployment[d].succeeded \cup {Head(deployment[d].todo)}
                 /\ x.kind = IF x.todo = <<>> /\ deployment[d].kind # "canary" THEN "success"
                             ELSE deployment[d].kind
    BY <1>1, <1>2, <2>1, OneRegionDone
  <2>3. x.kind = IF x.todo = <<>> THEN "success" ELSE "rolling"
    BY <1>1, <2>2
  <2> QED BY <1>2, <2>2, <2>3
<1>4. deployed' = IF next = <<>> THEN now
                  ELSE {mark \in now : <<mark[2], mark[3]>> # <<id, Head(next)>>}
                       \cup {<<"deploying", id, Head(next)>>}
  BY DEF Global!RollsOut
<1>5. now = {mark \in deployed : <<mark[2], mark[3]>> # <<id, p>>} \cup {<<"deployed", id, p>>}
  BY DEF Global!Marked
<1>6. \A mark : IsAt(deployment[d], mark) => mark[2] = id /\ mark[3] = p
  BY DEF IsAt
<1>7. id \in Deployments
  BY <1>2
<1>8. \A r \in deployment[d].succeeded : Stands(deployed, "rolling", id, r)
  BY <1>1, <1>2 DEF RolloutInv
<1> HIDE DEF id, p, next, now
<1>9. \A s \in Strategies, n \in Deployments : \A r : Stands(deployed, s, n, r) => Stands(now, s, n, r)
  BY <1>5, <1>7, StandsOn
<1>10. Stands(now, "rolling", id, p)
  BY <1>5 DEF Stands
<1>11. \A mark \in now : mark[1] = "deploying" => mark \in deployed /\ ~IsAt(deployment[d], mark)
  <2>1. \A mark \in now : \/ mark = <<"deployed", id, p>>
                          \/ mark \in deployed /\ (mark[2] # id \/ mark[3] # p)
    BY <1>5, MarkIsPut
  <2>2. <<"deployed", id, p>>[1] = "deployed" /\ "deployed" # "deploying"
    OBVIOUS
  <2> QED BY <1>6, <2>1, <2>2
<1>12. /\ \A s \in Strategies, n \in Deployments : \A r : Stands(now, s, n, r) => Stands(deployed', s, n, r)
       /\ \A mark \in deployed' : mark[1] = "deploying" => mark \in now \/ IsAt(x, mark)
  <2>1. CASE next = <<>>
    BY <1>4, <2>1
  <2>2. CASE next # <<>>
    <3>1. deployed' = {mark \in now : <<mark[2], mark[3]>> # <<id, Head(next)>>}
                      \cup {<<"deploying", id, Head(next)>>}
      BY <1>4, <2>2
    <3>2. \A s \in Strategies, n \in Deployments : \A r : Stands(now, s, n, r) => Stands(deployed', s, n, r)
      BY <1>7, <3>1, StandsOn
    <3>3. IsAt(x, <<"deploying", id, Head(next)>>)
      BY <1>3, <2>2 DEF IsAt
    <3>4. \A mark \in deployed' : mark = <<"deploying", id, Head(next)>> \/ mark \in now
      BY <3>1
    <3> QED BY <3>2, <3>3, <3>4
  <2> QED BY <2>1, <2>2
<1>13. \A r \in x.succeeded : Stands(deployed', x.strategy, x.id, r)
  <2>1. "rolling" \in Strategies
    BY DEF Strategies
  <2> QED BY <1>3, <1>7, <1>8, <1>9, <1>10, <1>12, <2>1
<1>14. \A mark \in deployed' : mark[1] = "deploying" =>
         \/ IsAt(x, mark)
         \/ mark \in deployed /\ ~IsAt(deployment[d], mark)
  BY <1>11, <1>12
<1>15. \A s \in Strategies, n \in Deployments : \A r : Stands(deployed, s, n, r) => Stands(deployed', s, n, r)
  BY <1>9, <1>12
<1> QED BY <1>3, <1>13, <1>14, <1>15, OneRollout

LEMMA CanaryShifts ==
  ASSUME RolloutNames, RolloutInv, NEW d \in Deployments, Global!Shifts(d)
  PROVE  RolloutInv'
<1>1. deployment[d].kind = "canary" /\ deployment[d] # Global!Idle /\ GoesOn(deployment[d])
  BY DEF Global!Shifts, Global!Idle, RolloutNames, RolloutInv, Strategies
<1>2. deployment[d].strategy = "canary" /\ deployment[d].id \in Deployments
  BY <1>1 DEF GoesOn, Rollouts, Strategies
<1>3. \A mark : ~IsAt(deployment[d], mark)
  BY <1>1 DEF IsAt
<1>4. \A r \in deployment[d].succeeded : Stands(deployed, "canary", deployment[d].id, r)
  BY <1>1, <1>2 DEF RolloutInv
<1> DEFINE p == Head(deployment[d].todo)
<1>5. CASE deployment[d].todo # <<>> /\ Global!Advances(d, TRUE)
           /\ deployed' = Global!Marked("active", 0, p)
  <2>1. PICK x : /\ deployment' = [deployment EXCEPT ![d] = x] /\ GoesOn(x)
                 /\ x.id = deployment[d].id /\ x.strategy = "canary"
                 /\ x.succeeded = deployment[d].succeeded \cup {p}
    BY <1>1, <1>2, <1>5, OneRegionDone DEF Strategies
  <2>2. deployed' = {mark \in deployed : <<mark[2], mark[3]>> # <<0, p>>} \cup {<<"active", 0, p>>}
    BY <1>5 DEF Global!Marked
  <2>3. \A s \in Strategies, n \in Deployments : \A r : Stands(deployed, s, n, r) => Stands(deployed', s, n, r)
    <3> DEFINE q == Head(deployment[d].todo)
    <3>1. deployed' = {mark \in deployed : <<mark[2], mark[3]>> # <<0, q>>} \cup {<<"active", 0, q>>}
      BY <2>2
    <3> HIDE DEF q
    <3> QED BY <3>1, StandsOn, Zenon
  <2>4. \A mark \in deployed' : mark = <<"active", 0, p>> \/ mark \in deployed
    BY <2>2
  <2>5. <<"active", 0, p>>[1] = "active" /\ "active" # "deploying"
    OBVIOUS
  <2>6. Stands(deployed', "canary", x.id, p)
    BY <2>2 DEF Stands
  <2>7. \A r \in x.succeeded : Stands(deployed', x.strategy, x.id, r)
    BY <1>2, <1>4, <2>1, <2>3, <2>6 DEF Strategies
  <2> QED BY <1>3, <2>1, <2>3, <2>4, <2>5, <2>7, OneRollout
<1>6. ASSUME deployed' = deployed,
             deployment' = [deployment EXCEPT
               ![d].kind = IF deployment[d].round = Rounds THEN "success" ELSE @,
               ![d].todo = IF deployment[d].round = Rounds THEN @ ELSE deployment[d].regions,
               ![d].round = IF @ = Rounds THEN @ ELSE @ + 1]
      PROVE  RolloutInv'
  <2> DEFINE y == deployment[d]
             kind == IF y.round = Rounds THEN "success" ELSE y.kind
             todo == IF y.round = Rounds THEN y.todo ELSE y.regions
             round == IF y.round = Rounds THEN y.round ELSE y.round + 1
             x == [y EXCEPT !.kind = kind, !.todo = todo, !.round = round]
  <2>1. deployment' = [deployment EXCEPT ![d] = x]
    BY <1>6 DEF RolloutInv
  <2>2. /\ y \in Rollouts /\ kind \in {"canary", "success"} /\ y.strategy = "canary"
        /\ todo \in Seq(Nat) /\ round \in Nat
    BY <1>1, <1>2 DEF GoesOn, Rollouts
  <2>3. \A r \in y.succeeded : Stands(deployed, y.strategy, y.id, r)
    BY <1>2, <1>4
  <2> HIDE DEF y, kind, todo, round
  <2>4. x \in Rollouts /\ x.kind = kind /\ x.id = y.id /\ x.strategy = y.strategy
        /\ x.succeeded = y.succeeded
    BY <2>2 DEF Rollouts, Strategies
  <2>5. GoesOn(x)
    BY <2>2, <2>4 DEF GoesOn, Strategies
  <2> HIDE DEF x
  <2> QED BY <1>3, <1>6, <2>1, <2>3, <2>4, <2>5, OneRollout DEF y
<1> QED BY <1>5, <1>6 DEF Global!Shifts

LEMMA RolloutStep ==
  ASSUME RolloutNames, RolloutInv, [Global!Next]_Global!vars
  PROVE  RolloutInv'
<1>1. CASE Global!Deploying
  BY <1>1, RolloutStarts, RegionTurnsGreen, RegionRollsOut, CanaryShifts DEF Global!Deploying, Strategies
<1>2. ASSUME UNCHANGED <<deployment, deployed>> PROVE RolloutInv'
  BY <1>2 DEF RolloutInv, IsAt
<1>3. CASE Global!Loop \/ (\E r \in Regions : Global!Changes(r) \/ Global!Measured(r))
           \/ Global!Experimenting \/ UNCHANGED Global!vars
  BY <1>2, <1>3 DEF Global!Loop, Global!WakesUp, Global!Responds, Global!Checked, Global!Changes,
     Global!Measured, Global!Experimenting, Global!Restores, Global!Cancelled, Global!_simulate_stress,
     Global!Samples, Global!_analyze_experiment_results, Global!_simulate_region_failure,
     Global!_simulate_network_latency, Global!rollout, Global!vars
<1> QED BY <1>1, <1>3 DEF Global!Next

(* infrastructure/global_routing.py: however many deployments run beside one    *)
(* another, and though two that start in a second share their marks, one that   *)
(* ends well leaves every region it reports as it says once none of its second  *)
(* runs, and where one is marked as at work, one is.                            *)
THEOREM RolloutsEndWhole ==
  ASSUME RolloutNames
  PROVE  Global!Spec => []Global!DeploymentsEndWhole
<1>1. Global!Init => RolloutInv
  BY RolloutInit
<1>2. RolloutInv /\ [Global!Next]_Global!vars => RolloutInv'
  BY RolloutStep
<1>3. RolloutInv => Global!DeploymentsEndWhole
  <2> SUFFICES ASSUME RolloutInv PROVE Global!DeploymentsEndWhole
    OBVIOUS
  <2>1. \A mark \in deployed : mark[1] = "deploying" =>
          \E d \in Deployments : deployment[d].kind = "rolling" /\ deployment[d].id = mark[2]
    BY DEF RolloutInv, IsAt
  <2>2. ASSUME NEW d \in Deployments, deployment[d].kind = "success",
               \A o \in Deployments : Global!Running(o) => deployment[o].id # deployment[d].id,
               NEW r \in deployment[d].succeeded
        PROVE  CASE deployment[d].strategy = "rolling" -> <<"deployed", deployment[d].id, r>> \in deployed
                 [] deployment[d].strategy = "canary" -> <<"active", 0, r>> \in deployed
                 [] OTHER -> <<"green", None, r>> \in deployed
    <3>1. Stands(deployed, deployment[d].strategy, deployment[d].id, r)
      BY <2>2 DEF RolloutInv, Global!Idle, RolloutNames
    <3>2. <<"deploying", deployment[d].id, r>> \notin deployed
      <4> DEFINE mark == <<"deploying", deployment[d].id, r>>
      <4>1. mark[1] = "deploying" /\ mark[2] = deployment[d].id
        OBVIOUS
      <4> HIDE DEF mark
      <4>2. mark \notin deployed
        BY <2>1, <2>2, <4>1 DEF Global!Running
      <4> QED BY <4>2 DEF mark
    <3> QED BY <3>1, <3>2 DEF Stands
  <2> QED BY <2>1, <2>2 DEF Global!DeploymentsEndWhole
<1> QED BY <1>1, <1>2, <1>3, PTL DEF Global!Spec

-----------------------------------------------------------------------------
CONSTANTS Requests, Large, Asked, Cleared, Lower, Within, Score, Threshold,
          MaxCandidates, MaxIndex, Dropped
VARIABLES data, meta, storing, clear, disturbed

Cached == INSTANCE CacheKeys

Wanted == {Requests[n] : n \in DOMAIN Requests}
Storing == [q : Wanted, stored : BOOLEAN]
Noted == [key : Cached!Keys,
          content : {Cached!_extract_message_content(q.messages) : q \in Wanted}]

Clears == [phase : {"scan", "delete", "done"}, model : {c[1] : c \in Cleared},
           user : {c[2] : c \in Cleared}, page : SUBSET Cached!Raws, left : SUBSET Cached!Raws,
           stood : SUBSET Cached!Keys, strays : SUBSET Cached!Keys]

KeyNumbers == MaxIndex \in Nat /\ Dropped \in 1..MaxIndex /\ None \notin Storing

KeyTypes ==
  /\ data \subseteq Cached!Keys /\ meta \subseteq Cached!Keys /\ disturbed \subseteq Cached!Keys
  /\ index \in Seq(Noted) /\ Len(index) <= MaxIndex
  /\ storing \in Storing \cup {None}
  /\ clear \in Clears \cup {[phase |-> "idle"]}

(* A clear is for a model or a user, and what it has found is theirs.       *)
FoundIsTheirs ==
  clear.phase # "idle" =>
    /\ clear.model # None \/ clear.user # None
    /\ clear.phase = "scan" => clear.page = {}
    /\ \A raw \in clear.page : raw \in Cached!Raws /\ raw[1] \in Cached!AskedFor(clear.model, clear.user)

(* What stood there when the clear began is found or still to be found.     *)
Clearing == clear.phase \in {"scan", "delete"}
StoodIsFound ==
  Clearing =>
    /\ clear.stood \subseteq Cached!AskedFor(clear.model, clear.user)
    /\ \A k \in clear.stood \cap data :
         k.user # None => <<k, "data">> \in clear.left \cup clear.page

(* What a clear is to take and was not stored beside it stood there; it may *)
(* be without its metadata only if the clear is to take the rest.           *)
BesideIsDisturbed ==
  Clearing => \A k \in (data \cap Cached!LargeKeys) \ disturbed :
    /\ k \in Cached!AskedFor(clear.model, clear.user) => k \in clear.stood
    /\ k \notin meta /\ ~(Cached!InFlight /\ Cached!generate_key(storing.q) = k) =>
         k.user = None \/ k \in Cached!AskedFor(clear.model, clear.user)

KeyInv ==
  /\ KeyTypes /\ FoundIsTheirs /\ StoodIsFound /\ BesideIsDisturbed
  /\ Cached!IndexHolds /\ Cached!ClearTakesItsOwn
  /\ Cached!ClearedAreGone /\ Cached!UnreadableForCause

-----------------------------------------------------------------------------
(* One more at the end of a sequence. *)
LEMMA OneMore ==
  ASSUME NEW S, NEW s \in Seq(S), NEW x \in S
  PROVE  /\ s \o <<x>> \in Seq(S) /\ s \o <<>> = s
         /\ Len(s) = 1 => Len(s \o <<x>>) = 2 /\ (s \o <<x>>)[1] = s[1] /\ (s \o <<x>>)[2] = x
         /\ Len(s) = 2 => /\ Len(s \o <<x>>) = 3 /\ (s \o <<x>>)[1] = s[1] /\ (s \o <<x>>)[2] = s[2]
                          /\ (s \o <<x>>)[3] = x
         /\ Len(s) = 3 => /\ Len(s \o <<x>>) = 4 /\ (s \o <<x>>)[1] = s[1] /\ (s \o <<x>>)[2] = s[2]
                          /\ (s \o <<x>>)[3] = s[3]
<1>1. <<x>> \in Seq(S) /\ Len(<<x>>) = 1 /\ <<x>>[1] = x
  OBVIOUS
<1> DEFINE t == s \o <<x>>
<1>2. /\ t \in Seq(S) /\ Len(t) = Len(s) + 1 /\ t[Len(s) + 1] = x
      /\ \A i \in 1..Len(s) : t[i] = s[i]
  BY <1>1
<1>3. s \o <<>> = s
  OBVIOUS
<1> HIDE DEF t
<1>4. Len(s) = 1 => Len(t) = 2 /\ t[1] = s[1] /\ t[2] = x
  BY <1>2
<1>5. Len(s) = 2 => Len(t) = 3 /\ t[1] = s[1] /\ t[2] = s[2] /\ t[3] = x
  BY <1>2
<1>6. Len(s) = 3 => Len(t) = 4 /\ t[1] = s[1] /\ t[2] = s[2] /\ t[3] = s[3]
  BY <1>2
<1> QED BY <1>2, <1>3, <1>4, <1>5, <1>6 DEF t

(* The parts of a key, with a user and without, and of its metadata.        *)
LEMMA PartsOfKey ==
  ASSUME NEW x, NEW y, NEW z, NEW w
  PROVE  /\ LET s == <<x>> \o <<>> \o <<z>> \o <<>> IN DOMAIN s = 1..2 /\ Len(s) = 2 /\ s[1] = x /\ s[2] = z
         /\ LET s == <<x>> \o <<>> \o <<z>> \o <<w>> IN DOMAIN s = 1..3 /\ Len(s) = 3 /\ s[1] = x /\ s[2] = z
         /\ LET s == <<x>> \o <<y>> \o <<z>> \o <<>> IN
              DOMAIN s = 1..3 /\ Len(s) = 3 /\ s[1] = x /\ s[2] = y /\ s[3] = z
         /\ LET s == <<x>> \o <<y>> \o <<z>> \o <<w>> IN
              DOMAIN s = 1..4 /\ Len(s) = 4 /\ s[1] = x /\ s[2] = y /\ s[3] = z
<1> DEFINE S == {x, y, z, w}
           first == <<x>>
           named == first \o <<y>>
           bare == first \o <<z>>
           full == named \o <<z>>
<1>1. first \in Seq(S) /\ Len(first) = 1 /\ first[1] = x
  OBVIOUS
<1>2. x \in S /\ y \in S /\ z \in S /\ w \in S
  OBVIOUS
<1> HIDE DEF first, S
<1>3. named \in Seq(S) /\ Len(named) = 2 /\ named[1] = x /\ named[2] = y
  BY <1>1, <1>2, OneMore
<1>4. bare \in Seq(S) /\ Len(bare) = 2 /\ bare[1] = x /\ bare[2] = z /\ first \o <<>> = first
  BY <1>1, <1>2, OneMore
<1> HIDE DEF named
<1>5. full \in Seq(S) /\ Len(full) = 3 /\ full[1] = x /\ full[2] = y /\ full[3] = z
  BY <1>2, <1>3, OneMore
<1> HIDE DEF bare, full
<1>6. LET s == bare \o <<w>> IN s \in Seq(S) /\ Len(s) = 3 /\ s[1] = x /\ s[2] = z /\ bare \o <<>> = bare
  BY <1>2, <1>4, OneMore
<1>7. LET s == full \o <<w>> IN
        s \in Seq(S) /\ Len(s) = 4 /\ s[1] = x /\ s[2] = y /\ s[3] = z /\ full \o <<>> = full
  BY <1>2, <1>5, OneMore
<1>8. \A s \in Seq(S) : DOMAIN s = 1..Len(s)
  OBVIOUS
<1> QED BY <1>4, <1>5, <1>6, <1>7, <1>8 DEF first, named, bare, full, S

(* A pattern finds what it is meant for: an entry with a user, and nothing  *)
(* of another model or user.                                                *)
LEMMA PatternFinds ==
  ASSUME NEW model, NEW owner, model # None \/ owner # None,
         NEW k \in Cached!Keys, NEW what \in {"data", "meta"}
  PROVE  /\ Cached!Matches(Cached!generate_pattern(model, owner), <<k, what>>) =>
              k \in Cached!AskedFor(model, owner)
         /\ k \in Cached!AskedFor(model, owner) /\ k.user # None /\ what = "data" =>
              Cached!Matches(Cached!generate_pattern(model, owner), <<k, what>>)
<1> DEFINE parts == Cached!Parts(<<k, what>>)
           name == k.model
           of == k.user
           fits(asked, from, to) == asked = None \/ (from = to /\ parts[from] = asked)
<1>1. parts = <<name>> \o (IF of = None THEN <<>> ELSE <<of>>) \o <<None>>
                \o (IF what = "meta" THEN <<"meta">> ELSE <<>>)
  BY DEF Cached!Parts
<1>2. Cached!Matches(Cached!generate_pattern(model, owner), <<k, what>>) <=>
        \E m \in DOMAIN parts : \E n \in m + 1..Len(parts) - 1 :
          fits(model, 1, m) /\ fits(owner, m + 1, n)
  BY DEF Cached!Matches, Cached!generate_pattern
<1>3. k \in Cached!AskedFor(model, owner) <=>
        (model = None \/ name = model) /\ (owner = None \/ of = owner)
  BY DEF Cached!AskedFor
<1> HIDE DEF parts, name, of
<1>5. CASE of = None
  <2>1. /\ what = "meta" => parts = <<name>> \o <<>> \o <<None>> \o <<"meta">>
        /\ what = "data" => parts = <<name>> \o <<>> \o <<None>> \o <<>>
    BY <1>1, <1>5
  <2>2. /\ \E l \in {2, 3} : DOMAIN parts = 1..l /\ Len(parts) = l
        /\ parts[1] = name /\ parts[2] = None
    <3>1. CASE what = "meta" BY <2>1, <3>1, PartsOfKey
    <3>2. CASE what = "data" BY <2>1, <3>2, PartsOfKey
    <3> QED BY <3>1, <3>2
  <2>3. ASSUME NEW m \in DOMAIN parts, NEW n \in m + 1..Len(parts) - 1,
               fits(model, 1, m), fits(owner, m + 1, n)
        PROVE  (model = None \/ name = model) /\ (owner = None \/ of = owner)
    <3>1. m = 1 /\ n = 2
      BY <2>2, <2>3
    <3> QED BY <1>5, <2>2, <2>3, <3>1
  <2> QED BY <1>2, <1>3, <1>5, <2>3 DEF of
<1>6. CASE of # None
  <2>0. /\ what = "meta" => parts = <<name>> \o <<of>> \o <<None>> \o <<"meta">>
        /\ what = "data" => parts = <<name>> \o <<of>> \o <<None>> \o <<>>
    BY <1>1, <1>6
  <2>1. /\ \E l \in {3, 4} : DOMAIN parts = 1..l /\ Len(parts) = l
        /\ parts[1] = name /\ parts[2] = of /\ parts[3] = None
    <3>1. CASE what = "meta" BY <2>0, <3>1, PartsOfKey
    <3>2. CASE what = "data" BY <2>0, <3>2, PartsOfKey
    <3> QED BY <3>1, <3>2
  <2>2. ASSUME NEW m \in DOMAIN parts, NEW n \in m + 1..Len(parts) - 1,
               fits(model, 1, m), fits(owner, m + 1, n)
        PROVE  (model = None \/ name = model) /\ (owner = None \/ of = owner)
    <3>1. m \in 1..4 /\ n \in {2, 3}
      BY <2>1, <2>2
    <3> QED BY <1>6, <2>1, <2>2, <3>1
  <2>3. ASSUME model = None \/ name = model, owner = None \/ of = owner, what = "data"
        PROVE  \E m \in DOMAIN parts : \E n \in m + 1..Len(parts) - 1 :
                 fits(model, 1, m) /\ fits(owner, m + 1, n)
    <3>1. 1 \in DOMAIN parts /\ 2 \in 1 + 1..Len(parts) - 1
      BY <2>1, <2>3
    <3>2. fits(model, 1, 1) /\ fits(owner, 1 + 1, 2)
      BY <2>1, <2>3
    <3> QED BY <3>1, <3>2
  <2> QED BY <1>2, <1>3, <1>6, <2>2, <2>3 DEF of
<1> QED BY <1>5, <1>6

(* A new entry, or one that takes the place of its key, is in the index.    *)
LEMMA IndexTakes ==
  ASSUME KeyNumbers, index \in Seq(Noted), Len(index) <= MaxIndex,
         NEW k \in Cached!Keys, NEW q \in Wanted
  PROVE  LET new == Cached!add_to_similarity_index(k, q.messages) IN
           new \in Seq(Noted) /\ Len(new) <= MaxIndex /\ \E n \in DOMAIN new : new[n].key = k
<1> DEFINE entry == [key |-> k, content |-> Cached!_extract_message_content(q.messages)]
           new == Cached!add_to_similarity_index(k, q.messages)
           longer == Append(index, entry)
<1>1. entry \in Noted
  BY DEF Noted
<1>2. CASE Cached!Indexed(k)
  <2>1. new = [n \in DOMAIN index |-> IF index[n].key = k THEN entry ELSE index[n]]
    BY <1>2 DEF Cached!add_to_similarity_index
  <2>2. new \in Seq(Noted) /\ Len(new) = Len(index) /\ DOMAIN new = DOMAIN index
    BY <1>1, <2>1
  <2>3. PICK n \in DOMAIN index : index[n].key = k
    BY <1>2 DEF Cached!Indexed
  <2>4. new[n].key = k
    BY <2>1, <2>3
  <2> QED BY <2>2, <2>3, <2>4
<1>3. CASE ~Cached!Indexed(k)
  <2>1. new = Cached!Trimmed(longer)
    BY <1>3 DEF Cached!add_to_similarity_index
  <2>2. longer \in Seq(Noted) /\ Len(longer) = Len(index) + 1 /\ longer[Len(longer)] = entry
    BY <1>1
  <2> HIDE DEF longer, new, entry
  <2>3. entry.key = k
    BY DEF entry
  <2>4. CASE Len(longer) <= MaxIndex
    <3>1. new = longer /\ Len(longer) \in DOMAIN longer
      BY <2>1, <2>2, <2>4 DEF Cached!Trimmed, KeyNumbers
    <3> QED BY <2>2, <2>3, <2>4, <3>1 DEF new
  <2>5. CASE Len(longer) > MaxIndex
    <3>1. Len(longer) = MaxIndex + 1 /\ Len(longer) \in Nat
      BY <2>2, <2>5 DEF KeyNumbers
    <3>2. new = SubSeq(longer, Dropped + 1, Len(longer))
      BY <2>1, <2>5 DEF Cached!Trimmed
    <3>3. /\ new \in Seq(Noted) /\ Len(new) = MaxIndex + 1 - Dropped
          /\ new[MaxIndex + 1 - Dropped] = longer[Len(longer)]
      BY <2>2, <3>1, <3>2 DEF KeyNumbers
    <3>4. MaxIndex + 1 - Dropped \in DOMAIN new /\ MaxIndex + 1 - Dropped <= MaxIndex
      BY <3>3 DEF KeyNumbers
    <3> QED BY <2>2, <2>3, <3>3, <3>4 DEF new
  <2> QED BY <2>2, <2>4, <2>5 DEF KeyNumbers
<1> QED BY <1>2, <1>3

-----------------------------------------------------------------------------
LEMMA KeysOfRequests ==
  ASSUME NEW q \in Wanted
  PROVE  Cached!generate_key(q) \in Cached!Keys
BY DEF Wanted, Cached!Keys

LEMMA KeyInit ==
  ASSUME KeyNumbers, Cached!Init
  PROVE  KeyInv
<1>1. clear = [phase |-> "idle"] /\ clear.phase = "idle"
  BY DEF Cached!Init, Cached!Idle
<1>2. index = <<>> /\ index \in Seq(Noted) /\ Len(index) = 0
  BY DEF Cached!Init
<1>3. data = {} /\ meta = {} /\ disturbed = {} /\ storing = None
  BY DEF Cached!Init
<1> QED BY <1>1, <1>2, <1>3 DEF KeyNumbers, KeyInv, KeyTypes, FoundIsTheirs, StoodIsFound,
          BesideIsDisturbed, Clearing, Cached!IndexHolds, Cached!ClearTakesItsOwn,
          Cached!ClearedAreGone, Cached!UnreadableForCause

(* An answer is stored: nothing of it is in what a clear takes for granted. *)
LEMMA StoresKeeps ==
  ASSUME KeyNumbers, KeyInv, NEW q \in Wanted, Cached!Stores(q)
  PROVE  KeyInv'
<1> DEFINE k == Cached!generate_key(q)
<1>1. /\ ~Cached!InFlight /\ storing' = [q |-> q, stored |-> FALSE]
      /\ data' = data \cup {k} /\ UNCHANGED <<meta, index>>
      /\ disturbed' = IF k \in Cached!LargeKeys /\ clear.phase \in {"scan", "delete"}
                      THEN disturbed \cup {k} ELSE disturbed \ {k}
      /\ clear' = IF clear.phase = "idle" THEN clear ELSE [clear EXCEPT !.stood = @ \ {k}]
  BY DEF Cached!Stores
<1>2. k \in Cached!Keys
  BY KeysOfRequests
<1>3. /\ storing'.q = q /\ storing'.stored = FALSE
      /\ Cached!InFlight' => Cached!generate_key(storing'.q) = k
      /\ Cached!InFlight'
  <2>1. storing' \in Storing /\ storing'.q = q /\ storing'.stored = FALSE
    BY <1>1 DEF Storing
  <2>2. storing' # None
    BY <2>1 DEF KeyNumbers
  <2> QED BY <2>1, <2>2 DEF Cached!InFlight
<1> HIDE DEF k
<1>4. /\ clear'.phase = clear.phase
      /\ clear.phase = "idle" => clear' = clear
      /\ clear.phase # "idle" =>
           /\ clear \in Clears /\ clear' \in Clears
           /\ clear'.model = clear.model /\ clear'.user = clear.user /\ clear'.page = clear.page
           /\ clear'.left = clear.left /\ clear'.strays = clear.strays
           /\ clear'.stood = clear.stood \ {k}
  <2>1. clear \in Clears => clear.phase # "idle"
    BY DEF Clears
  <2>2. CASE clear \in Clears
    BY <1>1, <2>1, <2>2 DEF Clears
  <2>3. CASE clear = [phase |-> "idle"]
    BY <1>1, <2>3
  <2> QED BY <2>2, <2>3 DEF KeyInv, KeyTypes
<1>5. KeyTypes'
  <2>1. clear' \in Clears \cup {[phase |-> "idle"]}
    BY <1>4 DEF KeyInv, KeyTypes
  <2>2. storing' \in Storing
    BY <1>1 DEF Storing
  <2> QED BY <1>1, <1>2, <2>1, <2>2 DEF KeyInv, KeyTypes
<1>6. FoundIsTheirs' /\ StoodIsFound'
  <2>1. FoundIsTheirs'
    BY <1>4 DEF KeyInv, FoundIsTheirs, Cached!AskedFor
  <2>2. StoodIsFound'
    BY <1>1, <1>4 DEF KeyInv, StoodIsFound, Clearing, Cached!AskedFor
  <2> QED BY <2>1, <2>2
<1>7. BesideIsDisturbed'
  <2> SUFFICES ASSUME Clearing', NEW l \in (data' \cap Cached!LargeKeys) \ disturbed'
               PROVE  /\ l \in Cached!AskedFor(clear'.model, clear'.user) => l \in clear'.stood
                      /\ l \notin meta' /\ ~(Cached!InFlight' /\ Cached!generate_key(storing'.q) = l) =>
                           l.user = None \/ l \in Cached!AskedFor(clear'.model, clear'.user)
    BY DEF BesideIsDisturbed
  <2>1. Clearing /\ l # k /\ l \in (data \cap Cached!LargeKeys) \ disturbed
    BY <1>1, <1>4 DEF Clearing
  <2>2. /\ l \in Cached!AskedFor(clear.model, clear.user) => l \in clear.stood
        /\ l \notin meta => l.user = None \/ l \in Cached!AskedFor(clear.model, clear.user)
    BY <1>1, <2>1 DEF KeyInv, BesideIsDisturbed
  <2>3. clear'.model = clear.model /\ clear'.user = clear.user /\ clear'.stood = clear.stood \ {k}
    BY <1>4, <2>1 DEF Clearing
  <2> QED BY <1>1, <2>1, <2>2, <2>3 DEF Cached!AskedFor
<1>8. Cached!IndexHolds'
  BY <1>1, <1>3 DEF KeyInv, Cached!IndexHolds
<1>9. Cached!ClearTakesItsOwn'
  BY <1>4 DEF KeyInv, Cached!ClearTakesItsOwn
<1>10. Cached!ClearedAreGone'
  BY <1>1, <1>4 DEF KeyInv, Cached!ClearedAreGone
<1>11. Cached!UnreadableForCause'
  <2> SUFFICES ASSUME NEW l \in (data' \ meta') \cap Cached!LargeKeys, clear'.phase \in {"idle", "done"}
               PROVE  \/ l.user = None \/ l \in disturbed'
                      \/ Cached!InFlight' /\ Cached!generate_key(storing'.q) = l
    BY DEF Cached!UnreadableForCause
  <2>1. CASE l = k
    BY <1>3, <2>1, <1>1
  <2>2. CASE l # k
    BY <1>1, <1>4, <2>2 DEF KeyInv, Cached!UnreadableForCause
  <2> QED BY <2>1, <2>2
<1> QED BY <1>5, <1>6, <1>7, <1>8, <1>9, <1>10, <1>11 DEF KeyInv

(* Its metadata and its place in the index follow. *)
LEMMA StoredKeeps ==
  ASSUME KeyNumbers, KeyInv, Cached!Stored
  PROVE  KeyInv'
<1> DEFINE q == storing.q
           k == Cached!generate_key(q)
<1>1. /\ Cached!InFlight
      /\ meta' = meta \cup {k} /\ index' = Cached!add_to_similarity_index(k, q.messages)
      /\ storing' = [storing EXCEPT !.stored = TRUE]
      /\ UNCHANGED <<data, clear, disturbed>>
  BY DEF Cached!Stored
<1>2. storing \in Storing /\ q \in Wanted /\ storing' \in Storing /\ storing'.q = q /\ storing'.stored = TRUE
  BY <1>1 DEF KeyInv, KeyTypes, Cached!InFlight, Storing
<1>3. k \in Cached!Keys
  BY <1>2, KeysOfRequests
<1>4. ~Cached!InFlight'
  BY <1>2 DEF Cached!InFlight
<1>5. index' \in Seq(Noted) /\ Len(index') <= MaxIndex /\ \E n \in DOMAIN index' : index'[n].key = k
  BY <1>1, <1>2, <1>3, IndexTakes DEF KeyInv, KeyTypes
<1> HIDE DEF k, q
<1>6. KeyTypes'
  BY <1>1, <1>2, <1>3, <1>5 DEF KeyInv, KeyTypes
<1>7. FoundIsTheirs' /\ StoodIsFound'
  BY <1>1 DEF KeyInv, FoundIsTheirs, StoodIsFound, Clearing, Cached!AskedFor
<1>8. BesideIsDisturbed'
  <2> SUFFICES ASSUME Clearing', NEW l \in (data' \cap Cached!LargeKeys) \ disturbed'
               PROVE  /\ l \in Cached!AskedFor(clear'.model, clear'.user) => l \in clear'.stood
                      /\ l \notin meta' => l.user = None \/ l \in Cached!AskedFor(clear'.model, clear'.user)
    BY DEF BesideIsDisturbed
  <2>1. /\ l \in Cached!AskedFor(clear.model, clear.user) => l \in clear.stood
        /\ l \notin meta /\ ~(Cached!InFlight /\ k = l) =>
             l.user = None \/ l \in Cached!AskedFor(clear.model, clear.user)
    BY <1>1 DEF KeyInv, BesideIsDisturbed, Clearing, k, q
  <2> QED BY <1>1, <2>1
<1>9. Cached!IndexHolds'
  <2>1. Cached!generate_key(storing'.q) = k
    BY <1>2 DEF k
  <2>2. (\E n \in DOMAIN index : index[n].key = Cached!generate_key(storing.q))'
    BY <1>5, <2>1
  <2> QED BY <1>5, <2>2 DEF Cached!IndexHolds, Cached!Indexed
<1>10. Cached!ClearTakesItsOwn' /\ Cached!ClearedAreGone'
  BY <1>1 DEF KeyInv, Cached!ClearTakesItsOwn, Cached!ClearedAreGone
<1>11. Cached!UnreadableForCause'
  BY <1>1, <1>2 DEF KeyInv, Cached!UnreadableForCause, k, q
<1> QED BY <1>6, <1>7, <1>8, <1>9, <1>10, <1>11 DEF KeyInv

(* A clear begins with everything that stands there. *)
LEMMA ClearBegins ==
  ASSUME KeyNumbers, KeyInv, NEW c \in Cleared, Cached!clear_cache(c[1], c[2])
  PROVE  KeyInv'
<1> DEFINE model == c[1]
           owner == c[2]
           p == Cached!generate_pattern(model, owner)
           found == {raw \in Cached!Present : Cached!Matches(p, raw)}
           stood == data \cap Cached!AskedFor(model, owner)
<1>1. clear.phase \in {"idle", "done"} /\ UNCHANGED <<index, storing, disturbed>>
  BY DEF Cached!clear_cache
<1>2. Cached!IndexHolds'
  BY <1>1 DEF KeyInv, Cached!IndexHolds, Cached!Indexed
<1>3. CASE model = None /\ owner = None
  <2>1. clear' = [phase |-> "idle"] /\ data' = {} /\ meta' = {} /\ clear'.phase = "idle"
    BY <1>3 DEF Cached!clear_cache, Cached!Idle
  <2>2. KeyTypes'
    BY <1>1, <2>1 DEF KeyInv, KeyTypes
  <2> QED BY <1>1, <1>2, <2>1, <2>2
          DEF KeyInv, FoundIsTheirs, StoodIsFound, Clearing, BesideIsDisturbed,
              Cached!ClearTakesItsOwn, Cached!ClearedAreGone, Cached!UnreadableForCause
<1>4. CASE model # None \/ owner # None
  <2>1. /\ clear' = [phase |-> "scan", model |-> model, user |-> owner, page |-> {},
                     left |-> found, stood |-> stood, strays |-> {}]
        /\ UNCHANGED <<data, meta>>
    BY <1>4 DEF Cached!clear_cache
  <2>2. found \subseteq Cached!Raws /\ stood \subseteq Cached!Keys
    BY DEF KeyInv, KeyTypes, Cached!Present, Cached!Raws
  <2>3. clear' \in Clears
    BY <2>1, <2>2 DEF Clears
  <2>4. \A k \in stood : k.user # None => <<k, "data">> \in found
    BY <1>4, PatternFinds DEF KeyInv, KeyTypes, Cached!Present
  <2> HIDE DEF found, stood, model, owner, p
  <2>5. /\ clear'.phase = "scan" /\ clear'.model = model /\ clear'.user = owner /\ clear'.page = {}
        /\ clear'.left = found /\ clear'.stood = stood /\ clear'.strays = {}
    BY <2>1
  <2>6. KeyTypes'
    BY <1>1, <2>1, <2>3 DEF KeyInv, KeyTypes
  <2>7. FoundIsTheirs'
    BY <1>4, <2>5 DEF FoundIsTheirs
  <2>8. StoodIsFound'
    BY <2>1, <2>4, <2>5 DEF StoodIsFound, stood, Cached!AskedFor
  <2>9. BesideIsDisturbed'
    <3> SUFFICES ASSUME NEW l \in (data' \cap Cached!LargeKeys) \ disturbed'
                 PROVE  /\ l \in Cached!AskedFor(clear'.model, clear'.user) => l \in clear'.stood
                        /\ l \notin meta' /\ ~(Cached!InFlight' /\ Cached!generate_key(storing'.q) = l) =>
                             l.user = None
      BY DEF BesideIsDisturbed
    <3>1. l \in Cached!AskedFor(clear'.model, clear'.user) => l \in clear'.stood
      BY <2>1, <2>5 DEF stood, Cached!AskedFor
    <3>2. l \notin meta /\ ~(Cached!InFlight /\ Cached!generate_key(storing.q) = l) => l.user = None
      BY <1>1, <2>1 DEF KeyInv, Cached!UnreadableForCause
    <3> QED BY <1>1, <2>1, <3>1, <3>2 DEF Cached!InFlight
  <2> QED BY <1>2, <2>5, <2>6, <2>7, <2>8, <2>9
          DEF KeyInv, Cached!ClearTakesItsOwn, Cached!ClearedAreGone, Cached!UnreadableForCause
<1> QED BY <1>3, <1>4

(* What is listed was to be found, and is what the clear was asked for.      *)
LEMMA ScansKeeps ==
  ASSUME KeyNumbers, KeyInv, Cached!Scans
  PROVE  KeyInv'
<1> DEFINE p == Cached!generate_pattern(clear.model, clear.user)
           there == {raw \in Cached!Present : Cached!Matches(p, raw)}
<1>1. PICK page \in SUBSET there :
        clear' = [clear EXCEPT !.phase = "delete", !.page = page, !.left = @ \ page]
  BY DEF Cached!Scans
<1>2. clear.phase = "scan" /\ UNCHANGED <<data, meta, index, storing, disturbed>>
  BY DEF Cached!Scans
<1>3. clear \in Clears
  BY <1>2 DEF KeyInv, KeyTypes
<1>4. page \subseteq Cached!Raws
  BY DEF KeyInv, KeyTypes, Cached!Present, Cached!Raws
<1>5. \A raw \in page : raw[1] \in Cached!AskedFor(clear.model, clear.user)
  <2> SUFFICES ASSUME NEW raw \in page PROVE raw[1] \in Cached!AskedFor(clear.model, clear.user)
    OBVIOUS
  <2>1. raw[1] \in Cached!Keys /\ raw[2] \in {"data", "meta"} /\ raw = <<raw[1], raw[2]>>
    BY <1>4 DEF Cached!Raws
  <2>2. Cached!Matches(p, <<raw[1], raw[2]>>)
    BY <2>1
  <2>3. clear.model # None \/ clear.user # None
    BY <1>2 DEF KeyInv, FoundIsTheirs
  <2> QED BY <2>1, <2>2, <2>3, PatternFinds
<1> HIDE DEF there, p
<1>6. /\ clear' \in Clears /\ clear'.phase = "delete" /\ clear'.model = clear.model
      /\ clear'.user = clear.user /\ clear'.page = page /\ clear'.left = clear.left \ page
      /\ clear'.stood = clear.stood /\ clear'.strays = clear.strays
  BY <1>1, <1>3, <1>4 DEF Clears
<1>7. KeyTypes'
  BY <1>2, <1>6 DEF KeyInv, KeyTypes
<1>8. FoundIsTheirs'
  BY <1>2, <1>4, <1>5, <1>6 DEF KeyInv, FoundIsTheirs, Cached!AskedFor
<1>9. StoodIsFound'
  <2>1. clear.page = {}
    BY <1>2 DEF KeyInv, FoundIsTheirs
  <2> QED BY <1>2, <1>6, <2>1 DEF KeyInv, StoodIsFound, Clearing, Cached!AskedFor
<1>10. BesideIsDisturbed'
  BY <1>2, <1>6 DEF KeyInv, BesideIsDisturbed, Clearing, Cached!AskedFor, Cached!InFlight
<1>11. Cached!IndexHolds'
  BY <1>2 DEF KeyInv, Cached!IndexHolds, Cached!Indexed
<1>12. Cached!ClearTakesItsOwn' /\ Cached!ClearedAreGone' /\ Cached!UnreadableForCause'
  BY <1>2, <1>6 DEF KeyInv, Cached!ClearTakesItsOwn, Cached!ClearedAreGone, Cached!UnreadableForCause
<1> QED BY <1>7, <1>8, <1>9, <1>10, <1>11, <1>12 DEF KeyInv

(* What is deleted was asked for; what loses its metadata alone is still to *)
(* be found, unless it has no user or was stored meanwhile.                 *)
LEMMA DeletesKeeps ==
  ASSUME KeyNumbers, KeyInv, Cached!Deletes
  PROVE  KeyInv'
<1> DEFINE gone == Cached!Doomed(clear.page)
           phase == IF clear.left \cap Cached!Present = {} THEN "done" ELSE "scan"
           more == {raw[1] : raw \in gone} \ Cached!AskedFor(clear.model, clear.user)
<1>1. /\ clear.phase = "delete" /\ UNCHANGED <<index, storing, disturbed>>
      /\ data' = {k \in data : <<k, "data">> \notin gone}
      /\ meta' = {k \in meta : <<k, "meta">> \notin gone}
      /\ clear' = [clear EXCEPT !.phase = phase, !.page = {}, !.strays = @ \cup more]
  BY DEF Cached!Deletes
<1>2. clear \in Clears
  BY <1>1 DEF KeyInv, KeyTypes
<1>3. \A raw \in clear.page :
        raw = <<raw[1], raw[2]>> /\ raw[1] \in Cached!AskedFor(clear.model, clear.user)
  BY <1>1 DEF KeyInv, FoundIsTheirs, Cached!Raws
<1>4. /\ clear.page \subseteq gone
      /\ \A raw \in gone : raw[1] \in Cached!AskedFor(clear.model, clear.user)
      /\ \A k \in Cached!Keys : <<k, "data">> \in gone => <<k, "data">> \in clear.page
  BY <1>3 DEF Cached!Doomed
<1>5. more = {}
  BY <1>4
<1> HIDE DEF gone, more
<1>6. /\ clear' \in Clears /\ clear'.phase = phase /\ clear'.model = clear.model
      /\ clear'.user = clear.user /\ clear'.page = {} /\ clear'.left = clear.left
      /\ clear'.stood = clear.stood /\ clear'.strays = clear.strays
  BY <1>1, <1>2, <1>5 DEF Clears
<1>7. KeyTypes'
  BY <1>1, <1>6 DEF KeyInv, KeyTypes
<1>8. FoundIsTheirs'
  BY <1>1, <1>6 DEF KeyInv, FoundIsTheirs
<1>9. /\ clear.stood \subseteq Cached!AskedFor(clear.model, clear.user)
      /\ \A k \in clear.stood \cap data' : k.user # None => <<k, "data">> \in clear.left \cap Cached!Present
  BY <1>1, <1>4 DEF KeyInv, StoodIsFound, Clearing, Cached!Present
<1>10. StoodIsFound'
  BY <1>6, <1>9 DEF StoodIsFound, Cached!AskedFor
<1>11. ASSUME NEW l \in (data' \cap Cached!LargeKeys) \ disturbed
       PROVE  /\ l \in Cached!AskedFor(clear.model, clear.user) => l \in clear.stood
              /\ l \notin meta' /\ ~(Cached!InFlight /\ Cached!generate_key(storing.q) = l) =>
                   l.user = None \/ l \in Cached!AskedFor(clear.model, clear.user)
  <2>1. /\ l \in (data \cap Cached!LargeKeys) \ disturbed
        /\ l \in meta /\ l \notin meta' => l \in Cached!AskedFor(clear.model, clear.user)
    BY <1>1, <1>4, <1>11
  <2> QED BY <1>1, <2>1 DEF KeyInv, BesideIsDisturbed, Clearing
<1>12. BesideIsDisturbed'
  BY <1>1, <1>6, <1>11 DEF BesideIsDisturbed, Cached!AskedFor, Cached!InFlight
<1>13. Cached!ClearedAreGone'
  BY <1>6, <1>9 DEF Cached!ClearedAreGone
<1>14. Cached!UnreadableForCause'
  <2> SUFFICES ASSUME NEW l \in (data' \ meta') \cap Cached!LargeKeys, clear'.phase \in {"idle", "done"},
                      l \notin disturbed, ~(Cached!InFlight /\ Cached!generate_key(storing.q) = l)
               PROVE  l.user = None
    BY <1>1 DEF Cached!UnreadableForCause, Cached!InFlight
  <2>1. clear.left \cap Cached!Present = {}
    BY <1>6
  <2>2. l.user # None => l \in clear.stood
    BY <1>11
  <2> QED BY <1>9, <2>1, <2>2
<1>15. Cached!IndexHolds' /\ Cached!ClearTakesItsOwn'
  BY <1>1, <1>6 DEF KeyInv, Cached!IndexHolds, Cached!Indexed, Cached!ClearTakesItsOwn
<1> QED BY <1>7, <1>8, <1>10, <1>12, <1>13, <1>14, <1>15 DEF KeyInv

(* A clear that fails has disturbed what it was for. *)
LEMMA FailsKeeps ==
  ASSUME KeyNumbers, KeyInv, Cached!Fails
  PROVE  KeyInv'
<1>1. /\ clear.phase \in {"scan", "delete"} /\ UNCHANGED <<data, meta, index, storing>>
      /\ clear' = [phase |-> "idle"] /\ clear'.phase = "idle"
      /\ disturbed' = disturbed \cup (Cached!AskedFor(clear.model, clear.user) \cap Cached!LargeKeys)
  BY DEF Cached!Fails, Cached!Idle
<1>2. KeyTypes'
  BY <1>1 DEF KeyInv, KeyTypes, Cached!AskedFor
<1>3. Cached!UnreadableForCause'
  BY <1>1 DEF KeyInv, BesideIsDisturbed, Clearing, Cached!UnreadableForCause, Cached!InFlight
<1>4. Cached!IndexHolds'
  BY <1>1 DEF KeyInv, Cached!IndexHolds, Cached!Indexed
<1> QED BY <1>1, <1>2, <1>3, <1>4 DEF KeyInv, FoundIsTheirs, StoodIsFound, Clearing, BesideIsDisturbed,
          Cached!ClearTakesItsOwn, Cached!ClearedAreGone

LEMMA KeyStep ==
  ASSUME KeyNumbers, KeyInv, [Cached!Next]_Cached!vars
  PROVE  KeyInv'
<1>1. CASE \E n \in DOMAIN Requests : Cached!Stores(Requests[n])
  BY <1>1, StoresKeeps DEF Wanted
<1>2. CASE Cached!Stored
  BY <1>2, StoredKeeps
<1>3. CASE \E c \in Cleared : Cached!clear_cache(c[1], c[2])
  BY <1>3, ClearBegins
<1>4. CASE Cached!Scans \/ Cached!Deletes \/ Cached!Fails
  BY <1>4, ScansKeeps, DeletesKeeps, FailsKeeps
<1>5. CASE UNCHANGED Cached!vars
  BY <1>5 DEF Cached!vars, KeyInv, KeyTypes, FoundIsTheirs, StoodIsFound, Clearing, BesideIsDisturbed,
     Cached!IndexHolds, Cached!Indexed, Cached!ClearTakesItsOwn, Cached!ClearedAreGone,
     Cached!UnreadableForCause, Cached!AskedFor, Cached!InFlight
<1> QED BY <1>1, <1>2, <1>3, <1>4, <1>5 DEF Cached!Next

(* cache/cache_key_generator.py and the clearing of api/chat.py: however    *)
(* answers are stored beside a clear that scans and deletes, it takes no    *)
(* entry of another model or user, leaves nothing with a user of what stood *)
(* there, and a compressed answer is without its metadata only for one of   *)
(* the causes named; the index keeps to its limit and holds what was added. *)
THEOREM ClearsTakeTheirOwn ==
  ASSUME KeyNumbers
  PROVE  Cached!Spec => [](/\ Cached!TypeOK /\ Cached!IndexHolds /\ Cached!ClearTakesItsOwn
                           /\ Cached!ClearedAreGone /\ Cached!UnreadableForCause)
<1>1. Cached!Init => KeyInv
  BY KeyInit
<1>2. KeyInv /\ [Cached!Next]_Cached!vars => KeyInv'
  BY KeyStep
<1>3. KeyInv => /\ Cached!TypeOK /\ Cached!IndexHolds /\ Cached!ClearTakesItsOwn
                /\ Cached!ClearedAreGone /\ Cached!UnreadableForCause
  <2> SUFFICES ASSUME KeyInv PROVE Cached!TypeOK
    BY DEF KeyInv
  <2>1. ASSUME NEW n \in DOMAIN index PROVE index[n].key \in Cached!Keys
    <3>1. index[n] \in Noted
      BY DEF KeyInv, KeyTypes
    <3> QED BY <3>1 DEF Noted
  <2>2. storing = None \/ storing.q \in Cached!Range(Requests)
    <3>1. Wanted = Cached!Range(Requests)
      BY DEF Wanted, Cached!Range
    <3> QED BY <3>1 DEF KeyInv, KeyTypes, Storing
  <2>3. clear.phase \in {"idle", "scan", "delete", "done"}
    BY DEF KeyInv, KeyTypes, Clears
  <2> QED BY <2>1, <2>2, <2>3 DEF KeyInv, KeyTypes, Cached!TypeOK
<1> QED BY <1>1, <1>2, <1>3, PTL DEF Cached!Spec

-----------------------------------------------------------------------------
CONSTANTS Sends, MaxMessages, MaxChunks, MaxReloads, MaxPending
VARIABLES messages, pending, ref, loading, http, got, server, wire, stored, reloads

Page == INSTANCE ChatPage

PageNumbers == MaxChunks \in Nat /\ Sends \subseteq Nat /\ None \notin Sends

Chunks == Sends \X (1..MaxChunks)
Frames == [kind : {"chunk", "complete", "error"}, of : Sends \X (0..MaxChunks)]

PageTypes ==
  /\ ref \in Sends \cup {None}
  /\ got \in [Sends -> Seq(Chunks)]
  /\ server \in [Sends -> [step : {"none", "open", "ended"}, made : 0..MaxChunks]]
  /\ wire \in Seq(Frames)

(* The chunks on the wire come in their order, and each of them after those *)
(* of its answer that the page has got.                                     *)
IsChunk(i) == i \in 1..Len(wire) /\ wire[i].kind = "chunk"
WireInOrder ==
  /\ \A i \in 1..Len(wire) : IsChunk(i) => wire[i].of[2] \in 1..server[wire[i].of[1]].made
  /\ \A i, j \in 1..Len(wire) :
       IsChunk(i) /\ IsChunk(j) /\ i < j /\ wire[i].of[1] = wire[j].of[1] =>
         wire[i].of[2] < wire[j].of[2]
GotBeforeWire ==
  \A n \in Sends : \A k \in 1..Len(got[n]) :
    /\ got[n][k][2] <= server[got[n][k][1]].made
    /\ \A i \in 1..Len(wire) :
         IsChunk(i) /\ wire[i].of[1] = got[n][k][1] => got[n][k][2] < wire[i].of[2]

PageInv ==
  /\ PageTypes /\ WireInOrder /\ GotBeforeWire
  /\ Page!LoadingHasCause /\ Page!ChunksShownOnce

LEMMA PageInit ==
  ASSUME PageNumbers, Page!Init
  PROVE  PageInv
<1>1. /\ wire = <<>> /\ Len(wire) = 0 /\ ref = None /\ loading = FALSE
      /\ got = [n \in Sends |-> <<>>] /\ \A n \in Sends : Len(got[n]) = 0 /\ DOMAIN got[n] = {}
      /\ server = [n \in Sends |-> [step |-> "none", made |-> 0]]
  BY DEF Page!Init
<1>2. PageTypes
  BY <1>1 DEF PageTypes, PageNumbers
<1> QED BY <1>1, <1>2 DEF PageInv, WireInOrder, GotBeforeWire, Page!LoadingHasCause, Page!ChunksShownOnce

(* The wire loses its first frame, or all of them. *)
LEMMA WireShrinks ==
  ASSUME PageInv, wire' = <<>> \/ (wire # <<>> /\ wire' = Tail(wire)) \/ wire' = wire,
         got' = got, server' \in [Sends -> [step : {"none", "open", "ended"}, made : 0..MaxChunks]],
         \A n \in Sends : server'[n].made = server[n].made
  PROVE  wire' \in Seq(Frames) /\ WireInOrder' /\ GotBeforeWire' /\ Page!ChunksShownOnce'
<1>0. wire \in Seq(Frames) /\ Len(wire) \in Nat
  BY DEF PageInv, PageTypes
<1>1. /\ wire' \in Seq(Frames)
      /\ \E d \in 0..Len(wire) :
           /\ Len(wire') = Len(wire) - d
           /\ \A i \in 1..Len(wire') : wire'[i] = wire[i + d]
  <2>1. CASE wire' = <<>>
    <3>1. wire' \in Seq(Frames) /\ Len(wire') = 0 /\ Len(wire) \in 0..Len(wire) /\ Len(wire) - Len(wire) = 0
      BY <1>0, <2>1
    <3> QED BY <3>1
  <2>2. CASE wire # <<>> /\ wire' = Tail(wire)
    <3>1. wire' \in Seq(Frames) /\ 1 \in 0..Len(wire) /\ Len(wire') = Len(wire) - 1
          /\ \A i \in 1..Len(wire') : wire'[i] = wire[i + 1]
      BY <1>0, <2>2
    <3> QED BY <3>1
  <2>3. CASE wire' = wire
    <3>1. 0 \in 0..Len(wire) /\ Len(wire') = Len(wire) - 0 /\ \A i \in 1..Len(wire') : wire'[i] = wire[i + 0]
      BY <1>0, <2>3
    <3> QED BY <1>0, <2>3, <3>1
  <2> QED BY <2>1, <2>2, <2>3
<1>2. PICK d \in 0..Len(wire) :
        Len(wire') = Len(wire) - d /\ \A i \in 1..Len(wire') : wire'[i] = wire[i + d]
  BY <1>1
<1>3. ASSUME NEW i \in 1..Len(wire')
      PROVE  /\ i + d \in 1..Len(wire) /\ i + d \in Int /\ i \in Int /\ wire'[i] = wire[i + d]
             /\ wire[i + d].of[1] \in Sends /\ (IsChunk(i)' <=> IsChunk(i + d))
  <2>1. i + d \in 1..Len(wire) /\ i \in Int /\ i + d \in Int
    BY <1>0, <1>2
  <2>2. wire[i + d] \in Frames
    BY <1>0, <2>1
  <2> QED BY <1>2, <2>1, <2>2 DEF Frames, IsChunk
<1>4. WireInOrder'
  <2>1. ASSUME NEW i \in 1..Len(wire'), IsChunk(i)'
        PROVE  wire'[i].of[2] \in 1..server'[wire'[i].of[1]].made
    BY <1>3, <2>1 DEF PageInv, WireInOrder
  <2>2. ASSUME NEW i \in 1..Len(wire'), NEW j \in 1..Len(wire'), IsChunk(i)', IsChunk(j)', i < j,
               wire'[i].of[1] = wire'[j].of[1]
        PROVE  wire'[i].of[2] < wire'[j].of[2]
    <3> DEFINE a == i + d  b == j + d
    <3>1. /\ a \in 1..Len(wire) /\ b \in 1..Len(wire) /\ a < b
          /\ IsChunk(a) /\ IsChunk(b) /\ wire'[i] = wire[a] /\ wire'[j] = wire[b]
          /\ wire[a].of[1] = wire[b].of[1]
      <4>1. a \in 1..Len(wire) /\ IsChunk(a) /\ wire'[i] = wire[a] /\ i \in Int
        BY <1>3, <2>2
      <4>2. b \in 1..Len(wire) /\ IsChunk(b) /\ wire'[j] = wire[b] /\ j \in Int
        BY <1>3, <2>2
      <4>3. a < b
        BY <2>2, <4>1, <4>2
      <4> QED BY <2>2, <4>1, <4>2, <4>3
    <3> HIDE DEF a, b
    <3>2. wire[a].of[2] < wire[b].of[2]
      BY <3>1 DEF PageInv, WireInOrder
    <3> QED BY <3>1, <3>2
  <2> QED BY <2>1, <2>2 DEF WireInOrder
<1>5. GotBeforeWire'
  <2> SUFFICES ASSUME NEW n \in Sends, NEW k \in 1..Len(got[n])
               PROVE  /\ got[n][k][2] <= server'[got[n][k][1]].made
                      /\ \A i \in 1..Len(wire') :
                           IsChunk(i)' /\ wire'[i].of[1] = got[n][k][1] => got[n][k][2] < wire'[i].of[2]
    BY DEF GotBeforeWire
  <2>1. got[n] \in Seq(Chunks)
    BY DEF PageInv, PageTypes
  <2>2. got[n][k][2] <= server'[got[n][k][1]].made
    <3>1. got[n][k] \in Chunks
      BY <2>1
    <3>2. got[n][k][1] \in Sends
      BY <3>1 DEF Chunks
    <3> QED BY <3>2 DEF PageInv, GotBeforeWire
  <2>3. ASSUME NEW i \in 1..Len(wire'), IsChunk(i)', wire'[i].of[1] = got[n][k][1]
        PROVE  got[n][k][2] < wire'[i].of[2]
    <3> DEFINE a == i + d
    <3>1. a \in 1..Len(wire) /\ IsChunk(a) /\ wire'[i] = wire[a] /\ wire[a].of[1] = got[n][k][1]
      BY <1>3, <2>3
    <3> HIDE DEF a
    <3> QED BY <3>1 DEF PageInv, GotBeforeWire
  <2> QED BY <2>2, <2>3
<1>6. Page!ChunksShownOnce'
  BY DEF PageInv, Page!ChunksShownOnce
<1> QED BY <1>1, <1>4, <1>5, <1>6

(* The first chunk on the wire is shown: it comes after all that were. *)
LEMMA ChunkIsShown ==
  ASSUME PageInv, wire # <<>>, Head(wire).kind = "chunk", ref # None, wire' = Tail(wire),
         got' = [got EXCEPT ![ref] = Append(@, Head(wire).of)], server' = server
  PROVE  wire' \in Seq(Frames) /\ got' \in [Sends -> Seq(Chunks)]
         /\ WireInOrder' /\ GotBeforeWire' /\ Page!ChunksShownOnce'
<1> DEFINE c == Head(wire).of
<1>1. /\ wire \in Seq(Frames) /\ Len(wire) \in Nat /\ 1 \in 1..Len(wire) /\ wire[1] \in Frames
      /\ IsChunk(1) /\ wire[1].of = c /\ ref \in Sends
      /\ wire' \in Seq(Frames) /\ Len(wire') = Len(wire) - 1
      /\ got \in [Sends -> Seq(Chunks)]
  BY DEF PageInv, PageTypes, IsChunk
<1>2. c \in Chunks /\ c[1] \in Sends /\ c[2] \in Int /\ c[2] <= server[c[1]].made
  <2>1. c \in Sends \X (0..MaxChunks) /\ c[2] \in 1..server[c[1]].made
    BY <1>1 DEF PageInv, WireInOrder, Frames
  <2>2. c[1] \in Sends /\ server[c[1]].made \in 0..MaxChunks
    BY <2>1 DEF PageInv, PageTypes
  <2>3. c = <<c[1], c[2]>> /\ c[2] \in 1..MaxChunks
    BY <2>1, <2>2
  <2> QED BY <2>1, <2>2, <2>3 DEF Chunks
<1> HIDE DEF c
<1>3. got' = [got EXCEPT ![ref] = Append(got[ref], c)]
  BY DEF c
<1>4. got' \in [Sends -> Seq(Chunks)]
  BY <1>1, <1>2, <1>3
<1>5. ASSUME NEW n \in Sends, NEW k \in 1..Len(got'[n])
      PROVE  \/ k \in 1..Len(got[n]) /\ got'[n][k] = got[n][k] /\ got[n][k] \in Chunks
                /\ got[n][k][1] \in Sends /\ got[n][k][2] \in Int
             \/ n = ref /\ k = Len(got[n]) + 1 /\ got'[n][k] = c
  <2>1. got[n] \in Seq(Chunks)
    BY <1>1
  <2>2. CASE n = ref
    <3>1. got'[n] = Append(got[n], c)
      BY <1>1, <1>3, <2>2
    <3>2. k = Len(got[n]) + 1 => got'[n][k] = c
      BY <2>1, <3>1
    <3>3. k # Len(got[n]) + 1 => k \in 1..Len(got[n]) /\ got'[n][k] = got[n][k] /\ got[n][k] \in Chunks
      BY <2>1, <3>1
    <3> QED BY <2>2, <3>2, <3>3 DEF Chunks
  <2>3. CASE n # ref
    <3>1. got'[n] = got[n]
      BY <1>1, <1>3, <2>3
    <3>2. k \in 1..Len(got[n])
      BY <3>1
    <3>3. got[n][k] \in Chunks
      BY <2>1, <3>2
    <3>4. got[n][k][1] \in Sends /\ got[n][k][2] \in Int
      BY <3>3 DEF Chunks
    <3> QED BY <3>1, <3>2, <3>3, <3>4
  <2> QED BY <2>2, <2>3
<1>6. ASSUME NEW i \in 1..Len(wire')
      PROVE  /\ i + 1 \in 1..Len(wire) /\ wire'[i] = wire[i + 1] /\ i \in Int /\ 1 < i + 1
             /\ (IsChunk(i)' <=> IsChunk(i + 1))
             /\ IsChunk(i)' /\ wire'[i].of[1] = c[1] => c[2] < wire'[i].of[2]
  <2>1. i + 1 \in 1..Len(wire) /\ wire'[i] = wire[i + 1] /\ i \in Int /\ 1 < i + 1
    BY <1>1
  <2>2. IsChunk(i)' <=> IsChunk(i + 1)
    BY <2>1 DEF IsChunk
  <2> DEFINE a == i + 1
  <2>3. a \in 1..Len(wire) /\ 1 < a /\ wire'[i] = wire[a] /\ (IsChunk(i)' <=> IsChunk(a))
    BY <2>1, <2>2
  <2> HIDE DEF a
  <2>4. IsChunk(a) /\ wire[a].of[1] = c[1] => c[2] < wire[a].of[2]
    BY <1>1, <2>3 DEF PageInv, WireInOrder
  <2> QED BY <2>1, <2>2, <2>3, <2>4
<1>7. ASSUME NEW n \in Sends, NEW k \in 1..Len(got[n])
      PROVE  got[n][k][1] = c[1] => got[n][k][2] < c[2]
  BY <1>1 DEF PageInv, GotBeforeWire
<1>8. WireInOrder'
  <2>1. ASSUME NEW i \in 1..Len(wire'), IsChunk(i)'
        PROVE  wire'[i].of[2] \in 1..server'[wire'[i].of[1]].made
    BY <1>6, <2>1 DEF PageInv, WireInOrder
  <2>2. ASSUME NEW i \in 1..Len(wire'), NEW j \in 1..Len(wire'), IsChunk(i)', IsChunk(j)', i < j,
               wire'[i].of[1] = wire'[j].of[1]
        PROVE  wire'[i].of[2] < wire'[j].of[2]
    <3> DEFINE a == i + 1  b == j + 1
    <3>1. a \in 1..Len(wire) /\ IsChunk(a) /\ wire'[i] = wire[a] /\ i \in Int
      BY <1>6, <2>2
    <3>2. b \in 1..Len(wire) /\ IsChunk(b) /\ wire'[j] = wire[b] /\ j \in Int
      BY <1>6, <2>2
    <3>3. a < b
      BY <2>2, <3>1, <3>2
    <3> HIDE DEF a, b
    <3> QED BY <2>2, <3>1, <3>2, <3>3 DEF PageInv, WireInOrder
  <2> QED BY <2>1, <2>2 DEF WireInOrder
<1>9. GotBeforeWire'
  <2> SUFFICES ASSUME NEW n \in Sends, NEW k \in 1..Len(got'[n])
               PROVE  /\ got'[n][k][2] <= server'[got'[n][k][1]].made
                      /\ \A i \in 1..Len(wire') :
                           IsChunk(i)' /\ wire'[i].of[1] = got'[n][k][1] => got'[n][k][2] < wire'[i].of[2]
    BY DEF GotBeforeWire
  <2>1. CASE k \in 1..Len(got[n]) /\ got'[n][k] = got[n][k]
    <3>1. got[n][k][2] <= server[got[n][k][1]].made
      BY <2>1 DEF PageInv, GotBeforeWire
    <3>2. ASSUME NEW i \in 1..Len(wire'), IsChunk(i)', wire'[i].of[1] = got[n][k][1]
          PROVE  got[n][k][2] < wire'[i].of[2]
      <4> DEFINE a == i + 1
      <4>1. a \in 1..Len(wire) /\ IsChunk(a) /\ wire'[i] = wire[a]
        BY <1>6, <3>2
      <4> HIDE DEF a
      <4> QED BY <2>1, <3>2, <4>1 DEF PageInv, GotBeforeWire
    <3> QED BY <2>1, <3>1, <3>2
  <2>2. CASE got'[n][k] = c
    BY <1>2, <1>6, <2>2
  <2> QED BY <1>5, <2>1, <2>2
<1>10. Page!ChunksShownOnce'
  <2> SUFFICES ASSUME NEW n \in Sends, NEW m \in Sends,
                      NEW j \in DOMAIN got'[n], NEW k \in DOMAIN got'[m]
               PROVE  /\ got'[n][j] = got'[m][k] => n = m /\ j = k
                      /\ n = m /\ got'[n][j][1] = got'[m][k][1] /\ j < k => got'[n][j][2] < got'[m][k][2]
    BY DEF Page!ChunksShownOnce
  <2>0. j \in 1..Len(got'[n]) /\ k \in 1..Len(got'[m])
    <3>1. got'[n] \in Seq(Chunks) /\ got'[m] \in Seq(Chunks)
      BY <1>4
    <3> QED BY <3>1
  <2>1. CASE /\ j \in 1..Len(got[n]) /\ got'[n][j] = got[n][j]
             /\ k \in 1..Len(got[m]) /\ got'[m][k] = got[m][k]
    <3>1. DOMAIN got[n] = 1..Len(got[n]) /\ DOMAIN got[m] = 1..Len(got[m])
      BY <1>1
    <3> QED BY <2>1, <3>1 DEF PageInv, Page!ChunksShownOnce
  <2>2. CASE /\ j \in 1..Len(got[n]) /\ got'[n][j] = got[n][j]
             /\ m = ref /\ k = Len(got[m]) + 1 /\ got'[m][k] = c
    <3>1. got[n] \in Seq(Chunks) /\ got[n][j] \in Chunks
      BY <1>1, <2>2
    <3>2. got[n][j][2] \in Int
      BY <3>1 DEF Chunks
    <3>3. c # got[n][j]
      BY <1>2, <1>7, <2>2, <3>2
    <3> QED BY <1>2, <1>7, <2>2, <3>2, <3>3
  <2>3. CASE /\ n = ref /\ j = Len(got[n]) + 1 /\ got'[n][j] = c
             /\ k \in 1..Len(got[m]) /\ got'[m][k] = got[m][k]
    <3>1. got[m] \in Seq(Chunks) /\ got[m][k] \in Chunks
      BY <1>1, <2>3
    <3>2. got[m][k][2] \in Int /\ (n = m => ~(j < k))
      BY <2>3, <3>1 DEF Chunks
    <3>3. c # got[m][k]
      BY <1>2, <1>7, <2>3, <3>2
    <3> QED BY <2>3, <3>2, <3>3
  <2>4. CASE /\ n = ref /\ j = Len(got[n]) + 1 /\ m = ref /\ k = Len(got[m]) + 1
    BY <1>1, <2>4
  <2> QED BY <1>5, <2>0, <2>1, <2>2, <2>3, <2>4
<1> QED BY <1>1, <1>4, <1>8, <1>9, <1>10

(* A server puts a frame on the wire: the next chunk of its answer, or the end. *)
LEMMA FrameIsSent ==
  ASSUME PageNumbers, PageInv, NEW n \in Sends, Page!Serves(n), wire' # wire
  PROVE  PageTypes' /\ WireInOrder' /\ GotBeforeWire' /\ Page!ChunksShownOnce'
<1>1. /\ wire \in Seq(Frames) /\ Len(wire) \in Nat /\ got' = got /\ ref' = ref
      /\ server \in [Sends -> [step : {"none", "open", "ended"}, made : 0..MaxChunks]]
      /\ got \in [Sends -> Seq(Chunks)]
  BY DEF PageInv, PageTypes, Page!Serves
<1>2. PICK f \in Frames :
        /\ wire' = Append(wire, f)
        /\ server' \in [Sends -> [step : {"none", "open", "ended"}, made : 0..MaxChunks]]
        /\ \A m \in Sends : server[m].made <= server'[m].made
        /\ f.kind = "chunk" => f.of[1] = n /\ f.of[2] = server[n].made + 1 /\ f.of[2] = server'[n].made
  <2>1. CASE /\ server[n].made < MaxChunks
             /\ server' = [server EXCEPT ![n].made = @ + 1]
             /\ wire' = Append(wire, [kind |-> "chunk", of |-> <<n, server'[n].made>>])
    <3>0. server[n].made \in 0..MaxChunks /\ server[n].made + 1 \in 0..MaxChunks
      BY <1>1, <2>1 DEF PageNumbers
    <3>1. /\ server[n].made + 1 \in 0..MaxChunks /\ server'[n].made = server[n].made + 1
          /\ server' \in [Sends -> [step : {"none", "open", "ended"}, made : 0..MaxChunks]]
          /\ \A m \in Sends : server[m].made <= server'[m].made
      <4>1. server'[n].made = server[n].made + 1
        BY <1>1, <2>1
      <4>2. server' \in [Sends -> [step : {"none", "open", "ended"}, made : 0..MaxChunks]]
        BY <1>1, <2>1, <3>0
      <4>3. ASSUME NEW m \in Sends PROVE server[m].made <= server'[m].made
        <5>1. server[m].made \in Int /\ (m # n => server'[m].made = server[m].made)
          BY <1>1, <2>1
        <5> QED BY <3>0, <4>1, <5>1
      <4> QED BY <3>0, <4>1, <4>2, <4>3
    <3> DEFINE f == [kind |-> "chunk", of |-> <<n, server'[n].made>>]
    <3>2. f \in Frames
      BY <3>1 DEF Frames
    <3>3. f.of[1] = n /\ f.of[2] = server'[n].made
      OBVIOUS
    <3> QED BY <2>1, <3>1, <3>2, <3>3
  <2>2. CASE /\ server' = [server EXCEPT ![n].step = "ended"]
             /\ \E k \in {"complete", "error"} : wire' = Append(wire, [kind |-> k, of |-> <<n, 0>>])
    <3>1. PICK k \in {"complete", "error"} : wire' = Append(wire, [kind |-> k, of |-> <<n, 0>>])
      BY <2>2
    <3>2. [kind |-> k, of |-> <<n, 0>>] \in Frames
      BY <3>1 DEF Frames, PageNumbers
    <3>3. /\ server' \in [Sends -> [step : {"none", "open", "ended"}, made : 0..MaxChunks]]
          /\ \A m \in Sends : server[m].made <= server'[m].made
      BY <1>1, <2>2
    <3> QED BY <3>1, <3>2, <3>3
  <2> QED BY <2>1, <2>2 DEF Page!Serves
<1>3. /\ wire' \in Seq(Frames) /\ Len(wire') = Len(wire) + 1 /\ wire'[Len(wire) + 1] = f
      /\ \A i \in 1..Len(wire) : wire'[i] = wire[i]
  BY <1>1, <1>2
<1>4. ASSUME NEW i \in 1..Len(wire'), IsChunk(i)'
      PROVE  \/ i \in 1..Len(wire) /\ wire'[i] = wire[i] /\ IsChunk(i) /\ wire[i].of[1] \in Sends
                /\ wire[i].of[2] \in Int
             \/ i = Len(wire) + 1 /\ wire'[i].of[1] = n /\ wire'[i].of[2] = server[n].made + 1
                /\ wire'[i].of[2] = server'[n].made
  <2>1. CASE i \in 1..Len(wire)
    <3>1. wire[i] \in Frames
      BY <1>1, <2>1
    <3> QED BY <1>3, <1>4, <2>1, <3>1 DEF IsChunk, Frames
  <2>2. CASE i = Len(wire) + 1
    BY <1>2, <1>3, <1>4, <2>2 DEF IsChunk
  <2> QED BY <1>1, <1>3, <2>1, <2>2
<1>5. WireInOrder'
  <2>1. ASSUME NEW i \in 1..Len(wire'), IsChunk(i)'
        PROVE  wire'[i].of[2] \in 1..server'[wire'[i].of[1]].made
    <3>1. CASE i \in 1..Len(wire) /\ wire'[i] = wire[i] /\ IsChunk(i) /\ wire[i].of[1] \in Sends
      <4>1. wire[i].of[2] \in 1..server[wire[i].of[1]].made
        BY <3>1 DEF PageInv, WireInOrder
      <4>2. /\ server[wire[i].of[1]].made \in Int /\ server'[wire[i].of[1]].made \in Int
            /\ server[wire[i].of[1]].made <= server'[wire[i].of[1]].made
        BY <1>1, <1>2, <3>1
      <4> QED BY <3>1, <4>1, <4>2
    <3>2. CASE wire'[i].of[1] = n /\ wire'[i].of[2] = server[n].made + 1
               /\ wire'[i].of[2] = server'[n].made
      BY <1>1, <3>2
    <3> QED BY <1>4, <2>1, <3>1, <3>2
  <2>2. ASSUME NEW i \in 1..Len(wire'), NEW j \in 1..Len(wire'), IsChunk(i)', IsChunk(j)', i < j,
               wire'[i].of[1] = wire'[j].of[1]
        PROVE  wire'[i].of[2] < wire'[j].of[2]
    <3>1. i \in 1..Len(wire) /\ wire'[i] = wire[i] /\ IsChunk(i) /\ wire[i].of[2] \in Int
      <4>1. i \in 1..Len(wire)
        BY <1>1, <1>3, <2>2
      <4> QED BY <1>4, <2>2, <4>1
    <3>2. CASE j \in 1..Len(wire) /\ wire'[j] = wire[j] /\ IsChunk(j)
      BY <2>2, <3>1, <3>2 DEF PageInv, WireInOrder
    <3>3. CASE wire'[j].of[1] = n /\ wire'[j].of[2] = server[n].made + 1
      <4>1. wire[i].of[2] \in 1..server[n].made
        BY <2>2, <3>1, <3>3 DEF PageInv, WireInOrder
      <4> QED BY <1>1, <3>1, <3>3, <4>1
    <3> QED BY <1>4, <2>2, <3>2, <3>3
  <2> QED BY <2>1, <2>2 DEF WireInOrder
<1>6. GotBeforeWire'
  <2> SUFFICES ASSUME NEW m \in Sends, NEW k \in 1..Len(got[m])
               PROVE  /\ got[m][k][2] <= server'[got[m][k][1]].made
                      /\ \A i \in 1..Len(wire') :
                           IsChunk(i)' /\ wire'[i].of[1] = got[m][k][1] => got[m][k][2] < wire'[i].of[2]
    BY <1>1 DEF GotBeforeWire
  <2>1. got[m][k] \in Chunks /\ got[m][k][1] \in Sends /\ got[m][k][2] \in Int
    <3>1. got[m] \in Seq(Chunks)
      BY <1>1
    <3>2. got[m][k] \in Chunks
      BY <3>1
    <3> QED BY <3>2 DEF Chunks
  <2>2. got[m][k][2] <= server[got[m][k][1]].made
    BY DEF PageInv, GotBeforeWire
  <2>3. /\ server[got[m][k][1]].made \in Int /\ server'[got[m][k][1]].made \in Int
        /\ server[got[m][k][1]].made <= server'[got[m][k][1]].made
    BY <1>1, <1>2, <2>1
  <2>4. ASSUME NEW i \in 1..Len(wire'), IsChunk(i)', wire'[i].of[1] = got[m][k][1]
        PROVE  got[m][k][2] < wire'[i].of[2]
    <3>1. CASE i \in 1..Len(wire) /\ wire'[i] = wire[i] /\ IsChunk(i)
      BY <2>4, <3>1 DEF PageInv, GotBeforeWire
    <3>2. CASE wire'[i].of[1] = n /\ wire'[i].of[2] = server[n].made + 1
      BY <2>1, <2>2, <2>3, <2>4, <3>2
    <3> QED BY <1>4, <2>4, <3>1, <3>2
  <2> QED BY <2>1, <2>2, <2>3, <2>4
<1>7. Page!ChunksShownOnce'
  BY <1>1 DEF PageInv, Page!ChunksShownOnce
<1> QED BY <1>1, <1>2, <1>3, <1>5, <1>6, <1>7 DEF PageInv, PageTypes

Servers == [Sends -> [step : {"none", "open", "ended"}, made : 0..MaxChunks]]
SameMade == server' \in Servers /\ \A n \in Sends : server'[n].made = server[n].made

(* A request is sent, a connection is cut or nothing happens to a server. *)
LEMMA ServersGoOn ==
  ASSUME PageInv,
         \/ server' = server
         \/ \E n \in Sends, step \in {"open", "ended"} : server' = [server EXCEPT ![n].step = step]
         \/ server' = [n \in Sends |-> IF server[n].step = "open"
                                         THEN [server[n] EXCEPT !.step = "ended"] ELSE server[n]]
  PROVE  SameMade
<1>1. server \in Servers
  BY DEF PageInv, PageTypes, Servers
<1>2. CASE server' = server
  BY <1>1, <1>2 DEF SameMade
<1>3. ASSUME NEW n \in Sends, NEW step \in {"open", "ended"},
             server' = [server EXCEPT ![n].step = step]
      PROVE  SameMade
  BY <1>1, <1>3 DEF SameMade, Servers
<1>4. CASE server' = [n \in Sends |-> IF server[n].step = "open"
                                         THEN [server[n] EXCEPT !.step = "ended"] ELSE server[n]]
  BY <1>1, <1>4 DEF SameMade, Servers
<1> QED BY <1>2, <1>3, <1>4

(* A step that shows no chunk and sends none. *)
LEMMA NothingIsShown ==
  ASSUME PageInv, SameMade, got' = got, ref' \in Sends \cup {None},
         wire' = <<>> \/ (wire # <<>> /\ wire' = Tail(wire)) \/ wire' = wire,
         Page!LoadingHasCause'
  PROVE  PageInv'
BY WireShrinks DEF PageInv, PageTypes, SameMade, Servers

LEMMA RequestIsSent ==
  ASSUME PageNumbers, PageInv, NEW n \in Sends, Page!sendMessage(n)
  PROVE  PageInv'
<1>1. got' = got /\ wire' = wire /\ ref \in Sends \cup {None}
  BY DEF Page!sendMessage, PageInv, PageTypes
<1>2. SameMade
  <2>1. \E step \in {"open", "ended"} : server' = [server EXCEPT ![n].step = step]
    BY DEF Page!sendMessage
  <2> QED BY <2>1, ServersGoOn
<1>3. ref' \in Sends \cup {None} /\ Page!LoadingHasCause'
  <2>1. CASE ref' = n /\ loading' = TRUE
    BY <2>1 DEF PageNumbers, Page!LoadingHasCause
  <2>2. CASE http' = http \cup {n} /\ loading' = TRUE /\ UNCHANGED ref
    BY <1>1, <2>2 DEF Page!LoadingHasCause
  <2>3. CASE loading' = FALSE /\ ref' = None
    BY <2>3 DEF Page!LoadingHasCause
  <2> QED BY <2>1, <2>2, <2>3 DEF Page!sendMessage, Page!Streams
<1> QED BY <1>1, <1>2, <1>3, NothingIsShown

LEMMA PageStep ==
  ASSUME PageNumbers, PageInv, [Page!Next]_Page!vars
  PROVE  PageInv'
<1>0. ref \in Sends \cup {None} /\ Page!LoadingHasCause
  BY DEF PageInv, PageTypes
<1>1. CASE Page!Render \/ Page!clearMessages \/ Page!deleteMessage \/ UNCHANGED Page!vars \/ Page!onError
  <2>1. /\ got' = got /\ server' = server /\ ref' = ref /\ loading' = loading /\ http' = http
        /\ wire' = wire \/ (wire # <<>> /\ wire' = Tail(wire))
    BY <1>1 DEF Page!Render, Page!clearMessages, Page!deleteMessage, Page!vars, Page!onError, Page!Arrives
  <2> QED BY <1>0, <2>1, ServersGoOn, NothingIsShown DEF Page!LoadingHasCause
<1>2. CASE Page!cancelCurrentStream \/ Page!handleStreamError
  <2>1. /\ got' = got /\ server' = server /\ ref' = None /\ loading' = FALSE
        /\ wire' = wire \/ (wire # <<>> /\ wire' = Tail(wire))
    BY <1>2 DEF Page!cancelCurrentStream, Page!handleStreamError, Page!Arrives
  <2> QED BY <2>1, ServersGoOn, NothingIsShown DEF Page!LoadingHasCause
<1>3. CASE Page!handleStreamComplete
  <2>1. /\ got' = got /\ server' = server /\ wire # <<>> /\ wire' = Tail(wire) /\ http' = http
        /\ \/ ref' = ref /\ loading' = loading
           \/ ref' = None /\ loading' = FALSE
    BY <1>3 DEF Page!handleStreamComplete, Page!Arrives
  <2> QED BY <1>0, <2>1, ServersGoOn, NothingIsShown DEF Page!LoadingHasCause
<1>4. CASE Page!Reload \/ Page!Disconnects
  <2>1. /\ got' = got /\ wire' = <<>>
        /\ server' = [n \in Sends |-> IF server[n].step = "open"
                                        THEN [server[n] EXCEPT !.step = "ended"] ELSE server[n]]
        /\ \/ ref' = ref /\ loading' = loading /\ http' = http
           \/ ref' = None /\ loading' = FALSE
    BY <1>4 DEF Page!Reload, Page!Disconnects
  <2>2. SameMade
    BY <2>1, ServersGoOn
  <2> QED BY <1>0, <2>1, <2>2, NothingIsShown DEF Page!LoadingHasCause
<1>5. ASSUME NEW n \in Sends,
             Page!handleSubmit(n) \/ Page!retryMessage(n) \/ Page!HttpEnds(n) \/ Page!Serves(n)
      PROVE  PageInv'
  <2>1. CASE Page!handleSubmit(n) \/ Page!retryMessage(n)
    BY <2>1, RequestIsSent DEF Page!handleSubmit, Page!retryMessage
  <2>2. CASE Page!HttpEnds(n)
    <3>1. /\ got' = got /\ server' = server /\ wire' = wire /\ loading' = FALSE
          /\ ref' = ref \/ ref' = None
      BY <2>2 DEF Page!HttpEnds
    <3> QED BY <1>0, <3>1, ServersGoOn, NothingIsShown DEF Page!LoadingHasCause
  <2>3. CASE Page!Serves(n)
    <3>1. Page!LoadingHasCause'
      BY <1>0, <2>3 DEF Page!Serves, Page!LoadingHasCause
    <3>2. CASE wire' = wire
      <4>1. /\ wire \in Seq(Frames) /\ got' = got /\ ref' = ref
            /\ \/ wire' = Append(wire, [kind |-> "chunk", of |-> <<n, server'[n].made>>])
               \/ \E k \in {"complete", "error"} : wire' = Append(wire, [kind |-> k, of |-> <<n, 0>>])
               \/ server' = [server EXCEPT ![n].step = "ended"]
        BY <2>3 DEF Page!Serves, PageInv, PageTypes
      <4>2. ASSUME NEW f, wire' = Append(wire, f) PROVE FALSE
        BY <3>2, <4>1, <4>2
      <4>3. server' = [server EXCEPT ![n].step = "ended"]
        BY <4>1, <4>2
      <4> QED BY <1>0, <3>1, <3>2, <4>1, <4>3, ServersGoOn, NothingIsShown
    <3>3. CASE wire' # wire
      BY <2>3, <3>1, <3>3, FrameIsSent DEF PageInv
    <3> QED BY <3>2, <3>3
  <2> QED BY <1>5, <2>1, <2>2, <2>3
<1>6. CASE Page!handleStreamChunk
  <2>1. /\ wire # <<>> /\ Head(wire).kind = "chunk" /\ wire' = Tail(wire)
        /\ ref' = ref /\ loading' = loading /\ http' = http /\ server' = server
    BY <1>6 DEF Page!handleStreamChunk, Page!Arrives
  <2>2. Page!LoadingHasCause'
    BY <1>0, <2>1 DEF Page!LoadingHasCause
  <2>3. CASE ref = None
    <3>1. got' = got
      BY <1>6, <2>3 DEF Page!handleStreamChunk
    <3> QED BY <1>0, <2>1, <2>2, <3>1, ServersGoOn, NothingIsShown
  <2>4. CASE ref # None
    <3>1. got' = [got EXCEPT ![ref] = Append(@, Head(wire).of)]
      BY <1>6, <2>4 DEF Page!handleStreamChunk
    <3> QED BY <1>0, <2>1, <2>2, <2>4, <3>1, ChunkIsShown DEF PageInv, PageTypes
  <2> QED BY <2>3, <2>4
<1> QED BY <1>1, <1>2, <1>3, <1>4, <1>5, <1>6 DEF Page!Next

(* Questions are sent in their order, and while a message streams, no later *)
(* one's answer is being made or is on the wire.                            *)
Waits(n) == \E i \in 1..Len(wire) : IsChunk(i) /\ wire[i].of[1] = n
NoneAhead ==
  /\ \A k, n \in Sends : k < n /\ server[k].step = "none" => server[n].step = "none"
  /\ \A n \in Sends : server[n].made > 0 => server[n].step # "none"
  /\ ref # None => \A n \in Sends : server[n].step = "open" \/ Waits(n) => n <= ref
  /\ Page!NoneShownEarlier

LEMMA WaitsLess ==
  ASSUME PageInv, wire' = <<>> \/ (wire # <<>> /\ wire' = Tail(wire)) \/ wire' = wire, NEW n \in Sends,
         Waits(n)'
  PROVE  Waits(n)
<1>1. PICK i \in 1..Len(wire') : IsChunk(i)' /\ wire'[i].of[1] = n
  BY DEF Waits
<1>2. CASE wire' = <<>>
  BY <1>1, <1>2
<1>3. CASE wire # <<>> /\ wire' = Tail(wire)
  <2> DEFINE a == i + 1
  <2>1. a \in 1..Len(wire) /\ wire'[i] = wire[a]
    BY <1>1, <1>3 DEF PageInv, PageTypes
  <2> HIDE DEF a
  <2> QED BY <1>1, <2>1 DEF Waits, IsChunk
<1>4. CASE wire' = wire
  BY <1>1, <1>4 DEF Waits, IsChunk
<1> QED BY <1>2, <1>3, <1>4

(* What waits has been made, so its question was sent. *)
LEMMA WaitsWasSent ==
  ASSUME PageInv, NoneAhead, NEW n \in Sends, Waits(n)
  PROVE  server[n].step # "none"
<1>1. PICK i \in 1..Len(wire) : IsChunk(i) /\ wire[i].of[1] = n
  BY DEF Waits
<1>2. wire[i].of[2] \in 1..server[n].made /\ server[n].made \in Nat
  BY <1>1 DEF PageInv, WireInOrder, PageTypes
<1>3. server[n].made > 0
  BY <1>2
<1> QED BY <1>3 DEF NoneAhead

(* A step that shows, sends and asks for nothing. *)
LEMMA NothingGetsAhead ==
  ASSUME PageInv, NoneAhead, got' = got, ref' = ref \/ ref' = None,
         wire' = <<>> \/ (wire # <<>> /\ wire' = Tail(wire)) \/ wire' = wire,
         \/ server' = server
         \/ \E n \in Sends : server[n].step = "open" /\ server' = [server EXCEPT ![n].step = "ended"]
         \/ server' = [n \in Sends |-> IF server[n].step = "open"
                                         THEN [server[n] EXCEPT !.step = "ended"] ELSE server[n]]
  PROVE  NoneAhead'
<1>1. \A n \in Sends : /\ server'[n].made = server[n].made
                       /\ server'[n].step = "none" <=> server[n].step = "none"
                       /\ server'[n].step = "open" => server[n].step = "open"
  <2>1. server \in Servers
    BY DEF PageInv, PageTypes, Servers
  <2>2. ASSUME NEW m \in Sends, server[m].step = "open",
               server' = [server EXCEPT ![m].step = "ended"], NEW n \in Sends
        PROVE  /\ server'[n].made = server[n].made
               /\ server'[n].step = "none" <=> server[n].step = "none"
               /\ server'[n].step = "open" => server[n].step = "open"
    BY <2>1, <2>2 DEF Servers
  <2>3. ASSUME server' = [n \in Sends |-> IF server[n].step = "open"
                                             THEN [server[n] EXCEPT !.step = "ended"] ELSE server[n]],
               NEW n \in Sends
        PROVE  /\ server'[n].made = server[n].made
               /\ server'[n].step = "none" <=> server[n].step = "none"
               /\ server'[n].step = "open" => server[n].step = "open"
    BY <2>1, <2>3 DEF Servers
  <2> QED BY <2>2, <2>3
<1>2. \A n \in Sends : Waits(n)' => Waits(n)
  BY WaitsLess
<1> QED BY <1>1, <1>2 DEF NoneAhead, Page!NoneShownEarlier

LEMMA RequestIsLatest ==
  ASSUME PageNumbers, PageInv, NoneAhead, NEW n \in Sends, Page!sendMessage(n)
  PROVE  NoneAhead'
<1>1. PICK step \in {"open", "ended"} :
        /\ server' = [server EXCEPT ![n].step = step]
        /\ ref' = n \/ (step = "ended" /\ (ref' = ref \/ ref' = None))
  <2>1. ASSUME NEW step \in {"open", "ended"}, server' = [server EXCEPT ![n].step = step],
               Page!Streams(n)
        PROVE  /\ server' = [server EXCEPT ![n].step = step]
               /\ ref' = n \/ (step = "ended" /\ (ref' = ref \/ ref' = None))
    BY <2>1 DEF Page!Streams
  <2> QED BY <2>1 DEF Page!sendMessage
<1>2. /\ server[n].step = "none" /\ \A k \in Sends : k < n => server[k].step # "none"
      /\ got' = got /\ wire' = wire
  BY DEF Page!sendMessage
<1>3. /\ server'[n].step = step /\ server'[n].made = server[n].made
      /\ \A k \in Sends : k # n => server'[k] = server[k]
  BY <1>1 DEF PageInv, PageTypes
<1>4. ASSUME NEW k \in Sends, NEW m \in Sends, k < m, server'[k].step = "none"
      PROVE  server'[m].step = "none"
  <2>1. k # n /\ server[k].step = "none" /\ server[m].step = "none"
    BY <1>1, <1>3, <1>4 DEF NoneAhead
  <2>2. m # n
    BY <1>2, <1>4, <2>1
  <2> QED BY <1>3, <2>1, <2>2
<1>5. ASSUME NEW m \in Sends, server'[m].made > 0 PROVE server'[m].step # "none"
  BY <1>1, <1>3, <1>5 DEF NoneAhead
<1>6. \A m \in Sends : Waits(m)' <=> Waits(m)
  BY <1>2 DEF Waits, IsChunk
<1>7. ASSUME ref' # None, NEW m \in Sends, server'[m].step = "open" \/ Waits(m)' PROVE m <= ref'
  <2>1. CASE ref' = n
    <3>1. CASE m = n
      BY <2>1, <3>1 DEF PageNumbers
    <3>2. CASE m # n
      <4>1. server[m].step # "none"
        BY <1>3, <1>6, <1>7, <3>2, WaitsWasSent
      <4>2. ~(n < m)
        BY <1>2, <4>1 DEF NoneAhead
      <4> QED BY <2>1, <4>2 DEF PageNumbers
    <3> QED BY <3>1, <3>2
  <2>2. CASE step = "ended" /\ ref' = ref
    <3>1. server[m].step = "open" \/ Waits(m)
      BY <1>3, <1>6, <1>7, <2>2
    <3> QED BY <1>7, <2>2, <3>1 DEF NoneAhead
  <2> QED BY <1>1, <1>7, <2>1, <2>2
<1>8. Page!NoneShownEarlier'
  BY <1>2 DEF NoneAhead, Page!NoneShownEarlier
<1> QED BY <1>4, <1>5, <1>7, <1>8 DEF NoneAhead

LEMMA FrameIsBehind ==
  ASSUME PageNumbers, PageInv, NoneAhead, NEW n \in Sends, Page!Serves(n)
  PROVE  NoneAhead'
<1>1. /\ server[n].step = "open" /\ got' = got /\ ref' = ref
      /\ \/ /\ server' = [server EXCEPT ![n].made = @ + 1]
            /\ \E j : wire' = Append(wire, [kind |-> "chunk", of |-> <<n, j>>])
         \/ /\ server' = [server EXCEPT ![n].step = "ended"]
            /\ \/ wire' = wire
               \/ \E k \in {"complete", "error"} : wire' = Append(wire, [kind |-> k, of |-> <<n, 0>>])
  BY DEF Page!Serves
<1>2. /\ \A m \in Sends : m # n => server'[m] = server[m]
      /\ server'[n].step # "none"
  BY <1>1 DEF PageInv, PageTypes
<1>3. wire' = wire \/ \E f : wire' = Append(wire, f) /\ (f.kind = "chunk" => f.of[1] = n)
  <2>1. ASSUME NEW j, wire' = Append(wire, [kind |-> "chunk", of |-> <<n, j>>])
        PROVE  \E f : wire' = Append(wire, f) /\ (f.kind = "chunk" => f.of[1] = n)
    BY <2>1
  <2>2. ASSUME NEW k \in {"complete", "error"}, wire' = Append(wire, [kind |-> k, of |-> <<n, 0>>])
        PROVE  \E f : wire' = Append(wire, f) /\ (f.kind = "chunk" => f.of[1] = n)
    BY <2>2
  <2> QED BY <1>1, <2>1, <2>2
<1>4. ASSUME NEW m \in Sends, m # n, Waits(m)' PROVE Waits(m)
  <2>1. PICK i \in 1..Len(wire') : IsChunk(i)' /\ wire'[i].of[1] = m
    BY <1>4 DEF Waits
  <2>2. CASE wire' = wire
    BY <2>1, <2>2 DEF Waits, IsChunk
  <2>3. ASSUME NEW f, wire' = Append(wire, f), f.kind = "chunk" => f.of[1] = n
        PROVE  Waits(m)
    <3>1. wire \in Seq(Frames) /\ Len(wire) \in Nat
      BY DEF PageInv, PageTypes
    <3>2. i = Len(wire) + 1 => wire'[i] = f
      BY <2>3, <3>1
    <3>3. i # Len(wire) + 1
      BY <1>4, <2>1, <2>3, <3>2 DEF IsChunk
    <3>4. i \in 1..Len(wire) /\ wire'[i] = wire[i]
      BY <2>1, <2>3, <3>1, <3>3
    <3> QED BY <2>1, <3>4 DEF Waits, IsChunk
  <2> QED BY <1>3, <2>2, <2>3
<1>5. ASSUME NEW k \in Sends, NEW m \in Sends, k < m, server'[k].step = "none"
      PROVE  server'[m].step = "none"
  <2>1. k # n /\ server[k].step = "none" /\ server[m].step = "none"
    BY <1>2, <1>5 DEF NoneAhead
  <2> QED BY <1>1, <1>2, <2>1
<1>6. \A m \in Sends : server'[m].made > 0 => server'[m].step # "none"
  BY <1>2 DEF NoneAhead
<1>7. ref' # None => \A m \in Sends : server'[m].step = "open" \/ Waits(m)' => m <= ref'
  BY <1>1, <1>2, <1>4 DEF NoneAhead
<1>8. Page!NoneShownEarlier'
  BY <1>1 DEF NoneAhead, Page!NoneShownEarlier
<1> QED BY <1>5, <1>6, <1>7, <1>8 DEF NoneAhead

LEMMA ChunkIsBehind ==
  ASSUME PageNumbers, PageInv, NoneAhead, Page!handleStreamChunk, ref # None
  PROVE  NoneAhead'
<1> DEFINE c == Head(wire).of
<1>1. /\ wire # <<>> /\ Head(wire).kind = "chunk" /\ wire' = Tail(wire)
      /\ got' = [got EXCEPT ![ref] = Append(@, c)] /\ ref' = ref /\ server' = server
  BY DEF Page!handleStreamChunk, Page!Arrives
<1>2. /\ got \in [Sends -> Seq(Chunks)] /\ ref \in Sends /\ wire \in Seq(Frames)
      /\ 1 \in 1..Len(wire) /\ wire[1] \in Frames /\ wire[1] = Head(wire)
  BY <1>1 DEF PageInv, PageTypes
<1>3. c[1] \in Sends /\ c[1] <= ref
  <2>1. c[1] \in Sends
    BY <1>2 DEF Frames
  <2>2. Waits(c[1])
    BY <1>1, <1>2 DEF Waits, IsChunk
  <2> QED BY <2>1, <2>2 DEF NoneAhead
<1> HIDE DEF c
<1>4. ASSUME NEW n \in Sends, NEW j \in DOMAIN got'[n] PROVE got'[n][j][1] <= n
  <2>1. got[n] \in Seq(Chunks)
    BY <1>2
  <2>2. CASE n = ref
    <3>1. got'[n] = Append(got[n], c)
      BY <1>1, <1>2, <2>2
    <3>2. CASE j = Len(got[n]) + 1
      <4>1. got'[n][j] = c
        BY <2>1, <3>1, <3>2
      <4> QED BY <1>3, <2>2, <4>1
    <3>3. CASE j # Len(got[n]) + 1
      <4>1. j \in DOMAIN got[n] /\ got'[n][j] = got[n][j]
        BY <1>4, <2>1, <3>1, <3>3
      <4> QED BY <4>1 DEF NoneAhead, Page!NoneShownEarlier
    <3> QED BY <3>2, <3>3
  <2>3. CASE n # ref
    <3>1. got'[n] = got[n]
      BY <1>1, <1>2, <2>3
    <3> QED BY <1>4, <3>1 DEF NoneAhead, Page!NoneShownEarlier
  <2> QED BY <2>2, <2>3
<1>5. \A n \in Sends : Waits(n)' => Waits(n)
  BY <1>1, WaitsLess
<1> QED BY <1>1, <1>4, <1>5 DEF NoneAhead, Page!NoneShownEarlier

LEMMA NoneGetsAhead ==
  ASSUME PageNumbers, PageInv, NoneAhead, [Page!Next]_Page!vars
  PROVE  NoneAhead'
<1>1. CASE \/ Page!Render \/ Page!clearMessages \/ Page!deleteMessage \/ UNCHANGED Page!vars
           \/ Page!onError \/ Page!cancelCurrentStream \/ Page!handleStreamError
           \/ Page!handleStreamComplete \/ \E n \in Sends : Page!HttpEnds(n)
  <2>1. /\ got' = got /\ server' = server /\ (ref' = ref \/ ref' = None)
        /\ wire' = wire \/ (wire # <<>> /\ wire' = Tail(wire))
    BY <1>1 DEF Page!Render, Page!clearMessages, Page!deleteMessage, Page!vars, Page!onError,
       Page!cancelCurrentStream, Page!handleStreamError, Page!handleStreamComplete, Page!HttpEnds,
       Page!Arrives
  <2> QED BY <2>1, NothingGetsAhead
<1>2. CASE Page!Reload \/ Page!Disconnects
  <2>1. /\ got' = got /\ wire' = <<>> /\ (ref' = ref \/ ref' = None)
        /\ server' = [n \in Sends |-> IF server[n].step = "open"
                                        THEN [server[n] EXCEPT !.step = "ended"] ELSE server[n]]
    BY <1>2 DEF Page!Reload, Page!Disconnects
  <2> QED BY <2>1, NothingGetsAhead
<1>3. ASSUME NEW n \in Sends, Page!handleSubmit(n) \/ Page!retryMessage(n) \/ Page!Serves(n)
      PROVE  NoneAhead'
  BY <1>3, RequestIsLatest, FrameIsBehind DEF Page!handleSubmit, Page!retryMessage
<1>4. CASE Page!handleStreamChunk
  <2>1. CASE ref = None
    <3>1. /\ got' = got /\ server' = server /\ ref' = ref
          /\ wire # <<>> /\ wire' = Tail(wire)
      BY <1>4, <2>1 DEF Page!handleStreamChunk, Page!Arrives
    <3> QED BY <3>1, NothingGetsAhead
  <2> QED BY <1>4, <2>1, ChunkIsBehind
<1> QED BY <1>1, <1>2, <1>3, <1>4 DEF Page!Next

LEMMA NoneAheadInit ==
  ASSUME Page!Init
  PROVE  NoneAhead
<1>1. /\ ref = None /\ \A n \in Sends : got[n] = <<>> /\ server[n] = [step |-> "none", made |-> 0]
  BY DEF Page!Init
<1> QED BY <1>1 DEF NoneAhead, Page!NoneShownEarlier

(* frontend/hooks: whatever is sent, cancelled, cleared or loaded again while   *)
(* frames come in and a connection is cut, the form is locked only while there  *)
(* is a stream to cancel or an HTTP call to end; no chunk is shown twice, out   *)
(* of its stream's order or with an earlier question than its own.              *)
THEOREM ChunksAreShownOnce ==
  ASSUME PageNumbers
  PROVE  Page!Spec => [](Page!LoadingHasCause /\ Page!ChunksShownOnce /\ Page!NoneShownEarlier)
<1>1. Page!Init => PageInv /\ NoneAhead
  BY PageInit, NoneAheadInit
<1>2. PageInv /\ NoneAhead /\ [Page!Next]_Page!vars => (PageInv /\ NoneAhead)'
  BY PageStep, NoneGetsAhead
<1>3. PageInv /\ NoneAhead => Page!LoadingHasCause /\ Page!ChunksShownOnce /\ Page!NoneShownEarlier
  BY DEF PageInv, NoneAhead
<1> QED BY <1>1, <1>2, <1>3, PTL DEF Page!Spec

-----------------------------------------------------------------------------
CONSTANTS Models, provider, MaxRetries, Roles
VARIABLES asked, sent

Api == INSTANCE ChatCompletion

ApiNames == MaxRetries \in Nat /\ None \notin Api!Adapters

OverLibrary == {"openai", "anthropic"}
AnyAnswer == Api!Answers("openai") \cup Api!Answers("provider_a")

(* A request's answers so far: every one but the last of those of a library  *)
(* may pass, and the attempt that is under way is the next.                  *)
CallCounts(r) ==
  /\ at[r].step = "new" => seen[r] = <<>>
  /\ at[r].step = "call" /\ at[r].by \in OverLibrary =>
       /\ at[r].attempt = Len(seen[r]) + 1 /\ at[r].attempt <= MaxRetries
       /\ \A k \in 1..Len(seen[r]) : seen[r][k].kind \in Api!Passing

(* What the two properties say of one request that has ended.               *)
TriedEnough(answers) ==
  LET n == Len(answers) IN
    /\ n <= MaxRetries /\ \A k \in 1..(n - 1) : answers[k].kind \in Api!Passing
    /\ n > 0 /\ answers[n].kind \in Api!Passing => n = MaxRetries
ToldAs(last, told) ==
  /\ (last = "ok") = (told = 200)
  /\ (last = "auth") = (told = 401)
  /\ (last = "rate") = (told = 429)
  /\ (last = "timeout") = (told = 504)

ApiInv ==
  /\ DOMAIN at = Requests /\ at = [r \in Requests |-> at[r]]
  /\ seen \in [Requests -> Seq(AnyAnswer)]
  /\ \A r \in Requests : CallCounts(r)
  /\ Api!AskedAsNeeded /\ Api!StatusTells

LEMMA ApiInit == ASSUME Api!Init PROVE ApiInv
<1>1. /\ \A r \in Requests : at[r].step = "new" /\ seen[r] = <<>>
      /\ DOMAIN at = Requests /\ at = [r \in Requests |-> at[r]]
      /\ seen \in [Requests -> Seq(AnyAnswer)]
  BY DEF Api!Init
<1> QED BY <1>1 DEF ApiInv, CallCounts, Api!AskedAsNeeded, Api!StatusTells

(* A request that is not touched is as it was. *)
LEMMA OneRequestGoes ==
  ASSUME ApiInv, NEW r \in Requests, NEW x, at' = [at EXCEPT ![r] = x],
         seen' = seen \/ \E answer \in AnyAnswer : seen' = [seen EXCEPT ![r] = Append(@, answer)],
         CallCounts(r)',
         x.step = "ended" /\ x.by \in OverLibrary =>
           /\ TriedEnough(seen'[r])
           /\ Len(seen'[r]) > 0 => ToldAs(seen'[r][Len(seen'[r])].kind, x.status)
  PROVE  ApiInv'
<1>1. /\ DOMAIN at' = Requests /\ at' = [q \in Requests |-> at'[q]]
      /\ at'[r] = x /\ \A q \in Requests : q # r => at'[q] = at[q]
  <2>1. at' = [q \in Requests |-> IF q = r THEN x ELSE at[q]]
    BY DEF ApiInv
  <2> QED BY <2>1
<1>2. /\ seen' \in [Requests -> Seq(AnyAnswer)] /\ \A q \in Requests : q # r => seen'[q] = seen[q]
  <2>1. CASE seen' = seen
    BY <2>1 DEF ApiInv
  <2>2. ASSUME NEW answer \in AnyAnswer, seen' = [seen EXCEPT ![r] = Append(@, answer)]
        PROVE  /\ seen' \in [Requests -> Seq(AnyAnswer)]
               /\ \A q \in Requests : q # r => seen'[q] = seen[q]
    <3>1. seen \in [Requests -> Seq(AnyAnswer)] /\ Append(seen[r], answer) \in Seq(AnyAnswer)
      BY DEF ApiInv
    <3> QED BY <2>2, <3>1
  <2> QED BY <2>1, <2>2
<1>3. ASSUME NEW q \in Requests PROVE CallCounts(q)'
  <2>1. CASE q # r
    BY <1>1, <1>2, <2>1 DEF ApiInv, CallCounts
  <2> QED BY <2>1
<1>4. Api!AskedAsNeeded'
  <2> SUFFICES ASSUME NEW q \in Requests, at'[q].step = "ended", at'[q].by \in OverLibrary
               PROVE  TriedEnough(seen'[q])
    BY DEF Api!AskedAsNeeded, OverLibrary, TriedEnough
  <2>1. CASE q = r
    BY <1>1, <2>1
  <2>2. CASE q # r
    BY <1>1, <1>2, <2>2 DEF ApiInv, Api!AskedAsNeeded, OverLibrary, TriedEnough
  <2> QED BY <2>1, <2>2
<1>5. Api!StatusTells'
  <2> SUFFICES ASSUME NEW q \in Requests, at'[q].step = "ended", at'[q].by \in OverLibrary,
                      seen'[q] # <<>>
               PROVE  ToldAs(seen'[q][Len(seen'[q])].kind, at'[q].status)
    BY DEF Api!StatusTells, OverLibrary, Api!Last, ToldAs
  <2>1. CASE q = r
    <3>1. seen'[r] \in Seq(AnyAnswer) /\ seen'[r] # <<>>
      BY <1>2, <2>1
    <3>2. Len(seen'[r]) > 0
      BY <3>1
    <3> QED BY <1>1, <2>1, <3>2
  <2>2. CASE q # r
    BY <1>1, <1>2, <2>2 DEF ApiInv, Api!StatusTells, OverLibrary, Api!Last, ToldAs
  <2> QED BY <2>1, <2>2
<1> QED BY <1>1, <1>2, <1>3, <1>4, <1>5 DEF ApiInv

(* A request that comes in makes its first call, or ends without one. *)
LEMMA RequestStarts ==
  ASSUME ApiNames, ApiInv, NEW r \in Requests, at[r].step = "new", seen' = seen, NEW p, NEW result,
         \/ Api!Ends(r, None, result)
         \/ p \in OverLibrary /\ MaxRetries = 0 /\ Api!Ends(r, p, result)
         \/ (p \notin OverLibrary \/ MaxRetries # 0) /\ Api!Calls(r, p, 1)
  PROVE  ApiInv'
<1>1. seen'[r] = <<>> /\ Len(seen'[r]) = 0 /\ MaxRetries \in Nat
  BY DEF ApiInv, CallCounts, ApiNames
<1>2. CASE Api!Ends(r, None, result)
  <2> DEFINE x == [step |-> "ended", by |-> None, result |-> result,
                   status |-> IF None \in {"provider_a", "provider_b"} THEN None ELSE Api!Status(result)]
  <2>1. at' = [at EXCEPT ![r] = x]
    BY <1>2 DEF Api!Ends
  <2>2. at'[r] = x /\ x.step = "ended" /\ x.by = None /\ None \notin OverLibrary
    BY <2>1 DEF ApiInv, ApiNames, Api!Adapters, OverLibrary
  <2>3. CallCounts(r)'
    BY <2>2 DEF CallCounts
  <2> HIDE DEF x
  <2> QED BY <2>1, <2>2, <2>3, OneRequestGoes
<1>3. CASE p \in OverLibrary /\ MaxRetries = 0 /\ Api!Ends(r, p, result)
  <2> DEFINE x == [step |-> "ended", by |-> p, result |-> result,
                   status |-> IF p \in {"provider_a", "provider_b"} THEN None ELSE Api!Status(result)]
  <2>1. at' = [at EXCEPT ![r] = x]
    BY <1>3 DEF Api!Ends
  <2>2. at'[r] = x /\ x.step = "ended"
    BY <2>1 DEF ApiInv
  <2>3. CallCounts(r)'
    BY <2>2 DEF CallCounts
  <2>4. TriedEnough(seen'[r])
    BY <1>1, <1>3 DEF TriedEnough
  <2> HIDE DEF x
  <2>5. ~(Len(seen'[r]) > 0)
    BY <1>1
  <2> QED BY <2>1, <2>3, <2>4, <2>5, OneRequestGoes
<1>4. CASE (p \notin OverLibrary \/ MaxRetries # 0) /\ Api!Calls(r, p, 1)
  <2> DEFINE x == [step |-> "call", by |-> p, attempt |-> 1]
  <2>1. at' = [at EXCEPT ![r] = x]
    BY <1>4 DEF Api!Calls
  <2>2. at'[r] = x /\ x.step = "call" /\ x.by = p /\ x.attempt = 1
    BY <2>1 DEF ApiInv
  <2>3. CallCounts(r)'
    BY <1>1, <1>4, <2>2 DEF CallCounts
  <2> HIDE DEF x
  <2> QED BY <2>1, <2>2, <2>3, OneRequestGoes
<1> QED BY <1>2, <1>3, <1>4

LEMMA AnswerComes ==
  ASSUME ApiNames, ApiInv, NEW r \in Requests, Api!Answered(r)
  PROVE  ApiInv'
<1> DEFINE p == at[r].by  n == Len(seen[r])
<1>1. PICK answer \in Api!Answers(p) :
        /\ seen' = [seen EXCEPT ![r] = Append(@, answer)]
        /\ IF Api!Again(p, answer, at[r].attempt) THEN Api!Calls(r, p, at[r].attempt + 1)
           ELSE \E result \in Api!Result(p, answer) : Api!Ends(r, p, result)
  BY DEF Api!Answered
<1>2. at[r].step = "call" /\ answer \in AnyAnswer /\ n \in Nat
  BY <1>1 DEF Api!Answered, AnyAnswer, Api!Answers, ApiInv
<1>3. /\ seen'[r] \in Seq(AnyAnswer) /\ Len(seen'[r]) = n + 1 /\ seen'[r][n + 1] = answer
      /\ \A k \in 1..n : seen'[r][k] = seen[r][k]
  <2>1. seen[r] \in Seq(AnyAnswer) /\ seen'[r] = Append(seen[r], answer)
    BY <1>1 DEF ApiInv
  <2> QED BY <1>2, <2>1
<1>4. p \in OverLibrary =>
        /\ at[r].attempt = n + 1 /\ n + 1 <= MaxRetries
        /\ \A k \in 1..n : seen'[r][k].kind \in Api!Passing
  BY <1>2, <1>3 DEF ApiInv, CallCounts
<1>5. CASE Api!Again(p, answer, at[r].attempt)
  <2> DEFINE x == [step |-> "call", by |-> p, attempt |-> at[r].attempt + 1]
  <2>1. at' = [at EXCEPT ![r] = x] /\ at'[r] = x /\ x.step = "call" /\ x.attempt = at[r].attempt + 1
        /\ p \in OverLibrary /\ answer.kind \in Api!Passing /\ at[r].attempt < MaxRetries
    BY <1>1, <1>5 DEF Api!Calls, Api!Again, ApiInv, OverLibrary
  <2>2. \A k \in 1..(n + 1) : seen'[r][k].kind \in Api!Passing
    BY <1>2, <1>3, <1>4, <2>1
  <2>3. CallCounts(r)'
    <3> HIDE DEF n
    <3> QED BY <1>2, <1>3, <1>4, <2>1, <2>2 DEF CallCounts, ApiNames
  <2> HIDE DEF x
  <2> QED BY <1>1, <1>2, <2>1, <2>3, OneRequestGoes
<1>6. CASE ~Api!Again(p, answer, at[r].attempt)
  <2>1. PICK result \in Api!Result(p, answer) : Api!Ends(r, p, result)
    BY <1>1, <1>6
  <2> DEFINE x == [step |-> "ended", by |-> p, result |-> result,
                   status |-> IF p \in {"provider_a", "provider_b"} THEN None ELSE Api!Status(result)]
  <2>2. at' = [at EXCEPT ![r] = x] /\ at'[r] = x /\ x.step = "ended" /\ x.by = p
    BY <2>1 DEF Api!Ends, ApiInv
  <2>3. CallCounts(r)'
    BY <2>2 DEF CallCounts
  <2>4. ASSUME p \in OverLibrary
        PROVE  /\ ToldAs(answer.kind, x.status)
               /\ answer.kind \in Api!Passing => n + 1 = MaxRetries
    <3>1. x.status = Api!Status(result) /\ answer.kind \in Api!Failures \cup {"ok"}
      BY <1>1, <2>4 DEF OverLibrary, Api!Answers
    <3>2. result = IF answer.kind = "ok" THEN "ok" ELSE Api!Raised(answer.kind)
      BY <2>1, <2>4 DEF OverLibrary, Api!Result
    <3>3. answer.kind \in Api!Passing => n + 1 = MaxRetries
      <4> HIDE DEF n
      <4> QED BY <1>2, <1>4, <1>6, <2>4 DEF Api!Again, OverLibrary, ApiNames
    <3> HIDE DEF x, n
    <3> QED BY <3>1, <3>2, <3>3 DEF Api!Status, Api!Raised, Api!Failures, ToldAs
  <2> HIDE DEF x
  <2>5. p \in OverLibrary => TriedEnough(seen'[r])
    <3> HIDE DEF n, p
    <3> SUFFICES ASSUME p \in OverLibrary PROVE TriedEnough(seen'[r])
      OBVIOUS
    <3>1. seen'[r][n + 1].kind \in Api!Passing => n + 1 = MaxRetries
      BY <1>3, <2>4
    <3> DEFINE s == seen'[r]  l == n + 1
    <3>2. /\ Len(s) = l /\ l <= MaxRetries /\ \A k \in 1..(l - 1) : s[k].kind \in Api!Passing
          /\ s[l].kind \in Api!Passing => l = MaxRetries
      <4>1. Len(s) = l
        BY <1>3
      <4>2. l <= MaxRetries
        BY <1>4
      <4>3. \A k \in 1..(l - 1) : s[k].kind \in Api!Passing
        BY <1>2, <1>4
      <4>4. s[l].kind \in Api!Passing => l = MaxRetries
        BY <3>1
      <4> QED BY <4>1, <4>2, <4>3, <4>4
    <3> HIDE DEF s, l
    <3>3. TriedEnough(s)
      BY <3>2 DEF TriedEnough
    <3> QED BY <3>3 DEF s
  <2>6. \E a \in AnyAnswer : seen' = [seen EXCEPT ![r] = Append(@, a)]
    BY <1>1, <1>2
  <2> HIDE DEF n
  <2> QED BY <1>3, <2>2, <2>3, <2>4, <2>5, <2>6, OneRequestGoes
<1> QED BY <1>5, <1>6

LEMMA ApiStep ==
  ASSUME ApiNames, ApiInv, [Api!Next]_Api!vars
  PROVE  ApiInv'
<1>1. ASSUME NEW r \in Requests, NEW m, NEW roles, NEW keyed, Api!chat_completion(r, m, roles, keyed)
      PROVE  ApiInv'
  <2>1. at[r].step = "new" /\ seen' = seen
    BY <1>1 DEF Api!chat_completion
  <2>2. \/ \E result : Api!Ends(r, None, result)
        \/ \E p : Api!Starts(r, p, Api!Said(roles))
    BY <1>1 DEF Api!chat_completion
  <2> QED BY <2>1, <2>2, RequestStarts DEF Api!Starts, OverLibrary
<1>2. ASSUME NEW r \in Requests, NEW p, NEW roles, Api!chat(r, p, roles)
      PROVE  ApiInv'
  BY <1>2, RequestStarts DEF Api!chat, Api!Starts, OverLibrary
<1>3. CASE UNCHANGED Api!vars
  BY <1>3 DEF Api!vars, ApiInv, CallCounts, Api!AskedAsNeeded, Api!StatusTells
<1> QED BY <1>1, <1>2, <1>3, AnswerComes DEF Api!Next

(* api/chat.py over the adapters: whatever the vendor answers, what failed   *)
(* for good is not sent again, what may pass is tried as often as allowed    *)
(* and no more, and the status tells success, a wrong key, the vendor's      *)
(* limit and its slowness from one another.                                  *)
THEOREM RetriesEndAndTell ==
  ASSUME ApiNames
  PROVE  Api!Spec => [](Api!AskedAsNeeded /\ Api!StatusTells)
<1>1. Api!Init => ApiInv
  BY ApiInit
<1>2. ApiInv /\ [Api!Next]_Api!vars => ApiInv'
  BY ApiStep
<1>3. ApiInv => Api!AskedAsNeeded /\ Api!StatusTells
  BY DEF ApiInv
<1> QED BY <1>1, <1>2, <1>3, PTL DEF Api!Spec

-----------------------------------------------------------------------------
CONSTANTS Streams, kind, BufferSize
VARIABLES task, made, active, consumer, buffer, given

Merge == INSTANCE ProviderStreams

Parts == [of : Streams, at : Nat, final : BOOLEAN]
Sentinels == {Merge!Sentinel(s) : s \in Streams}

(* The streams whose end a queue holds, each of them once.                  *)
EndsIn(q) == {s \in Streams : \E i \in 1..Len(q) : q[i] = Merge!Sentinel(s)}
Once(q) ==
  \A i, j \in 1..Len(q) : \A s \in Streams :
    q[i] = Merge!Sentinel(s) /\ q[j] = Merge!Sentinel(s) => i = j

(* The streams the consumer has still to hear the end of.                   *)
Open == {s \in Streams : task[s] # "ended" \/ s \in EndsIn(queue)}

AllHaveEnded == consumer = "cleans" => \A s \in Streams : task[s] = "ended"

MergeInv ==
  /\ task \in [Streams -> {"runs", "ended", "raised", "cancelled"}]
  /\ made \in [Streams -> Nat]
  /\ queue \in Seq(Parts \cup Sentinels) /\ Once(queue)
  /\ \A s \in EndsIn(queue) : task[s] = "ended"
  /\ active = Cardinality(Open)
  /\ AllHaveEnded /\ Merge!NoTaskLeft

LEMMA PartsAreNoEnds ==
  ASSUME NEW c \in Parts, NEW s PROVE c # Merge!Sentinel(s)
<1>1. DOMAIN c = {"of", "at", "final"}
  BY DEF Parts
<1>2. DOMAIN Merge!Sentinel(s) = {"of"}
  BY DEF Merge!Sentinel
<1> QED BY <1>1, <1>2

LEMMA EndsDiffer ==
  ASSUME NEW s, NEW t, Merge!Sentinel(s) = Merge!Sentinel(t) PROVE s = t
<1>1. Merge!Sentinel(s).of = s /\ Merge!Sentinel(t).of = t
  BY DEF Merge!Sentinel
<1> QED BY <1>1

LEMMA PartAdded ==
  ASSUME NEW q \in Seq(Parts \cup Sentinels), Once(q), NEW c \in Parts
  PROVE  /\ Append(q, c) \in Seq(Parts \cup Sentinels)
         /\ EndsIn(Append(q, c)) = EndsIn(q) /\ Once(Append(q, c))
<1>1. /\ Append(q, c) \in Seq(Parts \cup Sentinels) /\ Len(Append(q, c)) = Len(q) + 1 /\ Len(q) \in Nat
      /\ Append(q, c)[Len(q) + 1] = c
      /\ \A i \in 1..Len(q) : Append(q, c)[i] = q[i]
  OBVIOUS
<1>2. ASSUME NEW i \in 1..Len(Append(q, c)), NEW s \in Streams, Append(q, c)[i] = Merge!Sentinel(s)
      PROVE  i \in 1..Len(q) /\ q[i] = Merge!Sentinel(s)
  BY <1>1, <1>2, PartsAreNoEnds
<1>3. EndsIn(Append(q, c)) = EndsIn(q)
  BY <1>1, <1>2 DEF EndsIn
<1>4. Once(Append(q, c))
  BY <1>2 DEF Once
<1> QED BY <1>1, <1>3, <1>4

LEMMA EndAdded ==
  ASSUME NEW q \in Seq(Parts \cup Sentinels), Once(q), NEW t \in Streams, t \notin EndsIn(q)
  PROVE  /\ Append(q, Merge!Sentinel(t)) \in Seq(Parts \cup Sentinels)
         /\ EndsIn(Append(q, Merge!Sentinel(t))) = EndsIn(q) \cup {t}
         /\ Once(Append(q, Merge!Sentinel(t)))
<1> DEFINE e == Merge!Sentinel(t)
<1>0. e \in Parts \cup Sentinels
  BY DEF Sentinels
<1>1. /\ Append(q, e) \in Seq(Parts \cup Sentinels) /\ Len(Append(q, e)) = Len(q) + 1 /\ Len(q) \in Nat
      /\ Append(q, e)[Len(q) + 1] = e
      /\ \A i \in 1..Len(q) : Append(q, e)[i] = q[i]
  BY <1>0
<1>2. ASSUME NEW i \in 1..Len(Append(q, e)), NEW s \in Streams, Append(q, e)[i] = Merge!Sentinel(s)
      PROVE  \/ i \in 1..Len(q) /\ q[i] = Merge!Sentinel(s) /\ s # t
             \/ i = Len(q) + 1 /\ s = t
  <2>1. CASE i \in 1..Len(q)
    BY <1>1, <1>2, <2>1 DEF EndsIn
  <2>2. CASE i = Len(q) + 1
    BY <1>1, <1>2, <2>2, EndsDiffer
  <2> QED BY <1>1, <2>1, <2>2
<1> HIDE DEF e
<1>3. EndsIn(Append(q, e)) = EndsIn(q) \cup {t}
  <2>1. t \in EndsIn(Append(q, e))
    BY <1>1 DEF EndsIn, e
  <2>2. ASSUME NEW s \in EndsIn(q) PROVE s \in EndsIn(Append(q, e))
    BY <1>1 DEF EndsIn
  <2>3. ASSUME NEW s \in EndsIn(Append(q, e)) PROVE s \in EndsIn(q) \cup {t}
    BY <1>2 DEF EndsIn
  <2> QED BY <2>1, <2>2, <2>3
<1>4. Once(Append(q, e))
  BY <1>1, <1>2 DEF Once
<1> QED BY <1>1, <1>3, <1>4 DEF e

LEMMA FirstTaken ==
  ASSUME NEW q \in Seq(Parts \cup Sentinels), Once(q), q # <<>>
  PROVE  /\ Head(q) \in Parts \cup Sentinels /\ Tail(q) \in Seq(Parts \cup Sentinels) /\ Once(Tail(q))
         /\ Head(q) = Merge!Sentinel(Head(q).of) => /\ Head(q).of \in EndsIn(q)
                                                   /\ EndsIn(Tail(q)) = EndsIn(q) \ {Head(q).of}
         /\ Head(q) # Merge!Sentinel(Head(q).of) => EndsIn(Tail(q)) = EndsIn(q)
<1>1. /\ Len(q) \in Nat /\ 1 \in 1..Len(q) /\ q[1] = Head(q) /\ Head(q) \in Parts \cup Sentinels
      /\ Tail(q) \in Seq(Parts \cup Sentinels) /\ Len(Tail(q)) = Len(q) - 1
      /\ \A i \in 1..Len(Tail(q)) : i + 1 \in 1..Len(q) /\ Tail(q)[i] = q[i + 1]
  OBVIOUS
<1>2. Once(Tail(q))
  <2> SUFFICES ASSUME NEW i \in 1..Len(Tail(q)), NEW j \in 1..Len(Tail(q)), NEW s \in Streams,
                      Tail(q)[i] = Merge!Sentinel(s), Tail(q)[j] = Merge!Sentinel(s)
               PROVE  i = j
    BY DEF Once
  <2>1. i + 1 = j + 1
    BY <1>1 DEF Once
  <2> QED BY <1>1, <2>1
<1>3. ASSUME NEW s \in Streams
      PROVE  /\ s \in EndsIn(Tail(q)) => s \in EndsIn(q) /\ q[1] # Merge!Sentinel(s)
             /\ s \in EndsIn(q) /\ q[1] # Merge!Sentinel(s) => s \in EndsIn(Tail(q))
  <2>1. ASSUME s \in EndsIn(Tail(q)) PROVE s \in EndsIn(q) /\ q[1] # Merge!Sentinel(s)
    <3>1. PICK i \in 1..Len(Tail(q)) : Tail(q)[i] = Merge!Sentinel(s)
      BY <2>1 DEF EndsIn
    <3> DEFINE a == i + 1
    <3>2. a \in 1..Len(q) /\ q[a] = Merge!Sentinel(s) /\ a # 1
      BY <1>1, <3>1
    <3> HIDE DEF a
    <3> QED BY <1>1, <3>2 DEF EndsIn, Once
  <2>2. ASSUME s \in EndsIn(q), q[1] # Merge!Sentinel(s) PROVE s \in EndsIn(Tail(q))
    <3>1. PICK i \in 1..Len(q) : q[i] = Merge!Sentinel(s) /\ i # 1
      BY <2>2 DEF EndsIn
    <3> DEFINE a == i - 1
    <3>2. a \in 1..Len(Tail(q)) /\ Tail(q)[a] = Merge!Sentinel(s)
      BY <1>1, <3>1
    <3> HIDE DEF a
    <3> QED BY <3>2 DEF EndsIn
  <2> QED BY <2>1, <2>2
<1>4. ASSUME Head(q) = Merge!Sentinel(Head(q).of)
      PROVE  Head(q).of \in EndsIn(q) /\ EndsIn(Tail(q)) = EndsIn(q) \ {Head(q).of}
  <2>1. PICK t \in Streams : Head(q) = Merge!Sentinel(t)
    BY <1>1, <1>4, PartsAreNoEnds DEF Sentinels
  <2>2. t = Head(q).of
    BY <1>4, <2>1, EndsDiffer
  <2>3. t \in EndsIn(q)
    BY <1>1, <2>1 DEF EndsIn
  <2>4. \A s \in Streams : q[1] = Merge!Sentinel(s) <=> s = t
    BY <1>1, <2>1, EndsDiffer
  <2>5. EndsIn(Tail(q)) = EndsIn(q) \ {t}
    BY <1>3, <2>4 DEF EndsIn
  <2> QED BY <2>2, <2>3, <2>5
<1>5. ASSUME Head(q) # Merge!Sentinel(Head(q).of)
      PROVE  EndsIn(Tail(q)) = EndsIn(q)
  <2>1. \A s \in Streams : q[1] # Merge!Sentinel(s)
    BY <1>1, <1>5 DEF Merge!Sentinel
  <2> QED BY <1>3, <2>1 DEF EndsIn
<1> QED BY <1>1, <1>2, <1>4, <1>5

LEMMA MergeInit ==
  ASSUME IsFiniteSet(Streams), Merge!Init PROVE MergeInv
<1>1. /\ task = [s \in Streams |-> "runs"] /\ made = [s \in Streams |-> 0] /\ queue = <<>>
      /\ active = Cardinality(Streams) /\ consumer = "waits" /\ Len(queue) = 0
  <2>1. Merge!Cardinality(Streams) = Cardinality(Streams)
    BY DEF Merge!Cardinality, Cardinality
  <2> QED BY <2>1 DEF Merge!Init
<1>2. Open = Streams
  BY <1>1 DEF Open
<1>3. EndsIn(queue) = {} /\ Once(queue)
  BY <1>1 DEF EndsIn, Once
<1> QED BY <1>1, <1>2, <1>3 DEF MergeInv, AllHaveEnded, Merge!NoTaskLeft

(* A task goes on with its stream, the consumer does nothing. *)
LEMMA TaskGoes ==
  ASSUME IsFiniteSet(Streams), MergeInv, NEW s \in Streams,
         Merge!Yields(s) \/ Merge!Ends(s) \/ Merge!Raises(s)
  PROVE  MergeInv'
<1>1. /\ task[s] = "runs" /\ active' = active /\ consumer' = consumer
      /\ task \in [Streams -> {"runs", "ended", "raised", "cancelled"}]
      /\ made \in [Streams -> Nat] /\ queue \in Seq(Parts \cup Sentinels) /\ Once(queue)
      /\ s \notin EndsIn(queue)
  BY DEF MergeInv, Merge!Yields, Merge!Ends, Merge!Raises
<1>2. /\ task' \in [Streams -> {"runs", "ended", "raised", "cancelled"}]
      /\ made' \in [Streams -> Nat]
      /\ queue' \in Seq(Parts \cup Sentinels) /\ Once(queue')
      /\ \A t \in Streams : t # s => task'[t] = task[t]
      /\ \/ task'[s] = "ended" /\ EndsIn(queue') = EndsIn(queue) \cup {s}
         \/ task'[s] # "ended" /\ EndsIn(queue') = EndsIn(queue)
  <2>1. CASE Merge!Yields(s)
    <3>1. PICK chunks \in Merge!Chunks(s) :
            /\ made' = [made EXCEPT ![s] = @ + Len(chunks)]
            /\ IF Merge!StopsAt(s, chunks)
                 THEN /\ task' = [task EXCEPT ![s] = "ended"]
                      /\ queue' = Append(queue \o chunks, Merge!Sentinel(s))
                 ELSE task' = task /\ queue' = queue \o chunks
      BY <2>1 DEF Merge!Yields
    <3>2. \/ \E c \in Parts : chunks = <<c>>
          \/ \E c, d \in Parts : chunks = <<c, d>>
      <4>1. \A n \in Nat : \A final \in BOOLEAN : Merge!Chunk(s, n, final) \in Parts
        BY DEF Merge!Chunk, Parts
      <4>2. made[s] \in Nat /\ made[s] + 1 \in Nat
        BY <1>1
      <4>3. \/ \E final \in BOOLEAN : chunks = <<Merge!Chunk(s, made[s], final)>>
            \/ chunks = <<Merge!Chunk(s, made[s], FALSE), Merge!Chunk(s, made[s] + 1, TRUE)>>
        BY <3>1 DEF Merge!Chunks, Merge!OfOpenAI, Merge!OfAnthropic
      <4> QED BY <4>1, <4>2, <4>3
    <3>3. /\ Len(chunks) \in Nat /\ queue \o chunks \in Seq(Parts \cup Sentinels)
          /\ Once(queue \o chunks) /\ EndsIn(queue \o chunks) = EndsIn(queue)
      <4>1. CASE \E c \in Parts : chunks = <<c>>
        <5>1. PICK c \in Parts : chunks = <<c>>
          BY <4>1
        <5>2. queue \o <<c>> = Append(queue, c)
          BY <1>1
        <5> QED BY <1>1, <5>1, <5>2, PartAdded
      <4>2. CASE \E c, d \in Parts : chunks = <<c, d>>
        <5>1. PICK c \in Parts, d \in Parts : chunks = <<c, d>>
          BY <4>2
        <5>2. queue \o <<c, d>> = Append(Append(queue, c), d)
          BY <1>1
        <5>3. /\ Append(queue, c) \in Seq(Parts \cup Sentinels) /\ Once(Append(queue, c))
              /\ EndsIn(Append(queue, c)) = EndsIn(queue)
          BY <1>1, PartAdded
        <5>4. Len(chunks) \in Nat
          BY <5>1
        <5> QED BY <5>1, <5>2, <5>3, <5>4, PartAdded
      <4> QED BY <3>2, <4>1, <4>2
    <3>4. made' \in [Streams -> Nat]
      BY <1>1, <3>1, <3>3
    <3>5. CASE Merge!StopsAt(s, chunks)
      <4>1. /\ task' = [task EXCEPT ![s] = "ended"]
            /\ queue' = Append(queue \o chunks, Merge!Sentinel(s))
        BY <3>1, <3>5
      <4>2. /\ queue' \in Seq(Parts \cup Sentinels) /\ Once(queue')
            /\ EndsIn(queue') = EndsIn(queue) \cup {s}
        BY <1>1, <3>3, <4>1, EndAdded
      <4> QED BY <1>1, <3>4, <4>1, <4>2
    <3>6. CASE ~Merge!StopsAt(s, chunks)
      BY <1>1, <3>1, <3>3, <3>4, <3>6
    <3> QED BY <3>5, <3>6
  <2>2. CASE Merge!Ends(s)
    BY <1>1, <2>2, EndAdded DEF Merge!Ends
  <2>3. CASE Merge!Raises(s)
    BY <1>1, <2>3 DEF Merge!Raises
  <2> QED BY <2>1, <2>2, <2>3
<1>3. Open' = Open
  BY <1>1, <1>2 DEF Open
<1>4. \A t \in EndsIn(queue)' : task'[t] = "ended"
  BY <1>1, <1>2 DEF MergeInv, EndsIn
<1>5. AllHaveEnded' /\ Merge!NoTaskLeft'
  BY <1>1 DEF MergeInv, AllHaveEnded, Merge!NoTaskLeft
<1> QED BY <1>1, <1>2, <1>3, <1>4, <1>5 DEF MergeInv

LEMMA EndIsHeard ==
  ASSUME IsFiniteSet(Streams), MergeInv, Merge!Takes
  PROVE  MergeInv'
<1> DEFINE e == Head(queue)
<1>1. /\ consumer = "waits" /\ queue # <<>> /\ queue' = Tail(queue) /\ task' = task /\ made' = made
      /\ queue \in Seq(Parts \cup Sentinels) /\ Once(queue)
  BY DEF Merge!Takes, MergeInv
<1>2. queue' \in Seq(Parts \cup Sentinels) /\ Once(queue')
  BY <1>1, FirstTaken
<1>3. IsFiniteSet(Open) /\ active = Cardinality(Open)
  BY FS_Subset DEF Open, MergeInv
<1>4. CASE e = Merge!Sentinel(e.of)
  <2>1. e.of \in EndsIn(queue) /\ EndsIn(queue') = EndsIn(queue) \ {e.of}
    BY <1>1, <1>4, FirstTaken
  <2>2. e.of \in Open /\ Open' = Open \ {e.of}
    BY <1>1, <2>1 DEF Open, EndsIn, MergeInv
  <2>3. Cardinality(Open') = Cardinality(Open) - 1 /\ IsFiniteSet(Open')
    BY <1>3, <2>2, FS_RemoveElement
  <2>4. active' = active - 1 /\ consumer' = IF active = 1 THEN "cleans" ELSE "waits"
    BY <1>1, <1>4 DEF Merge!Takes
  <2>5. active = 1 => \A s \in Streams : task[s] = "ended"
    <3>1. active = 1 => Open' = {}
      BY <1>3, <2>3, FS_EmptySet
    <3> QED BY <1>1, <3>1 DEF Open
  <2>6. AllHaveEnded' /\ Merge!NoTaskLeft'
    BY <1>1, <2>4, <2>5 DEF AllHaveEnded, Merge!NoTaskLeft
  <2> QED BY <1>1, <1>2, <1>3, <2>1, <2>3, <2>4, <2>6 DEF MergeInv
<1>5. CASE e # Merge!Sentinel(e.of)
  <2>1. EndsIn(queue') = EndsIn(queue)
    BY <1>1, <1>5, FirstTaken
  <2>2. active' = active /\ consumer' \in {"waits", "holds"}
    BY <1>1, <1>5 DEF Merge!Takes
  <2>3. Open' = Open
    BY <1>1, <2>1 DEF Open
  <2> QED BY <1>1, <1>2, <2>1, <2>2, <2>3 DEF MergeInv, AllHaveEnded, Merge!NoTaskLeft
<1> QED BY <1>4, <1>5

LEMMA MergeStep ==
  ASSUME IsFiniteSet(Streams), MergeInv, [Merge!Next]_Merge!vars
  PROVE  MergeInv'
<1>1. CASE Merge!Asks \/ Merge!Leaves \/ UNCHANGED Merge!vars
  <2>1. /\ task' = task /\ made' = made /\ queue' = queue /\ active' = active
        /\ consumer' \in {"waits", "left"} \/ consumer' = consumer
    BY <1>1 DEF Merge!Asks, Merge!Leaves, Merge!vars
  <2> QED BY <2>1 DEF MergeInv, Open, AllHaveEnded, Merge!NoTaskLeft
<1>2. CASE Merge!Cleans
  <2>1. CASE \E s \in Streams : task[s] = "runs"
    <3>1. PICK s \in Streams : task[s] = "runs" /\ task' = [task EXCEPT ![s] = "cancelled"]
      BY <1>2, <2>1 DEF Merge!Cleans
    <3>2. /\ made' = made /\ queue' = queue /\ active' = active /\ consumer' = consumer
          /\ consumer \in {"cleans", "left"}
      BY <1>2, <2>1 DEF Merge!Cleans
    <3>3. /\ task' \in [Streams -> {"runs", "ended", "raised", "cancelled"}]
          /\ \A t \in Streams : (task'[t] = "ended") <=> (task[t] = "ended")
      BY <3>1 DEF MergeInv
    <3>4. Open' = Open
      BY <3>2, <3>3 DEF Open
    <3>5. \A t \in EndsIn(queue) : task'[t] = "ended"
      BY <3>3 DEF MergeInv, EndsIn
    <3> QED BY <3>2, <3>3, <3>4, <3>5 DEF MergeInv, AllHaveEnded, Merge!NoTaskLeft
  <2>2. CASE ~\E s \in Streams : task[s] = "runs"
    <3>1. /\ task' = task /\ made' = made /\ queue' = queue /\ active' = active /\ consumer' = "ended"
      BY <1>2, <2>2 DEF Merge!Cleans
    <3> QED BY <2>2, <3>1 DEF MergeInv, Open, AllHaveEnded, Merge!NoTaskLeft
  <2> QED BY <2>1, <2>2
<1> QED BY <1>1, <1>2, TaskGoes, EndIsHeard DEF Merge!Next

(* providers/streaming_mixin.py: however the tasks of a merge and its consumer *)
(* interleave, the merge ends by itself only when every stream has ended, and  *)
(* whoever stops it, and whenever, no task is left running behind it.          *)
THEOREM MergeWaitsForAll ==
  ASSUME IsFiniteSet(Streams)
  PROVE  Merge!Spec => [](Merge!NoTaskLeft
                          /\ (consumer = "cleans" => \A s \in Streams : task[s] = "ended"))
<1>1. Merge!Init => MergeInv
  BY MergeInit
<1>2. MergeInv /\ [Merge!Next]_Merge!vars => MergeInv'
  BY MergeStep
<1>3. MergeInv => /\ Merge!NoTaskLeft
                  /\ consumer = "cleans" => \A s \in Streams : task[s] = "ended"
  BY DEF MergeInv, AllHaveEnded
<1> QED BY <1>1, <1>2, <1>3, PTL DEF Merge!Spec
=============================================================================
