---------------------------- MODULE EventSockets ----------------------------
(***************************************************************************)
(* ws_handlers/manager.py and handlers.py: connections are accepted,       *)
(* indexed by their tenant, welcomed and served by an endpoint of their    *)
(* own, while the heartbeat, the clean-up and the shutdown disconnect them *)
(* too. The indexes by user and by conversation are kept like that by      *)
(* tenant. `joined` remembers the tenant a connection was indexed under:   *)
(* an authentication gives it another one.                                 *)
(***************************************************************************)
EXTENDS Naturals, FiniteSets

CONSTANTS Connections, Tenants, None, MaxPerTenant,
          Loops,       \* of "heartbeat", "cleanup", "shutdown"
          AuthTenant   \* the tenant that the authentication assigns

VARIABLES connections, tenant, joined, index, at, dead, running, busy, leaving
vars == <<connections, tenant, joined, index, at, dead, running, busy, leaving>>

Init ==
  /\ connections = {} /\ dead = {} /\ leaving = {}
  /\ tenant = [c \in Connections |-> None]
  /\ joined = [c \in Connections |-> None]
  /\ index = [t \in Tenants |-> {}]
  /\ at = [c \in Connections |-> "new"]
  /\ running = FALSE
  /\ busy = [l \in Loops |-> None]    \* the connection a loop disconnects

TypeOK ==
  /\ connections \subseteq Connections /\ dead \subseteq Connections
  /\ leaving \subseteq Connections
  /\ tenant \in [Connections -> Tenants \cup {None}]
  /\ joined \in [Connections -> Tenants \cup {None}]
  /\ index \in [Tenants -> SUBSET Connections]
  /\ at \in [Connections -> {"new", "accepting", "welcoming", "serving", "answering",
                             "closing", "ended"}]
  /\ running \in BOOLEAN
  /\ busy \in [Loops -> Connections \cup {None}]

Goes(c, place) == at' = [at EXCEPT ![c] = place]

\* Variant: a connection is indexed before it is accepted.
connect_Indexes(c, t) ==
  /\ at[c] = "new"
  /\ t # None => Cardinality(index[t]) < MaxPerTenant
  /\ tenant' = [tenant EXCEPT ![c] = t]
  /\ index' = [u \in Tenants |-> IF u = t THEN index[u] \cup {c} ELSE index[u]]
  /\ Goes(c, "accepting")
  /\ UNCHANGED <<connections, joined, dead, running, busy, leaving>>

connect(c, t) ==
  /\ at[c] = "new"
  /\ t # None => Cardinality(index[t]) < MaxPerTenant
  /\ tenant' = [tenant EXCEPT ![c] = t]
  /\ Goes(c, "accepting")
  /\ UNCHANGED <<connections, joined, index, dead, running, busy, leaving>>

Accepted(c) ==
  /\ at[c] = "accepting"
  /\ connections' = connections \cup {c}
  /\ joined' = [joined EXCEPT ![c] = tenant[c]]
  /\ index' = [t \in Tenants |-> IF t = tenant[c] THEN index[t] \cup {c} ELSE index[t]]
  /\ Goes(c, "welcoming")
  /\ UNCHANGED <<tenant, dead, running, busy, leaving>>
NotAccepted(c) ==
  /\ at[c] = "accepting"
  /\ Goes(c, "ended")
  /\ UNCHANGED <<connections, tenant, joined, index, dead, running, busy, leaving>>

(* A welcome that cannot be written leaves the connection in the tables     *)
(* without an endpoint, and does not start the background tasks.            *)
Welcomed(c) ==
  /\ at[c] = "welcoming"
  /\ IF c \notin connections \ dead
       THEN Goes(c, "ended") /\ UNCHANGED running
       ELSE Goes(c, "serving") /\ running' = TRUE
  /\ UNCHANGED <<connections, tenant, joined, index, dead, busy, leaving>>

_handle_auth_request(c) ==
  /\ at[c] = "serving"
  /\ tenant' = [tenant EXCEPT ![c] = AuthTenant]
  /\ UNCHANGED <<connections, joined, index, at, dead, running, busy, leaving>>

(* A chat is answered by writes and waits. *)
_handle_chat_message(c) ==
  /\ at[c] = "serving"
  /\ Goes(c, "answering")
  /\ UNCHANGED <<connections, tenant, joined, index, dead, running, busy, leaving>>
Answered(c) ==
  /\ at[c] = "answering" /\ c \in connections \ dead
  /\ Goes(c, "serving")
  /\ UNCHANGED <<connections, tenant, joined, index, dead, running, busy, leaving>>

(* The endpoint's loop ends with the connection, a bad message or a write   *)
(* that fails; disconnect returns at once for what is not in the table.     *)
Finishes(c) ==
  /\ at[c] \in {"serving", "answering"}
  /\ Goes(c, IF c \in connections THEN "closing" ELSE "ended")
  /\ UNCHANGED <<connections, tenant, joined, index, dead, running, busy, leaving>>

(* After the last write and the close: the tenant of now loses it. Removing *)
(* it again raises, after the index was cleared again.                      *)
Removed(c) ==
  /\ index' = [t \in Tenants |-> IF t = tenant[c] THEN index[t] \ {c} ELSE index[t]]
  /\ connections' = connections \ {c}

EndpointCloses(c) ==
  /\ at[c] = "closing"
  /\ Removed(c)
  /\ Goes(c, "ended")
  /\ UNCHANGED <<tenant, joined, dead, running, busy, leaving>>

(* The heartbeat disconnects those it cannot write to, the clean-up those   *)
(* that have been quiet for long, the shutdown all there were.              *)
Wants(l, c) ==
  /\ c \in connections
  /\ CASE l = "heartbeat" -> running /\ c \in dead
       [] l = "cleanup" -> running
       [] l = "shutdown" -> c \in leaving
Takes(l, c) ==
  /\ busy[l] = None /\ Wants(l, c)
  /\ busy' = [busy EXCEPT ![l] = c]
  /\ UNCHANGED <<connections, tenant, joined, index, at, dead, running, leaving>>

(* A KeyError ends the shutdown; the loops go on with their next round. *)
Drops(l) ==
  /\ busy[l] # None
  /\ Removed(busy[l])
  /\ busy' = [busy EXCEPT ![l] = None]
  /\ leaving' = IF l # "shutdown" THEN leaving
                ELSE IF busy[l] \in connections THEN leaving \ {busy[l]} ELSE {}
  /\ UNCHANGED <<tenant, joined, at, dead, running>>

(* The tasks are cancelled where they are. A later connection starts them.  *)
shutdown ==
  /\ "shutdown" \in Loops /\ busy["shutdown"] = None
  /\ running' = FALSE
  /\ busy' = [l \in Loops |-> None]
  /\ leaving' = connections
  /\ UNCHANGED <<connections, tenant, joined, index, at, dead>>

Vanishes(c) ==
  /\ at[c] \notin {"new", "ended"} /\ c \notin dead
  /\ dead' = dead \cup {c}
  /\ UNCHANGED <<connections, tenant, joined, index, at, running, busy, leaving>>

Endpoint(c) == Accepted(c) \/ NotAccepted(c) \/ Welcomed(c) \/ Answered(c)
               \/ EndpointCloses(c)
Next ==
  \/ \E c \in Connections :
       \/ \E t \in Tenants \cup {None} : connect(c, t)
       \/ Endpoint(c) \/ _handle_auth_request(c) \/ _handle_chat_message(c)
       \/ Finishes(c) \/ Vanishes(c)
       \/ \E l \in Loops : Takes(l, c)
  \/ \E l \in Loops : Drops(l)
  \/ shutdown

Fairness ==
  /\ \A c \in Connections : WF_vars(Takes("heartbeat", c))
  /\ WF_vars(Drops("heartbeat"))

Spec == Init /\ [][Next]_vars /\ Fairness

(* Every connection in the table is indexed under the tenant it came with.  *)
(* The index does hold connections that are gone, which use up a tenant's   *)
(* limit: each was in the table under that tenant and was given another one *)
(* by an authentication. No other way of disconnecting, by whomever, twice  *)
(* or half, leaves one.                                                     *)
IndexMatches ==
  /\ \A c \in connections : joined[c] # None => c \in index[joined[c]]
  /\ \A t \in Tenants : \A c \in index[t] \ connections :
       joined[c] = t /\ tenant[c] = AuthTenant /\ tenant[c] # t
(* A connection whose client is gone does not stay, once the background     *)
(* tasks run.                                                               *)
DeadAreDropped == \A c \in Connections : []<>(c \notin connections \cap dead \/ ~running)
=============================================================================
