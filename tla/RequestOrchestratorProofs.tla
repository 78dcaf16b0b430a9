---------------------- MODULE RequestOrchestratorProofs ----------------------
(***************************************************************************)
(* The rate windows, the providers' shares and the replay of stored        *)
(* answers, for any requests, tenants, keys, contents, limits and          *)
(* durations.                                                              *)
(*                                                                         *)
(* The history that the properties count is tied to what the code keeps:   *)
(* every request counted as admitted has its stamp (Windows), every answer *)
(* that must be replayed is stored, or a later one of its key is           *)
(* (Replays), and the calls a provider was given since any moment of the   *)
(* last minute are covered by its counter and by the resets since then     *)
(* (Shares), of which no loop has made two.                                *)
(***************************************************************************)
EXTENDS RequestOrchestrator, Integers, FiniteSetTheorems, TLAPS

Windows ==
  /\ IsFiniteSet(AllStamps) /\ Cardinality(AllStamps) <= GlobalLimit
  /\ \A r \in Requests : admitted[r] # None =>
       /\ admitted[r] <= clock /\ clock - admitted[r] < Minute
       /\ tenant[r] # None => [by |-> r, at |-> admitted[r]] \in stamps[tenant[r]]

Replays ==
  \A q \in Requests : answered[q] # None =>
    /\ q \notin Streams
    /\ answered[q] <= clock /\ clock - answered[q] < IdempotencyTtl
    /\ idempotencyKey[q] # None =>
         LET entry == stored[idempotencyKey[q]] IN
           /\ entry # None
           /\ answered[q] <= entry.at /\ entry.at <= clock
           /\ answered[entry.response] = entry.at
           /\ idempotencyKey[entry.response] = idempotencyKey[q]

\* What provider p was given from time s on, and the loops that may have reset
\* its counter since.
GivenSince(p, s) == {c \in calls[p] : c.at >= s}
TurnedSince(s) == {i \in 1..Len(loops) : loops[i] = None \/ loops[i] >= s}
Shares ==
  \A p \in Providers :
    /\ IsFiniteSet(calls[p])
    /\ \A c \in calls[p] : c.at <= clock /\ clock - c.at < Minute
    /\ \A s \in (clock + 1 - Minute)..clock :
         Cardinality(GivenSince(p, s))
           <= current[p] + MaxPerMinute * Cardinality(TurnedSince(s))

IInv == TypeOK /\ Windows /\ Replays /\ Shares

-----------------------------------------------------------------------------
(* The parts of the types that a step can disturb. *)
Stamps == [by : Requests, at : 0..MaxClock]
Calls == [by : Requests, attempt : 0..MaxAttempts, at : 0..MaxClock]
Times == 0..MaxClock \cup {None}
Places == [content : Contents, response : Requests, at : 0..MaxClock]
StampsOK ==
  /\ stamps \in [Tenants -> SUBSET Stamps]
  /\ \A t \in Tenants : IsFiniteSet(stamps[t]) /\ Cardinality(stamps[t]) <= TenantLimit
SemanticOK ==
  /\ IsFiniteSet(DOMAIN semantic) /\ Cardinality(DOMAIN semantic) <= SemanticSize
  /\ semantic \in [DOMAIN semantic -> Places]
StoresOK == cache \in [Contents -> Held] /\ stored \in [Keys -> Held]
HistoryOK ==
  /\ admitted \in [Requests -> Times] /\ answered \in [Requests -> Times]
  /\ calls \in [Providers -> SUBSET Calls]
LoopsOK == loops \in Seq(Times) /\ Len(loops) <= MaxStarts

(* What RequestAssumption says of each constant. *)
LEMMA Constants ==
  /\ Streams \subseteq Requests
  /\ TenantLimit \in Nat /\ MaxPerMinute \in Nat /\ MaxClock \in Nat /\ MaxStarts \in Nat
  /\ GlobalLimit \in Nat \ {0} /\ MaxAttempts \in Nat \ {0} /\ SemanticSize \in Nat \ {0}
  /\ Minute \in Nat \ {0} /\ Day \in Nat \ {0}
  /\ CacheTtl \in 1..Day /\ IdempotencyTtl \in 1..Day
  /\ None \notin Requests /\ None \notin 0..MaxClock
  /\ None \notin [response : Requests, at : 0..MaxClock]
BY RequestAssumption DEF RequestAssumption

(* TypeOK is the types of the parts together. *)
LEMMA TypeParts ==
  TypeOK <=> /\ clock \in 0..MaxClock /\ running \in BOOLEAN
             /\ StoresOK /\ SemanticOK /\ StampsOK /\ LoopsOK /\ HistoryOK
             /\ current \in [Providers -> 0..MaxPerMinute]
             /\ req \in [Requests -> Request]
BY DEF TypeOK, StoresOK, SemanticOK, StampsOK, LoopsOK, HistoryOK, Stamps, Calls,
       Times, Places

LEMMA TypePartsNext ==
  TypeOK' <=> /\ clock' \in 0..MaxClock /\ running' \in BOOLEAN
              /\ StoresOK' /\ SemanticOK' /\ StampsOK' /\ LoopsOK' /\ HistoryOK'
              /\ current' \in [Providers -> 0..MaxPerMinute]
              /\ req' \in [Requests -> Request]
BY DEF TypeOK, StoresOK, SemanticOK, StampsOK, LoopsOK, HistoryOK, Stamps, Calls,
       Times, Places

(* A request that ends keeps the type of the requests. *)
LEMMA EndsType ==
  ASSUME req \in [Requests -> Request], NEW r \in Requests, NEW out \in Outcomes,
         NEW response \in Requests \cup {None}, Ends(r, out, response)
  PROVE  /\ req' \in [Requests -> Request]
         /\ req'[r].at = "done" /\ req'[r].out = out /\ req'[r].response = response
<1>1. req[r] \in Request  OBVIOUS
<1>2. req'[r] = [req[r] EXCEPT !.at = "done", !.on = None,
                               !.out = out, !.response = response]
  BY DEF Ends
<1>3. req'[r] \in Request /\ req'[r].at = "done" /\ req'[r].out = out
        /\ req'[r].response = response
  BY <1>1, <1>2 DEF Request
<1>4. \A q \in Requests : q # r => req'[q] = req[q]  BY DEF Ends
<1>5. req' = [q \in Requests |-> req'[q]]  BY DEF Ends
<1> QED BY <1>3, <1>4, <1>5

(* What _select_provider does to the requests, the counters and the calls. *)
LEMMA SelectsType ==
  ASSUME TypeOK, NEW r \in Requests, NEW attempts \in 0..MaxAttempts,
         Selects(r, attempts)
  PROVE  /\ req' \in [Requests -> Request]
         /\ current' \in [Providers -> 0..MaxPerMinute]
         /\ calls' \in [Providers -> SUBSET Calls]
<1>0. /\ req \in [Requests -> Request] /\ current \in [Providers -> 0..MaxPerMinute]
      /\ calls \in [Providers -> SUBSET Calls] /\ clock \in 0..MaxClock
  BY TypeParts DEF HistoryOK
<1>1. CASE Ends(r, "no_providers", None) /\ UNCHANGED <<current, calls>>
  <2>1. "no_providers" \in Outcomes BY DEF Outcomes
  <2> QED BY <1>0, <1>1, <2>1, EndsType
<1>2. CASE \E p \in Providers :
       /\ current[p] < MaxPerMinute
       /\ current' = [current EXCEPT ![p] = @ + 1]
       /\ calls' = [calls EXCEPT ![p] = Recent(@) \cup {Given(r, attempts)}]
       /\ req' = [req EXCEPT ![r].at = "calling", ![r].on = p,
                             ![r].attempts = attempts]
  <2>1. PICK p \in Providers :
       /\ current[p] < MaxPerMinute
       /\ current' = [current EXCEPT ![p] = @ + 1]
       /\ calls' = [calls EXCEPT ![p] = Recent(@) \cup {Given(r, attempts)}]
       /\ req' = [req EXCEPT ![r].at = "calling", ![r].on = p,
                             ![r].attempts = attempts]
    BY <1>2
  <2>2. req' \in [Requests -> Request]
    <3>1. req[r] \in Request  BY <1>0
    <3>2. req'[r] = [req[r] EXCEPT !.at = "calling", !.on = p, !.attempts = attempts]
      BY <1>0, <2>1
    <3>3. req'[r] \in Request  BY <3>1, <3>2 DEF Request
    <3>4. \A q \in Requests : q # r => req'[q] = req[q]  BY <1>0, <2>1
    <3>5. req' = [q \in Requests |-> req'[q]]  BY <1>0, <2>1
    <3> QED BY <1>0, <3>3, <3>4, <3>5
  <2>3. current' \in [Providers -> 0..MaxPerMinute]
    BY <1>0, <2>1, Constants
  <2>4. Given(r, attempts) \in Calls  BY <1>0 DEF Given, Calls
  <2>5. Recent(calls[p]) \subseteq Calls  BY <1>0 DEF Recent
  <2>6. calls' \in [Providers -> SUBSET Calls]  BY <1>0, <2>1, <2>4, <2>5
  <2> QED BY <2>2, <2>3, <2>6
<1> QED BY <1>1, <1>2 DEF Selects

(* A stored answer is the answer of a request. *)
LEMMA StoredType ==
  ASSUME TypeOK, NEW r \in Requests
  PROVE  Stored(r) \in Requests \cup {None}
<1> DEFINE k == idempotencyKey[r]
<1>1. CASE k = None  BY <1>1 DEF Stored
<1>2. CASE k # None
  <2>1. k \in Keys  BY <1>2 DEF Keys
  <2>2. stored[k] \in Held  BY <2>1, TypeParts DEF StoresOK
  <2>3. CASE stored[k] = None  BY <2>3 DEF Stored
  <2>4. CASE stored[k] # None
    <3>1. stored[k].response \in Requests  BY <2>2, <2>4 DEF Held
    <3> QED BY <3>1 DEF Stored
  <2> QED BY <2>3, <2>4
<1> QED BY <1>1, <1>2

(* Forgetting an expired answer keeps the type of the store. *)
LEMMA ForgetsType ==
  ASSUME TypeOK, NEW r \in Requests, Forgets(r)
  PROVE  stored' \in [Keys -> Held]
<1>1. stored \in [Keys -> Held]  BY TypeParts DEF StoresOK
<1>2. None \in Held  BY DEF Held
<1> QED BY <1>1, <1>2 DEF Forgets

(* What a cache returns is a response of a request. *)
LEMMA CachedType ==
  ASSUME TypeOK, NEW r \in Requests, NEW response \in Cached(r)
  PROVE  response \in Requests
<1>0. cache \in [Contents -> Held] /\ content[r] \in Contents
  BY TypeParts DEF StoresOK, Contents
<1>1. CASE Exact(r)
  <2>1. cache[content[r]] \in Held /\ cache[content[r]] # None
    BY <1>0, <1>1 DEF Exact
  <2>2. cache[content[r]].response \in Requests  BY <2>1 DEF Held
  <2> QED BY <1>1, <2>2 DEF Cached
<1>2. CASE ~Exact(r)
  <2>1. PICK n \in First(Candidates(r)) : response = semantic[n].response
    BY <1>2 DEF Cached
  <2>2. n \in DOMAIN semantic  BY <2>1 DEF First, Candidates
  <2>3. semantic[n] \in Places  BY <2>2, TypeParts DEF SemanticOK
  <2> QED BY <2>1, <2>3 DEF Places
<1> QED BY <1>1, <1>2

LEMMA DropExpiredType ==
  ASSUME TypeOK, NEW r \in Requests, DropExpired(r)
  PROVE  cache' \in [Contents -> Held]
<1>0. cache \in [Contents -> Held] /\ content[r] \in Contents
  BY TypeParts DEF StoresOK, Contents
<1>1. None \in Held  BY DEF Held
<1> QED BY <1>0, <1>1 DEF DropExpired

-----------------------------------------------------------------------------
(* The rate windows. A step that only prunes takes no stamp of a request    *)
(* that counts as admitted.                                                 *)
Pruned ==
  /\ stamps' = [t \in Tenants |-> stamps'[t]]
  /\ \A t \in Tenants : stamps'[t] \in {stamps[t], Recent(stamps[t])}

LEMMA RecentIsSmaller ==
  ASSUME StampsOK, NEW t \in Tenants
  PROVE  /\ Recent(stamps[t]) \subseteq stamps[t]
         /\ IsFiniteSet(Recent(stamps[t]))
         /\ Cardinality(Recent(stamps[t])) <= Cardinality(stamps[t])
<1>1. IsFiniteSet(stamps[t])  BY DEF StampsOK
<1>2. Recent(stamps[t]) \subseteq stamps[t]  BY DEF Recent
<1> QED BY <1>1, <1>2, FS_Subset

LEMMA PrunedType ==
  ASSUME StampsOK, Pruned
  PROVE  StampsOK'
<1>1. ASSUME NEW t \in Tenants
      PROVE  /\ stamps'[t] \subseteq Stamps /\ IsFiniteSet(stamps'[t])
             /\ Cardinality(stamps'[t]) <= TenantLimit
  <2>1. /\ stamps[t] \subseteq Stamps /\ IsFiniteSet(stamps[t])
        /\ Cardinality(stamps[t]) <= TenantLimit
    BY DEF StampsOK
  <2>2. CASE stamps'[t] = stamps[t]  BY <2>1, <2>2
  <2>3. CASE stamps'[t] = Recent(stamps[t])
    <3>1. Cardinality(stamps'[t]) \in Nat /\ Cardinality(stamps[t]) \in Nat
      BY <2>1, <2>3, RecentIsSmaller, FS_CardinalityType
    <3> QED BY <2>1, <2>3, <3>1, RecentIsSmaller, Constants
  <2> QED BY <2>2, <2>3 DEF Pruned
<1>2. stamps' = [t \in Tenants |-> stamps'[t]]  BY DEF Pruned
<1> QED BY <1>1, <1>2 DEF StampsOK

LEMMA PrunedWindows ==
  ASSUME StampsOK, Windows, Pruned, UNCHANGED <<clock, admitted>>
  PROVE  Windows'
<1>1. AllStamps' \subseteq AllStamps
  BY DEF AllStamps, Pruned, Recent
<1>2. IsFiniteSet(AllStamps') /\ Cardinality(AllStamps') <= Cardinality(AllStamps)
  BY <1>1, FS_Subset DEF Windows
<1>3. Cardinality(AllStamps') \in Nat /\ Cardinality(AllStamps) \in Nat
  BY <1>2, FS_CardinalityType DEF Windows
<1>4. Cardinality(AllStamps') <= GlobalLimit
  BY <1>2, <1>3, Constants DEF Windows
<1>5. ASSUME NEW r \in Requests, admitted[r] # None, tenant[r] # None
      PROVE  [by |-> r, at |-> admitted[r]] \in stamps'[tenant[r]]
  <2>1. tenant[r] \in Tenants  BY <1>5 DEF Tenants
  <2>2. [by |-> r, at |-> admitted[r]] \in stamps[tenant[r]]  BY <1>5 DEF Windows
  <2>3. clock - admitted[r] < Minute  BY <1>5 DEF Windows
  <2>4. [by |-> r, at |-> admitted[r]] \in Recent(stamps[tenant[r]])
    BY <2>2, <2>3 DEF Recent
  <2> QED BY <2>1, <2>2, <2>4 DEF Pruned
<1> QED BY <1>2, <1>4, <1>5 DEF Windows

LEMMA UnprunedWindows ==
  ASSUME Windows, UNCHANGED <<clock, admitted, stamps>>
  PROVE  Windows'
BY DEF Windows, AllStamps

(* What a refused request leaves of the stamps. *)
LEMMA PrunePrunes ==
  ASSUME StampsOK, NEW r \in Requests, Prune(r)
  PROVE  Pruned
<1>1. stamps = [t \in Tenants |-> stamps[t]]  BY DEF StampsOK
<1>2. CASE tenant[r] = None \/ GlobalCount >= GlobalLimit
  BY <1>1, <1>2 DEF Prune, Pruned
<1>3. CASE ~(tenant[r] = None \/ GlobalCount >= GlobalLimit)
  <2>1. stamps' = [stamps EXCEPT ![tenant[r]] = Recent(@)]  BY <1>3 DEF Prune
  <2> QED BY <1>1, <2>1 DEF Pruned
<1> QED BY <1>2, <1>3

(* An admitted request's stamp fits in its tenant's window ... *)
LEMMA StampType ==
  ASSUME TypeOK, NEW r \in Requests, WithinRate(r), Stamp(r)
  PROVE  StampsOK'
<1>0. StampsOK /\ clock \in 0..MaxClock  BY TypeParts
<1>1. CASE tenant[r] = None  BY <1>0, <1>1 DEF Stamp, StampsOK
<1>2. CASE tenant[r] # None
  <2> DEFINE u == tenant[r]
             new == [by |-> r, at |-> clock]
  <2>0. u \in Tenants  BY <1>2 DEF Tenants
  <2>1. /\ IsFiniteSet(Recent(stamps[u])) /\ Recent(stamps[u]) \subseteq stamps[u]
        /\ Cardinality(Recent(stamps[u])) < TenantLimit
    BY <1>0, <1>2, <2>0, RecentIsSmaller DEF WithinRate
  <2>2. new \in Stamps  BY <1>0 DEF Stamps
  <2>3. /\ IsFiniteSet(Recent(stamps[u]) \cup {new})
        /\ Cardinality(Recent(stamps[u]) \cup {new})
             \in {Cardinality(Recent(stamps[u])), Cardinality(Recent(stamps[u])) + 1}
    BY <2>1, FS_AddElement
  <2>4. Cardinality(Recent(stamps[u])) \in Nat  BY <2>1, FS_CardinalityType
  <2>5. Cardinality(Recent(stamps[u]) \cup {new}) <= TenantLimit
    BY <2>1, <2>3, <2>4, Constants
  <2>6. stamps' = [stamps EXCEPT ![u] = Recent(stamps[u]) \cup {new}]
    BY <1>0, <1>2, <2>0 DEF Stamp, StampsOK
  <2>7. Recent(stamps[u]) \cup {new} \subseteq Stamps
    BY <1>0, <2>0, <2>1, <2>2 DEF StampsOK
  <2> HIDE DEF u, new
  <2> QED BY <1>0, <2>0, <2>3, <2>5, <2>6, <2>7 DEF StampsOK
<1> QED BY <1>1, <1>2

(* ... and in the global one. *)
LEMMA StampWindows ==
  ASSUME TypeOK, Windows, NEW r \in Requests, WithinRate(r), Stamp(r),
         clock' = clock, admitted' = [admitted EXCEPT ![r] = clock]
  PROVE  Windows'
<1>0. /\ StampsOK /\ clock \in 0..MaxClock /\ admitted \in [Requests -> Times]
  BY TypeParts DEF HistoryOK
<1> DEFINE new == [by |-> r, at |-> clock]
<1>1. ASSUME NEW t \in Tenants
      PROVE  /\ stamps'[t] \subseteq stamps[t] \cup {new}
             /\ Recent(stamps[t]) \subseteq stamps'[t]
  <2>1. Recent(stamps[t]) \subseteq stamps[t]  BY <1>0, RecentIsSmaller
  <2>2. CASE tenant[r] = None  BY <2>1, <2>2 DEF Stamp
  <2>3. CASE tenant[r] # None
    <3>1. stamps' = [stamps EXCEPT ![tenant[r]] = Recent(@) \cup {new}]
      BY <2>3 DEF Stamp
    <3> QED BY <1>0, <2>1, <3>1 DEF StampsOK
  <2> QED BY <2>2, <2>3
<1>2. AllStamps' \subseteq AllStamps \cup {new}  BY <1>1 DEF AllStamps
<1>3. /\ IsFiniteSet(AllStamps) /\ Cardinality(AllStamps) < GlobalLimit
  BY DEF Windows, WithinRate, GlobalCount
<1>4. /\ IsFiniteSet(AllStamps \cup {new})
      /\ Cardinality(AllStamps \cup {new})
           \in {Cardinality(AllStamps), Cardinality(AllStamps) + 1}
  BY <1>3, FS_AddElement
<1>5. IsFiniteSet(AllStamps') /\ Cardinality(AllStamps') <= Cardinality(AllStamps \cup {new})
  BY <1>2, <1>4, FS_Subset
<1>6. Cardinality(AllStamps) \in Nat /\ Cardinality(AllStamps') \in Nat
  BY <1>3, <1>5, FS_CardinalityType
<1>7. Cardinality(AllStamps') <= GlobalLimit
  BY <1>3, <1>4, <1>5, <1>6, Constants
<1>8. ASSUME NEW q \in Requests, admitted'[q] # None
      PROVE  /\ admitted'[q] <= clock /\ clock - admitted'[q] < Minute
             /\ tenant[q] # None => [by |-> q, at |-> admitted'[q]] \in stamps'[tenant[q]]
  <2>1. CASE q = r
    <3>1. admitted'[q] = clock  BY <1>0, <2>1
    <3>2. ASSUME tenant[q] # None PROVE new \in stamps'[tenant[q]]
      <4>1. tenant[r] \in Tenants  BY <2>1, <3>2 DEF Tenants
      <4>2. stamps' = [stamps EXCEPT ![tenant[r]] = Recent(@) \cup {new}]
        BY <2>1, <3>2 DEF Stamp
      <4> QED BY <1>0, <2>1, <4>1, <4>2 DEF StampsOK
    <3>3. clock <= clock /\ clock - clock < Minute  BY <1>0, Constants
    <3> QED BY <2>1, <3>1, <3>2, <3>3
  <2>2. CASE q # r
    <3>1. admitted'[q] = admitted[q]  BY <1>0, <2>2
    <3>2. /\ admitted[q] <= clock /\ clock - admitted[q] < Minute
          /\ tenant[q] # None => [by |-> q, at |-> admitted[q]] \in stamps[tenant[q]]
      BY <1>8, <3>1 DEF Windows
    <3>3. ASSUME tenant[q] # None
          PROVE  [by |-> q, at |-> admitted[q]] \in stamps'[tenant[q]]
      <4>1. tenant[q] \in Tenants  BY <3>3 DEF Tenants
      <4>2. [by |-> q, at |-> admitted[q]] \in Recent(stamps[tenant[q]])
        BY <3>2, <3>3 DEF Recent
      <4> QED BY <1>1, <4>1, <4>2
    <3> QED BY <3>1, <3>2, <3>3
  <2> QED BY <2>1, <2>2
<1> QED BY <1>5, <1>7, <1>8 DEF Windows

LEMMA TickWindows ==
  ASSUME TypeOK, Windows, Tick
  PROVE  Windows'
<1>1. AllStamps' = AllStamps  BY DEF Tick, AllStamps
<1>2. /\ clock \in 0..MaxClock /\ clock' = clock + 1 /\ stamps' = stamps
      /\ admitted \in [Requests -> Times]
  BY TypeParts DEF Tick, HistoryOK
<1>3. ASSUME NEW r \in Requests, admitted'[r] # None
      PROVE  /\ admitted'[r] <= clock' /\ clock' - admitted'[r] < Minute
             /\ tenant[r] # None => [by |-> r, at |-> admitted'[r]] \in stamps[tenant[r]]
  <2>1. /\ admitted'[r] = admitted[r] /\ admitted[r] # None
        /\ clock' - admitted[r] < Minute
    BY <1>3 DEF Tick
  <2>2. /\ admitted[r] <= clock
        /\ tenant[r] # None => [by |-> r, at |-> admitted[r]] \in stamps[tenant[r]]
    BY <2>1 DEF Windows
  <2>3. admitted[r] \in Nat /\ clock \in Nat  BY <1>2, <2>1, Constants DEF Times
  <2>4. admitted[r] <= clock'  BY <1>2, <2>2, <2>3
  <2> QED BY <2>1, <2>2, <2>4
<1> QED BY <1>1, <1>2, <1>3 DEF Windows

-----------------------------------------------------------------------------
(* The types of what a step leaves behind. *)
LEMMA AfterIsNew ==
  ASSUME NEW places, NEW n \in After(places), NEW m \in places, m \in Nat
  PROVE  n # m
BY DEF After

(* An answer added to the list of similar contents keeps it within its size:*)
(* a full list loses its first entry.                                       *)
LEMMA RemembersType ==
  ASSUME TypeOK, NEW r \in Requests, Remembers(r)
  PROVE  SemanticOK'
<1>0. SemanticOK /\ clock \in 0..MaxClock  BY TypeParts
<1> DEFINE D == DOMAIN semantic
<1>1. PICK n \in After(D),
           dropped \in IF Cardinality(D) < SemanticSize THEN {{}}
                       ELSE {{m} : m \in First(D)} :
        semantic' = [m \in (D \ dropped) \cup {n} |->
                       IF m = n THEN [content |-> content[r], response |-> r, at |-> clock]
                       ELSE semantic[m]]
  BY DEF Remembers
<1>2. IsFiniteSet(D) /\ Cardinality(D) <= SemanticSize  BY <1>0 DEF SemanticOK
<1>3. Cardinality(D) \in Nat  BY <1>2, FS_CardinalityType
<1>4. /\ IsFiniteSet(D \ dropped) /\ Cardinality(D \ dropped) < SemanticSize
  <2>1. CASE Cardinality(D) < SemanticSize
    <3>1. D \ dropped = D  BY <1>1, <2>1
    <3> QED BY <1>2, <2>1, <3>1
  <2>2. CASE ~(Cardinality(D) < SemanticSize)
    <3>1. PICK m \in First(D) : dropped = {m}  BY <1>1, <2>2
    <3>2. m \in D  BY <3>1 DEF First
    <3>3. IsFiniteSet(D \ {m}) /\ Cardinality(D \ {m}) = Cardinality(D) - 1
      BY <1>2, <3>2, FS_RemoveElement
    <3> HIDE DEF D
    <3>4. Cardinality(D) - 1 < SemanticSize  BY <1>2, <1>3, Constants
    <3> QED BY <3>1, <3>3, <3>4
  <2> QED BY <2>1, <2>2
<1>5. Cardinality(D \ dropped) \in Nat  BY <1>4, FS_CardinalityType
<1>6. /\ IsFiniteSet((D \ dropped) \cup {n})
      /\ Cardinality((D \ dropped) \cup {n})
           \in {Cardinality(D \ dropped), Cardinality(D \ dropped) + 1}
  BY <1>4, FS_AddElement
<1>7. DOMAIN semantic' = (D \ dropped) \cup {n}  BY <1>1
<1>8. Cardinality((D \ dropped) \cup {n}) <= SemanticSize
  BY <1>4, <1>5, <1>6, Constants
<1>9. ASSUME NEW m \in (D \ dropped) \cup {n} PROVE semantic'[m] \in Places
  <2>1. CASE m = n
    <3>1. semantic'[m] = [content |-> content[r], response |-> r, at |-> clock]
      BY <1>1, <2>1
    <3> QED BY <1>0, <3>1 DEF Places, Contents
  <2>2. CASE m # n
    <3>1. semantic'[m] = semantic[m] /\ m \in D  BY <1>1, <1>9, <2>2
    <3> QED BY <1>0, <3>1 DEF SemanticOK
  <2> QED BY <2>1, <2>2
<1>10. semantic' = [m \in DOMAIN semantic' |-> semantic'[m]]  BY <1>1
<1> HIDE DEF D
<1>11. semantic' \in [DOMAIN semantic' -> Places]  BY <1>7, <1>9, <1>10
<1> QED BY <1>6, <1>7, <1>8, <1>11 DEF SemanticOK

LEMMA KeepType ==
  ASSUME TypeOK, NEW r \in Requests, Keep(r)
  PROVE  StoresOK' /\ SemanticOK'
<1>0. StoresOK /\ clock \in 0..MaxClock  BY TypeParts
<1>1. Entry(r) \in Held  BY <1>0 DEF Entry, Held
<1>2. cache' \in [Contents -> Held]
  BY <1>0, <1>1 DEF Keep, StoresOK, Contents
<1>3. stored' \in [Keys -> Held]
  BY <1>0, <1>1 DEF Keep, StoresOK
<1>4. SemanticOK'  BY RemembersType DEF Keep
<1> QED BY <1>2, <1>3, <1>4 DEF StoresOK

LEMMA ClearExpiredType ==
  ASSUME TypeOK, ClearExpired
  PROVE  StoresOK' /\ SemanticOK'
<1>0. StoresOK /\ SemanticOK  BY TypeParts
<1>1. cache' \in [Contents -> Held]
  BY <1>0 DEF ClearExpired, StoresOK, Held
<1>2. stored' = stored  BY DEF ClearExpired
<1>3. semantic' = [n \in {m \in DOMAIN semantic : Fresh(semantic[m])} |-> semantic[n]]
  BY DEF ClearExpired
<1>4. DOMAIN semantic' \subseteq DOMAIN semantic  BY <1>3
<1>5. /\ IsFiniteSet(DOMAIN semantic')
      /\ Cardinality(DOMAIN semantic') <= Cardinality(DOMAIN semantic)
  BY <1>0, <1>4, FS_Subset DEF SemanticOK
<1>6. Cardinality(DOMAIN semantic') \in Nat /\ Cardinality(DOMAIN semantic) \in Nat
  BY <1>0, <1>5, FS_CardinalityType DEF SemanticOK
<1>7. Cardinality(DOMAIN semantic') <= SemanticSize
  BY <1>0, <1>5, <1>6, Constants DEF SemanticOK
<1>8. semantic' \in [DOMAIN semantic' -> Places]
  BY <1>0, <1>3, <1>4 DEF SemanticOK
<1> QED BY <1>0, <1>1, <1>2, <1>5, <1>7, <1>8 DEF StoresOK, SemanticOK

LEMMA FrameTypes ==
  /\ (StoresOK /\ UNCHANGED <<cache, stored>>) => StoresOK'
  /\ (SemanticOK /\ UNCHANGED semantic) => SemanticOK'
  /\ (StampsOK /\ UNCHANGED stamps) => StampsOK'
  /\ (LoopsOK /\ UNCHANGED loops) => LoopsOK'
  /\ (HistoryOK /\ UNCHANGED <<admitted, answered, calls>>) => HistoryOK'
BY DEF StoresOK, SemanticOK, StampsOK, LoopsOK, HistoryOK

-----------------------------------------------------------------------------
(* Every action keeps the types. *)
LEMMA SubmitType ==
  ASSUME TypeOK, NEW r \in Requests, Submit(r)
  PROVE  TypeOK'
<1>0. /\ StoresOK /\ SemanticOK /\ StampsOK /\ LoopsOK /\ HistoryOK
      /\ current \in [Providers -> 0..MaxPerMinute] /\ req \in [Requests -> Request]
      /\ clock \in 0..MaxClock /\ running \in BOOLEAN
  BY TypeParts
<1>1. /\ clock' = clock /\ running' = running /\ loops' = loops /\ answered' = answered
  BY DEF Submit, background
<1>2. LoopsOK'  BY <1>0, <1>1, FrameTypes
<1>3. CASE Replay(r)
  <2>1. Stored(r) \in Requests \cup {None} /\ "replayed" \in Outcomes
    BY StoredType DEF Outcomes
  <2>2. req' \in [Requests -> Request]  BY <1>0, <1>3, <2>1, EndsType DEF Replay
  <2>3. UNCHANGED <<cache, semantic, stored, stamps, current, admitted, calls>>
    BY <1>3 DEF Replay
  <2>4. StoresOK' /\ SemanticOK' /\ StampsOK' /\ HistoryOK'
    BY <1>0, <1>1, <2>3, FrameTypes
  <2> QED BY <1>0, <1>1, <1>2, <2>2, <2>3, <2>4, TypePartsNext
<1>4. CASE Refuse(r)
  <2>1. "refused" \in Outcomes  BY DEF Outcomes
  <2>2. req' \in [Requests -> Request]  BY <1>0, <1>4, <2>1, EndsType DEF Refuse
  <2>3. UNCHANGED <<cache, semantic, current, admitted, calls>>  BY <1>4 DEF Refuse
  <2>4. SemanticOK' /\ HistoryOK'  BY <1>0, <1>1, <2>3, FrameTypes
  <2>5. stored' \in [Keys -> Held]  BY <1>4, ForgetsType DEF Refuse
  <2>6. StoresOK'  BY <1>0, <2>3, <2>5 DEF StoresOK
  <2>7. StampsOK'  BY <1>0, <1>4, PrunePrunes, PrunedType DEF Refuse
  <2> QED BY <1>0, <1>1, <1>2, <2>2, <2>3, <2>4, <2>6, <2>7, TypePartsNext
<1>5. CASE Execute(r)
  <2>1. "cached" \in Outcomes /\ "too_costly" \in Outcomes  BY DEF Outcomes
  <2>2. /\ req' \in [Requests -> Request]
        /\ current' \in [Providers -> 0..MaxPerMinute]
        /\ calls' \in [Providers -> SUBSET Calls]
    <3>1. CASE (\E response \in Cached(r) : Ends(r, "cached", response))
               /\ UNCHANGED <<current, calls>>
      BY <1>0, <2>1, <3>1, CachedType, EndsType DEF HistoryOK
    <3>2. CASE Ends(r, "too_costly", None) /\ UNCHANGED <<current, calls>>
      BY <1>0, <2>1, <3>2, EndsType DEF HistoryOK
    <3>3. CASE Selects(r, 0)
      <4>1. 0 \in 0..MaxAttempts  BY Constants
      <4> QED BY <3>3, <4>1, SelectsType
    <3> QED BY <1>5, <3>1, <3>2, <3>3 DEF Execute
  <2>3. admitted' \in [Requests -> Times]
    BY <1>0, <1>5 DEF Execute, HistoryOK, Times
  <2>4. HistoryOK'  BY <1>0, <1>1, <2>2, <2>3 DEF HistoryOK
  <2>5. SemanticOK'  BY <1>0, <1>5, FrameTypes DEF Execute
  <2>6. StampsOK'  BY <1>5, StampType DEF Execute
  <2>7. stored' \in [Keys -> Held] /\ cache' \in [Contents -> Held]
    BY <1>5, ForgetsType, DropExpiredType DEF Execute
  <2> QED BY <1>0, <1>1, <1>2, <2>2, <2>4, <2>5, <2>6, <2>7, TypePartsNext DEF StoresOK
<1> QED BY <1>3, <1>4, <1>5 DEF Submit

LEMMA SelectingType ==
  ASSUME TypeOK, NEW r \in Requests, SubmitStream(r) \/ Retry(r)
  PROVE  TypeOK'
<1>0. /\ StoresOK /\ SemanticOK /\ StampsOK /\ LoopsOK /\ HistoryOK
      /\ req \in [Requests -> Request] /\ clock \in 0..MaxClock /\ running \in BOOLEAN
  BY TypeParts
<1>1. UNCHANGED <<clock, stores, stamps, background, admitted, answered>>
  BY DEF SubmitStream, Retry
<1>2. PICK attempts \in 0..MaxAttempts : Selects(r, attempts)
  <2>1. req[r].attempts \in 0..MaxAttempts  BY <1>0 DEF Request
  <2> QED BY <2>1, Constants DEF SubmitStream, Retry
<1>3. /\ req' \in [Requests -> Request]
      /\ current' \in [Providers -> 0..MaxPerMinute]
      /\ calls' \in [Providers -> SUBSET Calls]
  BY <1>2, SelectsType
<1>4. StoresOK' /\ SemanticOK' /\ StampsOK' /\ LoopsOK'
  BY <1>0, <1>1, FrameTypes DEF stores, background
<1>5. HistoryOK'  BY <1>0, <1>1, <1>3 DEF HistoryOK
<1>6. clock' = clock /\ running' = running  BY <1>1 DEF background
<1> QED BY <1>0, <1>3, <1>4, <1>5, <1>6, TypePartsNext

LEMMA AnswerType ==
  ASSUME TypeOK, NEW r \in Requests, Answer(r)
  PROVE  TypeOK'
<1>0. /\ StoresOK /\ SemanticOK /\ StampsOK /\ LoopsOK /\ HistoryOK
      /\ current \in [Providers -> 0..MaxPerMinute] /\ req \in [Requests -> Request]
      /\ clock \in 0..MaxClock /\ running \in BOOLEAN
  BY TypeParts
<1>1. /\ clock' = clock /\ running' = running /\ loops' = loops /\ stamps' = stamps
      /\ current' = current /\ admitted' = admitted /\ calls' = calls
  BY DEF Answer, background
<1>2. "answered" \in Outcomes  BY DEF Outcomes
<1>3. req' \in [Requests -> Request]  BY <1>0, <1>2, EndsType DEF Answer
<1>4. StoresOK' /\ SemanticOK' /\ answered' \in [Requests -> Times]
  <2>1. CASE r \in Streams
    BY <1>0, <2>1, FrameTypes DEF Answer, stores, HistoryOK
  <2>2. CASE r \notin Streams
    <3>1. Keep(r) /\ answered' = [answered EXCEPT ![r] = clock]  BY <2>2 DEF Answer
    <3> QED BY <1>0, <3>1, KeepType DEF HistoryOK, Times
  <2> QED BY <2>1, <2>2
<1>5. HistoryOK'  BY <1>0, <1>1, <1>4 DEF HistoryOK
<1>6. StampsOK' /\ LoopsOK'  BY <1>0, <1>1, FrameTypes
<1> QED BY <1>0, <1>1, <1>3, <1>4, <1>5, <1>6, TypePartsNext

LEMMA FailType ==
  ASSUME TypeOK, NEW r \in Requests, Fail(r) \/ Raise(r)
  PROVE  TypeOK'
<1>0. /\ StoresOK /\ SemanticOK /\ StampsOK /\ LoopsOK /\ HistoryOK
      /\ current \in [Providers -> 0..MaxPerMinute] /\ req \in [Requests -> Request]
      /\ clock \in 0..MaxClock /\ running \in BOOLEAN
  BY TypeParts
<1>1. UNCHANGED <<clock, stores, stamps, current, background, admitted, answered, calls>>
  BY DEF Fail, Raise
<1>2. /\ StoresOK' /\ SemanticOK' /\ StampsOK' /\ LoopsOK' /\ HistoryOK'
      /\ current' = current /\ clock' = clock /\ running' = running
  BY <1>0, <1>1, FrameTypes DEF stores, background
<1>3. req' \in [Requests -> Request]
  <2>1. CASE Ends(r, "raised", None) \/ Ends(r, "failed", None)
    <3>1. "raised" \in Outcomes /\ "failed" \in Outcomes  BY DEF Outcomes
    <3> QED BY <1>0, <2>1, <3>1, EndsType
  <2>2. CASE /\ req[r].attempts + 1 < MaxAttempts
             /\ req' = [req EXCEPT ![r].at = "pausing", ![r].on = None,
                                   ![r].attempts = @ + 1]
    <3>1. req[r] \in Request  BY <1>0
    <3>2. req'[r] = [req[r] EXCEPT !.at = "pausing", !.on = None, !.attempts = @ + 1]
      BY <1>0, <2>2
    <3>3. req[r].attempts + 1 \in 0..MaxAttempts  BY <2>2, <3>1, Constants DEF Request
    <3>4. req'[r] \in Request  BY <3>1, <3>2, <3>3 DEF Request
    <3>5. \A q \in Requests : q # r => req'[q] = req[q]  BY <1>0, <2>2
    <3>6. req' = [q \in Requests |-> req'[q]]  BY <1>0, <2>2
    <3> QED BY <1>0, <3>4, <3>5, <3>6
  <2> QED BY <2>1, <2>2 DEF Fail, Raise
<1> QED BY <1>0, <1>2, <1>3, TypePartsNext

LEMMA BackgroundType ==
  ASSUME TypeOK, Start \/ Stop \/ ClearExpired \/ \E i \in DOMAIN loops : Reset(i)
  PROVE  TypeOK'
<1>0. /\ StoresOK /\ SemanticOK /\ StampsOK /\ LoopsOK /\ HistoryOK
      /\ current \in [Providers -> 0..MaxPerMinute] /\ req \in [Requests -> Request]
      /\ clock \in 0..MaxClock /\ running \in BOOLEAN
  BY TypeParts
<1>1. CASE Start
  <2>1. UNCHANGED <<clock, stores, stamps, current, req, admitted, answered, calls>>
    BY <1>1 DEF Start
  <2>2. StoresOK' /\ SemanticOK' /\ StampsOK' /\ HistoryOK'
    BY <1>0, <2>1, FrameTypes DEF stores
  <2>3. LoopsOK'
    <3>1. clock \in Times  BY <1>0 DEF Times
    <3>2. loops' = Append(loops, clock) /\ Len(loops) < MaxStarts  BY <1>1 DEF Start
    <3>3. loops' \in Seq(Times) /\ Len(loops') = Len(loops) + 1
      BY <1>0, <3>1, <3>2 DEF LoopsOK
    <3>4. Len(loops) \in Nat  BY <1>0 DEF LoopsOK
    <3> QED BY <3>2, <3>3, <3>4, Constants DEF LoopsOK
  <2>4. running' \in BOOLEAN  BY <1>1 DEF Start
  <2> QED BY <1>0, <2>1, <2>2, <2>3, <2>4, TypePartsNext
<1>2. CASE Stop
  <2>1. UNCHANGED <<clock, stores, stamps, current, loops, req, admitted, answered, calls>>
    BY <1>2 DEF Stop
  <2>2. StoresOK' /\ SemanticOK' /\ StampsOK' /\ LoopsOK' /\ HistoryOK'
    BY <1>0, <2>1, FrameTypes DEF stores
  <2>3. running' \in BOOLEAN  BY <1>2 DEF Stop
  <2> QED BY <1>0, <2>1, <2>2, <2>3, TypePartsNext
<1>3. CASE ClearExpired
  <2>1. UNCHANGED <<clock, stamps, current, background, req, admitted, answered, calls>>
    BY <1>3 DEF ClearExpired
  <2>2. StampsOK' /\ LoopsOK' /\ HistoryOK' /\ running' = running
    BY <1>0, <2>1, FrameTypes DEF background
  <2>3. StoresOK' /\ SemanticOK'  BY <1>3, ClearExpiredType
  <2> QED BY <1>0, <2>1, <2>2, <2>3, TypePartsNext
<1>4. ASSUME NEW i \in DOMAIN loops, Reset(i)
      PROVE  TypeOK'
  <2>1. UNCHANGED <<clock, stores, running, req, admitted, answered, calls>>
    BY <1>4 DEF Reset
  <2>2. StoresOK' /\ SemanticOK' /\ HistoryOK'
    BY <1>0, <2>1, FrameTypes DEF stores
  <2>3. Pruned  BY <1>4 DEF Reset, Pruned
  <2>4. StampsOK'  BY <1>0, <2>3, PrunedType
  <2>5. current' \in [Providers -> 0..MaxPerMinute]  BY <1>4, Constants DEF Reset
  <2>6. LoopsOK'
    <3>1. loops' = [loops EXCEPT ![i] = IF running THEN clock ELSE None]
      BY <1>4 DEF Reset
    <3>2. (IF running THEN clock ELSE None) \in Times  BY <1>0 DEF Times
    <3> QED BY <1>0, <3>1, <3>2 DEF LoopsOK
  <2> QED BY <1>0, <2>1, <2>2, <2>4, <2>5, <2>6, TypePartsNext
<1> QED BY <1>1, <1>2, <1>3, <1>4

LEMMA TickType ==
  ASSUME TypeOK, Tick
  PROVE  TypeOK'
<1>0. /\ StoresOK /\ SemanticOK /\ StampsOK /\ LoopsOK /\ HistoryOK
      /\ current \in [Providers -> 0..MaxPerMinute] /\ req \in [Requests -> Request]
      /\ clock \in 0..MaxClock /\ running \in BOOLEAN
  BY TypeParts
<1>1. UNCHANGED <<stores, stamps, current, background, req>>  BY DEF Tick
<1>2. /\ StoresOK' /\ SemanticOK' /\ StampsOK' /\ LoopsOK'
      /\ current' = current /\ req' = req /\ running' = running
  BY <1>0, <1>1, FrameTypes DEF stores, background
<1>3. clock' \in 0..MaxClock  BY <1>0, Constants DEF Tick
<1>4. admitted' \in [Requests -> Times]  BY <1>0 DEF Tick, HistoryOK, Times
<1>5. answered' \in [Requests -> Times]  BY <1>0 DEF Tick, HistoryOK, Times
<1>6. calls' \in [Providers -> SUBSET Calls]  BY <1>0 DEF Tick, HistoryOK
<1> QED BY <1>0, <1>2, <1>3, <1>4, <1>5, <1>6, TypePartsNext DEF HistoryOK

-----------------------------------------------------------------------------
(* The providers' shares. *)
LEMMA SharesFrame ==
  ASSUME Shares, UNCHANGED <<clock, calls, current, loops>>
  PROVE  Shares'
BY DEF Shares, GivenSince, TurnedSince

LEMMA TurnedFinite ==
  ASSUME LoopsOK, NEW s
  PROVE  /\ IsFiniteSet(TurnedSince(s)) /\ Cardinality(TurnedSince(s)) \in Nat
         /\ Cardinality(TurnedSince(s)) <= Len(loops)
<1>1. Len(loops) \in Nat  BY DEF LoopsOK
<1>2. IsFiniteSet(1..Len(loops)) /\ Cardinality(1..Len(loops)) = Len(loops)
  <2>1. 1 \in Int /\ Len(loops) \in Int /\ Len(loops) - 1 + 1 = Len(loops)  BY <1>1
  <2>2. IsFiniteSet(1..Len(loops))  BY <2>1, FS_Interval
  <2>3. Cardinality(1..Len(loops)) = IF 1 > Len(loops) THEN 0 ELSE Len(loops) - 1 + 1
    BY <2>1, FS_Interval
  <2> QED BY <1>1, <2>1, <2>2, <2>3
<1>3. TurnedSince(s) \subseteq 1..Len(loops)  BY DEF TurnedSince
<1>4. /\ IsFiniteSet(TurnedSince(s))
      /\ Cardinality(TurnedSince(s)) <= Cardinality(1..Len(loops))
  BY <1>2, <1>3, FS_Subset
<1> QED BY <1>2, <1>4, FS_CardinalityType

LEMMA GivenFinite ==
  ASSUME Shares, NEW p \in Providers, NEW s
  PROVE  IsFiniteSet(GivenSince(p, s)) /\ Cardinality(GivenSince(p, s)) \in Nat
<1>1. IsFiniteSet(calls[p])  BY DEF Shares
<1>2. GivenSince(p, s) \subseteq calls[p]  BY DEF GivenSince
<1>3. IsFiniteSet(GivenSince(p, s))  BY <1>1, <1>2, FS_Subset
<1> QED BY <1>3, FS_CardinalityType

LEMMA Scaled ==
  ASSUME NEW m \in Nat, NEW k \in Nat, NEW n \in Nat, k <= n
  PROVE  m * k \in Nat /\ m * k <= m * n
<1>1. PICK d \in Nat : n = k + d  BY SMT
<1>2. m * n = m * k + m * d  BY <1>1
<1>3. m * k \in Nat /\ m * d \in Nat  OBVIOUS
<1> QED BY <1>2, <1>3

(* A call given to a provider counts once on either side. *)
LEMMA SelectsShares ==
  ASSUME TypeOK, Shares, NEW r \in Requests, NEW attempts \in 0..MaxAttempts,
         Selects(r, attempts), UNCHANGED <<clock, loops>>
  PROVE  Shares'
<1>0. /\ current \in [Providers -> 0..MaxPerMinute] /\ clock \in 0..MaxClock /\ LoopsOK
      /\ calls \in [Providers -> SUBSET Calls]
  BY TypeParts DEF HistoryOK
<1>1. CASE UNCHANGED <<current, calls>>  BY <1>1, SharesFrame
<1>2. CASE \E p \in Providers :
       /\ current' = [current EXCEPT ![p] = @ + 1]
       /\ calls' = [calls EXCEPT ![p] = Recent(@) \cup {Given(r, attempts)}]
  <2>1. PICK p \in Providers :
       /\ current' = [current EXCEPT ![p] = @ + 1]
       /\ calls' = [calls EXCEPT ![p] = Recent(@) \cup {Given(r, attempts)}]
    BY <1>2
  <2> DEFINE new == Given(r, attempts)
  <2>2. new.at = clock  BY DEF Given
  <2> HIDE DEF new
  <2>3. SUFFICES ASSUME NEW q \in Providers
                 PROVE  /\ IsFiniteSet(calls'[q])
                        /\ \A c \in calls'[q] : c.at <= clock /\ clock - c.at < Minute
                        /\ \A s \in (clock + 1 - Minute)..clock :
                             Cardinality(GivenSince(q, s)')
                               <= current'[q] + MaxPerMinute * Cardinality(TurnedSince(s))
    BY DEF Shares, TurnedSince
  <2>4. CASE q # p
    <3>1. calls'[q] = calls[q] /\ current'[q] = current[q]  BY <1>0, <2>1, <2>4
    <3>2. \A s : GivenSince(q, s)' = GivenSince(q, s)  BY <3>1 DEF GivenSince
    <3> QED BY <3>1, <3>2 DEF Shares
  <2>5. CASE q = p
    <3>1. calls'[q] = Recent(calls[q]) \cup {new} /\ current'[q] = current[q] + 1
      BY <1>0, <2>1, <2>5 DEF new
    <3>2. calls'[q] \subseteq calls[q] \cup {new}  BY <3>1 DEF Recent
    <3>3. IsFiniteSet(calls[q] \cup {new})  BY FS_AddElement DEF Shares
    <3>4. IsFiniteSet(calls'[q])  BY <3>2, <3>3, FS_Subset
    <3>5. \A c \in calls'[q] : c.at <= clock /\ clock - c.at < Minute
      <4>1. clock <= clock /\ clock - clock < Minute  BY <1>0, Constants
      <4> QED BY <2>2, <3>2, <4>1 DEF Shares
    <3>6. ASSUME NEW s \in (clock + 1 - Minute)..clock
          PROVE  Cardinality(GivenSince(q, s)')
                   <= current'[q] + MaxPerMinute * Cardinality(TurnedSince(s))
      <4>1. GivenSince(q, s)' \subseteq GivenSince(q, s) \cup {new}
        BY <3>2 DEF GivenSince
      <4>2. IsFiniteSet(GivenSince(q, s)) /\ Cardinality(GivenSince(q, s)) \in Nat
        BY GivenFinite
      <4>3. /\ IsFiniteSet(GivenSince(q, s) \cup {new})
            /\ Cardinality(GivenSince(q, s) \cup {new})
                 \in {Cardinality(GivenSince(q, s)), Cardinality(GivenSince(q, s)) + 1}
        BY <4>2, FS_AddElement
      <4>4. /\ IsFiniteSet(GivenSince(q, s)')
            /\ Cardinality(GivenSince(q, s)') <= Cardinality(GivenSince(q, s) \cup {new})
        BY <4>1, <4>3, FS_Subset
      <4>5. Cardinality(GivenSince(q, s)') \in Nat  BY <4>4, FS_CardinalityType
      <4>6. Cardinality(GivenSince(q, s))
              <= current[q] + MaxPerMinute * Cardinality(TurnedSince(s))
        BY DEF Shares
      <4>7. MaxPerMinute * Cardinality(TurnedSince(s)) \in Nat
        <5>1. Cardinality(TurnedSince(s)) \in Nat  BY <1>0, TurnedFinite
        <5> QED BY <5>1, Constants, Scaled
      <4> DEFINE share == MaxPerMinute * Cardinality(TurnedSince(s))
                 new1 == Cardinality(GivenSince(q, s)')
                 old1 == Cardinality(GivenSince(q, s))
      <4>8. /\ share \in Nat /\ new1 \in Nat /\ old1 \in Nat /\ new1 <= old1 + 1
            /\ old1 <= current[q] + share /\ current[q] \in Nat
        BY <1>0, <4>2, <4>3, <4>4, <4>5, <4>6, <4>7
      <4> HIDE DEF share, new1, old1
      <4>9. new1 <= current'[q] + share  BY <3>1, <4>8
      <4> QED BY <4>9 DEF new1, share
    <3> QED BY <3>4, <3>5, <3>6
  <2> QED BY <2>4, <2>5
<1> QED BY <1>1, <1>2 DEF Selects

(* A reset loop's turn takes the counter, and counts the loop instead. *)
LEMMA ResetShares ==
  ASSUME TypeOK, Shares, NEW i \in DOMAIN loops, Reset(i)
  PROVE  Shares'
<1>0. /\ current \in [Providers -> 0..MaxPerMinute] /\ clock \in 0..MaxClock /\ LoopsOK
  BY TypeParts
<1>1. /\ clock' = clock /\ calls' = calls /\ current' = [p \in Providers |-> 0]
      /\ loops[i] # None /\ clock - loops[i] >= Minute
      /\ loops' = [loops EXCEPT ![i] = IF running THEN clock ELSE None]
  BY DEF Reset
<1>2. /\ Len(loops') = Len(loops) /\ i \in 1..Len(loops) /\ Len(loops) \in Nat
      /\ loops[i] \in 0..MaxClock
      /\ \A j \in 1..Len(loops) : j # i => loops'[j] = loops[j]
      /\ loops'[i] = IF running THEN clock ELSE None
  BY <1>0, <1>1 DEF LoopsOK, Times
<1>3. ASSUME NEW p \in Providers, NEW s \in (clock + 1 - Minute)..clock
      PROVE  Cardinality(GivenSince(p, s)')
               <= current'[p] + MaxPerMinute * Cardinality(TurnedSince(s)')
  <2>1. GivenSince(p, s)' = GivenSince(p, s)  BY <1>1 DEF GivenSince
  <2>2. i \notin TurnedSince(s)
    <3> DEFINE turn == loops[i]
    <3>0. turn \in Int /\ clock \in Int /\ Minute \in Int /\ clock - turn >= Minute
      BY <1>0, <1>1, <1>2, Constants
    <3> HIDE DEF turn
    <3>01. s \in Int /\ s >= clock + 1 - Minute  BY <3>0
    <3>1. ~(turn >= s)  BY <3>0, <3>01
    <3> USE DEF turn
    <3> QED BY <1>1, <3>1 DEF TurnedSince
  <2>3. TurnedSince(s)' = TurnedSince(s) \cup {i}
    <3>1. i \in TurnedSince(s)'
      <4>1. loops'[i] = None \/ loops'[i] >= s  BY <1>0, <1>2, Constants
      <4> QED BY <1>2, <4>1 DEF TurnedSince
    <3>2. \A j \in 1..Len(loops) : j # i => (j \in TurnedSince(s)' <=> j \in TurnedSince(s))
      BY <1>2 DEF TurnedSince
    <3>3. TurnedSince(s)' \subseteq 1..Len(loops) /\ TurnedSince(s) \subseteq 1..Len(loops)
      BY <1>2 DEF TurnedSince
    <3> QED BY <1>2, <3>1, <3>2, <3>3
  <2>4. /\ IsFiniteSet(TurnedSince(s)) /\ Cardinality(TurnedSince(s)) \in Nat
    BY <1>0, TurnedFinite
  <2>5. Cardinality(TurnedSince(s)') = Cardinality(TurnedSince(s)) + 1
    BY <2>2, <2>3, <2>4, FS_AddElement
  <2>6. Cardinality(GivenSince(p, s))
          <= current[p] + MaxPerMinute * Cardinality(TurnedSince(s))
    BY DEF Shares
  <2>7. Cardinality(GivenSince(p, s)) \in Nat  BY GivenFinite
  <2> DEFINE given == Cardinality(GivenSince(p, s))
             turned == Cardinality(TurnedSince(s))
  <2>8. /\ given \in Nat /\ turned \in Nat /\ given <= current[p] + MaxPerMinute * turned
        /\ current[p] \in 0..MaxPerMinute
    BY <1>0, <2>4, <2>6, <2>7
  <2> HIDE DEF given, turned
  <2>9. MaxPerMinute * (turned + 1) = MaxPerMinute * turned + MaxPerMinute
    BY <2>8, Constants
  <2>10. MaxPerMinute * turned \in Nat  BY <2>8, Constants
  <2>11. given <= 0 + MaxPerMinute * (turned + 1)  BY <2>8, <2>9, <2>10, Constants
  <2> QED BY <1>1, <2>1, <2>5, <2>11 DEF given, turned
<1> QED BY <1>1, <1>3 DEF Shares

(* A loop that starts counts as having turned. *)
LEMMA StartShares ==
  ASSUME TypeOK, Shares, Start
  PROVE  Shares'
<1>0. /\ current \in [Providers -> 0..MaxPerMinute] /\ clock \in 0..MaxClock /\ LoopsOK
  BY TypeParts
<1>1. /\ clock' = clock /\ calls' = calls /\ current' = current
      /\ loops' = Append(loops, clock)
  BY DEF Start
<1>2. /\ Len(loops) \in Nat /\ Len(loops') = Len(loops) + 1
      /\ \A j \in 1..Len(loops) : loops'[j] = loops[j]
  BY <1>0, <1>1 DEF LoopsOK
<1>3. LoopsOK'
  BY <1>0, BackgroundType, TypePartsNext
<1>4. ASSUME NEW p \in Providers, NEW s \in (clock + 1 - Minute)..clock
      PROVE  Cardinality(GivenSince(p, s)')
               <= current'[p] + MaxPerMinute * Cardinality(TurnedSince(s)')
  <2>1. GivenSince(p, s)' = GivenSince(p, s)  BY <1>1 DEF GivenSince
  <2>2. TurnedSince(s) \subseteq TurnedSince(s)'  BY <1>2 DEF TurnedSince
  <2>3. /\ IsFiniteSet(TurnedSince(s)') /\ Cardinality(TurnedSince(s)') \in Nat
    <3>1. Len(loops') \in Nat  BY <1>2
    <3>2. IsFiniteSet(1..Len(loops'))  BY <3>1, FS_Interval
    <3>3. TurnedSince(s)' \subseteq 1..Len(loops')  BY DEF TurnedSince
    <3>4. IsFiniteSet(TurnedSince(s)')  BY <3>2, <3>3, FS_Subset
    <3> QED BY <3>4, FS_CardinalityType
  <2>4. Cardinality(TurnedSince(s)) <= Cardinality(TurnedSince(s)')
    BY <2>2, <2>3, FS_Subset
  <2>5. Cardinality(TurnedSince(s)) \in Nat  BY <1>0, TurnedFinite
  <2>6. Cardinality(GivenSince(p, s))
          <= current[p] + MaxPerMinute * Cardinality(TurnedSince(s))
    BY DEF Shares
  <2>7. Cardinality(GivenSince(p, s)) \in Nat  BY GivenFinite
  <2> DEFINE given == Cardinality(GivenSince(p, s))
             share == MaxPerMinute * Cardinality(TurnedSince(s))
             more == MaxPerMinute * Cardinality(TurnedSince(s)')
  <2>8. share \in Nat /\ share <= more  BY <2>3, <2>4, <2>5, Scaled, Constants
  <2>9. more \in Nat  BY <2>3, Scaled, Constants
  <2>10. given \in Nat /\ given <= current[p] + share /\ current[p] \in Nat
    BY <1>0, <2>6, <2>7
  <2> HIDE DEF given, share, more
  <2>11. given <= current[p] + more  BY <2>8, <2>9, <2>10
  <2> QED BY <1>1, <2>1, <2>11 DEF given, more
<1> QED BY <1>1, <1>4 DEF Shares

(* Time takes from the calls that count. *)
LEMMA TickShares ==
  ASSUME TypeOK, Shares, Tick
  PROVE  Shares'
<1>0. /\ current \in [Providers -> 0..MaxPerMinute] /\ clock \in 0..MaxClock /\ LoopsOK
      /\ calls \in [Providers -> SUBSET Calls]
  BY TypeParts DEF HistoryOK
<1>1. /\ clock' = clock + 1 /\ current' = current /\ loops' = loops
      /\ calls' = [p \in Providers |->
                     {given \in calls[p] : clock' - given.at < Minute}]
  BY DEF Tick, background
<1>2. SUFFICES ASSUME NEW p \in Providers
               PROVE  /\ IsFiniteSet(calls'[p])
                      /\ \A c \in calls'[p] : c.at <= clock' /\ clock' - c.at < Minute
                      /\ \A s \in (clock' + 1 - Minute)..clock' :
                           Cardinality(GivenSince(p, s)')
                             <= current[p] + MaxPerMinute * Cardinality(TurnedSince(s))
  BY <1>1 DEF Shares, TurnedSince
<1>3. calls'[p] \subseteq calls[p]  BY <1>1
<1>4. IsFiniteSet(calls'[p])  BY <1>3, FS_Subset DEF Shares
<1>5. ASSUME NEW c \in calls'[p]
      PROVE  c.at <= clock /\ c.at <= clock' /\ clock' - c.at < Minute
  <2>1. c \in calls[p] /\ clock' - c.at < Minute  BY <1>1
  <2>2. c.at \in 0..MaxClock /\ c.at <= clock  BY <1>0, <2>1 DEF Shares, Calls
  <2> QED BY <1>0, <1>1, <2>1, <2>2, Constants
<1>6. ASSUME NEW s \in (clock' + 1 - Minute)..clock'
      PROVE  Cardinality(GivenSince(p, s)')
               <= current[p] + MaxPerMinute * Cardinality(TurnedSince(s))
  <2>0. /\ current[p] \in Nat /\ MaxPerMinute * Cardinality(TurnedSince(s)) \in Nat
    BY <1>0, TurnedFinite, Scaled, Constants
  <2>1. CASE s = clock'
    <3>1. GivenSince(p, s)' = {}
      <4>1. ASSUME NEW c \in calls'[p] PROVE ~(c.at >= s)
        <5>1. c.at \in 0..MaxClock  BY <1>0, <1>3 DEF Calls
        <5> QED BY <1>0, <1>1, <1>5, <2>1, <5>1, Constants
      <4> QED BY <4>1 DEF GivenSince
    <3>2. Cardinality(GivenSince(p, s)') = 0  BY <3>1, FS_EmptySet
    <3> QED BY <2>0, <3>2
  <2>2. CASE s # clock'
    <3>1. s \in (clock + 1 - Minute)..clock  BY <1>0, <1>1, <2>2, Constants
    <3>2. GivenSince(p, s)' \subseteq GivenSince(p, s)  BY <1>3 DEF GivenSince
    <3>3. IsFiniteSet(GivenSince(p, s)) /\ Cardinality(GivenSince(p, s)) \in Nat
      BY GivenFinite
    <3>4. /\ IsFiniteSet(GivenSince(p, s)')
          /\ Cardinality(GivenSince(p, s)') <= Cardinality(GivenSince(p, s))
      BY <3>2, <3>3, FS_Subset
    <3>5. Cardinality(GivenSince(p, s)') \in Nat  BY <3>4, FS_CardinalityType
    <3>6. Cardinality(GivenSince(p, s))
            <= current[p] + MaxPerMinute * Cardinality(TurnedSince(s))
      BY <3>1 DEF Shares
    <3> DEFINE old == Cardinality(GivenSince(p, s))
               new == Cardinality(GivenSince(p, s)')
               share == MaxPerMinute * Cardinality(TurnedSince(s))
    <3>7. old \in Nat /\ new \in Nat /\ share \in Nat /\ new <= old /\ old <= current[p] + share
      BY <2>0, <3>3, <3>4, <3>5, <3>6
    <3> HIDE DEF old, new, share
    <3>8. new <= current[p] + share  BY <2>0, <3>7
    <3> QED BY <3>8 DEF new, share
  <2> QED BY <2>1, <2>2
<1> QED BY <1>4, <1>5, <1>6

-----------------------------------------------------------------------------
(* The replay of stored answers. *)
LEMMA ReplaysFrame ==
  ASSUME Replays, UNCHANGED <<clock, stored, answered>>
  PROVE  Replays'
BY DEF Replays

(* While an answer of the key must be replayed, the entry of the key is     *)
(* fresh: its age is less than a day, so .seconds is the age.               *)
LEMMA AnsweredIsStored ==
  ASSUME TypeOK, Replays, NEW q \in Requests, NEW r \in Requests,
         answered[q] # None, idempotencyKey[q] = idempotencyKey[r],
         idempotencyKey[r] # None
  PROVE  /\ stored[idempotencyKey[r]] \in [response : Requests, at : 0..MaxClock]
         /\ Stored(r) = stored[idempotencyKey[r]].response
         /\ Stored(r) \in Requests
         /\ answered[q] <= answered[Stored(r)]
         /\ answered[Stored(r)] = stored[idempotencyKey[r]].at
         /\ idempotencyKey[Stored(r)] = idempotencyKey[r]
<1> DEFINE entry == stored[idempotencyKey[r]]
<1>0. /\ stored \in [Keys -> Held] /\ answered \in [Requests -> Times]
      /\ clock \in 0..MaxClock
  BY TypeParts DEF StoresOK, HistoryOK
<1>1. /\ answered[q] <= clock /\ clock - answered[q] < IdempotencyTtl
      /\ entry # None /\ answered[q] <= entry.at /\ entry.at <= clock
      /\ answered[entry.response] = entry.at
      /\ idempotencyKey[entry.response] = idempotencyKey[r]
  BY DEF Replays
<1>2. idempotencyKey[r] \in Keys  BY DEF Keys
<1>3. entry \in [response : Requests, at : 0..MaxClock]  BY <1>0, <1>1, <1>2 DEF Held
<1>4. entry.response \in Requests /\ entry.at \in 0..MaxClock  BY <1>3
<1>5. answered[q] \in 0..MaxClock  BY <1>0 DEF Times
<1>6. Seconds(entry.at) < IdempotencyTtl
  <2> DEFINE at == entry.at
             age == clock - entry.at
  <2>1. at \in Int /\ answered[q] \in Int /\ clock \in Int /\ MaxClock \in Int
    BY <1>0, <1>4, <1>5, Constants
  <2>2. answered[q] <= at /\ at <= clock /\ clock - answered[q] < IdempotencyTtl
    BY <1>1
  <2> HIDE DEF at
  <2>3. clock - at \in Nat /\ clock - at < IdempotencyTtl
    BY <2>1, <2>2, Constants
  <2>4. IdempotencyTtl <= Day /\ Day \in Nat \ {0} /\ IdempotencyTtl \in Nat
    BY Constants
  <2>5. (clock - at) % Day = clock - at  BY <2>3, <2>4
  <2> QED BY <2>3, <2>5 DEF Seconds, at
<1>7. Seconds(entry.at) \in Int
  BY <1>0, <1>4, Constants DEF Seconds
<1>8. ~(Seconds(entry.at) >= IdempotencyTtl)  BY <1>6, <1>7, Constants
<1>9. Stored(r) = entry.response  BY <1>1, <1>8 DEF Stored
<1> QED BY <1>1, <1>3, <1>4, <1>9

(* Only an entry that no answer counts on is forgotten. *)
LEMMA ForgetsReplays ==
  ASSUME TypeOK, Replays, NEW r \in Requests, Forgets(r), Stored(r) = None,
         UNCHANGED <<clock, answered>>
  PROVE  Replays'
<1>1. ASSUME NEW q \in Requests, answered[q] # None, idempotencyKey[q] # None
      PROVE  stored'[idempotencyKey[q]] = stored[idempotencyKey[q]]
  <2>1. stored \in [Keys -> Held]  BY TypeParts DEF StoresOK
  <2>2. idempotencyKey[q] # idempotencyKey[r]
    <3>1. SUFFICES ASSUME idempotencyKey[q] = idempotencyKey[r] PROVE FALSE
      OBVIOUS
    <3>2. Stored(r) \in Requests  BY <1>1, <3>1, AnsweredIsStored
    <3> QED BY <3>2, Constants
  <2> QED BY <2>1, <2>2 DEF Forgets
<1> QED BY <1>1 DEF Replays

(* A new answer is the one that must be replayed from now on. *)
LEMMA KeepReplays ==
  ASSUME TypeOK, Replays, NEW r \in Requests, r \notin Streams, Keep(r),
         clock' = clock, answered' = [answered EXCEPT ![r] = clock]
  PROVE  Replays'
<1>0. /\ stored \in [Keys -> Held] /\ answered \in [Requests -> Times]
      /\ clock \in 0..MaxClock
  BY TypeParts DEF StoresOK, HistoryOK
<1>1. answered'[r] = clock /\ clock # None  BY <1>0, Constants
<1>2. clock <= clock /\ clock - clock < IdempotencyTtl  BY <1>0, Constants
<1>3. Entry(r).response = r /\ Entry(r).at = clock /\ Entry(r) # None
  <2>1. Entry(r) \in [response : Requests, at : 0..MaxClock]  BY <1>0 DEF Entry
  <2> QED BY <2>1, Constants DEF Entry
<1>4. SUFFICES ASSUME NEW q \in Requests, answered'[q] # None
               PROVE  /\ q \notin Streams
                      /\ answered'[q] <= clock /\ clock - answered'[q] < IdempotencyTtl
                      /\ idempotencyKey[q] # None =>
                           LET entry == stored'[idempotencyKey[q]] IN
                             /\ entry # None
                             /\ answered'[q] <= entry.at /\ entry.at <= clock
                             /\ answered'[entry.response] = entry.at
                             /\ idempotencyKey[entry.response] = idempotencyKey[q]
  BY DEF Replays
<1>5. /\ q \notin Streams /\ answered'[q] <= clock
      /\ clock - answered'[q] < IdempotencyTtl
  <2>1. CASE q = r  BY <1>1, <1>2, <2>1
  <2>2. CASE q # r
    <3>1. answered'[q] = answered[q]  BY <1>0, <2>2
    <3> QED BY <1>4, <3>1 DEF Replays
  <2> QED BY <2>1, <2>2
<1>6. ASSUME idempotencyKey[q] # None, idempotencyKey[q] = idempotencyKey[r]
      PROVE  LET entry == stored'[idempotencyKey[q]] IN
               /\ entry # None
               /\ answered'[q] <= entry.at /\ entry.at <= clock
               /\ answered'[entry.response] = entry.at
               /\ idempotencyKey[entry.response] = idempotencyKey[q]
  <2>1. idempotencyKey[r] \in Keys  BY <1>6 DEF Keys
  <2>2. stored' = [stored EXCEPT ![idempotencyKey[r]] = Entry(r)]  BY <1>6 DEF Keep
  <2>3. stored'[idempotencyKey[q]] = Entry(r)  BY <1>0, <1>6, <2>1, <2>2
  <2> QED BY <1>1, <1>2, <1>3, <1>5, <1>6, <2>3
<1>7. ASSUME idempotencyKey[q] # None, idempotencyKey[q] # idempotencyKey[r]
      PROVE  LET entry == stored'[idempotencyKey[q]] IN
               /\ entry # None
               /\ answered'[q] <= entry.at /\ entry.at <= clock
               /\ answered'[entry.response] = entry.at
               /\ idempotencyKey[entry.response] = idempotencyKey[q]
  <2> DEFINE entry == stored[idempotencyKey[q]]
  <2>1. stored'[idempotencyKey[q]] = entry  BY <1>0, <1>7 DEF Keep
  <2>2. answered'[q] = answered[q]  BY <1>0, <1>7
  <2>3. /\ entry # None /\ answered[q] <= entry.at /\ entry.at <= clock
        /\ answered[entry.response] = entry.at
        /\ idempotencyKey[entry.response] = idempotencyKey[q]
    BY <1>4, <1>7, <2>2 DEF Replays
  <2>4. entry.response # r  BY <1>7, <2>3
  <2>5. answered'[entry.response] = answered[entry.response]  BY <1>0, <2>4
  <2> QED BY <2>1, <2>2, <2>3, <2>5
<1> QED BY <1>5, <1>6, <1>7

LEMMA TickReplays ==
  ASSUME TypeOK, Replays, Tick
  PROVE  Replays'
<1>0. /\ stored \in [Keys -> Held] /\ answered \in [Requests -> Times]
      /\ clock \in 0..MaxClock
  BY TypeParts DEF StoresOK, HistoryOK
<1>1. /\ clock' = clock + 1 /\ stored' = stored
      /\ answered' = [r \in Requests |->
           IF answered[r] # None /\ clock' - answered[r] < IdempotencyTtl
             THEN answered[r] ELSE None]
  BY DEF Tick, stores
<1>2. SUFFICES ASSUME NEW q \in Requests, answered'[q] # None
               PROVE  /\ q \notin Streams
                      /\ answered'[q] <= clock' /\ clock' - answered'[q] < IdempotencyTtl
                      /\ idempotencyKey[q] # None =>
                           LET entry == stored'[idempotencyKey[q]] IN
                             /\ entry # None
                             /\ answered'[q] <= entry.at /\ entry.at <= clock'
                             /\ answered'[entry.response] = entry.at
                             /\ idempotencyKey[entry.response] = idempotencyKey[q]
  BY DEF Replays
<1>3. /\ answered'[q] = answered[q] /\ answered[q] # None
      /\ clock' - answered[q] < IdempotencyTtl
  BY <1>1, <1>2
<1>4. q \notin Streams /\ answered[q] <= clock  BY <1>3 DEF Replays
<1>5. answered[q] \in 0..MaxClock  BY <1>0, <1>3 DEF Times
<1>6. answered[q] <= clock'  BY <1>0, <1>1, <1>4, <1>5, Constants
<1>7. ASSUME idempotencyKey[q] # None
      PROVE  LET entry == stored[idempotencyKey[q]] IN
               /\ entry # None
               /\ answered[q] <= entry.at /\ entry.at <= clock'
               /\ answered'[entry.response] = entry.at
               /\ idempotencyKey[entry.response] = idempotencyKey[q]
  <2> DEFINE entry == stored[idempotencyKey[q]]
             at == entry.at
  <2>1. /\ entry # None /\ answered[q] <= at /\ at <= clock
        /\ answered[entry.response] = at
        /\ idempotencyKey[entry.response] = idempotencyKey[q]
    BY <1>3, <1>7 DEF Replays
  <2>2. entry.response \in Requests /\ at \in 0..MaxClock
    BY <1>3, <1>7, AnsweredIsStored
  <2>3. at <= clock' /\ clock' - at < IdempotencyTtl
    <3> HIDE DEF at
    <3>1. at \in Int /\ clock \in Int /\ answered[q] \in Int
      BY <1>0, <1>5, <2>2, Constants
    <3> QED BY <1>1, <1>3, <2>1, <3>1, Constants
  <2>4. at # None  BY <2>2, Constants
  <2>5. answered'[entry.response] = at  BY <1>1, <2>1, <2>2, <2>3, <2>4
  <2> QED BY <2>1, <2>3, <2>5
<1> QED BY <1>1, <1>3, <1>4, <1>6, <1>7

-----------------------------------------------------------------------------
(* An action of a request changes that request only. *)
LEMMA OnlyItsOwn ==
  ASSUME req \in [Requests -> Request], NEW q \in Requests, NEW r \in Requests, q # r,
         Submit(q) \/ SubmitStream(q) \/ Answer(q) \/ Fail(q) \/ Raise(q) \/ Retry(q)
  PROVE  req'[r] = req[r]
<1>1. ASSUME NEW out, NEW response, Ends(q, out, response)
      PROVE  req'[r] = req[r]
  BY <1>1 DEF Ends
<1>2. ASSUME NEW attempts, Selects(q, attempts)
      PROVE  req'[r] = req[r]
  BY <1>1, <1>2 DEF Selects
<1>3. CASE Submit(q)
  <2>1. CASE Replay(q)  BY <1>1, <2>1 DEF Replay
  <2>2. CASE Refuse(q)  BY <1>1, <2>2 DEF Refuse
  <2>3. CASE Execute(q)  BY <1>1, <1>2, <2>3 DEF Execute
  <2> QED BY <1>3, <2>1, <2>2, <2>3 DEF Submit
<1>4. CASE SubmitStream(q)  BY <1>2, <1>4 DEF SubmitStream
<1>5. CASE Answer(q)  BY <1>1, <1>5 DEF Answer
<1>6. CASE Fail(q)  BY <1>1, <1>6 DEF Fail
<1>7. CASE Raise(q)  BY <1>1, <1>7 DEF Raise
<1>8. CASE Retry(q)  BY <1>2, <1>8 DEF Retry
<1> QED BY <1>3, <1>4, <1>5, <1>6, <1>7, <1>8

(* The step that submits a request replays the last answer of its key. *)
LEMMA SubmitReplays ==
  ASSUME TypeOK, Replays, NEW r \in Requests \ Streams, Submit(r),
         NEW q \in SameKey(r), LastAnswered(q, r)
  PROVE  req'[r].out = "replayed" /\ answered[req'[r].response] = answered[q]
<1>0. /\ q \in Requests /\ answered[q] # None
      /\ idempotencyKey[q] = idempotencyKey[r] /\ idempotencyKey[r] # None
  BY DEF SameKey
<1>1. /\ Stored(r) \in Requests /\ answered[q] <= answered[Stored(r)]
      /\ answered[Stored(r)] \in 0..MaxClock
      /\ idempotencyKey[Stored(r)] = idempotencyKey[r]
  BY <1>0, AnsweredIsStored
<1>2. Stored(r) # None /\ answered[Stored(r)] # None  BY <1>1, Constants
<1>3. Stored(r) \in SameKey(r)
  <2>1. Stored(r) \notin Streams  BY <1>1, <1>2 DEF Replays
  <2> QED BY <1>0, <1>1, <1>2, <2>1 DEF SameKey
<1>4. answered[Stored(r)] <= answered[q]  BY <1>3 DEF LastAnswered
<1>5. answered[q] \in 0..MaxClock
  BY <1>0, TypeParts DEF HistoryOK, Times
<1>6. answered[Stored(r)] = answered[q]  BY <1>1, <1>4, <1>5, Constants
<1>7. Replay(r)  BY <1>2 DEF Submit, Refuse, Execute
<1>8. req \in [Requests -> Request]  BY TypeParts
<1>9. "replayed" \in Outcomes  BY DEF Outcomes
<1>10. req'[r].out = "replayed" /\ req'[r].response = Stored(r)
  BY <1>1, <1>7, <1>8, <1>9, EndsType DEF Replay
<1> QED BY <1>6, <1>10

-----------------------------------------------------------------------------
(* The invariant holds at the start and every step keeps it. *)
LEMMA InitIInv == Init => IInv
<1> SUFFICES ASSUME Init PROVE IInv
  OBVIOUS
<1>1. TypeOK
  <2>1. IsFiniteSet({}) /\ Cardinality({}) = 0  BY FS_EmptySet
  <2>2. StampsOK  BY <2>1, Constants DEF Init, StampsOK
  <2>3. SemanticOK
    <3>1. DOMAIN semantic = {}  BY DEF Init
    <3>2. semantic \in [DOMAIN semantic -> Places]  BY <3>1 DEF Init
    <3> QED BY <2>1, <3>1, <3>2, Constants DEF SemanticOK
  <2>4. LoopsOK  BY Constants DEF Init, LoopsOK
  <2>5. HistoryOK  BY DEF Init, HistoryOK, Times
  <2>6. StoresOK  BY DEF Init, StoresOK, Held
  <2>7. req \in [Requests -> Request]  BY Constants DEF Init, Request, Outcomes
  <2>8. /\ current \in [Providers -> 0..MaxPerMinute] /\ clock \in 0..MaxClock
        /\ running \in BOOLEAN
    <3>1. 0 \in 0..MaxPerMinute /\ 0 \in 0..MaxClock  BY Constants
    <3> QED BY <3>1 DEF Init
  <2> QED BY <2>2, <2>3, <2>4, <2>5, <2>6, <2>7, <2>8, TypeParts
<1>2. Windows
  <2>1. AllStamps = {}  BY DEF Init, AllStamps
  <2>2. IsFiniteSet(AllStamps) /\ Cardinality(AllStamps) = 0  BY <2>1, FS_EmptySet
  <2>3. \A r \in Requests : admitted[r] = None  BY DEF Init
  <2> QED BY <2>2, <2>3, Constants DEF Windows
<1>3. Replays
  <2>1. \A r \in Requests : answered[r] = None  BY DEF Init
  <2> QED BY <2>1 DEF Replays
<1>4. Shares
  <2>1. ASSUME NEW p \in Providers, NEW s
        PROVE  /\ IsFiniteSet(calls[p]) /\ calls[p] = {}
               /\ Cardinality(GivenSince(p, s)) = 0
    <3>1. calls[p] = {}  BY DEF Init
    <3>2. GivenSince(p, s) = {}  BY <3>1 DEF GivenSince
    <3> QED BY <3>1, <3>2, FS_EmptySet
  <2>2. ASSUME NEW p \in Providers, NEW s
        PROVE  0 <= current[p] + MaxPerMinute * Cardinality(TurnedSince(s))
    <3>1. TurnedSince(s) = {}  BY DEF Init, TurnedSince
    <3>2. Cardinality(TurnedSince(s)) = 0  BY <3>1, FS_EmptySet
    <3>3. MaxPerMinute * 0 = 0 /\ current[p] = 0  BY Constants DEF Init
    <3> QED BY <3>2, <3>3
  <2> QED BY <2>1, <2>2 DEF Shares
<1> QED BY <1>1, <1>2, <1>3, <1>4 DEF IInv

LEMMA SubmitIInv ==
  ASSUME IInv, NEW r \in Requests, Submit(r)
  PROVE  IInv'
<1>0. TypeOK /\ Windows /\ Replays /\ Shares /\ StampsOK  BY TypeParts DEF IInv
<1>1. UNCHANGED <<clock, loops, answered>>  BY DEF Submit, background
<1>2. TypeOK'  BY <1>0, SubmitType
<1>3. CASE Replay(r)
  <2>1. UNCHANGED <<stored, stamps, current, admitted, calls>>  BY <1>3 DEF Replay
  <2> QED BY <1>0, <1>1, <1>2, <2>1, UnprunedWindows, ReplaysFrame, SharesFrame DEF IInv
<1>4. CASE Refuse(r)
  <2>1. /\ UNCHANGED <<current, admitted, calls>> /\ Stored(r) = None
        /\ Forgets(r) /\ Prune(r)
    BY <1>4 DEF Refuse
  <2> QED BY <1>0, <1>1, <1>2, <2>1, PrunePrunes, PrunedWindows, ForgetsReplays,
             SharesFrame DEF IInv
<1>5. CASE Execute(r)
  <2>1. /\ WithinRate(r) /\ Stamp(r) /\ Stored(r) = None /\ Forgets(r)
        /\ admitted' = [admitted EXCEPT ![r] = clock]
    BY <1>5 DEF Execute
  <2>2. Windows' /\ Replays'  BY <1>0, <1>1, <2>1, StampWindows, ForgetsReplays
  <2>3. Shares'
    <3>1. CASE UNCHANGED <<current, calls>>  BY <1>0, <1>1, <3>1, SharesFrame
    <3>2. CASE Selects(r, 0)
      <4>1. 0 \in 0..MaxAttempts  BY Constants
      <4> QED BY <1>0, <1>1, <3>2, <4>1, SelectsShares
    <3> QED BY <1>5, <3>1, <3>2 DEF Execute
  <2> QED BY <1>2, <2>2, <2>3 DEF IInv
<1> QED BY <1>3, <1>4, <1>5 DEF Submit

LEMMA ProvidedIInv ==
  ASSUME IInv, NEW r \in Requests,
         SubmitStream(r) \/ Retry(r) \/ Answer(r) \/ Fail(r) \/ Raise(r)
  PROVE  IInv'
<1>0. TypeOK /\ Windows /\ Replays /\ Shares  BY DEF IInv
<1>1. CASE SubmitStream(r) \/ Retry(r)
  <2>1. UNCHANGED <<clock, loops, stored, stamps, admitted, answered>>
    BY <1>1 DEF SubmitStream, Retry, stores, background
  <2>2. PICK attempts \in 0..MaxAttempts : Selects(r, attempts)
    <3>1. req[r].attempts \in 0..MaxAttempts  BY <1>0, TypeParts DEF Request
    <3> QED BY <1>1, <3>1, Constants DEF SubmitStream, Retry
  <2>3. TypeOK'  BY <1>0, <1>1, SelectingType
  <2>4. Shares'  BY <1>0, <2>1, <2>2, SelectsShares
  <2> QED BY <1>0, <2>1, <2>3, <2>4, UnprunedWindows, ReplaysFrame DEF IInv
<1>2. CASE Answer(r)
  <2>1. UNCHANGED <<clock, loops, stamps, current, admitted, calls>>
    BY <1>2 DEF Answer, background
  <2>2. Replays'
    <3>1. CASE r \in Streams
      <4>1. UNCHANGED <<stored, answered>>  BY <1>2, <3>1 DEF Answer, stores
      <4> QED BY <1>0, <2>1, <4>1, ReplaysFrame
    <3>2. CASE r \notin Streams
      <4>1. Keep(r) /\ answered' = [answered EXCEPT ![r] = clock]
        BY <1>2, <3>2 DEF Answer
      <4> QED BY <1>0, <2>1, <3>2, <4>1, KeepReplays
    <3> QED BY <3>1, <3>2
  <2> QED BY <1>0, <1>2, <2>1, <2>2, AnswerType, UnprunedWindows, SharesFrame DEF IInv
<1>3. CASE Fail(r) \/ Raise(r)
  <2>1. UNCHANGED <<clock, stored, loops, stamps, current, admitted, answered, calls>>
    BY <1>3 DEF Fail, Raise, stores, background
  <2> QED BY <1>0, <1>3, <2>1, FailType, UnprunedWindows, ReplaysFrame, SharesFrame
          DEF IInv
<1> QED BY <1>1, <1>2, <1>3

LEMMA BackgroundIInv ==
  ASSUME IInv,
         Start \/ Stop \/ ClearExpired \/ Tick \/ \E i \in DOMAIN loops : Reset(i)
  PROVE  IInv'
<1>0. TypeOK /\ Windows /\ Replays /\ Shares /\ StampsOK  BY TypeParts DEF IInv
<1>1. CASE Start
  <2>1. UNCHANGED <<clock, stored, stamps, admitted, answered>>  BY <1>1 DEF Start, stores
  <2> QED BY <1>0, <1>1, <2>1, BackgroundType, UnprunedWindows, ReplaysFrame,
             StartShares DEF IInv
<1>2. CASE Stop
  <2>1. UNCHANGED <<clock, stored, stamps, admitted, answered, calls, current, loops>>
    BY <1>2 DEF Stop, stores
  <2> QED BY <1>0, <1>2, <2>1, BackgroundType, UnprunedWindows, ReplaysFrame,
             SharesFrame DEF IInv
<1>3. CASE ClearExpired
  <2>1. UNCHANGED <<clock, stored, stamps, admitted, answered, calls, current, loops>>
    BY <1>3 DEF ClearExpired, background
  <2> QED BY <1>0, <1>3, <2>1, BackgroundType, UnprunedWindows, ReplaysFrame,
             SharesFrame DEF IInv
<1>4. ASSUME NEW i \in DOMAIN loops, Reset(i) PROVE IInv'
  <2>1. UNCHANGED <<clock, stored, admitted, answered>>  BY <1>4 DEF Reset, stores
  <2>2. Pruned  BY <1>4 DEF Reset, Pruned
  <2>3. TypeOK'  BY <1>0, <1>4, BackgroundType
  <2> QED BY <1>0, <1>4, <2>1, <2>2, <2>3, PrunedWindows, ReplaysFrame, ResetShares
          DEF IInv
<1>5. CASE Tick
  BY <1>0, <1>5, TickType, TickWindows, TickReplays, TickShares DEF IInv
<1> QED BY <1>1, <1>2, <1>3, <1>4, <1>5

LEMMA NextIInv == IInv /\ [Next]_vars => IInv'
<1> SUFFICES ASSUME IInv, [Next]_vars PROVE IInv'
  OBVIOUS
<1>1. CASE UNCHANGED vars
  <2>1. TypeOK'
    <3>1. UNCHANGED <<clock, running, cache, stored, semantic, stamps, loops, admitted,
                      answered, calls, current, req>>
      BY <1>1 DEF vars
    <3> QED BY <3>1, FrameTypes, TypeParts, TypePartsNext DEF IInv
  <2> QED BY <1>1, <2>1, UnprunedWindows, ReplaysFrame, SharesFrame DEF IInv, vars
<1>2. CASE \E r \in Requests : Submit(r) \/ SubmitStream(r) \/ Answer(r) \/ Fail(r)
                               \/ Raise(r) \/ Retry(r)
  BY <1>2, SubmitIInv, ProvidedIInv
<1>3. CASE Start \/ Stop \/ ClearExpired \/ Tick \/ \E i \in DOMAIN loops : Reset(i)
  BY <1>3, BackgroundIInv
<1> QED BY <1>1, <1>2, <1>3 DEF Next

LEMMA SpecIInv == Spec => []IInv
BY InitIInv, NextIInv, PTL DEF Spec

-----------------------------------------------------------------------------
\* In every reachable state the stores hold answers of requests, no window
\* holds more stamps than its tenant's limit, the list of similar contents is
\* within its size and no counter passes the limit of its provider.
THEOREM OrchestratorTypes == Spec => []TypeOK
<1>1. IInv => TypeOK  BY DEF IInv
<1> QED BY <1>1, SpecIInv, PTL

(* Requests counted as admitted have stamps of their own. *)
LEMMA AdmittedHaveStamps ==
  ASSUME NEW rs \in SUBSET Requests, NEW kept, IsFiniteSet(kept),
         \A r \in rs : admitted[r] # None => [by |-> r, at |-> admitted[r]] \in kept
  PROVE  /\ Passed(rs) \in Nat /\ Cardinality(kept) \in Nat
         /\ Passed(rs) <= Cardinality(kept)
<1> DEFINE passed == {r \in rs : admitted[r] # None}
           stamp == [r \in passed |-> [by |-> r, at |-> admitted[r]]]
<1>1. stamp \in [passed -> kept]  OBVIOUS
<1>2. \A q, r \in passed : stamp[q] = stamp[r] => q = r
  <2>1. \A r \in passed : stamp[r].by = r  OBVIOUS
  <2> QED BY <2>1
<1>3. stamp \in Injection(passed, kept)
  BY <1>1, <1>2 DEF Injection, IsInjective
<1>4. IsFiniteSet(passed) /\ Cardinality(passed) <= Cardinality(kept)
  BY <1>3, FS_Injection
<1> QED BY <1>4, FS_CardinalityType DEF Passed

\* However requests, prunings and resets come between each other, no tenant
\* gets more requests past the rate windows within a minute than its limit, and
\* all tenants together no more than the global limit.
THEOREM RatesAreKept == Spec => []WithinLimits
<1>1. IInv => WithinLimits
  <2> SUFFICES ASSUME IInv PROVE WithinLimits
    OBVIOUS
  <2>0. TypeOK /\ Windows /\ StampsOK  BY TypeParts DEF IInv
  <2>1. ASSUME NEW t \in Tenants
        PROVE  Passed({r \in Requests : tenant[r] = t}) <= TenantLimit
    <3> DEFINE rs == {r \in Requests : tenant[r] = t}
    <3>1. t # None  BY DEF Tenants
    <3>2. \A r \in rs : admitted[r] # None =>
            [by |-> r, at |-> admitted[r]] \in stamps[t]
      BY <2>0, <3>1 DEF Windows
    <3>3. IsFiniteSet(stamps[t]) /\ Cardinality(stamps[t]) <= TenantLimit
      BY <2>0 DEF StampsOK
    <3>4. /\ Passed(rs) \in Nat /\ Cardinality(stamps[t]) \in Nat
          /\ Passed(rs) <= Cardinality(stamps[t])
      BY <3>2, <3>3, AdmittedHaveStamps
    <3> QED BY <3>3, <3>4, Constants
  <2>2. Passed({r \in Requests : tenant[r] # None}) <= GlobalLimit
    <3> DEFINE rs == {r \in Requests : tenant[r] # None}
    <3>1. \A r \in rs : admitted[r] # None =>
            [by |-> r, at |-> admitted[r]] \in AllStamps
      BY <2>0 DEF Windows, AllStamps, Tenants
    <3>2. IsFiniteSet(AllStamps) /\ Cardinality(AllStamps) <= GlobalLimit
      BY <2>0 DEF Windows
    <3>3. /\ Passed(rs) \in Nat /\ Cardinality(AllStamps) \in Nat
          /\ Passed(rs) <= Cardinality(AllStamps)
      BY <3>1, <3>2, AdmittedHaveStamps
    <3> QED BY <3>2, <3>3, Constants
  <2> QED BY <2>1, <2>2 DEF WithinLimits
<1> QED BY <1>1, SpecIInv, PTL

\* However the resets of the counters fall, a provider is given no more calls
\* within a minute than a full share for every reset loop and one more.
THEOREM SharesAreBounded == Spec => []ShareIsBounded
<1>1. IInv => ShareIsBounded
  <2> SUFFICES ASSUME IInv, NEW p \in Providers
               PROVE  Cardinality(calls[p]) <= (Len(loops) + 1) * MaxPerMinute
    BY DEF ShareIsBounded
  <2>0. /\ Shares /\ LoopsOK /\ clock \in 0..MaxClock
        /\ current \in [Providers -> 0..MaxPerMinute]
        /\ calls \in [Providers -> SUBSET Calls]
    BY TypeParts DEF IInv, HistoryOK
  <2> DEFINE s == clock + 1 - Minute
             turned == Cardinality(TurnedSince(s))
             given == Cardinality(calls[p])
             starts == Len(loops)
  <2>1. s \in Int /\ s \in s..clock  BY <2>0, Constants
  <2>2. GivenSince(p, s) = calls[p]
    <3>1. ASSUME NEW c \in calls[p] PROVE c.at >= s
      <4>1. c.at \in 0..MaxClock /\ clock - c.at < Minute
        BY <2>0 DEF Shares, Calls
      <4> QED BY <2>0, <4>1, Constants
    <3> QED BY <3>1 DEF GivenSince
  <2>3. given <= current[p] + MaxPerMinute * turned
    BY <2>0, <2>1, <2>2 DEF Shares
  <2>4. /\ turned \in Nat /\ turned <= starts /\ starts \in Nat
    BY <2>0, TurnedFinite DEF LoopsOK
  <2>5. given \in Nat  BY <2>0, FS_CardinalityType DEF Shares
  <2>6. current[p] \in 0..MaxPerMinute  BY <2>0
  <2> HIDE DEF s, turned, given, starts
  <2>7. /\ MaxPerMinute * turned \in Nat /\ MaxPerMinute * starts \in Nat
        /\ MaxPerMinute * turned <= MaxPerMinute * starts
    BY <2>4, Scaled, Constants
  <2>8. given <= MaxPerMinute + MaxPerMinute * starts
    BY <2>3, <2>5, <2>6, <2>7, Constants
  <2>9. (starts + 1) * MaxPerMinute = MaxPerMinute + MaxPerMinute * starts
    BY <2>4, Constants
  <2> QED BY <2>8, <2>9 DEF given, starts
<1> QED BY <1>1, SpecIInv, PTL

\* A request that comes within the store's time to live of the last answer to
\* its key is given that answer, and no provider is called for it.
THEOREM RetriesAreReplayed == Spec => RetryIsReplayed
<1> DEFINE Replayed ==
      \A r \in Requests \ Streams :
        (req[r].at = "new" /\ req'[r].at # "new")
          => \A q \in SameKey(r) :
               LastAnswered(q, r)
                 => /\ req'[r].out = "replayed"
                    /\ answered[req'[r].response] = answered[q]
<1>1. IInv /\ [Next]_vars => [Replayed]_vars
  <2> SUFFICES ASSUME IInv, Next, NEW r \in Requests \ Streams,
                      req[r].at = "new", req'[r].at # "new",
                      NEW q \in SameKey(r), LastAnswered(q, r)
               PROVE  req'[r].out = "replayed" /\ answered[req'[r].response] = answered[q]
    OBVIOUS
  <2>0. TypeOK /\ Replays /\ req \in [Requests -> Request]  BY TypeParts DEF IInv
  <2>1. req' # req  OBVIOUS
  <2>2. PICK u \in Requests : Submit(u) \/ SubmitStream(u) \/ Answer(u) \/ Fail(u)
                              \/ Raise(u) \/ Retry(u)
    BY <2>1 DEF Next, Reset, Start, Stop, ClearExpired, Tick
  <2>3. u = r
    <3>1. SUFFICES ASSUME u # r PROVE FALSE
      OBVIOUS
    <3>2. req'[r] = req[r]  BY <2>0, <2>2, <3>1, OnlyItsOwn
    <3> QED BY <3>2
  <2>4. Submit(r)
    BY <2>2, <2>3 DEF SubmitStream, Answer, Fail, Raise, Retry
  <2> QED BY <2>0, <2>4, SubmitReplays
<1> QED BY <1>1, SpecIInv, PTL DEF Spec, RetryIsReplayed
=============================================================================
