----------------------------- MODULE PartsProofs -----------------------------
(***************************************************************************)
(* Theorems about the parts that keep no state in common with the rest of  *)
(* the system: the connection pool, the bulkhead, backpressure, the queue  *)
(* of a room, the failover of regions, the token buckets, the load         *)
(* balancer, the fallback chain, the model factory, nested deadlines and   *)
(* the semantic cache. Each part is an instance of its module over the     *)
(* constants and variables here; names that two parts have in common are   *)
(* shared, for no theorem is about two parts. What a part needs of its     *)
(* numbers is the hypothesis of its theorem.                               *)
(***************************************************************************)
EXTENDS Integers, Sequences, FiniteSetTheorems, WellFoundedInduction, TLAPS

CONSTANTS Users, None, MaxSize, MinSize, ToClose, MaxResults,
          Tasks, MaxConcurrent, MaxAttempts, Strategies, InitialDelay, MaxDelay, Jitter,
          Recent, Retryable, RetryOnTimeout,
          Senders, MaxInFlight, MaxBuffer, InitialWindow, MaxSent, MaxDrains,
          Sessions, Messages,
          Regions, Priority, Threshold, Connected,
          Capacity, Rate, Unit, Burst, Idle, Asked, MaxClock,
          Requests, Instances, MaxConnections, Many, Weak,
          Models, Chain, Recovery,
          Attempts, ResetTimeout,
          Operations, Requested, MinTimeout, MaxTimeout, Default, Buffer, MaxEvents, KeptEvents,
          MaxDepth,
          Callers, Entries, Tenants, tenant, MaxEntries, MaxCalls
VARIABLES idle, active, lock, at, closing, breaker, good, bad, elapsed,
          attempt, waiting, strategy, pause, history,
          sent, acked, window, slow, buffered, drains, best,
          on, reading, queue, expired, sending, given, sweep, covered, missed,
          status, failures, primary, flagged, checking, due, spare,
          kind, clock, tokens, last, used,
          present, available, connections, total, failed,
          pos, skipped,
          request, asks, circuit,
          stack, deadline, usual, events,
          lru, redis, counts, gone

Pool == INSTANCE ConnectionPool
Bulk == INSTANCE Bulkhead
Flow == INSTANCE Backpressure
Room == INSTANCE RoomQueue
Regional == INSTANCE MultiRegion
Bucket == INSTANCE TokenBucket
Load == INSTANCE LoadBalancer
Fallback == INSTANCE FallbackChain
Factory == INSTANCE ModelFactory
Timeouts == INSTANCE Deadlines
Answers == INSTANCE SemanticCache

-----------------------------------------------------------------------------
(* Which of d's are where P says, as one of them moves. *)
Where(D, f, P) == {d \in D : f[d] \in P}

Moved(f, d, x) == [f EXCEPT ![d] = x]

(* One of them moves: the number of those there follows. *)
LEMMA OneMoves ==
  ASSUME NEW D, NEW f, DOMAIN f = D, NEW P, IsFiniteSet(Where(D, f, P)),
         NEW d \in D, NEW x
  PROVE  /\ IsFiniteSet(Where(D, Moved(f, d, x), P))
         /\ Cardinality(Where(D, f, P)) \in Nat
         /\ x \in P /\ d \notin Where(D, f, P) =>
              Cardinality(Where(D, Moved(f, d, x), P)) = Cardinality(Where(D, f, P)) + 1
         /\ (x \in P <=> d \in Where(D, f, P)) =>
              Cardinality(Where(D, Moved(f, d, x), P)) = Cardinality(Where(D, f, P))
         /\ x \notin P /\ d \in Where(D, f, P) =>
              /\ Cardinality(Where(D, f, P)) >= 1
              /\ Cardinality(Where(D, Moved(f, d, x), P)) = Cardinality(Where(D, f, P)) - 1
<1> DEFINE W == Where(D, f, P)
           V == Where(D, Moved(f, d, x), P)
<1>1. /\ x \in P => V = W \cup {d}
      /\ x \notin P => V = W \ {d}
  BY DEF Where, Moved
<1>2. IsFiniteSet(W) OBVIOUS
<1> HIDE DEF W, V
<1>3. Cardinality(W) \in Nat
  BY <1>2, FS_CardinalityType
<1>4. /\ IsFiniteSet(W \cup {d})
      /\ Cardinality(W \cup {d}) = IF d \in W THEN Cardinality(W) ELSE Cardinality(W) + 1
  BY <1>2, FS_AddElement
<1>5. /\ IsFiniteSet(W \ {d})
      /\ Cardinality(W \ {d}) = IF d \in W THEN Cardinality(W) - 1 ELSE Cardinality(W)
  BY <1>2, FS_RemoveElement
<1>6. d \in W => Cardinality(W) >= 1
  BY <1>2, <1>3, FS_EmptySet
<1>7. IsFiniteSet(V)
  BY <1>1, <1>4, <1>5
<1>8. x \in P /\ d \notin W => Cardinality(V) = Cardinality(W) + 1
  BY <1>1, <1>4
<1>9. (x \in P <=> d \in W) => Cardinality(V) = Cardinality(W)
  BY <1>1, <1>4, <1>5
<1>10. x \notin P /\ d \in W => Cardinality(W) >= 1 /\ Cardinality(V) = Cardinality(W) - 1
  BY <1>1, <1>5, <1>6
<1> QED BY <1>3, <1>7, <1>8, <1>9, <1>10 DEF W, V

(* None of them is there. *)
LEMMA NoneThere ==
  ASSUME NEW D, NEW f, NEW P, \A d \in D : f[d] \notin P
  PROVE  IsFiniteSet(Where(D, f, P)) /\ Cardinality(Where(D, f, P)) = 0
<1>1. Where(D, f, P) = {}
  BY DEF Where
<1> QED BY <1>1, FS_EmptySet

-----------------------------------------------------------------------------
(* A line: nobody stands in it twice.                                       *)
InLine(line, x) == \E i \in 1..Len(line) : line[i] = x
Distinct(line) == \A i, j \in 1..Len(line) : line[i] = line[j] => i = j

(* Someone new joins the line at its end ... *)
LEMMA LineGrows ==
  ASSUME NEW D, NEW line \in Seq(D), Distinct(line), NEW x \in D, ~InLine(line, x)
  PROVE  /\ Append(line, x) \in Seq(D) /\ Distinct(Append(line, x))
         /\ \A y : InLine(Append(line, x), y) <=> InLine(line, y) \/ y = x
<1> DEFINE z == Append(line, x)
<1>1. /\ z \in Seq(D) /\ Len(z) = Len(line) + 1 /\ Len(line) \in Nat
      /\ z[Len(line) + 1] = x /\ \A i \in 1..Len(line) : z[i] = line[i]
  OBVIOUS
<1> HIDE DEF z
<1>2. Distinct(z)
  BY <1>1 DEF Distinct, InLine
<1>3. \A y : InLine(z, y) <=> InLine(line, y) \/ y = x
  BY <1>1 DEF InLine
<1> QED BY <1>1, <1>2, <1>3 DEF z

(* ... or at its front; *)
LEMMA LineGrowsInFront ==
  ASSUME NEW D, NEW line \in Seq(D), Distinct(line), NEW x \in D, ~InLine(line, x)
  PROVE  /\ <<x>> \o line \in Seq(D) /\ Distinct(<<x>> \o line)
         /\ \A y : InLine(<<x>> \o line, y) <=> InLine(line, y) \/ y = x
<1> DEFINE z == <<x>> \o line
<1>1. /\ z \in Seq(D) /\ Len(z) = Len(line) + 1 /\ Len(line) \in Nat /\ z[1] = x
      /\ \A i \in 1..Len(line) : z[i + 1] = line[i]
  OBVIOUS
<1> HIDE DEF z
<1>2. \A i \in 1..Len(z) : i = 1 \/ (i - 1 \in 1..Len(line) /\ z[i] = line[i - 1])
  <2> TAKE i \in 1..Len(z)
  <2>1. i = 1 \/ (i - 1 \in 1..Len(line) /\ (i - 1) + 1 = i)
    BY <1>1
  <2> QED BY <1>1, <2>1
<1>3. \A i \in 1..Len(line) : line[i] # x
  BY DEF InLine
<1>4. \A i, j \in 1..Len(line) : line[i] = line[j] => i = j
  BY DEF Distinct
<1>5. Distinct(z)
  <2> SUFFICES ASSUME NEW i \in 1..Len(z), NEW j \in 1..Len(z), z[i] = z[j] PROVE i = j
    BY DEF Distinct
  <2>1. CASE i = 1 \/ j = 1
    BY <1>1, <1>2, <1>3, <2>1
  <2>2. CASE i # 1 /\ j # 1
    <3>1. /\ i - 1 \in 1..Len(line) /\ z[i] = line[i - 1]
          /\ j - 1 \in 1..Len(line) /\ z[j] = line[j - 1]
      BY <1>2, <2>2
    <3>2. i - 1 = j - 1
      BY <1>4, <3>1
    <3> QED BY <3>2
  <2> QED BY <2>1, <2>2
<1>6. \A y : InLine(z, y) => InLine(line, y) \/ y = x
  BY <1>1, <1>2 DEF InLine
<1>7. ASSUME NEW i \in 1..Len(line) PROVE InLine(z, line[i])
  <2>1. i + 1 \in 1..Len(z) /\ z[i + 1] = line[i]
    BY <1>1
  <2> QED BY <2>1 DEF InLine
<1>8. InLine(z, x)
  BY <1>1 DEF InLine
<1> QED BY <1>1, <1>5, <1>6, <1>7, <1>8 DEF z, InLine

Without(line, i) == SubSeq(line, 1, i - 1) \o SubSeq(line, i + 1, Len(line))

(* someone leaves it; *)
LEMMA LineShrinks ==
  ASSUME NEW D, NEW line \in Seq(D), Distinct(line), NEW i \in 1..Len(line)
  PROVE  /\ Without(line, i) \in Seq(D) /\ Distinct(Without(line, i))
         /\ \A y : InLine(Without(line, i), y) <=> InLine(line, y) /\ y # line[i]
<1> DEFINE z == Without(line, i)
<1>1. /\ Len(line) \in Nat /\ i \in Nat /\ 1 <= i /\ i <= Len(line)
  OBVIOUS
<1>2. /\ z \in Seq(D) /\ Len(z) = Len(line) - 1
      /\ \A j \in 1..Len(z) : z[j] = IF j < i THEN line[j] ELSE line[j + 1]
  <2> DEFINE p == SubSeq(line, 1, i - 1)
             q == SubSeq(line, i + 1, Len(line))
  <2>1. p \in Seq(D) /\ Len(p) = i - 1 /\ \A j \in 1..Len(p) : p[j] = line[j]
    BY <1>1
  <2>2. q \in Seq(D) /\ Len(q) = Len(line) - i /\ \A j \in 1..Len(q) : q[j] = line[j + i]
    BY <1>1
  <2>3. z = p \o q
    BY DEF Without
  <2> HIDE DEF p, q, z
  <2>4. z \in Seq(D) /\ Len(z) = Len(line) - 1
    BY <1>1, <2>1, <2>2, <2>3
  <2>5. ASSUME NEW j \in 1..Len(z) PROVE z[j] = IF j < i THEN line[j] ELSE line[j + 1]
    <3>1. CASE j < i
      BY <1>1, <2>1, <2>2, <2>3, <2>4, <3>1
    <3>2. CASE ~(j < i)
      <4>1. j - Len(p) \in 1..Len(q) /\ (j - Len(p)) + i = j + 1 /\ j \in Nat /\ j > Len(p)
        BY <1>1, <2>1, <2>2, <2>4, <3>2
      <4>2. z[j] = q[j - Len(p)]
        BY <1>1, <2>1, <2>2, <2>3, <2>4, <4>1
      <4> QED BY <2>2, <3>2, <4>1, <4>2
    <3> QED BY <3>1, <3>2
  <2> QED BY <2>4, <2>5
<1> HIDE DEF z
<1>3. Distinct(z)
  BY <1>1, <1>2 DEF Distinct
<1>4. \A j \in 1..Len(z) : InLine(line, z[j]) /\ z[j] # line[i]
  BY <1>1, <1>2 DEF Distinct, InLine
<1>5. ASSUME NEW k \in 1..Len(line), k # i PROVE InLine(z, line[k])
  <2>1. CASE k < i
    <3>1. k \in 1..Len(z) /\ z[k] = line[k]  BY <1>1, <1>2, <2>1
    <3> QED BY <3>1 DEF InLine
  <2>2. CASE k > i
    <3>1. k - 1 \in 1..Len(z) /\ ~(k - 1 < i) /\ (k - 1) + 1 = k  BY <1>1, <1>2, <2>2
    <3>2. z[k - 1] = line[k]  BY <1>2, <3>1
    <3> QED BY <3>1, <3>2 DEF InLine
  <2> QED BY <1>1, <1>5, <2>1, <2>2
<1>6. \A y : InLine(z, y) <=> InLine(line, y) /\ y # line[i]
  BY <1>4, <1>5 DEF InLine
<1> QED BY <1>2, <1>3, <1>6 DEF z

(* its first leaves it. *)
LEMMA LineMoves ==
  ASSUME NEW D, NEW line \in Seq(D), line # << >>
  PROVE  1 \in 1..Len(line) /\ Tail(line) = Without(line, 1) /\ Head(line) = line[1]
<1>1. Len(line) \in Nat /\ Len(line) >= 1
  OBVIOUS
<1>2. SubSeq(line, 1, 0) = << >> /\ SubSeq(line, 2, Len(line)) = Tail(line)
  BY <1>1
<1>3. << >> \o Tail(line) = Tail(line)
  OBVIOUS
<1> QED BY <1>1, <1>2, <1>3 DEF Without

-----------------------------------------------------------------------------
(* The connection pool. *)
PoolNumbers ==
  /\ MaxSize \in Nat /\ MinSize \in 0..MaxSize
  /\ ToClose \in Nat \ {0} /\ MaxResults \in Nat
  /\ None \notin Users

HoldingUsers == Where(Users, at, Pool!Holding)

(* Only who has the lock creates a connection, and has found room for it. *)
CreatesLocked ==
  \A u \in Users : at[u] = "creating" => lock = u /\ active < MaxSize

PoolInv ==
  /\ Pool!TypeOK
  /\ CreatesLocked
  /\ IsFiniteSet(HoldingUsers)
  /\ idle + Cardinality(HoldingUsers) <= active

(* The model's count is the one the library's theorems are about. *)
LEMMA PoolHeld == Pool!Held = Cardinality(HoldingUsers)
<1>1. \A S : Pool!Cardinality(S) = Cardinality(S)
  BY DEF Pool!Cardinality, Cardinality
<1> QED BY <1>1 DEF Pool!Held, HoldingUsers, Where

(* A user goes to a place of the pool. *)
LEMMA PoolMove ==
  ASSUME PoolInv, NEW u \in Users,
         NEW place \in Pool!Holding \cup {"out", "locking", "creating", "waiting"},
         Pool!Goes(u, place)
  PROVE  /\ at' \in [Users -> Pool!Holding \cup {"out", "locking", "creating", "waiting"}]
         /\ at'[u] = place /\ \A v \in Users : v # u => at'[v] = at[v]
         /\ IsFiniteSet(HoldingUsers')
         /\ Cardinality(HoldingUsers) \in Nat
         /\ place \in Pool!Holding /\ at[u] \notin Pool!Holding =>
              Cardinality(HoldingUsers') = Cardinality(HoldingUsers) + 1
         /\ (place \in Pool!Holding <=> at[u] \in Pool!Holding) =>
              Cardinality(HoldingUsers') = Cardinality(HoldingUsers)
         /\ place \notin Pool!Holding /\ at[u] \in Pool!Holding =>
              /\ Cardinality(HoldingUsers) >= 1
              /\ Cardinality(HoldingUsers') = Cardinality(HoldingUsers) - 1
<1> DEFINE Places == Pool!Holding \cup {"out", "locking", "creating", "waiting"}
           P == Pool!Holding
           W == Where(Users, at, P)
           V == Where(Users, Moved(at, u, place), P)
<1>1. at \in [Users -> Places] /\ DOMAIN at = Users /\ IsFiniteSet(W)
  BY DEF PoolInv, Pool!TypeOK, HoldingUsers
<1>2. at' = [at EXCEPT ![u] = place]
  BY DEF Pool!Goes
<1>3. /\ at' \in [Users -> Places]
      /\ at'[u] = place /\ \A v \in Users : v # u => at'[v] = at[v]
  BY <1>1, <1>2
<1>4. HoldingUsers' = V /\ HoldingUsers = W
  BY <1>2 DEF HoldingUsers, Moved, Where, Pool!Holding
<1> HIDE DEF Places, P
<1>5. /\ IsFiniteSet(V)
      /\ Cardinality(W) \in Nat
      /\ place \in P /\ u \notin W => Cardinality(V) = Cardinality(W) + 1
      /\ (place \in P <=> u \in W) => Cardinality(V) = Cardinality(W)
      /\ place \notin P /\ u \in W => Cardinality(W) >= 1 /\ Cardinality(V) = Cardinality(W) - 1
  BY <1>1, OneMoves
<1>6. u \in W <=> at[u] \in P
  BY DEF Where
<1> HIDE DEF W, V
<1> QED BY <1>3, <1>4, <1>5, <1>6 DEF Places, P

PoolCircuit ==
  /\ breaker \in [state : {"closed", "open", "half_open"}, successes : 0..ToClose]
  /\ good \in 0..MaxResults /\ bad \in 0..MaxResults /\ elapsed \in BOOLEAN

(* A breaker that is asked stays a breaker. *)
LEMMA PoolAsked ==
  ASSUME PoolNumbers, PoolCircuit
  PROVE  Pool!Asked \in [state : {"closed", "open", "half_open"}, successes : 0..ToClose]
BY DEF PoolNumbers, PoolCircuit, Pool!Asked

(* A user moves and takes as many connections along as the pool counts.    *)
LEMMA PoolStep ==
  ASSUME PoolNumbers, PoolInv, NEW u \in Users,
         NEW place \in Pool!Holding \cup {"out", "locking", "creating", "waiting"},
         Pool!Goes(u, place),
         idle' \in 0..MaxSize, active' \in 0..MaxSize, lock' \in Users \cup {None},
         closing' \in BOOLEAN, PoolCircuit',
         \A v \in Users : at'[v] = "creating" => lock' = v /\ active' < MaxSize,
         place \in Pool!Holding /\ at[u] \notin Pool!Holding => idle' + 1 + active <= idle + active',
         (place \in Pool!Holding <=> at[u] \in Pool!Holding) => idle' + active <= idle + active',
         place \notin Pool!Holding /\ at[u] \in Pool!Holding => idle' + active <= idle + 1 + active'
  PROVE  PoolInv'
<1> DEFINE h == Cardinality(HoldingUsers)
           k == Cardinality(HoldingUsers')
           comes == place \in Pool!Holding
           was == at[u] \in Pool!Holding
<1>1. /\ at' \in [Users -> Pool!Holding \cup {"out", "locking", "creating", "waiting"}]
      /\ IsFiniteSet(HoldingUsers') /\ h \in Nat
      /\ comes /\ ~was => k = h + 1
      /\ (comes <=> was) => k = h
      /\ ~comes /\ was => h >= 1 /\ k = h - 1
  BY PoolMove
<1>2. idle + h <= active /\ idle \in Nat /\ active \in Nat
  BY DEF PoolInv, Pool!TypeOK, PoolNumbers
<1>3. Pool!TypeOK' /\ CreatesLocked'
  BY <1>1 DEF Pool!TypeOK, CreatesLocked, PoolCircuit, Pool!Holding
<1>4. idle' \in Nat /\ active' \in Nat
  BY DEF PoolNumbers
<1>5. \/ k = h + 1 /\ idle' + 1 + active <= idle + active'
      \/ k = h /\ idle' + active <= idle + active'
      \/ h >= 1 /\ k = h - 1 /\ idle' + active <= idle + 1 + active'
  BY <1>1
<1> HIDE DEF h, k, comes, was
<1>6. ASSUME NEW h0 \in Nat, NEW k0, NEW i \in Nat, NEW a \in Nat, NEW i2 \in Nat, NEW a2 \in Nat,
             i + h0 <= a,
             \/ k0 = h0 + 1 /\ i2 + 1 + a <= i + a2
             \/ k0 = h0 /\ i2 + a <= i + a2
             \/ h0 >= 1 /\ k0 = h0 - 1 /\ i2 + a <= i + 1 + a2
      PROVE  i2 + k0 <= a2
  BY <1>6
<1>7. idle' + k <= active'
  BY <1>1, <1>2, <1>4, <1>5, <1>6
<1> QED BY <1>1, <1>3, <1>7 DEF PoolInv, k

(* What the invariant says of a user and of the numbers.                   *)
LEMMA PoolFacts ==
  ASSUME PoolNumbers, PoolInv
  PROVE  /\ idle \in 0..MaxSize /\ active \in 0..MaxSize /\ MaxSize \in Nat
         /\ lock \in Users \cup {None} /\ None \notin Users /\ closing \in BOOLEAN /\ PoolCircuit
         /\ idle <= active
         /\ \A u \in Users : at[u] \in Pool!Holding => idle < active
         /\ \A u \in Users : at[u] = "creating" => lock = u /\ active < MaxSize
<1> DEFINE h == Cardinality(HoldingUsers)
<1>1. /\ idle \in 0..MaxSize /\ active \in 0..MaxSize /\ MaxSize \in Nat
      /\ lock \in Users \cup {None} /\ None \notin Users /\ closing \in BOOLEAN /\ PoolCircuit
      /\ \A u \in Users : at[u] = "creating" => lock = u /\ active < MaxSize
  BY DEF PoolNumbers, PoolInv, Pool!TypeOK, CreatesLocked, PoolCircuit
<1>2. h \in Nat /\ idle + h <= active /\ IsFiniteSet(HoldingUsers)
  BY FS_CardinalityType DEF PoolInv
<1>3. ASSUME NEW u \in Users, at[u] \in Pool!Holding PROVE h # 0
  <2>1. u \in HoldingUsers  BY <1>3 DEF HoldingUsers, Where
  <2> QED BY <1>2, <2>1, FS_EmptySet
<1> HIDE DEF h
<1> QED BY <1>1, <1>2, <1>3

(* Where an action brings u, it is no creator without the lock.            *)
LEMMA PoolCreators ==
  ASSUME PoolNumbers, PoolInv, NEW u \in Users, NEW place, Pool!Goes(u, place),
         \/ place # "creating" /\ lock' = lock /\ active' = active
         \/ place # "creating" /\ lock' = lock /\ active' = active - 1
         \/ place # "creating" /\ at[u] = "creating"
         \/ place = "creating" /\ lock = None /\ lock' = u /\ active < MaxSize /\ active' = active
  PROVE  \A v \in Users : at'[v] = "creating" => lock' = v /\ active' < MaxSize
<1>1. /\ active \in Nat /\ MaxSize \in Nat /\ None \notin Users
      /\ \A v \in Users : at[v] = "creating" => lock = v /\ active < MaxSize
  BY PoolFacts
<1>2. /\ DOMAIN at = Users /\ at' = [at EXCEPT ![u] = place]
  BY DEF PoolInv, Pool!TypeOK, Pool!Goes
<1> QED BY <1>1, <1>2

(* Every action of a user is a move that PoolStep speaks of. *)
LEMMA PoolUserStep ==
  ASSUME PoolNumbers, PoolInv, NEW u \in Users,
         \/ Pool!Acquire(u) \/ Pool!Checked(u) \/ Pool!Rejected(u) \/ Pool!Locks(u)
         \/ Pool!Created(u) \/ Pool!NotCreated(u) \/ Pool!Gets(u) \/ Pool!Exhausted(u)
         \/ Pool!Release(u) \/ Pool!Returned(u)
  PROVE  PoolInv'
<1> DEFINE Places == Pool!Holding \cup {"out", "locking", "creating", "waiting"}
<1>1. /\ idle \in 0..MaxSize /\ active \in 0..MaxSize /\ MaxSize \in Nat
      /\ lock \in Users \cup {None} /\ closing \in BOOLEAN /\ PoolCircuit /\ idle <= active
      /\ at[u] \in Pool!Holding => idle < active
      /\ at[u] = "creating" => active < MaxSize
  BY PoolFacts
<1>2. Pool!Asked \in [state : {"closed", "open", "half_open"}, successes : 0..ToClose]
  BY <1>1, PoolAsked
<1>3. CASE Pool!Acquire(u)
  <2>1. PICK place \in Places :
          /\ Pool!Goes(u, place) /\ place # "creating"
          /\ idle' \in 0..MaxSize /\ breaker' \in {breaker, Pool!Asked}
          /\ place \in Pool!Holding => idle' = idle - 1
          /\ place \notin Pool!Holding => idle' = idle
    BY <1>1, <1>3 DEF Pool!Acquire, Pool!Acquires, Pool!Holding
  <2>2. UNCHANGED <<active, lock, closing, good, bad, elapsed>> /\ at[u] \notin Pool!Holding
    BY <1>3 DEF Pool!Acquire, Pool!Holding
  <2>3. PoolCircuit'
    BY <1>1, <1>2, <2>1, <2>2 DEF PoolCircuit
  <2>4. \A v \in Users : at'[v] = "creating" => lock' = v /\ active' < MaxSize
    BY <2>1, <2>2, PoolCreators
  <2>5. /\ place \in Pool!Holding /\ at[u] \notin Pool!Holding => idle' + 1 + active <= idle + active'
        /\ (place \in Pool!Holding <=> at[u] \in Pool!Holding) => idle' + active <= idle + active'
        /\ place \notin Pool!Holding /\ at[u] \in Pool!Holding => idle' + active <= idle + 1 + active'
    <3>1. idle \in Nat /\ active \in Nat /\ idle' \in Nat /\ active' \in Nat
      BY <1>1, <2>1, <2>2
    <3>2. CASE place \in Pool!Holding
      <4>1. idle' = idle - 1 /\ active' = active
        BY <2>1, <2>2, <3>2
      <4> QED BY <2>2, <3>1, <3>2, <4>1
    <3>3. CASE place \notin Pool!Holding
      BY <1>1, <2>1, <2>2, <3>1, <3>3
    <3> QED BY <3>2, <3>3
  <2>6. active' \in 0..MaxSize /\ lock' \in Users \cup {None} /\ closing' \in BOOLEAN
    BY <1>1, <2>2
  <2> QED BY <2>1, <2>3, <2>4, <2>5, <2>6, PoolStep
<1>4. CASE Pool!Rejected(u)
  <2>1. PICK place \in Places :
          /\ Pool!Goes(u, place) /\ place # "creating"
          /\ idle' \in 0..MaxSize /\ breaker' \in {breaker, Pool!Asked}
          /\ place \in Pool!Holding => idle' = idle - 1
          /\ place \notin Pool!Holding => idle' = idle
    BY <1>1, <1>4 DEF Pool!Rejected, Pool!Acquires, Pool!Holding
  <2>2. UNCHANGED <<lock, closing, good, bad, elapsed>> /\ at[u] \in Pool!Holding
    BY <1>4 DEF Pool!Rejected, Pool!Holding
  <2>3. active' \in 0..MaxSize /\ (active' = active \/ active' = active - 1)
    BY <1>1, <1>4, <2>2 DEF Pool!Rejected, Pool!Closes
  <2>4. PoolCircuit'
    BY <1>1, <1>2, <2>1, <2>2 DEF PoolCircuit
  <2>5. \A v \in Users : at'[v] = "creating" => lock' = v /\ active' < MaxSize
    BY <2>1, <2>2, <2>3, PoolCreators
  <2>6. /\ place \in Pool!Holding /\ at[u] \notin Pool!Holding => idle' + 1 + active <= idle + active'
        /\ (place \in Pool!Holding <=> at[u] \in Pool!Holding) => idle' + active <= idle + active'
        /\ place \notin Pool!Holding /\ at[u] \in Pool!Holding => idle' + active <= idle + 1 + active'
    <3>1. idle \in Nat /\ active \in Nat /\ idle' \in Nat /\ active' \in Nat
      BY <1>1, <2>1, <2>2, <2>3
    <3>2. CASE place \in Pool!Holding
      <4>1. idle' = idle - 1 /\ (active' = active \/ active' = active - 1)
        BY <2>1, <2>3, <3>2
      <4>2. idle' + active <= idle + active'
        <5>1. CASE active' = active  BY <3>1, <4>1, <5>1
        <5>2. CASE active' = active - 1  BY <3>1, <4>1, <5>2
        <5> QED BY <4>1, <5>1, <5>2
      <4> QED BY <2>2, <3>2, <4>2
    <3>3. CASE place \notin Pool!Holding
      <4>1. idle' = idle /\ (active' = active \/ active' = active - 1)
        BY <2>1, <2>3, <3>3
      <4>2. idle' + active <= idle + 1 + active'
        <5>1. CASE active' = active  BY <3>1, <4>1, <5>1
        <5>2. CASE active' = active - 1  BY <3>1, <4>1, <5>2
        <5> QED BY <4>1, <5>1, <5>2
      <4> QED BY <2>2, <3>3, <4>2
    <3> QED BY <3>2, <3>3
  <2>7. lock' \in Users \cup {None} /\ closing' \in BOOLEAN
    BY <1>1, <2>2
  <2> QED BY <2>1, <2>3, <2>4, <2>5, <2>6, <2>7, PoolStep
<1>5. ASSUME Pool!Locks(u) \/ Pool!Created(u) \/ Pool!NotCreated(u) PROVE PoolInv'
  <2>1. PICK place \in Places :
          /\ Pool!Goes(u, place) /\ idle' = idle
          /\ active' \in 0..MaxSize /\ lock' \in Users \cup {None} /\ closing' = closing
          /\ \/ place # "creating" /\ lock' = lock /\ active' = active
             \/ place # "creating" /\ at[u] = "creating"
             \/ place = "creating" /\ lock = None /\ lock' = u /\ active < MaxSize /\ active' = active
          /\ place \in Pool!Holding => active' = active + 1
          /\ place \notin Pool!Holding => active' = active
    BY <1>1, <1>5 DEF Pool!Locks, Pool!Created, Pool!NotCreated, Pool!Holding
  <2>2. at[u] \notin Pool!Holding
    BY <1>5 DEF Pool!Locks, Pool!Created, Pool!NotCreated, Pool!Holding
  <2>3. PoolCircuit'
    <3>1. CASE Pool!Locks(u)
      BY <1>1, <3>1 DEF Pool!Locks, Pool!circuit, PoolCircuit
    <3>2. ASSUME Pool!Created(u) \/ Pool!NotCreated(u)
          PROVE  /\ breaker' \in [state : {"closed", "open", "half_open"}, successes : 0..ToClose]
                 /\ good' \in 0..MaxResults /\ bad' \in 0..MaxResults
      BY <1>1, <3>2 DEF Pool!Created, Pool!NotCreated, PoolCircuit, PoolNumbers
    <3>3. ASSUME Pool!Created(u) \/ Pool!NotCreated(u) PROVE elapsed' \in BOOLEAN
      BY <1>1, <3>3, Zenon DEF Pool!Created, Pool!NotCreated, PoolCircuit
    <3> QED BY <1>5, <3>1, <3>2, <3>3 DEF PoolCircuit
  <2>4. \A v \in Users : at'[v] = "creating" => lock' = v /\ active' < MaxSize
    BY <2>1, PoolCreators
  <2>5. /\ place \in Pool!Holding /\ at[u] \notin Pool!Holding => idle' + 1 + active <= idle + active'
        /\ (place \in Pool!Holding <=> at[u] \in Pool!Holding) => idle' + active <= idle + active'
        /\ place \notin Pool!Holding /\ at[u] \in Pool!Holding => idle' + active <= idle + 1 + active'
    <3>1. idle \in Nat /\ active \in Nat /\ idle' \in Nat /\ active' \in Nat
      BY <1>1, <2>1, <2>2
    <3>2. CASE place \in Pool!Holding
      BY <1>1, <2>1, <2>2, <3>1, <3>2
    <3>3. CASE place \notin Pool!Holding
      BY <1>1, <2>1, <2>2, <3>1, <3>3
    <3> QED BY <3>2, <3>3
  <2>6. idle' \in 0..MaxSize /\ closing' \in BOOLEAN
    BY <1>1, <2>1
  <2> QED BY <2>1, <2>3, <2>4, <2>5, <2>6, PoolStep
<1>6. ASSUME \/ Pool!Checked(u) \/ Pool!Gets(u) \/ Pool!Exhausted(u)
             \/ Pool!Release(u) \/ Pool!Returned(u)
      PROVE  PoolInv'
  <2>1. PICK place \in Places :
          /\ Pool!Goes(u, place) /\ place # "creating" /\ lock' = lock /\ closing' = closing
          /\ idle' \in 0..MaxSize /\ active' \in 0..MaxSize
          /\ active' = active \/ active' = active - 1
          /\ place \in Pool!Holding /\ at[u] \notin Pool!Holding => idle' + 1 + active <= idle + active'
          /\ (place \in Pool!Holding <=> at[u] \in Pool!Holding) => idle' + active <= idle + active'
          /\ place \notin Pool!Holding /\ at[u] \in Pool!Holding =>
               idle' + active <= idle + 1 + active'
    <3>1. CASE Pool!Checked(u)
      BY <1>1, <3>1 DEF Pool!Checked, Pool!Holding
    <3>2. CASE Pool!Gets(u)
      BY <1>1, <3>2 DEF Pool!Gets, Pool!Holding
    <3>3. CASE Pool!Exhausted(u)
      BY <1>1, <3>3 DEF Pool!Exhausted, Pool!Holding
    <3>4. CASE Pool!Release(u)
      BY <1>1, <3>4 DEF Pool!Release, Pool!Holding
    <3>5. CASE Pool!Returned(u)
      BY <1>1, <3>5 DEF Pool!Returned, Pool!Closes, Pool!Holding
    <3> QED BY <1>6, <3>1, <3>2, <3>3, <3>4, <3>5
  <2>2. PoolCircuit'
    BY <1>1, <1>6 DEF Pool!Checked, Pool!Gets, Pool!Exhausted, Pool!Release, Pool!Returned,
                      Pool!circuit, PoolCircuit
  <2>3. \A v \in Users : at'[v] = "creating" => lock' = v /\ active' < MaxSize
    BY <2>1, PoolCreators
  <2> QED BY <1>1, <2>1, <2>2, <2>3, PoolStep
<1> QED BY <1>3, <1>4, <1>5, <1>6

(* Closing the pool and the passing of time. *)
LEMMA PoolOtherStep ==
  ASSUME PoolNumbers, PoolInv, Pool!Close \/ Pool!CloseOne \/ Pool!Elapse \/ UNCHANGED Pool!vars
  PROVE  PoolInv'
<1> DEFINE h == Cardinality(HoldingUsers)
<1>1. /\ idle \in 0..MaxSize /\ active \in 0..MaxSize /\ MaxSize \in Nat
      /\ closing \in BOOLEAN /\ PoolCircuit /\ idle <= active
      /\ h \in Nat /\ idle + h <= active
  BY PoolFacts, FS_CardinalityType DEF PoolInv
<1>2. at' = at /\ lock' = lock /\ closing' \in BOOLEAN
  BY <1>1 DEF Pool!Close, Pool!CloseOne, Pool!Elapse, Pool!vars
<1>3. HoldingUsers' = HoldingUsers
  BY <1>2 DEF HoldingUsers, Where, Pool!Holding
<1>4. PoolCircuit'
  <2>1. CASE Pool!Elapse
    <3>1. breaker' = breaker /\ good' \in 0..MaxResults /\ bad' \in 0..MaxResults
      BY <1>1, <2>1 DEF Pool!Elapse, PoolCircuit, PoolNumbers
    <3>2. elapsed' \in BOOLEAN
      BY <2>1, Zenon DEF Pool!Elapse
    <3> QED BY <1>1, <3>1, <3>2 DEF PoolCircuit
  <2> QED BY <1>1, <2>1 DEF Pool!Close, Pool!CloseOne, Pool!vars, Pool!circuit, PoolCircuit
<1>5. /\ idle' \in 0..MaxSize /\ active' \in 0..active
      /\ \/ idle' = idle /\ active' = active
         \/ idle' = idle - 1 /\ active' \in {active, active - 1}
  BY <1>1 DEF Pool!Close, Pool!CloseOne, Pool!Elapse, Pool!vars, Pool!Closes
<1> HIDE DEF h
<1>6. idle' + h <= active' /\ active' \in 0..MaxSize
  <2>1. active' \in 0..MaxSize /\ idle \in Nat /\ active \in Nat
    BY <1>1, <1>5
  <2>2. CASE idle' = idle /\ active' = active
    BY <1>1, <2>2
  <2>3. CASE idle' = idle - 1 /\ active' \in {active, active - 1}
    BY <1>1, <2>1, <2>3
  <2> QED BY <1>5, <2>1, <2>2, <2>3
<1>7. Pool!TypeOK' /\ CreatesLocked'
  BY <1>1, <1>2, <1>4, <1>5, <1>6 DEF Pool!TypeOK, PoolInv, CreatesLocked, PoolCircuit,
                                      Pool!Holding
<1> QED BY <1>3, <1>6, <1>7 DEF PoolInv, h

(* infrastructure/connection_pool.py: in every reachable state a connection *)
(* that lies in the pool or is held by a user is counted, and no more than  *)
(* max_size are counted, for every number of users and every pool size.     *)
THEOREM PoolCounts ==
  ASSUME PoolNumbers
  PROVE  Pool!Spec => [](Pool!TypeOK /\ Pool!EveryConnectionCounted)
<1>1. Pool!Init => PoolInv
  <2> SUFFICES ASSUME Pool!Init PROVE PoolInv
    OBVIOUS
  <2>1. \A u \in Users : at[u] \notin Pool!Holding
    BY DEF Pool!Init, Pool!Holding
  <2>2. IsFiniteSet(HoldingUsers) /\ Cardinality(HoldingUsers) = 0
    BY <2>1, NoneThere DEF HoldingUsers
  <2>3. closing \in BOOLEAN /\ elapsed \in BOOLEAN
    BY Zenon DEF Pool!Init
  <2>4. /\ at \in [Users -> Pool!Holding \cup {"out", "locking", "creating", "waiting"}]
        /\ CreatesLocked
    BY DEF Pool!Init, CreatesLocked
  <2>5. Pool!TypeOK /\ CreatesLocked
    BY <2>3, <2>4 DEF Pool!Init, Pool!TypeOK, PoolNumbers
  <2>6. idle = MinSize /\ active = MinSize /\ MinSize \in Nat
    BY DEF Pool!Init, PoolNumbers
  <2> QED BY <2>2, <2>5, <2>6 DEF PoolInv
<1>2. PoolInv /\ [Pool!Next]_Pool!vars => PoolInv'
  BY PoolUserStep, PoolOtherStep DEF Pool!Next
<1>3. PoolInv => Pool!TypeOK /\ Pool!EveryConnectionCounted
  BY PoolHeld DEF PoolInv, Pool!EveryConnectionCounted, Pool!TypeOK
<1> QED BY <1>1, <1>2, <1>3, PTL DEF Pool!Spec
-----------------------------------------------------------------------------
(* The bulkhead. *)
BulkNumbers == MaxConcurrent \in Nat /\ MaxAttempts \in Nat \ {0}

Slotted == {"running", "pausing"}
SlotHolders == Where(Tasks, at, Slotted)
BulkPlaces == {"new", "waiting", "running", "pausing", "done"}

BulkInv ==
  /\ at \in [Tasks -> BulkPlaces]
  /\ waiting \in Seq(Tasks) /\ Distinct(waiting)
  /\ \A t \in Tasks : at[t] = "waiting" <=> InLine(waiting, t)
  /\ IsFiniteSet(SlotHolders)
  /\ active = Cardinality(SlotHolders) /\ active <= MaxConcurrent

(* The model's count is the one the library's theorems are about. *)
LEMMA BulkHeld == Cardinality(SlotHolders) = Bulk!Cardinality(Bulk!Holders)
<1>1. \A S : Bulk!Cardinality(S) = Cardinality(S)
  BY DEF Bulk!Cardinality, Cardinality
<1>2. Bulk!Holders = SlotHolders
  BY DEF Bulk!Holders, SlotHolders, Where, Slotted
<1> QED BY <1>1, <1>2

(* OneMoves for the tasks. *)
LEMMA SlotCount ==
  ASSUME at \in [Tasks -> BulkPlaces], NEW P, IsFiniteSet(Where(Tasks, at, P)),
         NEW t \in Tasks, NEW place
  PROVE  /\ IsFiniteSet(Where(Tasks, Moved(at, t, place), P)) /\ Cardinality(Where(Tasks, at, P)) \in Nat
         /\ place \in P /\ t \notin Where(Tasks, at, P) =>
              Cardinality(Where(Tasks, Moved(at, t, place), P)) = Cardinality(Where(Tasks, at, P)) + 1
         /\ (place \in P <=> t \in Where(Tasks, at, P)) =>
              Cardinality(Where(Tasks, Moved(at, t, place), P)) = Cardinality(Where(Tasks, at, P))
         /\ place \notin P /\ t \in Where(Tasks, at, P) =>
              Cardinality(Where(Tasks, Moved(at, t, place), P)) = Cardinality(Where(Tasks, at, P)) - 1
<1>1. DOMAIN at = Tasks
  OBVIOUS
<1> QED BY <1>1, OneMoves

(* A task that comes or goes changes the number of holders. *)
LEMMA SlotMoves ==
  ASSUME BulkInv, NEW t \in Tasks, NEW place \in BulkPlaces, at' = [at EXCEPT ![t] = place]
  PROVE  /\ IsFiniteSet(SlotHolders') /\ active \in Nat
         /\ place \in Slotted /\ at[t] \notin Slotted => Cardinality(SlotHolders') = active + 1
         /\ (place \in Slotted <=> at[t] \in Slotted) => Cardinality(SlotHolders') = active
         /\ place \notin Slotted /\ at[t] \in Slotted => Cardinality(SlotHolders') = active - 1
<1>1. at \in [Tasks -> BulkPlaces] /\ IsFiniteSet(SlotHolders) /\ active = Cardinality(SlotHolders)
  BY DEF BulkInv
<1>2. SlotHolders' = Where(Tasks, Moved(at, t, place), Slotted) /\ SlotHolders = Where(Tasks, at, Slotted)
  BY DEF SlotHolders, Where, Moved, Slotted
<1>3. t \in SlotHolders <=> at[t] \in Slotted
  BY DEF SlotHolders, Where
<1> QED BY <1>1, <1>2, <1>3, SlotCount

(* A task goes to a place, and the line and the count follow it. *)
LEMMA BulkStep ==
  ASSUME BulkNumbers, BulkInv, NEW t \in Tasks, NEW place \in BulkPlaces,
         at' = [at EXCEPT ![t] = place],
         waiting' \in Seq(Tasks), Distinct(waiting'),
         \A u \in Tasks : InLine(waiting', u) <=>
           (u # t /\ InLine(waiting, u)) \/ (u = t /\ place = "waiting"),
         \/ place \in Slotted /\ at[t] \notin Slotted /\ active < MaxConcurrent /\ active' = active + 1
         \/ (place \in Slotted <=> at[t] \in Slotted) /\ active' = active
         \/ place \notin Slotted /\ at[t] \in Slotted /\ active' = active - 1
  PROVE  BulkInv'
<1>1. /\ at \in [Tasks -> BulkPlaces] /\ active \in Nat /\ active <= MaxConcurrent
      /\ MaxConcurrent \in Nat
  BY SlotMoves DEF BulkInv, BulkNumbers
<1>2. at' \in [Tasks -> BulkPlaces] /\ \A u \in Tasks : at'[u] = "waiting" <=> InLine(waiting', u)
  BY <1>1 DEF BulkInv
<1>3. IsFiniteSet(SlotHolders') /\ active' = Cardinality(SlotHolders')
  BY SlotMoves
<1>4. active' <= MaxConcurrent
  BY <1>1
<1> QED BY <1>2, <1>3, <1>4 DEF BulkInv

(* Every action is a move that BulkStep speaks of. *)
LEMMA BulkNextStep ==
  ASSUME BulkNumbers, BulkInv, [Bulk!Next]_Bulk!vars
  PROVE  BulkInv'
<1>1. /\ at \in [Tasks -> BulkPlaces] /\ waiting \in Seq(Tasks) /\ Distinct(waiting)
      /\ \A t \in Tasks : at[t] = "waiting" <=> InLine(waiting, t)
  BY DEF BulkInv
<1>2. ASSUME NEW t \in Tasks, Bulk!Enter(t) PROVE BulkInv'
  <2>1. CASE active < MaxConcurrent /\ waiting = <<>>
    <3>1. at' = [at EXCEPT ![t] = "running"] /\ active' = active + 1 /\ waiting' = waiting /\ at[t] = "new"
      BY <1>2, <2>1 DEF Bulk!Enter
    <3> QED BY <1>1, <2>1, <3>1, BulkStep DEF BulkPlaces, Slotted
  <2>2. CASE ~(active < MaxConcurrent /\ waiting = <<>>)
    <3>1. /\ at' = [at EXCEPT ![t] = "waiting"] /\ at[t] = "new"
          /\ active' = active /\ waiting' = Append(waiting, t)
      BY <1>2, <2>2 DEF Bulk!Enter
    <3>2. ~InLine(waiting, t)
      BY <1>1, <3>1
    <3>3. /\ waiting' \in Seq(Tasks) /\ Distinct(waiting')
          /\ \A y : InLine(waiting', y) <=> InLine(waiting, y) \/ y = t
      BY <1>1, <3>1, <3>2, LineGrows
    <3> QED BY <1>1, <3>1, <3>2, <3>3, BulkStep DEF BulkPlaces, Slotted
  <2> QED BY <2>1, <2>2
<1>3. ASSUME NEW t \in Tasks, Bulk!Granted(t) PROVE BulkInv'
  <2>1. /\ waiting # <<>> /\ t = Head(waiting) /\ active < MaxConcurrent /\ waiting' = Tail(waiting)
        /\ at' = [at EXCEPT ![t] = "running"] /\ active' = active + 1
    BY <1>3 DEF Bulk!Granted
  <2>2. 1 \in 1..Len(waiting) /\ waiting' = Without(waiting, 1) /\ t = waiting[1]
    BY <1>1, <2>1, LineMoves
  <2>3. /\ waiting' \in Seq(Tasks) /\ Distinct(waiting')
        /\ \A y : InLine(waiting', y) <=> InLine(waiting, y) /\ y # t
    BY <1>1, <2>2, LineShrinks
  <2>4. at[t] = "waiting"
    BY <1>1, <2>2 DEF InLine
  <2> QED BY <1>1, <2>1, <2>3, <2>4, BulkStep DEF BulkPlaces, Slotted
<1>4. ASSUME NEW t \in Tasks, Bulk!Leave(t), at[t] \in Slotted PROVE BulkInv'
  <2>1. at' = [at EXCEPT ![t] = "done"] /\ active' = active - 1 /\ waiting' = waiting
    BY <1>4 DEF Bulk!Leave
  <2>2. ~InLine(waiting, t)
    BY <1>1, <1>4 DEF Slotted
  <2> QED BY <1>1, <1>4, <2>1, <2>2, BulkStep DEF BulkPlaces, Slotted
<1>5. ASSUME NEW t \in Tasks, NEW place \in Slotted, at[t] \in Slotted,
             at' = [at EXCEPT ![t] = place], active' = active, waiting' = waiting
      PROVE  BulkInv'
  <2>1. ~InLine(waiting, t)
    BY <1>1, <1>5 DEF Slotted
  <2> QED BY <1>1, <1>5, <2>1, BulkStep DEF BulkPlaces, Slotted
<1>6. ASSUME NEW t \in Tasks, Bulk!Returns(t) \/ Bulk!Raises(t) \/ Bulk!Again(t) PROVE BulkInv'
  <2>1. CASE Bulk!Returns(t)
    BY <1>4, <2>1 DEF Bulk!Returns, Slotted
  <2>2. CASE Bulk!Raises(t)
    BY <1>4, <1>5, <2>2 DEF Bulk!Raises, Slotted
  <2>3. CASE Bulk!Again(t)
    BY <1>5, <2>3 DEF Bulk!Again, Slotted
  <2> QED BY <1>6, <2>1, <2>2, <2>3
<1>7. ASSUME NEW t \in Tasks, Bulk!Cancel(t) PROVE BulkInv'
  <2>1. CASE at[t] \in Slotted /\ Bulk!Leave(t)
    BY <1>4, <2>1
  <2>2. CASE at[t] \notin Slotted
    <3>1. PICK i \in 1..Len(waiting) :
            /\ at[t] = "waiting" /\ waiting[i] = t
            /\ waiting' = Without(waiting, i)
            /\ at' = [at EXCEPT ![t] = "done"] /\ active' = active
      <4>1. DOMAIN waiting = 1..Len(waiting)
        BY <1>1
      <4>2. \A i : Bulk!RemoveAt(waiting, i) = Without(waiting, i)
        BY DEF Bulk!RemoveAt, Without
      <4> QED BY <1>7, <2>2, <4>1, <4>2 DEF Bulk!Cancel, Slotted
    <3>2. /\ waiting' \in Seq(Tasks) /\ Distinct(waiting')
          /\ \A y : InLine(waiting', y) <=> InLine(waiting, y) /\ y # t
      BY <1>1, <3>1, LineShrinks
    <3> QED BY <1>1, <3>1, <3>2, BulkStep DEF BulkPlaces, Slotted
  <2> QED BY <1>7, <2>1, <2>2 DEF Bulk!Cancel, Slotted
<1>8. CASE UNCHANGED Bulk!vars
  BY <1>8 DEF Bulk!vars, BulkInv, SlotHolders, Where, Slotted, Distinct, InLine, BulkPlaces
<1> QED BY <1>2, <1>3, <1>6, <1>7, <1>8 DEF Bulk!Next

(* reliability/retry_strategy.py: however many callers there are, as many   *)
(* run or pause as the semaphore counts and never more than it has slots,   *)
(* and its line holds everyone who waits, once, and nobody else.            *)
THEOREM BulkheadHolds ==
  ASSUME BulkNumbers
  PROVE  Bulk!Spec => [](Bulk!WithinSlots /\ Bulk!CountIsHolders /\ Bulk!LineIsWaiting)
<1>1. Bulk!Init => BulkInv
  <2> SUFFICES ASSUME Bulk!Init PROVE BulkInv
    OBVIOUS
  <2>1. at \in [Tasks -> BulkPlaces] /\ waiting = << >> /\ active = 0 /\ \A t \in Tasks : at[t] = "new"
    BY DEF Bulk!Init, BulkPlaces
  <2>2. IsFiniteSet(SlotHolders) /\ Cardinality(SlotHolders) = 0
    BY <2>1, NoneThere DEF SlotHolders, Slotted
  <2>3. waiting \in Seq(Tasks) /\ Len(waiting) = 0
    BY <2>1
  <2> QED BY <2>1, <2>2, <2>3 DEF BulkInv, Distinct, InLine, BulkNumbers
<1>2. BulkInv /\ [Bulk!Next]_Bulk!vars => BulkInv'
  BY BulkNextStep
<1>3. BulkInv => Bulk!WithinSlots /\ Bulk!CountIsHolders /\ Bulk!LineIsWaiting
  <2> SUFFICES ASSUME BulkInv PROVE Bulk!WithinSlots /\ Bulk!CountIsHolders /\ Bulk!LineIsWaiting
    OBVIOUS
  <2>1. Bulk!WithinSlots /\ Bulk!CountIsHolders
    BY BulkHeld DEF BulkInv, Bulk!WithinSlots, Bulk!CountIsHolders
  <2>2. DOMAIN waiting = 1..Len(waiting)
    BY DEF BulkInv
  <2>3. Bulk!IsInjective(waiting)
    BY <2>2 DEF BulkInv, Distinct, Bulk!IsInjective
  <2>4. \A t \in Tasks : InLine(waiting, t) <=> t \in Bulk!ToSet(waiting)
    BY <2>2 DEF InLine, Bulk!ToSet
  <2> QED BY <2>1, <2>3, <2>4 DEF BulkInv, Bulk!LineIsWaiting
<1> QED BY <1>1, <1>2, <1>3, PTL DEF Bulk!Spec
-----------------------------------------------------------------------------
(* Backpressure. *)
FlowNumbers ==
  /\ IsFiniteSet(Senders)
  /\ MaxInFlight \in Nat \ {0} /\ InitialWindow \in 1..MaxInFlight
  /\ MaxBuffer \in Nat /\ MaxSent \in Nat /\ MaxDrains \in Nat

FlowPlaces == {"idle", "throttled", "sending", "orphan"}
AtWork == {"throttled", "sending"}
Working == Where(Senders, at, AtWork)

(* Whoever is at work was let in when there was room for one message more.  *)
FlowCounts ==
  /\ at \in [Senders -> FlowPlaces]
  /\ sent \in 0..MaxSent /\ acked \in 0..MaxSent /\ best \in 0..MaxSent /\ acked <= best
  /\ sent + Cardinality(Working) < best + MaxInFlight + Cardinality(Senders)

(* OneMoves for the senders. *)
LEMMA WorkCount ==
  ASSUME at \in [Senders -> FlowPlaces], NEW P, IsFiniteSet(Where(Senders, at, P)),
         NEW s \in Senders, NEW place
  PROVE  /\ IsFiniteSet(Where(Senders, Moved(at, s, place), P)) /\ Cardinality(Where(Senders, at, P)) \in Nat
         /\ (place \in P <=> s \in Where(Senders, at, P)) =>
              Cardinality(Where(Senders, Moved(at, s, place), P)) = Cardinality(Where(Senders, at, P))
         /\ place \notin P /\ s \in Where(Senders, at, P) =>
              Cardinality(Where(Senders, Moved(at, s, place), P)) = Cardinality(Where(Senders, at, P)) - 1
<1>1. DOMAIN at = Senders
  OBVIOUS
<1> QED BY <1>1, OneMoves

(* No more are at work than there are senders ... *)
LEMMA WorkBounded ==
  ASSUME FlowNumbers
  PROVE  /\ IsFiniteSet(Working) /\ Cardinality(Working) \in Nat
         /\ Cardinality(Senders) \in Nat /\ Cardinality(Working) <= Cardinality(Senders)
<1>1. Working \subseteq Senders
  BY DEF Working, Where
<1> QED BY <1>1, FS_Subset, FS_CardinalityType DEF FlowNumbers

(* ... after a step, too. *)
LEMMA WorkBoundedNext ==
  ASSUME FlowNumbers
  PROVE  Cardinality(Working') \in Nat /\ Cardinality(Working') <= Cardinality(Senders)
<1>1. Working' \subseteq Senders
  BY DEF Working, Where
<1> QED BY <1>1, FS_Subset, FS_CardinalityType DEF FlowNumbers

(* A sender that stops changes the number of those at work. *)
LEMMA WorkMoves ==
  ASSUME FlowNumbers, FlowCounts, NEW s \in Senders, NEW place \in FlowPlaces, at' = [at EXCEPT ![s] = place]
  PROVE  /\ at' \in [Senders -> FlowPlaces]
         /\ (place \in AtWork <=> at[s] \in AtWork) => Cardinality(Working') = Cardinality(Working)
         /\ place \notin AtWork /\ at[s] \in AtWork => Cardinality(Working') = Cardinality(Working) - 1
<1>1. at \in [Senders -> FlowPlaces] /\ IsFiniteSet(Working)
  BY WorkBounded DEF FlowCounts
<1>2. Working' = Where(Senders, Moved(at, s, place), AtWork) /\ Working = Where(Senders, at, AtWork)
  BY DEF Working, Where, Moved, AtWork
<1>3. s \in Working <=> at[s] \in AtWork
  BY DEF Working, Where
<1>4. at' \in [Senders -> FlowPlaces]
  BY <1>1
<1> QED BY <1>1, <1>2, <1>3, <1>4, WorkCount

(* Every action keeps the messages within what acknowledgements allow. *)
LEMMA FlowCountsStep ==
  ASSUME FlowNumbers, FlowCounts, [Flow!Next]_Flow!vars
  PROVE  FlowCounts'
<1> DEFINE w == Cardinality(Working)
           v == Cardinality(Working')
           n == Cardinality(Senders)
<1>1. /\ at \in [Senders -> FlowPlaces]
      /\ sent \in 0..MaxSent /\ acked \in 0..MaxSent /\ best \in 0..MaxSent /\ acked <= best
      /\ sent + w < best + MaxInFlight + n
      /\ MaxSent \in Nat /\ MaxInFlight \in Nat /\ MaxInFlight >= 1
  BY DEF FlowCounts, FlowNumbers
<1>2. w \in Nat /\ v \in Nat /\ n \in Nat /\ v <= n
  BY WorkBounded, WorkBoundedNext
<1>3. ASSUME NEW s \in Senders, Flow!send_message(s) PROVE FlowCounts'
  <2>1. PICK place \in FlowPlaces : at' = [at EXCEPT ![s] = place]
    BY <1>3 DEF Flow!send_message, FlowPlaces
  <2>2. sent < acked + MaxInFlight /\ UNCHANGED <<sent, acked, best>>
    BY <1>3 DEF Flow!send_message, Flow!can_send
  <2>3. at' \in [Senders -> FlowPlaces]
    BY <2>1, WorkMoves
  <2> HIDE DEF v, n
  <2>4. sent + v < best + MaxInFlight + n
    BY <1>1, <1>2, <2>2
  <2> QED BY <1>1, <2>2, <2>3, <2>4 DEF FlowCounts, v, n
<1>4. ASSUME NEW s \in Senders, Flow!Awake(s) \/ Flow!Sent(s) \/ Flow!Raises(s) PROVE FlowCounts'
  <2>1. PICK place \in FlowPlaces :
          /\ at' = [at EXCEPT ![s] = place]
          /\ place \in AtWork => at[s] \in AtWork
          /\ sent' \in 0..MaxSent
          /\ \/ sent' = sent
             \/ sent' = sent + 1 /\ place \notin AtWork /\ at[s] \in AtWork
    BY <1>1, <1>4 DEF Flow!Awake, Flow!Sent, Flow!Raises, FlowPlaces, AtWork
  <2>2. UNCHANGED <<acked, best>>
    BY <1>4 DEF Flow!Awake, Flow!Sent, Flow!Raises
  <2>3. /\ at' \in [Senders -> FlowPlaces]
        /\ \/ sent' = sent /\ v = w
           \/ sent' = sent /\ v = w - 1
           \/ sent' = sent + 1 /\ v = w - 1
    BY <2>1, WorkMoves
  <2> HIDE DEF v, w, n
  <2>4. sent' + v < best + MaxInFlight + n
    BY <1>1, <1>2, <2>3
  <2> QED BY <1>1, <2>1, <2>2, <2>3, <2>4 DEF FlowCounts, v, n
<1>5. ASSUME NEW id \in 0..MaxSent, Flow!handle_ack(id) PROVE FlowCounts'
  <2>1. /\ acked' = id /\ best' = (IF best <= id THEN id ELSE best) /\ sent' = sent /\ at' = at
    BY <1>5 DEF Flow!handle_ack, Flow!Most
  <2>2. best' \in 0..MaxSent /\ best <= best' /\ acked' <= best' /\ acked' \in 0..MaxSent
    BY <1>1, <2>1
  <2>3. Working' = Working
    BY <2>1 DEF Working, Where
  <2> HIDE DEF w, n
  <2>4. /\ best' \in Nat /\ best \in Nat /\ sent \in Nat /\ MaxInFlight \in Nat
        /\ w \in Nat /\ n \in Nat
    BY <1>1, <1>2, <2>2
  <2>5. \A s, v0, m, k, b, c \in Nat : b <= c /\ s + v0 < b + m + k => s + v0 < c + m + k
    OBVIOUS
  <2>6. sent + w < best' + MaxInFlight + n
    BY <1>1, <2>2, <2>4, <2>5
  <2> QED BY <1>1, <2>1, <2>2, <2>3, <2>6 DEF FlowCounts, w, n
<1>6. CASE Flow!reset_session
  <2>1. /\ sent' = 0 /\ acked' = 0 /\ best' = 0
        /\ at' = [s \in Senders |-> IF at[s] = "sending" THEN "orphan"
                                    ELSE IF at[s] = "throttled" THEN "idle" ELSE at[s]]
    BY <1>6 DEF Flow!reset_session
  <2>2. at' \in [Senders -> FlowPlaces] /\ \A s \in Senders : at'[s] \notin AtWork
    BY <1>1, <2>1 DEF FlowPlaces, AtWork
  <2>3. Working' = {}
    BY <2>2 DEF Working, Where, AtWork
  <2>4. v = 0
    BY <2>3, FS_EmptySet
  <2> HIDE DEF v, n
  <2>5. 0 + v < 0 + MaxInFlight + n
    BY <1>1, <1>2, <2>4
  <2> QED BY <1>1, <2>1, <2>2, <2>5 DEF FlowCounts, v, n
<1>7. ASSUME UNCHANGED <<sent, acked, best, at>> PROVE FlowCounts'
  <2>1. Working' = Working
    BY <1>7 DEF Working, Where
  <2> QED BY <1>7, <2>1 DEF FlowCounts
<1>8. ASSUME \/ \E s \in Senders : Flow!_buffer_message(s)
             \/ Flow!Drained \/ Flow!handle_nack \/ UNCHANGED Flow!vars
      PROVE  FlowCounts'
  BY <1>7, <1>8 DEF Flow!_buffer_message, Flow!Drained, Flow!handle_nack, Flow!vars
<1> QED BY <1>3, <1>4, <1>5, <1>6, <1>8 DEF Flow!Next

(* The window, the buffer and the loops that empty it. *)
FlowRest ==
  /\ strategy \in {"adaptive", "fixed", "buffer", "throttle"}
  /\ window \in 1..MaxInFlight /\ buffered \in 0..MaxBuffer /\ drains \in 0..MaxDrains

(* The window stays open and the buffer bounded. *)
LEMMA FlowRestStep ==
  ASSUME FlowNumbers, FlowRest, [Flow!Next]_Flow!vars
  PROVE  FlowRest'
<1> USE DEF FlowRest
<1>1. /\ MaxInFlight \in Nat /\ MaxInFlight >= 1 /\ InitialWindow \in 1..MaxInFlight
      /\ MaxBuffer \in Nat /\ MaxDrains \in Nat
  BY DEF FlowNumbers
<1>2. ASSUME NEW s \in Senders,
             \/ Flow!send_message(s) \/ Flow!Awake(s) \/ Flow!Sent(s) \/ Flow!Raises(s)
      PROVE  FlowRest'
  BY <1>2 DEF Flow!send_message, Flow!Awake, Flow!Sent, Flow!Raises
<1>3. ASSUME NEW s \in Senders, Flow!_buffer_message(s) PROVE FlowRest'
  BY <1>1, <1>3 DEF Flow!_buffer_message, Flow!Least
<1>4. ASSUME NEW id \in 0..MaxSent, Flow!handle_ack(id) PROVE FlowRest'
  <2>1. window' \in 1..MaxInFlight /\ strategy' = strategy
    BY <1>1, <1>4 DEF Flow!handle_ack, Flow!Least, Flow!Most
  <2>2. drains < MaxDrains /\ \/ UNCHANGED <<buffered, drains>>
                              \/ drains' = drains + 1 /\ UNCHANGED buffered
                              \/ buffered' = 0 /\ UNCHANGED drains
    BY <1>4 DEF Flow!handle_ack, Flow!Drain
  <2> QED BY <1>1, <2>1, <2>2
<1>5. CASE Flow!Drained
  <2>1. buffered' \in 0..MaxBuffer /\ UNCHANGED <<strategy, window>>
    BY <1>1, <1>5 DEF Flow!Drained
  <2>2. drains' \in 0..MaxDrains
    BY <1>1, <1>5 DEF Flow!Drained
  <2> QED BY <2>1, <2>2
<1>6. CASE Flow!handle_nack
  <2>1. window \div 2 \in Nat /\ window \div 2 <= window
    OBVIOUS
  <2> QED BY <1>1, <1>6, <2>1 DEF Flow!handle_nack, Flow!Most
<1>7. CASE Flow!reset_session
  BY <1>1, <1>7 DEF Flow!reset_session
<1>8. CASE UNCHANGED Flow!vars
  BY <1>8 DEF Flow!vars
<1> QED BY <1>2, <1>3, <1>4, <1>5, <1>6, <1>7, <1>8 DEF Flow!Next

(* The client is slow or it is not. *)
LEMMA FlowSlowStep ==
  ASSUME slow \in BOOLEAN, [Flow!Next]_Flow!vars
  PROVE  slow' \in BOOLEAN
BY DEF Flow!Next, Flow!vars, Flow!send_message, Flow!_buffer_message, Flow!Awake, Flow!Sent,
       Flow!Raises, Flow!handle_ack, Flow!Drained, Flow!handle_nack, Flow!reset_session

FlowInv == FlowCounts /\ FlowRest /\ slow \in BOOLEAN

(* streaming/backpressure.py: whatever is acknowledged late, twice or out   *)
(* of order, what is in flight stays within the limit and one message for   *)
(* every sender, the window never closes and the buffer never overflows.    *)
THEOREM FlowIsBounded ==
  ASSUME FlowNumbers
  PROVE  Flow!Spec => [](Flow!TypeOK /\ Flow!InFlightBounded)
<1>1. Flow!Init => FlowInv
  <2> SUFFICES ASSUME Flow!Init PROVE FlowInv
    OBVIOUS
  <2>1. /\ at \in [Senders -> FlowPlaces] /\ \A s \in Senders : at[s] \notin AtWork
    BY DEF Flow!Init, FlowPlaces, AtWork
  <2>2. Cardinality(Working) = 0
    BY <2>1, NoneThere DEF Working
  <2>3. Cardinality(Senders) \in Nat
    BY WorkBounded
  <2>4. FlowCounts
    BY <2>1, <2>2, <2>3 DEF Flow!Init, FlowCounts, FlowNumbers
  <2>5. FlowRest
    BY DEF Flow!Init, FlowRest, FlowNumbers
  <2>6. slow \in BOOLEAN
    BY Zenon DEF Flow!Init
  <2> QED BY <2>4, <2>5, <2>6 DEF FlowInv
<1>2. FlowInv /\ [Flow!Next]_Flow!vars => FlowInv'
  BY FlowCountsStep, FlowRestStep, FlowSlowStep DEF FlowInv
<1>3. FlowInv => Flow!TypeOK /\ Flow!InFlightBounded
  <2> SUFFICES ASSUME FlowInv PROVE Flow!TypeOK /\ Flow!InFlightBounded
    OBVIOUS
  <2>1. \A S : Flow!Cardinality(S) = Cardinality(S)
    BY DEF Flow!Cardinality, Cardinality
  <2>2. Cardinality(Working) \in Nat /\ Cardinality(Senders) \in Nat
    BY WorkBounded
  <2>3. sent < best + MaxInFlight + Cardinality(Senders)
    BY <2>2 DEF FlowInv, FlowCounts, FlowNumbers
  <2> QED BY <2>1, <2>3 DEF FlowInv, FlowCounts, FlowRest, FlowPlaces, Flow!TypeOK,
                            Flow!InFlightBounded
<1> QED BY <1>1, <1>2, <1>3, PTL DEF Flow!Spec
-----------------------------------------------------------------------------
(* The room's queue. *)
Copies == Room!Copies
RoomSteps == {"new", "emit", "remove", "done"}

(* A reader has given what it took from the front of its list, and only     *)
(* removes what it has given or what has been missed.                       *)
Reader(step, left, got, lost) ==
  /\ step \in RoomSteps /\ left \in Seq(Copies) /\ got \in Seq(Copies)
  /\ Distinct(left) /\ Distinct(got)
  /\ step = "new" => got = << >>
  /\ step \in {"emit", "remove"} => left # << >>
  /\ step = "emit" => \A c : ~(InLine(left, c) /\ InLine(got, c))
  /\ step = "remove" => /\ InLine(got, Head(left)) \/ Head(left).of \in lost
                        /\ \A c : ~(InLine(Tail(left), c) /\ InLine(got, c))

ReadersSound ==
  /\ reading \in [Sessions -> [step : RoomSteps, left : Seq(Copies)]]
  /\ given \in [Sessions -> Seq(Copies)]
  /\ \A s \in Sessions : Reader(reading[s].step, reading[s].left, given[s], missed)

Pushed(m) == sending[m] \in {"expire", "queued"}
InQueue(m) == \E c \in Copies : InLine(queue, c) /\ c.of = m
QueueSound ==
  /\ queue \in Seq(Copies) /\ Distinct(queue)
  /\ DOMAIN sending = Messages
  /\ \A c \in Copies : InLine(queue, c) => Pushed(c.of)

HandedOver(m) ==
  \/ m \in expired \cup missed
  \/ \E s \in Sessions : \E c \in Copies : InLine(given[s], c) /\ c.of = m
NoneLost == \A m \in Messages : Pushed(m) => InQueue(m) \/ HandedOver(m)

SweepSound == sweep \in Seq(Copies)

RoomInv == ReadersSound /\ QueueSound /\ NoneLost /\ SweepSound

(* A copy is of a message. *)
LEMMA CopiesOf == \A c \in Copies : c.of \in Messages
BY DEF Copies, Room!Copies

(* What is held in a line. *)
LEMMA HeldInLine ==
  ASSUME NEW line \in Seq(Copies)
  PROVE  \A m : m \in Room!Held(line) <=> \E c \in Copies : InLine(line, c) /\ c.of = m
<1>1. \A c : c \in Room!ToSet(line) <=> InLine(line, c)
  BY DEF Room!ToSet, InLine
<1>2. \A c : InLine(line, c) => c \in Copies
  BY DEF InLine
<1> QED BY <1>1, <1>2 DEF Room!Held

(* One LREM takes a copy of the message out, if there is one. *)
LEMMA Removal ==
  ASSUME NEW q \in Seq(Copies), Distinct(q), NEW m, NEW z \in Room!Removed(q, m)
  PROVE  /\ z \in Seq(Copies) /\ Distinct(z)
         /\ \A y : InLine(z, y) => InLine(q, y)
         /\ \A y : InLine(q, y) /\ y.of # m => InLine(z, y)
<1>1. CASE z = q
  BY <1>1
<1>2. CASE z # q
  <2>1. PICK i \in 1..Len(q) : q[i].of = m /\ z = Without(q, i)
    <3>1. DOMAIN q = 1..Len(q)
      OBVIOUS
    <3>2. \A i : Room!RemoveAt(q, i) = Without(q, i)
      BY DEF Room!RemoveAt, Without
    <3> QED BY <1>2, <3>1, <3>2 DEF Room!Removed
  <2> QED BY <2>1, LineShrinks
<1> QED BY <1>1, <1>2

(* What LREM does to the queue, sent once or twice. *)
LEMMA Lrem ==
  ASSUME queue \in Seq(Copies), Distinct(queue), NEW m, Room!lrem(m)
  PROVE  /\ queue' \in Seq(Copies) /\ Distinct(queue')
         /\ \A y : InLine(queue', y) => InLine(queue, y)
         /\ \A y : InLine(queue, y) /\ y.of # m => InLine(queue', y)
<1>1. PICK q \in Room!Removed(queue, m) : queue' \in {q} \cup Room!Removed(q, m)
  BY DEF Room!lrem
<1>2. /\ q \in Seq(Copies) /\ Distinct(q)
      /\ \A y : InLine(q, y) => InLine(queue, y)
      /\ \A y : InLine(queue, y) /\ y.of # m => InLine(q, y)
  BY <1>1, Removal
<1>3. CASE queue' = q
  BY <1>2, <1>3
<1>4. CASE queue' \in Room!Removed(q, m)
  <2>1. /\ queue' \in Seq(Copies) /\ Distinct(queue')
        /\ \A y : InLine(queue', y) => InLine(q, y)
        /\ \A y : InLine(q, y) /\ y.of # m => InLine(queue', y)
    BY <1>2, <1>4, Removal
  <2> QED BY <1>2, <2>1
<1> QED BY <1>1, <1>3, <1>4

(* Going on to the next of the list. *)
LEMMA Shorter ==
  ASSUME NEW left \in Seq(Copies), Distinct(left), left # << >>
  PROVE  /\ Tail(left) \in Seq(Copies) /\ Distinct(Tail(left)) /\ Head(left) \in Copies
         /\ InLine(left, Head(left))
         /\ \A y : InLine(Tail(left), y) <=> InLine(left, y) /\ y # Head(left)
<1>1. 1 \in 1..Len(left) /\ Tail(left) = Without(left, 1) /\ Head(left) = left[1]
  BY LineMoves
<1>2. Head(left) \in Copies
  OBVIOUS
<1>3. InLine(left, Head(left))
  BY <1>1 DEF InLine
<1>4. /\ Without(left, 1) \in Seq(Copies) /\ Distinct(Without(left, 1))
      /\ \A y : InLine(Without(left, 1), y) <=> InLine(left, y) /\ y # left[1]
  BY <1>1, LineShrinks
<1> HIDE DEF Without
<1> QED BY <1>1, <1>2, <1>3, <1>4

(* The empty line. *)
LEMMA NothingInLine ==
  (\A y : ~InLine(<< >>, y)) /\ Distinct(<< >>) /\ << >> \in Seq(Copies)
BY DEF InLine, Distinct

(* One reader goes on, and nothing it has given is taken back. *)
LEMMA ReaderGoesOn ==
  ASSUME ReadersSound, NEW s \in Sessions, NEW step, NEW left, NEW got,
         reading' = [reading EXCEPT ![s] = [step |-> step, left |-> left]],
         given' = [given EXCEPT ![s] = got], missed \subseteq missed',
         Reader(step, left, got, missed'), \A y : InLine(given[s], y) => InLine(got, y)
  PROVE  /\ ReadersSound'
         /\ \A r \in Sessions : \A y : InLine(given[r], y) => InLine(given'[r], y)
<1>1. /\ reading' \in [Sessions -> [step : RoomSteps, left : Seq(Copies)]]
      /\ given' \in [Sessions -> Seq(Copies)]
  BY DEF ReadersSound, Reader
<1>2. /\ reading'[s].step = step /\ reading'[s].left = left /\ given'[s] = got
      /\ \A r \in Sessions : r # s => reading'[r] = reading[r] /\ given'[r] = given[r]
  BY DEF ReadersSound
<1>3. ASSUME NEW r \in Sessions
      PROVE Reader(reading'[r].step, reading'[r].left, given'[r], missed')
  <2>1. CASE r = s
    BY <1>2, <2>1
  <2>2. CASE r # s
    <3>1. reading'[r] = reading[r] /\ given'[r] = given[r]
      BY <1>2, <2>2
    <3>2. Reader(reading[r].step, reading[r].left, given[r], missed)
      BY DEF ReadersSound
    <3> QED BY <3>1, <3>2 DEF Reader
  <2> QED BY <2>1, <2>2
<1>4. ASSUME NEW r \in Sessions, NEW y, InLine(given[r], y) PROVE InLine(given'[r], y)
  <2>1. CASE r = s
    BY <1>2, <1>4, <2>1
  <2>2. CASE r # s
    BY <1>2, <1>4, <2>2
  <2> QED BY <2>1, <2>2
<1>5. ReadersSound'
  BY <1>1, <1>3 DEF ReadersSound
<1> QED BY <1>4, <1>5

(* Nothing is lost by a step that takes nothing back and removes only what  *)
(* was handed over, was missed or has expired.                              *)
LEMMA NoneLostStays ==
  ASSUME NoneLost,
         \A m \in Messages : Pushed(m)' => Pushed(m) \/ InQueue(m)',
         expired \subseteq expired', missed \subseteq missed',
         \A s \in Sessions : \A y : InLine(given[s], y) => InLine(given'[s], y),
         \A c \in Copies : InLine(queue, c) => InLine(queue', c) \/ HandedOver(c.of)'
  PROVE  NoneLost'
<1>1. ASSUME NEW m \in Messages, HandedOver(m) PROVE HandedOver(m)'
  BY <1>1 DEF HandedOver
<1>2. ASSUME NEW m \in Messages, InQueue(m) PROVE InQueue(m)' \/ HandedOver(m)'
  <2>1. PICK c \in Copies : InLine(queue, c) /\ c.of = m
    BY <1>2 DEF InQueue
  <2>2. InLine(queue', c) \/ HandedOver(m)'
    BY <2>1
  <2> QED BY <2>1, <2>2 DEF InQueue
<1>3. ASSUME NEW m \in Messages, Pushed(m)' PROVE InQueue(m)' \/ HandedOver(m)'
  <2>1. CASE InQueue(m)'
    BY <2>1
  <2>2. CASE Pushed(m)
    <3>1. InQueue(m) \/ HandedOver(m)
      BY <2>2 DEF NoneLost
    <3> QED BY <1>1, <1>2, <3>1
  <2> QED BY <1>3, <2>1, <2>2
<1> QED BY <1>3 DEF NoneLost

(* A reader's step: what it lists, gives and removes. *)
LEMMA ReaderStep ==
  ASSUME RoomInv, NEW s \in Sessions, Room!Enters(s) \/ Room!Emits(s) \/ Room!Removes(s)
  PROVE  RoomInv'
<1> DEFINE left == reading[s].left
           got == given[s]
<1>1. /\ ReadersSound /\ queue \in Seq(Copies) /\ Distinct(queue) /\ DOMAIN sending = Messages
      /\ left \in Seq(Copies) /\ got \in Seq(Copies) /\ Reader(reading[s].step, left, got, missed)
      /\ given = [given EXCEPT ![s] = got]
  BY DEF RoomInv, ReadersSound, QueueSound
<1>2. UNCHANGED <<expired, sending, sweep>> /\ missed \subseteq missed'
  BY DEF Room!Enters, Room!Emits, Room!Removes
<1>3. ASSUME UNCHANGED queue, NEW step, NEW rest, NEW now,
             reading' = [reading EXCEPT ![s] = [step |-> step, left |-> rest]],
             given' = [given EXCEPT ![s] = now],
             Reader(step, rest, now, missed'), \A y : InLine(got, y) => InLine(now, y)
      PROVE  RoomInv'
  <2>1. /\ ReadersSound'
        /\ \A r \in Sessions : \A y : InLine(given[r], y) => InLine(given'[r], y)
    BY <1>1, <1>2, <1>3, ReaderGoesOn
  <2>2. QueueSound' /\ SweepSound'
    BY <1>2, <1>3 DEF RoomInv, QueueSound, SweepSound, InLine, Distinct, Pushed
  <2>3. \A m \in Messages : Pushed(m)' => Pushed(m)
    BY <1>2 DEF Pushed
  <2>4. NoneLost
    BY DEF RoomInv
  <2>5. NoneLost'
    BY <1>2, <1>3, <2>1, <2>3, <2>4, NoneLostStays
  <2> QED BY <2>1, <2>2, <2>5 DEF RoomInv
<1>4. CASE Room!Enters(s)
  <2>1. PICK step \in {"done", "emit"}, rest \in {queue, << >>} :
          /\ step = "emit" => rest # << >>
          /\ reading' = [reading EXCEPT ![s] = [step |-> step, left |-> rest]]
          /\ reading[s].step = "new" /\ UNCHANGED <<queue, given, missed>>
    BY <1>4 DEF Room!Enters, Room!Reads
  <2>2. rest \in Seq(Copies) /\ Distinct(rest)
    <3>1. CASE rest = queue
      BY <1>1, <3>1
    <3>2. CASE rest = << >>
      BY <3>2, NothingInLine
    <3> QED BY <2>1, <3>1, <3>2
  <2>3. got = << >>
    BY <1>1, <2>1 DEF Reader
  <2>4. Reader(step, rest, got, missed')
    BY <1>1, <2>1, <2>2, <2>3, NothingInLine DEF Reader, RoomSteps
  <2> QED BY <1>1, <1>3, <2>1, <2>4
<1>6. CASE Room!Emits(s)
  <2>1. /\ reading[s].step = "emit" /\ UNCHANGED queue /\ left # << >>
        /\ \A c : ~(InLine(left, c) /\ InLine(got, c))
        /\ Distinct(left) /\ Distinct(got)
    BY <1>1, <1>6 DEF Room!Emits, Reader
  <2>2. /\ Tail(left) \in Seq(Copies) /\ Distinct(Tail(left)) /\ Head(left) \in Copies
        /\ InLine(left, Head(left))
        /\ \A y : InLine(Tail(left), y) <=> InLine(left, y) /\ y # Head(left)
    BY <1>1, <2>1, Shorter
  <2>3. CASE /\ given' = given
             /\ \E step \in {"done", "emit"} :
                  /\ step = "emit" => Tail(left) # << >>
                  /\ reading' = [reading EXCEPT ![s] = [step |-> step, left |-> Tail(left)]]
    <3>1. PICK step \in {"done", "emit"} :
            /\ step = "emit" => Tail(left) # << >>
            /\ reading' = [reading EXCEPT ![s] = [step |-> step, left |-> Tail(left)]]
      BY <2>3
    <3>2. Reader(step, Tail(left), got, missed')
      BY <1>1, <2>1, <2>2, <3>1 DEF Reader, RoomSteps
    <3> QED BY <1>1, <1>3, <2>1, <2>3, <3>1, <3>2
  <2>4. CASE /\ given' = [given EXCEPT ![s] = Append(got, Head(left))]
             /\ reading' = [reading EXCEPT ![s] = [step |-> "remove", left |-> left]]
    <3>1. ~InLine(got, Head(left))
      BY <2>1, <2>2
    <3>2. /\ Append(got, Head(left)) \in Seq(Copies) /\ Distinct(Append(got, Head(left)))
          /\ \A y : InLine(Append(got, Head(left)), y) <=> InLine(got, y) \/ y = Head(left)
      BY <1>1, <2>1, <2>2, <3>1, LineGrows
    <3> DEFINE now == Append(got, Head(left))
    <3> HIDE DEF now
    <3>3. /\ now \in Seq(Copies) /\ Distinct(now)
          /\ \A y : InLine(now, y) <=> InLine(got, y) \/ y = Head(left)
      BY <3>2 DEF now
    <3>4. Reader("remove", left, now, missed')
      BY <1>1, <2>1, <2>2, <3>3 DEF Reader, RoomSteps
    <3>5. given' = [given EXCEPT ![s] = now]
      BY <2>4 DEF now
    <3> QED BY <1>3, <2>1, <2>4, <3>3, <3>4, <3>5
  <2>5. CASE /\ given' = given /\ Head(left).of \in missed'
             /\ reading' = [reading EXCEPT ![s] = [step |-> "remove", left |-> left]]
    <3>1. Reader("remove", left, got, missed')
      BY <1>1, <2>1, <2>2, <2>5 DEF Reader, RoomSteps
    <3> QED BY <1>1, <1>3, <2>1, <2>5, <3>1
  <2>6. CASE given' = given /\ reading' = [reading EXCEPT ![s] = [step |-> "done", left |-> <<>>]]
    <3>1. Reader("done", << >>, got, missed')
      BY <1>1, <2>1, NothingInLine DEF Reader, RoomSteps
    <3> QED BY <1>1, <1>3, <2>1, <2>6, <3>1
  <2> QED BY <1>6, <2>3, <2>4, <2>5, <2>6 DEF Room!Emits, Room!Reads
<1>7. CASE Room!Removes(s)
  <2>1. /\ reading[s].step = "remove" /\ given' = given /\ missed' = missed /\ left # << >>
        /\ InLine(got, Head(left)) \/ Head(left).of \in missed
        /\ \A c : ~(InLine(Tail(left), c) /\ InLine(got, c))
        /\ Distinct(left) /\ Distinct(got)
    BY <1>1, <1>7 DEF Room!Removes, Reader
  <2>2. Tail(left) \in Seq(Copies) /\ Distinct(Tail(left)) /\ Head(left) \in Copies
    BY <1>1, <2>1, Shorter
  <2>3. PICK step \in {"done", "emit"}, rest \in {Tail(left), << >>} :
          /\ step = "emit" => rest = Tail(left) /\ rest # << >>
          /\ reading' = [reading EXCEPT ![s] = [step |-> step, left |-> rest]]
          /\ Room!lrem(Head(left).of) \/ UNCHANGED queue
    <3>1. \/ /\ Room!lrem(Head(left).of)
             /\ reading' = [reading EXCEPT ![s] =
                  [step |-> IF Tail(left) = <<>> THEN "done" ELSE "emit", left |-> Tail(left)]]
          \/ /\ Room!lrem(Head(left).of) \/ UNCHANGED queue
             /\ reading' = [reading EXCEPT ![s] = [step |-> "done", left |-> <<>>]]
      BY <1>7 DEF Room!Removes, Room!Reads
    <3> QED BY <3>1
  <2>4. Reader(step, rest, got, missed')
    <3>1. CASE step = "emit"
      BY <1>1, <2>1, <2>2, <2>3, <3>1 DEF Reader, RoomSteps
    <3>2. CASE step = "done"
      <4>1. rest \in Seq(Copies) /\ Distinct(rest)
        BY <2>2, <2>3, NothingInLine
      <4> QED BY <1>1, <2>1, <3>2, <4>1 DEF Reader, RoomSteps
    <3> QED BY <2>3, <3>1, <3>2
  <2>5. CASE UNCHANGED queue
    BY <1>1, <1>3, <2>1, <2>3, <2>4, <2>5
  <2>6. CASE Room!lrem(Head(left).of)
    <3>1. /\ ReadersSound'
          /\ \A r \in Sessions : \A y : InLine(given[r], y) => InLine(given'[r], y)
      BY <1>1, <2>1, <2>3, <2>4, ReaderGoesOn
    <3>2. /\ queue' \in Seq(Copies) /\ Distinct(queue')
          /\ \A y : InLine(queue', y) => InLine(queue, y)
          /\ \A y : InLine(queue, y) /\ y.of # Head(left).of => InLine(queue', y)
      BY <1>1, <2>6, Lrem
    <3>3. QueueSound' /\ SweepSound'
      BY <1>2, <3>2 DEF RoomInv, QueueSound, SweepSound, Pushed
    <3>4. PICK c \in Copies : c = Head(left)
      BY <2>2
    <3>5. \A y \in Copies : InLine(queue, y) => InLine(queue', y) \/ HandedOver(y.of)'
      <4>1. PICK m : m = c.of
        OBVIOUS
      <4>2. HandedOver(m)'
        BY <2>1, <3>4, <4>1 DEF HandedOver
      <4> QED BY <3>2, <3>4, <4>1, <4>2
    <3>6. \A m \in Messages : Pushed(m)' => Pushed(m)
      BY <1>2 DEF Pushed
    <3>7. NoneLost
      BY DEF RoomInv
    <3>8. NoneLost'
      BY <1>2, <3>1, <3>5, <3>6, <3>7, NoneLostStays
    <3> QED BY <3>1, <3>3, <3>8 DEF RoomInv
  <2> QED BY <2>3, <2>5, <2>6
<1> QED BY <1>4, <1>6, <1>7

(* What the senders, the clock and the sweeping loop do. *)
LEMMA RoomOtherStep ==
  ASSUME RoomInv,
         \/ \E s \in Sessions : Room!Leaves(s)
         \/ \E m \in Messages : \/ Room!_handle_chat_message(m)
                                \/ Room!_queue_message_for_offline_users(m)
                                \/ Room!expire(m) \/ Room!Expires(m)
         \/ Room!Lapses \/ Room!Sweeps \/ Room!_process_message_queues
         \/ UNCHANGED Room!vars
  PROVE  RoomInv'
<1>1. /\ queue \in Seq(Copies) /\ Distinct(queue) /\ DOMAIN sending = Messages
      /\ \A c \in Copies : InLine(queue, c) => Pushed(c.of)
      /\ sweep \in Seq(Copies) /\ NoneLost
  BY DEF RoomInv, QueueSound, SweepSound
<1>2. UNCHANGED <<reading, given>> /\ expired \subseteq expired' /\ missed \subseteq missed'
  BY DEF Room!Leaves, Room!_handle_chat_message, Room!_queue_message_for_offline_users,
         Room!expire, Room!Expires,
         Room!Lapses, Room!Sweeps, Room!_process_message_queues, Room!vars
<1>3. ReadersSound' /\ \A s \in Sessions : \A y : InLine(given[s], y) => InLine(given'[s], y)
  <2>1. reading' = reading /\ given' = given /\ missed \subseteq missed'
    BY <1>2
  <2>2. ReadersSound
    BY DEF RoomInv
  <2>3. ASSUME NEW s \in Sessions
        PROVE Reader(reading[s].step, reading[s].left, given[s], missed')
    BY <2>1, <2>2 DEF ReadersSound, Reader
  <2> QED BY <2>1, <2>2, <2>3 DEF ReadersSound
<1>4. ASSUME UNCHANGED queue, sweep' \in Seq(Copies), DOMAIN sending' = Messages,
             \A m \in Messages : Pushed(m)' <=> Pushed(m)
      PROVE RoomInv'
  <2>1. QueueSound' /\ SweepSound'
    BY <1>1, <1>4, CopiesOf DEF QueueSound, SweepSound, InLine, Distinct
  <2>2. NoneLost'
    BY <1>1, <1>2, <1>3, <1>4, NoneLostStays
  <2> QED BY <1>3, <2>1, <2>2 DEF RoomInv
<1>5. ASSUME NEW m \in Messages, NEW then \in {"expire", "queued"}, sending[m] = "queue",
             queue' \in {<<[of |-> m, nth |-> 1]>> \o queue,
                         <<[of |-> m, nth |-> 2], [of |-> m, nth |-> 1]>> \o queue},
             sending' = [sending EXCEPT ![m] = then], sweep' = sweep
      PROVE  RoomInv'
  <2> DEFINE c1 == [of |-> m, nth |-> 1]
             c2 == [of |-> m, nth |-> 2]
             q1 == <<c1>> \o queue
             q2 == <<c2>> \o q1
  <2>1. c1 \in Copies /\ c2 \in Copies /\ c1.of = m /\ c2.of = m /\ c1 # c2
    BY DEF Copies, Room!Copies
  <2> HIDE DEF c1, c2
  <2>2. ~InLine(queue, c1) /\ ~InLine(queue, c2)
    BY <1>1, <1>5, <2>1 DEF Pushed
  <2>3. /\ q1 \in Seq(Copies) /\ Distinct(q1) /\ \A y : InLine(q1, y) <=> InLine(queue, y) \/ y = c1
    BY <1>1, <2>1, <2>2, LineGrowsInFront
  <2>4. /\ q2 \in Seq(Copies) /\ Distinct(q2) /\ \A y : InLine(q2, y) <=> InLine(q1, y) \/ y = c2
    <3> HIDE DEF q1
    <3>1. ~InLine(q1, c2)
      BY <2>1, <2>2, <2>3
    <3> QED BY <2>1, <2>3, <3>1, LineGrowsInFront
  <2>5. queue' \in {q1, q2}
    <3>1. <<c2, c1>> \o queue = q2
      BY <1>1, <2>1
    <3> QED BY <1>5, <3>1 DEF c1, c2
  <2> HIDE DEF q1, q2
  <2>6. /\ queue' \in Seq(Copies) /\ Distinct(queue') /\ InLine(queue', c1)
        /\ \A y : InLine(queue', y) => InLine(queue, y) \/ y \in {c1, c2}
        /\ \A y : InLine(queue, y) => InLine(queue', y)
    BY <2>3, <2>4, <2>5
  <2>7. /\ DOMAIN sending' = Messages /\ Pushed(m)'
        /\ \A y \in Messages : y # m => (Pushed(y)' <=> Pushed(y))
    BY <1>1, <1>5 DEF Pushed
  <2>8. ASSUME NEW c \in Copies, InLine(queue', c) PROVE Pushed(c.of)'
    BY <1>1, <2>1, <2>6, <2>7, <2>8, CopiesOf
  <2>9. QueueSound' /\ SweepSound'
    BY <1>1, <1>5, <2>6, <2>7, <2>8 DEF QueueSound, SweepSound
  <2>10. \A y \in Messages : Pushed(y)' => Pushed(y) \/ InQueue(y)'
    BY <2>1, <2>6, <2>7 DEF InQueue
  <2>11. NoneLost'
    BY <1>1, <1>2, <1>3, <2>6, <2>10, NoneLostStays
  <2> QED BY <1>3, <2>9, <2>11 DEF RoomInv
<1>7. ASSUME NEW m \in expired, Room!lrem(m), UNCHANGED sending, sweep' \in Seq(Copies) PROVE RoomInv'
  <2>1. /\ queue' \in Seq(Copies) /\ Distinct(queue')
        /\ \A y : InLine(queue', y) => InLine(queue, y)
        /\ \A y : InLine(queue, y) /\ y.of # m => InLine(queue', y)
    BY <1>1, <1>7, Lrem
  <2>2. \A y \in Messages : Pushed(y)' <=> Pushed(y)
    BY <1>7 DEF Pushed
  <2>3. QueueSound' /\ SweepSound'
    BY <1>1, <1>7, <2>1, <2>2, CopiesOf DEF QueueSound, SweepSound
  <2>4. HandedOver(m)'
    BY <1>2, <1>7 DEF HandedOver
  <2>5. \A c \in Copies : InLine(queue, c) => InLine(queue', c) \/ HandedOver(c.of)'
    BY <2>1, <2>4
  <2>6. NoneLost'
    BY <1>1, <1>2, <1>3, <2>2, <2>5, NoneLostStays
  <2> QED BY <1>3, <2>3, <2>6 DEF RoomInv
<1>8. ASSUME Room!Lapses PROVE RoomInv'
  <2>1. /\ queue' = << >> /\ UNCHANGED <<sending, sweep>> /\ covered \subseteq expired
        /\ missed' = missed \cup (Room!Held(queue) \ covered)
    BY <1>8 DEF Room!Lapses
  <2>2. << >> \in Seq(Copies) /\ Distinct(<< >>) /\ \A y : ~InLine(<< >>, y)
    BY NothingInLine
  <2>3. QueueSound' /\ SweepSound'
    BY <1>1, <2>1, <2>2 DEF QueueSound, SweepSound
  <2>4. ASSUME NEW c \in Copies, InLine(queue, c) PROVE HandedOver(c.of)'
    <3>1. c.of \in Room!Held(queue)
      BY <1>1, <2>4, HeldInLine
    <3>2. c.of \in expired' \cup missed'
      BY <1>2, <2>1, <3>1
    <3> QED BY <3>2 DEF HandedOver
  <2>5. \A y \in Messages : Pushed(y)' => Pushed(y)
    BY <2>1 DEF Pushed
  <2>6. NoneLost'
    BY <1>1, <1>2, <1>3, <2>4, <2>5, NoneLostStays
  <2> QED BY <1>3, <2>3, <2>6 DEF RoomInv
<1>9. ASSUME Room!_process_message_queues PROVE RoomInv'
  <2>1. UNCHANGED sending /\ sweep # << >> /\ sweep' \in {Tail(sweep), << >>}
    BY <1>9 DEF Room!_process_message_queues
  <2>2. Tail(sweep) \in Seq(Copies) /\ << >> \in Seq(Copies)
    BY <1>1, <2>1
  <2>3. sweep' \in Seq(Copies) /\ \A y \in Messages : Pushed(y)' <=> Pushed(y)
    BY <2>1, <2>2 DEF Pushed
  <2>4. UNCHANGED queue \/ (Head(sweep).of \in expired /\ Room!lrem(Head(sweep).of))
    BY <1>9 DEF Room!_process_message_queues
  <2> QED BY <1>1, <1>4, <1>7, <2>1, <2>3, <2>4
<1>10. ASSUME NEW m \in Messages, Room!_queue_message_for_offline_users(m) PROVE RoomInv'
  <2>1. sending[m] = "queue" /\ sweep' = sweep
    BY <1>10 DEF Room!_queue_message_for_offline_users
  <2>2. CASE sending' = [sending EXCEPT ![m] = "unqueued"] /\ UNCHANGED queue
    <3>1. DOMAIN sending' = Messages /\ \A y \in Messages : Pushed(y)' <=> Pushed(y)
      BY <1>1, <2>1, <2>2 DEF Pushed
    <3> QED BY <1>1, <1>4, <2>1, <2>2, <3>1
  <2>3. CASE ~(sending' = [sending EXCEPT ![m] = "unqueued"] /\ UNCHANGED queue)
    <3>1. PICK then \in {"expire", "queued"} : sending' = [sending EXCEPT ![m] = then]
      BY <1>10, <2>3 DEF Room!_queue_message_for_offline_users
    <3>2. queue' \in {<<[of |-> m, nth |-> 1]>> \o queue,
                      <<[of |-> m, nth |-> 2], [of |-> m, nth |-> 1]>> \o queue}
      BY <1>10, <2>3 DEF Room!_queue_message_for_offline_users
    <3> QED BY <1>5, <2>1, <3>1, <3>2
  <2> QED BY <2>2, <2>3
<1>11. ASSUME NEW m \in Messages,
              Room!_handle_chat_message(m) \/ Room!expire(m) \/ Room!Expires(m)
       PROVE  RoomInv'
  <2>1. /\ UNCHANGED <<queue, sweep>> /\ DOMAIN sending' = Messages
        /\ \A y \in Messages : Pushed(y)' <=> Pushed(y)
    BY <1>1, <1>11 DEF Room!_handle_chat_message, Room!expire, Room!Expires, Pushed
  <2> QED BY <1>1, <1>4, <2>1
<1>12. ASSUME (\E s \in Sessions : Room!Leaves(s)) \/ Room!Sweeps \/ UNCHANGED Room!vars PROVE RoomInv'
  <2>1. UNCHANGED <<queue, sending>> /\ sweep' \in Seq(Copies)
    BY <1>1, <1>12 DEF Room!Leaves, Room!Sweeps, Room!vars
  <2>2. \A y \in Messages : Pushed(y)' <=> Pushed(y)
    BY <2>1 DEF Pushed
  <2> QED BY <1>1, <1>4, <2>1, <2>2
<1> QED BY <1>8, <1>9, <1>10, <1>11, <1>12

(* infrastructure/websocket_scalable.py: whoever reads, removes, sweeps and *)
(* leaves at once, whatever Redis is sent twice, and for any sessions and   *)
(* messages: a message that Redis took is gone from the list only once it   *)
(* was handed to a socket or its time is over, those excepted that were     *)
(* emitted to a socket that had gone or were in a list whose time was set   *)
(* for earlier ones; and no session is handed a copy of it twice.           *)
THEOREM QueueLosesNothing ==
  Room!Spec => [](Room!NoneLostUnread /\ Room!GivenOnce)
<1>1. Room!Init => RoomInv
  <2> SUFFICES ASSUME Room!Init PROVE RoomInv
    OBVIOUS
  <2>1. /\ queue = << >> /\ sweep = << >>
        /\ \A s \in Sessions : reading[s] = [step |-> "new", left |-> <<>>] /\ given[s] = << >>
        /\ reading \in [Sessions -> [step : RoomSteps, left : Seq(Copies)]]
        /\ given \in [Sessions -> Seq(Copies)]
        /\ DOMAIN sending = Messages /\ \A m \in Messages : sending[m] = "no"
    BY DEF Room!Init, RoomSteps
  <2>2. ReadersSound
    BY <2>1, NothingInLine DEF ReadersSound, Reader, RoomSteps
  <2>3. QueueSound /\ SweepSound
    BY <2>1, NothingInLine DEF QueueSound, SweepSound
  <2>4. NoneLost
    BY <2>1 DEF NoneLost, Pushed
  <2> QED BY <2>2, <2>3, <2>4 DEF RoomInv
<1>2. RoomInv /\ [Room!Next]_Room!vars => RoomInv'
  BY ReaderStep, RoomOtherStep DEF Room!Next
<1>3. RoomInv => Room!NoneLostUnread /\ Room!GivenOnce
  <2> SUFFICES ASSUME RoomInv PROVE Room!NoneLostUnread /\ Room!GivenOnce
    OBVIOUS
  <2>1. queue \in Seq(Copies) /\ \A s \in Sessions : given[s] \in Seq(Copies) /\ Distinct(given[s])
    BY DEF RoomInv, QueueSound, ReadersSound, Reader
  <2>2. ASSUME NEW m \in Messages, Pushed(m), m \notin Room!Held(queue)
        PROVE  m \in expired \cup missed \/ \E s \in Sessions : m \in Room!Held(given[s])
    <3>1. ~InQueue(m)
      BY <2>1, <2>2, HeldInLine DEF InQueue
    <3>2. HandedOver(m)
      BY <2>2, <3>1 DEF RoomInv, NoneLost
    <3> QED BY <2>1, <3>2, HeldInLine DEF HandedOver
  <2>3. Room!NoneLostUnread
    BY <2>2 DEF Room!NoneLostUnread, Pushed
  <2>4. Room!GivenOnce
    BY <2>1 DEF Distinct, Room!IsInjective, Room!GivenOnce
  <2> QED BY <2>3, <2>4
<1> QED BY <1>1, <1>2, <1>3, PTL DEF Room!Spec
-----------------------------------------------------------------------------
(* The regions. *)
RegionInv == Regional!TypeOK /\ Regional!OnePrimary /\ Regional!UnhealthyForCause

(* A check that fails counts, and a region becomes unhealthy at the         *)
(* threshold and not before.                                                *)
LEMMA FailureCounts ==
  ASSUME Threshold \in Nat \ {0}, RegionInv, NEW r \in Regions, Regional!_mark_region_unhealthy(r)
  PROVE  RegionInv'
  <1> DEFINE n == IF failures[r] < Threshold THEN failures[r] + 1 ELSE Threshold
  <1>1. n \in 0..Threshold /\ (failures[r] = Threshold => n = Threshold)
    BY DEF RegionInv, Regional!TypeOK
  <1>2. failures' = [failures EXCEPT ![r] = n] /\ UNCHANGED <<primary, flagged, spare>>
        /\ checking' = checking \ {r}
        /\ (\/ n < Threshold /\ UNCHANGED <<status, due>>
            \/ n = Threshold /\ status' = [status EXCEPT ![r] = "unhealthy"]
               /\ due' = (due \/ (status[r] # "unhealthy" /\ r = primary)))
    BY DEF Regional!_mark_region_unhealthy
  <1> HIDE DEF n
  <1>3. failures' \in [Regions -> 0..Threshold] /\ failures'[r] = n
        /\ \A s \in Regions \ {r} : failures'[s] = failures[s]
    BY <1>1, <1>2 DEF RegionInv, Regional!TypeOK
  <1>4. Regional!OnePrimary' /\ spare' \subseteq Regions /\ checking' \subseteq Regions /\ primary' \in Regions /\ flagged' \subseteq Regions
    BY <1>2 DEF RegionInv, Regional!OnePrimary, Regional!TypeOK
  <1>5. CASE n < Threshold /\ UNCHANGED <<status, due>>
    BY <1>1, <1>3, <1>4, <1>5 DEF RegionInv, Regional!TypeOK, Regional!UnhealthyForCause
  <1>6. CASE n = Threshold /\ status' = [status EXCEPT ![r] = "unhealthy"]
             /\ due' = (due \/ (status[r] # "unhealthy" /\ r = primary))
    <2>1. due' \in BOOLEAN
      BY <1>6 DEF RegionInv, Regional!TypeOK
    <2>2. Regional!UnhealthyForCause'
      BY <1>3, <1>6 DEF RegionInv, Regional!TypeOK, Regional!UnhealthyForCause
    <2> QED BY <1>3, <1>4, <1>6, <2>1, <2>2 DEF RegionInv, Regional!TypeOK
  <1> QED BY <1>2, <1>5, <1>6

(* A failover hands the flag over with the primary, one that is rolled back *)
(* gives it back, and neither flags a third region.                         *)
LEMMA FailoverHandsOver ==
  ASSUME RegionInv, Regional!_perform_failover
  PROVE  RegionInv'
  <1>1. UNCHANGED <<status, failures, checking, spare>> /\ due' = FALSE
    BY DEF Regional!_perform_failover
  <1>2. /\ primary' \in Regions /\ flagged' \subseteq Regions
        /\ flagged' # {} => primary' \in flagged'
        /\ flagged' \ {primary'} \subseteq flagged \ {primary}
    <2>1. CASE UNCHANGED <<primary, flagged>>
      BY <2>1 DEF RegionInv, Regional!TypeOK, Regional!OnePrimary
    <2>2. CASE \E new \in Regional!Best : new # primary /\ Regional!Rollback(new)
      BY <2>2 DEF Regional!Rollback, RegionInv, Regional!TypeOK, Regional!OnePrimary
    <2>3. CASE \E new \in Regional!Best : new # primary /\ primary' = new
                                 /\ flagged' = (flagged \ {primary}) \cup {new}
      BY <2>3 DEF Regional!Best, RegionInv, Regional!TypeOK, Regional!OnePrimary
    <2> QED BY <2>1, <2>2, <2>3 DEF Regional!_perform_failover
  <1> QED BY <1>1, <1>2 DEF RegionInv, Regional!TypeOK, Regional!OnePrimary,
                            Regional!UnhealthyForCause

(* For any regions, priorities and flags of the configuration, the primary  *)
(* is flagged if any region is, through every failover and rollback, which  *)
(* flag no other, and a region is unhealthy only after as many failures as  *)
(* the threshold (infrastructure/multi_region.py,               *)
(* _perform_failover and _mark_region_unhealthy).                           *)
THEOREM RegionsStaySound ==
  ASSUME Threshold \in Nat \ {0}
  PROVE  Regional!Spec => [](Regional!TypeOK /\ Regional!OnePrimary /\ Regional!UnhealthyForCause)
  <1>1. Regional!Init => RegionInv
    <2> SUFFICES ASSUME Regional!Init PROVE RegionInv
      OBVIOUS
    <2>1. failures \in [Regions -> 0..Threshold]
      <3>1. 0 \in 0..Threshold
        OBVIOUS
      <3> QED BY <3>1 DEF Regional!Init
    <2>2. \A r \in Regions : status[r] \in {"healthy", "unavailable"}
      BY DEF Regional!Init
    <2>3. status \in [Regions -> {"healthy", "degraded", "unhealthy", "unavailable"}]
      BY <2>2 DEF Regional!Init
    <2> QED BY <2>1, <2>2, <2>3 DEF Regional!Init, RegionInv, Regional!TypeOK,
                                    Regional!OnePrimary, Regional!UnhealthyForCause
  <1>2. RegionInv /\ [Regional!Next]_Regional!vars => RegionInv'
    <2> SUFFICES ASSUME RegionInv, [Regional!Next]_Regional!vars PROVE RegionInv'
      OBVIOUS
    <2>1. CASE Regional!_check_all_regions_health
      BY <2>1 DEF Regional!_check_all_regions_health, RegionInv, Regional!TypeOK,
                  Regional!OnePrimary, Regional!UnhealthyForCause
    <2>2. CASE Regional!_perform_failover
      BY <2>2, FailoverHandsOver
    <2>3. ASSUME NEW r \in Regions, Regional!Passes(r) PROVE RegionInv'
      <3>1. checking' \subseteq Regions /\ UNCHANGED <<primary, flagged, due, spare>>
        BY <2>3 DEF Regional!Passes, RegionInv, Regional!TypeOK
      <3>2. CASE Regional!_mark_region_healthy(r)
        BY <3>1, <3>2 DEF Regional!_mark_region_healthy, RegionInv, Regional!TypeOK,
                          Regional!OnePrimary, Regional!UnhealthyForCause
      <3>3. CASE Regional!_mark_region_degraded(r)
        BY <3>1, <3>3 DEF Regional!_mark_region_degraded, RegionInv, Regional!TypeOK,
                          Regional!OnePrimary, Regional!UnhealthyForCause
      <3> QED BY <2>3, <3>2, <3>3 DEF Regional!Passes
    <2>4. ASSUME NEW r \in Regions, Regional!_mark_region_unhealthy(r) PROVE RegionInv'
      BY <2>4, FailureCounts
    <2>5. CASE UNCHANGED Regional!vars
      BY <2>5 DEF Regional!vars, RegionInv, Regional!TypeOK, Regional!OnePrimary,
                  Regional!UnhealthyForCause
    <2> QED BY <2>1, <2>2, <2>3, <2>4, <2>5 DEF Regional!Next
  <1> QED BY <1>1, <1>2, PTL DEF Regional!Spec, RegionInv

-----------------------------------------------------------------------------
(* What the theorem asks of the numbers. A bucket that is dropped would     *)
(* have been full by then: the last conjunct, which security.py's figures   *)
(* (an hour, and limits by the minute) satisfy.                             *)
BucketNumbers ==
  /\ Capacity \in Nat /\ Rate \in Nat /\ Unit \in Nat \ {0}
  /\ Idle \in Nat /\ Asked \subseteq Nat
  /\ Rate * (Idle + 1) >= Capacity * Unit

(* What was let through and what is left came with the bucket or since.     *)
CameIn == tokens + Unit * used <= Bucket!Full + Rate * last
BucketInv == Bucket!TypeOK /\ CameIn

(* Rounding down to whole tokens adds nothing. *)
LEMMA RoundsDown ==
  ASSUME NEW x \in Nat, NEW u \in Nat \ {0}
  PROVE  (x \div u) * u \in Nat /\ (x \div u) * u <= x
  OBVIOUS

(* A refill, a sweep included, adds no more than has flowed in. *)
LEMMA RefillBounded ==
  ASSUME BucketNumbers, Bucket!TypeOK
  PROVE  Bucket!Refilled \in 0..Bucket!Full /\ Bucket!Refilled <= tokens + Rate * clock - Rate * last
  <1>1. Bucket!Full \in Nat /\ tokens \in 0..Bucket!Full /\ clock \in Nat /\ last \in Nat /\ last <= clock
    BY DEF BucketNumbers, Bucket!TypeOK, Bucket!Full
  <1> DEFINE d == clock - last
  <1>2. d \in Nat /\ d * Rate \in Nat /\ d * Rate = Rate * clock - Rate * last
    BY <1>1 DEF BucketNumbers
  <1> HIDE DEF d
  <1>3. Bucket!Earned \in Nat /\ Bucket!Earned <= d * Rate
    BY <1>1, <1>2, RoundsDown DEF Bucket!Earned, d, BucketNumbers
  <1>4. CASE Bucket!Swept
    <2>1. d >= Idle + 1
      BY <1>1, <1>4 DEF Bucket!Swept, d, BucketNumbers
    <2>2. Rate * d >= Rate * (Idle + 1)
      BY <1>2, <2>1 DEF BucketNumbers
    <2>3. Bucket!Full <= d * Rate
      BY <1>1, <1>2, <2>2 DEF BucketNumbers, Bucket!Full
    <2> QED BY <1>1, <1>2, <1>4, <2>3 DEF Bucket!Refilled, BucketNumbers
  <1>5. CASE ~Bucket!Swept
    BY <1>1, <1>2, <1>3, <1>5 DEF Bucket!Refilled, Bucket!Least, BucketNumbers
  <1> QED BY <1>4, <1>5

(* Taking tokens, or being refused, keeps the balance. *)
LEMMA TakeBalances ==
  ASSUME BucketNumbers, BucketInv, NEW n \in Nat, Bucket!Take(n)
  PROVE  BucketInv'
  <1>1. Bucket!Full \in Nat /\ Unit \in Nat /\ Rate \in Nat /\ clock \in Nat /\ last \in Nat
        /\ used \in Nat /\ tokens \in Nat
    BY DEF BucketNumbers, BucketInv, Bucket!TypeOK, Bucket!Full
  <1>2. Bucket!Refilled \in 0..Bucket!Full /\ Bucket!Refilled <= tokens + Rate * clock - Rate * last
    BY RefillBounded DEF BucketInv
  <1>3. Bucket!Refilled + Unit * used <= Bucket!Full + Rate * clock
    <2> DEFINE w == Unit * used
               now == Rate * clock
               then == Rate * last
    <2>1. w \in Nat /\ now \in Nat /\ then \in Nat
      BY <1>1
    <2>2. tokens + w <= Bucket!Full + then /\ Bucket!Refilled <= tokens + now - then
      BY <1>2 DEF BucketInv, CameIn
    <2> HIDE DEF w, now, then
    <2>3. Bucket!Refilled + w <= Bucket!Full + now
      BY <1>1, <1>2, <2>1, <2>2
    <2> QED BY <2>3 DEF w, now
  <1>4. last' = clock /\ clock' = clock /\ kind' = kind
    BY DEF Bucket!Take
  <1>5. CASE Bucket!Refilled >= n * Unit
    <2>1. tokens' = Bucket!Refilled - n * Unit /\ used' = used + n
      BY <1>5 DEF Bucket!Take
    <2>2. Unit * (used + n) = Unit * used + n * Unit /\ n * Unit \in Nat
      BY <1>1
    <2>3. tokens' \in 0..Bucket!Full /\ used' \in Nat
      BY <1>1, <1>2, <1>5, <2>1, <2>2
    <2>4. tokens' + Unit * used' <= Bucket!Full + Rate * last'
      BY <1>1, <1>2, <1>3, <1>4, <2>1, <2>2
    <2> QED BY <1>1, <1>4, <2>3, <2>4 DEF BucketInv, Bucket!TypeOK, CameIn, Bucket!Full
  <1>6. CASE ~(Bucket!Refilled >= n * Unit)
    <2>1. tokens' = Bucket!Refilled /\ used' = used
      BY <1>6 DEF Bucket!Take
    <2> QED BY <1>1, <1>2, <1>3, <1>4, <2>1 DEF BucketInv, Bucket!TypeOK, CameIn, Bucket!Full
  <1> QED BY <1>5, <1>6

(* Every bucket, of any size and rate, asked by anyone at any time, stays   *)
(* within what it held and what has flowed in: no limiter lets through more *)
(* (is_allowed, allow_burst, check_rate_limit, get_tenant_status).          *)
THEOREM BucketIsCovered ==
  ASSUME BucketNumbers
  PROVE  Bucket!Spec => [](Bucket!TypeOK /\ Bucket!UsedIsCovered)
  <1>1. Bucket!Init => BucketInv
    BY DEF Bucket!Init, BucketInv, BucketNumbers, Bucket!TypeOK, CameIn, Bucket!Full
  <1>2. BucketInv /\ [Bucket!Next]_Bucket!vars => BucketInv'
    <2> SUFFICES ASSUME BucketInv, [Bucket!Next]_Bucket!vars PROVE BucketInv'
      OBVIOUS
    <2>1. CASE \E n \in Asked : Bucket!Ask(n) \/ Bucket!allow_burst(n)
      BY <2>1, TakeBalances DEF Bucket!Ask, Bucket!allow_burst, BucketNumbers
    <2>2. CASE Bucket!get_tenant_status
      <3>1. UNCHANGED <<kind, clock, used>> /\ tokens' = Bucket!Refilled /\ last' = clock
        BY <2>2 DEF Bucket!get_tenant_status
      <3>2. Bucket!Refilled \in 0..Bucket!Full /\ Bucket!Refilled <= tokens + Rate * clock - Rate * last
        BY RefillBounded DEF BucketInv
      <3> QED BY <3>1, <3>2 DEF BucketInv, Bucket!TypeOK, CameIn, Bucket!Full, BucketNumbers
    <2>3. CASE Bucket!Tick
      BY <2>3 DEF Bucket!Tick, BucketInv, Bucket!TypeOK, CameIn, Bucket!Full
    <2>4. CASE UNCHANGED Bucket!vars
      BY <2>4 DEF Bucket!vars, BucketInv, Bucket!TypeOK, CameIn, Bucket!Full
    <2> QED BY <2>1, <2>2, <2>3, <2>4 DEF Bucket!Next
  <1>3. BucketInv => Bucket!TypeOK /\ Bucket!UsedIsCovered
    <2> SUFFICES ASSUME BucketInv PROVE Bucket!UsedIsCovered
      BY DEF BucketInv
    <2>1. Bucket!Full \in Nat /\ Rate * last <= Rate * clock
      BY DEF BucketInv, Bucket!TypeOK, BucketNumbers, Bucket!Full
    <2> QED BY <2>1 DEF BucketInv, Bucket!TypeOK, CameIn, Bucket!UsedIsCovered, BucketNumbers
  <1> QED BY <1>1, <1>2, <1>3, PTL DEF Bucket!Spec

-----------------------------------------------------------------------------
LoadNames ==
  /\ IsFiniteSet(Requests) /\ None \notin Instances
  /\ MaxConnections \in Nat /\ Many \in Nat

(* The requests that run on an endpoint, those that have ended there, and   *)
(* both.                                                                    *)
Running(i) == {r \in Requests : at[r] = "running" /\ on[r] = i}
Ended(i) == {r \in Requests : at[r] = "done" /\ on[r] = i}
Served(i) == Running(i) \cup Ended(i)

LoadTypes ==
  /\ kind \in Load!Kinds /\ present \subseteq Instances /\ available \in [Instances -> BOOLEAN]
  /\ connections \in [Instances -> Nat] /\ total \in [Instances -> Nat] /\ failed \in [Instances -> Nat]
  /\ at \in [Requests -> {"new", "selected", "running", "done"}]
  /\ on \in [Requests -> Instances \cup {None}]
  /\ \A r \in Requests : /\ at[r] \in {"selected", "running"} => on[r] \in Instances
                         /\ at[r] = "selected" => kind # "models"

(* What an endpoint is charged with, it has had.                            *)
Charged(i) ==
  /\ connections[i] <= Cardinality(Served(i)) /\ total[i] <= Cardinality(Served(i))
  /\ failed[i] <= Cardinality(Ended(i))
  /\ kind = "models" => connections[i] = 0 /\ total[i] <= Cardinality(Ended(i))
  /\ i \in present => connections[i] <= Cardinality(Running(i))
Sidelined(i) ==
  i \in present \ Weak /\ ~available[i] =>
    /\ total[i] > Many
    /\ IF kind = "models" THEN 2 * failed[i] > Many + 1 ELSE 7 * failed[i] > 3 * (Many + 1)
LoadInv == LoadTypes /\ \A i \in Instances : Charged(i) /\ Sidelined(i)

(* Sets of requests that have one more, one less, or all of another.        *)
LEMMA Counted ==
  ASSUME IsFiniteSet(Requests), NEW S \in SUBSET Requests, NEW T \in SUBSET Requests, NEW r \in Requests
  PROVE  /\ Cardinality(S) \in Nat /\ Cardinality(T) \in Nat
         /\ S \subseteq T => Cardinality(S) <= Cardinality(T)
         /\ r \notin S /\ S \subseteq T /\ r \in T => Cardinality(S) + 1 <= Cardinality(T)
         /\ S \subseteq T \cup {r} => Cardinality(S) - 1 <= Cardinality(T)
<1>1. IsFiniteSet(S) /\ IsFiniteSet(T) /\ Cardinality(S) \in Nat /\ Cardinality(T) \in Nat
  BY FS_Subset, FS_CardinalityType
<1>2. S \subseteq T => Cardinality(S) <= Cardinality(T)
  BY <1>1, FS_Subset
<1>3. ASSUME r \notin S, S \subseteq T, r \in T
      PROVE  Cardinality(S) + 1 <= Cardinality(T)
  <2>1. Cardinality(S \cup {r}) = Cardinality(S) + 1
    BY <1>1, <1>3, FS_AddElement
  <2>2. S \cup {r} \in SUBSET T
    BY <1>3
  <2>3. Cardinality(S \cup {r}) <= Cardinality(T)
    BY <1>1, <2>2, FS_Subset
  <2> QED BY <2>1, <2>3
<1>4. ASSUME S \subseteq T \cup {r}
      PROVE  Cardinality(S) - 1 <= Cardinality(T)
  <2>1. IsFiniteSet(T \cup {r}) /\ (Cardinality(T \cup {r}) = Cardinality(T) + 1 \/ Cardinality(T \cup {r}) = Cardinality(T))
    BY <1>1, FS_AddElement
  <2>2. Cardinality(S) <= Cardinality(T \cup {r})
    BY <1>4, <2>1, FS_Subset
  <2> QED BY <1>1, <2>1, <2>2
<1> QED BY <1>1, <1>2, <1>3, <1>4

LEMMA ServedCounted ==
  ASSUME LoadNames, NEW i
  PROVE  /\ Cardinality(Running(i)) \in Nat /\ Cardinality(Ended(i)) \in Nat
         /\ Cardinality(Served(i)) \in Nat /\ Cardinality(Served(i)) <= Cardinality(Requests)
         /\ Cardinality(Ended(i)) <= Cardinality(Served(i))
         /\ Cardinality(Running(i)) <= Cardinality(Served(i))
<1>1. /\ Running(i) \subseteq Requests /\ Ended(i) \subseteq Requests /\ Served(i) \subseteq Requests
      /\ Running(i) \subseteq Served(i) /\ Ended(i) \subseteq Served(i)
  BY DEF Running, Ended, Served
<1>2. /\ IsFiniteSet(Requests) /\ IsFiniteSet(Served(i)) /\ IsFiniteSet(Running(i)) /\ IsFiniteSet(Ended(i))
      /\ Cardinality(Served(i)) <= Cardinality(Requests)
  BY <1>1, FS_Subset DEF LoadNames
<1>3. Cardinality(Ended(i)) <= Cardinality(Served(i)) /\ Cardinality(Running(i)) <= Cardinality(Served(i))
  BY <1>1, <1>2, FS_Subset
<1> QED BY <1>2, <1>3, FS_CardinalityType

(* Endpoints come, go and are marked.                                       *)
LEMMA EndpointMoves ==
  ASSUME LoadNames, LoadInv,
         \/ \E i \in Instances :
              \/ Load!add_instance(i) \/ Load!remove_instance(i) \/ Load!check_instance_health(i)
              \/ \E is \in BOOLEAN : Load!mark_available(i, is)
         \/ Load!reset_metrics \/ UNCHANGED Load!vars
  PROVE  LoadInv'
<1>1. UNCHANGED <<kind, at, on>>
  BY DEF Load!add_instance, Load!remove_instance, Load!check_instance_health, Load!mark_available,
         Load!reset_metrics, Load!vars
<1>2. \A i : Running(i)' = Running(i) /\ Ended(i)' = Ended(i) /\ Served(i)' = Served(i)
  BY <1>1 DEF Running, Ended, Served
<1>3. ASSUME NEW i \in Instances, Load!add_instance(i) PROVE LoadInv'
  <2>1. LoadTypes'
    BY <1>1, <1>3 DEF LoadInv, LoadTypes, Load!add_instance, Load!Fresh
  <2>2. ASSUME NEW k \in Instances PROVE Charged(k)' /\ Sidelined(k)'
    <3>1. CASE k = i
      <4>1. connections'[k] = 0 /\ total'[k] = 0 /\ failed'[k] = 0 /\ available'[k]
        BY <1>3, <3>1 DEF LoadInv, LoadTypes, Load!add_instance, Load!Fresh
      <4> QED BY <1>2, <4>1, ServedCounted DEF Charged, Sidelined
    <3>2. CASE k # i
      BY <1>1, <1>2, <1>3, <3>2 DEF LoadInv, LoadTypes, Load!add_instance, Load!Fresh, Charged, Sidelined
    <3> QED BY <3>1, <3>2
  <2> QED BY <2>1, <2>2 DEF LoadInv
<1>4. ASSUME NEW i \in Instances, Load!remove_instance(i) PROVE LoadInv'
  BY <1>1, <1>2, <1>4 DEF LoadInv, LoadTypes, Load!remove_instance, Load!record, Charged, Sidelined
<1>5. ASSUME NEW i \in Instances, NEW is \in BOOLEAN, is \/ i \in Weak,
             available' = [available EXCEPT ![i] = is], UNCHANGED <<present, connections, total, failed>>
      PROVE  LoadInv'
  BY <1>1, <1>2, <1>5 DEF LoadInv, LoadTypes, Charged, Sidelined
<1>6. CASE Load!reset_metrics
  <2>1. LoadTypes'
    BY <1>1, <1>6 DEF LoadInv, LoadTypes, Load!reset_metrics
  <2>2. ASSUME NEW k \in Instances PROVE Charged(k)' /\ Sidelined(k)'
    <3>1. total'[k] = 0 /\ failed'[k] = 0 /\ available'[k] /\ UNCHANGED <<connections, present>>
      BY <1>6 DEF Load!reset_metrics
    <3> QED BY <1>1, <1>2, <3>1, ServedCounted DEF LoadInv, Charged, Sidelined
  <2> QED BY <2>1, <2>2 DEF LoadInv
<1>7. CASE UNCHANGED Load!vars
  BY <1>2, <1>7 DEF Load!vars, LoadInv, LoadTypes, Charged, Sidelined
<1> QED BY <1>3, <1>4, <1>5, <1>6, <1>7 DEF Load!check_instance_health, Load!mark_available, Load!record

(* A request selects its endpoint; no count follows yet.                    *)
LEMMA RequestSelects ==
  ASSUME LoadNames, LoadInv, NEW r \in Requests, NEW choices \in SUBSET Instances,
         NEW next \in {"selected", "running"}, next = "selected" => kind # "models",
         Load!Selects(r, choices, next)
  PROVE  LoadInv'
<1>1. /\ at[r] = "new" /\ UNCHANGED <<kind, present, available, connections, total, failed>>
      /\ \/ at' = [at EXCEPT ![r] = "done"] /\ on' = on
         \/ at' = [at EXCEPT ![r] = next] /\ \E i \in choices : on' = [on EXCEPT ![r] = i]
  BY DEF Load!Selects, Load!record
<1>2. LoadTypes'
  BY <1>1 DEF LoadInv, LoadTypes
<1>3. ASSUME NEW i \in Instances PROVE Charged(i)' /\ Sidelined(i)'
  <2>1. /\ Running(i) \subseteq Running(i)' /\ Ended(i) \subseteq Ended(i)'
    BY <1>1 DEF LoadInv, LoadTypes, Running, Ended
  <2>2. /\ Running(i)' \subseteq Requests /\ Ended(i)' \subseteq Requests
        /\ Running(i) \subseteq Requests /\ Ended(i) \subseteq Requests
        /\ Served(i) \subseteq Requests /\ Served(i)' \subseteq Requests
        /\ Served(i) \subseteq Served(i)'
    BY <2>1 DEF Running, Ended, Served
  <2>3. /\ Cardinality(Running(i)) <= Cardinality(Running(i)')
        /\ Cardinality(Ended(i)) <= Cardinality(Ended(i)')
        /\ Cardinality(Served(i)) <= Cardinality(Served(i)')
        /\ Cardinality(Running(i)') \in Nat /\ Cardinality(Ended(i)') \in Nat
        /\ Cardinality(Served(i)') \in Nat
    BY <2>1, <2>2, Counted DEF LoadNames
  <2>4. /\ connections[i] \in Nat /\ total[i] \in Nat /\ failed[i] \in Nat
        /\ Charged(i) /\ Sidelined(i)
    BY DEF LoadInv, LoadTypes
  <2>5. Sidelined(i)'
    BY <1>1, <2>4 DEF Sidelined
  <2>6. Charged(i)'
    BY <1>1, <2>3, <2>4, ServedCounted DEF Charged
  <2> QED BY <2>5, <2>6
<1> QED BY <1>2, <1>3 DEF LoadInv

(* How the sets follow a request that goes on, where it is and elsewhere.   *)
LEMMA ServedFollows ==
  ASSUME LoadNames, LoadTypes, NEW r \in Requests, on' = on, NEW i \in Instances,
         NEW next \in {"running", "done"}, at' = [at EXCEPT ![r] = next],
         \/ at[r] = "selected" /\ next = "running"
         \/ at[r] = "running" /\ next = "done"
  PROVE  /\ Cardinality(Running(i)') \in Nat /\ Cardinality(Ended(i)') \in Nat
         /\ Cardinality(Served(i)') \in Nat /\ Cardinality(Ended(i)') <= Cardinality(Served(i)')
         /\ Cardinality(Served(i)) <= Cardinality(Served(i)')
         /\ Cardinality(Ended(i)) <= Cardinality(Ended(i)')
         /\ i # on[r] \/ next = "running" => Cardinality(Running(i)) <= Cardinality(Running(i)')
         /\ next = "running" /\ i = on[r] =>
              /\ Cardinality(Running(i)) + 1 <= Cardinality(Running(i)')
              /\ Cardinality(Served(i)) + 1 <= Cardinality(Served(i)')
         /\ next = "done" /\ i = on[r] =>
              /\ Cardinality(Running(i)) - 1 <= Cardinality(Running(i)')
              /\ Cardinality(Ended(i)) + 1 <= Cardinality(Ended(i)')
<1>1. at'[r] = next /\ \A u \in Requests : u # r => at'[u] = at[u]
  BY DEF LoadTypes
<1>2. /\ Running(i) \subseteq Requests /\ Ended(i) \subseteq Requests /\ Served(i) \subseteq Requests
      /\ Running(i)' \subseteq Requests /\ Ended(i)' \subseteq Requests /\ Served(i)' \subseteq Requests
  BY DEF Running, Ended, Served
<1>3. /\ Ended(i) \subseteq Ended(i)' /\ Served(i) \subseteq Served(i)' /\ Ended(i)' \subseteq Served(i)'
      /\ i # on[r] \/ next = "running" => Running(i) \subseteq Running(i)'
      /\ Running(i) \subseteq Running(i)' \cup {r}
  BY <1>1 DEF Running, Ended, Served
<1>4. /\ next = "running" /\ i = on[r] =>
           r \notin Running(i) /\ r \notin Served(i) /\ r \in Running(i)' /\ r \in Served(i)'
      /\ next = "done" /\ i = on[r] => r \notin Ended(i) /\ r \in Ended(i)'
  BY <1>1 DEF Running, Ended, Served
<1>5. IsFiniteSet(Requests)
  BY DEF LoadNames
<1>6. /\ Cardinality(Running(i)') \in Nat
      /\ i # on[r] \/ next = "running" => Cardinality(Running(i)) <= Cardinality(Running(i)')
      /\ next = "running" /\ i = on[r] => Cardinality(Running(i)) + 1 <= Cardinality(Running(i)')
      /\ Cardinality(Running(i)) - 1 <= Cardinality(Running(i)')
  BY <1>2, <1>3, <1>4, <1>5, Counted
<1>7. /\ Cardinality(Ended(i)') \in Nat /\ Cardinality(Ended(i)) <= Cardinality(Ended(i)')
      /\ next = "done" /\ i = on[r] => Cardinality(Ended(i)) + 1 <= Cardinality(Ended(i)')
  BY <1>2, <1>3, <1>4, <1>5, Counted
<1>8. /\ Cardinality(Served(i)') \in Nat /\ Cardinality(Ended(i)') <= Cardinality(Served(i)')
      /\ Cardinality(Served(i)) <= Cardinality(Served(i)')
      /\ next = "running" /\ i = on[r] => Cardinality(Served(i)) + 1 <= Cardinality(Served(i)')
  BY <1>2, <1>3, <1>4, <1>5, Counted
<1> QED BY <1>6, <1>7, <1>8

LEMMA RequestStarts ==
  ASSUME LoadNames, LoadInv, NEW r \in Requests, Load!mark_request_start(r)
  PROVE  LoadInv'
<1> DEFINE i == on[r]
<1>1. /\ at[r] = "selected" /\ at' = [at EXCEPT ![r] = "running"] /\ i \in Instances /\ kind # "models"
      /\ UNCHANGED <<kind, present, available, failed, on>>
      /\ IF i \in present
           THEN connections' = [connections EXCEPT ![i] = @ + 1] /\ total' = [total EXCEPT ![i] = @ + 1]
           ELSE UNCHANGED <<connections, total>>
  BY DEF LoadInv, LoadTypes, Load!mark_request_start
<1>2. LoadTypes'
  BY <1>1 DEF LoadInv, LoadTypes
<1>3. ASSUME NEW k \in Instances PROVE Charged(k)' /\ Sidelined(k)'
  <2>1. /\ Charged(k) /\ Sidelined(k) /\ connections[k] \in Nat /\ total[k] \in Nat /\ failed[k] \in Nat
        /\ Cardinality(Running(k)) \in Nat /\ Cardinality(Ended(k)) \in Nat /\ Cardinality(Served(k)) \in Nat
    BY ServedCounted DEF LoadInv, LoadTypes
  <2>2. /\ Cardinality(Running(k)') \in Nat /\ Cardinality(Ended(k)') \in Nat
        /\ Cardinality(Served(k)') \in Nat
        /\ Cardinality(Served(k)) <= Cardinality(Served(k)')
        /\ Cardinality(Ended(k)) <= Cardinality(Ended(k)')
        /\ Cardinality(Running(k)) <= Cardinality(Running(k)')
        /\ k = i => /\ Cardinality(Running(k)) + 1 <= Cardinality(Running(k)')
                    /\ Cardinality(Served(k)) + 1 <= Cardinality(Served(k)')
    BY <1>1, ServedFollows DEF LoadInv
  <2>3. CASE k = i /\ i \in present
    <3>1. connections'[k] = connections[k] + 1 /\ total'[k] = total[k] + 1
      BY <1>1, <2>3 DEF LoadInv, LoadTypes
    <3> HIDE DEF i
    <3>2. Charged(k)'
      BY <1>1, <2>1, <2>2, <2>3, <3>1 DEF Charged
    <3>3. Sidelined(k)'
      BY <1>1, <2>1, <3>1 DEF Sidelined, LoadNames
    <3> QED BY <3>2, <3>3
  <2>4. CASE ~(k = i /\ i \in present)
    <3>1. connections'[k] = connections[k] /\ total'[k] = total[k]
      BY <1>1, <2>4 DEF LoadInv, LoadTypes
    <3> HIDE DEF i
    <3>2. Charged(k)'
      BY <1>1, <2>1, <2>2, <3>1 DEF Charged
    <3>3. Sidelined(k)'
      BY <1>1, <2>1, <3>1 DEF Sidelined
    <3> QED BY <3>2, <3>3
  <2> QED BY <2>3, <2>4
<1> QED BY <1>2, <1>3 DEF LoadInv

(* A score below a fifth takes three failures of seven, slow and full as    *)
(* the instance may be.                                                     *)
LEMMA LowScore ==
  ASSUME LoadNames, NEW i \in Instances, total[i] \in Nat, NEW fails \in Nat, NEW busy \in Nat,
         NEW speed \in {10, 8, 5}, Load!_update_health_score(i, fails, busy, speed)
  PROVE  total[i] > Many /\ 7 * fails > 3 * (Many + 1)
<1> DEFINE t == total[i]
           sat == Load!Saturation(busy)
<1>1. sat = 7 \/ sat = 9 \/ sat = 10
  BY DEF Load!Saturation
<1>2. t \in Nat /\ t > Many /\ (t - fails) * speed * sat < 20 * t
  BY DEF Load!_update_health_score
<1> HIDE DEF t, sat
<1>3. \A x \in {35, 40, 45, 49, 50, 56, 63, 70, 72, 80, 90, 100} :
        (t - fails) * x < 20 * t => 7 * fails > 3 * (Many + 1)
  BY <1>2 DEF LoadNames
<1>4. speed * sat \in {35, 40, 45, 49, 50, 56, 63, 70, 72, 80, 90, 100}
  BY <1>1
<1>5. (t - fails) * speed * sat = (t - fails) * (speed * sat)
  BY <1>1, <1>2
<1>6. t > Many /\ 7 * fails > 3 * (Many + 1)
  BY <1>2, <1>3, <1>4, <1>5
<1> QED BY <1>6 DEF t

(* The result of a request: its endpoint's record becomes c, t and f, and a *)
(* says whether it stays available.                                         *)
EndsWith(r, i, c, t, f, a) ==
  /\ i = on[r] /\ at[r] = "running" /\ at' = [at EXCEPT ![r] = "done"] /\ UNCHANGED <<kind, present, on>>
  /\ connections' = [connections EXCEPT ![i] = c] /\ total' = [total EXCEPT ![i] = t]
  /\ failed' = [failed EXCEPT ![i] = f] /\ available' = [available EXCEPT ![i] = a]
  /\ c <= connections[i] /\ f <= failed[i] + 1
  /\ i \in present => c = connections[i] - 1 \/ c = 0
  /\ kind # "models" => t = total[i]
  /\ kind = "models" => c = connections[i] /\ t <= total[i] + 1
  /\ i \in present \ Weak /\ ~a =>
       /\ t > Many
       /\ IF kind = "models" THEN 2 * f > Many + 1 ELSE 7 * f > 3 * (Many + 1)

LEMMA OneEnds ==
  ASSUME LoadNames, LoadInv, NEW r \in Requests, NEW i \in Instances,
         NEW c \in Nat, NEW t \in Nat, NEW f \in Nat, NEW a \in BOOLEAN, EndsWith(r, i, c, t, f, a)
  PROVE  LoadInv'
<1>1. /\ i = on[r] /\ at[r] = "running" /\ at' = [at EXCEPT ![r] = "done"]
      /\ UNCHANGED <<kind, present, on>>
      /\ connections' = [connections EXCEPT ![i] = c] /\ total' = [total EXCEPT ![i] = t]
      /\ failed' = [failed EXCEPT ![i] = f] /\ available' = [available EXCEPT ![i] = a]
  BY DEF EndsWith
<1>2. /\ connections \in [Instances -> Nat] /\ total \in [Instances -> Nat] /\ failed \in [Instances -> Nat]
      /\ available \in [Instances -> BOOLEAN] /\ Charged(i) /\ Sidelined(i)
  BY <1>1 DEF LoadInv, LoadTypes
<1>3. LoadTypes'
  BY <1>1 DEF LoadInv, LoadTypes
<1>4. ASSUME NEW k \in Instances PROVE Charged(k)' /\ Sidelined(k)'
  <2>1. /\ Charged(k) /\ Sidelined(k) /\ connections[k] \in Nat /\ total[k] \in Nat /\ failed[k] \in Nat
        /\ Cardinality(Running(k)) \in Nat /\ Cardinality(Ended(k)) \in Nat /\ Cardinality(Served(k)) \in Nat
    BY ServedCounted DEF LoadInv, LoadTypes
  <2>2. /\ Cardinality(Running(k)') \in Nat /\ Cardinality(Ended(k)') \in Nat
        /\ Cardinality(Served(k)') \in Nat
        /\ Cardinality(Served(k)) <= Cardinality(Served(k)')
        /\ Cardinality(Ended(k)) <= Cardinality(Ended(k)')
        /\ k # i => Cardinality(Running(k)) <= Cardinality(Running(k)')
        /\ k = i => /\ Cardinality(Running(k)) - 1 <= Cardinality(Running(k)')
                    /\ Cardinality(Ended(k)) + 1 <= Cardinality(Ended(k)')
    BY <1>1, ServedFollows DEF LoadInv
  <2>5. Cardinality(Ended(k)') <= Cardinality(Served(k)')
    BY <1>1, ServedFollows DEF LoadInv
  <2>3. CASE k = i
    <3>1. connections'[k] = c /\ total'[k] = t /\ failed'[k] = f /\ available'[k] = a
      BY <1>1, <1>2, <2>3
    <3>2. Sidelined(k)'
      BY <1>1, <2>3, <3>1 DEF Sidelined, EndsWith
    <3>3. /\ c <= connections[k] /\ f <= failed[k] + 1
          /\ k \in present => c = connections[k] - 1 \/ c = 0
          /\ kind # "models" => t = total[k]
          /\ kind = "models" => c = connections[k] /\ t <= total[k] + 1
      BY <2>3 DEF EndsWith
    <3>4. k = i => /\ Cardinality(Ended(k)) + 1 <= Cardinality(Ended(k)')
                   /\ Cardinality(Running(k)) - 1 <= Cardinality(Running(k)')
      BY <2>2
    <3>5. Charged(k)'
      BY <1>1, <2>1, <2>2, <2>3, <2>5, <3>1, <3>3, <3>4 DEF Charged
    <3> QED BY <3>2, <3>5
  <2>4. CASE k # i
    <3>1. connections'[k] = connections[k] /\ total'[k] = total[k] /\ failed'[k] = failed[k]
          /\ available'[k] = available[k]
      BY <1>1, <1>2, <2>4
    <3>2. Charged(k)'
      BY <1>1, <2>1, <2>2, <2>4, <3>1 DEF Charged
    <3>3. Sidelined(k)'
      BY <1>1, <2>1, <3>1 DEF Sidelined
    <3> QED BY <3>2, <3>3
  <2> QED BY <2>3, <2>4
<1> QED BY <1>3, <1>4 DEF LoadInv

LEMMA RequestEnds ==
  ASSUME LoadNames, LoadInv, NEW r \in Requests,
         Load!mark_request_end(r) \/ Load!record_success(r) \/ Load!record_failure(r)
  PROVE  LoadInv'
<1> DEFINE i == on[r]
<1>1. /\ i = on[r] /\ at[r] = "running" /\ at' = [at EXCEPT ![r] = "done"] /\ i \in Instances
      /\ UNCHANGED <<kind, present, on>>
  BY DEF LoadInv, LoadTypes, Load!mark_request_end, Load!record_success, Load!record_failure
<1>2. /\ connections \in [Instances -> Nat] /\ total \in [Instances -> Nat] /\ failed \in [Instances -> Nat]
      /\ available \in [Instances -> BOOLEAN] /\ Charged(i) /\ Sidelined(i)
  BY <1>1 DEF LoadInv, LoadTypes
<1>3. LoadInv'
  <2>1. /\ connections[i] \in Nat /\ total[i] \in Nat /\ failed[i] \in Nat /\ available[i] \in BOOLEAN
        /\ connections = [connections EXCEPT ![i] = connections[i]] /\ total = [total EXCEPT ![i] = total[i]]
        /\ failed = [failed EXCEPT ![i] = failed[i]] /\ available = [available EXCEPT ![i] = available[i]]
    BY <1>1, <1>2
  <2>2. CASE Load!mark_request_end(r) /\ i \notin present
    <3>1. kind # "models" /\ UNCHANGED <<connections, total, failed, available>>
      BY <2>2 DEF Load!mark_request_end
    <3>2. EndsWith(r, i, connections[i], total[i], failed[i], available[i])
      BY <1>1, <1>2, <2>1, <2>2, <3>1 DEF EndsWith
    <3> QED BY <1>1, <2>1, <3>2, OneEnds
  <2>3. CASE Load!mark_request_end(r) /\ i \in present
    <3>1. kind # "models" /\ total' = total
      BY <2>3 DEF Load!mark_request_end
    <3>2. PICK success \in BOOLEAN, speed \in {10, 8, 5} :
            LET fails == failed[i] + (IF success THEN 0 ELSE 1)
                busy == IF connections[i] = 0 THEN 0 ELSE connections[i] - 1 IN
              /\ connections' = [connections EXCEPT ![i] = busy]
              /\ failed' = [failed EXCEPT ![i] = fails]
              /\ available' = [available EXCEPT ![i] = @ /\ ~Load!_update_health_score(i, fails, busy, speed)]
      BY <2>3 DEF Load!mark_request_end
    <3> DEFINE fails == failed[i] + (IF success THEN 0 ELSE 1)
               busy == IF connections[i] = 0 THEN 0 ELSE connections[i] - 1
               a == available[i] /\ ~Load!_update_health_score(i, fails, busy, speed)
    <3>3. fails \in Nat /\ busy \in Nat /\ fails <= failed[i] + 1 /\ failed[i] <= fails /\ busy <= connections[i]
          /\ (busy = connections[i] - 1 \/ busy = 0) /\ a \in BOOLEAN
      BY <2>1
    <3>4. /\ connections' = [connections EXCEPT ![i] = busy] /\ failed' = [failed EXCEPT ![i] = fails]
          /\ available' = [available EXCEPT ![i] = a]
      BY <3>2
    <3>5. ASSUME i \in present \ Weak, ~a
          PROVE  total[i] > Many /\ 7 * fails > 3 * (Many + 1)
      <4>1. CASE ~available[i]
        <5>1. total[i] > Many /\ 7 * failed[i] > 3 * (Many + 1)
          BY <1>2, <3>1, <3>5, <4>1 DEF Sidelined
        <5> HIDE DEF fails, i
        <5> QED BY <2>1, <3>3, <5>1 DEF LoadNames
      <4>2. CASE Load!_update_health_score(i, fails, busy, speed)
        <5> HIDE DEF fails, busy
        <5> QED BY <1>1, <2>1, <3>3, <4>2, LowScore
      <4> QED BY <3>5, <4>1, <4>2
    <3> HIDE DEF fails, busy, a, i
    <3>6. a => available[i]
      BY DEF a
    <3>7. EndsWith(r, i, busy, total[i], fails, a)
      BY <1>1, <2>1, <2>3, <3>1, <3>3, <3>4, <3>5 DEF EndsWith
    <3> QED BY <1>1, <2>1, <3>3, <3>7, OneEnds
  <2>4. CASE Load!record_success(r)
    <3>1. /\ kind = "models" /\ total' = [total EXCEPT ![i] = total[i] + 1]
          /\ UNCHANGED <<available, connections, failed>>
      BY <2>4 DEF Load!record_success
    <3>2. connections[i] = 0 /\ (i \in present \ Weak /\ ~available[i] =>
                                   total[i] > Many /\ 2 * failed[i] > Many + 1)
      BY <1>2, <3>1 DEF Charged, Sidelined
    <3> HIDE DEF i
    <3>3. total[i] + 1 \in Nat /\ (total[i] > Many => total[i] + 1 > Many)
      BY <2>1 DEF LoadNames
    <3>4. EndsWith(r, i, connections[i], total[i] + 1, failed[i], available[i])
      BY <1>1, <2>1, <3>1, <3>2, <3>3 DEF EndsWith
    <3> QED BY <1>1, <2>1, <3>3, <3>4, OneEnds
  <2>5. CASE Load!record_failure(r)
    <3> DEFINE a == available[i] /\ ~(2 * (total[i] - failed[i]) < total[i] + 1 /\ total[i] + 1 > Many)
    <3>1. /\ kind = "models" /\ total' = [total EXCEPT ![i] = total[i] + 1]
          /\ failed' = [failed EXCEPT ![i] = failed[i] + 1] /\ connections' = connections
          /\ available' = [available EXCEPT ![i] = a]
      BY <2>5 DEF Load!record_failure
    <3>2. connections[i] = 0 /\ (i \in present \ Weak /\ ~available[i] =>
                                   total[i] > Many /\ 2 * failed[i] > Many + 1)
      BY <1>2, <3>1 DEF Charged, Sidelined
    <3>3. ~a => ~available[i] \/ (2 * (total[i] - failed[i]) < total[i] + 1 /\ total[i] + 1 > Many)
      OBVIOUS
    <3>4. a \in BOOLEAN /\ (a => available[i])
      OBVIOUS
    <3> HIDE DEF i, a
    <3>5. total[i] + 1 \in Nat /\ failed[i] + 1 \in Nat
      BY <2>1
    <3>6. i \in present \ Weak /\ ~a => total[i] + 1 > Many /\ 2 * (failed[i] + 1) > Many + 1
      BY <2>1, <3>2, <3>3 DEF LoadNames
    <3>7. EndsWith(r, i, connections[i], total[i] + 1, failed[i] + 1, a)
      BY <1>1, <2>1, <3>1, <3>2, <3>4, <3>5, <3>6 DEF EndsWith
    <3> QED BY <1>1, <2>1, <3>4, <3>5, <3>7, OneEnds
  <2> QED BY <2>2, <2>3, <2>4, <2>5
<1> QED BY <1>3

(* orchestration/load_balancer.py, orchestrator/router.py: no endpoint is   *)
(* charged for more requests than run on it, and where no check and no      *)
(* operator steps in, one is taken out only for failures enough of it -     *)
(* whatever is added, removed and ended late meanwhile.                     *)
THEOREM LoadIsTrue ==
  ASSUME LoadNames
  PROVE  Load!Spec => [](Load!TypeOK /\ Load!NoLoadLeftBehind /\ Load!SidelinedForCause)
<1>1. Load!Init => LoadInv
  <2> SUFFICES ASSUME Load!Init PROVE LoadInv
    OBVIOUS
  <2>1. LoadTypes
    BY DEF Load!Init, LoadTypes
  <2>2. \A i \in Instances : connections[i] = 0 /\ total[i] = 0 /\ failed[i] = 0 /\ available[i]
    BY DEF Load!Init
  <2>3. \A i \in Instances : Charged(i) /\ Sidelined(i)
    BY <2>2, ServedCounted DEF Charged, Sidelined
  <2> QED BY <2>1, <2>3 DEF LoadInv
<1>2. LoadInv /\ [Load!Next]_Load!vars => LoadInv'
  <2> SUFFICES ASSUME LoadInv, [Load!Next]_Load!vars PROVE LoadInv'
    OBVIOUS
  <2>1. ASSUME NEW r \in Requests, Load!select_instance(r) PROVE LoadInv'
    <3> DEFINE choices == IF Load!Candidates = {} THEN {} ELSE Load!Choices
    <3>1. kind # "models" /\ Load!Selects(r, choices, "selected")
      BY <2>1 DEF Load!select_instance
    <3>2. choices \in SUBSET Instances
      BY DEF LoadInv, LoadTypes, Load!Candidates, Load!Choices
    <3> HIDE DEF choices
    <3> QED BY <3>1, <3>2, RequestSelects
  <2>2. ASSUME NEW r \in Requests, NEW excluded \in SUBSET Instances, Load!select_model(r, excluded)
        PROVE  LoadInv'
    <3> DEFINE choices == {i \in Instances : available[i]} \ excluded
    <3>1. Load!Selects(r, choices, "running") /\ choices \in SUBSET Instances
      BY <2>2 DEF Load!select_model
    <3> HIDE DEF choices
    <3> QED BY <3>1, RequestSelects
  <2> QED BY <2>1, <2>2, EndpointMoves, RequestStarts, RequestEnds DEF Load!Next
<1>3. LoadInv => Load!TypeOK /\ Load!NoLoadLeftBehind /\ Load!SidelinedForCause
  <2> SUFFICES ASSUME LoadInv
               PROVE  Load!TypeOK /\ Load!NoLoadLeftBehind /\ Load!SidelinedForCause
    OBVIOUS
  <2>1. \A S : Load!Cardinality(S) = Cardinality(S)
    BY DEF Load!Cardinality, Cardinality
  <2>2. Cardinality(Requests) \in Nat
    BY FS_CardinalityType DEF LoadNames
  <2>3. \A i \in Instances : /\ connections[i] \in 0..Cardinality(Requests)
                             /\ total[i] \in 0..Cardinality(Requests)
                             /\ failed[i] \in 0..Cardinality(Requests)
    <3> SUFFICES ASSUME NEW i \in Instances
                 PROVE  /\ connections[i] \in 0..Cardinality(Requests)
                        /\ total[i] \in 0..Cardinality(Requests)
                        /\ failed[i] \in 0..Cardinality(Requests)
      OBVIOUS
    <3>1. Charged(i) /\ connections[i] \in Nat /\ total[i] \in Nat /\ failed[i] \in Nat
      BY DEF LoadInv, LoadTypes
    <3>2. /\ Cardinality(Served(i)) \in Nat /\ Cardinality(Ended(i)) \in Nat
          /\ Cardinality(Ended(i)) <= Cardinality(Served(i))
          /\ Cardinality(Served(i)) <= Cardinality(Requests)
      BY ServedCounted
    <3> QED BY <2>2, <3>1, <3>2 DEF Charged
  <2>4. Load!TypeOK
    BY <2>1, <2>3 DEF LoadInv, LoadTypes, Load!TypeOK
  <2>5. Load!NoLoadLeftBehind
    BY <2>1 DEF LoadInv, LoadTypes, Charged, Running, Load!NoLoadLeftBehind
  <2>6. Load!SidelinedForCause
    BY DEF LoadInv, LoadTypes, Sidelined, Load!SidelinedForCause
  <2> QED BY <2>4, <2>5, <2>6
<1> QED BY <1>1, <1>2, <1>3, PTL DEF Load!Spec

-----------------------------------------------------------------------------
Breakers == [state : {"closed", "open", "half_open"}, failures : 0..Threshold, since : 0..Recovery + 1]
FallbackNames ==
  /\ Chain \in Seq(Models) /\ MaxAttempts \in Nat /\ Threshold \in Nat \ {0} /\ Recovery \in Nat

(* A breaker that is not closed has failed as often as it takes. *)
Tripped(bs) == /\ bs \in [Models -> Breakers]
               /\ \A m \in Models : bs[m].state # "closed" => bs[m].failures = Threshold
FallbackInv ==
  /\ Tripped(breaker)
  /\ at \in [Requests -> {"idle", "waiting", "asking"}] /\ pos \in [Requests -> 0..Len(Chain)]
  /\ \A r \in Requests : at[r] # "idle" => pos[r] # 0
  /\ skipped \subseteq Models /\ Fallback!SkippedForCause

(* A set of numbers that is not empty has a least one.                      *)
LEMMA LeastOfThem ==
  ASSUME NEW S \in SUBSET Nat, S # {}
  PROVE  /\ (CHOOSE j \in S : \A k \in S : j <= k) \in S
         /\ \A k \in S : (CHOOSE j \in S : \A l \in S : j <= l) <= k
<1>1. PICK j \in S : \A k \in S : <<k, j>> \notin OpToRel(<, Nat)
  BY WFMin, NatLessThanWellFounded, Zenon
<1>2. ASSUME NEW k \in S PROVE ~(k < j)
  BY <1>1, <1>2, Zenon DEF OpToRel
<1>3. \A k \in S : j <= k
  BY <1>2
<1> QED BY <1>3

(* What a breaker becomes when it is asked, and when it is told of a        *)
(* failure.                                                                 *)
LEMMA BreakerMoves ==
  ASSUME FallbackNames, NEW b \in Breakers, b.state # "closed" => b.failures = Threshold
  PROVE  /\ Fallback!Asked(b) \in Breakers /\ Fallback!record_failure(b) \in Breakers
         /\ Fallback!Asked(b).state # "closed" => Fallback!Asked(b).failures = Threshold
         /\ Fallback!record_failure(b).state # "closed" => Fallback!record_failure(b).failures = Threshold
         /\ ~Fallback!is_closed(b) => /\ Fallback!Asked(b) = b /\ b.state = "open"
                                      /\ b.failures = Threshold /\ b.since <= Recovery
<1>1. /\ b.state \in {"closed", "open", "half_open"} /\ b.failures \in 0..Threshold
      /\ b.since \in 0..Recovery + 1
  BY DEF Breakers
<1>2. /\ Fallback!Asked(b) \in Breakers
      /\ Fallback!Asked(b).state # "closed" => Fallback!Asked(b).failures = Threshold
  BY <1>1 DEF Fallback!Asked, Fallback!Waited, Breakers
<1> DEFINE n == Fallback!Least(b.failures + 1, Threshold)
<1>3. n \in 0..Threshold /\ (b.failures = Threshold => n = Threshold) /\ (n >= Threshold => n = Threshold)
  BY <1>1 DEF FallbackNames, Fallback!Least
<1> DEFINE s == IF n >= Threshold \/ b.state = "half_open" THEN "open" ELSE b.state
<1>4. s \in {"closed", "open", "half_open"} /\ (s # "closed" => n = Threshold)
  BY <1>1, <1>3
<1>5. Fallback!record_failure(b) = [state |-> s, failures |-> n, since |-> 0]
  BY DEF Fallback!record_failure
<1> HIDE DEF n, s
<1>6. [state |-> s, failures |-> n, since |-> 0] \in Breakers
  BY <1>3, <1>4 DEF Breakers, FallbackNames
<1>7. ~Fallback!is_closed(b) => /\ Fallback!Asked(b) = b /\ b.state = "open"
                                /\ b.failures = Threshold /\ b.since <= Recovery
  BY <1>1 DEF Fallback!is_closed, Fallback!Waited, Fallback!Asked, FallbackNames
<1> QED BY <1>2, <1>4, <1>5, <1>6, <1>7

(* A walk skips the models before the one it stops at, whose breakers have  *)
(* not waited long enough, and asking them changes nothing.                 *)
LEMMA ChainIsWalked ==
  ASSUME FallbackNames, FallbackInv, NEW r \in Requests, NEW bs, Tripped(bs), NEW i \in Nat \ {0},
         Fallback!Walk(r, bs, i)
  PROVE  FallbackInv'
<1> DEFINE S == Fallback!Stops(bs, i)
           L == Fallback!Limit
           stop == IF S = {} THEN L + 1 ELSE CHOOSE j \in S : \A k \in S : j <= k
           seen == {Chain[j] : j \in i..Fallback!Least(stop, L)}
<1>1. /\ breaker' = [m \in Models |-> IF m \in seen THEN Fallback!Asked(bs[m]) ELSE bs[m]]
      /\ skipped' = {Chain[j] : j \in i..(stop - 1)}
      /\ pos' = [pos EXCEPT ![r] = IF S = {} THEN 0 ELSE stop]
      /\ at' = [at EXCEPT ![r] = IF S = {} THEN "idle" ELSE IF stop = 1 THEN "asking" ELSE "waiting"]
  BY DEF Fallback!Walk
<1>2. L \in 0..Len(Chain) /\ Len(Chain) \in Nat
  BY DEF FallbackNames, Fallback!Limit, Fallback!Least
<1>3. S = {j \in i..L : Fallback!is_closed(bs[Chain[j]])}
  BY DEF Fallback!Stops
<1> HIDE DEF L, S
<1>4. /\ S # {} => stop \in S /\ \A k \in S : stop <= k
      /\ S = {} => stop = L + 1
  <2>1. S \in SUBSET Nat
    BY <1>2, <1>3
  <2> QED BY <2>1, LeastOfThem
<1> HIDE DEF stop
<1>5. stop \in Nat /\ (S # {} => stop \in 1..L)
  BY <1>2, <1>3, <1>4
<1>6. \A j \in 1..L : Chain[j] \in Models
  BY <1>2 DEF FallbackNames
<1>7. ASSUME NEW j \in i..(stop - 1)
      PROVE  j \in 1..L /\ Chain[j] \in Models /\ ~Fallback!is_closed(bs[Chain[j]]) /\ Chain[j] \in seen
  <2>1. j \in i..L /\ j \notin S
    BY <1>2, <1>3, <1>4, <1>5
  <2>2. j \in i..Fallback!Least(stop, L)
    BY <1>2, <1>5, <2>1 DEF Fallback!Least
  <2> QED BY <1>2, <1>3, <1>6, <2>1, <2>2
<1> HIDE DEF seen
<1>8. Tripped(breaker)'
  <2>1. \A m \in Models : /\ bs[m] \in Breakers /\ (bs[m].state # "closed" => bs[m].failures = Threshold)
    BY DEF Tripped
  <2>2. \A m \in Models : breaker'[m] = bs[m] \/ breaker'[m] = Fallback!Asked(bs[m])
    BY <1>1
  <2>3. \A m \in Models : /\ breaker'[m] \in Breakers
                          /\ breaker'[m].state # "closed" => breaker'[m].failures = Threshold
    BY <2>1, <2>2, BreakerMoves
  <2>4. breaker' = [m \in Models |-> breaker'[m]]
    BY <1>1
  <2> QED BY <2>3, <2>4 DEF Tripped
<1>9. skipped' \subseteq Models /\ Fallback!SkippedForCause'
  <2>1. ASSUME NEW m \in skipped'
        PROVE  m \in Models /\ breaker'[m].failures = Threshold /\ breaker'[m].since <= Recovery
    <3>1. PICK j \in i..(stop - 1) : m = Chain[j]
      BY <1>1
    <3>2. m \in Models /\ ~Fallback!is_closed(bs[m]) /\ m \in seen
      BY <1>7, <3>1
    <3>3. bs[m] \in Breakers /\ (bs[m].state # "closed" => bs[m].failures = Threshold)
      BY <3>2 DEF Tripped
    <3>4. breaker'[m] = Fallback!Asked(bs[m])
      BY <1>1, <3>2
    <3> QED BY <3>2, <3>3, <3>4, BreakerMoves
  <2> QED BY <2>1 DEF Fallback!SkippedForCause
<1>10. /\ at' \in [Requests -> {"idle", "waiting", "asking"}] /\ pos' \in [Requests -> 0..Len(Chain)]
       /\ \A q \in Requests : at'[q] # "idle" => pos'[q] # 0
  BY <1>1, <1>2, <1>5 DEF FallbackInv
<1> QED BY <1>8, <1>9, <1>10 DEF FallbackInv

(* orchestration/fallback_manager.py: a model is skipped only after as many *)
(* failures as the threshold, the last of them within the recovery period.  *)
THEOREM ModelsAreSkippedForCause ==
  ASSUME FallbackNames
  PROVE  Fallback!Spec => [](Fallback!TypeOK /\ Fallback!SkippedForCause)
<1>1. Fallback!Init => FallbackInv
  <2> SUFFICES ASSUME Fallback!Init PROVE FallbackInv
    OBVIOUS
  <2>1. Fallback!NewBreaker \in Breakers /\ Fallback!NewBreaker.state = "closed"
    BY DEF FallbackNames, Fallback!NewBreaker, Breakers
  <2>2. Len(Chain) \in Nat
    BY DEF FallbackNames
  <2> QED BY <2>1, <2>2 DEF Fallback!Init, FallbackInv, Tripped, Fallback!SkippedForCause
<1>2. FallbackInv /\ [Fallback!Next]_Fallback!vars => FallbackInv'
  <2> SUFFICES ASSUME FallbackInv, [Fallback!Next]_Fallback!vars PROVE FallbackInv'
    OBVIOUS
  <2>1. \A m \in Models : breaker[m] \in Breakers /\ (breaker[m].state # "closed" => breaker[m].failures = Threshold)
    BY DEF FallbackInv, Tripped
  <2>2. ASSUME NEW r \in Requests, Fallback!execute_with_fallback(r) PROVE FallbackInv'
    <3>1. Tripped(breaker) /\ Fallback!Walk(r, breaker, 1)
      BY <2>2 DEF FallbackInv, Fallback!execute_with_fallback
    <3> QED BY <3>1, ChainIsWalked
  <2>3. ASSUME NEW r \in Requests, Fallback!Fails(r) PROVE FallbackInv'
    <3> DEFINE m == Chain[pos[r]]
               told == Fallback!record_failure(breaker[m])
               bs == [breaker EXCEPT ![m] = told]
    <3>1. at[r] = "asking" /\ Fallback!Walk(r, bs, pos[r] + 1)
      BY <2>3 DEF Fallback!Fails
    <3>2. pos[r] \in 1..Len(Chain) /\ Len(Chain) \in Nat
      BY <3>1 DEF FallbackInv, FallbackNames
    <3>3. m \in Models
      BY <3>2 DEF FallbackNames
    <3>4. told \in Breakers /\ (told.state # "closed" => told.failures = Threshold)
      BY <2>1, <3>3, BreakerMoves
    <3> HIDE DEF m, told
    <3>5. Tripped(bs)
      BY <3>3, <3>4 DEF FallbackInv, Tripped
    <3>6. pos[r] + 1 \in Nat \ {0}
      BY <3>2
    <3> HIDE DEF bs
    <3> QED BY <3>1, <3>5, <3>6, ChainIsWalked
  <2>4. ASSUME NEW r \in Requests, Fallback!Wake(r) \/ Fallback!Ends(r) PROVE FallbackInv'
    <3>1. Len(Chain) \in Nat
      BY DEF FallbackNames
    <3> QED BY <2>4, <3>1 DEF FallbackInv, Fallback!Wake, Fallback!Ends, Fallback!SkippedForCause
  <2>5. CASE Fallback!Survey \/ Fallback!Tick
    <3>1. skipped' = {} /\ UNCHANGED <<at, pos>> /\ breaker' = [m \in Models |-> breaker'[m]]
      BY <2>5 DEF Fallback!Survey, Fallback!Tick
    <3>2. ASSUME NEW m \in Models
          PROVE  breaker'[m] \in Breakers /\ (breaker'[m].state # "closed" => breaker'[m].failures = Threshold)
      <4>1. CASE Fallback!Survey
        BY <2>1, <4>1, BreakerMoves DEF Fallback!Survey
      <4>2. CASE Fallback!Tick
        <5> DEFINE n == Fallback!Least(breaker[m].since + 1, Recovery + 1)
                   older == [breaker[m] EXCEPT !.since = n]
        <5>1. n \in 0..Recovery + 1
          BY <2>1 DEF Breakers, FallbackNames, Fallback!Least
        <5>2. breaker'[m] = older
          BY <4>2 DEF Fallback!Tick
        <5> HIDE DEF n
        <5>3. older \in Breakers /\ older.state = breaker[m].state /\ older.failures = breaker[m].failures
          BY <2>1, <5>1 DEF Breakers
        <5> QED BY <2>1, <5>2, <5>3
      <4> QED BY <2>5, <4>1, <4>2
    <3> QED BY <3>1, <3>2 DEF FallbackInv, Tripped, Fallback!SkippedForCause
  <2>6. CASE UNCHANGED Fallback!vars
    BY <2>6 DEF Fallback!vars, FallbackInv, Fallback!SkippedForCause
  <2> QED BY <2>2, <2>3, <2>4, <2>5, <2>6 DEF Fallback!Next
<1>3. FallbackInv => Fallback!TypeOK /\ Fallback!SkippedForCause
  BY DEF FallbackInv, Tripped, Fallback!TypeOK, Breakers
<1> QED BY <1>1, <1>2, <1>3, PTL DEF Fallback!Spec

-----------------------------------------------------------------------------
FactoryNames == Attempts \in Nat \ {0} /\ Threshold \in Nat \ {0} /\ ResetTimeout \in Nat

InHand == {"direct", "primary", "waits", "secondary", "done"}
MadeFor == [shared : BOOLEAN, model : Asked \cup Factory!_select_cost_optimized_model \cup {None},
            by : Factory!Providers \cup {None}, primary : Factory!Providers, secondary : Factory!Providers]

(* How often the handler has asked its primary, of what is asked of it; and *)
(* whether both providers have been asked for all they are asked for.       *)
ByHandler(req, n) == n[req.primary] - (IF req.shared THEN 0 ELSE 1)
Other(p) == IF p = "openai" THEN "anthropic" ELSE "openai"
BothAsked(req, n) ==
  IF req.primary = req.secondary
    THEN ~req.shared /\ n[req.primary] = Attempts + 2 /\ n[Other(req.primary)] = 0
    ELSE /\ n[req.secondary] = 1
         /\ ByHandler(req, n) = Attempts \/ (req.shared /\ ByHandler(req, n) = 0)
Refused(req) == req.model \notin Factory!Supported \cup {None}

(* What is so of a request at each of its stages.                           *)
Asking(stage, req, n) ==
  /\ n \in [Factory!Providers -> Nat]
  /\ stage \in {"new", "given"} =>
       req = None /\ \A p \in Factory!Providers : n[p] = 0
  /\ stage \in InHand => req \in MadeFor /\ (req.shared => req.primary # req.secondary)
  /\ stage = "direct" => ~req.shared /\ n[req.primary] = 1 /\ n[Other(req.primary)] = 0
  /\ stage = "primary" => ByHandler(req, n) \in 1..Attempts /\ n[Other(req.primary)] = 0
  /\ stage = "waits" => ByHandler(req, n) \in 1..(Attempts - 1) /\ n[Other(req.primary)] = 0
  /\ stage = "secondary" => BothAsked(req, n)
  /\ stage = "done" =>
       /\ n["openai"] + n["anthropic"] <= Attempts + (IF req.shared THEN 1 ELSE 2)
       /\ req.by = req.primary \/ Refused(req) \/ BothAsked(req, n)
       /\ req.by # None /\ req.model # None => req.by = Factory!Vendor(req.model)

CircuitAgrees(c) ==
  /\ c \in [open : BOOLEAN, failures : Nat, age : 0..ResetTimeout + 1]
  /\ c.open <=> c.failures >= Threshold

FactoryInv ==
  /\ at \in [Requests -> InHand \cup {"new", "given"}]
  /\ request \in [Requests -> MadeFor \cup {None}]
  /\ asks \in [Requests -> [Factory!Providers -> Nat]]
  /\ CircuitAgrees(circuit)
  /\ \A r \in Requests : Asking(at[r], request[r], asks[r])

(* A step is one request's.                                                 *)
LEMMA RequestMoves ==
  ASSUME FactoryInv, NEW r \in Requests, NEW stage, NEW req, NEW n,
         stage \in InHand \cup {"new", "given"}, req \in MadeFor \cup {None},
         at' = [at EXCEPT ![r] = stage], request' = [request EXCEPT ![r] = req],
         asks' = [asks EXCEPT ![r] = n], Asking(stage, req, n), CircuitAgrees(circuit')
  PROVE  FactoryInv'
<1>1. n \in [Factory!Providers -> Nat]
  BY DEF Asking
<1>2. /\ at' \in [Requests -> InHand \cup {"new", "given"}]
      /\ request' \in [Requests -> MadeFor \cup {None}]
      /\ asks' \in [Requests -> [Factory!Providers -> Nat]]
  BY <1>1 DEF FactoryInv
<1>3. ASSUME NEW q \in Requests PROVE Asking(at'[q], request'[q], asks'[q])
  <2>1. CASE q = r
    BY <2>1 DEF FactoryInv
  <2>2. CASE q # r
    BY <2>2 DEF FactoryInv
  <2> QED BY <2>1, <2>2
<1> QED BY <1>2, <1>3 DEF FactoryInv

(* What is noted of the circuit keeps its count and its state together.     *)
LEMMA CircuitMoves ==
  ASSUME FactoryNames, FactoryInv, NEW r \in Requests,
         \/ UNCHANGED circuit \/ Factory!_is_circuit_open
         \/ Factory!_record_failure(r) \/ Factory!_reset_circuit(r)
  PROVE  CircuitAgrees(circuit')
<1> USE FactoryNames DEF FactoryNames
<1>1. CircuitAgrees(circuit)
  BY DEF FactoryInv
<1>2. CircuitAgrees(Factory!Closed)
  BY DEF Factory!Closed, CircuitAgrees
<1>3. ASSUME NEW more, more = [open |-> circuit.failures + 1 >= Threshold,
                               failures |-> circuit.failures + 1, age |-> 0]
      PROVE  CircuitAgrees(more)
  <2>1. circuit.failures \in Nat
    BY <1>1 DEF CircuitAgrees
  <2>2. CASE circuit.failures + 1 >= Threshold
    <3>1. more = [open |-> TRUE, failures |-> circuit.failures + 1, age |-> 0]
      BY <1>3, <2>2
    <3> QED BY <2>1, <2>2, <3>1 DEF CircuitAgrees
  <2>3. CASE ~(circuit.failures + 1 >= Threshold)
    <3>1. (circuit.failures + 1 >= Threshold) = FALSE
      BY <2>3
    <3>2. more = [open |-> FALSE, failures |-> circuit.failures + 1, age |-> 0]
      BY <1>3, <3>1, Zenon
    <3> QED BY <2>1, <2>3, <3>2 DEF CircuitAgrees
  <2> QED BY <2>2, <2>3
<1>4. CASE UNCHANGED circuit \/ Factory!_is_circuit_open \/ Factory!_reset_circuit(r)
  BY <1>1, <1>2, <1>4 DEF Factory!_is_circuit_open, Factory!_reset_circuit
<1>5. CASE Factory!_record_failure(r)
  BY <1>1, <1>3, <1>5 DEF Factory!_record_failure
<1> QED BY <1>4, <1>5

(* There are two providers.                                                *)
LEMMA TheOther ==
  ASSUME NEW p \in Factory!Providers
  PROVE  /\ Other(p) \in Factory!Providers /\ Other(p) # p
         /\ \A q \in Factory!Providers : q # p => q = Other(p) /\ p = Other(q)
BY DEF Factory!Providers, Other

(* One provider is asked once more.                                         *)
LEMMA OneIsAsked ==
  ASSUME NEW n \in [Factory!Providers -> Nat], NEW p \in Factory!Providers
  PROVE  LET more == [n EXCEPT ![p] = @ + 1] IN
           /\ more \in [Factory!Providers -> Nat]
           /\ more[p] = n[p] + 1 /\ n[p] \in Nat
           /\ more[Other(p)] = n[Other(p)]
<1>1. Other(p) \in Factory!Providers /\ Other(p) # p
  BY TheOther
<1> QED BY <1>1

(* core/models/model_factory.py and fallback_handler.py: a request asks no  *)
(* more often than it may, it fails only after its primary failed each of   *)
(* its attempts, but for an open circuit, and the other provider failed     *)
(* too, and the model that answers is the one that was named.               *)
THEOREM RequestFallsBackInOrder ==
  ASSUME FactoryNames
  PROVE  Factory!Spec => [](Factory!TypeOK /\ Factory!AsksBounded
                            /\ Factory!FailsAfterBoth /\ Factory!NamedModelAnswers)
<1>1. Factory!Init => FactoryInv
  BY DEF FactoryNames, Factory!Init, FactoryInv, Factory!Closed, CircuitAgrees, Asking, InHand, Factory!Providers
<1>2. FactoryInv /\ [Factory!Next]_Factory!vars => FactoryInv'
  <2> SUFFICES ASSUME FactoryInv, [Factory!Next]_Factory!vars PROVE FactoryInv'
    OBVIOUS
  <2> USE FactoryNames
  <2>1. ASSUME NEW r \in Requests, NEW m \in Asked \cup {None} \cup Factory!_select_cost_optimized_model,
               Factory!process_request(r, m)
        PROVE  FactoryInv'
    <3> DEFINE model == IF m = None THEN "gpt-3.5-turbo" ELSE m
               made == [shared |-> FALSE, model |-> m, by |-> None, primary |-> Factory!Vendor(model),
                        secondary |-> Factory!_get_fallback_provider(model)]
               n == [asks[r] EXCEPT ![made.primary] = @ + 1]
    <3>1. /\ at[r] = "new" /\ request' = [request EXCEPT ![r] = made] /\ UNCHANGED circuit
          /\ IF model \in Factory!Supported THEN Factory!Asks(r, "direct", made.primary)
             ELSE at' = [at EXCEPT ![r] = "done"] /\ UNCHANGED asks
      BY <2>1 DEF Factory!process_request
    <3>2. made \in MadeFor /\ made.primary \in Factory!Providers /\ made.model = m /\ made.by = None
          /\ ~made.shared
      BY DEF MadeFor, Factory!Vendor, Factory!_get_fallback_provider, Factory!Providers
    <3>3. asks[r] \in [Factory!Providers -> Nat] /\ \A p \in Factory!Providers : asks[r][p] = 0
      BY <3>1 DEF FactoryInv, Asking
    <3>4. model \notin Factory!Supported => Refused(made)
      BY <3>2 DEF Refused, Factory!Supported
    <3> HIDE DEF made, model
    <3>5. CASE model \in Factory!Supported
      <4>1. Asking("direct", made, n)
        <5>1. /\ n \in [Factory!Providers -> Nat]
              /\ n[made.primary] = asks[r][made.primary] + 1
              /\ n[Other(made.primary)] = asks[r][Other(made.primary)]
          BY <3>2, <3>3, OneIsAsked
        <5>2. Other(made.primary) \in Factory!Providers
          BY <3>2, TheOther
        <5> HIDE DEF n
        <5> QED BY <3>2, <3>3, <5>1, <5>2 DEF Asking, InHand
      <4>2. at' = [at EXCEPT ![r] = "direct"] /\ asks' = [asks EXCEPT ![r] = n]
        BY <3>1, <3>5 DEF Factory!Asks, FactoryInv
      <4> HIDE DEF n
      <4>3. CircuitAgrees(circuit')
        BY <3>1, CircuitMoves
      <4> QED BY <3>1, <3>2, <4>1, <4>2, <4>3, RequestMoves DEF InHand
    <3>6. CASE model \notin Factory!Supported
      <4>1. Asking("done", made, asks[r])
        BY <3>2, <3>3, <3>4, <3>6 DEF Asking, InHand, Factory!Providers, FactoryNames
      <4>2. at' = [at EXCEPT ![r] = "done"] /\ asks' = [asks EXCEPT ![r] = asks[r]]
        BY <3>1, <3>6 DEF FactoryInv
      <4>3. CircuitAgrees(circuit')
        BY <3>1, CircuitMoves
      <4> QED BY <3>1, <3>2, <4>1, <4>2, <4>3, RequestMoves DEF InHand
    <3> QED BY <3>5, <3>6
  <2>2. ASSUME NEW r \in Requests, NEW m \in Asked \cup {None}, Factory!execute_with_fallback(r, m)
        PROVE  FactoryInv'
    <3> DEFINE made == [shared |-> TRUE, model |-> m, by |-> None,
                        primary |-> "openai", secondary |-> "anthropic"]
               n(p) == [asks[r] EXCEPT ![p] = @ + 1]
    <3>1. /\ at[r] = "given" /\ request' = [request EXCEPT ![r] = made] /\ Factory!_is_circuit_open
          /\ \/ Factory!Asks(r, "secondary", "anthropic")
             \/ Factory!Asks(r, "primary", "openai")
      BY <2>2 DEF Factory!execute_with_fallback
    <3>2. made \in MadeFor /\ made.primary = "openai" /\ made.secondary = "anthropic" /\ made.shared
      BY DEF MadeFor, Factory!Providers
    <3>3. asks[r] \in [Factory!Providers -> Nat] /\ \A p \in Factory!Providers : asks[r][p] = 0
      BY <3>1 DEF FactoryInv, Asking
    <3>4. "openai" \in Factory!Providers /\ "anthropic" \in Factory!Providers
          /\ Other("openai") = "anthropic" /\ Other("anthropic") = "openai"
      BY DEF Factory!Providers, Other
    <3> HIDE DEF made
    <3>5. CASE Factory!Asks(r, "secondary", "anthropic")
      <4>1. Asking("secondary", made, n("anthropic"))
        BY <3>2, <3>3, <3>4, OneIsAsked DEF Asking, InHand, BothAsked, ByHandler
      <4>2. at' = [at EXCEPT ![r] = "secondary"] /\ asks' = [asks EXCEPT ![r] = n("anthropic")]
        BY <3>5 DEF Factory!Asks, FactoryInv
      <4> HIDE DEF n
      <4>3. CircuitAgrees(circuit')
        BY <3>1, CircuitMoves
      <4> QED BY <3>1, <3>2, <4>1, <4>2, <4>3, RequestMoves DEF InHand
    <3>6. CASE Factory!Asks(r, "primary", "openai")
      <4>1. Asking("primary", made, n("openai"))
        BY <3>2, <3>3, <3>4, OneIsAsked DEF Asking, InHand, ByHandler, FactoryNames
      <4>2. at' = [at EXCEPT ![r] = "primary"] /\ asks' = [asks EXCEPT ![r] = n("openai")]
        BY <3>6 DEF Factory!Asks, FactoryInv
      <4> HIDE DEF n
      <4>3. CircuitAgrees(circuit')
        BY <3>1, CircuitMoves
      <4> QED BY <3>1, <3>2, <4>1, <4>2, <4>3, RequestMoves DEF InHand
    <3> QED BY <3>1, <3>5, <3>6
  <2>3. ASSUME NEW r \in Requests, Factory!Falls(r) \/ Factory!Again(r)
        PROVE  FactoryInv'
    <3> DEFINE req == request[r]
               n == [asks[r] EXCEPT ![req.primary] = @ + 1]
    <3>1. /\ at[r] \in {"direct", "waits"} /\ Factory!Asks(r, "primary", req.primary)
          /\ UNCHANGED <<request, circuit>>
      BY <2>3 DEF Factory!Falls, Factory!Again
    <3>2. Asking(at[r], req, asks[r]) /\ asks[r] \in [Factory!Providers -> Nat]
      BY DEF FactoryInv
    <3>3. req \in MadeFor /\ (req.shared => req.primary # req.secondary) /\ req.primary \in Factory!Providers
          /\ req.shared \in BOOLEAN
      BY <3>1, <3>2 DEF Asking, InHand, MadeFor
    <3>4. at' = [at EXCEPT ![r] = "primary"] /\ asks' = [asks EXCEPT ![r] = n]
          /\ request' = [request EXCEPT ![r] = req]
      BY <3>1 DEF Factory!Asks, FactoryInv
    <3> HIDE DEF req
    <3>5. Asking("primary", req, n)
      <4>1. n \in [Factory!Providers -> Nat] /\ n[req.primary] = asks[r][req.primary] + 1
            /\ n[Other(req.primary)] = asks[r][Other(req.primary)] /\ asks[r][req.primary] \in Nat
        BY <3>2, <3>3, OneIsAsked
      <4> HIDE DEF n
      <4>2. ByHandler(req, n) \in 1..Attempts
        BY <3>1, <3>2, <3>3, <4>1 DEF FactoryNames, Asking, ByHandler
      <4>3. asks[r][Other(req.primary)] = 0
        BY <3>1, <3>2 DEF Asking
      <4> QED BY <3>3, <4>1, <4>2, <4>3 DEF Asking, InHand
    <3> HIDE DEF n
    <3> QED BY <3>1, <3>3, <3>4, <3>5, RequestMoves, CircuitMoves DEF InHand
  <2>4. ASSUME NEW r \in Requests, Factory!_try_primary(r)
        PROVE  FactoryInv'
    <3> DEFINE req == request[r]
               n == [asks[r] EXCEPT ![req.secondary] = @ + 1]
    <3>1. /\ at[r] = "primary" /\ UNCHANGED request
          /\ \/ /\ Factory!Tried(r) < Attempts
                /\ at' = [at EXCEPT ![r] = "waits"] /\ UNCHANGED <<asks, circuit>>
             \/ /\ ~(Factory!Tried(r) < Attempts)
                /\ Factory!Asks(r, "secondary", req.secondary) /\ Factory!_record_failure(r)
      BY <2>4 DEF Factory!_try_primary
    <3>2. Asking(at[r], req, asks[r]) /\ asks[r] \in [Factory!Providers -> Nat]
          /\ ByHandler(req, asks[r]) \in 1..Attempts /\ asks[r][Other(req.primary)] = 0
      BY <3>1 DEF FactoryInv, Asking
    <3>3. req \in MadeFor /\ (req.shared => req.primary # req.secondary) /\ req.primary \in Factory!Providers
          /\ req.shared \in BOOLEAN /\ req.secondary \in Factory!Providers
      BY <3>1, <3>2 DEF Asking, InHand, MadeFor
    <3>4. Factory!Tried(r) = ByHandler(req, asks[r]) /\ request' = [request EXCEPT ![r] = req]
      BY <3>1 DEF Factory!Tried, ByHandler, FactoryInv
    <3> HIDE DEF req
    <3>5. CASE Factory!Tried(r) < Attempts
      <4>1. Asking("waits", req, asks[r])
        BY <3>2, <3>3, <3>4, <3>5 DEF Asking, InHand, FactoryNames
      <4>2. at' = [at EXCEPT ![r] = "waits"] /\ asks' = [asks EXCEPT ![r] = asks[r]] /\ UNCHANGED circuit
        BY <3>1, <3>5 DEF FactoryInv
      <4>3. CircuitAgrees(circuit')
        BY <4>2, CircuitMoves
      <4> QED BY <3>3, <3>4, <4>1, <4>2, <4>3, RequestMoves DEF InHand
    <3>6. CASE ~(Factory!Tried(r) < Attempts)
      <4>1. /\ n \in [Factory!Providers -> Nat] /\ n[req.secondary] = asks[r][req.secondary] + 1
            /\ n[Other(req.secondary)] = asks[r][Other(req.secondary)]
        BY <3>2, <3>3, OneIsAsked
      <4> HIDE DEF n
      <4>2. /\ req.primary # req.secondary =>
                 req.primary = Other(req.secondary) /\ req.secondary = Other(req.primary)
            /\ asks[r][req.primary] \in Nat
        BY <3>2, <3>3, TheOther
      <4>3. ByHandler(req, asks[r]) = Attempts
        BY <3>2, <3>4, <3>6 DEF FactoryNames
      <4>4. BothAsked(req, n)
        <5>1. CASE req.primary = req.secondary
          BY <3>2, <3>3, <4>1, <4>3, <4>2, <5>1 DEF BothAsked, ByHandler, FactoryNames
        <5>2. CASE req.primary # req.secondary
          BY <3>2, <3>3, <4>1, <4>3, <4>2, <5>2 DEF BothAsked, ByHandler, FactoryNames
        <5> QED BY <5>1, <5>2
      <4>5. Asking("secondary", req, n)
        BY <3>3, <4>1, <4>4 DEF Asking, InHand
      <4>6. at' = [at EXCEPT ![r] = "secondary"] /\ asks' = [asks EXCEPT ![r] = n]
            /\ Factory!_record_failure(r)
        BY <3>1, <3>6 DEF Factory!Asks, FactoryInv, n, req
      <4>7. CircuitAgrees(circuit')
        BY <4>6, CircuitMoves
      <4> QED BY <3>3, <3>4, <4>5, <4>6, <4>7, RequestMoves DEF InHand
    <3> QED BY <3>5, <3>6
  <2>5. ASSUME NEW r \in Requests, Factory!Answers(r) \/ Factory!Fails(r)
        PROVE  FactoryInv'
    <3> DEFINE req == request[r]
               who == Factory!Asking(r)
    <3>1. PICK by \in {who, None} :
            /\ at' = [at EXCEPT ![r] = "done"] /\ request' = [request EXCEPT ![r].by = by] /\ UNCHANGED asks
            /\ by = who => Factory!Has(who, req.model) \/ by = None
            /\ by # who => at[r] = "secondary"
      BY <2>5 DEF Factory!Answers, Factory!Fails, Factory!Ends, Factory!Named
    <3>2. at[r] \in {"direct", "primary", "secondary"}
          /\ (UNCHANGED circuit \/ Factory!_reset_circuit(r))
      BY <2>5 DEF Factory!Answers, Factory!Fails
    <3>3. Asking(at[r], req, asks[r]) /\ asks[r] \in [Factory!Providers -> Nat] /\ req \in MadeFor
          /\ (req.shared => req.primary # req.secondary)
      BY <3>2 DEF FactoryInv, Asking, InHand
    <3>4. who = IF at[r] = "secondary" THEN req.secondary ELSE req.primary
      BY DEF Factory!Asking
    <3> DEFINE ended == [req EXCEPT !.by = by]
    <3>5. /\ ended \in MadeFor /\ ended.by = by /\ ended.primary = req.primary /\ ended.model = req.model
          /\ ended.secondary = req.secondary /\ ended.shared = req.shared
          /\ req.primary \in Factory!Providers /\ req.secondary \in Factory!Providers /\ req.shared \in BOOLEAN
      BY <3>1, <3>3, <3>4 DEF MadeFor
    <3>6. at' = [at EXCEPT ![r] = "done"] /\ asks' = [asks EXCEPT ![r] = asks[r]]
          /\ request' = [request EXCEPT ![r] = ended]
      BY <3>1 DEF FactoryInv
    <3> HIDE DEF ended, req, who
    <3>7. ended.by # None /\ ended.model # None => ended.by = Factory!Vendor(ended.model)
      BY <3>1, <3>5 DEF Factory!Has
    <3>8. at[r] # "secondary" => ended.by = ended.primary
      BY <3>1, <3>4, <3>5
    <3>9. at[r] = "secondary" => BothAsked(ended, asks[r])
      BY <3>3, <3>5 DEF Asking, BothAsked, ByHandler
    <3>10. /\ asks[r]["openai"] \in Nat /\ asks[r]["anthropic"] \in Nat
           /\ asks[r]["openai"] + asks[r]["anthropic"] = asks[r][req.primary] + asks[r][Other(req.primary)]
           /\ req.primary # req.secondary => req.secondary = Other(req.primary)
           /\ asks[r][req.primary] \in Nat
      BY <3>3, <3>5 DEF Factory!Providers, Other
    <3>11. asks[r]["openai"] + asks[r]["anthropic"] <= Attempts + (IF ended.shared THEN 1 ELSE 2)
      <4>1. CASE at[r] = "secondary"
        BY <3>5, <3>9, <3>10, <4>1 DEF BothAsked, ByHandler, FactoryNames
      <4>2. CASE at[r] \in {"direct", "primary"}
        BY <3>3, <3>5, <3>10, <4>2 DEF Asking, ByHandler, FactoryNames
      <4> QED BY <3>2, <4>1, <4>2
    <3>12. Asking("done", ended, asks[r])
      BY <3>3, <3>5, <3>7, <3>8, <3>9, <3>11 DEF Asking, InHand
    <3> QED BY <3>2, <3>5, <3>6, <3>12, RequestMoves, CircuitMoves DEF InHand
  <2>6. ASSUME NEW r \in Requests, Factory!NextRequest(r) PROVE FactoryInv'
    <3> DEFINE n == [p \in Factory!Providers |-> 0]
    <3>1. Asking("given", None, n)
      BY DEF Asking, InHand
    <3>2. /\ at' = [at EXCEPT ![r] = "given"] /\ request' = [request EXCEPT ![r] = None]
          /\ asks' = [asks EXCEPT ![r] = n] /\ UNCHANGED circuit
      BY <2>6 DEF Factory!NextRequest
    <3> HIDE DEF n
    <3> QED BY <3>1, <3>2, RequestMoves, CircuitMoves
  <2>7. CASE Factory!get_healthy_provider
    BY <2>7 DEF Factory!get_healthy_provider, FactoryInv, FactoryNames, Factory!_is_circuit_open, Factory!Closed, CircuitAgrees
  <2>8. CASE Factory!Tick
    BY <2>8 DEF Factory!Tick, Factory!IsOpen, FactoryInv, FactoryNames, CircuitAgrees
  <2>9. CASE UNCHANGED Factory!vars
    BY <2>9 DEF Factory!vars, FactoryInv
  <2> QED BY <2>1, <2>2, <2>3, <2>4, <2>5, <2>6, <2>7, <2>8, <2>9 DEF Factory!Next, Factory!Works
<1>3. FactoryInv => /\ Factory!TypeOK /\ Factory!AsksBounded
                    /\ Factory!FailsAfterBoth /\ Factory!NamedModelAnswers
  <2> SUFFICES ASSUME FactoryInv
               PROVE  /\ Factory!TypeOK /\ Factory!AsksBounded
                      /\ Factory!FailsAfterBoth /\ Factory!NamedModelAnswers
    OBVIOUS
  <2>1. Factory!TypeOK
    BY DEF FactoryInv, CircuitAgrees, Factory!TypeOK, MadeFor, InHand
  <2>2. ASSUME NEW r \in Requests, request[r] # None
        PROVE  asks[r]["openai"] + asks[r]["anthropic"] <= Attempts + (IF request[r].shared THEN 1 ELSE 2)
    <3> DEFINE req == request[r]
    <3>1. at[r] \in InHand /\ Asking(at[r], req, asks[r]) /\ asks[r] \in [Factory!Providers -> Nat]
      BY <2>2 DEF FactoryInv, Asking
    <3>2. req.primary \in Factory!Providers /\ req.secondary \in Factory!Providers /\ req.shared \in BOOLEAN
      BY <3>1 DEF Asking, MadeFor
    <3>3. /\ asks[r]["openai"] \in Nat /\ asks[r]["anthropic"] \in Nat
          /\ asks[r]["openai"] + asks[r]["anthropic"] = asks[r][req.primary] + asks[r][Other(req.primary)]
          /\ req.primary # req.secondary => req.secondary = Other(req.primary)
          /\ asks[r][req.primary] \in Nat
      BY <3>1, <3>2 DEF Factory!Providers, Other
    <3> HIDE DEF req
    <3>4. CASE at[r] = "secondary"
      BY <3>1, <3>2, <3>3, <3>4, FactoryNames DEF req, Asking, BothAsked, ByHandler, FactoryNames
    <3>5. CASE at[r] \in {"direct", "primary", "waits"}
      BY <3>1, <3>2, <3>3, <3>5, FactoryNames DEF req, Asking, ByHandler, FactoryNames
    <3>6. CASE at[r] = "done"
      BY <3>1, <3>6 DEF req, Asking
    <3> QED BY <3>1, <3>4, <3>5, <3>6 DEF InHand
  <2>3. Factory!AsksBounded
    BY <2>2 DEF Factory!AsksBounded, FactoryInv, CircuitAgrees
  <2>4. Factory!FailsAfterBoth
    <3> SUFFICES ASSUME NEW r \in Requests, at[r] = "done", request[r].by # request[r].primary,
                        request[r].model \in Factory!Supported \cup {None}
                 PROVE  /\ asks[r][request[r].secondary] > 0
                        /\ ~request[r].shared => asks[r][request[r].primary] > Attempts
                        /\ \/ Factory!Tried(r) \in {0, Attempts}
                           \/ request[r].primary = request[r].secondary
      BY DEF Factory!FailsAfterBoth
    <3>1. BothAsked(request[r], asks[r]) /\ asks[r] \in [Factory!Providers -> Nat]
          /\ request[r] \in MadeFor
      BY DEF FactoryInv, Asking, InHand, Refused
    <3>2. request[r].primary \in Factory!Providers /\ request[r].shared \in BOOLEAN
          /\ asks[r][request[r].primary] \in Nat
      BY <3>1 DEF MadeFor
    <3> QED BY <3>1, <3>2, FactoryNames DEF BothAsked, ByHandler, Factory!Tried, FactoryNames
  <2>5. Factory!NamedModelAnswers
    BY DEF Factory!NamedModelAnswers, FactoryInv, Asking
  <2> QED BY <2>1, <2>3, <2>4, <2>5
<1> QED BY <1>1, <1>2, <1>3, PTL DEF Factory!Spec

-----------------------------------------------------------------------------
TimeoutNames ==
  /\ None \notin Nat /\ Requested \subseteq Nat /\ Buffer \in Nat \ {0}
  /\ MinTimeout \in Nat /\ MaxTimeout \in Nat /\ Default \in Nat /\ MaxDepth \in Nat /\ MaxClock \in Nat

(* What a call keeps: when it began, and that it ends before the deadline   *)
(* it was begun under.                                                      *)
EndsInside(call, now) ==
  /\ call.from <= now
  /\ /\ call.enforced /\ call.under # None /\ ~call.known
     /\ call.under >= call.from + Timeouts!Most(MinTimeout + 1, 2 * Buffer + 1)
     => call.end < call.under

TimeoutInv ==
  /\ clock \in 0..MaxClock /\ deadline \in Nat \cup {None}
  /\ stack \in Seq(Timeouts!Frame)
  /\ usual \in [Operations -> Nat \cup {None}]
  /\ \A i \in 1..Len(stack) : EndsInside(stack[i], clock)
  /\ Timeouts!DeadlineIsLive

(* How much time a call is given: under a deadline that leaves enough, and  *)
(* for an operation not known to take longer, less than what is left.       *)
LEMMA TimeoutIsBounded ==
  ASSUME TimeoutNames, TimeoutInv, NEW requested \in Nat, NEW op \in Operations, NEW propagate \in BOOLEAN
  PROVE  /\ Timeouts!effective_timeout(requested, op, propagate) \in Nat
         /\ /\ propagate /\ deadline # None /\ usual[op] = None
            /\ deadline >= clock + Timeouts!Most(MinTimeout + 1, 2 * Buffer + 1)
            => clock + Timeouts!effective_timeout(requested, op, propagate) < deadline
<1> DEFINE R == Timeouts!Remaining
           asked == Timeouts!Least(MaxTimeout, Timeouts!Most(MinTimeout, requested))
           within == IF propagate /\ R > 0 THEN Timeouts!Least(asked, R) ELSE asked
           blended == IF usual[op] = None THEN within
                      ELSE (within * 7 + ((usual[op] * 3) \div 2) * 3) \div 10
<1>1. Timeouts!effective_timeout(requested, op, propagate) = Timeouts!Most(MinTimeout, blended)
  BY DEF Timeouts!effective_timeout
<1>2. asked \in Nat
  BY DEF TimeoutNames, Timeouts!Least, Timeouts!Most
<1>3. R \in Nat
  BY DEF TimeoutNames, TimeoutInv, Timeouts!Remaining
<1>4. /\ deadline # None /\ deadline >= clock + Timeouts!Most(MinTimeout + 1, 2 * Buffer + 1)
      => R > 0 /\ R < deadline - clock /\ MinTimeout < deadline - clock
  BY DEF TimeoutNames, TimeoutInv, Timeouts!Remaining, Timeouts!Most
<1> HIDE DEF R, asked
<1>5. within \in Nat /\ (propagate /\ R > 0 => within <= R)
  BY <1>2, <1>3 DEF Timeouts!Least
<1> HIDE DEF within
<1>6. usual[op] # None => usual[op] \in Nat
  BY DEF TimeoutInv
<1>7. blended \in Nat /\ (usual[op] = None => blended = within)
  BY <1>5, <1>6
<1> HIDE DEF blended
<1>8. Timeouts!Most(MinTimeout, blended) \in Nat
      /\ (Timeouts!Most(MinTimeout, blended) = MinTimeout \/ Timeouts!Most(MinTimeout, blended) = blended)
  BY <1>7 DEF TimeoutNames, Timeouts!Most
<1>9. clock \in Nat /\ (deadline # None => deadline \in Nat) /\ MinTimeout \in Nat
  BY DEF TimeoutInv, TimeoutNames
<1> QED BY <1>1, <1>3, <1>4, <1>5, <1>7, <1>8, <1>9

(* A call or a block is begun.                                              *)
LEMMA CallBegins ==
  ASSUME TimeoutNames, TimeoutInv, NEW call \in Timeouts!Frame, stack' = Append(stack, call), EndsInside(call, clock),
         UNCHANGED <<clock, usual>>, deadline' = IF call.sets THEN call.end ELSE deadline
  PROVE  TimeoutInv'
<1>1. stack \in Seq(Timeouts!Frame) /\ Len(stack) \in Nat /\ call.end \in Nat
  BY DEF TimeoutInv, Timeouts!Frame
<1>2. /\ stack' \in Seq(Timeouts!Frame) /\ Len(stack') = Len(stack) + 1 /\ stack'[Len(stack) + 1] = call
      /\ \A i \in 1..Len(stack) : stack'[i] = stack[i]
      /\ DOMAIN stack' = 1..Len(stack) + 1 /\ DOMAIN stack = 1..Len(stack)
  BY <1>1
<1>3. ASSUME NEW i \in 1..Len(stack') PROVE EndsInside(stack'[i], clock')
  <2>1. i \in 1..Len(stack) \/ i = Len(stack) + 1
    BY <1>1, <1>2
  <2>2. CASE i = Len(stack) + 1
    BY <1>2, <2>2
  <2>3. CASE i \in 1..Len(stack)
    BY <1>2, <2>3 DEF TimeoutInv
  <2> QED BY <2>1, <2>2, <2>3
<1>4. Timeouts!DeadlineIsLive'
  <2>1. CASE call.sets
    BY <1>1, <1>2, <2>1 DEF Timeouts!DeadlineIsLive
  <2>2. CASE ~call.sets
    BY <1>1, <1>2, <2>2 DEF TimeoutInv, Timeouts!DeadlineIsLive
  <2> QED BY <2>1, <2>2
<1>5. /\ clock' \in 0..MaxClock /\ deadline' \in Nat \cup {None}
      /\ usual' \in [Operations -> Nat \cup {None}]
  BY <1>1 DEF TimeoutInv
<1> QED BY <1>2, <1>3, <1>4, <1>5 DEF TimeoutInv

(* The calls from the i-th on are left: a deadline none of them set is that *)
(* of a call that stays.                                                    *)
LEMMA CallsUnwind ==
  ASSUME TimeoutNames, TimeoutInv, NEW i \in 1..Len(stack), Timeouts!Unwind(i), clock' = clock,
         usual' \in [Operations -> Nat \cup {None}]
  PROVE  TimeoutInv'
<1>1. stack \in Seq(Timeouts!Frame) /\ Len(stack) \in Nat /\ stack' = SubSeq(stack, 1, i - 1)
      /\ deadline' = IF \E j \in i..Len(stack) : stack[j].sets THEN None ELSE deadline
  BY DEF TimeoutInv, Timeouts!Unwind
<1>2. /\ stack' \in Seq(Timeouts!Frame) /\ Len(stack') = i - 1
      /\ \A j \in 1..(i - 1) : stack'[j] = stack[j]
      /\ DOMAIN stack' = 1..(i - 1) /\ DOMAIN stack = 1..Len(stack)
  BY <1>1
<1>3. ASSUME NEW j \in 1..Len(stack') PROVE EndsInside(stack'[j], clock')
  <2>1. j \in 1..(i - 1) /\ j \in 1..Len(stack)
    BY <1>1, <1>2
  <2> QED BY <1>2, <2>1 DEF TimeoutInv
<1>4. Timeouts!DeadlineIsLive'
  <2> SUFFICES ASSUME deadline' # None PROVE \E j \in DOMAIN stack' : stack'[j].sets /\ stack'[j].end = deadline'
    BY DEF Timeouts!DeadlineIsLive
  <2>1. deadline' = deadline /\ \A j \in i..Len(stack) : ~stack[j].sets
    BY <1>1
  <2>2. PICK j \in 1..Len(stack) : stack[j].sets /\ stack[j].end = deadline
    BY <1>2, <2>1 DEF TimeoutInv, Timeouts!DeadlineIsLive
  <2>3. j \in 1..(i - 1)
    BY <1>1, <2>1, <2>2
  <2> QED BY <1>2, <2>1, <2>2, <2>3
<1>5. clock' \in 0..MaxClock /\ deadline' \in Nat \cup {None}
  BY <1>1 DEF TimeoutInv
<1> QED BY <1>2, <1>3, <1>4, <1>5 DEF TimeoutInv

(* reliability/timeout_manager.py: the deadline passed down is that of a    *)
(* call that still runs, and a call begun under a deadline that leaves it   *)
(* enough ends before it, unless the operation is known to take longer.     *)
THEOREM NestedCallsEndFirst ==
  ASSUME TimeoutNames
  PROVE  Timeouts!Spec => [](Timeouts!DeadlineIsLive /\ Timeouts!NestedEndFirst)
<1>1. Timeouts!Init => TimeoutInv
  BY DEF TimeoutNames, Timeouts!Init, TimeoutInv, Timeouts!DeadlineIsLive
<1>2. TimeoutInv /\ [Timeouts!Next]_Timeouts!vars => TimeoutInv'
  <2> SUFFICES ASSUME TimeoutInv, [Timeouts!Next]_Timeouts!vars PROVE TimeoutInv'
    OBVIOUS
  <2>1. Timeouts!create_child_timeout \in Nat
    BY DEF TimeoutNames, TimeoutInv, Timeouts!create_child_timeout, Timeouts!get_remaining_time, Timeouts!Most
  <2>2. ASSUME NEW op \in Operations, NEW requested \in Nat, NEW propagate \in BOOLEAN,
               Timeouts!Call(op, requested, propagate)
        PROVE  TimeoutInv'
    <3> DEFINE e == Timeouts!effective_timeout(requested, op, propagate)
               call == [op |-> op, from |-> clock, end |-> clock + e, enforced |-> TRUE, sets |-> propagate,
                        under |-> IF propagate THEN deadline ELSE None, known |-> usual[op] # None]
    <3>1. /\ stack' = Append(stack, call) /\ UNCHANGED <<clock, usual>>
          /\ deadline' = IF propagate THEN clock + e ELSE deadline
      BY <2>2 DEF Timeouts!Call
    <3>2. /\ e \in Nat /\ clock \in 0..MaxClock /\ deadline \in Nat \cup {None}
          /\ /\ propagate /\ deadline # None /\ usual[op] = None
             /\ deadline >= clock + Timeouts!Most(MinTimeout + 1, 2 * Buffer + 1)
             => clock + e < deadline
      BY TimeoutIsBounded DEF TimeoutInv
    <3> HIDE DEF e
    <3>3. call \in Timeouts!Frame /\ call.sets = propagate /\ call.end = clock + e
      BY <3>2 DEF Timeouts!Frame
    <3>4. EndsInside(call, clock)
      <4>1. /\ call.from = clock /\ call.end = clock + e /\ call.known = (usual[op] # None)
            /\ call.under = (IF propagate THEN deadline ELSE None)
        OBVIOUS
      <4> HIDE DEF call
      <4>2. call.from <= clock
        BY <3>2, <4>1
      <4>3. ASSUME call.under # None, ~call.known,
                   call.under >= call.from + Timeouts!Most(MinTimeout + 1, 2 * Buffer + 1)
            PROVE  call.end < call.under
        <5>1. propagate /\ call.under = deadline /\ usual[op] = None
          BY <4>1, <4>3
        <5> QED BY <3>2, <4>1, <4>3, <5>1
      <4> QED BY <4>2, <4>3 DEF EndsInside
    <3> HIDE DEF call
    <3> QED BY <3>1, <3>3, <3>4, CallBegins
  <2>3. ASSUME NEW op \in Operations, NEW requested \in Nat, Timeouts!Block(op, requested)
        PROVE  TimeoutInv'
    <3> DEFINE call == [op |-> op, from |-> clock, end |-> clock + requested, enforced |-> FALSE,
                        sets |-> TRUE, under |-> None, known |-> FALSE]
    <3>1. /\ stack' = Append(stack, call) /\ UNCHANGED <<clock, usual>>
          /\ deadline' = clock + requested
      BY <2>3 DEF Timeouts!Block
    <3>2. call \in Timeouts!Frame /\ call.sets /\ call.end = clock + requested /\ EndsInside(call, clock)
      BY DEF TimeoutInv, Timeouts!Frame, EndsInside
    <3> HIDE DEF call
    <3> QED BY <3>1, <3>2, CallBegins
  <2>4. Len(stack) \in Nat /\ DOMAIN stack = 1..Len(stack) /\ (stack # <<>> => Len(stack) \in 1..Len(stack))
    BY DEF TimeoutInv
  <2>5. CASE Timeouts!Returns
    <3> DEFINE top == stack[Len(stack)]
    <3>1. /\ Len(stack) \in 1..Len(stack) /\ Timeouts!Unwind(Len(stack)) /\ clock' = clock
          /\ \/ usual' = usual
             \/ usual' = Timeouts!_update_operation_timeout(top.op, clock - top.from)
      BY <2>4, <2>5 DEF Timeouts!Returns
    <3>2. top \in Timeouts!Frame /\ top.from <= clock
      BY <3>1 DEF TimeoutInv, EndsInside
    <3>3. top.op \in Operations /\ clock - top.from \in Nat /\ usual \in [Operations -> Nat \cup {None}]
      BY <3>2 DEF Timeouts!Frame, TimeoutInv
    <3> HIDE DEF top
    <3>4. usual' \in [Operations -> Nat \cup {None}]
      BY <3>1, <3>3 DEF Timeouts!_update_operation_timeout
    <3> QED BY <3>1, <3>4, CallsUnwind
  <2>6. CASE Timeouts!Raises
    BY <2>4, <2>6, CallsUnwind DEF Timeouts!Raises, TimeoutInv
  <2>7. ASSUME NEW i \in DOMAIN stack, Timeouts!TimesOut(i) PROVE TimeoutInv'
    BY <2>4, <2>7, CallsUnwind DEF Timeouts!TimesOut, TimeoutInv
  <2>8. CASE Timeouts!Tick
    <3>1. clock \in 0..MaxClock /\ clock' = clock + 1 /\ clock < MaxClock /\ UNCHANGED <<stack, deadline, usual>>
      BY <2>8 DEF Timeouts!Tick, TimeoutInv
    <3>2. ASSUME NEW i \in 1..Len(stack) PROVE EndsInside(stack[i], clock')
      <4>1. stack[i] \in Timeouts!Frame /\ EndsInside(stack[i], clock)
        BY DEF TimeoutInv
      <4>2. stack[i].from \in 0..MaxClock
        BY <4>1 DEF Timeouts!Frame
      <4> QED BY <3>1, <4>1, <4>2 DEF EndsInside
    <3>3. \A i \in 1..Len(stack') : EndsInside(stack'[i], clock')
      BY <3>1, <3>2
    <3> QED BY <3>1, <3>3 DEF TimeoutInv, Timeouts!DeadlineIsLive, TimeoutNames
  <2>9. CASE UNCHANGED Timeouts!vars
    BY <2>9 DEF Timeouts!vars, TimeoutInv, EndsInside, Timeouts!DeadlineIsLive
  <2> QED BY <2>1, <2>2, <2>3, <2>5, <2>6, <2>7, <2>8, <2>9 DEF Timeouts!Next, TimeoutNames
<1>3. TimeoutInv => Timeouts!DeadlineIsLive /\ Timeouts!NestedEndFirst
  BY DEF TimeoutInv, EndsInside, Timeouts!NestedEndFirst
<1> QED BY <1>1, <1>2, <1>3, PTL DEF Timeouts!Spec

-----------------------------------------------------------------------------
(* The calls at each step, those that are a query not yet counted, and the  *)
(* entry a call may yet bring back.                                         *)
Stepping ==
  [step : {"idle"}]
    \cup [step : {"keys", "fetch"}, of : Tenants \cup {None}, cands : SUBSET Entries, left : SUBSET Entries]
    \cup [step : {"read"}, of : Tenants \cup {None}, cands : SUBSET Entries, left : SUBSET Entries,
          entry : Entries, found : BOOLEAN]
    \cup [step : {"remove", "store", "stored"}, entry : Entries]
    \cup [step : {"list"}, of : Tenants \cup {None}]
    \cup [step : {"delete"}, keys : SUBSET Entries]
Querying == {"keys", "fetch", "read", "remove"}
StepsOf == [c \in Callers |-> at[c].step]
Holding(call) ==
  CASE call.step \in {"store", "stored"} -> {call.entry}
    [] call.step = "read" /\ call.found -> {call.entry}
    [] OTHER -> {}
Known == lru.local \cup redis
Counting == [queries : Nat, hits : Nat, misses : Nat, put : SUBSET Entries]

AnswersInv ==
  /\ at \in [Callers -> Stepping]
  /\ lru.local \subseteq Entries /\ redis \subseteq Entries
  /\ counts \in Counting
  /\ gone \subseteq counts.put
  /\ \A e \in gone : e \notin Known /\ \A c \in Callers : e \notin Holding(at[c])
  /\ IsFiniteSet(Where(Callers, StepsOf, Querying))
  /\ counts.hits + counts.misses + Cardinality(Where(Callers, StepsOf, Querying)) = counts.queries

(* What a step remembers as gone is held by nobody.                         *)
LEMMA GoneIsGone ==
  ASSUME AnswersInv, Answers!Remembers, counts.put \subseteq counts'.put,
         \A e \in gone : e \notin Known' /\ \A c \in Callers : e \notin Holding(at[c])'
  PROVE  /\ gone' \subseteq counts'.put
         /\ \A e \in gone' : e \notin Known' /\ \A c \in Callers : e \notin Holding(at[c])'
<1>1. \A c \in Callers : Answers!Held(c)' = Holding(at[c])'
  BY DEF Answers!Held, Holding
<1>2. gone' = gone \cup {e \in counts.put : e \notin Known' \cup UNION {Holding(at[c])' : c \in Callers}}
  BY <1>1, Zenon DEF Answers!Remembers, Known
<1> QED BY <1>2 DEF AnswersInv

(* The sum follows who counts in it.                                        *)
LEMMA SumFollows ==
  ASSUME NEW s \in Nat, NEW m \in Nat, NEW q \in Nat, NEW w \in Nat, NEW v,
         NEW s1 \in Nat, NEW m1 \in Nat, NEW q1 \in Nat, NEW x \in Nat, NEW y \in Nat,
         s + m + w = q, v = w + x - y, s1 + m1 + x - q1 = s + m + y - q
  PROVE  s1 + m1 + v = q1
OBVIOUS

(* One call moves: it holds what it held, what is kept or what it puts, and *)
(* what is kept was kept or held by it.                                     *)
LEMMA CallMoves ==
  ASSUME AnswersInv, Answers!Remembers, NEW c \in Callers, NEW call \in Stepping,
         at' = [at EXCEPT ![c] = call],
         Holding(call) \subseteq Known \cup Holding(at[c]) \cup (counts'.put \ counts.put),
         Known' \subseteq Known \cup Holding(at[c]),
         lru'.local \subseteq Entries, redis' \subseteq Entries,
         counts' \in Counting, counts.put \subseteq counts'.put,
         counts'.hits + counts'.misses + (IF call.step \in Querying THEN 1 ELSE 0) - counts'.queries
           = counts.hits + counts.misses + (IF at[c].step \in Querying THEN 1 ELSE 0) - counts.queries
  PROVE  AnswersInv'
<1>1. at' \in [Callers -> Stepping] /\ at'[c] = call /\ \A d \in Callers \ {c} : at'[d] = at[d]
  BY DEF AnswersInv
<1>2. ASSUME NEW e \in gone PROVE e \notin Known' /\ \A d \in Callers : e \notin Holding(at[d])'
  <2>1. e \in counts.put /\ e \notin Known /\ \A d \in Callers : e \notin Holding(at[d])
    BY DEF AnswersInv
  <2>2. e \notin Holding(call)
    BY <2>1
  <2>3. ASSUME NEW d \in Callers PROVE e \notin Holding(at'[d])
    <3>1. CASE d = c
      BY <1>1, <2>2, <3>1
    <3>2. CASE d # c
      BY <1>1, <2>1, <3>2
    <3> QED BY <3>1, <3>2
  <2>4. e \notin Known'
    BY <2>1
  <2> QED BY <2>3, <2>4 DEF Holding
<1>3. gone' \subseteq counts'.put /\ \A e \in gone' : e \notin Known' /\ \A d \in Callers : e \notin Holding(at[d])'
  BY <1>2, GoneIsGone
<1> DEFINE W == Where(Callers, StepsOf, Querying)
           V == Where(Callers, StepsOf', Querying)
<1>4. StepsOf' = Moved(StepsOf, c, call.step) /\ DOMAIN StepsOf = Callers
  BY <1>1 DEF StepsOf, Moved
<1>5. IsFiniteSet(W) /\ counts.hits + counts.misses + Cardinality(W) = counts.queries
  BY DEF AnswersInv
<1>6. /\ IsFiniteSet(V) /\ Cardinality(W) \in Nat
      /\ call.step \in Querying /\ c \notin W => Cardinality(V) = Cardinality(W) + 1
      /\ (call.step \in Querying <=> c \in W) => Cardinality(V) = Cardinality(W)
      /\ call.step \notin Querying /\ c \in W => Cardinality(V) = Cardinality(W) - 1
  BY <1>4, <1>5, OneMoves
<1>7. c \in W <=> at[c].step \in Querying
  BY DEF Where, StepsOf
<1>8. Cardinality(V) = Cardinality(W) + (IF call.step \in Querying THEN 1 ELSE 0)
                                      - (IF at[c].step \in Querying THEN 1 ELSE 0)
  BY <1>6, <1>7
<1>9. Where(Callers, StepsOf, Querying)' = V
  BY DEF Where, Querying
<1> HIDE DEF W, V
<1>10. counts'.hits + counts'.misses + Cardinality(V) = counts'.queries
  <2>1. counts \in Counting /\ counts' \in Counting
    BY DEF AnswersInv
  <2> DEFINE a == IF call.step \in Querying THEN 1 ELSE 0
             b == IF at[c].step \in Querying THEN 1 ELSE 0
  <2>2. a \in Nat /\ b \in Nat
    OBVIOUS
  <2>3. /\ Cardinality(V) = Cardinality(W) + a - b
        /\ counts'.hits + counts'.misses + a - counts'.queries = counts.hits + counts.misses + b - counts.queries
    BY <1>8
  <2>4. /\ counts.hits \in Nat /\ counts.misses \in Nat /\ counts.queries \in Nat
        /\ counts'.hits \in Nat /\ counts'.misses \in Nat /\ counts'.queries \in Nat
    BY <2>1 DEF Counting
  <2> HIDE DEF a, b
  <2>5. Cardinality(W) \in Nat
    BY <1>6
  <2> QED BY <1>5, <2>2, <2>3, <2>4, <2>5, SumFollows
<1> QED BY <1>1, <1>3, <1>6, <1>9, <1>10 DEF AnswersInv

(* A call rests, with a hit or a miss, or removes an entry that has expired. *)
LEMMA ChoiceMoves ==
  ASSUME AnswersInv, Answers!Remembers, NEW c \in Callers, NEW cands, NEW t,
         Answers!Chooses(c, cands, t), at[c].step \in Querying, cands \subseteq Entries,
         t.local \subseteq Entries, t.local \subseteq Known \cup Holding(at[c]), UNCHANGED redis
  PROVE  AnswersInv'
<1>1. counts \in Counting /\ redis \subseteq Entries
  BY DEF AnswersInv
<1>2. [step |-> "idle"] \in Stepping /\ Holding([step |-> "idle"]) = {}
  BY DEF Stepping, Holding
<1>3. CASE /\ counts' = [counts EXCEPT !.misses = @ + 1] \/ counts' = [counts EXCEPT !.hits = @ + 1]
           /\ Answers!Rests(c) /\ lru' = t
  <2>1. /\ counts' \in Counting /\ counts'.put = counts.put
        /\ counts'.hits + counts'.misses + 0 - counts'.queries
             = counts.hits + counts.misses + 1 - counts.queries
    BY <1>1, <1>3 DEF Counting
  <2>2. Known' \subseteq Known \cup Holding(at[c])
    BY <1>3 DEF Known
  <2> QED BY <1>1, <1>2, <1>3, <2>1, <2>2, CallMoves DEF Answers!Rests, Answers!Goes, Querying
<1>4. ASSUME NEW match \in cands, lru' = Answers!Without(t, {match}), UNCHANGED counts,
             Answers!Goes(c, [step |-> "remove", entry |-> match])
      PROVE  AnswersInv'
  <2> DEFINE call == [step |-> "remove", entry |-> match]
  <2>1. call \in Stepping /\ Holding(call) = {} /\ call.step \in Querying
    BY DEF Stepping, Holding, Querying
  <2>2. at' = [at EXCEPT ![c] = call]
    BY <1>4 DEF Answers!Goes
  <2> HIDE DEF call
  <2>3. lru'.local \subseteq t.local
    BY <1>4 DEF Answers!Without
  <2>4. Known' \subseteq Known \cup Holding(at[c])
    BY <2>3 DEF Known
  <2> QED BY <1>1, <1>4, <2>1, <2>2, <2>3, <2>4, CallMoves
<1> QED BY <1>3, <1>4 DEF Answers!Chooses, Answers!Hit, Answers!Miss

(* What is put in the local table is all that is added to it.               *)
LEMMA LocalGrows ==
  ASSUME NEW t, NEW e
  PROVE  Answers!_update_local_cache(t, e).local \subseteq t.local \cup {e}
BY DEF Answers!_update_local_cache

(* cache/semantic_cache.py: every query is a hit or a miss once its call    *)
(* has ended, and an entry that was cleared, dropped or evicted from        *)
(* everywhere with no call at work on it is not brought back.               *)
THEOREM GoneAnswersStayGone ==
  ASSUME IsFiniteSet(Callers)
  PROVE  Answers!Spec => [](Answers!QueriesAddUp /\ Answers!GoneStaysGone)
<1>1. Answers!Init => AnswersInv
  <2> SUFFICES ASSUME Answers!Init PROVE AnswersInv
    OBVIOUS
  <2>1. at \in [Callers -> Stepping] /\ \A c \in Callers : StepsOf[c] \notin Querying
    BY DEF Answers!Init, Stepping, StepsOf, Querying
  <2>2. IsFiniteSet(Where(Callers, StepsOf, Querying)) /\ Cardinality(Where(Callers, StepsOf, Querying)) = 0
    BY <2>1, NoneThere
  <2> QED BY <2>1, <2>2 DEF Answers!Init, AnswersInv, Counting
<1>2. AnswersInv /\ [Answers!Next]_Answers!vars => AnswersInv'
  <2> SUFFICES ASSUME AnswersInv, [Answers!Next]_Answers!vars PROVE AnswersInv'
    OBVIOUS
  <2>0. /\ counts \in Counting /\ redis \subseteq Entries /\ lru.local \subseteq Entries
        /\ \A c \in Callers : at[c] \in Stepping
    BY DEF AnswersInv
  <2>1. ASSUME NEW c \in Callers, NEW t \in Tenants \cup {None}, Answers!get(c, t), Answers!Remembers
        PROVE  AnswersInv'
    <3> DEFINE call == [step |-> "keys", of |-> t, cands |-> Answers!Of(lru.local, t), left |-> {}]
    <3>1. Answers!Of(lru.local, t) \subseteq Entries
      BY <2>0 DEF Answers!Of
    <3>2. call \in Stepping /\ Holding(call) = {} /\ call.step \in Querying
      BY <3>1 DEF Stepping, Holding, Querying
    <3>3. /\ at' = [at EXCEPT ![c] = call] /\ at[c].step \notin Querying /\ UNCHANGED <<lru, redis>>
          /\ counts' = [counts EXCEPT !.queries = @ + 1]
      BY <2>1 DEF Answers!get, Answers!Goes, Querying
    <3> HIDE DEF call
    <3>4. /\ counts' \in Counting /\ counts'.put = counts.put
          /\ counts'.hits + counts'.misses + 1 - counts'.queries
               = counts.hits + counts.misses + 0 - counts.queries
      BY <2>0, <3>3 DEF Counting
    <3>5. Known' = Known
      BY <3>3 DEF Known
    <3> QED BY <2>0, <2>1, <3>2, <3>3, <3>4, <3>5, CallMoves
  <2>2. ASSUME NEW c \in Callers, Answers!Listed(c), Answers!Remembers PROVE AnswersInv'
    <3> DEFINE call == [at[c] EXCEPT !.step = "fetch", !.left = Answers!Of(redis, at[c].of)]
    <3>1. at[c].step = "keys" /\ at' = [at EXCEPT ![c] = call] /\ UNCHANGED <<lru, redis, counts>>
      BY <2>2 DEF Answers!Listed, Answers!Goes
    <3>2. at[c] \in [step : {"keys", "fetch"}, of : Tenants \cup {None}, cands : SUBSET Entries,
                     left : SUBSET Entries] /\ Answers!Of(redis, at[c].of) \subseteq Entries
      BY <2>0, <3>1 DEF Stepping, Answers!Of
    <3>3. call \in [step : {"keys", "fetch"}, of : Tenants \cup {None}, cands : SUBSET Entries,
                    left : SUBSET Entries] /\ call.step = "fetch"
      BY <3>2
    <3> HIDE DEF call
    <3>4. call \in Stepping /\ Holding(call) = {} /\ Known' = Known
      BY <3>1, <3>3 DEF Stepping, Holding, Known
    <3> QED BY <2>0, <2>2, <3>1, <3>3, <3>4, CallMoves DEF Querying
  <2>3. ASSUME NEW c \in Callers, Answers!Answered(c), Answers!Remembers PROVE AnswersInv'
    <3>1. /\ at[c].step = "fetch" /\ UNCHANGED <<lru, redis, counts>>
          /\ at[c] \in [step : {"keys", "fetch"}, of : Tenants \cup {None}, cands : SUBSET Entries,
                        left : SUBSET Entries]
      BY <2>0, <2>3 DEF Answers!Answered, Stepping
    <3>2. PICK e \in at[c].left :
            at' = [at EXCEPT ![c] = [step |-> "read", of |-> at[c].of, cands |-> at[c].cands,
                                     left |-> at[c].left \ {e}, entry |-> e, found |-> e \in redis]]
      BY <2>3 DEF Answers!Answered, Answers!Goes
    <3> DEFINE call == [step |-> "read", of |-> at[c].of, cands |-> at[c].cands,
                        left |-> at[c].left \ {e}, entry |-> e, found |-> e \in redis]
    <3>3. call \in [step : {"read"}, of : Tenants \cup {None}, cands : SUBSET Entries, left : SUBSET Entries,
                    entry : Entries, found : BOOLEAN]
      BY <3>1
    <3>4. call.step = "read" /\ call.entry = e /\ (call.found => e \in redis)
      OBVIOUS
    <3>5. at' = [at EXCEPT ![c] = call]
      BY <3>2
    <3> HIDE DEF call
    <3>6. call \in Stepping /\ Holding(call) \subseteq Known /\ Known' = Known
      BY <3>1, <3>3, <3>4 DEF Stepping, Holding, Known
    <3> QED BY <2>0, <2>3, <3>1, <3>4, <3>5, <3>6, CallMoves DEF Querying
  <2>4. ASSUME NEW c \in Callers, Answers!TakenUp(c), Answers!Remembers PROVE AnswersInv'
    <3> DEFINE me == at[c]
               new == me.found /\ me.entry \notin me.cands
               cands == IF new THEN me.cands \cup {me.entry} ELSE me.cands
               t == IF new THEN Answers!_update_local_cache(lru, me.entry) ELSE lru
    <3>1. /\ me.step = "read" /\ UNCHANGED redis
          /\ \/ /\ lru' = t /\ UNCHANGED counts
                /\ Answers!Goes(c, [step |-> "fetch", of |-> me.of, cands |-> cands, left |-> me.left])
             \/ Answers!Chooses(c, cands, t)
      BY <2>4 DEF Answers!TakenUp
    <3>2. me \in [step : {"read"}, of : Tenants \cup {None}, cands : SUBSET Entries, left : SUBSET Entries,
                  entry : Entries, found : BOOLEAN]
      BY <2>0, <3>1 DEF Stepping
    <3>3. cands \subseteq Entries /\ t.local \subseteq lru.local \cup (IF me.found THEN {me.entry} ELSE {})
      BY <3>2, LocalGrows
    <3>4. t.local \subseteq Entries /\ t.local \subseteq Known \cup Holding(me)
      BY <2>0, <3>1, <3>2, <3>3 DEF Known, Holding
    <3> HIDE DEF cands, t, new
    <3>5. CASE /\ lru' = t /\ UNCHANGED counts
               /\ Answers!Goes(c, [step |-> "fetch", of |-> me.of, cands |-> cands, left |-> me.left])
      <4> DEFINE call == [step |-> "fetch", of |-> me.of, cands |-> cands, left |-> me.left]
      <4>1. call \in [step : {"keys", "fetch"}, of : Tenants \cup {None}, cands : SUBSET Entries,
                      left : SUBSET Entries] /\ call.step = "fetch" /\ at' = [at EXCEPT ![c] = call]
        BY <3>2, <3>3, <3>5 DEF Answers!Goes
      <4> HIDE DEF call
      <4>2. call \in Stepping /\ Holding(call) = {} /\ Known' \subseteq Known \cup Holding(at[c])
        BY <3>1, <3>4, <3>5, <4>1 DEF Stepping, Holding, Known
      <4> QED BY <2>0, <2>4, <3>1, <3>4, <3>5, <4>1, <4>2, CallMoves DEF Querying
    <3>6. CASE Answers!Chooses(c, cands, t)
      BY <2>4, <3>1, <3>3, <3>4, <3>6, ChoiceMoves DEF Querying
    <3> QED BY <3>1, <3>5, <3>6
  <2>5. ASSUME NEW c \in Callers, Answers!Alone(c), Answers!Remembers PROVE AnswersInv'
    <3>1. /\ at[c].step \in {"keys", "fetch"} /\ Answers!Chooses(c, at[c].cands, lru) /\ UNCHANGED redis
          /\ at[c].cands \subseteq Entries
      BY <2>0, <2>5 DEF Answers!Alone, Stepping
    <3> QED BY <2>0, <2>5, <3>1, ChoiceMoves DEF Querying, Known
  <2>6. ASSUME NEW c \in Callers, Answers!_remove_entry(c), Answers!Remembers PROVE AnswersInv'
    <3>1. /\ at[c].step = "remove" /\ UNCHANGED lru /\ redis' \subseteq redis
          /\ counts' = [counts EXCEPT !.misses = @ + 1] /\ at' = [at EXCEPT ![c] = [step |-> "idle"]]
      BY <2>6 DEF Answers!_remove_entry, Answers!Miss, Answers!Rests, Answers!Goes
    <3>2. /\ counts' \in Counting /\ counts'.put = counts.put
          /\ counts'.hits + counts'.misses + 0 - counts'.queries
               = counts.hits + counts.misses + 1 - counts.queries
      BY <2>0, <3>1 DEF Counting
    <3>3. [step |-> "idle"] \in Stepping /\ Holding([step |-> "idle"]) = {} /\ Known' \subseteq Known
      BY <3>1 DEF Stepping, Holding, Known
    <3> QED BY <2>0, <2>6, <3>1, <3>2, <3>3, CallMoves DEF Querying
  <2>7. ASSUME NEW c \in Callers, NEW e \in Entries, Answers!put(c, e), Answers!Remembers PROVE AnswersInv'
    <3> DEFINE call == [step |-> "store", entry |-> e]
    <3>1. /\ at[c].step = "idle" /\ e \notin counts.put /\ UNCHANGED <<lru, redis>>
          /\ counts' = [counts EXCEPT !.put = @ \cup {e}] /\ at' = [at EXCEPT ![c] = call]
      BY <2>7 DEF Answers!put, Answers!Goes
    <3>2. call \in Stepping /\ Holding(call) = {e} /\ call.step = "store"
      BY DEF Stepping, Holding
    <3> HIDE DEF call
    <3>3. /\ counts' \in Counting /\ counts'.put = counts.put \cup {e} /\ counts'.hits = counts.hits
          /\ counts'.misses = counts.misses /\ counts'.queries = counts.queries /\ Known' = Known
      BY <2>0, <3>1 DEF Counting, Known
    <3>4. Holding(call) \subseteq counts'.put \ counts.put
      BY <3>1, <3>2, <3>3
    <3> QED BY <2>0, <2>7, <3>1, <3>2, <3>3, <3>4, CallMoves DEF Querying
  <2>8. ASSUME NEW c \in Callers, Answers!_store_entry(c) \/ Answers!Stored(c), Answers!Remembers
        PROVE  AnswersInv'
    <3>1. /\ at[c] \in [step : {"remove", "store", "stored"}, entry : Entries]
          /\ at[c].step \in {"store", "stored"} /\ UNCHANGED counts
      BY <2>0, <2>8 DEF Answers!_store_entry, Answers!Stored, Stepping
    <3>2. Holding(at[c]) = {at[c].entry} /\ at[c].entry \in Entries
      BY <3>1 DEF Holding
    <3>3. CASE Answers!_store_entry(c)
      <4> DEFINE call == [at[c] EXCEPT !.step = "stored"]
      <4>1. /\ at' = [at EXCEPT ![c] = call] /\ redis' \subseteq redis \cup {at[c].entry} /\ UNCHANGED lru
            /\ call \in [step : {"remove", "store", "stored"}, entry : Entries] /\ call.step = "stored"
            /\ call.entry = at[c].entry
        BY <3>1, <3>3 DEF Answers!_store_entry, Answers!Goes
      <4> HIDE DEF call
      <4>2. call \in Stepping /\ Holding(call) = {at[c].entry} /\ Known' \subseteq Known \cup {at[c].entry}
        BY <4>1 DEF Stepping, Holding, Known
      <4> QED BY <2>0, <2>8, <3>1, <3>2, <4>1, <4>2, CallMoves DEF Querying
    <3>4. CASE Answers!Stored(c)
      <4>1. /\ at' = [at EXCEPT ![c] = [step |-> "idle"]] /\ UNCHANGED redis
            /\ lru'.local \subseteq lru.local \cup {at[c].entry}
        BY <3>4, LocalGrows DEF Answers!Stored, Answers!Rests, Answers!Goes
      <4>2. [step |-> "idle"] \in Stepping /\ Holding([step |-> "idle"]) = {}
            /\ Known' \subseteq Known \cup {at[c].entry}
        BY <4>1 DEF Stepping, Holding, Known
      <4> QED BY <2>0, <2>8, <3>1, <3>2, <4>1, <4>2, CallMoves DEF Querying
    <3> QED BY <2>8, <3>3, <3>4
  <2>9. ASSUME NEW c \in Callers, NEW t \in Tenants \cup {None}, Answers!clear(c, t), Answers!Remembers
        PROVE  AnswersInv'
    <3> DEFINE call == [step |-> "list", of |-> t]
    <3>1. /\ at[c].step = "idle" /\ at' = [at EXCEPT ![c] = call] /\ UNCHANGED <<redis, counts>>
          /\ lru'.local \subseteq lru.local
      BY <2>9 DEF Answers!clear, Answers!Goes, Answers!Without
    <3>2. call \in Stepping /\ Holding(call) = {} /\ call.step = "list" /\ Known' \subseteq Known
      BY <3>1 DEF Stepping, Holding, Known
    <3> HIDE DEF call
    <3> QED BY <2>0, <2>9, <3>1, <3>2, CallMoves DEF Querying
  <2>10. ASSUME NEW c \in Callers, Answers!Lists(c), Answers!Remembers PROVE AnswersInv'
    <3>1. PICK call \in {[step |-> "delete", keys |-> Answers!Of(redis, at[c].of)], [step |-> "idle"]} :
            at' = [at EXCEPT ![c] = call]
      BY <2>10 DEF Answers!Lists, Answers!Rests, Answers!Goes
    <3>2. at[c].step = "list" /\ UNCHANGED <<lru, redis, counts>> /\ Answers!Of(redis, at[c].of) \subseteq Entries
      BY <2>0, <2>10 DEF Answers!Lists, Answers!Of
    <3>3. call \in Stepping /\ call.step \in {"delete", "idle"} /\ Holding(call) = {} /\ Known' = Known
      BY <3>2 DEF Stepping, Holding, Known
    <3> QED BY <2>0, <2>10, <3>1, <3>2, <3>3, CallMoves DEF Querying
  <2>11. ASSUME NEW c \in Callers, Answers!Deletes(c), Answers!Remembers PROVE AnswersInv'
    <3>1. /\ at[c].step = "delete" /\ UNCHANGED <<lru, counts>> /\ redis' \subseteq redis
          /\ at' = [at EXCEPT ![c] = [step |-> "idle"]]
      BY <2>11 DEF Answers!Deletes, Answers!Rests, Answers!Goes
    <3>2. [step |-> "idle"] \in Stepping /\ Holding([step |-> "idle"]) = {} /\ Known' \subseteq Known
      BY <3>1 DEF Stepping, Holding, Known
    <3> QED BY <2>0, <2>11, <3>1, <3>2, CallMoves DEF Querying
  <2>12. ASSUME NEW e \in Entries, Answers!Expires(e) \/ Answers!Dropped(e), Answers!Remembers
         PROVE  AnswersInv'
    <3>1. UNCHANGED <<lru, at, counts>> /\ redis' \subseteq redis
      BY <2>12 DEF Answers!Expires, Answers!Dropped
    <3>2. \A x \in gone : x \notin Known' /\ \A c \in Callers : x \notin Holding(at[c])'
      BY <3>1 DEF AnswersInv, Known, Holding
    <3>3. gone' \subseteq counts'.put /\ \A x \in gone' : x \notin Known' /\ \A c \in Callers : x \notin Holding(at[c])'
      BY <2>12, <3>1, <3>2, GoneIsGone
    <3> QED BY <3>1, <3>3 DEF AnswersInv, StepsOf, Where, Querying
  <2>13. CASE UNCHANGED Answers!vars
    BY <2>13 DEF Answers!vars, AnswersInv, StepsOf, Where, Querying, Known, Holding
  <2> QED BY <2>1, <2>2, <2>3, <2>4, <2>5, <2>6, <2>7, <2>8, <2>9, <2>10, <2>11, <2>12, <2>13 DEF Answers!Next
<1>3. AnswersInv => Answers!QueriesAddUp /\ Answers!GoneStaysGone
  <2>1. {c \in Callers : at[c].step \in {"keys", "fetch", "read", "remove"}} = Where(Callers, StepsOf, Querying)
    BY DEF Where, StepsOf, Querying
  <2>2. \A S : Answers!Cardinality(S) = Cardinality(S)
    BY DEF Answers!Cardinality, Cardinality
  <2> QED BY <2>1, <2>2 DEF AnswersInv, Known, Answers!QueriesAddUp, Answers!GoneStaysGone
<1> QED BY <1>1, <1>2, <1>3, PTL DEF Answers!Spec
=============================================================================
