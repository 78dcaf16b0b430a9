---------------------------- MODULE SemanticCache ----------------------------
(***************************************************************************)
(* cache/semantic_cache.py: answers found again by the similarity of their *)
(* questions. Entries live in Redis and, the last few, in a local table    *)
(* with its own LRU order; get, put and clear run as concurrent tasks.     *)
(* Every Redis command is two moments: the server carries it out, and the  *)
(* task gets to run again. Which candidate is the most similar, if any is  *)
(* similar enough, is left open. `gone` remembers the entries that were in *)
(* neither table with no call at work on them.                             *)
(***************************************************************************)
EXTENDS Naturals, FiniteSets, Sequences, SequencesExt

CONSTANTS Callers, Entries, Tenants, tenant, MaxEntries, MaxCalls, None

VARIABLES lru, redis, expired, at, counts, gone
vars == <<lru, redis, expired, at, counts, gone>>

Init ==
  /\ lru = [order |-> <<>>, local |-> {}]
  /\ redis = {} /\ expired = {} /\ gone = {}
  /\ at = [c \in Callers |-> [step |-> "idle"]]
  /\ counts = [queries |-> 0, hits |-> 0, misses |-> 0, put |-> {}]

TypeOK ==
  LET Whose == Tenants \cup {None} IN
    /\ lru.order \in Seq(Entries) /\ lru.local \subseteq Entries
    /\ redis \subseteq Entries /\ expired \subseteq Entries /\ gone \subseteq Entries
    /\ {counts.queries, counts.hits, counts.misses} \subseteq 0..MaxCalls
    /\ counts.put \subseteq Entries
    /\ \A c \in Callers :
         at[c] \in [step : {"idle"}]
           \cup [step : {"keys", "fetch"}, of : Whose, cands : SUBSET Entries,
                 left : SUBSET Entries]
           \cup [step : {"read"}, of : Whose, cands : SUBSET Entries,
                 left : SUBSET Entries, entry : Entries, found : BOOLEAN]
           \cup [step : {"remove", "store", "stored"}, entry : Entries]
           \cup [step : {"list"}, of : Whose]
           \cup [step : {"delete"}, keys : SUBSET Entries]

Of(es, t) == {e \in es : t = None \/ tenant[e] = t}
Goes(c, to) == at' = [at EXCEPT ![c] = to]
Rests(c) == Goes(c, [step |-> "idle"])

\* Variant: the evicted entry keeps its place in the order.
Without_Ordered(t, es) ==
  [order |-> t.order, local |-> t.local \ es]
Without(t, es) ==
  [order |-> SelectSeq(t.order, LAMBDA e : e \notin es), local |-> t.local \ es]

\* Variant: an entry that is there already is appended again.
_update_local_cache_Again(t, e) ==
  LET o == Append(t.order, e)
      l == t.local \cup {e}
  IN IF Cardinality(l) > MaxEntries THEN [order |-> Tail(o), local |-> l \ {Head(o)}]
     ELSE [order |-> o, local |-> l]
(* The entry is the newest; the oldest goes when there are too many.        *)
_update_local_cache(t, e) ==
  LET o == Append(SelectSeq(t.order, LAMBDA x : x # e), e)
      l == t.local \cup {e}
  IN IF Cardinality(l) > MaxEntries THEN [order |-> Tail(o), local |-> l \ {Head(o)}]
     ELSE [order |-> o, local |-> l]

Hit == counts' = [counts EXCEPT !.hits = @ + 1]
Miss == counts' = [counts EXCEPT !.misses = @ + 1]

\* Variant: an expired best match is removed and not counted.
Chooses_Uncounted(c, cands, t) ==
  \/ Miss /\ Rests(c) /\ lru' = t
  \/ cands \ expired # {} /\ Hit /\ Rests(c) /\ lru' = t
  \/ \E best \in cands \cap expired :
       lru' = Without(t, {best}) /\ Rests(c) /\ UNCHANGED counts
(* The rest of get: nothing similar; a hit; or a best match that has        *)
(* expired, which is removed - no other candidate is looked at.             *)
Chooses(c, cands, t) ==
  \/ Miss /\ Rests(c) /\ lru' = t
  \/ cands \ expired # {} /\ Hit /\ Rests(c) /\ lru' = t
  \/ \E best \in cands \cap expired :
       /\ lru' = Without(t, {best})
       /\ Goes(c, [step |-> "remove", entry |-> best])
       /\ UNCHANGED counts

get(c, t) ==
  /\ at[c].step = "idle" /\ counts.queries < MaxCalls
  /\ counts' = [counts EXCEPT !.queries = @ + 1]
  /\ Goes(c, [step |-> "keys", of |-> t, cands |-> Of(lru.local, t), left |-> {}])
  /\ UNCHANGED <<lru, redis, expired>>

(* The keys are listed and fetched one by one: the server answers a GET ... *)
Listed(c) ==
  /\ at[c].step = "keys" /\ Of(redis, at[c].of) # {}
  /\ Goes(c, [at[c] EXCEPT !.step = "fetch", !.left = Of(redis, at[c].of)])
  /\ UNCHANGED <<lru, redis, expired, counts>>
Answered(c) ==
  /\ at[c].step = "fetch"
  /\ \E e \in at[c].left :
       Goes(c, [step |-> "read", of |-> at[c].of, cands |-> at[c].cands,
                left |-> at[c].left \ {e}, entry |-> e, found |-> e \in redis])
  /\ UNCHANGED <<lru, redis, expired, counts>>
(* ... and the task takes it up, into the local table too if it is new.     *)
TakenUp(c) ==
  LET me == at[c]
      new == me.found /\ me.entry \notin me.cands
      cands == IF new THEN me.cands \cup {me.entry} ELSE me.cands
      t == IF new THEN _update_local_cache(lru, me.entry) ELSE lru IN
    /\ me.step = "read"
    /\ \/ /\ me.left # {}
          /\ lru' = t
          /\ Goes(c, [step |-> "fetch", of |-> me.of, cands |-> cands, left |-> me.left])
          /\ UNCHANGED counts
       \/ me.left = {} /\ Chooses(c, cands, t)
    /\ UNCHANGED <<redis, expired>>
(* No key matches, or Redis fails: the candidates found so far must do.     *)
Alone(c) ==
  /\ at[c].step \in {"keys", "fetch"}
  /\ Chooses(c, at[c].cands, lru)
  /\ UNCHANGED <<redis, expired>>

(* The server removes the expired entry, or fails; the get ends as a miss.  *)
_remove_entry(c) ==
  /\ at[c].step = "remove"
  /\ redis' \in {redis, redis \ {at[c].entry}}
  /\ Miss /\ Rests(c)
  /\ UNCHANGED <<lru, expired>>

put(c, e) ==
  /\ at[c].step = "idle" /\ e \notin counts.put
  /\ counts' = [counts EXCEPT !.put = @ \cup {e}]
  /\ Goes(c, [step |-> "store", entry |-> e])
  /\ UNCHANGED <<lru, redis, expired>>
_store_entry(c) ==
  /\ at[c].step = "store"
  /\ redis' \in {redis, redis \cup {at[c].entry}}
  /\ Goes(c, [at[c] EXCEPT !.step = "stored"])
  /\ UNCHANGED <<lru, expired, counts>>
Stored(c) ==
  /\ at[c].step = "stored"
  /\ lru' = _update_local_cache(lru, at[c].entry)
  /\ Rests(c)
  /\ UNCHANGED <<redis, expired, counts>>

(* The local entries go at once; those in Redis are listed, then deleted.   *)
clear(c, t) ==
  /\ at[c].step = "idle"
  /\ lru' = Without(lru, Of(lru.local, t))
  /\ Goes(c, [step |-> "list", of |-> t])
  /\ UNCHANGED <<redis, expired, counts>>
Lists(c) ==
  /\ at[c].step = "list"
  /\ \/ Goes(c, [step |-> "delete", keys |-> Of(redis, at[c].of)])
     \/ Rests(c)
  /\ UNCHANGED <<lru, redis, expired, counts>>
Deletes(c) ==
  /\ at[c].step = "delete"
  /\ redis' \in {redis, redis \ at[c].keys}
  /\ Rests(c)
  /\ UNCHANGED <<lru, expired, counts>>

(* An entry's time is over, and Redis drops it some time later: it was      *)
(* stored after it was made, for the same time.                             *)
Expires(e) ==
  /\ e \in counts.put \ expired
  /\ expired' = expired \cup {e}
  /\ UNCHANGED <<lru, redis, at, counts>>
Dropped(e) ==
  /\ e \in redis \cap expired
  /\ redis' = redis \ {e}
  /\ UNCHANGED <<lru, expired, at, counts>>

(* The entry a call may yet bring back.                                     *)
Held(c) ==
  CASE at[c].step \in {"store", "stored"} -> {at[c].entry}
    [] at[c].step = "read" /\ at[c].found -> {at[c].entry}
    [] OTHER -> {}
Remembers ==
  gone' = gone \cup
    {e \in counts.put : e \notin (lru.local \cup redis \cup UNION {Held(c) : c \in Callers})'}

Next ==
  /\ \/ \E c \in Callers :
          \/ Listed(c) \/ Answered(c) \/ TakenUp(c) \/ Alone(c) \/ _remove_entry(c)
          \/ _store_entry(c) \/ Stored(c) \/ Lists(c) \/ Deletes(c)
          \/ \E t \in Tenants \cup {None} : get(c, t) \/ clear(c, t)
          \/ \E e \in Entries : put(c, e)
     \/ \E e \in Entries : Expires(e) \/ Dropped(e)
  /\ Remembers

Spec == Init /\ [][Next]_vars

(* The order and the table of the local cache name the same entries, each   *)
(* once, so that what is evicted exists; and they keep to their size.       *)
OrderMatches ==
  /\ IsInjective(lru.order) /\ Range(lru.order) = lru.local
  /\ Cardinality(lru.local) <= MaxEntries
(* Every query is a hit or a miss once its call has ended, whatever failed. *)
QueriesAddUp ==
  counts.hits + counts.misses
    + Cardinality({c \in Callers : at[c].step \in {"keys", "fetch", "read", "remove"}})
  = counts.queries
(* An entry that was cleared, dropped or evicted from everywhere with no    *)
(* call at work on it stays away: nobody brings an old answer back.         *)
GoneStaysGone == gone \cap (lru.local \cup redis) = {}
=============================================================================
