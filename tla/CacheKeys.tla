------------------------------ MODULE CacheKeys ------------------------------
(***************************************************************************)
(* cache/cache_key_generator.py with the cache endpoints of api/chat.py:    *)
(* the key of a request, the index of what was asked under which key, the   *)
(* pattern a model or a user is cleared by, and the scan that deletes what  *)
(* the pattern matches while answers are stored. An entry is two keys of    *)
(* Redis, the answer and its metadata <key>:meta.                           *)
(***************************************************************************)
EXTENDS Naturals, Sequences, SequencesExt

CONSTANTS Requests,       \* a sequence: the order Redis lists their keys in
          Large,          \* those whose answers are stored compressed
          Asked,          \* the requests a similar answer is looked for
          Cleared,        \* <<model, user>>: what is cleared; None is left out
          Lower, Within,  \* names in lower case; <<m, n>>: m occurs in n
          Score,          \* sklearn's similarity of two different contents, in percent
          Threshold, MaxCandidates,
          MaxIndex, Dropped, \* 10000 and 1000 in the code
          None

VARIABLES data, meta, index, storing, clear, disturbed
vars == <<data, meta, index, storing, clear, disturbed>>

_normalize_text(t) == t.words
_normalize_messages(ms) == [n \in DOMAIN ms |-> [role |-> ms[n].role,
                                                 content |-> _normalize_text(ms[n].content)]]

(* Temperatures are thousandths, rounded to hundredths. The model's name is *)
(* normalised in the hash and as it came in the prefix.                     *)
generate_key(q) ==
  [model |-> q.model, user |-> q.user,
   hash |-> <<_normalize_messages(q.messages), Lower[q.model], (q.temperature + 5) \div 10,
              q.user>>]

Keys == {generate_key(Requests[n]) : n \in DOMAIN Requests}
LargeKeys == {generate_key(q) : q \in Large}
KeySeq == [n \in DOMAIN Requests |-> generate_key(Requests[n])]

(* The parts between the colons of a key of Redis, after "chat:v1"; None is *)
(* the hash, which is nobody's name.                                        *)
Raws == Keys \X {"data", "meta"}
Parts(raw) == <<raw[1].model>> \o (IF raw[1].user = None THEN <<>> ELSE <<raw[1].user>>)
              \o <<None>> \o (IF raw[2] = "meta" THEN <<"meta">> ELSE <<>>)
Present == (data \X {"data"}) \cup (meta \X {"meta"})

Idle == [phase |-> "idle"]
Init ==
  /\ data = {} /\ meta = {}
  /\ index = <<>> /\ storing = None /\ clear = Idle /\ disturbed = {}

TypeOK ==
  /\ data \subseteq Keys /\ meta \subseteq Keys
  /\ \A n \in DOMAIN index : index[n].key \in Keys
  /\ storing = None \/ storing.q \in Range(Requests)
  /\ clear.phase \in {"idle", "scan", "delete", "done"}
  /\ disturbed \subseteq Keys

(* --- The index of what was asked ----------------------------------------- *)
_extract_message_content(ms) == SelectSeq(ms, LAMBDA x : x.role \in {"user", "system"})

Content(k) == index[CHOOSE n \in DOMAIN index : index[n].key = k].content
Indexed(k) == \E n \in DOMAIN index : index[n].key = k

(* The text as a whole is normalised: only its last marks are dropped.      *)
Stripped(c) == IF c = <<>> THEN c
               ELSE [c EXCEPT ![Len(c)].content = [words |-> _normalize_text(@), marks |-> 0]]
calculate_similarity(c1, c2) ==
  IF Stripped(c1) = Stripped(c2) THEN 100 ELSE Score[Len(c1), Len(c2)]

\* Variant: the newest entries are dropped.
Trimmed_Newest(s) == IF Len(s) > MaxIndex THEN SubSeq(s, 1, MaxIndex - Dropped) ELSE s
Trimmed(s) == IF Len(s) > MaxIndex THEN SubSeq(s, Dropped + 1, Len(s)) ELSE s

(* A key indexed before keeps its place among the oldest.                   *)
add_to_similarity_index(k, ms) ==
  LET entry == [key |-> k, content |-> _extract_message_content(ms)]
  IN  IF Indexed(k) THEN [n \in DOMAIN index |-> IF index[n].key = k THEN entry ELSE index[n]]
      ELSE Trimmed(Append(index, entry))

\* Variant: what was indexed is looked through, cached or not.
Considered_Indexed(q, cached) == {index[n].key : n \in DOMAIN index}
(* Only the model's name is compared, as a part of the key.                 *)
Considered(q, cached) ==
  {k \in {cached[n] : n \in DOMAIN cached \cap 1..MaxCandidates} :
     <<Lower[q.model], Lower[k.model]>> \in Within /\ Indexed(k)}

find_similar_key(q, cached) ==
  LET Likeness(k) == calculate_similarity(_extract_message_content(q.messages), Content(k))
      close == {k \in Considered(q, cached) : Likeness(k) > Threshold}
  IN  IF close = {} THEN None
      ELSE CHOOSE k \in close : \A other \in close : Likeness(other) <= Likeness(k)

Cached == SelectSeq(KeySeq, LAMBDA k : k \in data)

(* --- Storing and clearing ------------------------------------------------ *)
InFlight == storing # None /\ ~storing.stored

(* RedisCache.cache_response: the answer, then its metadata; a warm cache   *)
(* call and a request that was answered store alike.                        *)
Stores(q) ==
  LET k == generate_key(q) IN
  /\ ~InFlight
  /\ storing' = [q |-> q, stored |-> FALSE]
  /\ data' = data \cup {k}
  /\ disturbed' = IF k \in LargeKeys /\ clear.phase \in {"scan", "delete"}
                  THEN disturbed \cup {k} ELSE disturbed \ {k}
  /\ clear' = IF clear.phase = "idle" THEN clear ELSE [clear EXCEPT !.stood = @ \ {k}]
  /\ UNCHANGED <<meta, index>>

Stored ==
  /\ InFlight
  /\ LET k == generate_key(storing.q) IN
       /\ meta' = meta \cup {k}
       /\ index' = add_to_similarity_index(k, storing.q.messages)
  /\ storing' = [storing EXCEPT !.stored = TRUE]
  /\ UNCHANGED <<data, clear, disturbed>>

\* Variant: a star for the user, whoever is asked for.
generate_pattern_Any(model, user) == [model |-> model, user |-> None]
(* chat:v1:<model or *>:<user or *>:*                                       *)
generate_pattern(model, user) == [model |-> model, user |-> user]

(* What a star stands for may hold colons, and a key needs three parts.     *)
Matches(p, raw) ==
  LET parts == Parts(raw)
      Fits(name, from, to) == name = None \/ (from = to /\ parts[from] = name)
  IN  \E m \in DOMAIN parts : \E n \in m + 1..Len(parts) - 1 :
        Fits(p.model, 1, m) /\ Fits(p.user, m + 1, n)

AskedFor(model, user) ==
  {k \in Keys : (model = None \/ k.model = model) /\ (user = None \/ k.user = user)}

(* clear_cache: a pattern for a model or a user, everything without one.    *)
clear_cache(model, user) ==
  /\ clear.phase \in {"idle", "done"}
  /\ \/ /\ model # None \/ user # None
        /\ LET p == generate_pattern(model, user) IN
             clear' = [phase |-> "scan", model |-> model, user |-> user, page |-> {},
                       left |-> {raw \in Present : Matches(p, raw)},
                       stood |-> data \cap AskedFor(model, user), strays |-> {}]
        /\ UNCHANGED <<data, meta>>
     \/ /\ model = None /\ user = None /\ clear' = Idle
        /\ data' = {} /\ meta' = {}
  /\ UNCHANGED <<index, storing, disturbed>>

(* SCAN lists what was there all along, and may list what came since.       *)
Scans ==
  LET p == generate_pattern(clear.model, clear.user)
      there == {raw \in Present : Matches(p, raw)}
  IN  /\ clear.phase = "scan"
      /\ \E page \in SUBSET there :
           /\ page # {} \/ clear.left \cap there = {}
           /\ clear' = [clear EXCEPT !.phase = "delete", !.page = page, !.left = @ \ page]
      /\ UNCHANGED <<data, meta, index, storing, disturbed>>

\* Variant: the metadata of what was found, in the place of both.
Doomed_Meta(page) == {<<raw[1], "meta">> : raw \in page}
(* Each key found, and what would be the metadata of it.                    *)
Doomed(page) == page \cup {<<raw[1], "meta">> : raw \in {x \in page : x[2] = "data"}}

Deletes ==
  /\ clear.phase = "delete"
  /\ LET gone == Doomed(clear.page) IN
       /\ data' = {k \in data : <<k, "data">> \notin gone}
       /\ meta' = {k \in meta : <<k, "meta">> \notin gone}
       /\ clear' = [clear EXCEPT
                      !.phase = IF clear.left \cap Present = {} THEN "done" ELSE "scan",
                      !.page = {},
                      !.strays = @ \cup ({raw[1] : raw \in gone}
                                         \ AskedFor(clear.model, clear.user))]
  /\ UNCHANGED <<index, storing, disturbed>>

(* Redis fails: what was deleted stays so, and 0 is returned.               *)
Fails ==
  /\ clear.phase \in {"scan", "delete"}
  /\ clear' = Idle
  /\ disturbed' = disturbed \cup (AskedFor(clear.model, clear.user) \cap LargeKeys)
  /\ UNCHANGED <<data, meta, index, storing>>

Next ==
  \/ \E n \in DOMAIN Requests : Stores(Requests[n])
  \/ Stored
  \/ \E c \in Cleared : clear_cache(c[1], c[2])
  \/ Scans \/ Deletes \/ Fails

Spec == Init /\ [][Next]_vars

(* --- Properties ---------------------------------------------------------- *)
(* The index stays within its limit and holds the last key that was added   *)
(* (add_to_similarity_index).                                               *)
IndexHolds ==
  /\ Len(index) <= MaxIndex
  /\ storing # None /\ storing.stored => Indexed(generate_key(storing.q))

(* Similar is only what is cached still: the index keeps keys that were     *)
(* cleared since (find_similar_key).                                        *)
SimilarIsCached ==
  \A q \in Asked : LET k == find_similar_key(q, Cached) IN k # None => k \in data

(* Clearing a model or a user touches no entry of another one, however the  *)
(* scan meets the stores (clear_cache, generate_pattern, invalidate_cache). *)
ClearTakesItsOwn ==
  clear.phase \in {"scan", "delete", "done"} => clear.strays = {}

(* What was there when a clear began and was not stored again is gone at    *)
(* its end, except the entries without a user: their keys have one part     *)
(* less than the pattern.                                                   *)
ClearedAreGone ==
  clear.phase = "done" => \A k \in clear.stood \cap data : k.user = None

(* A compressed answer has lost its metadata, without which it cannot be    *)
(* read, only if it has no user, so that a clear finds its metadata but not *)
(* the answer, or was stored while a clear was under way, or the clear that *)
(* was to delete it failed.                                                 *)
UnreadableForCause ==
  \A k \in (data \ meta) \cap LargeKeys :
    clear.phase \in {"idle", "done"} =>
      \/ k.user = None \/ k \in disturbed
      \/ InFlight /\ generate_key(storing.q) = k
=============================================================================
