------------------------------ MODULE RedisCache ------------------------------
(***************************************************************************)
(* cache/redis_cache.py RedisCache: coroutines that read, write and        *)
(* invalidate entries, one Redis command at a time, and the circuit        *)
(* breaker they share.                                                     *)
(*                                                                         *)
(* An entry is two Redis keys: the data, compressed when it is large, and  *)
(* its metadata, which says whether it is.  They are written and read by   *)
(* separate commands, between which other coroutines' commands run.  A     *)
(* command is one step; so is what its caller does with the reply.         *)
(*                                                                         *)
(* decode_responses is False: keys that SCAN and SMEMBERS return are       *)
(* bytes, and f"{k}:meta" of bytes names no key that exists.  Only deletion *)
(* by key reaches the metadata, and a scan that finds it as a key.         *)
(***************************************************************************)
EXTENDS Naturals, FiniteSets, TLC

CONSTANTS
  Callers,           \* coroutines, one call at a time each
  Keys,
  Tagged,            \* those whose writer gives the tag (warm_cache gives none)
  Values,
  Large,             \* values that are stored compressed
  Ttl,               \* ttl_seconds: the writers' only time to live
  FailureThreshold,
  RedisFails,        \* whether a command may fail
  NoValue

ASSUME CacheAssumption ==
  /\ Keys # {} /\ Tagged \subseteq Keys
  /\ Large \subseteq Values
  /\ Ttl \in Nat \ {0}
  /\ FailureThreshold \in Nat \ {0}
  /\ RedisFails \in BOOLEAN
  /\ NoValue \notin Values

VARIABLES
  data,       \* data[k]: value and time to live
  meta,       \* meta[k]: the "compressed" flag and time to live of k:meta
  tag,        \* tag:<model>: its members and time to live
  breaker,    \* state and failure_count; elapsed: recovery_timeout has passed
  call,       \* call[c]: what c is doing, and its local variables
  raced,      \* history: the last write of k overlapped another change, failed, or lost
              \* its tag set, which ran out between SADD and EXPIRE
  torn        \* history: what deletions by pattern have taken from an entry of k that
              \* is not raced, and left its data: its metadata, the tag set, or both

redis == <<data, meta, tag>>
history == <<raced, torn>>
vars == <<redis, breaker, call, history>>

PutSteps == {"put_data", "put_meta", "put_tag", "put_expire"}
InvalidateSteps == {"del_key", "members", "del_members", "del_tag", "scan", "del_page", "flush"}
GetSteps == {"get_data", "get_meta"}
Commands == PutSteps \cup InvalidateSteps \cup GetSteps

Idle == [step |-> "idle", key |-> CHOOSE k \in Keys : TRUE, value |-> NoValue,
         found |-> [data |-> {}, meta |-> {}, tag |-> FALSE]]

NoData == [value |-> NoValue, ttl |-> 0]
NoMeta == [compressed |-> FALSE, ttl |-> 0]
NoTag  == [members |-> {}, ttl |-> 0]

Init ==
  /\ data = [k \in Keys |-> NoData]
  /\ meta = [k \in Keys |-> NoMeta]
  /\ tag = NoTag
  /\ breaker = [state |-> "closed", failure_count |-> 0, elapsed |-> FALSE]
  /\ call = [c \in Callers |-> Idle]
  /\ raced = [k \in Keys |-> FALSE]
  /\ torn = [k \in Keys |-> {}]

-----------------------------------------------------------------------------
\* The circuit breaker.  failure_count is only compared with the threshold, so
\* counting stops there.

is_open == breaker.state = "open" /\ ~breaker.elapsed

\* is_open() moves an open breaker whose timeout has passed to half-open.
AfterCheck ==
  IF breaker.state = "open" /\ breaker.elapsed
  THEN [breaker EXCEPT !.state = "half-open"] ELSE breaker

\* Variant: the count is kept.
record_success_KeepsCount == [breaker EXCEPT !.state = "closed"]

record_success == [breaker EXCEPT !.state = "closed", !.failure_count = 0]

record_failure ==
  LET n == IF breaker.failure_count < FailureThreshold
           THEN breaker.failure_count + 1 ELSE breaker.failure_count
  IN  [state |-> IF n >= FailureThreshold THEN "open" ELSE breaker.state,
       failure_count |-> n, elapsed |-> FALSE]

RecoveryTimeout ==
  /\ breaker.state = "open" /\ ~breaker.elapsed
  /\ breaker' = [breaker EXCEPT !.elapsed = TRUE]
  /\ UNCHANGED <<redis, call, history>>

-----------------------------------------------------------------------------
Live(x) == x.ttl > 0

Writers(k) == {c \in Callers : call[c].step \in PutSteps /\ call[c].key = k}
Invalidators == {c \in Callers : call[c].step \in InvalidateSteps}

\* A call that reads or writes looks at the breaker before its first command.
Begin(c, new) ==
  /\ call[c] = Idle
  /\ ~is_open
  /\ breaker' = AfterCheck
  /\ call' = [call EXCEPT ![c] = new]
  /\ UNCHANGED redis

Get(c, k) ==
  /\ Begin(c, [Idle EXCEPT !.step = "get_data", !.key = k])
  /\ UNCHANGED history

Put(c, k, v) ==
  /\ Begin(c, [Idle EXCEPT !.step = "put_data", !.key = k, !.value = v])
  /\ raced' = [raced EXCEPT ![k] = Writers(k) \cup Invalidators # {}]
  /\ torn' = [torn EXCEPT ![k] = {}]

\* Invalidation, by key, by tag, by pattern or of everything, does not ask the breaker.
Invalidate(c, first, k) ==
  /\ call[c] = Idle
  /\ first \in {"del_key", "members", "scan", "flush"}
  /\ call' = [call EXCEPT ![c] = [Idle EXCEPT !.step = first, !.key = k]]
  /\ raced' = [j \in Keys |-> raced[j] \/ Writers(j) # {}]
  /\ UNCHANGED <<redis, breaker, torn>>

\* The reply has come; the call goes on to its next command, or returns.  The names
\* of an earlier reply are done with, and so is the value once its metadata is stored.
Continue(c, step) ==
  call' = [call EXCEPT ![c] =
             IF step = "idle" THEN Idle
             ELSE [Idle EXCEPT !.step = step, !.key = call[c].key,
                               !.value = IF step = "put_meta" THEN call[c].value ELSE NoValue]]

At(c, step) == call[c].step = step

-----------------------------------------------------------------------------
\* get_cached_response

Compressed(k) == Live(meta[k]) /\ meta[k].compressed

\* Data is taken for what the metadata says; both ways of being wrong raise.
Decodes(v, k) == (v \in Large) = Compressed(k)

GetData(c) ==
  /\ At(c, "get_data")
  /\ LET k == call[c].key IN
       IF Live(data[k])
       THEN call' = [call EXCEPT ![c].step = "get_meta", ![c].value = data[k].value]
       ELSE Continue(c, "idle")
  /\ UNCHANGED <<redis, breaker, history>>

GetMeta(c) ==
  /\ At(c, "get_meta")
  /\ breaker' = IF Decodes(call[c].value, call[c].key) THEN record_success ELSE record_failure
  /\ Continue(c, "idle")
  /\ UNCHANGED <<redis, history>>

-----------------------------------------------------------------------------
\* cache_response

SetData(c) ==
  data' = [data EXCEPT ![call[c].key] = [value |-> call[c].value, ttl |-> Ttl]]

SetMeta(c) ==
  meta' = [meta EXCEPT ![call[c].key] = [compressed |-> call[c].value \in Large, ttl |-> Ttl]]

PutData(c) ==
  At(c, "put_data") /\ SetData(c) /\ Continue(c, "put_meta")
    /\ UNCHANGED <<meta, tag, breaker, history>>

\* Variant: metadata is written for compressed data only.
PutMeta_IfLarge(c) ==
  /\ At(c, "put_meta")
  /\ IF call[c].value \in Large THEN SetMeta(c) ELSE UNCHANGED meta
  /\ Continue(c, IF call[c].key \in Tagged THEN "put_tag" ELSE "idle")
  /\ breaker' = IF call[c].key \in Tagged THEN breaker ELSE record_success
  /\ UNCHANGED <<data, tag, history>>

PutMeta(c) ==
  /\ At(c, "put_meta") /\ SetMeta(c)
  /\ Continue(c, IF call[c].key \in Tagged THEN "put_tag" ELSE "idle")
  /\ breaker' = IF call[c].key \in Tagged THEN breaker ELSE record_success
  /\ UNCHANGED <<data, tag, history>>

\* SADD makes a set without a time to live when there is none: it lasts until
\* the EXPIRE that follows.
PutTag(c) ==
  /\ At(c, "put_tag")
  /\ tag' = [members |-> {call[c].key} \cup IF Live(tag) THEN tag.members ELSE {},
             ttl |-> IF Live(tag) THEN tag.ttl ELSE Ttl + 1]
  /\ Continue(c, "put_expire")
  /\ UNCHANGED <<data, meta, breaker, history>>

\* Variant: the time to live is added to.
PutExpire_Adds(c) ==
  /\ At(c, "put_expire")
  /\ tag' = IF Live(tag) THEN [tag EXCEPT !.ttl = @ + Ttl] ELSE tag
  /\ breaker' = record_success
  /\ Continue(c, "idle")
  /\ UNCHANGED <<data, meta, history>>

\* Variant: the set's time to live is set once.
PutExpire_Once(c) ==
  /\ At(c, "put_expire")
  /\ tag' = IF tag.ttl > Ttl THEN [tag EXCEPT !.ttl = Ttl] ELSE tag
  /\ breaker' = record_success
  /\ Continue(c, "idle")
  /\ UNCHANGED <<data, meta, history>>

PutExpire(c) ==
  /\ At(c, "put_expire")
  /\ tag' = IF Live(tag) THEN [tag EXCEPT !.ttl = Ttl] ELSE tag
  /\ breaker' = record_success
  /\ Continue(c, "idle")
  /\ UNCHANGED <<data, meta, history>>

-----------------------------------------------------------------------------
\* invalidate_cache and clear_all

Delete(datas, metas) ==
  /\ data' = [k \in Keys |-> IF k \in datas THEN NoData ELSE data[k]]
  /\ meta' = [k \in Keys |-> IF k \in metas THEN NoMeta ELSE meta[k]]

DelKey(c) ==
  /\ At(c, "del_key")
  /\ Delete({call[c].key}, {call[c].key})
  /\ Continue(c, "idle")
  /\ UNCHANGED <<tag, breaker, history>>

\* The reply lists names; the call deletes them next.
Found(c, step, names) == call' = [call EXCEPT ![c].step = step, ![c].found = names]

ReadMembers(c) ==
  /\ At(c, "members")
  /\ IF Live(tag) THEN Found(c, "del_members", [data |-> tag.members, meta |-> {}, tag |-> FALSE])
     ELSE Continue(c, "idle")
  /\ UNCHANGED <<redis, breaker, history>>

DelMembers(c) ==
  /\ At(c, "del_members")
  /\ Delete(call[c].found.data, {})
  /\ Continue(c, "del_tag")
  /\ UNCHANGED <<tag, breaker, history>>

\* A page of SCAN: any of the names that exist, whatever their kind, since the
\* pattern is the caller's and a page has about a hundred.  One without a match
\* is skipped, and the last ends the call.
ScanPage(c) ==
  /\ At(c, "scan")
  /\ \/ \E names \in [data : SUBSET {k \in Keys : Live(data[k])},
                       meta : SUBSET {k \in Keys : Live(meta[k])},
                       tag : {Live(tag)} \cup {FALSE}] :
            Found(c, "del_page", names)
     \/ Continue(c, "idle")
  /\ UNCHANGED <<redis, breaker, history>>

\* What has been taken from the entry of k with these names, if there still is one.
TakenFrom(k, names) ==
  IF Live(data'[k]) /\ ~raced[k]
  THEN torn[k] \cup {part \in {"meta", "tag"} :
                        IF part = "meta" THEN k \in names.meta ELSE names.tag}
  ELSE {}

\* The names of the page are deleted, each as it was found; the next page, if any,
\* follows.
DelPage(c) ==
  /\ At(c, "del_page")
  /\ LET names == call[c].found IN
       /\ Delete(names.data, names.meta)
       /\ tag' = IF names.tag THEN NoTag ELSE tag
       /\ torn' = [k \in Keys |-> TakenFrom(k, names)]
  /\ Continue(c, "scan") \/ Continue(c, "idle")
  /\ UNCHANGED <<breaker, raced>>

DelTag(c) ==
  /\ At(c, "del_tag")
  /\ tag' = NoTag
  /\ Continue(c, "idle")
  /\ UNCHANGED <<data, meta, breaker, history>>

Flush(c) ==
  /\ At(c, "flush")
  /\ Delete(Keys, Keys)
  /\ tag' = NoTag
  /\ Continue(c, "idle")
  /\ UNCHANGED <<breaker, history>>

-----------------------------------------------------------------------------
\* A command fails: it did not run, or it ran and its reply was lost (which
\* matters for the data of a write).  Invalidation swallows the error.
Fault(c) ==
  /\ RedisFails /\ call[c].step \in Commands
  /\ Continue(c, "idle")
  /\ \/ UNCHANGED redis
     \/ At(c, "put_data") /\ SetData(c) /\ UNCHANGED <<meta, tag>>
  /\ breaker' = IF call[c].step \in InvalidateSteps THEN breaker ELSE record_failure
  /\ raced' = [raced EXCEPT ![call[c].key] = @ \/ call[c].step \in PutSteps]
  /\ UNCHANGED torn

Aged(x, none) == IF x.ttl > 1 THEN [x EXCEPT !.ttl = @ - 1] ELSE none

\* A unit of the time to live passes.  A tag set without one does not age.
Tick ==
  /\ \E k \in Keys : Live(data[k]) \/ Live(meta[k])
  /\ data' = [k \in Keys |-> Aged(data[k], NoData)]
  /\ meta' = [k \in Keys |-> Aged(meta[k], NoMeta)]
  /\ tag' = IF tag.ttl > Ttl THEN tag ELSE Aged(tag, NoTag)
  /\ raced' = [k \in Keys |-> raced[k] \/
                 (tag.ttl = 1 /\ \E c \in Writers(k) : At(c, "put_expire"))]
  /\ UNCHANGED <<breaker, call, torn>>

Step(c) ==
  \/ GetData(c) \/ GetMeta(c)
  \/ PutData(c) \/ PutMeta(c) \/ PutTag(c) \/ PutExpire(c)
  \/ DelKey(c) \/ Flush(c)
  \/ ReadMembers(c) \/ DelMembers(c) \/ DelTag(c)
  \/ ScanPage(c) \/ DelPage(c)
  \/ Fault(c)

Next ==
  \/ \E c \in Callers, k \in Keys :
       \/ Get(c, k)
       \/ \E v \in Values : Put(c, k, v)
       \/ Invalidate(c, "del_key", k)
  \/ \E c \in Callers, first \in {"members", "scan", "flush"} : Invalidate(c, first, Idle.key)
  \/ \E c \in Callers : Step(c)
  \/ RecoveryTimeout \/ Tick

Spec == Init /\ [][Next]_vars

\* The coroutines are alike.
CallerSymmetry == Permutations(Callers)

-----------------------------------------------------------------------------
TypeOK ==
  /\ data \in [Keys -> [value : Values \cup {NoValue}, ttl : 0..Ttl]]
  /\ meta \in [Keys -> [compressed : BOOLEAN, ttl : 0..Ttl]]
  /\ tag \in [members : SUBSET Keys, ttl : 0..(Ttl + 1)]
  /\ breaker \in [state : {"closed", "open", "half-open"},
                  failure_count : 0..FailureThreshold, elapsed : BOOLEAN]
  /\ call \in [Callers -> [step : Commands \cup {"idle"}, key : Keys,
                           value : Values \cup {NoValue},
                           found : [data : SUBSET Keys, meta : SUBSET Keys, tag : BOOLEAN]]]
  /\ raced \in [Keys -> BOOLEAN]
  /\ torn \in [Keys -> SUBSET {"meta", "tag"}]

\* An entry whose last write ran without a fault and without another writer or
\* an invalidation beside it can be read for as long as it lives: its metadata is
\* its own and does not go before it, whatever was left of earlier entries, and
\* however it is invalidated.  The one exception is a large value whose metadata a
\* deletion by pattern has taken and left the data.
CleanEntriesAreReadable ==
  \A k \in Keys :
    Live(data[k]) /\ ~raced[k] /\ Writers(k) = {}
      => \/ Decodes(data[k].value, k)
         \/ data[k].value \in Large /\ "meta" \in torn[k]

\* ... and, stored with the tag, it can be found by it for as long as it lives,
\* unless a deletion by pattern has taken the set of the tag and left the data.
TagFindsEntries ==
  \A k \in Tagged :
    Live(data[k]) /\ ~raced[k] /\ Writers(k) = {}
      => \/ Live(tag) /\ k \in tag.members
         \/ "tag" \in torn[k]

\* The breaker is closed exactly while its count is below the threshold, although
\* calls let through before it opened report to it later.
CountMatchesState ==
  (breaker.state = "closed") = (breaker.failure_count < FailureThreshold)

\* redis_cache.py:57 "Circuit breaker pattern for Redis failures": no failure of
\* Redis, no open circuit.
OpensOnlyOnRedisFailures == breaker.state # "closed" => RedisFails
=============================================================================
