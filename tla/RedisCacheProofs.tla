-------------------------- MODULE RedisCacheProofs --------------------------
(***************************************************************************)
(* The cache's safety for any number of coroutines, keys and values: its    *)
(* breaker's count agrees with its state, and an entry whose last write     *)
(* nothing disturbed is readable and can be found by its tag, but for what  *)
(* a deletion by pattern took of it.                                        *)
(***************************************************************************)
EXTENDS RedisCache, TLAPS

Writes(c, k) == call[c].step \in PutSteps /\ call[c].key = k
Invalidates(c) == call[c].step \in InvalidateSteps

(* While nothing has disturbed a key's last write, its writer is alone with *)
(* the key, and no invalidation is at work beside it.                       *)
WriterIsAlone ==
  \A k \in Keys : \A c \in Callers : ~raced[k] /\ Writes(c, k) =>
    /\ \A d \in Callers : Writes(d, k) => d = c
    /\ \A d \in Callers : ~Invalidates(d)

(* What is stored is what its metadata says, and does not outlive it unless *)
(* a pattern took it.                                                       *)
Whole(k) ==
  Live(data[k]) =>
    IF data[k].value \in Large
    THEN \/ "meta" \in torn[k]
         \/ meta[k].compressed /\ data[k].ttl <= meta[k].ttl
    ELSE ~Compressed(k)
(* ... once its writer has come to the tag.                                 *)
WrittenIsWhole ==
  \A k \in Keys :
    ~raced[k] /\ (\A c \in Callers : Writes(c, k) => call[c].step \in {"put_tag", "put_expire"})
      => Whole(k)
(* Before that, the data is the writer's.                                   *)
DataIsWriters ==
  \A c \in Callers :
    call[c].step = "put_meta" /\ ~raced[call[c].key] /\ Live(data[call[c].key])
      => data[call[c].key].value = call[c].value
EntryInv == WrittenIsWhole /\ DataIsWriters

(* The tag has a key whose writer has come to its time to live ...          *)
TagHasWritten ==
  \A c \in Callers :
    call[c].step = "put_expire" /\ ~raced[call[c].key]
      => Live(tag) /\ call[c].key \in tag.members
(* ... or whose data lives, and does not go before it by itself.            *)
TagHasLiving ==
  \A k \in Tagged :
    ~raced[k] /\ (\A c \in Callers : ~Writes(c, k)) /\ Live(data[k]) /\ "tag" \notin torn[k]
      => Live(tag) /\ k \in tag.members /\ data[k].ttl <= tag.ttl
(* An invalidation by tag deletes the members, and then the tag.            *)
MembersGoFirst ==
  \A c \in Callers, k \in Tagged :
    ~raced[k] /\ Live(data[k]) /\ "tag" \notin torn[k] =>
      /\ call[c].step = "del_members" => k \in call[c].found.data
      /\ call[c].step # "del_tag"
TagInv == TagHasWritten /\ TagHasLiving /\ MembersGoFirst

-----------------------------------------------------------------------------
(* Types                                                                   *)
Names == [data : SUBSET Keys, meta : SUBSET Keys, tag : BOOLEAN]
Parts == {"meta", "tag"}
Calls == [step : Commands \cup {"idle"}, key : Keys, value : Values \cup {NoValue},
          found : Names]
Breakers == [state : {"closed", "open", "half-open"},
             failure_count : 0..FailureThreshold, elapsed : BOOLEAN]
EntriesOK ==
  /\ data \in [Keys -> [value : Values \cup {NoValue}, ttl : 0..Ttl]]
  /\ meta \in [Keys -> [compressed : BOOLEAN, ttl : 0..Ttl]]
  /\ tag \in [members : SUBSET Keys, ttl : 0..(Ttl + 1)]

LEMMA TypeParts ==
  TypeOK <=> EntriesOK /\ breaker \in Breakers /\ call \in [Callers -> Calls]
             /\ raced \in [Keys -> BOOLEAN] /\ torn \in [Keys -> SUBSET Parts]
  BY Zenon DEF TypeOK, EntriesOK, Breakers, Calls, Names, Parts

LEMMA IdleIsCall == Idle \in Calls /\ Idle.step = "idle" /\ Idle.key \in Keys
  <1> DEFINE none == [data |-> {}, meta |-> {}, tag |-> FALSE]
  <1>1. (CHOOSE k \in Keys : TRUE) \in Keys
    BY CacheAssumption
  <1>2. none \in Names
    BY DEF Names
  <1>3. Idle = [step |-> "idle", key |-> CHOOSE k \in Keys : TRUE, value |-> NoValue,
                found |-> none]
    BY DEF Idle
  <1> HIDE DEF none
  <1> QED BY <1>1, <1>2, <1>3 DEF Calls

(* A call goes on to a step of its own; the others stay where they are.    *)
LEMMA Continues ==
  ASSUME call \in [Callers -> Calls], NEW c \in Callers,
         NEW step \in Commands \cup {"idle"}, Continue(c, step)
  PROVE  /\ call' \in [Callers -> Calls]
         /\ call'[c].step = step
         /\ step # "idle" => call'[c].key = call[c].key
         /\ step = "put_meta" => call'[c].value = call[c].value
         /\ \A d \in Callers \ {c} : call'[d] = call[d]
  <1> DEFINE v == IF step = "put_meta" THEN call[c].value ELSE NoValue
             new == IF step = "idle" THEN Idle
                    ELSE [Idle EXCEPT !.step = step, !.key = call[c].key, !.value = v]
  <1>1. call' = [call EXCEPT ![c] = new]
    BY DEF Continue
  <1>2. v \in Values \cup {NoValue} /\ (step = "put_meta" => v = call[c].value)
    BY DEF Calls
  <1> HIDE DEF v
  <1>3. /\ new \in Calls /\ new.step = step
        /\ step # "idle" => new.key = call[c].key
        /\ step = "put_meta" => new.value = v
    BY <1>2, IdleIsCall DEF Calls
  <1> HIDE DEF new
  <1> QED BY <1>1, <1>2, <1>3

(* The names a scan or a set of members returned are noted.                *)
LEMMA FoundIsNoted ==
  ASSUME call \in [Callers -> Calls], NEW c \in Callers, NEW step \in Commands,
         NEW names \in Names, Found(c, step, names)
  PROVE  /\ call' \in [Callers -> Calls]
         /\ call'[c].step = step /\ call'[c].key = call[c].key
         /\ call'[c].found = names
         /\ \A d \in Callers \ {c} : call'[d] = call[d]
  <1> DEFINE new == [call[c] EXCEPT !.step = step, !.found = names]
  <1>1. call' = [call EXCEPT ![c] = new]
    BY DEF Found
  <1>2. new \in Calls /\ new.step = step /\ new.key = call[c].key /\ new.found = names
    BY DEF Calls
  <1> HIDE DEF new
  <1> QED BY <1>1, <1>2

(* What a page may list.                                                   *)
LEMMA PageIsNamed ==
  ASSUME NEW c \in Callers, ScanPage(c)
  PROVE  /\ Continue(c, "idle") \/ \E names \in Names : Found(c, "del_page", names)
         /\ call[c].step = "scan" /\ UNCHANGED <<data, meta, tag, raced, torn>>
  <1>1. ASSUME NEW names \in [data : SUBSET {k \in Keys : Live(data[k])},
                              meta : SUBSET {k \in Keys : Live(meta[k])},
                              tag : {Live(tag)} \cup {FALSE}]
        PROVE  names \in Names
    <2>1. Live(tag) \in BOOLEAN
      BY DEF Live
    <2> QED BY <2>1 DEF Names
  <1> QED BY <1>1 DEF ScanPage, At, redis, history

LEMMA MembersAreNames ==
  ASSUME EntriesOK
  PROVE  [data |-> tag.members, meta |-> {}, tag |-> FALSE] \in Names
  BY DEF EntriesOK, Names

(* What a call's end, its failure or its check makes of the breaker.       *)
LEMMA BreakerTypes ==
  ASSUME breaker \in Breakers
  PROVE  AfterCheck \in Breakers /\ record_success \in Breakers /\ record_failure \in Breakers
  <1>1. /\ breaker.state \in {"closed", "open", "half-open"}
        /\ breaker.failure_count \in 0..FailureThreshold /\ breaker.elapsed \in BOOLEAN
        /\ breaker = [state |-> breaker.state, failure_count |-> breaker.failure_count,
                      elapsed |-> breaker.elapsed]
    BY DEF Breakers
  <1>2. AfterCheck \in Breakers
    BY DEF Breakers, AfterCheck
  <1>3. 0 \in 0..FailureThreshold
    BY CacheAssumption
  <1>4. record_success \in Breakers
    BY <1>3 DEF Breakers, record_success
  <1>5. record_failure \in Breakers
    <2> DEFINE n == IF breaker.failure_count < FailureThreshold
                    THEN breaker.failure_count + 1 ELSE breaker.failure_count
               s == IF n >= FailureThreshold THEN "open" ELSE breaker.state
    <2>1. n \in 0..FailureThreshold
      BY <1>1, CacheAssumption
    <2>2. s \in {"closed", "open", "half-open"}
      BY <1>1
    <2>3. record_failure = [state |-> s, failure_count |-> n, elapsed |-> FALSE]
      BY DEF record_failure
    <2> HIDE DEF n, s
    <2> QED BY <2>1, <2>2, <2>3 DEF Breakers
  <1> QED BY <1>2, <1>4, <1>5

LEMMA BreakerCounts ==
  ASSUME breaker \in Breakers, CountMatchesState
  PROVE  /\ (AfterCheck.state = "closed") = (AfterCheck.failure_count < FailureThreshold)
         /\ (record_success.state = "closed") = (record_success.failure_count < FailureThreshold)
         /\ (record_failure.state = "closed") = (record_failure.failure_count < FailureThreshold)
  BY CacheAssumption DEF Breakers, CountMatchesState, AfterCheck, record_success, record_failure

(* Every step leaves the breaker alone or does one of these four.          *)
LEMMA BreakerSteps ==
  ASSUME TypeOK, [Next]_vars
  PROVE  breaker' \in {breaker, AfterCheck, record_success, record_failure,
                       [breaker EXCEPT !.elapsed = TRUE]}
  <1>1. ASSUME NEW c \in Callers, Step(c)
        PROVE  breaker' \in {breaker, record_success, record_failure}
    BY <1>1 DEF Step, GetData, GetMeta, PutData, PutMeta, PutTag, PutExpire, DelKey,
                ReadMembers, DelMembers, ScanPage, DelPage, DelTag, Flush, Fault
  <1> QED BY <1>1 DEF Next, vars, Get, Put, Begin, Invalidate, RecoveryTimeout, Tick

LEMMA InitTypes == Init => TypeOK
  <1> SUFFICES ASSUME Init PROVE TypeOK
    OBVIOUS
  <1>1. Ttl \in Nat /\ FailureThreshold \in Nat
    BY CacheAssumption
  <1>2. EntriesOK
    <2>1. NoData \in [value : Values \cup {NoValue}, ttl : 0..Ttl]
          /\ NoMeta \in [compressed : BOOLEAN, ttl : 0..Ttl]
          /\ NoTag \in [members : SUBSET Keys, ttl : 0..(Ttl + 1)]
      BY <1>1 DEF NoData, NoMeta, NoTag
    <2> QED BY <2>1 DEF Init, EntriesOK
  <1>3. breaker \in Breakers
    BY <1>1 DEF Init, Breakers
  <1>4. /\ call \in [Callers -> Calls] /\ raced \in [Keys -> BOOLEAN]
        /\ torn \in [Keys -> SUBSET Parts]
    BY IdleIsCall DEF Init
  <1> QED BY <1>2, <1>3, <1>4, TypeParts

(* A call begins, and the others go on.                                    *)
LEMMA Begins ==
  ASSUME call \in [Callers -> Calls], NEW c \in Callers, NEW new \in Calls,
         call' = [call EXCEPT ![c] = new]
  PROVE  /\ call' \in [Callers -> Calls] /\ call'[c] = new
         /\ \A d \in Callers \ {c} : call'[d] = call[d]
  OBVIOUS

LEMMA NewCalls ==
  ASSUME NEW step \in Commands, NEW k \in Keys, NEW v \in Values
  PROVE  /\ [Idle EXCEPT !.step = step, !.key = k] \in Calls
         /\ [Idle EXCEPT !.step = step, !.key = k, !.value = v] \in Calls
  BY IdleIsCall DEF Calls

(* The data has been read; the metadata is next.                           *)
LEMMA DataIsRead ==
  ASSUME call \in [Callers -> Calls], EntriesOK, NEW c \in Callers,
         call' = [call EXCEPT ![c].step = "get_meta", ![c].value = data[call[c].key].value]
  PROVE  /\ call' \in [Callers -> Calls] /\ call'[c].step = "get_meta"
         /\ \A d \in Callers \ {c} : call'[d] = call[d]
  <1> DEFINE v == data[call[c].key].value
             new == [call[c] EXCEPT !.step = "get_meta", !.value = v]
  <1>1. v \in Values \cup {NoValue}
    BY DEF EntriesOK, Calls
  <1>2. call' = [call EXCEPT ![c] = new]
    OBVIOUS
  <1> HIDE DEF v
  <1>3. new \in Calls /\ new.step = "get_meta"
    BY <1>1 DEF Calls, Commands, GetSteps
  <1> HIDE DEF new
  <1> QED BY <1>2, <1>3

LEMMA StepNames ==
  /\ \A s \in {"get_data", "get_meta"} : s \in Commands /\ s \notin PutSteps /\ s \notin InvalidateSteps
  /\ \A s \in {"put_data", "put_meta", "put_tag", "put_expire"} :
       s \in Commands /\ s \in PutSteps /\ s \notin InvalidateSteps
  /\ \A s \in {"del_key", "members", "del_members", "del_tag", "scan", "del_page", "flush"} :
       s \in Commands /\ s \notin PutSteps /\ s \in InvalidateSteps
  /\ "idle" \notin PutSteps \cup InvalidateSteps
  /\ \A s \in Commands : s \notin PutSteps /\ s \notin InvalidateSteps => s \in {"get_data", "get_meta"}
  BY DEF Commands, PutSteps, InvalidateSteps, GetSteps

(* What the commands make of the entries has its types.                    *)
LEMMA EntryTypes ==
  ASSUME TypeOK, NEW c \in Callers
  PROVE  /\ SetData(c) /\ call[c].value \in Values \cup {NoValue}
              => data' \in [Keys -> [value : Values \cup {NoValue}, ttl : 0..Ttl]]
         /\ SetMeta(c) => meta' \in [Keys -> [compressed : BOOLEAN, ttl : 0..Ttl]]
  <1>1. EntriesOK /\ call[c] \in Calls /\ call[c].key \in Keys /\ Ttl \in 0..Ttl
    BY TypeParts, CacheAssumption DEF Calls
  <1>2. (call[c].value \in Large) \in BOOLEAN
    OBVIOUS
  <1> DEFINE m == [compressed |-> call[c].value \in Large, ttl |-> Ttl]
  <1>3. m \in [compressed : BOOLEAN, ttl : 0..Ttl]
    BY <1>1, <1>2, Zenon
  <1> HIDE DEF m
  <1>4. SetMeta(c) => meta' = [meta EXCEPT ![call[c].key] = m]
    BY Zenon DEF SetMeta, m
  <1> QED BY <1>1, <1>3, <1>4 DEF EntriesOK, SetData

LEMMA DeleteTypes ==
  ASSUME EntriesOK, NEW datas, NEW metas, Delete(datas, metas)
  PROVE  /\ data' \in [Keys -> [value : Values \cup {NoValue}, ttl : 0..Ttl]]
         /\ meta' \in [Keys -> [compressed : BOOLEAN, ttl : 0..Ttl]]
         /\ \A k \in Keys : data'[k] = (IF k \in datas THEN NoData ELSE data[k])
                            /\ meta'[k] = (IF k \in metas THEN NoMeta ELSE meta[k])
  <1>1. NoData \in [value : Values \cup {NoValue}, ttl : 0..Ttl]
        /\ NoMeta \in [compressed : BOOLEAN, ttl : 0..Ttl]
    BY CacheAssumption DEF NoData, NoMeta
  <1> QED BY <1>1 DEF Delete, EntriesOK

LEMMA AgedTypes ==
  ASSUME EntriesOK
  PROVE  /\ \A k \in Keys : /\ Aged(data[k], NoData) \in [value : Values \cup {NoValue}, ttl : 0..Ttl]
                            /\ Aged(meta[k], NoMeta) \in [compressed : BOOLEAN, ttl : 0..Ttl]
         /\ Aged(tag, NoTag) \in [members : SUBSET Keys, ttl : 0..(Ttl + 1)]
  <1>1. Ttl \in Nat
    BY CacheAssumption
  <1> QED BY <1>1 DEF EntriesOK, Aged, NoData, NoMeta, NoTag

LEMMA TornTypes ==
  ASSUME TypeOK, [Next]_vars
  PROVE  torn' \in [Keys -> SUBSET Parts]
  <1> USE DEF history
  <1>1. torn \in [Keys -> SUBSET Parts]
    BY TypeParts
  <1>2. ASSUME NEW c \in Callers, DelPage(c)
        PROVE  torn' \in [Keys -> SUBSET Parts]
    <2> DEFINE names == call[c].found
    <2>1. \A k \in Keys : TakenFrom(k, names) \in SUBSET Parts
      BY <1>1 DEF TakenFrom, Parts
    <2>2. torn' = [k \in Keys |-> TakenFrom(k, names)]
      BY <1>2 DEF DelPage
    <2> QED BY <2>1, <2>2
  <1>3. ASSUME NEW c \in Callers, Step(c), ~DelPage(c)
        PROVE  torn' = torn
    BY <1>3 DEF Step, GetData, GetMeta, PutData, PutMeta, PutTag, PutExpire, DelKey,
                ReadMembers, DelMembers, ScanPage, DelTag, Flush, Fault
  <1>4. ASSUME NEW c \in Callers, NEW k \in Keys, NEW v \in Values, Put(c, k, v)
        PROVE  torn' \in [Keys -> SUBSET Parts]
    BY <1>1, <1>4 DEF Put
  <1>5. ASSUME NEW c \in Callers, NEW k \in Keys, Get(c, k)
        PROVE  torn' = torn
    BY <1>5 DEF Get
  <1>6. ASSUME NEW c \in Callers, NEW first, NEW k \in Keys, Invalidate(c, first, k)
        PROVE  torn' = torn
    BY <1>6 DEF Invalidate
  <1>7. CASE RecoveryTimeout \/ Tick \/ UNCHANGED vars
    BY <1>1, <1>7 DEF RecoveryTimeout, Tick, vars
  <1> QED BY <1>1, <1>2, <1>3, <1>4, <1>5, <1>6, <1>7, IdleIsCall DEF Next

LEMMA StepTypes ==
  ASSUME TypeOK, [Next]_vars
  PROVE  TypeOK'
  <1> USE DEF redis, history
  <1>1. EntriesOK /\ breaker \in Breakers /\ call \in [Callers -> Calls] /\ raced \in [Keys -> BOOLEAN]
    BY TypeParts
  <1>2. breaker' \in Breakers
    BY <1>1, BreakerSteps, BreakerTypes DEF Breakers
  <1>10. torn' \in [Keys -> SUBSET Parts]
    BY TornTypes
  <1> SUFFICES EntriesOK' /\ call' \in [Callers -> Calls] /\ raced' \in [Keys -> BOOLEAN]
    BY <1>2, <1>10 DEF TypeOK, EntriesOK, Breakers, Calls, Names, Parts
  <1> DEFINE Same == UNCHANGED <<data, meta, tag>>
  <1>3. Same => EntriesOK'
    BY <1>1 DEF EntriesOK
  <1>4. ASSUME NEW c \in Callers, NEW k \in Keys, Get(c, k)
        PROVE  EntriesOK' /\ call' \in [Callers -> Calls] /\ raced' = raced
    <2> DEFINE new == [Idle EXCEPT !.step = "get_data", !.key = k]
    <2>1. new \in Calls
      BY IdleIsCall, StepNames DEF Calls
    <2>2. call' = [call EXCEPT ![c] = new] /\ Same /\ raced' = raced
      BY <1>4 DEF Get, Begin
    <2> HIDE DEF new
    <2> QED BY <1>1, <1>3, <2>1, <2>2, Begins
  <1>5. ASSUME NEW c \in Callers, NEW k \in Keys, NEW v \in Values, Put(c, k, v)
        PROVE  EntriesOK' /\ call' \in [Callers -> Calls] /\ raced' \in [Keys -> BOOLEAN]
    <2>1. raced' = [raced EXCEPT ![k] = (Writers(k) \cup Invalidators # {})]
      BY <1>5 DEF Put
    <2>2. (Writers(k) \cup Invalidators # {}) \in BOOLEAN
      OBVIOUS
    <2>3. raced' \in [Keys -> BOOLEAN]
      BY <1>1, <2>1, <2>2, Zenon
    <2> QED BY <1>1, <1>3, <1>5, <2>3, NewCalls, StepNames, Begins DEF Put, Begin
  <1>6. ASSUME NEW c \in Callers, NEW first, NEW k \in Keys, Invalidate(c, first, k)
        PROVE  EntriesOK' /\ call' \in [Callers -> Calls] /\ raced' \in [Keys -> BOOLEAN]
    <2>1. raced' = [j \in Keys |-> raced[j] \/ Writers(j) # {}]
      BY <1>6 DEF Invalidate
    <2>2. \A j \in Keys : (raced[j] \/ Writers(j) # {}) \in BOOLEAN
      OBVIOUS
    <2>3. raced' \in [Keys -> BOOLEAN]
      BY <2>1, <2>2, Zenon
    <2> DEFINE new == [Idle EXCEPT !.step = first, !.key = k]
    <2>4. new \in Calls
      BY <1>6, IdleIsCall, StepNames DEF Calls, Invalidate
    <2>5. call' = [call EXCEPT ![c] = new] /\ Same
      BY <1>6 DEF Invalidate
    <2> HIDE DEF new
    <2> QED BY <1>1, <1>3, <2>3, <2>4, <2>5, Begins
  <1>7. ASSUME NEW c \in Callers, Step(c)
        PROVE  EntriesOK' /\ call' \in [Callers -> Calls] /\ raced' \in [Keys -> BOOLEAN]
    <2>1. call[c] \in Calls /\ call[c].key \in Keys /\ call[c].value \in Values \cup {NoValue}
          /\ Ttl \in Nat \ {0}
      BY <1>1, CacheAssumption DEF Calls
    <2>2. CASE GetData(c)
      <3>1. CASE Live(data[call[c].key])
        BY <1>1, <1>3, <2>2, <3>1, DataIsRead DEF GetData
      <3>2. CASE ~Live(data[call[c].key])
        BY <1>1, <1>3, <2>2, <3>2, Continues DEF GetData
      <3> QED BY <3>1, <3>2
    <2>3. CASE GetMeta(c)
      BY <1>1, <1>3, <2>3, Continues DEF GetMeta
    <2>4. CASE PutData(c)
      BY <1>1, <2>1, <2>4, Continues, StepNames, EntryTypes DEF PutData, EntriesOK
    <2>5. CASE PutMeta(c)
      <3>1. (IF call[c].key \in Tagged THEN "put_tag" ELSE "idle") \in Commands \cup {"idle"}
        BY StepNames
      <3> QED BY <1>1, <2>1, <2>5, <3>1, Continues, EntryTypes DEF PutMeta, EntriesOK
    <2>6. CASE PutTag(c)
      <3> DEFINE ms == {call[c].key} \cup IF Live(tag) THEN tag.members ELSE {}
                 life == IF Live(tag) THEN tag.ttl ELSE Ttl + 1
      <3>1. ms \in SUBSET Keys /\ life \in 0..(Ttl + 1)
        BY <1>1, <2>1 DEF EntriesOK
      <3>2. tag' = [members |-> ms, ttl |-> life]
        BY <2>6 DEF PutTag
      <3> HIDE DEF ms, life
      <3> QED BY <1>1, <2>6, <3>1, <3>2, Continues, StepNames DEF PutTag, EntriesOK
    <2>7. CASE PutExpire(c)
      BY <1>1, <2>1, <2>7, Continues DEF PutExpire, EntriesOK
    <2>8. CASE DelKey(c)
      BY <1>1, <2>8, Continues, DeleteTypes DEF DelKey, EntriesOK
    <2>9. CASE ReadMembers(c)
      <3>1. [data |-> tag.members, meta |-> {}, tag |-> FALSE] \in Names
        BY <1>1, MembersAreNames
      <3> QED BY <1>1, <1>3, <2>9, <3>1, Continues, FoundIsNoted, StepNames DEF ReadMembers
    <2>10. CASE ScanPage(c)
      <3>1. /\ Continue(c, "idle") \/ \E names \in Names : Found(c, "del_page", names)
            /\ Same /\ raced' = raced
        BY <2>10, PageIsNamed
      <3> QED BY <1>1, <1>3, <3>1, Continues, FoundIsNoted, StepNames
    <2>11. CASE DelMembers(c)
      BY <1>1, <2>11, Continues, StepNames, DeleteTypes DEF DelMembers, EntriesOK
    <2>15. CASE DelPage(c)
      <3>1. tag' \in [members : SUBSET Keys, ttl : 0..(Ttl + 1)]
        BY <1>1, <2>1, <2>15 DEF DelPage, EntriesOK, NoTag
      <3>2. /\ Delete(call[c].found.data, call[c].found.meta)
            /\ Continue(c, "scan") \/ Continue(c, "idle")
            /\ raced' = raced
        BY <2>15 DEF DelPage
      <3> QED BY <1>1, <3>1, <3>2, Continues, StepNames, DeleteTypes DEF EntriesOK
    <2>12. CASE DelTag(c)
      BY <1>1, <2>1, <2>12, Continues DEF DelTag, EntriesOK, NoTag
    <2>13. CASE Flush(c)
      BY <1>1, <2>1, <2>13, Continues, DeleteTypes DEF Flush, EntriesOK, NoTag
    <2>14. CASE Fault(c)
      <3>1. raced' \in [Keys -> BOOLEAN]
        <4>1. raced' = [raced EXCEPT ![call[c].key] = (raced[call[c].key] \/ call[c].step \in PutSteps)]
          BY <2>14, Zenon DEF Fault
        <4>2. (raced[call[c].key] \/ call[c].step \in PutSteps) \in BOOLEAN
          OBVIOUS
        <4> QED BY <1>1, <4>1, <4>2, Zenon
      <3>2. call' \in [Callers -> Calls]
        BY <1>1, <2>14, Continues DEF Fault
      <3>3. EntriesOK'
        <4>1. CASE Same
          BY <1>3, <4>1
        <4>2. CASE SetData(c) /\ UNCHANGED <<meta, tag>>
          BY <1>1, <2>1, <4>2, EntryTypes DEF EntriesOK
        <4> QED BY <2>14, <4>1, <4>2 DEF Fault
      <3> QED BY <3>1, <3>2, <3>3
    <2> QED BY <1>1, <1>7, <2>2, <2>3, <2>4, <2>5, <2>6, <2>7, <2>8, <2>9, <2>10, <2>11, <2>12,
               <2>13, <2>14, <2>15 DEF Step
  <1>8. CASE Tick
    <2>1. tag' \in [members : SUBSET Keys, ttl : 0..(Ttl + 1)]
      BY <1>1, <1>8, AgedTypes DEF Tick, EntriesOK
    <2>2. raced' \in [Keys -> BOOLEAN]
      <3>1. raced' = [k \in Keys |-> raced[k] \/
                        (tag.ttl = 1 /\ \E c \in Writers(k) : At(c, "put_expire"))]
        BY <1>8 DEF Tick
      <3>2. \A k \in Keys : (raced[k] \/ (tag.ttl = 1 /\ \E c \in Writers(k) : At(c, "put_expire")))
                              \in BOOLEAN
        OBVIOUS
      <3> QED BY <3>1, <3>2, Zenon
    <2> QED BY <1>1, <1>8, <2>1, <2>2, AgedTypes DEF Tick, EntriesOK
  <1>9. CASE RecoveryTimeout \/ UNCHANGED vars
    BY <1>1, <1>3, <1>9 DEF RecoveryTimeout, vars
  <1> QED BY <1>1, <1>4, <1>5, <1>6, <1>7, <1>8, <1>9, IdleIsCall DEF Next

-----------------------------------------------------------------------------
(* Who writes and who invalidates                                          *)

(* A call that is under way takes up no writing and no invalidation.       *)
LEMMA StepGoesOn ==
  ASSUME TypeOK, NEW c \in Callers, Step(c)
  PROVE  /\ DelPage(c) \/ torn' = torn
         /\ \A d \in Callers \ {c} : call'[d] = call[d]
         /\ call'[c].step \in PutSteps => call[c].step \in PutSteps /\ call'[c].key = call[c].key
         /\ call'[c].step \in InvalidateSteps => call[c].step \in InvalidateSteps
         /\ \A k \in Keys : raced[k] => raced'[k]
  <1> USE DEF history
  <1>1. EntriesOK /\ call \in [Callers -> Calls] /\ raced \in [Keys -> BOOLEAN]
    BY TypeParts
  <1>2. CASE GetData(c)
    <2>1. call' = [call EXCEPT ![c].step = "get_meta", ![c].value = data[call[c].key].value]
          \/ Continue(c, "idle")
      BY <1>2 DEF GetData
    <2> QED BY <1>1, <1>2, <2>1, DataIsRead, Continues, StepNames DEF GetData
  <1>3. CASE GetMeta(c)
    BY <1>1, <1>3, Continues, StepNames DEF GetMeta
  <1>4. CASE PutData(c)
    BY <1>1, <1>4, Continues, StepNames DEF PutData, At
  <1>5. CASE PutMeta(c)
    <2>1. Continue(c, "put_tag") \/ Continue(c, "idle")
      BY <1>5 DEF PutMeta
    <2> QED BY <1>1, <1>5, <2>1, Continues, StepNames DEF PutMeta, At
  <1>6. CASE PutTag(c)
    BY <1>1, <1>6, Continues, StepNames DEF PutTag, At
  <1>7. CASE PutExpire(c) \/ DelKey(c) \/ DelTag(c) \/ Flush(c)
    BY <1>1, <1>7, Continues, StepNames DEF PutExpire, DelKey, DelTag, Flush
  <1>8. CASE ReadMembers(c)
    <2> DEFINE names == [data |-> tag.members, meta |-> {}, tag |-> FALSE]
    <2>1. names \in Names
      BY <1>1, MembersAreNames
    <2>2. Found(c, "del_members", names) \/ Continue(c, "idle")
      BY <1>8 DEF ReadMembers
    <2> HIDE DEF names
    <2>3. call[c].step = "members" /\ raced' = raced /\ torn' = torn
      BY <1>8 DEF ReadMembers, At
    <2>4. CASE Found(c, "del_members", names)
      <3>1. call'[c].step = "del_members" /\ \A d \in Callers \ {c} : call'[d] = call[d]
        BY <1>1, <2>1, <2>4, FoundIsNoted, StepNames
      <3> QED BY <2>3, <3>1, StepNames
    <2>5. CASE Continue(c, "idle")
      BY <1>1, <2>3, <2>5, Continues, StepNames
    <2> QED BY <2>2, <2>4, <2>5
  <1>9. CASE ScanPage(c)
    BY <1>1, <1>9, PageIsNamed, Continues, FoundIsNoted, StepNames
  <1>10. CASE DelMembers(c)
    BY <1>1, <1>10, Continues, StepNames DEF DelMembers, At
  <1>12. CASE DelPage(c)
    BY <1>1, <1>12, Continues, StepNames DEF DelPage, At
  <1>11. CASE Fault(c)
    <2>1. \A k \in Keys : raced[k] => raced'[k]
      <3>1. raced' = [raced EXCEPT ![call[c].key] = (raced[call[c].key] \/ call[c].step \in PutSteps)]
        BY <1>11, Zenon DEF Fault
      <3> QED BY <1>1, <3>1
    <2> QED BY <1>1, <1>11, <2>1, Continues, StepNames DEF Fault
  <1> QED BY <1>2, <1>3, <1>4, <1>5, <1>6, <1>7, <1>8, <1>9, <1>10, <1>11, <1>12 DEF Step

(* A read begins.                                                          *)
LEMMA GetBegins ==
  ASSUME TypeOK, NEW c \in Callers, NEW k \in Keys, Get(c, k)
  PROVE  /\ call'[c].step = "get_data" /\ \A d \in Callers \ {c} : call'[d] = call[d]
         /\ UNCHANGED <<data, meta, tag, raced, torn>>
  <1> DEFINE new == [Idle EXCEPT !.step = "get_data", !.key = k]
  <1>1. new \in Calls /\ new.step = "get_data"
    BY IdleIsCall, StepNames DEF Calls
  <1>2. call' = [call EXCEPT ![c] = new] /\ UNCHANGED <<data, meta, tag, raced, torn>>
    BY DEF Get, Begin, redis, history
  <1> HIDE DEF new
  <1> QED BY <1>1, <1>2, TypeParts, Begins

(* A write begins, which is disturbed if anyone is at work on its key.     *)
LEMMA PutBegins ==
  ASSUME TypeOK, NEW c \in Callers, NEW k \in Keys, NEW v \in Values, Put(c, k, v)
  PROVE  /\ call[c].step = "idle" /\ call'[c].step = "put_data" /\ call'[c].key = k
         /\ \A d \in Callers \ {c} : call'[d] = call[d]
         /\ UNCHANGED <<data, meta, tag>>
         /\ \A j \in Keys \ {k} : raced'[j] = raced[j] /\ torn'[j] = torn[j]
         /\ ~raced'[k] => \A d \in Callers : ~Writes(d, k) /\ ~Invalidates(d)
  <1> DEFINE new == [Idle EXCEPT !.step = "put_data", !.key = k, !.value = v]
  <1>1. new \in Calls /\ new.step = "put_data" /\ new.key = k
    BY IdleIsCall, StepNames DEF Calls
  <1>2. call' = [call EXCEPT ![c] = new] /\ UNCHANGED <<data, meta, tag>> /\ call[c] = Idle
    BY DEF Put, Begin, redis
  <1> HIDE DEF new
  <1>3. raced' = [raced EXCEPT ![k] = (Writers(k) \cup Invalidators # {})]
    BY DEF Put
  <1>4. ~raced'[k] => \A d \in Callers : ~Writes(d, k) /\ ~Invalidates(d)
    BY <1>3, TypeParts DEF Writers, Invalidators, Writes, Invalidates
  <1>5. torn' = [torn EXCEPT ![k] = {}]
    BY DEF Put
  <1> QED BY <1>1, <1>2, <1>3, <1>4, <1>5, TypeParts, Begins, IdleIsCall

(* An invalidation begins, which disturbs every write that is under way.   *)
LEMMA InvalidateBegins ==
  ASSUME TypeOK, NEW c \in Callers, NEW first, NEW k \in Keys, Invalidate(c, first, k)
  PROVE  /\ call'[c].step \in {"del_key", "members", "scan", "flush"}
         /\ \A d \in Callers \ {c} : call'[d] = call[d]
         /\ UNCHANGED <<data, meta, tag, torn>>
         /\ \A j \in Keys : /\ raced[j] => raced'[j]
                            /\ ~raced'[j] => \A d \in Callers : ~Writes(d, j)
  <1> DEFINE new == [Idle EXCEPT !.step = first, !.key = k]
  <1>1. first \in {"del_key", "members", "scan", "flush"} /\ new \in Calls /\ new.step = first
    BY IdleIsCall, StepNames DEF Calls, Invalidate
  <1>2. call' = [call EXCEPT ![c] = new] /\ UNCHANGED <<data, meta, tag, torn>>
    BY DEF Invalidate, redis
  <1> HIDE DEF new
  <1>3. raced' = [j \in Keys |-> raced[j] \/ Writers(j) # {}]
    BY DEF Invalidate
  <1>4. \A j \in Keys : /\ raced[j] => raced'[j]
                        /\ ~raced'[j] => \A d \in Callers : ~Writes(d, j)
    BY <1>3 DEF Writers, Writes
  <1> QED BY <1>1, <1>2, <1>4, TypeParts, Begins

LEMMA WriterStaysAlone ==
  ASSUME TypeOK, WriterIsAlone, [Next]_vars
  PROVE  WriterIsAlone'
  <1> DEFINE NothingBegins ==
        /\ \A d \in Callers, k \in Keys : Writes(d, k)' => Writes(d, k)
        /\ \A d \in Callers : Invalidates(d)' => Invalidates(d)
        /\ \A k \in Keys : raced[k] => raced'[k]
  <1>1. NothingBegins => WriterIsAlone'
    BY TypeParts DEF WriterIsAlone
  <1>2. ASSUME NEW c \in Callers, Step(c) PROVE NothingBegins
    BY <1>2, StepGoesOn DEF Writes, Invalidates
  <1>3. ASSUME NEW c \in Callers, NEW k \in Keys, Get(c, k) PROVE NothingBegins
    BY <1>3, GetBegins, StepNames DEF Writes, Invalidates
  <1>4. ASSUME NEW c \in Callers, NEW k \in Keys, NEW v \in Values, Put(c, k, v)
        PROVE  WriterIsAlone'
    <2>1. \A d \in Callers, j \in Keys : Writes(d, j)' => Writes(d, j) \/ (d = c /\ j = k)
      BY <1>4, PutBegins DEF Writes
    <2>2. \A d \in Callers : Invalidates(d)' => Invalidates(d)
      BY <1>4, PutBegins, StepNames DEF Invalidates
    <2> QED BY <1>4, <2>1, <2>2, PutBegins DEF WriterIsAlone
  <1>5. ASSUME NEW c \in Callers, NEW first, NEW k \in Keys, Invalidate(c, first, k)
        PROVE  WriterIsAlone'
    <2>1. \A d \in Callers, j \in Keys : Writes(d, j)' => Writes(d, j)
      BY <1>5, InvalidateBegins, StepNames DEF Writes
    <2> QED BY <1>5, <2>1, InvalidateBegins DEF WriterIsAlone
  <1>6. CASE Tick
    <2>1. raced' = [k \in Keys |-> raced[k] \/
                      (tag.ttl = 1 /\ \E c \in Writers(k) : At(c, "put_expire"))]
      BY <1>6 DEF Tick
    <2>2. NothingBegins
      BY <1>6, <2>1 DEF Tick, Writes, Invalidates
    <2> QED BY <1>1, <2>2
  <1>7. CASE RecoveryTimeout \/ UNCHANGED vars
    BY <1>1, <1>7 DEF RecoveryTimeout, vars, history, Writes, Invalidates
  <1> QED BY <1>1, <1>2, <1>3, <1>4, <1>5, <1>6, <1>7, IdleIsCall DEF Next

-----------------------------------------------------------------------------
(* Entries and the tag                                                     *)

(* What a step asks of the others: they stay where they are.               *)
Stay(c) == \A d \in Callers \ {c} : call'[d] = call[d]

(* A read, and the end of a command that changed nothing, disturb nothing. *)
LEMMA NothingWritten ==
  ASSUME TypeOK, WriterIsAlone, EntryInv, TagInv, NEW c \in Callers, Stay(c),
         UNCHANGED <<data, meta, tag, torn>>,
         \A k \in Keys : raced[k] => raced'[k],
         \/ /\ call'[c].step \notin PutSteps
            /\ \/ call[c].step \notin PutSteps
               \/ raced'[call[c].key]
         \/ call'[c] = call[c],
         call'[c].step \notin {"del_members", "del_tag"} \/ call'[c] = call[c]
  PROVE  EntryInv' /\ TagInv'
  <1>1. \A d \in Callers, k \in Keys : ~raced'[k] /\ Writes(d, k) => call'[d] = call[d]
    BY DEF Stay, Writes
  <1>2. \A d \in Callers : call'[d].step \in PutSteps \/ call'[d].step \in {"del_members", "del_tag"}
                             => call'[d] = call[d]
    BY DEF Stay
  <1>3. \A d \in Callers : call[d].key \in Keys
    BY TypeParts DEF Calls
  <1>4. EntryInv'
    <2>1. WrittenIsWhole'
      BY <1>1 DEF EntryInv, WrittenIsWhole, Writes, Whole, Live, Compressed
    <2>2. DataIsWriters'
      BY <1>2, <1>3, StepNames DEF EntryInv, DataIsWriters, Live
    <2> QED BY <2>1, <2>2 DEF EntryInv
  <1>5. TagInv'
    <2>1. TagHasWritten'
      BY <1>2, <1>3, StepNames DEF TagInv, TagHasWritten, Live
    <2>2. TagHasLiving'
      BY <1>1, CacheAssumption DEF TagInv, TagHasLiving, Writes, Live
    <2>3. MembersGoFirst'
      BY <1>2, CacheAssumption DEF TagInv, MembersGoFirst, Live
    <2> QED BY <2>1, <2>2, <2>3 DEF TagInv
  <1> QED BY <1>4, <1>5

(* The data of an undisturbed write arrives: nobody else is at work on it. *)
LEMMA DataWritten ==
  ASSUME TypeOK, WriterIsAlone, EntryInv, TagInv, NEW c \in Callers, PutData(c),
         NEW k \in Keys, call[c].key = k
  PROVE  EntryInv' /\ TagInv'
  <1>1. k \in Keys /\ call[c].step = "put_data" /\ Writes(c, k)
    BY TypeParts, StepNames DEF Calls, PutData, At, Writes
  <1>2. call'[c].step = "put_meta" /\ call'[c].key = k /\ call'[c].value = call[c].value
        /\ \A d \in Callers \ {c} : call'[d] = call[d]
    BY TypeParts, Continues, StepNames DEF PutData
  <1>3. data'[k].value = call[c].value /\ \A j \in Keys \ {k} : data'[j] = data[j]
    BY <1>1, TypeParts DEF PutData, SetData, EntriesOK
  <1>4. UNCHANGED <<meta, tag, raced, torn>>
    BY DEF PutData, history
  <1>5. ~raced[k] => /\ \A d \in Callers : Writes(d, k) => d = c
                     /\ \A d \in Callers : ~Invalidates(d)
    BY <1>1 DEF WriterIsAlone
  <1>6. \A d \in Callers : call[d].key \in Keys
    BY TypeParts DEF Calls
  <1>7. EntryInv'
    <2>1. WrittenIsWhole'
      <3>1. \A j \in Keys \ {k} : Whole(j)' = Whole(j)
        BY <1>3, <1>4 DEF Whole, Live, Compressed
      <3>2. Writes(c, k)' /\ \A d \in Callers, j \in Keys \ {k} : Writes(d, j)' = Writes(d, j)
        BY <1>1, <1>2, StepNames DEF Writes
      <3> QED BY <1>1, <1>2, <1>4, <3>1, <3>2 DEF EntryInv, WrittenIsWhole, Writes
    <2>2. DataIsWriters'
      BY <1>1, <1>2, <1>3, <1>4, <1>5, <1>6, StepNames DEF EntryInv, DataIsWriters, Live, Writes
    <2> QED BY <2>1, <2>2 DEF EntryInv
  <1>8. TagInv'
    <2>1. TagHasWritten'
      BY <1>2, <1>4, StepNames DEF TagInv, TagHasWritten, Live
    <2>2. TagHasLiving'
      <3>1. Writes(c, k)' /\ \A d \in Callers, j \in Keys \ {k} : Writes(d, j)' = Writes(d, j)
        BY <1>1, <1>2, StepNames DEF Writes
      <3> QED BY <1>1, <1>3, <1>4, <3>1, CacheAssumption DEF TagInv, TagHasLiving, Live
    <2>3. MembersGoFirst'
      BY <1>2, <1>3, <1>4, <1>5, StepNames, CacheAssumption DEF TagInv, MembersGoFirst, Live, Invalidates
    <2> QED BY <2>1, <2>2, <2>3 DEF TagInv
  <1> QED BY <1>7, <1>8

(* With its metadata, the entry is whole.                                  *)
LEMMA MetaWritten ==
  ASSUME TypeOK, WriterIsAlone, EntryInv, TagInv, NEW c \in Callers, PutMeta(c),
         NEW k \in Keys, call[c].key = k
  PROVE  EntryInv' /\ TagInv'
  <1> DEFINE next == IF k \in Tagged THEN "put_tag" ELSE "idle"
  <1>1. k \in Keys /\ call[c].step = "put_meta" /\ Writes(c, k)
    BY TypeParts, StepNames DEF Calls, PutMeta, At, Writes
  <1>2. call'[c].step = next /\ (k \in Tagged => call'[c].key = k)
        /\ \A d \in Callers \ {c} : call'[d] = call[d]
    <2>1. next \in Commands \cup {"idle"}
      BY StepNames
    <2> QED BY <2>1, TypeParts, Continues DEF PutMeta
  <1>3. /\ meta'[k].compressed = (call[c].value \in Large) /\ meta'[k].ttl = Ttl
        /\ \A j \in Keys \ {k} : meta'[j] = meta[j]
    BY <1>1, TypeParts DEF PutMeta, SetMeta, EntriesOK
  <1>4. UNCHANGED <<data, tag, raced, torn>>
    BY DEF PutMeta, history
  <1>5. \A d \in Callers : call[d].key \in Keys
    BY TypeParts DEF Calls
  <1>6. data[k].ttl \in 0..Ttl
    BY <1>1, TypeParts DEF EntriesOK
  <1>7. \A d \in Callers, j \in Keys \ {k} : Writes(d, j)' = Writes(d, j)
    BY <1>1, <1>2, StepNames DEF Writes
  <1>8. call'[c].step \in {"put_tag", "idle"}
    BY <1>2
  <1> HIDE DEF next
  <1>9. EntryInv'
    <2>1. ~raced[k] => Whole(k)'
      <3>1. ~raced[k] /\ Live(data[k]) => data[k].value = call[c].value
        BY <1>1 DEF EntryInv, DataIsWriters
      <3>2. data'[k].value \in Large /\ call[c].value = data[k].value => meta'[k].compressed
        BY <1>3, <1>4, Zenon
      <3>3. data'[k].value \notin Large /\ call[c].value = data[k].value => ~meta'[k].compressed
        BY <1>3, <1>4, Zenon
      <3>4. data'[k].ttl <= meta'[k].ttl
        BY <1>3, <1>4, <1>6
      <3> QED BY <1>4, <3>1, <3>2, <3>3, <3>4 DEF Whole, Live, Compressed
    <2>2. \A j \in Keys \ {k} : Whole(j)' = Whole(j)
      BY <1>3, <1>4 DEF Whole, Live, Compressed
    <2>3. \A d \in Callers, j \in Keys \ {k} :
            Writes(d, j) => d # c
      BY <1>1 DEF Writes
    <2>4. WrittenIsWhole'
      BY <1>2, <1>4, <1>7, <2>1, <2>2, <2>3 DEF EntryInv, WrittenIsWhole
    <2>5. DataIsWriters'
      BY <1>2, <1>4, <1>5, <1>8, StepNames DEF EntryInv, DataIsWriters, Live
    <2> QED BY <2>4, <2>5 DEF EntryInv
  <1>10. TagInv'
    <2>1. TagHasWritten'
      BY <1>2, <1>4, <1>5, <1>8 DEF TagInv, TagHasWritten, Live
    <2>2. TagHasLiving'
      <3>1. k \in Tagged => Writes(c, k)'
        BY <1>2, StepNames DEF Writes, next
      <3> QED BY <1>4, <1>7, <3>1, CacheAssumption DEF TagInv, TagHasLiving, Live
    <2>3. MembersGoFirst'
      BY <1>2, <1>4, <1>8, CacheAssumption DEF TagInv, MembersGoFirst, Live
    <2> QED BY <2>1, <2>2, <2>3 DEF TagInv
  <1> QED BY <1>9, <1>10

(* The tag's set takes the key in and keeps the others.                    *)
LEMMA TagAdded ==
  ASSUME TypeOK, WriterIsAlone, EntryInv, TagInv, NEW c \in Callers, PutTag(c),
         NEW k \in Keys, call[c].key = k
  PROVE  EntryInv' /\ TagInv'
  <1>1. call[c].step = "put_tag" /\ Ttl \in Nat \ {0}
    BY CacheAssumption DEF PutTag, At
  <1>2. call'[c].step = "put_expire" /\ call'[c].key = k
        /\ \A d \in Callers \ {c} : call'[d] = call[d]
    BY TypeParts, Continues, StepNames DEF PutTag
  <1>3. /\ k \in tag'.members /\ Live(tag')
        /\ Live(tag) => tag'.ttl = tag.ttl /\ \A j \in tag.members : j \in tag'.members
    BY <1>1, TypeParts DEF PutTag, EntriesOK, Live
  <1>4. UNCHANGED <<data, meta, raced, torn>>
    BY DEF PutTag, history
  <1>5. \A d \in Callers : call[d].key \in Keys
    BY TypeParts DEF Calls
  <1>6. \A d \in Callers, j \in Keys : Writes(d, j)' = Writes(d, j)
    BY <1>1, <1>2, StepNames DEF Writes
  <1>7. EntryInv'
    <2>1. \A j \in Keys : Whole(j)' = Whole(j)
      BY <1>4 DEF Whole, Live, Compressed
    <2>2. WrittenIsWhole'
      BY <1>1, <1>2, <1>4, <1>6, <2>1 DEF EntryInv, WrittenIsWhole
    <2>3. DataIsWriters'
      BY <1>2, <1>4, <1>5, StepNames DEF EntryInv, DataIsWriters, Live
    <2> QED BY <2>2, <2>3 DEF EntryInv
  <1>8. TagInv'
    <2>1. TagHasWritten'
      BY <1>2, <1>3, <1>4, <1>5 DEF TagInv, TagHasWritten
    <2>2. TagHasLiving'
      BY <1>3, <1>4, <1>6, CacheAssumption DEF TagInv, TagHasLiving, Live
    <2>3. MembersGoFirst'
      BY <1>2, <1>4, CacheAssumption DEF TagInv, MembersGoFirst, Live
    <2> QED BY <2>1, <2>2, <2>3 DEF TagInv
  <1> QED BY <1>7, <1>8

(* The set is given the longest time to live there is.                     *)
LEMMA TagExtended ==
  ASSUME TypeOK, WriterIsAlone, EntryInv, TagInv, NEW c \in Callers, PutExpire(c),
         NEW k \in Keys, call[c].key = k
  PROVE  EntryInv' /\ TagInv'
  <1>1. call[c].step = "put_expire" /\ Ttl \in Nat \ {0} /\ Writes(c, k)
    BY CacheAssumption, StepNames DEF PutExpire, At, Writes
  <1>2. call'[c].step = "idle" /\ \A d \in Callers \ {c} : call'[d] = call[d]
    BY TypeParts, Continues DEF PutExpire
  <1>3. Live(tag) => tag'.ttl = Ttl /\ tag'.members = tag.members /\ Live(tag')
    BY <1>1, TypeParts DEF PutExpire, EntriesOK, Live
  <1>4. UNCHANGED <<data, meta, raced, torn>>
    BY DEF PutExpire, history
  <1>5. \A d \in Callers : call[d].key \in Keys
    BY TypeParts DEF Calls
  <1>6. \A d \in Callers, j \in Keys : Writes(d, j) => Writes(d, j)' \/ (d = c /\ j = k)
    BY <1>1, <1>2 DEF Writes
  <1>7. EntryInv'
    <2>1. \A j \in Keys : Whole(j)' = Whole(j)
      BY <1>4 DEF Whole, Live, Compressed
    <2>2. \A d \in Callers \ {c}, j \in Keys : Writes(d, j)' = Writes(d, j)
      BY <1>2 DEF Writes
    <2>3. WrittenIsWhole'
      BY <1>1, <1>2, <1>4, <2>1, <2>2 DEF EntryInv, WrittenIsWhole
    <2>4. DataIsWriters'
      BY <1>2, <1>4, <1>5 DEF EntryInv, DataIsWriters, Live
    <2> QED BY <2>3, <2>4 DEF EntryInv
  <1>8. TagInv'
    <2>1. TagHasWritten'
      BY <1>2, <1>3, <1>4, <1>5 DEF TagInv, TagHasWritten
    <2>2. TagHasLiving'
      <3> SUFFICES ASSUME NEW j \in Tagged, ~raced[j], \A d \in Callers : ~Writes(d, j)',
                          Live(data[j]), "tag" \notin torn[j]
                   PROVE  Live(tag') /\ j \in tag'.members /\ data[j].ttl <= tag'.ttl
        BY <1>4 DEF TagHasLiving, Live
      <3>1. j \in Keys /\ data[j].ttl \in 0..Ttl
        BY TypeParts, CacheAssumption DEF EntriesOK
      <3>2. Live(tag) /\ j \in tag.members
        <4>1. CASE j = k
          BY <1>1, <4>1 DEF TagInv, TagHasWritten
        <4>2. CASE j # k
          BY <1>6, <3>1, <4>2 DEF TagInv, TagHasLiving
        <4> QED BY <4>1, <4>2
      <3> QED BY <1>1, <1>3, <3>1, <3>2
    <2>3. MembersGoFirst'
      BY <1>2, <1>4, CacheAssumption DEF TagInv, MembersGoFirst, Live
    <2> QED BY <2>1, <2>2, <2>3 DEF TagInv
  <1> QED BY <1>7, <1>8

(* Entries are deleted, the data of each with the rest of it, or before it, *)
(* but for what a pattern takes.                                           *)
LEMMA Deleted ==
  ASSUME TypeOK, WriterIsAlone, EntryInv, TagInv, NEW c \in Callers, Stay(c),
         NEW datas, NEW metas, Delete(datas, metas), UNCHANGED raced,
         Invalidates(c), call'[c].step \in {"idle", "del_tag", "scan"},
         \A k \in Keys : ~raced[k] /\ Live(data'[k]) =>
           /\ torn[k] \subseteq torn'[k]
           /\ k \in metas => "meta" \in torn'[k]
           /\ tag' # tag => "tag" \in torn'[k],
         call'[c].step = "del_tag" =>
           \A k \in Tagged : ~raced[k] /\ Live(data[k]) /\ "tag" \notin torn[k] => k \in datas
  PROVE  EntryInv' /\ TagInv'
  <1>1. \A k \in Keys : data'[k] = (IF k \in datas THEN NoData ELSE data[k])
                        /\ meta'[k] = (IF k \in metas THEN NoMeta ELSE meta[k])
    BY TypeParts, DeleteTypes
  <1>2. \A k \in Keys : Live(data'[k]) => data'[k] = data[k] /\ k \notin datas
    BY <1>1 DEF Live, NoData
  <1>3. \A d \in Callers : call'[d] = call[d] \/ (d = c /\ call'[d].step \in {"idle", "del_tag", "scan"})
    BY DEF Stay
  <1>4. \A d \in Callers, j \in Keys : Writes(d, j)' = Writes(d, j)
    BY <1>3, StepNames DEF Writes, Invalidates, PutSteps, InvalidateSteps
  <1>5. \A d \in Callers : call[d].key \in Keys
    BY TypeParts DEF Calls
  <1>6. EntryInv'
    <2>1. \A k \in Keys : ~raced[k] /\ Whole(k) => Whole(k)'
      <3> SUFFICES ASSUME NEW k \in Keys, ~raced[k], Whole(k), Live(data'[k]) PROVE Whole(k)'
        BY DEF Whole, Live
      <3>1. data'[k] = data[k] /\ torn[k] \subseteq torn'[k]
        BY <1>2
      <3>2. CASE k \in metas
        <4>1. "meta" \in torn'[k] /\ ~Live(meta'[k])
          BY <1>1, <3>2 DEF NoMeta, Live
        <4> QED BY <3>1, <4>1 DEF Whole, Compressed
      <3>3. CASE k \notin metas
        <4>1. meta'[k] = meta[k]
          BY <1>1, <3>3
        <4> QED BY <3>1, <4>1 DEF Whole, Live, Compressed
      <3> QED BY <3>2, <3>3
    <2>2. WrittenIsWhole'
      BY <1>3, <1>4, <2>1, StepNames DEF EntryInv, WrittenIsWhole, Writes
    <2>3. DataIsWriters'
      BY <1>2, <1>3, <1>5 DEF EntryInv, DataIsWriters, Live
    <2> QED BY <2>2, <2>3 DEF EntryInv
  <1>7. TagInv'
    <2>1. TagHasWritten'
      <3> SUFFICES ASSUME NEW d \in Callers, call'[d].step = "put_expire", ~raced[call'[d].key]
                   PROVE  Live(tag') /\ call'[d].key \in tag'.members
        BY DEF TagHasWritten, Live
      <3>1. call'[d] = call[d] /\ Writes(d, call[d].key)
        BY <1>3, StepNames DEF Writes
      <3>2. FALSE
        BY <1>5, <3>1 DEF WriterIsAlone
      <3> QED BY <3>2
    <2>2. TagHasLiving'
      <3> SUFFICES ASSUME NEW k \in Tagged, ~raced[k], \A d \in Callers : ~Writes(d, k)',
                          Live(data'[k]), "tag" \notin torn'[k]
                   PROVE  Live(tag') /\ k \in tag'.members /\ data'[k].ttl <= tag'.ttl
        BY DEF TagHasLiving, Live
      <3>1. k \in Keys /\ data'[k] = data[k] /\ tag' = tag /\ "tag" \notin torn[k]
        BY <1>2, CacheAssumption
      <3> QED BY <1>4, <3>1 DEF TagInv, TagHasLiving
    <2>3. MembersGoFirst'
      BY <1>2, <1>3, CacheAssumption DEF TagInv, MembersGoFirst, Live
    <2> QED BY <2>1, <2>2, <2>3 DEF TagInv
  <1> QED BY <1>6, <1>7

(* The tag is deleted after all that it led to.                            *)
LEMMA TagDeleted ==
  ASSUME TypeOK, WriterIsAlone, EntryInv, TagInv, NEW c \in Callers, DelTag(c)
  PROVE  EntryInv' /\ TagInv'
  <1>1. call[c].step = "del_tag" /\ Invalidates(c) /\ UNCHANGED <<data, meta, raced, torn>>
    BY StepNames DEF DelTag, At, Invalidates, history
  <1>2. call'[c].step = "idle" /\ \A d \in Callers \ {c} : call'[d] = call[d]
    BY TypeParts, Continues DEF DelTag
  <1>3. \A d \in Callers : call'[d].step # "idle" => call'[d] = call[d]
    BY <1>2
  <1>4. \A d \in Callers, j \in Keys : Writes(d, j)' = Writes(d, j)
    BY <1>1, <1>2, StepNames DEF Writes
  <1>5. \A d \in Callers : call[d].key \in Keys
    BY TypeParts DEF Calls
  <1>6. EntryInv'
    <2>1. \A j \in Keys : Whole(j)' = Whole(j)
      BY <1>1 DEF Whole, Live, Compressed
    <2>2. WrittenIsWhole'
      BY <1>1, <1>3, <1>4, <2>1, StepNames DEF EntryInv, WrittenIsWhole, Writes
    <2>3. DataIsWriters'
      BY <1>1, <1>3, <1>5 DEF EntryInv, DataIsWriters, Live
    <2> QED BY <2>2, <2>3 DEF EntryInv
  <1>7. TagInv'
    <2>1. TagHasWritten'
      <3> SUFFICES ASSUME NEW d \in Callers, call'[d].step = "put_expire", ~raced[call'[d].key]
                   PROVE  FALSE
        BY <1>1 DEF TagHasWritten, Live
      <3>1. call'[d] = call[d] /\ Writes(d, call[d].key)
        BY <1>3, StepNames DEF Writes
      <3> QED BY <1>1, <1>5, <3>1 DEF WriterIsAlone
    <2>2. TagHasLiving'
      BY <1>1, CacheAssumption DEF TagInv, TagHasLiving, MembersGoFirst, Live
    <2>3. MembersGoFirst'
      BY <1>1, <1>3, CacheAssumption DEF TagInv, MembersGoFirst, Live
    <2> QED BY <2>1, <2>2, <2>3 DEF TagInv
  <1> QED BY <1>6, <1>7

(* The data of a write is stored, and its reply lost: the key is disturbed.*)
LEMMA ReplyLost ==
  ASSUME TypeOK, WriterIsAlone, EntryInv, TagInv, NEW c \in Callers, Fault(c),
         SetData(c), At(c, "put_data"), UNCHANGED <<meta, tag>>
  PROVE  EntryInv' /\ TagInv'
  <1>1. PICK k \in Keys : call[c].key = k
    BY TypeParts DEF Calls
  <1>2. call[c].step = "put_data" /\ call'[c].step = "idle"
        /\ \A d \in Callers \ {c} : call'[d] = call[d]
    BY TypeParts, Continues DEF Fault, At
  <1>3. raced'[k] /\ torn' = torn /\ \A j \in Keys \ {k} : raced'[j] = raced[j]
    BY <1>1, <1>2, TypeParts, StepNames DEF Fault
  <1>4. \A j \in Keys \ {k} : data'[j] = data[j]
    BY <1>1, TypeParts DEF SetData, EntriesOK
  <1>5. \A d \in Callers : call[d].key \in Keys
    BY TypeParts DEF Calls
  <1>6. \A d \in Callers : call'[d].step # "idle" => call'[d] = call[d]
    BY <1>2
  <1>7. \A d \in Callers, j \in Keys \ {k} : Writes(d, j)' = Writes(d, j)
    BY <1>1, <1>2, StepNames DEF Writes
  <1>8. EntryInv'
    <2>1. \A j \in Keys \ {k} : Whole(j)' = Whole(j)
      BY <1>3, <1>4 DEF Whole, Live, Compressed
    <2>2. WrittenIsWhole'
      BY <1>3, <1>6, <1>7, <2>1, StepNames DEF EntryInv, WrittenIsWhole, Writes
    <2>3. DataIsWriters'
      BY <1>3, <1>4, <1>5, <1>6 DEF EntryInv, DataIsWriters, Live
    <2> QED BY <2>2, <2>3 DEF EntryInv
  <1>9. TagInv'
    <2>1. TagHasWritten'
      BY <1>3, <1>5, <1>6 DEF TagInv, TagHasWritten, Live
    <2>2. TagHasLiving'
      BY <1>3, <1>4, <1>7, CacheAssumption DEF TagInv, TagHasLiving, Live
    <2>3. MembersGoFirst'
      BY <1>3, <1>4, <1>6, CacheAssumption DEF TagInv, MembersGoFirst, Live
    <2> QED BY <2>1, <2>2, <2>3 DEF TagInv
  <1> QED BY <1>8, <1>9

(* A write begins: what it is beside is disturbed, or nobody's.            *)
LEMMA PutStarts ==
  ASSUME TypeOK, WriterIsAlone, EntryInv, TagInv, NEW c \in Callers, NEW k \in Keys,
         NEW v \in Values, Put(c, k, v)
  PROVE  EntryInv' /\ TagInv'
  <1>1. /\ call[c].step = "idle" /\ call'[c].step = "put_data" /\ call'[c].key = k
        /\ \A d \in Callers \ {c} : call'[d] = call[d]
        /\ UNCHANGED <<data, meta, tag>>
        /\ \A j \in Keys \ {k} : raced'[j] = raced[j] /\ torn'[j] = torn[j]
        /\ ~raced'[k] => \A d \in Callers : ~Writes(d, k) /\ ~Invalidates(d)
    BY PutBegins
  <1>2. Writes(c, k)' /\ \A d \in Callers, j \in Keys \ {k} : Writes(d, j)' = Writes(d, j)
    BY <1>1, StepNames DEF Writes
  <1>3. \A d \in Callers : call'[d].step # "put_data" => call'[d] = call[d]
    BY <1>1
  <1>4. \A d \in Callers : call[d].key \in Keys
    BY TypeParts DEF Calls
  <1>5. EntryInv'
    <2>1. \A j \in Keys \ {k} : Whole(j)' = Whole(j)
      BY <1>1 DEF Whole, Live, Compressed
    <2>2. WrittenIsWhole'
      BY <1>1, <1>2, <1>3, <2>1, StepNames DEF EntryInv, WrittenIsWhole, Writes
    <2>3. DataIsWriters'
      BY <1>1, <1>3, <1>4, StepNames DEF EntryInv, DataIsWriters, Live, Writes
    <2> QED BY <2>2, <2>3 DEF EntryInv
  <1>6. TagInv'
    <2>1. TagHasWritten'
      BY <1>1, <1>3, <1>4, StepNames DEF TagInv, TagHasWritten, Live, Writes
    <2>2. TagHasLiving'
      BY <1>1, <1>2, CacheAssumption DEF TagInv, TagHasLiving, Live
    <2>3. MembersGoFirst'
      BY <1>1, <1>3, StepNames, CacheAssumption DEF TagInv, MembersGoFirst, Live, Invalidates
    <2> QED BY <2>1, <2>2, <2>3 DEF TagInv
  <1> QED BY <1>5, <1>6

(* Time passes: everything ages at the same pace.                          *)
LEMMA TimePasses ==
  ASSUME TypeOK, WriterIsAlone, EntryInv, TagInv, Tick
  PROVE  EntryInv' /\ TagInv'
  <1>1. Ttl \in Nat \ {0} /\ UNCHANGED <<call, torn>>
    BY CacheAssumption DEF Tick
  <1>2. \A k \in Keys : /\ data[k].ttl \in Nat /\ meta[k].ttl \in Nat /\ data[k].ttl <= Ttl
                        /\ Live(data'[k]) => /\ Live(data[k]) /\ data'[k].ttl = data[k].ttl - 1
                                             /\ data'[k].value = data[k].value
                        /\ Live(meta'[k]) => /\ Live(meta[k])
                                             /\ meta'[k].compressed = meta[k].compressed
                        /\ meta[k].ttl > 1 => /\ meta'[k].ttl = meta[k].ttl - 1
                                              /\ meta'[k].compressed = meta[k].compressed
    <2> SUFFICES ASSUME NEW k \in Keys
                 PROVE  /\ data[k].ttl \in Nat /\ meta[k].ttl \in Nat /\ data[k].ttl <= Ttl
                        /\ Live(data'[k]) => /\ Live(data[k]) /\ data'[k].ttl = data[k].ttl - 1
                                             /\ data'[k].value = data[k].value
                        /\ Live(meta'[k]) => /\ Live(meta[k])
                                             /\ meta'[k].compressed = meta[k].compressed
                        /\ meta[k].ttl > 1 => /\ meta'[k].ttl = meta[k].ttl - 1
                                              /\ meta'[k].compressed = meta[k].compressed
      OBVIOUS
    <2>1. data[k] \in [value : Values \cup {NoValue}, ttl : 0..Ttl]
          /\ meta[k] \in [compressed : BOOLEAN, ttl : 0..Ttl]
      BY TypeParts DEF EntriesOK
    <2>2. data'[k] = Aged(data[k], NoData) /\ meta'[k] = Aged(meta[k], NoMeta)
      BY DEF Tick
    <2>3. data[k].ttl \in 0..Ttl /\ meta[k].ttl \in 0..Ttl
      BY <2>1
    <2>4. Live(data'[k]) => /\ Live(data[k]) /\ data'[k].ttl = data[k].ttl - 1
                            /\ data'[k].value = data[k].value
      BY <1>1, <2>1, <2>2, <2>3 DEF Aged, NoData, Live
    <2>5. CASE meta[k].ttl > 1
      <3>1. meta'[k] = [meta[k] EXCEPT !.ttl = @ - 1]
        BY <2>2, <2>5 DEF Aged
      <3>2. meta'[k].compressed = meta[k].compressed
        BY <2>1, <3>1, Zenon
      <3>3. meta'[k].ttl = meta[k].ttl - 1
        BY <2>1, <3>1
      <3> QED BY <1>1, <2>3, <2>4, <2>5, <3>2, <3>3 DEF Live
    <2>6. CASE ~(meta[k].ttl > 1)
      <3>1. meta'[k] = NoMeta
        BY <2>2, <2>6 DEF Aged
      <3>2. ~Live(meta'[k])
        BY <3>1 DEF NoMeta, Live
      <3> QED BY <1>1, <2>3, <2>4, <2>6, <3>2
    <2> QED BY <2>5, <2>6
  <1>3. /\ tag.ttl > 1 => Live(tag') /\ tag'.members = tag.members
                          /\ (tag'.ttl = tag.ttl \/ tag'.ttl = tag.ttl - 1)
        /\ tag.ttl \in Nat /\ (tag.ttl > Ttl => tag' = tag)
    <2>1. tag.ttl \in 0..(Ttl + 1) /\ tag' = (IF tag.ttl > Ttl THEN tag ELSE Aged(tag, NoTag))
          /\ tag \in [members : SUBSET Keys, ttl : 0..(Ttl + 1)]
      BY TypeParts DEF EntriesOK, Tick
    <2> QED BY <1>1, <2>1 DEF Aged, Live
  <1>4. \A k \in Keys : /\ raced[k] => raced'[k]
                        /\ ~raced'[k] /\ tag.ttl = 1 =>
                             \A c \in Callers : ~(call[c].step = "put_expire" /\ call[c].key = k)
    <2>1. raced' = [k \in Keys |-> raced[k] \/
                      (tag.ttl = 1 /\ \E c \in Writers(k) : At(c, "put_expire"))]
      BY DEF Tick
    <2> QED BY <2>1, StepNames DEF Writers, At
  <1>5. \A d \in Callers : call[d].key \in Keys
    BY TypeParts DEF Calls
  <1>6. EntryInv'
    <2>1. \A k \in Keys : Whole(k) => Whole(k)'
      <3> SUFFICES ASSUME NEW k \in Keys, Whole(k), Live(data'[k]) PROVE Whole(k)'
        BY DEF Whole, Live
      <3>1. Live(data[k]) /\ data'[k].value = data[k].value /\ data'[k].ttl = data[k].ttl - 1
            /\ data'[k].ttl > 0
        BY <1>2 DEF Live
      <3>4. CASE data[k].value \in Large /\ "meta" \in torn[k]
        BY <1>1, <3>1, <3>4 DEF Whole
      <3>2. CASE data[k].value \in Large /\ "meta" \notin torn[k]
        <4>1. meta[k].compressed /\ data[k].ttl <= meta[k].ttl
          BY <3>1, <3>2 DEF Whole
        <4>2. meta[k].ttl > 1
          BY <1>2, <3>1, <4>1
        <4>3. meta'[k].ttl = meta[k].ttl - 1 /\ meta'[k].compressed = meta[k].compressed
          BY <1>2, <4>2
        <4>4. data'[k].ttl <= meta'[k].ttl
          BY <1>2, <3>1, <4>1, <4>3
        <4>5. meta'[k].compressed
          BY <4>1, <4>3, Zenon
        <4> QED BY <3>1, <3>2, <4>4, <4>5 DEF Whole
      <3>3. CASE data[k].value \notin Large
        <4>1. ~(Live(meta[k]) /\ meta[k].compressed)
          BY <3>1, <3>3 DEF Whole, Compressed
        <4>2. ~(Live(meta'[k]) /\ meta'[k].compressed)
          BY <1>2, <4>1, Zenon
        <4> QED BY <3>1, <3>3, <4>2 DEF Whole, Compressed, Live
      <3> QED BY <3>2, <3>3, <3>4
    <2>2. WrittenIsWhole'
      BY <1>1, <1>4, <2>1 DEF EntryInv, WrittenIsWhole, Writes
    <2>3. DataIsWriters'
      BY <1>1, <1>2, <1>4, <1>5 DEF EntryInv, DataIsWriters
    <2> QED BY <2>2, <2>3 DEF EntryInv
  <1>7. TagInv'
    <2>1. TagHasWritten'
      <3> SUFFICES ASSUME NEW c \in Callers, call[c].step = "put_expire", ~raced'[call[c].key]
                   PROVE  Live(tag') /\ call[c].key \in tag'.members
        BY <1>1 DEF TagHasWritten
      <3>1. Live(tag) /\ call[c].key \in tag.members
        BY <1>4, <1>5 DEF TagInv, TagHasWritten
      <3>2. tag.ttl > 1
        BY <1>3, <1>4, <1>5, <3>1 DEF Live
      <3> QED BY <1>3, <3>1, <3>2
    <2>2. TagHasLiving'
      <3> SUFFICES ASSUME NEW k \in Tagged, ~raced'[k], \A c \in Callers : ~Writes(c, k),
                          Live(data'[k]), "tag" \notin torn[k]
                   PROVE  Live(tag') /\ k \in tag'.members /\ data'[k].ttl <= tag'.ttl
        BY <1>1 DEF TagHasLiving, Writes
      <3>1. k \in Keys
        BY CacheAssumption
      <3>2. Live(tag) /\ k \in tag.members /\ data[k].ttl <= tag.ttl
        BY <1>2, <1>4, <3>1 DEF TagInv, TagHasLiving
      <3>3. data'[k].ttl = data[k].ttl - 1 /\ data'[k].ttl > 0
        BY <1>2, <3>1 DEF Live
      <3>4. tag.ttl > 1
        BY <1>2, <1>3, <3>1, <3>2, <3>3
      <3> QED BY <1>2, <1>3, <3>1, <3>2, <3>3, <3>4
    <2>3. MembersGoFirst'
      BY <1>1, <1>2, <1>4, CacheAssumption DEF TagInv, MembersGoFirst
    <2> QED BY <2>1, <2>2, <2>3 DEF TagInv
  <1> QED BY <1>6, <1>7

(* What the tag has is all that lives and that it has not lost to a pattern. *)
LEMMA MembersFound ==
  ASSUME TypeOK, WriterIsAlone, EntryInv, TagInv, NEW c \in Callers, Stay(c),
         UNCHANGED <<data, meta, tag, raced, torn>>, Invalidates(c),
         call'[c].step = "del_members", call'[c].found.data = tag.members
  PROVE  EntryInv' /\ TagInv'
  <1>1. \A d \in Callers, j \in Keys : Writes(d, j)' = Writes(d, j)
    BY StepNames DEF Stay, Writes, Invalidates, PutSteps, InvalidateSteps
  <1>2. \A d \in Callers \ {c} : call'[d] = call[d]
    BY DEF Stay
  <1>3. \A d \in Callers : call[d].key \in Keys
    BY TypeParts DEF Calls
  <1>4. EntryInv'
    <2>1. \A j \in Keys : Whole(j)' = Whole(j)
      BY DEF Whole, Live, Compressed
    <2>2. \A d \in Callers, j \in Keys : Writes(d, j) => d # c
      BY DEF Writes, Invalidates, PutSteps, InvalidateSteps
    <2>3. WrittenIsWhole'
      BY <1>1, <1>2, <2>1, <2>2 DEF EntryInv, WrittenIsWhole
    <2>4. DataIsWriters'
      BY <1>2, <1>3 DEF EntryInv, DataIsWriters, Live
    <2> QED BY <2>3, <2>4 DEF EntryInv
  <1>5. TagInv'
    <2>1. TagHasWritten'
      BY <1>2, <1>3 DEF TagInv, TagHasWritten, Live
    <2>2. TagHasLiving'
      BY <1>1, CacheAssumption DEF TagInv, TagHasLiving, Live
    <2>3. MembersGoFirst'
      <3>1. \A k \in Tagged : ~raced[k] /\ Live(data[k]) /\ "tag" \notin torn[k] => k \in tag.members
        BY CacheAssumption DEF WriterIsAlone, TagInv, TagHasLiving
      <3> QED BY <1>2, <3>1, CacheAssumption DEF TagInv, MembersGoFirst, Live
    <2> QED BY <2>1, <2>2, <2>3 DEF TagInv
  <1> QED BY <1>4, <1>5

LEMMA EntriesStaySound ==
  ASSUME TypeOK, WriterIsAlone, EntryInv, TagInv, [Next]_vars
  PROVE  EntryInv' /\ TagInv'
  <1>1. ASSUME NEW c \in Callers, NEW k \in Keys, Get(c, k)
        PROVE  EntryInv' /\ TagInv'
    <2>1. call[c] = Idle
      BY <1>1 DEF Get, Begin
    <2> QED BY <1>1, <2>1, GetBegins, StepNames, IdleIsCall, NothingWritten DEF Stay
  <1>2. ASSUME NEW c \in Callers, NEW k \in Keys, NEW v \in Values, Put(c, k, v)
        PROVE  EntryInv' /\ TagInv'
    BY <1>2, PutStarts
  <1>3. ASSUME NEW c \in Callers, NEW first, NEW k \in Keys, Invalidate(c, first, k)
        PROVE  EntryInv' /\ TagInv'
    <2>1. call[c] = Idle
      BY <1>3 DEF Invalidate
    <2> QED BY <1>3, <2>1, InvalidateBegins, StepNames, IdleIsCall, NothingWritten DEF Stay
  <1>4. ASSUME NEW c \in Callers, Step(c)
        PROVE  EntryInv' /\ TagInv'
    <2> DEFINE k == call[c].key
    <2>1. k \in Keys /\ call \in [Callers -> Calls] /\ EntriesOK
      BY TypeParts DEF Calls
    <2>2. /\ Stay(c) /\ \A j \in Keys : raced[j] => raced'[j]
          /\ DelPage(c) \/ torn' = torn
      BY <1>4, StepGoesOn DEF Stay
    <2>3. CASE GetData(c)
      <3>1. call[c].step = "get_data" /\ UNCHANGED <<data, meta, tag, torn>>
        BY <2>3 DEF GetData, At, redis, history
      <3>2. call'[c].step = "get_meta" \/ call'[c].step = "idle"
        BY <2>1, <2>3, DataIsRead, Continues DEF GetData
      <3> QED BY <2>2, <3>1, <3>2, StepNames, NothingWritten
    <2>4. CASE GetMeta(c)
      <3>1. call[c].step = "get_meta" /\ UNCHANGED <<data, meta, tag, torn>> /\ call'[c].step = "idle"
        BY <2>1, <2>4, Continues DEF GetMeta, At, redis, history
      <3> QED BY <2>2, <3>1, StepNames, NothingWritten
    <2>5. CASE PutData(c)
      BY <2>1, <2>5, DataWritten
    <2>6. CASE PutMeta(c)
      BY <2>1, <2>6, MetaWritten
    <2>7. CASE PutTag(c)
      BY <2>1, <2>7, TagAdded
    <2>8. CASE PutExpire(c)
      BY <2>1, <2>8, TagExtended
    <2>9. CASE DelKey(c)
      <3>1. /\ Delete({k}, {k}) /\ UNCHANGED <<tag, raced, torn>> /\ Invalidates(c)
            /\ call'[c].step = "idle"
        BY <2>1, <2>9, Continues, StepNames DEF DelKey, At, Invalidates, history
      <3>2. ~Live(data'[k])
        BY <2>1, <3>1, DeleteTypes DEF NoData, Live
      <3> HIDE DEF k
      <3> QED BY <2>2, <3>1, <3>2, Deleted
    <2>10. CASE ReadMembers(c)
      <3>1. call[c].step = "members" /\ Invalidates(c) /\ UNCHANGED <<data, meta, tag, raced, torn>>
        BY <2>10, StepNames DEF ReadMembers, At, redis, history, Invalidates
      <3>2. CASE Live(tag)
        <4> DEFINE names == [data |-> tag.members, meta |-> {}, tag |-> FALSE]
        <4>1. names \in Names /\ names.data = tag.members
          BY <2>1, MembersAreNames
        <4>2. Found(c, "del_members", names)
          BY <2>10, <3>2 DEF ReadMembers
        <4> HIDE DEF names
        <4>3. call'[c].step = "del_members" /\ call'[c].found.data = tag.members
          BY <2>1, <4>1, <4>2, FoundIsNoted, StepNames
        <4> QED BY <2>2, <3>1, <4>3, MembersFound
      <3>3. CASE ~Live(tag)
        <4>1. call'[c].step = "idle"
          BY <2>1, <2>10, <3>3, Continues DEF ReadMembers
        <4> QED BY <2>2, <3>1, <4>1, StepNames, NothingWritten
      <3> QED BY <3>2, <3>3
    <2>11. CASE ScanPage(c)
      <3>1. /\ Continue(c, "idle") \/ \E names \in Names : Found(c, "del_page", names)
            /\ call[c].step = "scan" /\ UNCHANGED <<data, meta, tag, raced, torn>>
        BY <2>11, PageIsNamed
      <3>2. call'[c].step \in {"idle", "del_page"}
        BY <2>1, <3>1, Continues, FoundIsNoted, StepNames
      <3> QED BY <2>2, <3>1, <3>2, StepNames, NothingWritten
    <2>12. CASE DelMembers(c)
      <3> DEFINE datas == call[c].found.data
                 metas == {}
      <3>1. /\ call[c].step = "del_members" /\ Invalidates(c)
            /\ Delete(datas, metas) /\ UNCHANGED <<tag, raced, torn>>
            /\ call'[c].step = "del_tag"
        BY <2>1, <2>12, Continues, StepNames DEF DelMembers, At, Invalidates, history
      <3>2. \A j \in Tagged : ~raced[j] /\ Live(data[j]) /\ "tag" \notin torn[j] => j \in datas
        BY <3>1 DEF TagInv, MembersGoFirst
      <3>3. \A j \in Keys : j \notin metas
        OBVIOUS
      <3> HIDE DEF datas, metas
      <3> QED BY <2>2, <3>1, <3>2, <3>3, Deleted
    <2>16. CASE DelPage(c)
      <3> DEFINE datas == call[c].found.data
                 metas == call[c].found.meta
      <3>1. /\ call[c].step = "del_page" /\ Invalidates(c)
            /\ Delete(datas, metas) /\ UNCHANGED raced
            /\ call'[c].step \in {"scan", "idle"}
        BY <2>1, <2>16, Continues, StepNames DEF DelPage, At, Invalidates
      <3>2. ASSUME NEW j \in Keys, ~raced[j], Live(data'[j])
            PROVE  /\ torn[j] \subseteq torn'[j]
                   /\ j \in metas => "meta" \in torn'[j]
                   /\ tag' # tag => "tag" \in torn'[j]
        <4>1. torn'[j] = TakenFrom(j, call[c].found)
              /\ (tag' # tag => call[c].found.tag)
          BY <2>16 DEF DelPage
        <4> QED BY <3>2, <4>1 DEF TakenFrom
      <3> HIDE DEF datas, metas
      <3> QED BY <2>2, <3>1, <3>2, Deleted
    <2>13. CASE DelTag(c)
      BY <2>13, TagDeleted
    <2>14. CASE Flush(c)
      <3>1. /\ Delete(Keys, Keys) /\ UNCHANGED <<raced, torn>> /\ Invalidates(c)
            /\ call'[c].step = "idle"
        BY <2>1, <2>14, Continues, StepNames DEF Flush, At, Invalidates, history
      <3>2. \A j \in Keys : ~Live(data'[j])
        BY <2>1, <3>1, DeleteTypes DEF NoData, Live
      <3> QED BY <2>2, <3>1, <3>2, Deleted
    <2>15. CASE Fault(c)
      <3>1. CASE SetData(c) /\ At(c, "put_data") /\ UNCHANGED <<meta, tag>>
        BY <2>15, <3>1, ReplyLost
      <3>2. CASE UNCHANGED <<data, meta, tag>>
        <4>3. torn' = torn
          BY <2>15 DEF Fault
        <4>1. call'[c].step = "idle"
          BY <2>1, <2>15, Continues DEF Fault
        <4>2. call[c].step \in PutSteps => raced'[k]
          BY <2>1, <2>15, TypeParts DEF Fault
        <4> HIDE DEF k
        <4> QED BY <2>2, <3>2, <4>1, <4>2, <4>3, StepNames, NothingWritten DEF k
      <3> QED BY <2>15, <3>1, <3>2 DEF Fault, redis
    <2> QED BY <1>4, <2>3, <2>4, <2>5, <2>6, <2>7, <2>8, <2>9, <2>10, <2>11, <2>12, <2>13,
               <2>14, <2>15, <2>16 DEF Step
  <1>5. CASE Tick
    BY <1>5, TimePasses
  <1>6. CASE RecoveryTimeout \/ UNCHANGED vars
    <2>1. UNCHANGED <<data, meta, tag, call, raced, torn>>
      BY <1>6 DEF RecoveryTimeout, vars, redis, history
    <2>2. EntryInv'
      BY <2>1 DEF EntryInv, WrittenIsWhole, DataIsWriters, Whole, Writes, Live,
                  Compressed
    <2>3. TagInv'
      BY <2>1 DEF TagInv, TagHasWritten, TagHasLiving, MembersGoFirst, Writes, Live
    <2> QED BY <2>2, <2>3
  <1> QED BY <1>1, <1>2, <1>3, <1>4, <1>5, <1>6, IdleIsCall DEF Next

-----------------------------------------------------------------------------
(* The theorems                                                            *)

CacheInv == TypeOK /\ CountMatchesState /\ WriterIsAlone /\ EntryInv /\ TagInv

LEMMA InitIsSound == Init => CacheInv
  <1> SUFFICES ASSUME Init PROVE CacheInv
    OBVIOUS
  <1>1. TypeOK
    BY InitTypes
  <1>2. CountMatchesState
    BY CacheAssumption DEF Init, CountMatchesState
  <1>3. \A c \in Callers : call[c].step = "idle"
    BY IdleIsCall DEF Init
  <1>4. \A c \in Callers, k \in Keys : ~Writes(c, k)
    BY <1>3, StepNames DEF Writes
  <1>5. \A k \in Keys : ~Live(data[k])
    BY DEF Init, NoData, Live
  <1>6. WriterIsAlone
    BY <1>4 DEF WriterIsAlone
  <1>7. EntryInv
    BY <1>3, <1>5 DEF EntryInv, WrittenIsWhole, DataIsWriters, Whole
  <1>8. TagInv
    BY <1>3, <1>5, CacheAssumption DEF TagInv, TagHasWritten, TagHasLiving, MembersGoFirst
  <1> QED BY <1>1, <1>2, <1>6, <1>7, <1>8 DEF CacheInv

LEMMA CountStaysRight ==
  ASSUME TypeOK, CountMatchesState, [Next]_vars
  PROVE  CountMatchesState'
  <1> DEFINE Right(b) == (b.state = "closed") = (b.failure_count < FailureThreshold)
  <1>1. breaker \in Breakers
    BY TypeParts
  <1>2. Right(breaker) /\ Right(AfterCheck) /\ Right(record_success) /\ Right(record_failure)
    BY <1>1, BreakerCounts DEF CountMatchesState
  <1>3. Right([breaker EXCEPT !.elapsed = TRUE])
    BY <1>1, <1>2 DEF Breakers
  <1>4. Right(breaker')
    BY <1>2, <1>3, BreakerSteps
  <1> QED BY <1>4 DEF CountMatchesState

LEMMA StepIsSound == CacheInv /\ [Next]_vars => CacheInv'
  BY StepTypes, CountStaysRight, WriterStaysAlone, EntriesStaySound DEF CacheInv

(* A whole entry is read as what was stored.                               *)
LEMMA WholeIsReadable ==
  ASSUME TypeOK, NEW k \in Keys, Live(data[k]), Whole(k)
  PROVE  Decodes(data[k].value, k) \/ (data[k].value \in Large /\ "meta" \in torn[k])
  <1>1. data[k].ttl \in Nat /\ meta[k].ttl \in Nat
    BY TypeParts, CacheAssumption DEF EntriesOK
  <1>2. CASE data[k].value \in Large /\ "meta" \notin torn[k]
    <2>1. Live(meta[k])
      BY <1>1, <1>2 DEF Whole, Live
    <2>2. Compressed(k)
      BY <1>2, <2>1 DEF Whole, Compressed
    <2> QED BY <1>2, <2>2 DEF Decodes, Compressed
  <1>3. CASE data[k].value \notin Large
    BY <1>3 DEF Whole, Decodes, Compressed
  <1> QED BY <1>2, <1>3

LEMMA SoundIsReadable == CacheInv => CleanEntriesAreReadable
  <1> SUFFICES ASSUME CacheInv, NEW k \in Keys, Live(data[k]), ~raced[k], Writers(k) = {}
               PROVE  Decodes(data[k].value, k) \/ (data[k].value \in Large /\ "meta" \in torn[k])
    BY DEF CleanEntriesAreReadable
  <1>1. \A c \in Callers : ~Writes(c, k)
    BY DEF Writers, Writes
  <1>2. Whole(k)
    BY <1>1 DEF CacheInv, EntryInv, WrittenIsWhole
  <1> QED BY <1>2, WholeIsReadable DEF CacheInv

LEMMA SoundIsTagged == CacheInv => TagFindsEntries
  <1> SUFFICES ASSUME CacheInv, NEW k \in Tagged, Live(data[k]), ~raced[k], Writers(k) = {}
               PROVE  \/ Live(tag) /\ k \in tag.members
                      \/ "tag" \in torn[k]
    BY DEF TagFindsEntries
  <1>1. \A c \in Callers : ~Writes(c, k)
    BY CacheAssumption DEF Writers, Writes
  <1> QED BY <1>1 DEF CacheInv, TagInv, TagHasLiving

LEMMA CacheStaysSound == Spec => []CacheInv
  <1> QED BY InitIsSound, StepIsSound, PTL DEF Spec

(* RedisCache's calls, at any of their commands, keep the state they share  *)
(* and their local variables in range: a time to live never exceeds         *)
(* ttl_seconds, a tag is a set of keys, a count stops at the threshold.     *)
THEOREM CacheTypes == Spec => []TypeOK
  <1>1. CacheInv => TypeOK
    BY DEF CacheInv
  <1> QED BY <1>1, CacheStaysSound, PTL

(* record_success, record_failure and is_open keep the breaker closed       *)
(* exactly while its count is below failure_threshold, although calls let   *)
(* through before it opened report to it later, in any order.               *)
THEOREM BreakerCountIsRight == Spec => []CountMatchesState
  <1>1. CacheInv => CountMatchesState
    BY DEF CacheInv
  <1> QED BY <1>1, CacheStaysSound, PTL

(* An entry whose last cache_response ran undisturbed is decompressed by    *)
(* get_cached_response exactly if it was compressed, for as long as it      *)
(* lives: its metadata, a key of its own, is its own and outlives it,       *)
(* unless a deletion by pattern took the metadata and left the data.        *)
THEOREM UndisturbedIsReadable == Spec => []CleanEntriesAreReadable
  BY SoundIsReadable, CacheStaysSound, PTL

(* ... and, stored under a model's tag, it is among the tag's members,      *)
(* which invalidate_cache reads, for as long as it lives: the set's EXPIRE  *)
(* comes last and runs to at least the entry's end.  Only a deletion by     *)
(* pattern that took the set and left the data comes between them.          *)
THEOREM UndisturbedIsTagged == Spec => []TagFindsEntries
  BY SoundIsTagged, CacheStaysSound, PTL
=============================================================================
