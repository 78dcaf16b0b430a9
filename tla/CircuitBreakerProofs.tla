------------------------ MODULE CircuitBreakerProofs ------------------------
(***************************************************************************)
(* The breaker's invariants and its contract, for every threshold, number  *)
(* of trial calls and set of callers.                                      *)
(*                                                                         *)
(* TrialsBounded is not inductive: half_open_calls is what the code        *)
(* compares with the limit, so the argument needs that it counts at least  *)
(* the calls let through (TrialsCounted), and that a period starts with    *)
(* none (NoTrialsOutside).                                                 *)
(***************************************************************************)
EXTENDS CircuitBreaker, TLAPS

\* Outside the half-open state no call counts as a trial.
NoTrialsOutside == cb.state # "half_open" => admitted = 0

IInv == /\ TypeOK
        /\ ClosedBelowThreshold
        /\ SuccessesBelongToPeriod
        /\ TrialsBounded
        /\ TrialsCounted
        /\ NoTrialsOutside

-----------------------------------------------------------------------------
\* A breaker with some of its fields replaced is a breaker.
LEMMA BreakerFields ==
  ASSUME NEW b \in Breaker, NEW st \in CircuitBreakerState,
         NEW f \in Nat, NEW s \in Nat, NEW h \in Nat, NEW e \in BOOLEAN
  PROVE  /\ [b EXCEPT !.state = st] \in Breaker
         /\ [b EXCEPT !.failure_count = f] \in Breaker
         /\ [b EXCEPT !.half_open_calls = h] \in Breaker
         /\ [b EXCEPT !.state = st, !.half_open_calls = h] \in Breaker
         /\ [b EXCEPT !.success_count = s, !.half_open_calls = h] \in Breaker
         /\ [b EXCEPT !.failure_count = f, !.elapsed = e] \in Breaker
         /\ [b EXCEPT !.state = st, !.success_count = s,
                      !.half_open_calls = h] \in Breaker
         /\ [b EXCEPT !.state = st, !.failure_count = f,
                      !.success_count = s, !.half_open_calls = h] \in Breaker
<1>1. [b EXCEPT !.state = st] \in Breaker BY DEF Breaker
<1>2. [b EXCEPT !.failure_count = f] \in Breaker BY DEF Breaker
<1>3. [b EXCEPT !.half_open_calls = h] \in Breaker BY DEF Breaker
<1>4. [b EXCEPT !.state = st, !.half_open_calls = h] \in Breaker BY DEF Breaker
<1>5. [b EXCEPT !.success_count = s, !.half_open_calls = h] \in Breaker BY DEF Breaker
<1>6. [b EXCEPT !.failure_count = f, !.elapsed = e] \in Breaker BY DEF Breaker
<1>7. [b EXCEPT !.state = st, !.success_count = s, !.half_open_calls = h] \in Breaker
  BY DEF Breaker
<1>8. [b EXCEPT !.state = st, !.failure_count = f, !.success_count = s,
                !.half_open_calls = h] \in Breaker BY DEF Breaker
<1>9. QED BY <1>1, <1>2, <1>3, <1>4, <1>5, <1>6, <1>7, <1>8

\* What the methods of the breaker return is a breaker.
LEMMA AdmitType ==
  ASSUME NEW b \in Breaker PROVE Admit(b) \in Breaker
<1>1. BeforeAnswer(b) \in Breaker
  BY BreakerFields DEF BeforeAnswer, CircuitBreakerState
<1>2. ASSUME NEW n \in Breaker
      PROVE  [n EXCEPT !.half_open_calls = n.half_open_calls + 1] \in Breaker
  BY DEF Breaker
<1>3. QED BY <1>1, <1>2 DEF Admit

LEMMA RecordSuccessType ==
  ASSUME NEW b \in Breaker PROVE record_success(b) \in Breaker
<1>1. /\ b.success_count + 1 \in Nat /\ b.half_open_calls + 1 \in Nat /\ 0 \in Nat
      /\ "closed" \in CircuitBreakerState
  BY DEF Breaker, CircuitBreakerState
<1>2. b.success_count + 1 >= HalfOpenMaxCalls \/ b.success_count + 1 < HalfOpenMaxCalls
  BY BreakerAssumption DEF Breaker
<1>3. CASE b.state = "half_open"
  BY <1>1, <1>2, <1>3, BreakerFields DEF record_success
<1>4. CASE b.state = "closed"
  BY <1>1, <1>4, BreakerFields DEF record_success
<1>5. CASE b.state \notin {"closed", "half_open"}
  BY <1>5 DEF record_success
<1>6. QED BY <1>3, <1>4, <1>5

LEMMA RecordFailureType ==
  ASSUME NEW b \in Breaker PROVE record_failure(b) \in Breaker
<1> DEFINE n == [b EXCEPT !.failure_count = @ + 1, !.elapsed = FALSE]
<1>1. n \in Breaker
  <2>1. ASSUME NEW f \in Nat, NEW e \in BOOLEAN
        PROVE  [b EXCEPT !.failure_count = f, !.elapsed = e] \in Breaker
    BY DEF Breaker
  <2>2. b.failure_count + 1 \in Nat /\ FALSE \in BOOLEAN
    BY DEF Breaker
  <2>3. QED BY <2>1, <2>2
<1>2. 0 \in Nat /\ "open" \in CircuitBreakerState
  BY DEF CircuitBreakerState
<1> HIDE DEF n
<1>3. /\ [n EXCEPT !.state = "open"] \in Breaker
      /\ [n EXCEPT !.state = "open", !.success_count = 0,
                   !.half_open_calls = 0] \in Breaker
  BY <1>1, <1>2, BreakerFields
<1>4. QED BY <1>1, <1>3 DEF record_failure, n

\* A request is let through only if the breaker is closed, or half-open with
\* calls to spare, or open with its timeout elapsed.
LEMMA AllowedWhen ==
  ASSUME NEW b \in Breaker, should_allow_request(b)
  PROVE  \/ b.state = "closed" /\ Admit(b) = b
         \/ /\ b.state = "half_open" /\ b.half_open_calls < HalfOpenMaxCalls
            /\ Admit(b) = [b EXCEPT !.half_open_calls = @ + 1]
         \/ /\ b.state = "open"
            /\ Admit(b).state = "half_open" /\ Admit(b).half_open_calls = 1
            /\ Admit(b).success_count = b.success_count
            /\ Admit(b).failure_count = b.failure_count
BY DEF should_allow_request, Admit, BeforeAnswer, Breaker, CircuitBreakerState

-----------------------------------------------------------------------------
LEMMA InitIInv == Init => IInv
BY BreakerAssumption
   DEF Init, IInv, TypeOK, NewBreaker, Breaker, CircuitBreakerState,
       ClosedBelowThreshold, SuccessesBelongToPeriod, TrialsBounded,
       TrialsCounted, NoTrialsOutside

LEMMA BeginIInv ==
  ASSUME IInv, NEW c \in Callers, Begin(c) PROVE IInv'
<1> USE BreakerAssumption
<1>1. cb \in Breaker /\ admitted \in Nat /\ should_allow_request(cb)
  BY DEF IInv, TypeOK, Begin
<1>2. cb' = Admit(cb) /\ cb' \in Breaker
  BY <1>1, AdmitType DEF Begin
<1>3. TypeOK'
  <2>1. admitted' \in Nat
    BY <1>1 DEF Begin
  <2>2. pc' \in [Callers -> {"idle", "running"}]
    BY DEF Begin, IInv, TypeOK
  <2>3. QED BY <1>2, <2>1, <2>2 DEF TypeOK
<1>4. CASE cb.state = "closed"
  <2>1. cb' = cb
    BY <1>1, <1>2, <1>4, AllowedWhen
  <2>2. admitted' = 0
    BY <1>4, <2>1 DEF Begin
  <2>3. QED
    BY <1>1, <1>3, <1>4, <2>1, <2>2
       DEF IInv, ClosedBelowThreshold, SuccessesBelongToPeriod, TrialsBounded,
           TrialsCounted, NoTrialsOutside
<1>5. CASE cb.state = "half_open"
  <2>1. /\ cb.half_open_calls < HalfOpenMaxCalls
        /\ cb' = [cb EXCEPT !.half_open_calls = @ + 1]
    BY <1>1, <1>2, <1>5, AllowedWhen
  <2>2. admitted' = admitted + 1
    BY <1>1, <1>5, <2>1 DEF Begin, Breaker
  <2>3. /\ cb'.state = "half_open"
        /\ cb'.success_count = cb.success_count
        /\ cb'.half_open_calls = cb.half_open_calls + 1
        /\ cb.half_open_calls \in Nat /\ cb.success_count \in Nat
    BY <1>1, <1>5, <2>1 DEF Breaker
  <2>4. /\ admitted <= cb.half_open_calls
        /\ cb.half_open_calls <= admitted + cb.success_count
        /\ cb.success_count < HalfOpenMaxCalls
    BY <1>5 DEF IInv, TrialsCounted, SuccessesBelongToPeriod
  <2>5. QED
    BY <1>1, <1>3, <2>1, <2>2, <2>3, <2>4
       DEF IInv, ClosedBelowThreshold, SuccessesBelongToPeriod, TrialsBounded,
           TrialsCounted, NoTrialsOutside
<1>6. CASE cb.state = "open"
  <2>1. /\ cb'.state = "half_open" /\ cb'.half_open_calls = 1
        /\ cb'.success_count = cb.success_count
    BY <1>1, <1>2, <1>6, AllowedWhen
  <2>2. admitted' = 1
    BY <1>6, <2>1 DEF Begin
  <2>3. cb.success_count = 0
    BY <1>6 DEF IInv, SuccessesBelongToPeriod
  <2>4. QED
    BY <1>1, <1>3, <2>1, <2>2, <2>3
       DEF IInv, ClosedBelowThreshold, SuccessesBelongToPeriod, TrialsBounded,
           TrialsCounted, NoTrialsOutside
<1>7. QED
  BY <1>1, <1>4, <1>5, <1>6 DEF Breaker, CircuitBreakerState

\* The steps that end a call change only the breaker, the caller's pc and the
\* history variable, which a period that has ended takes back to zero.
LEMMA FinishType ==
  ASSUME IInv, NEW c \in Callers, NEW b \in Breaker, Finish(c, b)
  PROVE  TypeOK' /\ NoTrialsOutside' /\ TrialsBounded'
BY BreakerAssumption
   DEF IInv, TypeOK, Finish, NoTrialsOutside, TrialsBounded

LEMMA SucceedsIInv ==
  ASSUME IInv, NEW c \in Callers, Succeeds(c) PROVE IInv'
<1> USE BreakerAssumption
<1>1. cb \in Breaker /\ cb' = record_success(cb) /\ admitted \in Nat
  BY DEF IInv, TypeOK, Succeeds, Finish
<1>2. TypeOK' /\ NoTrialsOutside' /\ TrialsBounded'
  BY <1>1, FinishType, RecordSuccessType DEF Succeeds
<1>3. ClosedBelowThreshold'
  BY <1>1 DEF IInv, ClosedBelowThreshold, record_success, Breaker
<1>4. SuccessesBelongToPeriod'
  BY <1>1 DEF IInv, SuccessesBelongToPeriod, record_success, Breaker
<1>5. TrialsCounted'
  BY <1>1 DEF IInv, TrialsCounted, record_success, Breaker, Succeeds, Finish
<1>6. QED BY <1>2, <1>3, <1>4, <1>5 DEF IInv

LEMMA FailsIInv ==
  ASSUME IInv, NEW c \in Callers, Fails(c) PROVE IInv'
<1> USE BreakerAssumption
<1>1. cb \in Breaker /\ cb' = record_failure(cb) /\ admitted \in Nat
  BY DEF IInv, TypeOK, Fails, Finish
<1>2. TypeOK' /\ NoTrialsOutside' /\ TrialsBounded'
  BY <1>1, FinishType, RecordFailureType DEF Fails
<1>3. cb'.state # "half_open"
  BY <1>1 DEF record_failure, Breaker
<1>4. ClosedBelowThreshold'
  BY <1>1 DEF IInv, ClosedBelowThreshold, record_failure, Breaker
<1>5. SuccessesBelongToPeriod'
  BY <1>1 DEF IInv, SuccessesBelongToPeriod, record_failure, Breaker
<1>6. QED BY <1>2, <1>3, <1>4, <1>5 DEF IInv, TrialsCounted

LEMMA RaisesOtherIInv ==
  ASSUME IInv, NEW c \in Callers, RaisesOther(c) PROVE IInv'
<1>1. cb \in Breaker /\ cb' = cb
  BY DEF IInv, TypeOK, RaisesOther, Finish
<1>2. TypeOK' /\ NoTrialsOutside' /\ TrialsBounded'
  BY <1>1, FinishType DEF RaisesOther
<1>3. cb.state = "half_open" => admitted' = admitted
  BY DEF RaisesOther, Finish
<1>4. QED
  BY <1>1, <1>2, <1>3
     DEF IInv, ClosedBelowThreshold, SuccessesBelongToPeriod, TrialsCounted

LEMMA TimePassesIInv == IInv /\ TimePasses => IInv'
BY DEF TimePasses, TimeoutElapses, IInv, TypeOK, Breaker, ClosedBelowThreshold,
       SuccessesBelongToPeriod, TrialsBounded, TrialsCounted, NoTrialsOutside

LEMMA NextIInv == IInv /\ [Next]_vars => IInv'
<1> SUFFICES ASSUME IInv, [Next]_vars PROVE IInv'
  OBVIOUS
<1>1. ASSUME NEW c \in Callers, Begin(c) PROVE IInv'
  BY <1>1, BeginIInv
<1>2. ASSUME NEW c \in Callers, Succeeds(c) PROVE IInv'
  BY <1>2, SucceedsIInv
<1>3. ASSUME NEW c \in Callers, Fails(c) PROVE IInv'
  BY <1>3, FailsIInv
<1>4. ASSUME NEW c \in Callers, RaisesOther(c) PROVE IInv'
  BY <1>4, RaisesOtherIInv
<1>5. CASE TimePasses
  BY <1>5, TimePassesIInv
<1>6. CASE UNCHANGED vars
  BY <1>6 DEF vars, IInv, TypeOK, ClosedBelowThreshold, SuccessesBelongToPeriod,
              TrialsBounded, TrialsCounted, NoTrialsOutside
<1>7. QED
  BY <1>1, <1>2, <1>3, <1>4, <1>5, <1>6 DEF Next, Blocked

-----------------------------------------------------------------------------
\* The breaker's record keeps its type in every behaviour of CircuitBreaker.call.
THEOREM TypeCorrect == Spec => []TypeOK
<1>1. IInv => TypeOK BY DEF IInv
<1>2. QED BY <1>1, InitIInv, NextIInv, PTL DEF Spec

\* should_allow_request and record_failure never leave a closed breaker at or
\* above the threshold.
THEOREM ClosedIsBelowThreshold == Spec => []ClosedBelowThreshold
<1>1. IInv => ClosedBelowThreshold BY DEF IInv
<1>2. QED BY <1>1, InitIInv, NextIInv, PTL DEF Spec

\* Successes counted towards closing were reported in this half-open period.
THEOREM SuccessesAreOfThisPeriod == Spec => []SuccessesBelongToPeriod
<1>1. IInv => SuccessesBelongToPeriod BY DEF IInv
<1>2. QED BY <1>1, InitIInv, NextIInv, PTL DEF Spec

\* No half-open period lets more than half_open_max_calls calls through.
THEOREM TrialsAreBounded == Spec => []TrialsBounded
<1>1. IInv => TrialsBounded BY DEF IInv
<1>2. QED BY <1>1, InitIInv, NextIInv, PTL DEF Spec

\* half_open_calls is the number of calls let through plus, at most, the
\* successes record_success counted a second time.
THEOREM TrialsAreCounted == Spec => []TrialsCounted
<1>1. IInv => TrialsCounted BY DEF IInv
<1>2. QED BY <1>1, InitIInv, NextIInv, PTL DEF Spec

-----------------------------------------------------------------------------
\* The contract's variables under the refinement mapping.
LEMMA ContractVars ==
  Contract!vars = << cb.state,
                     IF cb.state = "closed" THEN cb.failure_count ELSE 0,
                     admitted, cb.success_count >>
BY DEF Contract!vars

LEMMA BeginContract ==
  ASSUME IInv, NEW c \in Callers, Begin(c)
  PROVE  [Contract!Next]_(Contract!vars)
<1>1. cb \in Breaker /\ admitted \in Nat /\ should_allow_request(cb) /\ cb' = Admit(cb)
  BY DEF IInv, TypeOK, Begin
<1>2. CASE cb.state = "closed"
  <2>1. cb' = cb BY <1>1, <1>2, AllowedWhen
  <2>2. admitted' = admitted
    BY <1>2, <2>1 DEF Begin, IInv, NoTrialsOutside
  <2>3. QED BY <2>1, <2>2 DEF Contract!vars
<1>3. CASE cb.state = "half_open"
  <2>1. /\ cb.half_open_calls < HalfOpenMaxCalls
        /\ cb' = [cb EXCEPT !.half_open_calls = @ + 1]
    BY <1>1, <1>3, AllowedWhen
  <2>2. cb'.state = "half_open" /\ cb'.success_count = cb.success_count
    BY <1>1, <1>3, <2>1 DEF Breaker
  <2>3. admitted' = admitted + 1
    BY <1>3, <2>2 DEF Begin
  <2>4. admitted < HalfOpenMaxCalls
    BY <1>1, <1>3, <2>1, BreakerAssumption DEF IInv, TrialsCounted, Breaker
  <2>5. Contract!Trial
    BY <1>3, <2>2, <2>3, <2>4 DEF Contract!Trial
  <2>6. QED BY <2>5 DEF Contract!Next
<1>4. CASE cb.state = "open"
  <2>1. cb'.state = "half_open" /\ cb'.success_count = cb.success_count
    BY <1>1, <1>4, AllowedWhen
  <2>2. admitted' = 1
    BY <1>4, <2>1 DEF Begin
  <2>3. cb.success_count = 0
    BY <1>4 DEF IInv, SuccessesBelongToPeriod
  <2>4. Contract!Retry
    BY <1>4, <2>1, <2>2, <2>3 DEF Contract!Retry
  <2>5. QED BY <2>4 DEF Contract!Next
<1>5. QED BY <1>1, <1>2, <1>3, <1>4 DEF Breaker, CircuitBreakerState

LEMMA SucceedsContract ==
  ASSUME IInv, NEW c \in Callers, Succeeds(c)
  PROVE  [Contract!Next]_(Contract!vars)
<1>1. /\ cb \in Breaker /\ admitted \in Nat /\ cb' = record_success(cb)
      /\ admitted' = IF cb'.state = "half_open" THEN admitted ELSE 0
  BY DEF IInv, TypeOK, Succeeds, Finish
<1>2. CASE cb.state = "closed"
  <2>1. /\ cb'.state = "closed" /\ cb'.failure_count = 0
        /\ cb'.success_count = cb.success_count
    BY <1>1, <1>2 DEF record_success, Breaker
  <2>2. admitted' = admitted
    BY <1>1, <1>2, <2>1 DEF IInv, NoTrialsOutside
  <2>3. Contract!Succeed
    BY <1>2, <2>1, <2>2 DEF Contract!Succeed
  <2>4. QED BY <2>3 DEF Contract!Next
<1>3. CASE cb.state = "half_open" /\ cb.success_count + 1 >= HalfOpenMaxCalls
  <2>1. cb'.state = "closed" /\ cb'.failure_count = 0 /\ cb'.success_count = 0
    <3>1. ~(cb.success_count + 1 < HalfOpenMaxCalls)
      BY <1>1, <1>3, BreakerAssumption DEF Breaker
    <3>2. cb' = [cb EXCEPT !.state = "closed", !.failure_count = 0,
                           !.success_count = 0, !.half_open_calls = 0]
      BY <1>1, <1>3, <3>1 DEF record_success
    <3>3. QED BY <1>1, <3>2 DEF Breaker
  <2>2. Contract!Succeed
    BY <1>1, <1>3, <2>1 DEF Contract!Succeed, Contract!Enter
  <2>3. QED BY <2>2 DEF Contract!Next
<1>4. CASE cb.state = "half_open" /\ cb.success_count + 1 < HalfOpenMaxCalls
  <2>1. cb'.state = "half_open" /\ cb'.success_count = cb.success_count + 1
    <3>1. ~(cb.success_count + 1 >= HalfOpenMaxCalls)
      BY <1>1, <1>4, BreakerAssumption DEF Breaker
    <3>2. cb' = [cb EXCEPT !.success_count = @ + 1, !.half_open_calls = @ + 1]
      BY <1>1, <1>4, <3>1 DEF record_success
    <3>3. QED BY <1>1, <1>4, <3>2 DEF Breaker
  <2>2. Contract!Succeed
    BY <1>1, <1>4, <2>1 DEF Contract!Succeed
  <2>3. QED BY <2>2 DEF Contract!Next
<1>5. CASE cb.state = "open"
  <2>1. cb' = cb
    BY <1>1, <1>5 DEF record_success, Breaker
  <2>2. admitted' = admitted
    BY <1>1, <1>5, <2>1 DEF IInv, NoTrialsOutside
  <2>3. QED BY <2>1, <2>2 DEF Contract!vars
<1>6. QED
  BY <1>1, <1>2, <1>3, <1>4, <1>5, BreakerAssumption DEF Breaker, CircuitBreakerState

LEMMA FailsContract ==
  ASSUME IInv, NEW c \in Callers, Fails(c)
  PROVE  [Contract!Next]_(Contract!vars)
<1>1. /\ cb \in Breaker /\ admitted \in Nat /\ cb' = record_failure(cb)
      /\ admitted' = IF cb'.state = "half_open" THEN admitted ELSE 0
  BY DEF IInv, TypeOK, Fails, Finish
<1>2. CASE cb.state = "half_open"
  <2>1. cb'.state = "open" /\ cb'.success_count = 0
    BY <1>1, <1>2 DEF record_failure, Breaker
  <2>2. Contract!Fail
    BY <1>1, <1>2, <2>1 DEF Contract!Fail, Contract!Enter
  <2>3. QED BY <2>2 DEF Contract!Next
<1>3. CASE cb.state = "closed" /\ cb.failure_count + 1 >= FailureThreshold
  <2>1. cb'.state = "open" /\ cb'.success_count = cb.success_count
    BY <1>1, <1>3 DEF record_failure, Breaker
  <2>2. cb.success_count = 0
    BY <1>3 DEF IInv, SuccessesBelongToPeriod
  <2>3. Contract!Fail
    BY <1>1, <1>3, <2>1, <2>2 DEF Contract!Fail, Contract!Enter
  <2>4. QED BY <2>3 DEF Contract!Next
<1>4. CASE cb.state = "closed" /\ cb.failure_count + 1 < FailureThreshold
  <2>1. /\ cb'.state = "closed" /\ cb'.failure_count = cb.failure_count + 1
        /\ cb'.success_count = cb.success_count
    BY <1>1, <1>4, BreakerAssumption DEF record_failure, Breaker
  <2>2. admitted' = admitted
    BY <1>1, <1>4, <2>1 DEF IInv, NoTrialsOutside
  <2>3. Contract!Fail
    BY <1>4, <2>1, <2>2 DEF Contract!Fail
  <2>4. QED BY <2>3 DEF Contract!Next
<1>5. CASE cb.state = "open"
  <2>1. cb'.state = "open" /\ cb'.success_count = cb.success_count
    BY <1>1, <1>5 DEF record_failure, Breaker
  <2>2. admitted' = admitted
    BY <1>1, <1>5, <2>1 DEF IInv, NoTrialsOutside
  <2>3. QED BY <1>5, <2>1, <2>2 DEF Contract!vars
<1>6. QED
  BY <1>1, <1>2, <1>3, <1>4, <1>5, BreakerAssumption DEF Breaker, CircuitBreakerState

\* CircuitBreaker.call implements the breaker contract: it opens only after
\* FailureThreshold failures in a row, and closes only after HalfOpenMaxCalls
\* successes in a half-open period of at most HalfOpenMaxCalls calls.
THEOREM BreakerKeepsContract == Spec => KeepsContract
<1>1. Init => Contract!Init
  BY DEF Init, NewBreaker, Contract!Init
<1>2. IInv /\ [Next]_vars => [Contract!Next]_(Contract!vars)
  <2> SUFFICES ASSUME IInv, [Next]_vars PROVE [Contract!Next]_(Contract!vars)
    OBVIOUS
  <2>1. ASSUME NEW c \in Callers, Begin(c) PROVE [Contract!Next]_(Contract!vars)
    BY <2>1, BeginContract
  <2>2. ASSUME NEW c \in Callers, Succeeds(c) PROVE [Contract!Next]_(Contract!vars)
    BY <2>2, SucceedsContract
  <2>3. ASSUME NEW c \in Callers, Fails(c) PROVE [Contract!Next]_(Contract!vars)
    BY <2>3, FailsContract
  <2>4. ASSUME NEW c \in Callers, RaisesOther(c) PROVE [Contract!Next]_(Contract!vars)
    <3>1. cb' = cb /\ admitted' = admitted
      BY <2>4 DEF RaisesOther, Finish, IInv, NoTrialsOutside
    <3>2. QED BY <3>1 DEF Contract!vars
  <2>5. CASE TimePasses
    <3>1. cb \in Breaker BY DEF IInv, TypeOK
    <3>2. /\ cb'.state = cb.state /\ cb'.failure_count = cb.failure_count
          /\ cb'.success_count = cb.success_count /\ admitted' = admitted
      BY <2>5, <3>1 DEF TimePasses, TimeoutElapses, Breaker
    <3>3. QED BY <3>2 DEF Contract!vars
  <2>6. CASE UNCHANGED vars
    BY <2>6 DEF vars, Contract!vars
  <2>7. QED
    BY <2>1, <2>2, <2>3, <2>4, <2>5, <2>6 DEF Next, Blocked
<1>3. QED
  BY <1>1, <1>2, InitIInv, NextIInv, PTL DEF Spec, KeepsContract, Contract!Spec
=============================================================================
