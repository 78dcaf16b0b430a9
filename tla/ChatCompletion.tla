--------------------------- MODULE ChatCompletion ---------------------------
(***************************************************************************)
(* api/chat.py's completion endpoint over the adapters it builds for each  *)
(* request (providers/openai_provider.py, anthropic_provider.py), and the  *)
(* two HTTP adapters the orchestrator is given (provider_a.py and          *)
(* provider_b.py). A message is its role and the places, in what the       *)
(* client sent, of the texts it is made of; place 0 is the text the        *)
(* Anthropic adapter makes up. What the vendor answers is left open.       *)
(***************************************************************************)
EXTENDS Naturals, Sequences, SequencesExt

CONSTANTS Requests, Models, provider, MaxRetries, Roles, MaxMessages, None

VARIABLES at, asked, sent, seen
vars == <<at, asked, sent, seen>>

Adapters == {"openai", "anthropic", "provider_a", "provider_b"}
Errors == {"AuthenticationError", "ModelNotFoundError", "RateLimitError", "TimeoutError",
           "QuotaExceededError", "ContentFilterError", "ProviderError", "Exception"}

Init ==
  /\ at = [r \in Requests |-> [step |-> "new"]]
  /\ asked = [r \in Requests |-> <<>>]
  /\ sent = [r \in Requests |-> [system |-> <<>>, turns |-> <<>>]]
  /\ seen = [r \in Requests |-> <<>>]

(***************************************************************************)
(* What the vendors are given                                              *)
(***************************************************************************)
Said(roles) == [n \in 1..Len(roles) |-> [role |-> roles[n], texts |-> <<n>>]]
Texts(ms) == FoldLeft(LAMBDA all, m : all \o m.texts, <<>>, ms)
OfRole(ms, roles) == SelectSeq(ms, LAMBDA m : m.role \in roles)

\* Variant: a turn whose role was there before replaces the turn before it.
Merged_Replaced(ms) ==
  FoldLeft(LAMBDA all, m :
             IF all # <<>> /\ Last(all).role = m.role THEN Append(Front(all), m)
             ELSE Append(all, m),
           <<>>, ms)
(* Turns of one role that follow one another become one.                    *)
Merged(ms) ==
  FoldLeft(LAMBDA all, m :
             IF all # <<>> /\ Last(all).role = m.role
               THEN Append(Front(all), [m EXCEPT !.texts = Last(all).texts \o m.texts])
               ELSE Append(all, m),
           <<>>, ms)
\* Variant: a turn is made up only when there is none.
Started_WhenEmpty(ms) ==
  IF ms = <<>> THEN <<[role |-> "user", texts |-> <<0>>]>> \o ms ELSE ms
(* The first turn is the user's.                                            *)
Started(ms) ==
  IF ms = <<>> \/ Head(ms).role # "user"
    THEN <<[role |-> "user", texts |-> <<0>>]>> \o ms ELSE ms

(* Anthropic's adapter takes the system texts apart, drops unknown roles,    *)
(* starts with the user and merges.                                         *)
ForAnthropic(ms) ==
  [system |-> Texts(OfRole(ms, {"system"})),
   turns |-> Merged(Started(OfRole(ms, {"user", "assistant"})))]
(* Provider B's only takes the system texts apart; the others pass all on.  *)
_convert_messages(p, ms) ==
  CASE p = "anthropic"  -> ForAnthropic(ms)
    [] p = "provider_b" -> [system |-> Texts(OfRole(ms, {"system"})),
                            turns |-> OfRole(ms, Roles \ {"system"})]
    [] OTHER            -> [system |-> <<>>, turns |-> ms]

(***************************************************************************)
(* What comes back                                                         *)
(***************************************************************************)
(* A status with the error's type or code, where the adapter looks at one. *)
Refusals == [kind : {"refused"}, status : {400, 401, 402, 429, 500},
             type : {"other", "model", "invalid", "policy", "billing"}]
Failures == {"auth", "rate", "timeout", "notfound", "connection", "server", "client", "other"}
Answers(p) ==
  IF p \in {"openai", "anthropic"} THEN [kind : Failures \cup {"ok"}]
  ELSE Refusals \cup [kind : {"ok", "connection", "timeout", "garbled"}]

Passing == {"rate", "timeout", "connection", "server"}
\* Variant: a vendor's timeout is handled with the connection errors it is one of.
Raised_Merged(f) ==
  CASE f = "auth" -> "AuthenticationError"
    [] f = "notfound" -> "ModelNotFoundError"
    [] f = "rate" -> "RateLimitError"
    [] OTHER -> "ProviderError"
(* The except clauses of the adapters over a vendor's library.              *)
Raised(f) ==
  CASE f = "auth" -> "AuthenticationError"
    [] f = "notfound" -> "ModelNotFoundError"
    [] f = "rate" -> "RateLimitError"
    [] f = "timeout" -> "TimeoutError"
    [] OTHER -> "ProviderError"

(* The status comes before the type that the vendor names.                  *)
RefusedByA(e) ==
  CASE e.status = 401 -> "AuthenticationError"
    [] e.status = 429 -> "RateLimitError"
    [] e.status = 402 -> "QuotaExceededError"
    [] e.status = 400 /\ e.type = "model" -> "ModelNotFoundError"
    [] e.status = 400 /\ e.type = "policy" -> "ContentFilterError"
    [] OTHER -> "ProviderError"
(* Provider B goes by the type for billing and policy, whatever the status.  *)
RefusedByB(e) ==
  CASE e.status = 401 -> "AuthenticationError"
    [] e.status = 429 -> "RateLimitError"
    [] e.status = 402 \/ e.type = "billing" -> "QuotaExceededError"
    [] e.status = 400 /\ e.type = "model" -> "ModelNotFoundError"
    [] e.type = "policy" -> "ContentFilterError"
    [] OTHER -> "ProviderError"
(* One HTTP request each, never tried again. A slow vendor, a lost          *)
(* connection and an unreadable answer are one error; an answer of another  *)
(* shape raises what the adapters do not catch, but one of B without content *)
(* is an empty text.                                                        *)
ResultOfA(answer) ==
  CASE answer.kind = "ok" -> {"ok"}
    [] answer.kind = "refused" -> {RefusedByA(answer)}
    [] answer.kind = "garbled" -> {"ProviderError", "Exception"}
    [] OTHER -> {"ProviderError"}
ResultOfB(answer) ==
  CASE answer.kind = "ok" -> {"ok"}
    [] answer.kind = "refused" -> {RefusedByB(answer)}
    [] answer.kind = "garbled" -> {"ok", "ProviderError", "Exception"}
    [] OTHER -> {"ProviderError"}
Result(p, answer) ==
  CASE p = "provider_a" -> ResultOfA(answer)
    [] p = "provider_b" -> ResultOfB(answer)
    [] answer.kind = "ok" -> {"ok"}
    [] OTHER -> {Raised(answer.kind)}

\* Variant: the general provider error is caught before its special cases.
Status_General(result) == IF result = "ok" THEN 200 ELSE 500
(* What the endpoint makes of it.                                           *)
Status(result) ==
  CASE result = "ok" -> 200
    [] result = "AuthenticationError" -> 401
    [] result = "ModelNotFoundError" -> 404
    [] result = "RateLimitError" -> 429
    [] result = "TimeoutError" -> 504
    [] OTHER -> 500

Ends(r, p, result) ==
  at' = [at EXCEPT ![r] = [step |-> "ended", by |-> p, result |-> result,
                           status |-> IF p \in {"provider_a", "provider_b"} THEN None
                                      ELSE Status(result)]]
Calls(r, p, attempt) == at' = [at EXCEPT ![r] = [step |-> "call", by |-> p, attempt |-> attempt]]

(* The chat of an adapter up to its first attempt: the messages are put into *)
(* the vendor's form, and a limit that allows no attempt raises. The adapter *)
(* takes every model the endpoint knows it by.                              *)
Starts(r, p, ms) ==
  /\ sent' = [sent EXCEPT ![r] = _convert_messages(p, ms)]
  /\ IF p \in {"openai", "anthropic"} /\ MaxRetries = 0 THEN Ends(r, p, "ProviderError")
     ELSE Calls(r, p, 1)

(* A request of the endpoint: the model names the adapter, which must be    *)
(* keyed. A history entry without role or text ends it.                     *)
chat_completion(r, m, roles, keyed) ==
  LET p == IF m \in DOMAIN provider THEN provider[m] ELSE None IN
    /\ at[r].step = "new"
    /\ asked' = [asked EXCEPT ![r] = Said(roles)]
    /\ IF p = None \/ ~keyed
         THEN /\ Ends(r, None, IF p = None THEN "ModelNotFoundError" ELSE "AuthenticationError")
              /\ UNCHANGED sent
         ELSE Starts(r, p, Said(roles)) \/ (Ends(r, None, "Exception") /\ UNCHANGED sent)
    /\ UNCHANGED seen
(* A request of the orchestrator to one of its adapters.                    *)
chat(r, p, roles) ==
  /\ at[r].step = "new"
  /\ asked' = [asked EXCEPT ![r] = Said(roles)]
  /\ Starts(r, p, Said(roles))
  /\ UNCHANGED seen

\* Variant: one attempt more than allowed is made.
Again_OneMore(p, answer, attempt) ==
  p \in {"openai", "anthropic"} /\ answer.kind \in Passing /\ attempt <= MaxRetries
(* The adapters over a library try again, after a sleep, what may pass.     *)
Again(p, answer, attempt) ==
  p \in {"openai", "anthropic"} /\ answer.kind \in Passing /\ attempt < MaxRetries
Answered(r) ==
  LET me == at[r] IN
    /\ me.step = "call"
    /\ \E answer \in Answers(me.by) :
         /\ seen' = [seen EXCEPT ![r] = Append(@, answer)]
         /\ IF Again(me.by, answer, me.attempt) THEN Calls(r, me.by, me.attempt + 1)
            ELSE \E result \in Result(me.by, answer) : Ends(r, me.by, result)
    /\ UNCHANGED <<asked, sent>>

Next ==
  \E r \in Requests :
    \/ \E roles \in BoundedSeq(Roles, MaxMessages) \ {<<>>} :
         \/ \E m \in Models, keyed \in BOOLEAN : chat_completion(r, m, roles, keyed)
         \/ \E p \in {"provider_a", "provider_b"} : chat(r, p, roles)
    \/ Answered(r)

Spec == Init /\ [][Next]_vars

TypeOK ==
  \A r \in Requests :
    /\ at[r] \in [step : {"new"}]
         \cup [step : {"call"}, by : Adapters, attempt : 1..MaxRetries]
         \cup [step : {"ended"}, by : Adapters \cup {None}, result : Errors \cup {"ok"},
               status : {200, 401, 404, 429, 500, 504, None}]
    /\ Len(seen[r]) <= MaxRetries

(* What failed for good is not sent again, what may pass is tried as often  *)
(* as allowed before the client hears of it, and never more often.          *)
AskedAsNeeded ==
  \A r \in Requests :
    at[r].step = "ended" /\ at[r].by \in {"openai", "anthropic"} =>
      LET n == Len(seen[r]) IN
        /\ n <= MaxRetries /\ \A k \in 1..(n - 1) : seen[r][k].kind \in Passing
        /\ n > 0 /\ seen[r][n].kind \in Passing => n = MaxRetries
(* The client can tell its own errors, the vendor's limits and its slowness *)
(* from one another, whatever attempts came before.                         *)
StatusTells ==
  \A r \in Requests :
    at[r].step = "ended" /\ at[r].by \in {"openai", "anthropic"} /\ seen[r] # <<>> =>
      LET last == Last(seen[r]).kind IN
        /\ (last = "ok") = (at[r].status = 200)
        /\ (last = "auth") = (at[r].status = 401)
        /\ (last = "rate") = (at[r].status = 429)
        /\ (last = "timeout") = (at[r].status = 504)
(* Anthropic gets turns that start with the user and alternate, and every   *)
(* text of the user, the assistant and the system once and in order.        *)
TurnsAreWhole ==
  \A r \in Requests :
    at[r].step = "call" /\ at[r].by = "anthropic" =>
      LET turns == sent[r].turns
          kept == SelectSeq(Texts(turns), LAMBDA n : n # 0) IN
        /\ turns # <<>>
        /\ \A k \in DOMAIN turns :
             turns[k].role = (IF k % 2 = 1 THEN "user" ELSE "assistant")
        /\ kept = Texts(OfRole(asked[r], {"user", "assistant"}))
        /\ sent[r].system = Texts(OfRole(asked[r], {"system"}))
=============================================================================
