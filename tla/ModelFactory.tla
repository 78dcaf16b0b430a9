---------------------------- MODULE ModelFactory ----------------------------
(***************************************************************************)
(* core/models: the factory, which asks the provider of a model and, when  *)
(* that fails, hands the request to a fallback handler made for it; and a  *)
(* fallback handler that requests share. The handler of providers/ tries   *)
(* its primary Attempts times, that of core/models once. The circuit of a  *)
(* handler made for one request is never asked again and is left out, and  *)
(* so are the counts only statistics read, and the load balancing, which   *)
(* no request goes through.                                                *)
(***************************************************************************)
EXTENDS Naturals

CONSTANTS Requests, Asked,   \* the models requests name
          Attempts, Threshold, ResetTimeout, None

VARIABLES at, request, asks, circuit
vars == <<at, request, asks, circuit>>

Providers == {"openai", "anthropic"}
Supported == {"gpt-4", "gpt-4-turbo", "gpt-3.5-turbo",
              "claude-3-opus", "claude-3-sonnet", "claude-instant"}
Vendor(m) == IF m \in {"gpt-4", "gpt-4-turbo", "gpt-3.5-turbo"} THEN "openai" ELSE "anthropic"

Closed == [open |-> FALSE, failures |-> 0, age |-> 0]
Init ==
  /\ at \in [Requests -> {"new", "given"}]   \* to the factory, to the shared handler
  /\ request = [r \in Requests |-> None]
  /\ asks = [r \in Requests |-> [p \in Providers |-> 0]]
  /\ circuit = Closed

(***************************************************************************)
(* The providers                                                           *)
(***************************************************************************)
(* The name of the model a provider is asked for; None is its own default.  *)
\* Variant: the name is left out when it is another provider's model.
Named_Own(r, p) == IF Vendor(request[r].model) = p THEN request[r].model ELSE None
Named(r, p) == request[r].model
(* A provider refuses a model it does not have, and may fail any other.     *)
Has(p, m) == m = None \/ (m \in Supported /\ Vendor(m) = p)

Asking(r) == IF at[r] = "secondary" THEN request[r].secondary ELSE request[r].primary
Asks(r, stage, asked) ==
  /\ at' = [at EXCEPT ![r] = stage]
  /\ asks' = [asks EXCEPT ![r][asked] = @ + 1]
Ends(r, p) ==
  /\ at' = [at EXCEPT ![r] = "done"]
  /\ request' = [request EXCEPT ![r].by = p]
  /\ UNCHANGED asks

(***************************************************************************)
(* The factory                                                             *)
(***************************************************************************)
(* Two models are not in the table: they fall back to the default provider, *)
(* which for one of them is the provider that has failed.                   *)
_get_fallback_provider(m) == IF m \in {"gpt-4", "gpt-3.5-turbo"} THEN "anthropic" ELSE "openai"

(* What the cost optimisation writes over the model of a request.           *)
_select_cost_optimized_model == {"gpt-3.5-turbo", "gpt-4", "claude-instant"}
(* A request that names no model is served as one for gpt-3.5-turbo. One    *)
(* for a model nobody has is refused.                                       *)
process_request(r, m) ==
  LET model == IF m = None THEN "gpt-3.5-turbo" ELSE m
      made == [shared |-> FALSE, model |-> m, by |-> None, primary |-> Vendor(model),
               secondary |-> _get_fallback_provider(model)] IN
  /\ at[r] = "new"
  /\ request' = [request EXCEPT ![r] = made]
  /\ IF model \in Supported
       THEN Asks(r, "direct", made.primary)
       ELSE at' = [at EXCEPT ![r] = "done"] /\ UNCHANGED asks
  /\ UNCHANGED circuit
Falls(r) ==
  /\ at[r] = "direct"
  /\ Asks(r, "primary", request[r].primary)
  /\ UNCHANGED <<request, circuit>>

(***************************************************************************)
(* The fallback handler                                                    *)
(***************************************************************************)
IsOpen == circuit.open /\ circuit.age <= ResetTimeout
(* Who asks whether the circuit is open resets it when its time is over.    *)
_is_circuit_open == circuit' = IF circuit.open /\ ~IsOpen THEN Closed ELSE circuit
\* Variant: the circuit opens at one failure more than the threshold.
_record_failure_More(r) ==
  IF ~request[r].shared THEN UNCHANGED circuit
  ELSE circuit' = [open |-> circuit.failures >= Threshold,
                   failures |-> circuit.failures + 1, age |-> 0]
(* A request that was at the primary when the circuit opened, and fails     *)
(* later, starts its time again.                                            *)
_record_failure(r) ==
  IF ~request[r].shared THEN UNCHANGED circuit
  ELSE circuit' = [open |-> circuit.failures + 1 >= Threshold,
                   failures |-> circuit.failures + 1, age |-> 0]
_reset_circuit(r) == circuit' = IF request[r].shared THEN Closed ELSE circuit

execute_with_fallback(r, m) ==
  /\ at[r] = "given"
  /\ request' = [request EXCEPT ![r] = [shared |-> TRUE, model |-> m, by |-> None,
                                        primary |-> "openai", secondary |-> "anthropic"]]
  /\ _is_circuit_open
  /\ IF IsOpen THEN Asks(r, "secondary", "anthropic") ELSE Asks(r, "primary", "openai")

(* How often the handler has asked its primary.                             *)
Tried(r) == asks[r][request[r].primary] - (IF request[r].shared THEN 0 ELSE 1)
Answers(r) ==
  /\ at[r] \in {"direct", "primary", "secondary"}
  /\ Has(Asking(r), Named(r, Asking(r)))
  /\ Ends(r, Asking(r))
  /\ IF at[r] = "primary" THEN _reset_circuit(r) ELSE UNCHANGED circuit
\* Variant: the primary is given up before its last attempt.
_try_primary_TooFew(r) ==
  /\ at[r] = "primary"
  /\ IF Tried(r) + 1 < Attempts
       THEN at' = [at EXCEPT ![r] = "waits"] /\ UNCHANGED <<asks, circuit>>
       ELSE Asks(r, "secondary", request[r].secondary) /\ _record_failure(r)
  /\ UNCHANGED request
\* Variant: the primary is asked once more.
_try_primary_Once(r) ==
  /\ at[r] = "primary"
  /\ IF Tried(r) <= Attempts
       THEN at' = [at EXCEPT ![r] = "waits"] /\ UNCHANGED <<asks, circuit>>
       ELSE Asks(r, "secondary", request[r].secondary) /\ _record_failure(r)
  /\ UNCHANGED request
(* The primary failed: it is tried again after a while, or the secondary is *)
(* asked.                                                                   *)
_try_primary(r) ==
  /\ at[r] = "primary"
  /\ IF Tried(r) < Attempts
       THEN at' = [at EXCEPT ![r] = "waits"] /\ UNCHANGED <<asks, circuit>>
       ELSE Asks(r, "secondary", request[r].secondary) /\ _record_failure(r)
  /\ UNCHANGED request
Again(r) ==
  /\ at[r] = "waits"
  /\ Asks(r, "primary", request[r].primary)
  /\ UNCHANGED <<request, circuit>>
Fails(r) ==
  /\ at[r] = "secondary"
  /\ Ends(r, None)
  /\ UNCHANGED circuit

(* The next request that is given to the shared handler.                    *)
NextRequest(r) ==
  /\ at[r] = "done" /\ request[r].shared
  /\ at' = [at EXCEPT ![r] = "given"]
  /\ request' = [request EXCEPT ![r] = None]
  /\ asks' = [asks EXCEPT ![r] = [p \in Providers |-> 0]]
  /\ UNCHANGED circuit

(* What the healthy provider is, is found out by asking for the circuit.    *)
get_healthy_provider == _is_circuit_open /\ UNCHANGED <<at, request, asks>>
Tick ==
  /\ IsOpen
  /\ circuit' = [circuit EXCEPT !.age = @ + 1]
  /\ UNCHANGED <<at, request, asks>>

Works(r) == Answers(r) \/ Falls(r) \/ _try_primary(r) \/ Again(r) \/ Fails(r) \/ NextRequest(r)
Next ==
  \/ \E r \in Requests :
       \/ Works(r)
       \/ \E m \in Asked \cup {None} :
            process_request(r, m) \/ execute_with_fallback(r, m)
       \/ \E m \in _select_cost_optimized_model : process_request(r, m)
  \/ get_healthy_provider \/ Tick

Spec == Init /\ [][Next]_vars

TypeOK ==
  /\ at \in [Requests -> {"new", "given", "direct", "primary", "waits", "secondary", "done"}]
  /\ \A r \in Requests :
       request[r] # None =>
         request[r] \in [shared : BOOLEAN, model : Asked \cup _select_cost_optimized_model \cup {None},
                         by : Providers \cup {None}, primary : Providers, secondary : Providers]
  /\ circuit.open \in BOOLEAN /\ circuit.failures \in Nat /\ circuit.age \in 0..ResetTimeout + 1

(* A provider is asked only as often as a request may ask: the factory      *)
(* once, the handler its primary Attempts times and its secondary once. The *)
(* circuit is open when as many requests as the threshold have failed.      *)
AsksBounded ==
  /\ \A r \in Requests :
       request[r] # None =>
         asks[r]["openai"] + asks[r]["anthropic"]
           <= Attempts + (IF request[r].shared THEN 1 ELSE 2)
  /\ circuit.open <=> circuit.failures >= Threshold
(* A request fails only after its primary failed each of its attempts - but *)
(* for an open circuit - and the other provider failed too.                 *)
FailsAfterBoth ==
  \A r \in Requests :
    at[r] = "done" /\ request[r].by # request[r].primary /\ request[r].model \in Supported \cup {None} =>
      /\ asks[r][request[r].secondary] > 0
      /\ ~request[r].shared => asks[r][request[r].primary] > Attempts
      /\ Tried(r) \in {0, Attempts} \/ request[r].primary = request[r].secondary
(* The model that was named is the model that answers: the other provider   *)
(* has it not, so that only requests which name no model can fall back.     *)
NamedModelAnswers ==
  \A r \in Requests :
    at[r] = "done" /\ request[r].by # None /\ request[r].model # None =>
      request[r].by = Vendor(request[r].model)
=============================================================================
