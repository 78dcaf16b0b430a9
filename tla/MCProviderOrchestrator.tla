------------------------ MODULE MCProviderOrchestrator ------------------------
(***************************************************************************)
(* Two providers, two completions and a stream; the first completion asks  *)
(* for a model only one provider has.                                      *)
(***************************************************************************)
EXTENDS ProviderOrchestrator, TLC

CONSTANTS p1, p2, r1, r2, s1

MCSupports == [r \in Requests |-> IF r = r1 THEN {p1} ELSE Providers]
=============================================================================
