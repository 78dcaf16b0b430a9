--------------------------- MODULE FailoverService ---------------------------
(***************************************************************************)
(* What failover promises the client of a completion, whatever strategy    *)
(* picks the providers: the request asks providers one at a time, never    *)
(* the same one twice, and it is refused only when every provider that is  *)
(* up has been asked or MaxAttempts of them have.                          *)
(***************************************************************************)
EXTENDS Naturals, FiniteSets

CONSTANTS Providers, Requests, MaxAttempts

VARIABLES
  up,       \* the providers that take requests; changes at will
  asked,    \* asked[r]: the providers r has asked
  phase     \* phase[r]: "new", "working", "answered", "refused" or "gone"

vars == <<up, asked, phase>>

Init == /\ up \in SUBSET Providers
        /\ asked = [r \in Requests |-> {}]
        /\ phase = [r \in Requests |-> "new"]

To(r, ph) == phase' = [phase EXCEPT ![r] = ph]

\* A new request asks its first provider, one that is working its next.
Ask(r, p) ==
  /\ phase[r] \in {"new", "working"}
  /\ p \in up \ asked[r]
  /\ Cardinality(asked[r]) < MaxAttempts
  /\ asked' = [asked EXCEPT ![r] = @ \cup {p}]
  /\ To(r, "working")

Answer(r) == phase[r] = "working" /\ To(r, "answered") /\ UNCHANGED asked

Refuse(r) ==
  /\ phase[r] \in {"new", "working"}
  /\ up \subseteq asked[r] \/ Cardinality(asked[r]) = MaxAttempts
  /\ To(r, "refused")
  /\ UNCHANGED asked

Leave(r) == phase[r] = "working" /\ To(r, "gone") /\ UNCHANGED asked

Next == /\ up' \in SUBSET Providers
        /\ \/ \E r \in Requests : \/ \E p \in Providers : Ask(r, p)
                                  \/ Answer(r) \/ Refuse(r) \/ Leave(r)
           \/ UNCHANGED <<asked, phase>>

Spec == Init /\ [][Next]_vars
=============================================================================
