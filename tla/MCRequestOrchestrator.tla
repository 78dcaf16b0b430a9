----------------------- MODULE MCRequestOrchestrator -----------------------
EXTENDS RequestOrchestrator

CONSTANTS r1, r2, r3, s1, t1, t2, k1, c1, c2

(* Two requests with one key and of one tenant, whose answers also serve    *)
(* the similar request of another tenant; the stream has no tenant.         *)
MCTenant == [r \in Requests |-> CASE r = r1 -> t1 [] r = s1 -> None [] OTHER -> t2]
MCKey == [r \in Requests |-> IF r \in {r2, r3} THEN k1 ELSE None]
MCContent == [r \in Requests |-> IF r = r1 THEN c1 ELSE c2]
MCSimilar == {<<c1, c1>>, <<c2, c2>>, <<c1, c2>>}
=============================================================================
