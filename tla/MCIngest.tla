------------------------------- MODULE MCIngest -------------------------------
(* Five requests: two for one event, one for the same event id under       *)
(* another tenant, one for another event, one that opted out of dedupe.    *)
EXTENDS Ingest, TLC

CONSTANTS q1, q2, q3, q4, q5, tA, tB, e1, e2

MCRequests == {q1, q2, q3, q4, q5}
MCTenants == {tA, tB}
MCEvents == {e1, e2}
MCTenant == [q \in MCRequests |-> IF q = q3 THEN tB ELSE tA]
MCEventId == [q \in MCRequests |-> CASE q = q5 -> NoEvent
                                     [] q = q4 -> e2
                                     [] OTHER -> e1]

SameEvent == Permutations({q1, q2})
=============================================================================
