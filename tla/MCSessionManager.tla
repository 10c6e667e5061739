--------------------------- MODULE MCSessionManager ---------------------------
(* Three connections of one tenant and one of another; a cap of two        *)
(* sessions, three ids, so that the cap is met and freed again.            *)
EXTENDS SessionManager, TLC

CONSTANTS a, b, c, x, tA, tB, s1, s2, s3

MCConns == {a, b, c, x}
MCTenants == {tA, tB}
MCSessionIds == {s1, s2, s3}
MCTenantOf == [d \in MCConns |-> IF d = x THEN tB ELSE tA]
MCSymmetry == Permutations({a, b, c}) \cup Permutations(MCSessionIds)
=============================================================================
