---------------------------- MODULE MCSignalRelay -----------------------------
(* Two connections of one tenant, meeting in one session.                  *)
EXTENDS SignalRelay, TLC

CONSTANTS a, b, tA, s1

Pair == {a, b}
MCTenants == {tA}
OneSession == {s1}
MCTenantOf == [d \in Pair |-> tA]

AllMessages == {"start", "join", "end", "engine"} \cup P2P
LiveMessages == {"start", "join", "end", "offer"}
SessionMessages == {"start", "join", "end"}

PairSymmetry == Permutations(Pair)
=============================================================================
