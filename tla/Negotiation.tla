----------------------------- MODULE Negotiation ------------------------------
(***************************************************************************)
(* What a signaling session promises (gateway-go/internal/session): a      *)
(* point-to-point negotiation between two connections of one tenant.  No   *)
(* registry and no index: only who sits where and whose turn it is.        *)
(***************************************************************************)
EXTENDS Naturals, FiniteSets

CONSTANTS Conns, SessionIds, TenantOf, MaxPerTenant, None

VARIABLES
    phase,    \* of each session id
    seats,    \* the connections each session seats
    offerer   \* the connection whose offer is outstanding

vars == <<phase, seats, offerer>>

Alive == {i \in SessionIds : phase[i] \notin {"unborn", "over"}}

(* A connection takes part in at most one living session.                  *)
Free(c) == \A i \in Alive : c \notin seats[i]

Mates(c) == {d \in Conns : TenantOf[d] = TenantOf[c]}

Init == /\ phase = [i \in SessionIds |-> "unborn"]
        /\ seats = [i \in SessionIds |-> {}]
        /\ offerer = [i \in SessionIds |-> None]

Open(c, i) ==
    /\ phase[i] = "unborn"
    /\ Free(c)
    /\ Cardinality({j \in Alive : seats[j] \cap Mates(c) # {}}) < MaxPerTenant
    /\ phase' = [phase EXCEPT ![i] = "waiting"]
    /\ seats' = [seats EXCEPT ![i] = {c}]
    /\ UNCHANGED offerer

Pair(c, i) ==
    /\ phase[i] = "waiting"
    /\ Free(c)
    /\ seats[i] \subseteq Mates(c)
    /\ phase' = [phase EXCEPT ![i] = "idle"]
    /\ seats' = [seats EXCEPT ![i] = @ \cup {c}]
    /\ UNCHANGED offerer

MakeOffer(c, i) ==
    /\ phase[i] = "idle"
    /\ c \in seats[i]
    /\ phase' = [phase EXCEPT ![i] = "offered"]
    /\ offerer' = [offerer EXCEPT ![i] = c]
    /\ UNCHANGED seats

TakeAnswer(c, i) ==
    /\ phase[i] = "offered"
    /\ c \in seats[i] \ {offerer[i]}
    /\ phase' = [phase EXCEPT ![i] = "idle"]
    /\ offerer' = [offerer EXCEPT ![i] = None]
    /\ UNCHANGED seats

(* Sessions end for good: on request, with a socket, or by the reaper,     *)
(* which may sweep several in one pass.                                    *)
Close(D) ==
    /\ D \subseteq Alive
    /\ phase' = [i \in SessionIds |-> IF i \in D THEN "over" ELSE phase[i]]
    /\ offerer' = [i \in SessionIds |-> IF i \in D THEN None ELSE offerer[i]]
    /\ UNCHANGED seats

Next ==
    \/ \E c \in Conns, i \in SessionIds :
          Open(c, i) \/ Pair(c, i) \/ MakeOffer(c, i) \/ TakeAnswer(c, i)
    \/ \E D \in SUBSET SessionIds : Close(D)

Spec == Init /\ [][Next]_vars
=============================================================================
