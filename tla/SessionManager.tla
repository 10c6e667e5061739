---------------------------- MODULE SessionManager ----------------------------
(***************************************************************************)
(* The session ledger of the gateway (gateway-go/internal/session): the    *)
(* Manager's operations over the Registry's three indexes.  One mutex      *)
(* serializes every operation, so each is one atomic action here.          *)
(*                                                                         *)
(* An operation of the code returns events or an error.  XResult(..) is    *)
(* the error it would return ("ok" when none), X(..) the state change it   *)
(* makes when it succeeds, XEvents(..) the events it hands to its caller.  *)
(***************************************************************************)
EXTENDS Naturals, Sequences, FiniteSets

CONSTANTS
    Conns,         \* connection ids; an id is random and never used twice
    SessionIds,    \* session ids (manager.go newUUIDv4), never used twice
    Tenants,       \* tenant ids
    TenantOf,      \* the verified tenant each connection is pinned to
    MaxPerTenant,  \* cap on concurrent sessions of one tenant
    PendingTTL,    \* age, in ticks, at which a lone session is reaped
    None           \* absent map entry

Roles   == {"initiator", "responder"}
Reasons == {"member_ended", "peer_disconnected", "join_timeout"}

ASSUME NoneAssumption ==
    None \notin Conns \cup SessionIds \cup Tenants \cup Roles \cup Reasons
ASSUME TenantOfAssumption == TenantOf \in [Conns -> Tenants]
ASSUME LimitsAssumption == MaxPerTenant \in Nat \ {0} /\ PendingTTL \in Nat \ {0}

VARIABLES
    sess,      \* every Session object ever built, by id
    byID,      \* Registry.byID: the ids that are registered
    byTenant,  \* Registry.byTenant: the ids of each tenant ({} = no entry)
    byConn     \* Registry.byConn: the session each connection sits in

ledger == <<sess, byID, byTenant, byConn>>

States  == {"unborn", "pending", "offering", "answered", "ended"}

(* A Session object; age counts the ticks since createdAt and saturates at *)
(* PendingTTL, the one value it is ever compared with.                     *)
Session == [state   : States,
            tenant  : Tenants \cup {None},
            members : Seq(Conns),
            offerBy : Roles \cup {None},
            age     : 0 .. PendingTTL,
            reason  : Reasons \cup {None}]

Unborn == [state |-> "unborn", tenant |-> None, members |-> <<>>,
           offerBy |-> None, age |-> 0, reason |-> None]

NewSession(c) == [state |-> "pending", tenant |-> TenantOf[c], members |-> <<c>>,
                  offerBy |-> None, age |-> 0, reason |-> None]

Init == /\ sess = [i \in SessionIds |-> Unborn]
        /\ byID = {}
        /\ byTenant = [t \in Tenants |-> {}]
        /\ byConn = [c \in Conns |-> None]

-----------------------------------------------------------------------------
(* Reads.                                                                  *)

Seats(i) == {sess[i].members[k] : k \in DOMAIN sess[i].members}

memberCount(i) == Len(sess[i].members)

RoleOf(i, c) == IF c = sess[i].members[1] THEN "initiator" ELSE "responder"

(* The first seat that is not c's.                                         *)
peerOf(i, c) ==
    LET m == sess[i].members IN IF m[1] # c THEN m[1] ELSE m[2]

(* The collapsed check: the id is live, of c's tenant, and seats c.        *)
lookupMember(i, c) ==
    /\ i \in byID
    /\ sess[i].tenant = TenantOf[c]
    /\ c \in Seats(i)

Event(kind, to, i) == [kind |-> kind, to |-> to, sid |-> i]

-----------------------------------------------------------------------------
(* Operations.                                                             *)

(* Mutant: the id stays in byID.                                           *)
endAll_KeepsId(D, reason) ==
    /\ sess' = [i \in SessionIds |->
                  IF i \in D THEN [sess[i] EXCEPT !.state = "ended", !.reason = reason]
                             ELSE sess[i]]
    /\ byConn' = [c \in Conns |->
                    IF \E i \in D : c \in Seats(i) THEN None ELSE byConn[c]]
    /\ UNCHANGED <<byID, byTenant>>

(* Registry.remove of every session of D, each sealed by markEnded.        *)
endAll(D, reason) ==
    /\ sess' = [i \in SessionIds |->
                  IF i \in D THEN [sess[i] EXCEPT !.state = "ended", !.reason = reason]
                             ELSE sess[i]]
    /\ byID' = byID \ D
    /\ byTenant' = [t \in Tenants |-> byTenant[t] \ {i \in D : sess[i].tenant = t}]
    /\ byConn' = [c \in Conns |->
                    IF \E i \in D : c \in Seats(i) /\ byConn[c] = i
                    THEN None ELSE byConn[c]]

(* One EvEnded per seat, in seat order.                                    *)
endEvents(i) ==
    [k \in DOMAIN sess[i].members |-> Event("ended", sess[i].members[k], i)]

(* Mutant: the cap is checked one too late.                                *)
StartResult_OverCap(c) ==
    IF byConn[c] # None THEN "already_in_session"
    ELSE IF Cardinality(byTenant[TenantOf[c]]) > MaxPerTenant THEN "too_many_sessions"
    ELSE "ok"

StartResult(c) ==
    IF byConn[c] # None THEN "already_in_session"
    ELSE IF Cardinality(byTenant[TenantOf[c]]) >= MaxPerTenant THEN "too_many_sessions"
    ELSE "ok"

Start(c, i) ==
    /\ StartResult(c) = "ok"
    /\ sess[i].state = "unborn"       \* a fresh random id
    /\ sess' = [sess EXCEPT ![i] = NewSession(c)]
    /\ byID' = byID \cup {i}
    /\ byTenant' = [byTenant EXCEPT ![TenantOf[c]] = @ \cup {i}]
    /\ byConn' = [byConn EXCEPT ![c] = i]

StartEvents(c, i) == <<Event("started", c, i)>>

(* Mutant: an id of another tenant is joined.                              *)
JoinResult_AnyTenant(c, i) ==
    IF byConn[c] # None THEN "already_in_session"
    ELSE IF i \notin byID THEN "unknown_session"
    ELSE IF memberCount(i) >= 2 THEN "wrong_state"
    ELSE "ok"

JoinResult(c, i) ==
    IF byConn[c] # None THEN "already_in_session"
    ELSE IF i \notin byID \/ sess[i].tenant # TenantOf[c] THEN "unknown_session"
    ELSE IF memberCount(i) >= 2 THEN "wrong_state"
    ELSE "ok"

(* Mutant: the joiner is seated and not bound.                             *)
Join_Unbound(c, i) ==
    /\ JoinResult(c, i) = "ok"
    /\ sess' = [sess EXCEPT ![i].members = Append(@, c)]
    /\ UNCHANGED <<byID, byTenant, byConn>>

Join(c, i) ==
    /\ JoinResult(c, i) = "ok"
    /\ sess' = [sess EXCEPT ![i].members = Append(@, c)]
    /\ byConn' = [byConn EXCEPT ![c] = i]
    /\ UNCHANGED <<byID, byTenant>>

JoinEvents(c, i) ==
    <<Event("joined", c, i), Event("peer_joined", sess[i].members[1], i)>>

EndResult(c, i) == IF lookupMember(i, c) THEN "ok" ELSE "unknown_session"

End(c, i, reason) ==
    /\ EndResult(c, i) = "ok"
    /\ endAll({i}, reason)

(* Mutant: an offer overrides another.                                     *)
OfferResult_Glare(c, i) ==
    IF ~lookupMember(i, c) THEN "unknown_session"
    ELSE IF memberCount(i) < 2 THEN "not_ready"
    ELSE "ok"

OfferResult(c, i) ==
    IF ~lookupMember(i, c) THEN "unknown_session"
    ELSE IF memberCount(i) < 2 THEN "not_ready"
    ELSE IF sess[i].state = "offering" THEN "wrong_state"
    ELSE "ok"

(* Mutant: the offer's owner is stored by connection, not by role.         *)
Offer_ByConn(c, i) ==
    /\ OfferResult(c, i) = "ok"
    /\ sess' = [sess EXCEPT ![i].state = "offering", ![i].offerBy = c]
    /\ UNCHANGED <<byID, byTenant, byConn>>

Offer(c, i) ==
    /\ OfferResult(c, i) = "ok"
    /\ sess' = [sess EXCEPT ![i].state = "offering", ![i].offerBy = RoleOf(i, c)]
    /\ UNCHANGED <<byID, byTenant, byConn>>

OfferEvents(c, i) == <<Event("offer", peerOf(i, c), i)>>

(* Mutant: a member may answer its own offer.                              *)
AnswerResult_Own(c, i) ==
    IF ~lookupMember(i, c) THEN "unknown_session"
    ELSE IF sess[i].state # "offering" THEN "wrong_state"
    ELSE "ok"

AnswerResult(c, i) ==
    IF ~lookupMember(i, c) THEN "unknown_session"
    ELSE IF sess[i].state # "offering" THEN "wrong_state"
    ELSE IF RoleOf(i, c) = sess[i].offerBy THEN "wrong_state"
    ELSE "ok"

Answer(c, i) ==
    /\ AnswerResult(c, i) = "ok"
    /\ sess' = [sess EXCEPT ![i].state = "answered", ![i].offerBy = None]
    /\ UNCHANGED <<byID, byTenant, byConn>>

AnswerEvents(c, i) == <<Event("answer", peerOf(i, c), i)>>

(* Candidate changes nothing: it is a legality check and a forward.        *)
CandidateResult(c, i) ==
    IF ~lookupMember(i, c) THEN "unknown_session"
    ELSE IF memberCount(i) < 2 THEN "not_ready"
    ELSE "ok"

CandidateEvents(c, i) == <<Event("candidate", peerOf(i, c), i)>>

(* A connection that sits nowhere, or is bound to a session that is gone,  *)
(* is only left unbound.                                                   *)
ConnDropped(c) ==
    LET i == byConn[c] IN
    IF i \in byID THEN endAll({i}, "peer_disconnected")
    ELSE byConn' = [byConn EXCEPT ![c] = None] /\ UNCHANGED <<sess, byID, byTenant>>

(* Mutant: the filter keeps the dropped connection's notice instead.       *)
ConnDroppedEvents_Own(c) ==
    LET i == byConn[c] IN
    IF i \in byID THEN <<Event("ended", c, i)>> ELSE <<>>

(* The dropped connection's own notice is filtered out.                    *)
ConnDroppedEvents(c) ==
    LET i == byConn[c] IN
    IF i \in byID /\ Seats(i) # {c} THEN <<Event("ended", peerOf(i, c), i)>> ELSE <<>>

(* Mutants: joined sessions are swept too; the bound is never passed.      *)
Expired_Joined == {i \in byID : sess[i].state = "pending" /\ sess[i].age >= PendingTTL}

Expired_Never == {i \in byID : /\ sess[i].state = "pending"
                               /\ memberCount(i) = 1
                               /\ sess[i].age > PendingTTL}

Expired == {i \in byID : /\ sess[i].state = "pending"
                         /\ memberCount(i) = 1
                         /\ sess[i].age >= PendingTTL}

Reap == endAll(Expired, "join_timeout")

(* Time passes for the sessions whose age can still be read: the lone ones.*)
Tick ==
    /\ sess' = [i \in SessionIds |->
                  IF i \in byID /\ memberCount(i) = 1 /\ sess[i].age < PendingTTL
                  THEN [sess[i] EXCEPT !.age = @ + 1] ELSE sess[i]]
    /\ UNCHANGED <<byID, byTenant, byConn>>

Next ==
    \/ \E c \in Conns, i \in SessionIds :
          \/ Start(c, i)
          \/ Join(c, i)
          \/ End(c, i, "member_ended")
          \/ Offer(c, i)
          \/ Answer(c, i)
    \/ \E c \in Conns : ConnDropped(c)
    \/ Reap
    \/ Tick

Spec == Init /\ [][Next]_ledger

-----------------------------------------------------------------------------
(* Properties.                                                             *)

(* The ledger's variables keep their shape.                                *)
TypeOK == /\ sess \in [SessionIds -> Session]
          /\ byID \subseteq SessionIds
          /\ byTenant \in [Tenants -> SUBSET SessionIds]
          /\ byConn \in [Conns -> SessionIds \cup {None}]

Live(i) == sess[i].state \in {"pending", "offering", "answered"}

(* The three indexes of registry.go tell one story: an id is registered    *)
(* exactly while its session is alive, each tenant's set holds exactly its *)
(* own live sessions, and a connection is bound to a session exactly when  *)
(* it holds a seat of it while it is alive.  The last part is what makes   *)
(* "<= 1 session per connection" (registry.go) true of the seats.          *)
RegistryExact == byID = {i \in SessionIds : Live(i)}

TenantIndexExact ==
    \A t \in Tenants : byTenant[t] = {i \in byID : sess[i].tenant = t}

SeatIndexExact ==
    \A c \in Conns, i \in SessionIds :
        byConn[c] = i <=> i \in byID /\ c \in Seats(i)

IndexesAgree == RegistryExact /\ TenantIndexExact /\ SeatIndexExact

(* A session seats one or two different connections, all of its tenant:    *)
(* the isolation every relayed frame relies on.                            *)
SeatsOK ==
    \A i \in byID :
        /\ memberCount(i) \in 1 .. 2
        /\ memberCount(i) = 2 => sess[i].members[1] # sess[i].members[2]
        /\ \A c \in Seats(i) : TenantOf[c] = sess[i].tenant

(* The glare guard: an offer is outstanding exactly while the session is   *)
(* offering, its owner is known then and only then, and no SDP state is    *)
(* reached by a session that has not filled both seats.                    *)
GlareGuard ==
    \A i \in byID :
        /\ sess[i].state = "offering" <=> sess[i].offerBy # None
        /\ sess[i].state \in {"offering", "answered"} => memberCount(i) = 2

(* Every live session is between people of one tenant, and negotiates one  *)
(* offer at a time once both are there.                                    *)
SessionsSound == SeatsOK /\ GlareGuard

(* No tenant holds more live sessions than its cap (ErrTooManySessions).   *)
TenantCap == \A t \in Tenants : Cardinality({i \in byID : sess[i].tenant = t}) <= MaxPerTenant

(* The reaper ends only sessions nobody ever joined, and only over-age.    *)
ReapsOnlyLone ==
    \A i \in SessionIds :
        sess[i].reason = "join_timeout" => memberCount(i) = 1 /\ sess[i].age = PendingTTL

-----------------------------------------------------------------------------
(* What the ledger promises a pair of browsers, without its indexes.       *)
PhaseOf(i) ==
    CASE sess[i].state = "unborn" -> "unborn"
      [] sess[i].state = "ended" -> "over"
      [] sess[i].state = "offering" -> "offered"
      [] OTHER -> IF memberCount(i) < 2 THEN "waiting" ELSE "idle"

OffererOf(i) ==
    IF sess[i].state = "offering"
    THEN sess[i].members[IF sess[i].offerBy = "initiator" THEN 1 ELSE 2]
    ELSE None

Phase   == [i \in SessionIds |-> PhaseOf(i)]
SeatSet == [i \in SessionIds |-> Seats(i)]
Offerer == [i \in SessionIds |-> OffererOf(i)]

Promise == INSTANCE Negotiation WITH phase <- Phase, seats <- SeatSet, offerer <- Offerer

(* The ledger implements the negotiation protocol: point to point, one     *)
(* outstanding offer that no second one overrides, and never revived.      *)
ImplementsNegotiation == Promise!Spec
=============================================================================
