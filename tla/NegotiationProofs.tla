--------------------------- MODULE NegotiationProofs ---------------------------
(***************************************************************************)
(* Every step of the session ledger is a step of the negotiation protocol  *)
(* or leaves it unchanged.                                                 *)
(***************************************************************************)
EXTENDS SessionManagerProofs

USE NoneAssumption, TenantOfAssumption, LimitsAssumption

LEMMA FirstSeat ==
    ASSUME NEW S, NEW m \in Seq(S), Len(m) \in 1 .. 2
    PROVE  /\ 1 \in DOMAIN m /\ m[1] \in S
           /\ Len(m) = 1 => {m[k] : k \in DOMAIN m} = {m[1]}
           /\ Len(m) = 2 => m[2] \in S /\ {m[k] : k \in DOMAIN m} = {m[1], m[2]}
<1>1. DOMAIN m = 1 .. Len(m) /\ \A k \in 1 .. Len(m) : m[k] \in S
  OBVIOUS
<1>2. Len(m) = 1 => DOMAIN m = {1}
  BY <1>1
<1>3. Len(m) = 2 => DOMAIN m = {1, 2}
  BY <1>1
<1> QED
  BY <1>1, <1>2, <1>3

(* What the mapping reads of a session, case by case.                      *)
LEMMA PhaseCases ==
    ASSUME NEW i
    PROVE  /\ sess[i].state = "unborn" => PhaseOf(i) = "unborn"
           /\ sess[i].state = "ended" => PhaseOf(i) = "over"
           /\ sess[i].state = "offering" => PhaseOf(i) = "offered"
           /\ sess[i].state \in {"pending", "answered"} =>
                PhaseOf(i) = IF memberCount(i) < 2 THEN "waiting" ELSE "idle"
  BY DEF PhaseOf

LEMMA PhaseCasesNext ==
    ASSUME NEW i
    PROVE  /\ sess'[i].state = "unborn" => PhaseOf(i)' = "unborn"
           /\ sess'[i].state = "ended" => PhaseOf(i)' = "over"
           /\ sess'[i].state = "offering" => PhaseOf(i)' = "offered"
           /\ sess'[i].state \in {"pending", "answered"} =>
                PhaseOf(i)' = IF memberCount(i)' < 2 THEN "waiting" ELSE "idle"
  BY DEF PhaseOf

(* An untouched session keeps its image.                                   *)
LEMMA SameImage ==
    ASSUME NEW i, sess'[i] = sess[i]
    PROVE  PhaseOf(i)' = PhaseOf(i) /\ Seats(i)' = Seats(i) /\ OffererOf(i)' = OffererOf(i)
<1>1. PhaseOf(i)' = PhaseOf(i)
  BY DEF PhaseOf, memberCount
<1>2. Seats(i)' = Seats(i)
  BY DEF Seats
<1>3. OffererOf(i)' = OffererOf(i)
  BY DEF OffererOf
<1> QED
  BY <1>1, <1>2, <1>3

(* A step that touches one session changes one entry of each map.          *)
LEMMA OneImage ==
    ASSUME NEW i \in SessionIds, \A j \in SessionIds : j # i => sess'[j] = sess[j]
    PROVE  /\ Phase' = [Phase EXCEPT ![i] = PhaseOf(i)']
           /\ SeatSet' = [SeatSet EXCEPT ![i] = Seats(i)']
           /\ Offerer' = [Offerer EXCEPT ![i] = OffererOf(i)']
<1>1. \A j \in SessionIds : j # i =>
         PhaseOf(j)' = PhaseOf(j) /\ Seats(j)' = Seats(j) /\ OffererOf(j)' = OffererOf(j)
  BY SameImage
<1>2. Phase' = [Phase EXCEPT ![i] = PhaseOf(i)']
  BY <1>1 DEF Phase
<1>3. SeatSet' = [SeatSet EXCEPT ![i] = Seats(i)']
  BY <1>1 DEF SeatSet
<1>4. Offerer' = [Offerer EXCEPT ![i] = OffererOf(i)']
  BY <1>1 DEF Offerer
<1> QED
  BY <1>2, <1>3, <1>4

(* The protocol's living sessions are the registered ones.                 *)
LEMMA AliveIsRegistered ==
    ASSUME IInv
    PROVE  Promise!Alive = byID
<1>1. ASSUME NEW i \in SessionIds PROVE Phase[i] \notin {"unborn", "over"} <=> i \in byID
  <2>1. sess[i].state \in States
    BY DEF IInv, TypeOK, Session
  <2>2. Phase[i] = PhaseOf(i)
    BY DEF Phase
  <2>3. i \in byID <=> Live(i)
    BY DEF IInv, IndexesAgree, RegistryExact
  <2> QED
    BY <2>1, <2>2, <2>3, PhaseCases DEF States, Live
<1> QED
  BY <1>1 DEF Promise!Alive, IInv, TypeOK

(* The protocol counts as the ledger does.                                 *)
LEMMA SameCount == ASSUME NEW S PROVE Promise!Cardinality(S) = Cardinality(S)
  BY DEF Promise!Cardinality, Cardinality

(* A connection the index leaves free sits nowhere.                        *)
LEMMA UnboundIsFree ==
    ASSUME IInv, NEW c \in Conns, byConn[c] = None
    PROVE  Promise!Free(c)
<1>1. ASSUME NEW i \in byID PROVE c \notin Seats(i)
  <2>1. i \in SessionIds /\ byConn[c] # i
    BY DEF IInv, TypeOK
  <2> QED
    BY <2>1 DEF IInv, IndexesAgree, SeatIndexExact
<1>2. \A i \in byID : SeatSet[i] = Seats(i)
  BY DEF SeatSet, IInv, TypeOK
<1> QED
  BY <1>1, <1>2, AliveIsRegistered DEF Promise!Free

(* The initial ledger promises nothing yet.                                *)
LEMMA InitMaps == Init => Promise!Init
<1> SUFFICES ASSUME Init PROVE Promise!Init
  OBVIOUS
<1>1. ASSUME NEW i \in SessionIds
      PROVE  PhaseOf(i) = "unborn" /\ Seats(i) = {} /\ OffererOf(i) = None
  BY PhaseCases DEF Init, Unborn, Seats, OffererOf
<1> QED
  BY <1>1 DEF Promise!Init, Phase, SeatSet, Offerer

(* The sessions the code counts against the cap are those that seat a      *)
(* connection of the tenant.                                               *)
LEMMA CappedSessions ==
    ASSUME IInv, NEW c \in Conns
    PROVE  {j \in Promise!Alive : SeatSet[j] \cap Promise!Mates(c) # {}} = byTenant[TenantOf[c]]
<1>1. byTenant[TenantOf[c]] = {j \in byID : sess[j].tenant = TenantOf[c]}
  BY DEF IInv, IndexesAgree, TenantIndexExact
<1>2. ASSUME NEW j \in byID
      PROVE  SeatSet[j] \cap Promise!Mates(c) # {} <=> sess[j].tenant = TenantOf[c]
  <2>1. SeatSet[j] = Seats(j) /\ sess[j].members \in Seq(Conns)
    BY DEF SeatSet, IInv, TypeOK, Session
  <2>2. Len(sess[j].members) \in 1 .. 2
    BY DEF IInv, SeatsOK, memberCount
  <2>4. sess[j].members[1] \in Seats(j) /\ sess[j].members[1] \in Conns
    BY <2>1, <2>2, FirstSeat DEF Seats
  <2>3. \A d \in Seats(j) : TenantOf[d] = sess[j].tenant
    BY DEF IInv, SeatsOK
  <2> QED
    BY <2>1, <2>3, <2>4 DEF Promise!Mates
<1> QED
  BY <1>1, <1>2, AliveIsRegistered

LEMMA StartMaps ==
    ASSUME IInv, NEW c \in Conns, NEW i \in SessionIds, Start(c, i)
    PROVE  Promise!Open(c, i)
<1>1. /\ byConn[c] = None /\ ~(Cardinality(byTenant[TenantOf[c]]) >= MaxPerTenant)
      /\ sess[i].state = "unborn" /\ sess' = [sess EXCEPT ![i] = NewSession(c)]
  BY DEF Start, StartResult
<1>2. Phase[i] = "unborn"
  BY <1>1, PhaseCases DEF Phase
<1>3. Promise!Cardinality({j \in Promise!Alive : SeatSet[j] \cap Promise!Mates(c) # {}}) < MaxPerTenant
  <2>1. Cardinality(byTenant[TenantOf[c]]) \in Nat
    BY FS_CardinalityType DEF IInv, CapOnIndex
  <2>2. Cardinality(byTenant[TenantOf[c]]) < MaxPerTenant
    BY <1>1, <2>1
  <2> QED
    BY <2>2, CappedSessions, SameCount
<1>4. sess'[i] = NewSession(c)
  BY <1>1 DEF IInv, TypeOK
<1>5. memberCount(i)' = 1 /\ Seats(i)' = {c} /\ OffererOf(i)' = None
  BY <1>4 DEF NewSession, memberCount, Seats, OffererOf
<1>6. PhaseOf(i)' = "waiting"
  BY <1>4, <1>5, PhaseCasesNext DEF NewSession
<1>7. OffererOf(i) = None
  BY <1>1 DEF OffererOf
<1>8. \A j \in SessionIds : j # i => sess'[j] = sess[j]
  BY <1>1 DEF IInv, TypeOK
<1>9. Offerer' = Offerer
  BY <1>5, <1>7, <1>8, OneImage DEF Offerer
<1>10. Phase' = [Phase EXCEPT ![i] = "waiting"] /\ SeatSet' = [SeatSet EXCEPT ![i] = {c}]
  BY <1>5, <1>6, <1>8, OneImage
<1> QED
  BY <1>1, <1>2, <1>3, <1>9, <1>10, UnboundIsFree DEF Promise!Open

(* What the invariant says of a session of two.                            *)
LEMMA FullSession ==
    ASSUME IInv, NEW i \in byID, memberCount(i) = 2
    PROVE  /\ i \in SessionIds /\ Seats(i) = {sess[i].members[1], sess[i].members[2]}
           /\ sess[i].members[1] # sess[i].members[2]
           /\ sess[i].members[1] \in Conns /\ sess[i].members[2] \in Conns
<1>1. i \in SessionIds
  BY DEF IInv, TypeOK
<1>2. sess[i].members \in Seq(Conns)
  BY <1>1 DEF IInv, TypeOK, Session
<1>3. Seats(i) = {sess[i].members[1], sess[i].members[2]}
  BY <1>2, FirstSeat DEF Seats, memberCount
<1>4. sess[i].members[1] # sess[i].members[2]
  BY DEF IInv, SeatsOK
<1>5. sess[i].members[1] \in Conns /\ sess[i].members[2] \in Conns
  BY <1>2, FirstSeat DEF memberCount
<1> QED
  BY <1>1, <1>3, <1>4, <1>5

LEMMA JoinMaps ==
    ASSUME IInv, NEW c \in Conns, NEW i \in SessionIds, Join(c, i)
    PROVE  Promise!Pair(c, i)
<1>1. /\ byConn[c] = None /\ i \in byID /\ sess[i].tenant = TenantOf[c]
      /\ ~(memberCount(i) >= 2)
      /\ sess' = [sess EXCEPT ![i].members = Append(@, c)]
  BY DEF Join, JoinResult
<1> DEFINE m == sess[i].members
<1>2. m \in Seq(Conns) /\ Len(m) = 1 /\ memberCount(i) = 1
  <2>1. m \in Seq(Conns)
    BY DEF IInv, TypeOK, Session
  <2>2. memberCount(i) \in 1 .. 2
    BY <1>1 DEF IInv, SeatsOK
  <2> QED
    BY <1>1, <2>1, <2>2, OneSeat DEF memberCount
<1>3. sess[i].state = "pending"
  <2>1. Live(i)
    BY <1>1 DEF IInv, IndexesAgree, RegistryExact
  <2>2. sess[i].state \notin {"offering", "answered"}
    BY <1>1, <1>2 DEF IInv, GlareGuard
  <2> QED
    BY <2>1, <2>2 DEF Live
<1>4. Phase[i] = "waiting"
  BY <1>2, <1>3, PhaseCases DEF Phase
<1>5. SeatSet[i] \subseteq Promise!Mates(c)
  <2>1. \A d \in Seats(i) : TenantOf[d] = sess[i].tenant
    BY <1>1 DEF IInv, SeatsOK
  <2>2. Seats(i) = {m[1]} /\ m[1] \in Conns
    BY <1>2, FirstSeat DEF Seats
  <2> QED
    BY <1>1, <2>1, <2>2 DEF Promise!Mates, SeatSet
<1>6. sess'[i] = [sess[i] EXCEPT !.members = Append(m, c)]
  BY <1>1 DEF IInv, TypeOK
<1>7. sess[i] \in Session
  BY DEF IInv, TypeOK
<1>8. sess'[i].state = "pending" /\ sess'[i].members = Append(m, c)
  BY <1>3, <1>6, <1>7 DEF Session
<1>9. /\ Append(m, c) \in Seq(Conns) /\ Len(Append(m, c)) = 2
      /\ Append(m, c)[1] = m[1] /\ Append(m, c)[2] = c
  BY <1>2, SecondSeat
<1>10. PhaseOf(i)' = "idle"
  BY <1>8, <1>9, PhaseCasesNext DEF memberCount
<1>11. Seats(i)' = Seats(i) \cup {c}
  <2>1. Seats(i) = {m[1]}
    BY <1>2, FirstSeat DEF Seats
  <2>2. {Append(m, c)[k] : k \in DOMAIN Append(m, c)} = {m[1], c}
    BY <1>9, FirstSeat
  <2> QED
    BY <1>8, <2>1, <2>2 DEF Seats
<1>12. OffererOf(i)' = None /\ OffererOf(i) = None
  BY <1>3, <1>8 DEF OffererOf
<1>13. \A j \in SessionIds : j # i => sess'[j] = sess[j]
  BY <1>1 DEF IInv, TypeOK
<1>14. Phase' = [Phase EXCEPT ![i] = "idle"] /\ UNCHANGED Offerer
  BY <1>10, <1>12, <1>13, OneImage DEF Offerer
<1>15. SeatSet' = [SeatSet EXCEPT ![i] = @ \cup {c}]
  BY <1>11, <1>13, OneImage DEF SeatSet
<1> QED
  BY <1>1, <1>4, <1>5, <1>14, <1>15, UnboundIsFree DEF Promise!Pair

(* What an operation on one session's SDP state does to its image: seats   *)
(* stay, so only the phase and the offerer move.                           *)
LEMMA NegotiateMaps ==
    ASSUME IInv, NEW i \in SessionIds,
           NEW s, NEW o, sess' = [sess EXCEPT ![i].state = s, ![i].offerBy = o]
    PROVE  /\ sess'[i].state = s /\ sess'[i].offerBy = o
           /\ sess'[i].members = sess[i].members /\ memberCount(i)' = memberCount(i)
           /\ Phase' = [Phase EXCEPT ![i] = PhaseOf(i)']
           /\ Offerer' = [Offerer EXCEPT ![i] = OffererOf(i)']
           /\ UNCHANGED SeatSet
<1>1. sess'[i] = [sess[i] EXCEPT !.state = s, !.offerBy = o] /\ sess[i] \in Session
  BY DEF IInv, TypeOK
<1>2. sess'[i].state = s /\ sess'[i].offerBy = o /\ sess'[i].members = sess[i].members
  BY <1>1 DEF Session
<1>3. memberCount(i)' = memberCount(i) /\ Seats(i)' = Seats(i)
  BY <1>2 DEF memberCount, Seats
<1>4. \A j \in SessionIds : j # i => sess'[j] = sess[j]
  BY DEF IInv, TypeOK
<1>5. UNCHANGED SeatSet
  BY <1>3, <1>4, OneImage DEF SeatSet
<1> QED
  BY <1>2, <1>3, <1>4, <1>5, OneImage

LEMMA OfferMaps ==
    ASSUME IInv, NEW c \in Conns, NEW i \in SessionIds, Offer(c, i)
    PROVE  Promise!MakeOffer(c, i)
<1>1. /\ i \in byID /\ c \in Seats(i) /\ ~(memberCount(i) < 2)
      /\ sess[i].state # "offering"
      /\ sess' = [sess EXCEPT ![i].state = "offering", ![i].offerBy = RoleOf(i, c)]
  BY DEF Offer, OfferResult, lookupMember
<1>2. memberCount(i) = 2
  BY <1>1 DEF IInv, SeatsOK
<1>3. sess[i].state \in {"pending", "answered"}
  BY <1>1 DEF IInv, IndexesAgree, RegistryExact, Live
<1>4. Phase[i] = "idle"
  BY <1>2, <1>3, PhaseCases DEF Phase
<1>5. /\ sess'[i].state = "offering" /\ sess'[i].offerBy = RoleOf(i, c)
      /\ sess'[i].members = sess[i].members /\ UNCHANGED SeatSet
      /\ Phase' = [Phase EXCEPT ![i] = PhaseOf(i)']
      /\ Offerer' = [Offerer EXCEPT ![i] = OffererOf(i)']
  BY <1>1, NegotiateMaps, ZenonT(60)
<1>6. PhaseOf(i)' = "offered"
  BY <1>5, PhaseCasesNext
<1>7. OffererOf(i)' = c
  BY <1>1, <1>2, <1>5, FullSession DEF OffererOf, RoleOf
<1>8. c \in SeatSet[i]
  BY <1>1 DEF SeatSet
<1> QED
  BY <1>4, <1>5, <1>6, <1>7, <1>8 DEF Promise!MakeOffer

LEMMA AnswerMaps ==
    ASSUME IInv, NEW c \in Conns, NEW i \in SessionIds, Answer(c, i)
    PROVE  Promise!TakeAnswer(c, i)
<1>1. /\ i \in byID /\ c \in Seats(i) /\ sess[i].state = "offering"
      /\ RoleOf(i, c) # sess[i].offerBy
      /\ sess' = [sess EXCEPT ![i].state = "answered", ![i].offerBy = None]
  BY DEF Answer, AnswerResult, lookupMember
<1>2. memberCount(i) = 2 /\ sess[i].offerBy # None
  BY <1>1 DEF IInv, GlareGuard
<1>3. Phase[i] = "offered"
  BY <1>1, PhaseCases DEF Phase
<1>4. /\ sess'[i].state = "answered" /\ memberCount(i)' = 2 /\ UNCHANGED SeatSet
      /\ Phase' = [Phase EXCEPT ![i] = PhaseOf(i)']
      /\ Offerer' = [Offerer EXCEPT ![i] = OffererOf(i)']
  BY <1>1, <1>2, NegotiateMaps
<1>5. PhaseOf(i)' = "idle" /\ OffererOf(i)' = None
  BY <1>4, PhaseCasesNext DEF OffererOf
<1>6. c # OffererOf(i)
  <2>1. sess[i].offerBy \in Roles
    BY <1>2 DEF IInv, TypeOK, Session
  <2> QED
    BY <1>1, <1>2, <2>1, FullSession DEF OffererOf, RoleOf, Roles
<1>7. c \in SeatSet[i] \ {Offerer[i]}
  BY <1>1, <1>6 DEF SeatSet, Offerer
<1> QED
  BY <1>3, <1>4, <1>5, <1>7 DEF Promise!TakeAnswer

(* Ending any set of registered sessions is one Close of the protocol.     *)
LEMMA EndAllMaps ==
    ASSUME IInv, NEW D \in SUBSET byID, NEW r, endAll(D, r)
    PROVE  Promise!Close(D)
<1>1. sess' = [i \in SessionIds |->
                 IF i \in D THEN Sealed(sess[i], r) ELSE sess[i]]
  BY DEF endAll, Sealed
<1>2. ASSUME NEW i \in SessionIds, i \in D
      PROVE  PhaseOf(i)' = "over" /\ OffererOf(i)' = None /\ Seats(i)' = Seats(i)
  <2>1. sess'[i] = Sealed(sess[i], r) /\ sess[i] \in Session
    BY <1>1, <1>2 DEF IInv, TypeOK
  <2>2. sess'[i].state = "ended" /\ sess'[i].members = sess[i].members
    BY <2>1 DEF Sealed, Session
  <2> QED
    BY <2>2, PhaseCasesNext DEF OffererOf, Seats
<1>3. ASSUME NEW i \in SessionIds, i \notin D
      PROVE  PhaseOf(i)' = PhaseOf(i) /\ OffererOf(i)' = OffererOf(i) /\ Seats(i)' = Seats(i)
  BY <1>1, <1>3, SameImage
<1>4. Phase' = [i \in SessionIds |-> IF i \in D THEN "over" ELSE Phase[i]]
  BY <1>2, <1>3 DEF Phase
<1>5. Offerer' = [i \in SessionIds |-> IF i \in D THEN None ELSE Offerer[i]]
  BY <1>2, <1>3 DEF Offerer
<1>6. UNCHANGED SeatSet
  BY <1>2, <1>3 DEF SeatSet
<1> QED
  BY <1>4, <1>5, <1>6, AliveIsRegistered DEF Promise!Close

(* A step that leaves every image alone is a stutter.                      *)
LEMMA Stutters ==
    ASSUME \A i \in SessionIds :
               PhaseOf(i)' = PhaseOf(i) /\ Seats(i)' = Seats(i) /\ OffererOf(i)' = OffererOf(i)
    PROVE  UNCHANGED Promise!vars
<1>1. UNCHANGED Phase /\ UNCHANGED SeatSet /\ UNCHANGED Offerer
  BY DEF Phase, SeatSet, Offerer
<1> QED
  BY <1>1 DEF Promise!vars

LEMMA TickMaps == ASSUME IInv, Tick PROVE UNCHANGED Promise!vars
<1>1. ASSUME NEW i \in SessionIds
      PROVE  PhaseOf(i)' = PhaseOf(i) /\ Seats(i)' = Seats(i) /\ OffererOf(i)' = OffererOf(i)
  <2>1. CASE sess'[i] = sess[i]
    BY <2>1, SameImage
  <2>2. CASE sess'[i] = [sess[i] EXCEPT !.age = @ + 1]
    <3>1. sess[i] \in Session
      BY DEF IInv, TypeOK
    <3>2. /\ sess'[i].state = sess[i].state /\ sess'[i].members = sess[i].members
          /\ sess'[i].offerBy = sess[i].offerBy
      BY <2>2, <3>1 DEF Session
    <3>3. memberCount(i)' = memberCount(i) /\ Seats(i)' = Seats(i)
      BY <3>2 DEF memberCount, Seats
    <3>4. OffererOf(i)' = OffererOf(i)
      BY <3>2 DEF OffererOf
    <3>5. PhaseOf(i)' = PhaseOf(i)
      BY <3>2, <3>3 DEF PhaseOf
    <3> QED
      BY <3>3, <3>4, <3>5
  <2> QED
    BY <2>1, <2>2 DEF Tick
<1> QED
  BY <1>1, Stutters

LEMMA UnchangedMaps == ASSUME UNCHANGED sess PROVE UNCHANGED Promise!vars
<1>1. \A i \in SessionIds : sess'[i] = sess[i]
  OBVIOUS
<1> QED
  BY <1>1, SameImage, Stutters

LEMMA NextMaps == IInv /\ [Next]_ledger => [Promise!Next]_(Promise!vars)
<1> SUFFICES ASSUME IInv, [Next]_ledger PROVE [Promise!Next]_(Promise!vars)
  OBVIOUS
<1>0. byID \subseteq SessionIds
  BY DEF IInv, TypeOK
<1>1. ASSUME NEW c \in Conns, NEW i \in SessionIds, Start(c, i) PROVE Promise!Next
  BY <1>1, StartMaps DEF Promise!Next
<1>2. ASSUME NEW c \in Conns, NEW i \in SessionIds, Join(c, i) PROVE Promise!Next
  BY <1>2, JoinMaps DEF Promise!Next
<1>3. ASSUME NEW c \in Conns, NEW i \in SessionIds, End(c, i, "member_ended")
      PROVE  Promise!Next
  <2>1. {i} \in SUBSET byID /\ endAll({i}, "member_ended")
    BY <1>3 DEF End, EndResult, lookupMember
  <2>2. Promise!Close({i})
    BY <2>1, EndAllMaps
  <2> QED
    BY <2>2 DEF Promise!Next
<1>4. ASSUME NEW c \in Conns, NEW i \in SessionIds, Offer(c, i) PROVE Promise!Next
  BY <1>4, OfferMaps DEF Promise!Next
<1>5. ASSUME NEW c \in Conns, NEW i \in SessionIds, Answer(c, i) PROVE Promise!Next
  BY <1>5, AnswerMaps DEF Promise!Next
<1>6. ASSUME NEW c \in Conns, ConnDropped(c) PROVE [Promise!Next]_(Promise!vars)
  <2>1. CASE byConn[c] \in byID
    <3>1. {byConn[c]} \in SUBSET byID /\ endAll({byConn[c]}, "peer_disconnected")
      BY <1>6, <2>1 DEF ConnDropped
    <3>2. Promise!Close({byConn[c]})
      BY <3>1, EndAllMaps
    <3> QED
      BY <1>0, <2>1, <3>2 DEF Promise!Next
  <2>2. CASE byConn[c] \notin byID
    <3>1. UNCHANGED sess
      BY <1>6, <2>2 DEF ConnDropped
    <3> QED
      BY <3>1, UnchangedMaps
  <2> QED
    BY <2>1, <2>2
<1>7. CASE Reap
  <2>1. Expired \in SUBSET byID /\ endAll(Expired, "join_timeout")
    BY <1>7 DEF Reap, Expired
  <2>2. Promise!Close(Expired)
    BY <2>1, EndAllMaps
  <2> QED
    BY <1>0, <2>1, <2>2 DEF Promise!Next
<1>8. CASE Tick
  BY <1>8, TickMaps
<1>9. CASE UNCHANGED ledger
  BY <1>9, UnchangedMaps DEF ledger
<1> QED
  BY <1>1, <1>2, <1>3, <1>4, <1>5, <1>6, <1>7, <1>8, <1>9 DEF Next

-----------------------------------------------------------------------------
(* The ledger implements the negotiation protocol (manager.go, session.go):*)
(* every operation is one step of it or invisible to it.                   *)
THEOREM LedgerImplementsNegotiation == Spec => ImplementsNegotiation
<1>1. Spec => []IInv
  BY Invariance
<1> QED
  BY <1>1, InitMaps, NextMaps, PTL DEF Spec, ImplementsNegotiation, Promise!Spec
===============================================================================
