------------------------- MODULE SessionManagerProofs -------------------------
(***************************************************************************)
(* Proofs about the session ledger, for every set of connections, session  *)
(* ids and tenants, every cap and every time-out.                          *)
(***************************************************************************)
EXTENDS SessionManager, FiniteSetTheorems, SequenceTheorems, TLAPS

(* An id that was never drawn carries nothing.                             *)
UnbornClean == \A i \in SessionIds : sess[i].state = "unborn" => sess[i] = Unborn

(* The cap, counted on the index the code counts.                          *)
CapOnIndex ==
    \A t \in Tenants :
        IsFiniteSet(byTenant[t]) /\ Cardinality(byTenant[t]) <= MaxPerTenant

(* The inductive invariant: the promised invariants, which need one        *)
(* another (a joiner is free of other seats only because byConn is exact). *)
IInv == /\ TypeOK
        /\ IndexesAgree
        /\ SeatsOK
        /\ GlareGuard
        /\ UnbornClean
        /\ CapOnIndex

USE NoneAssumption, TenantOfAssumption, LimitsAssumption

-----------------------------------------------------------------------------
LEMMA InitInv == Init => IInv
<1> SUFFICES ASSUME Init PROVE IInv
  OBVIOUS
<1> USE DEF Init
<1>1. Unborn \in Session
  BY DEF Unborn, Session, States
<1>2. TypeOK
  BY <1>1 DEF TypeOK
<1>3. IndexesAgree
  BY DEF IndexesAgree, RegistryExact, TenantIndexExact, SeatIndexExact, Live, Unborn
<1>4. SeatsOK /\ GlareGuard
  BY DEF SeatsOK, GlareGuard
<1>5. UnbornClean
  BY DEF UnbornClean
<1>6. CapOnIndex
  BY FS_EmptySet DEF CapOnIndex
<1> QED
  BY <1>2, <1>3, <1>4, <1>5, <1>6 DEF IInv

(* A sealed session is still a session, and keeps its seats and tenant.    *)
Sealed(s, r) == [s EXCEPT !.state = "ended", !.reason = r]

LEMMA SealedSession ==
    ASSUME NEW s \in Session, NEW r \in Reasons
    PROVE  /\ Sealed(s, r) \in Session /\ Sealed(s, r).state = "ended"
           /\ Sealed(s, r).members = s.members /\ Sealed(s, r).tenant = s.tenant
  BY DEF Session, States, Sealed

(* What ending a set of registered sessions does to the invariant: shared  *)
(* by a member's end, a dropped connection and the reaper.                 *)
LEMMA EndAllInv ==
    ASSUME IInv, NEW D \in SUBSET byID, NEW r \in Reasons, endAll(D, r)
    PROVE  IInv'
<1>0. D \subseteq SessionIds
  BY DEF IInv, TypeOK
<1>a. \A i \in SessionIds : sess[i] \in Session
  BY DEF IInv, TypeOK
<1>b. ASSUME NEW i \in SessionIds
      PROVE  /\ i \in D => sess'[i] = [sess[i] EXCEPT !.state = "ended", !.reason = r]
             /\ i \notin D => sess'[i] = sess[i]
  BY DEF endAll
<1>2. ASSUME NEW i \in SessionIds
      PROVE  /\ i \in D => sess'[i].state = "ended"
             /\ i \notin D => sess'[i] = sess[i]
             /\ sess'[i] \in Session
             /\ sess'[i].members = sess[i].members
             /\ sess'[i].tenant = sess[i].tenant
  <2>1. CASE i \in D
    <3>1. sess[i] \in Session
      BY <1>a
    <3>2. sess'[i] = Sealed(sess[i], r)
      BY <1>b, <2>1 DEF Sealed
    <3> QED
      BY <3>1, <3>2, <2>1, SealedSession
  <2>2. CASE i \notin D
    BY <2>2, <1>a, <1>b
  <2> QED
    BY <2>1, <2>2
<1>1. TypeOK'
  <2>1. sess' \in [SessionIds -> Session]
    <3>1. DOMAIN sess' = SessionIds /\ sess' = [i \in SessionIds |-> sess'[i]]
      BY DEF endAll
    <3> QED
      BY <3>1, <1>2
  <2>2. byID' \subseteq SessionIds /\ byTenant' \in [Tenants -> SUBSET SessionIds]
    BY DEF endAll, IInv, TypeOK
  <2>3. byConn' \in [Conns -> SessionIds \cup {None}]
    BY DEF endAll, IInv, TypeOK
  <2> QED
    BY <2>1, <2>2, <2>3 DEF TypeOK
<1>3. \A i \in SessionIds : Seats(i)' = Seats(i)
  BY <1>2 DEF Seats
<1>5. RegistryExact'
  BY <1>2 DEF IInv, TypeOK, IndexesAgree, RegistryExact, Live, endAll
<1>6. TenantIndexExact'
  BY <1>0, <1>2 DEF IInv, TypeOK, IndexesAgree, TenantIndexExact, endAll
<1>7. SeatIndexExact'
  <2> SUFFICES ASSUME NEW c \in Conns, NEW i \in SessionIds
               PROVE  byConn'[c] = i <=> i \in byID' /\ c \in Seats(i)
    BY <1>3 DEF SeatIndexExact
  <2>1. \A j \in SessionIds : byConn[c] = j <=> j \in byID /\ c \in Seats(j)
    BY DEF IInv, IndexesAgree, SeatIndexExact
  <2>2. byConn'[c] = IF \E j \in D : c \in Seats(j) /\ byConn[c] = j THEN None ELSE byConn[c]
    BY DEF endAll
  <2>3. byID' = byID \ D
    BY DEF endAll
  <2> QED
    BY <1>0, <2>1, <2>2, <2>3
<1>8. SeatsOK'
  <2> SUFFICES ASSUME NEW i \in byID'
               PROVE  /\ Len(sess'[i].members) \in 1 .. 2
                      /\ Len(sess'[i].members) = 2 => sess'[i].members[1] # sess'[i].members[2]
                      /\ \A c \in Seats(i)' : TenantOf[c] = sess'[i].tenant
    BY DEF SeatsOK, memberCount
  <2>1. i \in byID /\ i \in SessionIds
    BY DEF endAll, IInv, TypeOK
  <2>2. /\ Len(sess[i].members) \in 1 .. 2
        /\ Len(sess[i].members) = 2 => sess[i].members[1] # sess[i].members[2]
        /\ \A c \in Seats(i) : TenantOf[c] = sess[i].tenant
    BY <2>1 DEF IInv, SeatsOK, memberCount
  <2> QED
    BY <2>1, <2>2, <1>2, <1>3
<1>9. GlareGuard'
  BY <1>0, <1>2 DEF IInv, TypeOK, GlareGuard, memberCount, endAll
<1>10. UnbornClean'
  BY <1>2 DEF IInv, UnbornClean
<1>11. CapOnIndex'
  <2> SUFFICES ASSUME NEW t \in Tenants
               PROVE  IsFiniteSet(byTenant'[t]) /\ Cardinality(byTenant'[t]) <= MaxPerTenant
    BY DEF CapOnIndex
  <2>1. byTenant'[t] \subseteq byTenant[t]
    BY DEF endAll
  <2>2. IsFiniteSet(byTenant[t]) /\ Cardinality(byTenant[t]) <= MaxPerTenant
    BY DEF IInv, CapOnIndex
  <2>3. IsFiniteSet(byTenant'[t]) /\ Cardinality(byTenant'[t]) <= Cardinality(byTenant[t])
    BY <2>1, <2>2, FS_Subset
  <2>4. Cardinality(byTenant[t]) \in Nat /\ Cardinality(byTenant'[t]) \in Nat
    BY <2>2, <2>3, FS_CardinalityType
  <2> QED
    BY <2>2, <2>3, <2>4
<1> QED
  BY <1>1, <1>5, <1>6, <1>7, <1>8, <1>9, <1>10, <1>11 DEF IInv, IndexesAgree

-----------------------------------------------------------------------------
(* A new session seats its initiator and nobody else.                      *)
LEMMA NewSessionType ==
    ASSUME NEW c \in Conns
    PROVE  /\ NewSession(c) \in Session /\ NewSession(c).state = "pending"
           /\ NewSession(c).tenant = TenantOf[c] /\ NewSession(c).members = <<c>>
           /\ NewSession(c).offerBy = None
<1>1. <<c>> \in Seq(Conns) /\ TenantOf[c] \in Tenants /\ 0 \in 0 .. PendingTTL
  OBVIOUS
<1> QED
  BY <1>1 DEF NewSession, Session, States

(* An index that gains a session grows by one, or not at all.              *)
LEMMA OneMoreElement ==
    ASSUME NEW S, IsFiniteSet(S), NEW e
    PROVE  /\ IsFiniteSet(S \cup {e})
           /\ \/ Cardinality(S \cup {e}) = Cardinality(S) + 1
              \/ Cardinality(S \cup {e}) = Cardinality(S)
<1>1. CASE e \in S
  BY ONLY IsFiniteSet(S), <1>1, FS_AddElement
<1>2. CASE e \notin S
  BY ONLY IsFiniteSet(S), <1>2, FS_AddElement
<1> QED
  BY <1>1, <1>2

LEMMA StartInv ==
    ASSUME IInv, NEW c \in Conns, NEW i \in SessionIds, Start(c, i)
    PROVE  IInv'
<1>0. /\ byConn[c] = None
      /\ ~(Cardinality(byTenant[TenantOf[c]]) >= MaxPerTenant)
      /\ sess[i].state = "unborn"
      /\ sess' = [sess EXCEPT ![i] = NewSession(c)]
      /\ byID' = byID \cup {i}
      /\ byTenant' = [byTenant EXCEPT ![TenantOf[c]] = @ \cup {i}]
      /\ byConn' = [byConn EXCEPT ![c] = i]
  BY DEF Start, StartResult
<1>1. TypeOK /\ TenantOf[c] \in Tenants
  BY DEF IInv
<1>2. i \notin byID
  BY <1>0 DEF IInv, IndexesAgree, RegistryExact, Live
<1>3. /\ sess'[i] = NewSession(c)
      /\ \A j \in SessionIds : j # i => sess'[j] = sess[j]
  BY <1>0, <1>1 DEF TypeOK
<1>4. TypeOK'
  BY <1>0, <1>1, NewSessionType DEF TypeOK
<1>5. Seats(i)' = {c}
  BY <1>3, NewSessionType DEF Seats
<1>6. \A j \in SessionIds : j # i => Seats(j)' = Seats(j)
  BY <1>3 DEF Seats
<1>7. RegistryExact'
  BY <1>0, <1>1, <1>3, NewSessionType DEF IInv, TypeOK, IndexesAgree, RegistryExact, Live
<1>8. TenantIndexExact'
  <2> SUFFICES ASSUME NEW t \in Tenants
               PROVE  byTenant'[t] = {j \in byID' : sess'[j].tenant = t}
    BY DEF TenantIndexExact
  <2>1. byTenant[t] = {j \in byID : sess[j].tenant = t}
    BY DEF IInv, IndexesAgree, TenantIndexExact
  <2>2. sess'[i].tenant = TenantOf[c]
    BY <1>3, NewSessionType
  <2>3. byTenant'[t] = IF t = TenantOf[c] THEN byTenant[t] \cup {i} ELSE byTenant[t]
    BY <1>0, <1>1 DEF TypeOK
  <2>4. \A j \in byID : j \in SessionIds /\ sess'[j] = sess[j]
    BY <1>1, <1>2, <1>3 DEF TypeOK
  <2>5. byID' = byID \cup {i}
    BY <1>0
  <2> QED
    BY <2>1, <2>2, <2>3, <2>4, <2>5, <1>2
<1>9. SeatIndexExact'
  <2> SUFFICES ASSUME NEW d \in Conns, NEW j \in SessionIds
               PROVE  byConn'[d] = j <=> j \in byID' /\ d \in Seats(j)'
    BY DEF SeatIndexExact
  <2>1. byConn[d] = j <=> j \in byID /\ d \in Seats(j)
    BY DEF IInv, IndexesAgree, SeatIndexExact
  <2>2. byConn[d] = i => i \in byID
    BY DEF IInv, IndexesAgree, SeatIndexExact
  <2>3. byConn'[d] = IF d = c THEN i ELSE byConn[d]
    BY <1>0, <1>1 DEF TypeOK
  <2>4. None \notin SessionIds
    OBVIOUS
  <2>5. CASE j = i
    BY <2>2, <2>3, <2>5, <1>0, <1>2, <1>5
  <2>6. CASE j # i
    BY <2>1, <2>3, <2>4, <2>6, <1>0, <1>6
  <2> QED
    BY <2>5, <2>6
<1>10. SeatsOK'
  <2> SUFFICES ASSUME NEW j \in byID'
               PROVE  /\ Len(sess'[j].members) \in 1 .. 2
                      /\ Len(sess'[j].members) = 2 => sess'[j].members[1] # sess'[j].members[2]
                      /\ \A d \in Seats(j)' : TenantOf[d] = sess'[j].tenant
    BY DEF SeatsOK, memberCount
  <2>1. CASE j = i
    BY <2>1, <1>3, <1>5, NewSessionType
  <2>2. CASE j # i
    <3>1. j \in byID /\ j \in SessionIds
      BY <2>2, <1>0, <1>1 DEF TypeOK
    <3>2. /\ Len(sess[j].members) \in 1 .. 2
          /\ Len(sess[j].members) = 2 => sess[j].members[1] # sess[j].members[2]
          /\ \A d \in Seats(j) : TenantOf[d] = sess[j].tenant
      BY <3>1 DEF IInv, SeatsOK, memberCount
    <3> QED
      BY <2>2, <3>1, <3>2, <1>3, <1>6
  <2> QED
    BY <2>1, <2>2
<1>11. GlareGuard'
  BY <1>0, <1>1, <1>2, <1>3, NewSessionType DEF IInv, TypeOK, GlareGuard, memberCount
<1>12. UnbornClean'
  BY <1>3, NewSessionType DEF IInv, UnbornClean
<1>13. CapOnIndex'
  <2> SUFFICES ASSUME NEW t \in Tenants
               PROVE  IsFiniteSet(byTenant'[t]) /\ Cardinality(byTenant'[t]) <= MaxPerTenant
    BY DEF CapOnIndex
  <2>1. IsFiniteSet(byTenant[t]) /\ Cardinality(byTenant[t]) <= MaxPerTenant
    BY DEF IInv, CapOnIndex
  <2>2. Cardinality(byTenant[t]) \in Nat
    BY <2>1, FS_CardinalityType
  <2>3. CASE t = TenantOf[c]
    <3>1. byTenant'[t] = byTenant[t] \cup {i}
      BY <2>3, <1>0, <1>1 DEF TypeOK
    <3>2. /\ IsFiniteSet(byTenant'[t])
          /\ \/ Cardinality(byTenant'[t]) = Cardinality(byTenant[t]) + 1
             \/ Cardinality(byTenant'[t]) = Cardinality(byTenant[t])
      <4>1. IsFiniteSet(byTenant[t])
        BY <2>1
      <4>2. /\ IsFiniteSet(byTenant[t] \cup {i})
            /\ \/ Cardinality(byTenant[t] \cup {i}) = Cardinality(byTenant[t]) + 1
               \/ Cardinality(byTenant[t] \cup {i}) = Cardinality(byTenant[t])
        BY <4>1, OneMoreElement
      <4> QED
        BY ONLY <3>1, <4>2
    <3> QED
      BY <2>1, <2>2, <2>3, <3>2, <1>0
  <2>4. CASE t # TenantOf[c]
    BY <2>1, <2>4, <1>0, <1>1 DEF TypeOK
  <2> QED
    BY <2>3, <2>4
<1> QED
  BY <1>4, <1>7, <1>8, <1>9, <1>10, <1>11, <1>12, <1>13 DEF IInv, IndexesAgree

-----------------------------------------------------------------------------
(* A second seat, taken beside the one there is.                           *)
LEMMA OneSeat == ASSUME NEW n \in 1 .. 2, ~(n >= 2) PROVE n = 1
  OBVIOUS

LEMMA LastSeat ==
    ASSUME NEW S, NEW m \in Seq(S), NEW c \in S
    PROVE  Append(m, c)[Len(m) + 1] = c
  BY AppendProperties

LEMMA OneLonger ==
    ASSUME NEW S, NEW m \in Seq(S), NEW c \in S
    PROVE  Append(m, c) \in Seq(S) /\ Len(Append(m, c)) = Len(m) + 1
  BY AppendProperties

LEMMA SecondSeat ==
    ASSUME NEW S, NEW m \in Seq(S), Len(m) = 1, NEW c \in S
    PROVE  /\ Append(m, c) \in Seq(S) /\ Len(Append(m, c)) = 2
           /\ Append(m, c)[1] = m[1] /\ Append(m, c)[2] = c
<1>1. Append(m, c) \in Seq(S)
  BY OneLonger
<1>2. Len(Append(m, c)) = Len(m) + 1
  BY OneLonger
<1>3. Append(m, c)[1] = m[1]
  OBVIOUS
<1>4. Append(m, c)[Len(m) + 1] = c
  BY LastSeat
<1> QED
  BY <1>1, <1>2, <1>3, <1>4

(* Seating a second connection.                                            *)
LEMMA JoinInv ==
    ASSUME IInv, NEW c \in Conns, NEW i \in SessionIds, Join(c, i)
    PROVE  IInv'
<1>0. /\ byConn[c] = None
      /\ i \in byID /\ sess[i].tenant = TenantOf[c]
      /\ ~(Len(sess[i].members) >= 2)
      /\ sess' = [sess EXCEPT ![i].members = Append(@, c)]
      /\ byConn' = [byConn EXCEPT ![c] = i]
      /\ byID' = byID /\ byTenant' = byTenant
  BY DEF Join, JoinResult, memberCount
<1>1. TypeOK /\ sess[i] \in Session
  BY DEF IInv, TypeOK
<1> DEFINE m == sess[i].members
<1>2. m \in Seq(Conns) /\ Len(m) = 1 /\ Seats(i) = {m[1]} /\ TenantOf[m[1]] = TenantOf[c]
  <2>1. m \in Seq(Conns)
    BY <1>1 DEF Session
  <2>2. Len(m) \in 1 .. 2
    BY <1>0 DEF IInv, SeatsOK, memberCount
  <2>3. Len(m) = 1
    BY <1>0, <2>2, OneSeat
  <2>4. Seats(i) = {m[1]}
    BY <2>1, <2>3 DEF Seats
  <2>5. \A d \in Seats(i) : TenantOf[d] = sess[i].tenant
    BY <1>0 DEF IInv, SeatsOK
  <2> QED
    BY <1>0, <2>1, <2>3, <2>4, <2>5
<1>3. c # m[1]
  BY <1>0, <1>2 DEF IInv, IndexesAgree, SeatIndexExact
<1>4. /\ sess'[i] = [sess[i] EXCEPT !.members = Append(m, c)]
      /\ \A j \in SessionIds : j # i => sess'[j] = sess[j]
  BY <1>0, <1>1 DEF TypeOK
<1>5. /\ Append(m, c) \in Seq(Conns) /\ Len(Append(m, c)) = 2
      /\ Append(m, c)[1] = m[1] /\ Append(m, c)[2] = c
  BY <1>2, SecondSeat
<1>6. /\ sess'[i] \in Session /\ sess'[i].members = Append(m, c)
      /\ sess'[i].state = sess[i].state /\ sess'[i].tenant = sess[i].tenant
      /\ sess'[i].offerBy = sess[i].offerBy
  BY <1>1, <1>4, <1>5 DEF Session
<1>7. TypeOK'
  <2>1. sess' \in [SessionIds -> Session]
    BY <1>0, <1>1, <1>4, <1>6 DEF TypeOK
  <2> QED
    BY <1>0, <1>1, <2>1 DEF TypeOK
<1>8. Seats(i)' = {m[1], c}
  <2>1. DOMAIN sess'[i].members = 1 .. 2
    BY <1>5, <1>6
  <2> QED
    BY <1>5, <1>6, <2>1 DEF Seats
<1>9. \A j \in SessionIds : j # i => Seats(j)' = Seats(j)
  BY <1>4 DEF Seats
<1>10. RegistryExact'
  BY <1>0, <1>4, <1>6 DEF IInv, IndexesAgree, RegistryExact, Live
<1>11. TenantIndexExact'
  BY <1>0, <1>1, <1>4, <1>6 DEF IInv, TypeOK, IndexesAgree, TenantIndexExact
<1>12. SeatIndexExact'
  <2> SUFFICES ASSUME NEW d \in Conns, NEW j \in SessionIds
               PROVE  byConn'[d] = j <=> j \in byID' /\ d \in Seats(j)'
    BY DEF SeatIndexExact
  <2>1. byConn[d] = j <=> j \in byID /\ d \in Seats(j)
    BY DEF IInv, IndexesAgree, SeatIndexExact
  <2>2. byConn'[d] = IF d = c THEN i ELSE byConn[d]
    BY <1>0, <1>1 DEF TypeOK
  <2>3. None \notin SessionIds
    OBVIOUS
  <2>4. CASE j = i
    BY <2>1, <2>2, <2>4, <1>0, <1>2, <1>8
  <2>5. CASE j # i
    BY <2>1, <2>2, <2>3, <2>5, <1>0, <1>9
  <2> QED
    BY <2>4, <2>5
<1>13. SeatsOK'
  <2> SUFFICES ASSUME NEW j \in byID'
               PROVE  /\ Len(sess'[j].members) \in 1 .. 2
                      /\ Len(sess'[j].members) = 2 => sess'[j].members[1] # sess'[j].members[2]
                      /\ \A d \in Seats(j)' : TenantOf[d] = sess'[j].tenant
    BY DEF SeatsOK, memberCount
  <2>1. CASE j = i
    BY <2>1, <1>0, <1>2, <1>3, <1>5, <1>6, <1>8
  <2>2. CASE j # i
    <3>1. j \in byID /\ j \in SessionIds
      BY <1>0, <1>1 DEF TypeOK
    <3>2. /\ Len(sess[j].members) \in 1 .. 2
          /\ Len(sess[j].members) = 2 => sess[j].members[1] # sess[j].members[2]
          /\ \A d \in Seats(j) : TenantOf[d] = sess[j].tenant
      BY <3>1 DEF IInv, SeatsOK, memberCount
    <3> QED
      BY <2>2, <3>1, <3>2, <1>4, <1>9
  <2> QED
    BY <2>1, <2>2
<1>14. GlareGuard'
  <2> SUFFICES ASSUME NEW j \in byID'
               PROVE  /\ sess'[j].state = "offering" <=> sess'[j].offerBy # None
                      /\ sess'[j].state \in {"offering", "answered"} => Len(sess'[j].members) = 2
    BY DEF GlareGuard, memberCount
  <2>1. j \in byID /\ j \in SessionIds
    BY <1>0, <1>1 DEF TypeOK
  <2>2. /\ sess[j].state = "offering" <=> sess[j].offerBy # None
        /\ sess[j].state \in {"offering", "answered"} => Len(sess[j].members) = 2
    BY <2>1 DEF IInv, GlareGuard, memberCount
  <2> QED
    BY <2>1, <2>2, <1>4, <1>5, <1>6
<1>15. UnbornClean'
  BY <1>0, <1>4, <1>6 DEF IInv, UnbornClean, IndexesAgree, RegistryExact, Live
<1>16. CapOnIndex'
  BY <1>0 DEF IInv, CapOnIndex
<1> QED
  BY <1>7, <1>10, <1>11, <1>12, <1>13, <1>14, <1>15, <1>16 DEF IInv, IndexesAgree

(* A step that leaves the indexes alone and, of the registered sessions,   *)
(* changes only negotiation state and age.                                 *)
LEMMA NegotiateInv ==
    ASSUME IInv, TypeOK', UNCHANGED <<byID, byTenant, byConn>>, GlareGuard',
           \A j \in SessionIds : \/ sess'[j] = sess[j]
                                 \/ /\ j \in byID /\ Live(j)'
                                    /\ sess'[j].members = sess[j].members
                                    /\ sess'[j].tenant = sess[j].tenant
    PROVE  IInv'
<1>1. \A j \in SessionIds : /\ sess'[j].members = sess[j].members
                            /\ sess'[j].tenant = sess[j].tenant
                            /\ Seats(j)' = Seats(j)
  BY DEF Seats
<1>2. \A j \in SessionIds : Live(j)' <=> Live(j)
  BY DEF IInv, IndexesAgree, RegistryExact, Live
<1>3. RegistryExact'
  BY <1>2 DEF IInv, IndexesAgree, RegistryExact
<1>4. TenantIndexExact'
  BY <1>1 DEF IInv, TypeOK, IndexesAgree, TenantIndexExact
<1>5. SeatIndexExact'
  BY <1>1 DEF IInv, IndexesAgree, SeatIndexExact
<1>6. SeatsOK'
  BY <1>1 DEF IInv, TypeOK, SeatsOK, memberCount
<1>7. UnbornClean'
  BY <1>2 DEF IInv, UnbornClean, Live
<1>8. CapOnIndex'
  BY DEF IInv, CapOnIndex
<1> QED
  BY <1>3, <1>4, <1>5, <1>6, <1>7, <1>8 DEF IInv, IndexesAgree

(* A lawful offer finds two seats and nothing outstanding.                 *)
LEMMA OfferInv ==
    ASSUME IInv, NEW c \in Conns, NEW i \in SessionIds, Offer(c, i)
    PROVE  IInv'
<1>0. /\ i \in byID /\ ~(memberCount(i) < 2)
      /\ sess' = [sess EXCEPT ![i].state = "offering", ![i].offerBy = RoleOf(i, c)]
      /\ UNCHANGED <<byID, byTenant, byConn>>
  BY DEF Offer, OfferResult, lookupMember
<1>1. TypeOK /\ sess[i] \in Session /\ RoleOf(i, c) \in Roles
  BY DEF IInv, TypeOK, RoleOf, Roles
<1>2. /\ sess'[i] = [sess[i] EXCEPT !.state = "offering", !.offerBy = RoleOf(i, c)]
      /\ \A j \in SessionIds : j # i => sess'[j] = sess[j]
  BY <1>0, <1>1 DEF TypeOK
<1>3. /\ sess'[i] \in Session /\ sess'[i].state = "offering" /\ sess'[i].offerBy # None
      /\ sess'[i].members = sess[i].members /\ sess'[i].tenant = sess[i].tenant
  BY <1>1, <1>2, ZenonT(60) DEF Session, States
<1>4. TypeOK'
  <2>1. sess' \in [SessionIds -> Session]
    BY <1>0, <1>1, <1>2, <1>3 DEF TypeOK
  <2> QED
    BY <1>0, <1>1, <2>1 DEF TypeOK
<1>5. memberCount(i)' = 2
  <2>1. memberCount(i) \in 1 .. 2
    BY <1>0 DEF IInv, SeatsOK
  <2>2. memberCount(i)' = memberCount(i)
    BY <1>3 DEF memberCount
  <2> QED
    BY <1>0, <2>1, <2>2
<1>6. GlareGuard'
  BY <1>0, <1>1, <1>2, <1>3, <1>5 DEF IInv, TypeOK, GlareGuard, memberCount
<1> QED
  BY <1>0, <1>2, <1>3, <1>4, <1>6, NegotiateInv DEF Live

(* A lawful answer clears the offer it answers.                            *)
LEMMA AnswerInv ==
    ASSUME IInv, NEW c \in Conns, NEW i \in SessionIds, Answer(c, i)
    PROVE  IInv'
<1>0. /\ i \in byID /\ sess[i].state = "offering"
      /\ sess' = [sess EXCEPT ![i].state = "answered", ![i].offerBy = None]
      /\ UNCHANGED <<byID, byTenant, byConn>>
  BY DEF Answer, AnswerResult, lookupMember
<1>1. TypeOK /\ sess[i] \in Session
  BY DEF IInv, TypeOK
<1>2. /\ sess'[i] = [sess[i] EXCEPT !.state = "answered", !.offerBy = None]
      /\ \A j \in SessionIds : j # i => sess'[j] = sess[j]
  BY <1>0, <1>1 DEF TypeOK
<1>3. /\ sess'[i] \in Session /\ sess'[i].state = "answered" /\ sess'[i].offerBy = None
      /\ sess'[i].members = sess[i].members /\ sess'[i].tenant = sess[i].tenant
  BY <1>1, <1>2 DEF Session, States
<1>4. TypeOK'
  <2>1. sess' \in [SessionIds -> Session]
    BY <1>0, <1>1, <1>2, <1>3 DEF TypeOK
  <2> QED
    BY <1>0, <1>1, <2>1 DEF TypeOK
<1>5. memberCount(i)' = 2
  BY <1>0, <1>3 DEF IInv, GlareGuard, memberCount
<1>6. GlareGuard'
  BY <1>0, <1>1, <1>2, <1>3, <1>5 DEF IInv, TypeOK, GlareGuard, memberCount
<1> QED
  BY <1>0, <1>2, <1>3, <1>4, <1>6, NegotiateInv DEF Live

LEMMA TickInv ==
    ASSUME IInv, Tick
    PROVE  IInv'
<1>1. ASSUME NEW j \in SessionIds
      PROVE  /\ sess'[j] \in Session
             /\ sess'[j].state = sess[j].state /\ sess'[j].members = sess[j].members
             /\ sess'[j].tenant = sess[j].tenant /\ sess'[j].offerBy = sess[j].offerBy
             /\ sess'[j] = sess[j] \/ j \in byID
  <2>1. sess[j] \in Session
    BY DEF IInv, TypeOK
  <2>2. CASE j \in byID /\ memberCount(j) = 1 /\ sess[j].age < PendingTTL
    <3>1. sess'[j] = [sess[j] EXCEPT !.age = @ + 1]
      BY <2>2 DEF Tick
    <3>2. sess[j].age + 1 \in 0 .. PendingTTL
      BY <2>1, <2>2 DEF Session
    <3> QED
      BY <2>1, <2>2, <3>1, <3>2 DEF Session
  <2>3. CASE ~(j \in byID /\ memberCount(j) = 1 /\ sess[j].age < PendingTTL)
    BY <2>1, <2>3 DEF Tick
  <2> QED
    BY <2>2, <2>3
<1>2. UNCHANGED <<byID, byTenant, byConn>>
  BY DEF Tick
<1>3. TypeOK'
  <2>1. sess' = [j \in SessionIds |-> sess'[j]]
    BY DEF Tick
  <2>2. sess' \in [SessionIds -> Session]
    BY <1>1, <2>1
  <2> QED
    BY <1>2, <2>2 DEF IInv, TypeOK
<1>4. GlareGuard'
  BY <1>1, <1>2 DEF IInv, TypeOK, GlareGuard, memberCount
<1>5. \A j \in byID : Live(j)'
  BY <1>1 DEF IInv, TypeOK, IndexesAgree, RegistryExact, Live
<1> QED
  BY <1>1, <1>2, <1>3, <1>4, <1>5, NegotiateInv

LEMMA ConnDroppedInv ==
    ASSUME IInv, NEW c \in Conns, ConnDropped(c)
    PROVE  IInv'
<1>1. byConn[c] \in byID \cup {None}
  BY DEF IInv, TypeOK, IndexesAgree, SeatIndexExact
<1>2. CASE byConn[c] = None
  <2>1. byConn[c] \notin byID
    BY <1>2 DEF IInv, TypeOK
  <2>2. byConn' = [byConn EXCEPT ![c] = None] /\ UNCHANGED <<sess, byID, byTenant>>
    BY <2>1 DEF ConnDropped
  <2>3. byConn' = byConn
    BY <1>2, <2>2 DEF IInv, TypeOK
  <2>4. UNCHANGED ledger
    BY <2>2, <2>3 DEF ledger
  <2> QED
    BY <2>4 DEF ledger, IInv, TypeOK, IndexesAgree, RegistryExact, TenantIndexExact,
                SeatIndexExact, Live, Seats, SeatsOK, GlareGuard, memberCount,
                UnbornClean, CapOnIndex
<1>3. CASE byConn[c] \in byID
  <2>2. endAll({byConn[c]}, "peer_disconnected")
    BY <1>3 DEF ConnDropped
  <2>3. {byConn[c]} \in SUBSET byID /\ "peer_disconnected" \in Reasons
    BY <1>3 DEF Reasons
  <2> QED
    BY <2>2, <2>3, EndAllInv
<1> QED
  BY <1>1, <1>2, <1>3

LEMMA NextInv == IInv /\ [Next]_ledger => IInv'
<1> SUFFICES ASSUME IInv, [Next]_ledger PROVE IInv'
  OBVIOUS
<1>1. ASSUME NEW c \in Conns, NEW i \in SessionIds, Start(c, i) PROVE IInv'
  BY <1>1, StartInv
<1>2. ASSUME NEW c \in Conns, NEW i \in SessionIds, Join(c, i) PROVE IInv'
  BY <1>2, JoinInv
<1>3. ASSUME NEW c \in Conns, NEW i \in SessionIds, End(c, i, "member_ended") PROVE IInv'
  <2>1. {i} \in SUBSET byID /\ "member_ended" \in Reasons /\ endAll({i}, "member_ended")
    BY <1>3 DEF End, EndResult, lookupMember, Reasons
  <2> QED
    BY <2>1, EndAllInv
<1>4. ASSUME NEW c \in Conns, NEW i \in SessionIds, Offer(c, i) PROVE IInv'
  BY <1>4, OfferInv
<1>5. ASSUME NEW c \in Conns, NEW i \in SessionIds, Answer(c, i) PROVE IInv'
  BY <1>5, AnswerInv
<1>6. ASSUME NEW c \in Conns, ConnDropped(c) PROVE IInv'
  BY <1>6, ConnDroppedInv
<1>7. CASE Reap
  <2>1. Expired \in SUBSET byID /\ "join_timeout" \in Reasons /\ endAll(Expired, "join_timeout")
    BY <1>7 DEF Reap, Expired, Reasons
  <2> QED
    BY <2>1, EndAllInv
<1>8. CASE Tick
  BY <1>8, TickInv
<1>9. CASE UNCHANGED ledger
  BY <1>9 DEF ledger, IInv, TypeOK, IndexesAgree, RegistryExact, TenantIndexExact,
              SeatIndexExact, Live, Seats, SeatsOK, GlareGuard, memberCount,
              UnbornClean, CapOnIndex
<1> QED
  BY <1>1, <1>2, <1>3, <1>4, <1>5, <1>6, <1>7, <1>8, <1>9 DEF Next

-----------------------------------------------------------------------------
(* The inductive invariant holds of every behaviour of the ledger.         *)
THEOREM Invariance == Spec => []IInv
  BY InitInv, NextInv, PTL DEF Spec

(* The ledger's variables keep their shape (session.go, registry.go).      *)
THEOREM TypeCorrect == Spec => []TypeOK
<1>1. IInv => TypeOK
  BY DEF IInv
<1> QED
  BY <1>1, Invariance, PTL

(* Whatever the interleaving of operations, the registry's three indexes   *)
(* agree with the sessions and with one another (registry.go).             *)
THEOREM IndexesAlwaysAgree == Spec => []IndexesAgree
<1>1. IInv => IndexesAgree
  BY DEF IInv
<1> QED
  BY <1>1, Invariance, PTL

(* A live session seats one or two different connections, all of its own   *)
(* tenant: no frame the relay forwards can cross a tenant; and at most one *)
(* offer is ever outstanding, made by one of two seated members            *)
(* (manager.go Join, Offer, Answer).                                       *)
THEOREM SessionsAlwaysSound == Spec => []SessionsSound
<1>1. IInv => SessionsSound
  BY DEF IInv, SessionsSound
<1> QED
  BY <1>1, Invariance, PTL

(* No tenant ever holds more live sessions than its cap: the index the     *)
(* code counts is the set of the tenant's live sessions (manager.go Start).*)
THEOREM TenantsWithinCap == Spec => []TenantCap
<1>1. IInv => TenantCap
  BY DEF IInv, IndexesAgree, TenantIndexExact, CapOnIndex, TenantCap
<1> QED
  BY <1>1, Invariance, PTL

-----------------------------------------------------------------------------
(* The reaper ends only sessions nobody ever joined, and only over-age     *)
(* ones (lifecycle.go).  Inductive once it is known that a session carries *)
(* a reason only after it ended, and so is out of every operation's reach. *)
Unsealed == \A i \in SessionIds : sess[i].state # "ended" => sess[i].reason = None

ReapInv == IInv /\ Unsealed /\ ReapsOnlyLone

LEMMA ReapEndAll ==
    ASSUME ReapInv, NEW D \in SUBSET byID, NEW r \in Reasons, endAll(D, r),
           r = "join_timeout" =>
             \A i \in D : memberCount(i) = 1 /\ sess[i].age = PendingTTL
    PROVE  Unsealed' /\ ReapsOnlyLone'
<1>1. sess' = [i \in SessionIds |-> IF i \in D THEN Sealed(sess[i], r) ELSE sess[i]]
  BY DEF endAll, Sealed
<1>2. ASSUME NEW i \in SessionIds, i \in D
      PROVE  /\ sess'[i].state = "ended" /\ sess'[i].reason = r
             /\ sess'[i].age = sess[i].age /\ memberCount(i)' = memberCount(i)
  <2>1. sess'[i] = Sealed(sess[i], r) /\ sess[i] \in Session
    BY <1>1, <1>2 DEF ReapInv, IInv, TypeOK
  <2> QED
    BY <2>1 DEF Sealed, Session, memberCount
<1>3. ASSUME NEW i \in SessionIds, i \notin D
      PROVE  sess'[i] = sess[i] /\ memberCount(i)' = memberCount(i)
  BY <1>1, <1>3 DEF memberCount
<1>4. Unsealed'
  BY <1>2, <1>3 DEF ReapInv, Unsealed
<1>5. ReapsOnlyLone'
  BY <1>2, <1>3 DEF ReapInv, ReapsOnlyLone
<1> QED
  BY <1>4, <1>5

(* A step that touches no ended session, and seals none.                   *)
LEMMA ReapUntouched ==
    ASSUME ReapInv,
           \A i \in SessionIds :
               \/ sess'[i] = sess[i]
               \/ sess'[i].reason = None
    PROVE  Unsealed' /\ ReapsOnlyLone'
<1>1. None # "join_timeout"
  BY DEF Reasons
<1>2. ASSUME NEW i \in SessionIds, sess'[i] = sess[i]
      PROVE  memberCount(i)' = memberCount(i)
  BY <1>2 DEF memberCount
<1> QED
  BY <1>1, <1>2 DEF ReapInv, Unsealed, ReapsOnlyLone

LEMMA InitReap == Init => Unsealed /\ ReapsOnlyLone
<1>1. None # "join_timeout"
  BY DEF Reasons
<1> QED
  BY <1>1 DEF Init, Unborn, Unsealed, ReapsOnlyLone

(* An operation on one live session that sets other fields.                *)
LEMMA ReapOneSession ==
    ASSUME ReapInv, NEW i \in SessionIds,
           \A j \in SessionIds : j # i => sess'[j] = sess[j],
           sess'[i].reason = sess[i].reason, sess[i].state # "ended"
    PROVE  Unsealed' /\ ReapsOnlyLone'
<1>1. sess'[i].reason = None
  BY DEF ReapInv, Unsealed
<1> QED
  BY <1>1, ReapUntouched

LEMMA RegisteredNotEnded ==
    ASSUME IInv, NEW i \in byID
    PROVE  sess[i].state # "ended"
  BY DEF IInv, IndexesAgree, RegistryExact, Live

LEMMA ReapNext == ReapInv /\ [Next]_ledger => ReapInv'
<1> SUFFICES ASSUME ReapInv, [Next]_ledger PROVE Unsealed' /\ ReapsOnlyLone'
  BY NextInv DEF ReapInv
<1>0. IInv /\ sess \in [SessionIds -> Session] /\ byID \subseteq SessionIds
  BY DEF ReapInv, IInv, TypeOK
<1>1. ASSUME NEW c \in Conns, NEW i \in SessionIds, Start(c, i)
      PROVE  Unsealed' /\ ReapsOnlyLone'
  <2>1. sess[i].state # "ended" /\ sess' = [sess EXCEPT ![i] = NewSession(c)]
    BY <1>1 DEF Start
  <2>2. sess'[i].reason = None
    BY <1>0, <2>1 DEF NewSession
  <2> QED
    BY <1>0, <2>1, <2>2, ReapUntouched
<1>2. ASSUME NEW c \in Conns, NEW i \in SessionIds, Join(c, i)
      PROVE  Unsealed' /\ ReapsOnlyLone'
  <2>1. i \in byID /\ sess' = [sess EXCEPT ![i].members = Append(@, c)]
    BY <1>2 DEF Join, JoinResult
  <2>2. sess'[i].reason = sess[i].reason
    BY <1>0, <2>1 DEF Session
  <2> QED
    BY <1>0, <2>1, <2>2, ReapOneSession, RegisteredNotEnded
<1>3. ASSUME NEW c \in Conns, NEW i \in SessionIds, End(c, i, "member_ended")
      PROVE  Unsealed' /\ ReapsOnlyLone'
  <2>1. {i} \in SUBSET byID /\ "member_ended" \in Reasons /\ endAll({i}, "member_ended")
    BY <1>3 DEF End, EndResult, lookupMember, Reasons
  <2> QED
    BY <2>1, ReapEndAll
<1>4. ASSUME NEW i \in SessionIds, i \in byID, NEW s, NEW o,
             sess' = [sess EXCEPT ![i].state = s, ![i].offerBy = o]
      PROVE  Unsealed' /\ ReapsOnlyLone'
  <2>1. sess'[i].reason = sess[i].reason
    BY <1>0, <1>4 DEF Session
  <2> QED
    BY <1>0, <1>4, <2>1, ReapOneSession, RegisteredNotEnded
<1>5. ASSUME NEW c \in Conns, NEW i \in SessionIds, Offer(c, i)
      PROVE  Unsealed' /\ ReapsOnlyLone'
  BY <1>4, <1>5 DEF Offer, OfferResult, lookupMember
<1>6. ASSUME NEW c \in Conns, NEW i \in SessionIds, Answer(c, i)
      PROVE  Unsealed' /\ ReapsOnlyLone'
  BY <1>4, <1>6 DEF Answer, AnswerResult, lookupMember
<1>7. ASSUME NEW c \in Conns, ConnDropped(c) PROVE Unsealed' /\ ReapsOnlyLone'
  <2>1. CASE byConn[c] \in byID
    <3>1. /\ {byConn[c]} \in SUBSET byID /\ "peer_disconnected" \in Reasons
          /\ endAll({byConn[c]}, "peer_disconnected")
      BY <1>7, <2>1 DEF ConnDropped, Reasons
    <3> QED
      BY <3>1, ReapEndAll
  <2>2. CASE byConn[c] \notin byID
    BY <1>7, <2>2, ReapUntouched DEF ConnDropped
  <2> QED
    BY <2>1, <2>2
<1>8. CASE Reap
  <2>1. Expired \in SUBSET byID /\ "join_timeout" \in Reasons /\ endAll(Expired, "join_timeout")
    BY <1>8 DEF Reap, Expired, Reasons
  <2>2. \A i \in Expired : memberCount(i) = 1 /\ sess[i].age = PendingTTL
    <3>1. \A i \in byID : sess[i].age \in 0 .. PendingTTL
      BY <1>0 DEF Session
    <3> QED
      BY <3>1 DEF Expired
  <2> QED
    BY <2>1, <2>2, ReapEndAll
<1>9. CASE Tick
  <2>1. ASSUME NEW i \in SessionIds PROVE sess'[i] = sess[i] \/ sess'[i].reason = None
    <3>1. CASE i \in byID /\ sess'[i] = [sess[i] EXCEPT !.age = @ + 1]
      <4>1. sess'[i].reason = sess[i].reason
        BY <1>0, <3>1 DEF Session
      <4> QED
        BY <1>0, <3>1, <4>1, RegisteredNotEnded DEF ReapInv, Unsealed
    <3> QED
      BY <1>9, <3>1 DEF Tick
  <2> QED
    BY <2>1, ReapUntouched
<1>10. CASE UNCHANGED ledger
  BY <1>10, ReapUntouched DEF ledger
<1> QED
  BY <1>1, <1>2, <1>3, <1>5, <1>6, <1>7, <1>8, <1>9, <1>10 DEF Next

(* The reaper touches no session that was ever joined, and none early      *)
(* (lifecycle.go Reap).                                                    *)
THEOREM OnlyLoneSessionsReaped == Spec => []ReapsOnlyLone
<1>1. Init => ReapInv
  BY InitInv, InitReap DEF ReapInv
<1>2. ReapInv => ReapsOnlyLone
  BY DEF ReapInv
<1> QED
  BY <1>1, <1>2, ReapNext, PTL DEF Spec
=============================================================================
