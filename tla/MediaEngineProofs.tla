--------------------------- MODULE MediaEngineProofs ---------------------------
(***************************************************************************)
(* What the media engine's tables guarantee for any rooms, participants,   *)
(* tracks and limits, and any number of joins: the three tables that one   *)
(* frame changes one after the other never disagree about who is there.    *)
(***************************************************************************)
EXTENDS MediaEngine, TLAPS

(* At most one session of a seat is not closed. Joining closes only the    *)
(* first it finds, which is enough as long as this holds.                  *)
OneIncarnation ==
    \A i, j \in Ids : live(i) /\ live(j) /\ seat[i] = seat[j] => i = j

(* A session without a slot sends nothing.                                 *)
SlotlessSendNothing == \A i \in Ids \ slots : tracks[i] = noTracks

IInv == /\ EngineTypeOK /\ OneIncarnation /\ SlotlessSendNothing
        /\ MembersAlive /\ SubscriptionsReal /\ WireOwned

LEMMA MaxAgeType == MaxAge \in Nat
  BY EngineAssumption DEF MaxAge

(* Initially the engine is empty.                                          *)
LEMMA Initially == Init => IInv
  <1> SUFFICES ASSUME Init PROVE IInv
    OBVIOUS
  <1>1. EngineTypeOK
    BY EngineAssumption, MaxAgeType DEF Init, EngineTypeOK, noTracks, Ids
  <1>2. OneIncarnation /\ SlotlessSendNothing /\ MembersAlive /\ SubscriptionsReal
    BY DEF Init, OneIncarnation, live, SlotlessSendNothing, MembersAlive, SubscriptionsReal
  <1>3. WireOwned
    BY EngineAssumption DEF Init, WireOwned, Ids
  <1> QED
    BY <1>1, <1>2, <1>3 DEF IInv

-----------------------------------------------------------------------------
(* Joining                                                                 *)

(* A new record leaves its seat with it alone, or with nobody if the room  *)
(* refused, and other seats as they were.                                  *)
LEMMA JoinedSeat ==
  ASSUME EngineTypeOK, OneIncarnation, NEW s \in Seats,
         NEW outcome \in {"new", "none"}, storeJoin(s, outcome)
  PROVE  /\ issued + 1 \in Ids /\ issued + 1 \notin slots
         /\ \A i \in Ids : live(i)' <=>
               \/ i = issued + 1 /\ outcome = "new"
               \/ i # issued + 1 /\ live(i) /\ seat[i] # s
         /\ \A i \in Ids : i # issued + 1 => seat'[i] = seat[i]
         /\ seat'[issued + 1] = s
         /\ \A i \in slots : i # issued + 1 /\ seat'[i] = seat[i]
  <1>1. issued + 1 \in Ids /\ issued + 1 \notin slots
    BY EngineAssumption DEF EngineTypeOK, storeJoin, Ids
  <1>2. \A i \in Ids : i # issued + 1 => seat'[i] = seat[i]
    BY <1>1 DEF EngineTypeOK, storeJoin
  <1>3. seat'[issued + 1] = s
    BY <1>1 DEF EngineTypeOK, storeJoin
  <1>4. \A i \in slots : i # issued + 1 /\ seat'[i] = seat[i]
    BY <1>1, <1>2 DEF EngineTypeOK
  <1>5. \A i \in incarnations(s) : i \in first(incarnations(s))
    <2> TAKE i \in incarnations(s)
    <2>1. \A j \in incarnations(s) : j = i
      BY DEF incarnations, OneIncarnation
    <2>2. i \in Int
      BY DEF incarnations, Ids
    <2> QED
      BY <2>1, <2>2 DEF first
  <1>6. \A i \in Ids : live(i)' <=>
               \/ i = issued + 1 /\ outcome = "new"
               \/ i # issued + 1 /\ live(i) /\ seat[i] # s
    <2> TAKE i \in Ids
    <2>1. CASE i = issued + 1
      BY <2>1 DEF storeJoin, live
    <2>2. CASE i # issued + 1 /\ i \in incarnations(s)
      BY <2>2, <1>5 DEF storeJoin, live, incarnations
    <2>3. CASE i # issued + 1 /\ i \notin incarnations(s)
      BY <2>3 DEF storeJoin, live, incarnations, first
    <2> QED
      BY <2>1, <2>2, <2>3
  <1> QED
    BY <1>1, <1>2, <1>3, <1>4, <1>6

(* What a join leaves of the types, whether or not it gets a slot.         *)
LEMMA JoinTypes ==
  ASSUME EngineTypeOK, NEW s \in Seats,
         NEW outcome \in {"new", "none"}, storeJoin(s, outcome)
  PROVE  /\ issued' \in 0 .. MaxSessions
         /\ record' \in [Ids -> {"none", "new", "closed"}]
         /\ age' \in [Ids -> 0 .. MaxAge]
         /\ seat' \in [Ids -> Seats \cup {None}]
         /\ \A i \in Ids : i > issued' => record'[i] = "none" /\ i \notin slots
         /\ \A i \in Ids : i <= issued' => seat'[i] \in Seats
  <1>1. issued' \in 0 .. MaxSessions /\ issued \in Nat
    BY EngineAssumption DEF EngineTypeOK, storeJoin
  <1>2. record' \in [Ids -> {"none", "new", "closed"}]
    BY DEF EngineTypeOK, storeJoin
  <1>3. age' \in [Ids -> 0 .. MaxAge] /\ seat' \in [Ids -> Seats \cup {None}]
    BY DEF EngineTypeOK, storeJoin
  <1>4. ASSUME NEW i \in Ids, i > issued'
        PROVE  record'[i] = "none" /\ i \notin slots
    <2>1. i > issued /\ i # issued + 1
      BY <1>1, <1>4 DEF storeJoin, Ids
    <2>2. i \notin incarnations(s)
      BY <2>1 DEF incarnations, live, EngineTypeOK
    <2> QED
      BY <2>1, <2>2 DEF EngineTypeOK, storeJoin, first
  <1>5. ASSUME NEW i \in Ids, i <= issued'
        PROVE  seat'[i] \in Seats
    <2>1. i <= issued \/ i = issued + 1
      BY <1>1, <1>5 DEF storeJoin, Ids
    <2> QED
      BY <2>1 DEF EngineTypeOK, storeJoin
  <1> QED
    BY <1>1, <1>2, <1>3, <1>4, <1>5
(* Every other seat keeps its one session, and every slot its seat.        *)
LEMMA JoinInv ==
  ASSUME IInv, NEW s \in Seats, Join(s)
  PROVE  IInv'
  <1> USE DEF IInv
  <1>1. /\ issued + 1 \in Ids /\ issued + 1 \notin slots
        /\ \A i \in Ids : live(i)' <=> i = issued + 1 \/ (live(i) /\ seat[i] # s)
        /\ \A i \in Ids : i # issued + 1 => seat'[i] = seat[i]
        /\ seat'[issued + 1] = s
        /\ \A i \in slots : i # issued + 1 /\ seat'[i] = seat[i]
    <2>1. storeJoin(s, "new") /\ ~live(issued + 1)
      BY EngineAssumption DEF Join, EngineTypeOK, live, storeJoin, Ids
    <2> QED
      BY <2>1, JoinedSeat
  <1>2. EngineTypeOK'
    <2>1. storeJoin(s, "new")
      BY DEF Join
    <2>2. /\ issued' \in 0 .. MaxSessions
          /\ record' \in [Ids -> {"none", "new", "closed"}]
          /\ age' \in [Ids -> 0 .. MaxAge]
          /\ seat' \in [Ids -> Seats \cup {None}]
          /\ \A i \in Ids : i > issued' => record'[i] = "none" /\ i \notin slots
          /\ \A i \in Ids : i <= issued' => seat'[i] \in Seats
      BY <2>1, JoinTypes
    <2>3. \A i \in Ids : i > issued' => i # issued + 1
      BY <2>1, <2>2 DEF storeJoin, EngineTypeOK
    <2>4. members' \subseteq Seats /\ slots' \subseteq Ids
      BY <1>1 DEF Join, EngineTypeOK
    <2> QED
      BY <2>2, <2>3, <2>4 DEF Join, EngineTypeOK
  <1>3. OneIncarnation'
    BY <1>1 DEF OneIncarnation
  <1>4. SlotlessSendNothing'
    BY DEF Join, SlotlessSendNothing
  <1>5. MembersAlive'
    <2> SUFFICES ASSUME NEW m \in members'
                 PROVE  \E i \in slots' : (incarnations(m))' = {i}
      BY DEF MembersAlive
    <2>1. CASE m = s
      <3>1. (incarnations(m))' = {issued + 1}
        BY <1>1, <2>1 DEF incarnations
      <3>2. issued + 1 \in slots'
        BY DEF Join
      <3> QED
        BY <3>1, <3>2
    <2>2. CASE m # s
      <3>1. PICK i \in slots : incarnations(m) = {i}
        BY <2>2 DEF Join, MembersAlive
      <3>2. (incarnations(m))' = incarnations(m)
        <4>1. \A j \in Ids : j \in (incarnations(m))' <=> j \in incarnations(m)
          <5> TAKE j \in Ids
          <5>1. CASE j = issued + 1
            <6>1. ~live(j)
              BY <5>1, EngineAssumption DEF EngineTypeOK, Ids, live
            <6> QED
              BY <5>1, <6>1, <1>1, <2>2 DEF incarnations
          <5>2. CASE j # issued + 1
            BY <5>2, <1>1, <2>2 DEF incarnations
          <5> QED
            BY <5>1, <5>2
        <4> QED
          BY <4>1 DEF incarnations
      <3> QED
        BY <3>1, <3>2 DEF Join
    <2> QED
      BY <2>1, <2>2
  <1>6. SubscriptionsReal'
    BY DEF Join, SubscriptionsReal
  <1>7. WireOwned'
    <2>1. \A t \in Tracks, u \in Ssrcs : tracks[issued + 1][t] # u
      BY <1>1, EngineAssumption DEF SlotlessSendNothing, noTracks
    <2>2. \A u \in Ssrcs, i \in Ids, t \in Tracks :
             bySsrc[u] = <<i, t>> <=> i \in slots' /\ tracks[i][t] = u
      BY <2>1 DEF Join, WireOwned
    <2>3. \A src \in streams : \E i \in slots' :
             seat'[i] = src[1] /\ tracks[i][src[2]] # None
      BY <1>1 DEF Join, WireOwned
    <2> QED
      BY <2>2, <2>3 DEF Join, WireOwned
  <1> QED
    BY <1>2, <1>3, <1>4, <1>5, <1>6, <1>7

(* A seat a full room refuses is no member, so nobody loses a session.     *)
LEMMA JoinRefusedInv ==
  ASSUME IInv, NEW s \in Seats, JoinRefused(s)
  PROVE  IInv'
  <1> USE DEF IInv
  <1>1. /\ issued + 1 \in Ids /\ issued + 1 \notin slots
        /\ \A i \in Ids : live(i)' <=> i # issued + 1 /\ live(i) /\ seat[i] # s
        /\ \A i \in Ids : i # issued + 1 => seat'[i] = seat[i]
        /\ \A i \in slots : i # issued + 1 /\ seat'[i] = seat[i]
    <2>1. storeJoin(s, "none")
      BY DEF JoinRefused
    <2> QED
      BY <2>1, JoinedSeat
  <1>2. EngineTypeOK'
    <2>1. storeJoin(s, "none")
      BY DEF JoinRefused
    <2>2. /\ issued' \in 0 .. MaxSessions
          /\ record' \in [Ids -> {"none", "new", "closed"}]
          /\ age' \in [Ids -> 0 .. MaxAge]
          /\ seat' \in [Ids -> Seats \cup {None}]
          /\ \A i \in Ids : i > issued' => record'[i] = "none" /\ i \notin slots
          /\ \A i \in Ids : i <= issued' => seat'[i] \in Seats
      BY <2>1, JoinTypes
    <2> QED
      BY <2>2 DEF JoinRefused, EngineTypeOK, routes, wire
  <1>3. OneIncarnation'
    BY <1>1 DEF OneIncarnation
  <1>4. SlotlessSendNothing' /\ SubscriptionsReal'
    BY DEF JoinRefused, routes, wire, SlotlessSendNothing, SubscriptionsReal
  <1>5. MembersAlive'
    <2> SUFFICES ASSUME NEW m \in members
                 PROVE  \E i \in slots : (incarnations(m))' = {i}
      BY DEF MembersAlive, JoinRefused, routes, wire
    <2>1. PICK i \in slots : incarnations(m) = {i}
      BY DEF MembersAlive
    <2>2. m # s
      BY DEF JoinRefused, roomHasPlace
    <2>3. \A j \in Ids : j \in (incarnations(m))' <=> j \in incarnations(m)
      <3> TAKE j \in Ids
      <3>1. CASE j = issued + 1
        <4>1. ~live(j)
          BY <3>1, EngineAssumption DEF EngineTypeOK, Ids, live
        <4> QED
          BY <3>1, <4>1, <1>1 DEF incarnations
      <3>2. CASE j # issued + 1
        BY <3>2, <1>1, <2>2 DEF incarnations
      <3> QED
        BY <3>1, <3>2
    <2> QED
      BY <2>1, <2>3 DEF incarnations
  <1>6. WireOwned'
    BY <1>1 DEF JoinRefused, routes, wire, WireOwned
  <1> QED
    BY <1>2, <1>3, <1>4, <1>5, <1>6
-----------------------------------------------------------------------------
(* Ending sessions                                                         *)

(* Slots I go with the routes of their seats, and records R, of which none *)
(* that is live keeps its slot: a leave and a sweep are both this.         *)
LEMMA RemovalInv ==
  ASSUME IInv, NEW R \in SUBSET Ids, NEW I \in SUBSET slots,
         \A i \in R \cap slots : live(i) => i \in I,
         forget(R), routesLeave({seat[i] : i \in I}), removeSlots(I),
         UNCHANGED <<issued, seat>>
  PROVE  IInv'
  <1> USE DEF IInv
  <1> DEFINE S == {seat[i] : i \in I}
  <1>1. I \subseteq Ids /\ slots \subseteq Ids
    BY DEF EngineTypeOK
  <1>2. \A i \in Ids : live(i)' <=> live(i) /\ i \notin R
    BY DEF forget, live
  <1>3. EngineTypeOK'
    <2>1. record' \in [Ids -> {"none", "new", "closed"}] /\ age' \in [Ids -> 0 .. MaxAge]
      BY MaxAgeType DEF forget, EngineTypeOK
    <2>2. \A i \in Ids : i > issued => record'[i] = "none" /\ i \notin slots'
      BY DEF forget, removeSlots, EngineTypeOK
    <2>3. members' \subseteq Seats /\ published' \subseteq Sources
          /\ subscribed' \subseteq Seats \X Sources
      BY DEF routesLeave, EngineTypeOK
    <2>4. slots' \subseteq Ids /\ endpoint' \in [Ids -> Endpoints \cup {None}]
      BY DEF removeSlots, EngineTypeOK
    <2>5. tracks' \in [Ids -> [Tracks -> Ssrcs \cup {None}]]
      <3>1. noTracks \in [Tracks -> Ssrcs \cup {None}]
        BY DEF noTracks
      <3> QED
        BY <3>1 DEF removeSlots, EngineTypeOK
    <2>6. bySsrc' \in [Ssrcs -> (Ids \X Tracks) \cup {None}] /\ streams' \subseteq Sources
      BY DEF removeSlots, EngineTypeOK
    <2> QED
      BY <2>1, <2>2, <2>3, <2>4, <2>5, <2>6 DEF EngineTypeOK
  <1>4. OneIncarnation'
    BY <1>2 DEF OneIncarnation
  <1>5. SlotlessSendNothing'
    BY DEF removeSlots, SlotlessSendNothing
  <1>6. MembersAlive'
    <2> SUFFICES ASSUME NEW m \in members'
                 PROVE  \E i \in slots' : (incarnations(m))' = {i}
      BY DEF MembersAlive
    <2>1. m \in members /\ m \notin S
      BY DEF routesLeave
    <2>2. PICK k \in slots : incarnations(m) = {k}
      BY <2>1 DEF MembersAlive
    <2>3. live(k) /\ seat[k] = m
      BY <2>2 DEF incarnations
    <2>4. k \notin I /\ k \notin R
      BY <2>1, <2>3
    <2>5. (incarnations(m))' = {k}
      BY <1>1, <1>2, <2>2, <2>4 DEF incarnations
    <2> QED
      BY <2>4, <2>5 DEF removeSlots
  <1>7. SubscriptionsReal'
    <2>1. \A src \in published' : src[1] \in members'
      BY DEF routesLeave, SubscriptionsReal
    <2>2. \A u \in subscribed' : /\ u[1] \in members'
                                 /\ u[2] \in published'
                                 /\ u[1][1] = u[2][1][1]
      BY DEF routesLeave, SubscriptionsReal
    <2> QED
      BY <2>1, <2>2 DEF SubscriptionsReal
  <1>8. WireOwned'
    <2>1. ASSUME NEW s \in Ssrcs, NEW i \in Ids, NEW t \in Tracks
          PROVE  bySsrc'[s] = <<i, t>> <=> i \in slots' /\ tracks'[i][t] = s
      <3>0. None # <<i, t>> /\ None # s
        BY EngineAssumption DEF Ids
      <3>1. CASE i \in I
        <4>1. tracks'[i][t] # s
          BY <3>0, <3>1 DEF removeSlots, noTracks
        <4>2. bySsrc'[s] # <<i, t>>
          <5>1. CASE bySsrc[s] = <<i, t>>
            <6>1. tracks[i][t] = s
              BY <5>1 DEF WireOwned
            <6> QED
              BY <3>0, <3>1, <6>1 DEF removeSlots
          <5>2. CASE bySsrc[s] # <<i, t>>
            BY <3>0, <5>2 DEF removeSlots
          <5> QED
            BY <5>1, <5>2
        <4> QED
          BY <4>1, <4>2
      <3>2. CASE i \notin I
        <4>1. tracks'[i] = tracks[i] /\ (i \in slots' <=> i \in slots)
          BY <3>2 DEF removeSlots
        <4>2. bySsrc[s] = <<i, t>> => bySsrc'[s] = bySsrc[s]
          <5> HAVE bySsrc[s] = <<i, t>>
          <5>1. ASSUME NEW j \in I, NEW u \in Tracks, tracks[j][u] = s
                PROVE  FALSE
            <6>1. bySsrc[s] = <<j, u>>
              BY <1>1, <5>1 DEF WireOwned
            <6> QED
              BY <3>2, <6>1
          <5> QED
            BY <5>1 DEF removeSlots
        <4>3. bySsrc'[s] = <<i, t>> => bySsrc[s] = <<i, t>>
          BY <3>0 DEF removeSlots
        <4> QED
          BY <4>1, <4>2, <4>3 DEF WireOwned
      <3> QED
        BY <3>1, <3>2
    <2>2. ASSUME NEW src \in streams'
          PROVE  \E i \in slots' : seat'[i] = src[1] /\ tracks'[i][src[2]] # None
      <3>1. src \in streams /\ \A i \in I : seat[i] # src[1] \/ tracks[i][src[2]] = None
        BY DEF removeSlots
      <3>2. PICK i \in slots : seat[i] = src[1] /\ tracks[i][src[2]] # None
        BY <3>1 DEF WireOwned
      <3>3. i \notin I
        BY <3>1, <3>2
      <3> QED
        BY <1>1, <3>2, <3>3 DEF removeSlots
    <2> QED
      BY <2>1, <2>2 DEF WireOwned
  <1> QED
    BY <1>3, <1>4, <1>5, <1>6, <1>7, <1>8

LEMMA CallerHasSlot ==
  ASSUME EngineTypeOK, NEW named, NEW i \in caller(named)
  PROVE  i \in slots /\ i \in Ids /\ seat[i] \in Seats
  <1>1. i \in slots
    BY DEF caller
  <1>2. i \in Ids /\ i <= issued
    BY <1>1 DEF EngineTypeOK, Ids
  <1> QED
    BY <1>1, <1>2 DEF EngineTypeOK

LEMMA LeaveInv ==
  ASSUME IInv, NEW named, Leave(named)
  PROVE  IInv'
  <1>1. PICK i \in caller(named) : /\ forget({i})
                                   /\ routesLeave({seat[i]})
                                   /\ removeSlots({i})
                                   /\ UNCHANGED <<issued, seat>>
    BY DEF Leave
  <1>2. i \in slots /\ i \in Ids
    BY CallerHasSlot DEF IInv
  <1>3. {seat[j] : j \in {i}} = {seat[i]}
    OBVIOUS
  <1> QED
    BY <1>1, <1>2, <1>3, RemovalInv

LEMMA SweepInv ==
  ASSUME IInv, Sweep
  PROVE  IInv'
  <1> DEFINE gone == {i \in Ids : overdue(i)}
             R == gone \cup {i \in Ids : record[i] = "closed"}
             I == gone \cap slots
  <1>1. /\ forget(R) /\ routesLeave({seat[i] : i \in I}) /\ removeSlots(I)
        /\ UNCHANGED <<issued, seat>>
    BY DEF Sweep
  <1>2. R \in SUBSET Ids /\ I \in SUBSET slots
    OBVIOUS
  <1>3. \A i \in R \cap slots : live(i) => i \in I
    BY DEF live
  <1> HIDE DEF R, I
  <1> QED
    BY <1>1, <1>2, <1>3, RemovalInv
-----------------------------------------------------------------------------
(* Tracks, subscriptions, datagrams and time                               *)

(* Publishing a route is about a member, and leaves the sessions alone.    *)
LEMMA PublishRouteInv ==
  ASSUME IInv, NEW i \in slots, NEW t \in Tracks, seat[i] \in Seats, publishRoute(i, t)
  PROVE  /\ SubscriptionsReal'
         /\ published' \subseteq Sources /\ UNCHANGED <<members, subscribed, store>>
  <1>1. UNCHANGED <<members, subscribed, store>>
    BY DEF publishRoute
  <1>2. published' \subseteq Sources
    BY DEF publishRoute, IInv, EngineTypeOK, Sources
  <1>3. SubscriptionsReal'
    BY <1>1 DEF publishRoute, IInv, SubscriptionsReal
  <1> QED
    BY <1>1, <1>2, <1>3

(* The new owner of an SSRC is the only one, for nobody sent under it.     *)
LEMMA PublishInv ==
  ASSUME IInv, NEW named, NEW t \in Tracks, NEW claim, Publish(named, t, claim)
  PROVE  IInv'
  <1> USE DEF IInv
  <1>1. PICK i \in caller(named) :
           /\ publishRoute(i, t) /\ tracks[i][t] = None
           /\ \E s \in Ssrcs : /\ free(s)
                               /\ tracks' = [tracks EXCEPT ![i][t] = s]
                               /\ bySsrc' = [bySsrc EXCEPT ![s] = <<i, t>>]
           /\ UNCHANGED <<slots, endpoint, streams>>
    BY DEF Publish
  <1>2. PICK s \in Ssrcs : /\ bySsrc[s] = None
                           /\ tracks' = [tracks EXCEPT ![i][t] = s]
                           /\ bySsrc' = [bySsrc EXCEPT ![s] = <<i, t>>]
    BY <1>1 DEF free
  <1>3. i \in slots /\ i \in Ids /\ seat[i] \in Seats
    BY CallerHasSlot
  <1>4. /\ SubscriptionsReal' /\ published' \subseteq Sources
        /\ UNCHANGED <<members, subscribed, store>>
    BY <1>1, <1>3, PublishRouteInv
  <1>5. EngineTypeOK'
    BY <1>1, <1>2, <1>3, <1>4 DEF EngineTypeOK, store
  <1>6. OneIncarnation' /\ MembersAlive'
    BY <1>1, <1>4 DEF OneIncarnation, MembersAlive, incarnations, live, store
  <1>7. SlotlessSendNothing'
    BY <1>1, <1>2, <1>3 DEF SlotlessSendNothing, EngineTypeOK
  <1>8. WireOwned'
    <2>1. ASSUME NEW s2 \in Ssrcs, NEW i2 \in Ids, NEW t2 \in Tracks
          PROVE  bySsrc'[s2] = <<i2, t2>> <=> i2 \in slots' /\ tracks'[i2][t2] = s2
      <3>0. /\ None \notin Ssrcs /\ None # <<i2, t2>>
            /\ tracks \in [Ids -> [Tracks -> Ssrcs \cup {None}]]
            /\ bySsrc \in [Ssrcs -> (Ids \X Tracks) \cup {None}]
        BY EngineAssumption DEF EngineTypeOK, Ids
      <3>1. bySsrc[s2] = <<i2, t2>> <=> i2 \in slots /\ tracks[i2][t2] = s2
        BY DEF WireOwned
      <3>2. tracks'[i2][t2] = IF i2 = i /\ t2 = t THEN s ELSE tracks[i2][t2]
        BY <1>2, <1>3, <3>0
      <3>3. bySsrc'[s2] = IF s2 = s THEN <<i, t>> ELSE bySsrc[s2]
        BY <1>2, <3>0
      <3>4. CASE s2 = s
        <4>1. i2 \in slots => tracks[i2][t2] # s
          BY <1>2, <3>0, <3>1, <3>4
        <4> QED
          BY <1>1, <1>3, <3>2, <3>3, <3>4, <4>1
      <3>5. CASE s2 # s
        <4>1. bySsrc[s2] # <<i, t>>
          <5>1. tracks[i][t] # s2
            BY <1>1, <3>0
          <5> QED
            BY <5>1, <1>3 DEF WireOwned
        <4> QED
          BY <1>1, <1>3, <3>1, <3>2, <3>3, <3>5, <4>1
      <3> QED
        BY <3>4, <3>5
    <2>2. ASSUME NEW src \in streams'
          PROVE  \E j \in slots' : seat'[j] = src[1] /\ tracks'[j][src[2]] # None
      <3>1. src[2] \in Tracks
        BY <1>1 DEF EngineTypeOK, Sources
      <3>2. PICK j \in slots : seat[j] = src[1] /\ tracks[j][src[2]] # None
        BY <1>1 DEF WireOwned
      <3>3. tracks'[j][src[2]] # None
        BY <1>2, <1>3, <3>1, <3>2, EngineAssumption DEF EngineTypeOK
      <3> QED
        BY <1>1, <1>4, <3>2, <3>3 DEF store
    <2> QED
      BY <2>1, <2>2 DEF WireOwned
  <1> QED
    BY <1>4, <1>5, <1>6, <1>7, <1>8

LEMMA PublishUnregisteredInv ==
  ASSUME IInv, NEW named, NEW t \in Tracks, NEW claim, PublishUnregistered(named, t, claim)
  PROVE  IInv'
  <1> USE DEF IInv
  <1>1. PICK i \in caller(named) : publishRoute(i, t) /\ UNCHANGED wire
    BY DEF PublishUnregistered
  <1>2. i \in slots /\ i \in Ids /\ seat[i] \in Seats
    BY CallerHasSlot
  <1>3. /\ SubscriptionsReal' /\ published' \subseteq Sources
        /\ UNCHANGED <<members, subscribed, store>>
    BY <1>1, <1>2, PublishRouteInv
  <1>4. EngineTypeOK'
    BY <1>1, <1>3 DEF EngineTypeOK, store, wire
  <1>5. OneIncarnation' /\ MembersAlive' /\ SlotlessSendNothing' /\ WireOwned'
    BY <1>1, <1>3 DEF OneIncarnation, MembersAlive, SlotlessSendNothing, WireOwned,
                      incarnations, live, store, wire
  <1> QED
    BY <1>3, <1>4, <1>5

(* Subscribing and unsubscribing change the subscriptions alone.           *)
LEMMA SubscriptionInv ==
  ASSUME IInv, NEW named, NEW p \in Participants, NEW t \in Tracks,
         Subscribe(named, p, t) \/ Unsubscribe(named, p, t)
  PROVE  IInv'
  <1> USE DEF IInv
  <1>1. UNCHANGED <<store, members, published, wire>>
    BY DEF Subscribe, Unsubscribe
  <1>2. /\ subscribed' \subseteq Seats \X Sources
        /\ \A u \in subscribed' : /\ u[1] \in members
                                  /\ u[2] \in published
                                  /\ u[1][1] = u[2][1][1]
    <2>1. CASE Subscribe(named, p, t)
      <3>1. PICK i \in caller(named) :
               LET source == <<<<seat[i][1], p>>, t>> IN
               /\ seat[i] \in members /\ source \in published
               /\ subscribed' = subscribed \cup {<<seat[i], source>>}
        BY <2>1 DEF Subscribe
      <3> DEFINE new == <<seat[i], <<<<seat[i][1], p>>, t>>>>
      <3>2. new[1] \in Seats /\ new[2] \in Sources
        BY <3>1 DEF EngineTypeOK
      <3>3. /\ new[1] \in members
            /\ new[2] \in published
            /\ new[1][1] = new[2][1][1]
        BY <3>1
      <3>4. subscribed' = subscribed \cup {new} /\ new \in Seats \X Sources
        BY <3>1, <3>2
      <3> HIDE DEF new
      <3> QED
        BY <3>3, <3>4 DEF EngineTypeOK, SubscriptionsReal
    <2>2. CASE Unsubscribe(named, p, t)
      BY <2>2 DEF Unsubscribe, EngineTypeOK, SubscriptionsReal
    <2> QED
      BY <2>1, <2>2
  <1>3. EngineTypeOK'
    BY <1>1, <1>2 DEF EngineTypeOK, store, wire
  <1>4. SubscriptionsReal'
    BY <1>1, <1>2 DEF SubscriptionsReal
  <1>5. OneIncarnation' /\ MembersAlive' /\ SlotlessSendNothing' /\ WireOwned'
    BY <1>1 DEF OneIncarnation, MembersAlive, SlotlessSendNothing, WireOwned,
                incarnations, live, store, wire
  <1> QED
    BY <1>3, <1>4, <1>5
(* Nominations and the passing of time leave the tables alone.             *)
LEMMA NominateInv ==
  ASSUME IInv, NEW i \in Ids, NEW e \in Endpoints, Nominate(i, e)
  PROVE  IInv'
  <1> USE DEF IInv
  <1>1. UNCHANGED <<store, routes, slots, tracks, bySsrc, streams>>
    BY DEF Nominate
  <1>2. endpoint' \in [Ids -> Endpoints \cup {None}]
    BY DEF Nominate, EngineTypeOK
  <1>3. EngineTypeOK'
    BY <1>1, <1>2 DEF EngineTypeOK, store, routes
  <1> QED
    BY <1>1, <1>3 DEF OneIncarnation, MembersAlive, SlotlessSendNothing, WireOwned,
                      SubscriptionsReal, incarnations, live, store, routes

LEMMA TickInv ==
  ASSUME IInv, Tick
  PROVE  IInv'
  <1> USE DEF IInv
  <1>1. UNCHANGED <<issued, record, seat, routes, wire>>
    BY DEF Tick
  <1>2. age' \in [Ids -> 0 .. MaxAge]
    BY MaxAgeType DEF Tick, EngineTypeOK
  <1>3. EngineTypeOK'
    BY <1>1, <1>2 DEF EngineTypeOK, wire, routes
  <1> QED
    BY <1>1, <1>3 DEF OneIncarnation, MembersAlive, SlotlessSendNothing, WireOwned,
                      SubscriptionsReal, incarnations, live, wire, routes

(* What is received is received for a track of a slot.                     *)
LEMMA ReceiveInv ==
  ASSUME IInv, NEW s \in Ssrcs, NEW e \in Endpoints, Receive(s, e)
  PROVE  IInv'
  <1> USE DEF IInv
  <1>1. PICK i \in slots, t \in Tracks :
           /\ bySsrc[s] = <<i, t>>
           /\ streams' = streams \cup {<<seat[i], t>>}
    BY DEF Receive
  <1>2. UNCHANGED <<store, routes, slots, endpoint, tracks, bySsrc>>
    BY DEF Receive
  <1>3. i \in Ids /\ seat[i] \in Seats
    <2>1. i \in Ids /\ i <= issued
      BY DEF EngineTypeOK, Ids
    <2> QED
      BY <2>1 DEF EngineTypeOK
  <1>4. tracks[i][t] = s /\ s # None
    BY <1>1, <1>3, EngineAssumption DEF WireOwned
  <1>5. EngineTypeOK'
    BY <1>1, <1>2, <1>3 DEF EngineTypeOK, store, routes, Sources
  <1>6. WireOwned'
    <2>1. \A src \in streams' : \E j \in slots : seat[j] = src[1] /\ tracks[j][src[2]] # None
      BY <1>1, <1>4 DEF WireOwned
    <2> QED
      BY <1>2, <2>1 DEF WireOwned, store
  <1> QED
    BY <1>2, <1>5, <1>6 DEF OneIncarnation, MembersAlive, SlotlessSendNothing,
                            SubscriptionsReal, incarnations, live, store, routes

-----------------------------------------------------------------------------
(* The theorems                                                            *)

LEMMA Step ==
  ASSUME IInv, [Next]_engine
  PROVE  IInv'
  <1>1. CASE \E s \in Seats : Join(s) \/ JoinRefused(s)
    BY <1>1, JoinInv, JoinRefusedInv
  <1>2. CASE Frame
    <2>1. PICK named \in Ids \cup {None} :
            \/ \E t \in Tracks, claim \in Ssrcs \cup {None, Zero} :
                  Publish(named, t, claim) \/ PublishUnregistered(named, t, claim)
            \/ \E p \in Participants, t \in Tracks :
                  Subscribe(named, p, t) \/ Unsubscribe(named, p, t)
            \/ Leave(named)
      BY <1>2 DEF Frame
    <2> QED
      BY <2>1, PublishInv, PublishUnregisteredInv, SubscriptionInv, LeaveInv
  <1>3. CASE Datagram
    BY <1>3, NominateInv, ReceiveInv DEF Datagram
  <1>4. CASE Tick
    BY <1>4, TickInv
  <1>5. CASE Sweep
    BY <1>5, SweepInv
  <1>6. CASE UNCHANGED engine
    BY <1>6 DEF IInv, EngineTypeOK, OneIncarnation, MembersAlive, SlotlessSendNothing,
                WireOwned, SubscriptionsReal, incarnations, live, engine, store, routes, wire
  <1> QED
    BY <1>1, <1>2, <1>3, <1>4, <1>5, <1>6 DEF Next

THEOREM EngineInvariant == Spec => []IInv
  <1>1. Init => IInv
    BY Initially
  <1>2. IInv /\ [Next]_engine => IInv'
    BY Step
  <1> QED
    BY <1>1, <1>2, PTL DEF Spec

(* The variables of the media engine keep their types.                     *)
THEOREM EngineTypeCorrect == Spec => []EngineTypeOK
  BY EngineInvariant, PTL DEF IInv

(* However joins, rejoins, refused joins, late frames of fenced sessions   *)
(* and sweeps interleave, who is listed in a room has one open session and *)
(* it has a slot: the sweep can always free the place.                     *)
THEOREM NoGhosts == Spec => []MembersAlive
  BY EngineInvariant, PTL DEF IInv

(* No subscription outlives its track or its participant.                  *)
THEOREM RoutesReal == Spec => []SubscriptionsReal
  BY EngineInvariant, PTL DEF IInv

(* No two tracks share an SSRC, and no SSRC or stream outlives its slot.   *)
THEOREM SsrcsOwned == Spec => []WireOwned
  BY EngineInvariant, PTL DEF IInv

===============================================================================
