------------------------------ MODULE MediaEngine ------------------------------
(* The media engine (services/realtime/media-engine-rs): the session store  *)
(* (crates/sessions), the room table (crates/routing), and the slots and    *)
(* SSRC ownership of the engine that joins them (crates/engine), under the  *)
(* control frames of the gateway, the datagrams of the clients and the      *)
(* sweep. One mutex covers the engine, so a frame, a datagram or a sweep is *)
(* one action.                                                              *)
(*                                                                          *)
(* Left out: SDP and candidates, the DTLS association and its keys with the *)
(* map by_endpoint that only its records consult, packet contents, RTCP     *)
(* statistics, and the cache of legs_for (dropped by every change).         *)
EXTENDS Integers, FiniteSets

CONSTANTS Rooms, Participants, Tracks, Ssrcs, Endpoints,
          MaxSessions,      \* bound: how many joins
          MaxParticipants, MaxTracks, MaxSubscriptions,
          NegotiationTicks, \* negotiation_timeout
          IdleTicks,        \* idle_timeout
          None, Zero        \* no value; the SSRC 0

ASSUME EngineAssumption ==
    /\ MaxSessions \in Nat
    /\ {MaxParticipants, MaxTracks, MaxSubscriptions} \subseteq Nat \ {0}
    /\ {NegotiationTicks, IdleTicks} \subseteq Nat
    /\ None \notin Rooms \X Participants
    /\ None \notin (1 .. MaxSessions) \X Tracks
    /\ {None, Zero} \cap Ssrcs = {}
    /\ None \notin Endpoints

Ids == 1 .. MaxSessions
Seats == Rooms \X Participants        \* a participant in a room
Sources == Seats \X Tracks            \* RouteStamp: a track of a seat
MaxAge ==   \* where ages saturate: just over both timeouts
    IF NegotiationTicks > IdleTicks THEN NegotiationTicks + 1 ELSE IdleTicks + 1

VARIABLES
    issued,     \* sessions: how many ids have been given out
    record,     \* sessions: "none", "new" or "closed", by id
    age,        \* ticks since created_at, saturating
    seat,       \* the seat a session was created for
    members,    \* routing: the participants of all rooms
    published,  \* routing: the tracks they publish
    subscribed, \* routing: <<subscriber, source>>
    slots,      \* engine: the sessions with a slot
    endpoint,   \* the ICE-nominated address of a slot
    tracks,     \* the SSRC each track of a slot is sent under
    bySsrc,     \* engine: <<session, track>> owning an SSRC
    streams     \* engine: the sources with receive state (registry)

store == <<issued, record, age, seat>>
routes == <<members, published, subscribed>>
wire == <<slots, endpoint, tracks, bySsrc, streams>>
engine == <<store, routes, wire>>

noTracks == [t \in Tracks |-> None]

Init ==
    /\ issued = 0
    /\ record = [i \in Ids |-> "none"]
    /\ age = [i \in Ids |-> 0]
    /\ seat = [i \in Ids |-> None]
    /\ members = {} /\ published = {} /\ subscribed = {}
    /\ slots = {}
    /\ endpoint = [i \in Ids |-> None]
    /\ tracks = [i \in Ids |-> noTracks]
    /\ bySsrc = [s \in Ssrcs |-> None]
    /\ streams = {}

live(i) == record[i] = "new"   \* nothing in the engine calls advance
incarnations(s) == {i \in Ids : live(i) /\ seat[i] = s}

-------------------------------------------------------------------------------
(* Shared steps                                                             *)

(* Mutant: a leave that does not scrub the subscriptions of the others.      *)
routesLeave_NoScrub(S) ==
    /\ members' = members \ S
    /\ published' = {src \in published : src[1] \notin S}
    /\ subscribed' = {u \in subscribed : u[1] \notin S}

(* RouteTable::leave, for the set S of seats.                               *)
routesLeave(S) ==
    /\ members' = members \ S
    /\ published' = {src \in published : src[1] \notin S}
    /\ subscribed' = {u \in subscribed : u[1] \notin S /\ u[2][1] \notin S}

(* Mutant: a teardown that forgets the SSRC map.                             *)
removeSlots_KeepsSsrcs(I) ==
    /\ slots' = slots \ I
    /\ endpoint' = [i \in Ids |-> IF i \in I THEN None ELSE endpoint[i]]
    /\ tracks' = [i \in Ids |-> IF i \in I THEN noTracks ELSE tracks[i]]
    /\ streams' = {src \in streams :
                     \A i \in I : seat[i] # src[1] \/ tracks[i][src[2]] = None}
    /\ UNCHANGED bySsrc

(* The slots of the sessions I removed, each by teardown_slot_tracker.      *)
removeSlots(I) ==
    /\ slots' = slots \ I
    /\ endpoint' = [i \in Ids |-> IF i \in I THEN None ELSE endpoint[i]]
    /\ tracks' = [i \in Ids |-> IF i \in I THEN noTracks ELSE tracks[i]]
    /\ bySsrc' = [s \in Ssrcs |->
                    IF \E i \in I, t \in Tracks : tracks[i][t] = s THEN None
                    ELSE bySsrc[s]]
    /\ streams' = {src \in streams :
                     \A i \in I : seat[i] # src[1] \/ tracks[i][src[2]] = None}

(* Store::leave and the purge of a sweep: the records of I are gone.        *)
forget(I) ==
    /\ record' = [i \in Ids |-> IF i \in I THEN "none" ELSE record[i]]
    /\ age' = [i \in Ids |-> IF i \in I THEN 0 ELSE age[i]]

(* caller_from_frame and require_session: whose frame it is. A frame that   *)
(* names no session is taken for the only slot's; one that names a session  *)
(* without a slot is refused. Nothing asks whether the record is closed.    *)
caller(named) ==
    IF named \in slots THEN {named}
    ELSE IF named = None /\ Cardinality(slots) = 1 THEN slots
    ELSE {}

-------------------------------------------------------------------------------
(* Control frames                                                           *)

(* Store::join: a new record; the first live one of the same seat is        *)
(* closed, and nothing of its slot is touched.                              *)
first(I) == {i \in I : \A j \in I : i <= j}

storeJoin(s, outcome) ==
    /\ issued < MaxSessions
    /\ issued' = issued + 1
    /\ record' = [i \in Ids |-> IF i = issued + 1 THEN outcome
                                ELSE IF i \in first(incarnations(s))
                                     THEN "closed" ELSE record[i]]
    /\ seat' = [seat EXCEPT ![issued + 1] = s]
    /\ UNCHANGED age

roomHasPlace(s) ==
    \/ s \in members
    \/ Cardinality({m \in members : m[1] = s[1]}) < MaxParticipants

Join(s) ==
    /\ roomHasPlace(s)
    /\ storeJoin(s, "new")
    /\ members' = members \cup {s}
    /\ slots' = slots \cup {issued + 1}
    /\ UNCHANGED <<published, subscribed, endpoint, tracks, bySsrc, streams>>

(* Mutant: a slot kept although the room refused the join.                   *)
JoinRefused_KeepsSlot(s) ==
    /\ ~roomHasPlace(s)
    /\ storeJoin(s, "none")
    /\ slots' = slots \cup {issued + 2}
    /\ UNCHANGED <<routes, endpoint, tracks, bySsrc, streams>>

(* The room is full: the new record is removed again.                       *)
JoinRefused(s) ==
    /\ ~roomHasPlace(s)
    /\ storeJoin(s, "none")
    /\ UNCHANGED <<routes, wire>>

(* on_publish: the route first. The registration of the SSRC comes second,  *)
(* and refuses the SSRC 0 or one already owned; the route stays.            *)
free(s) == bySsrc[s] = None

publishRoute(i, t) ==
    /\ seat[i] \in members
    /\ <<seat[i], t>> \notin published
    /\ Cardinality({u \in Tracks : <<seat[i], u>> \in published}) < MaxTracks
    /\ published' = published \cup {<<seat[i], t>>}
    /\ UNCHANGED <<members, subscribed, store>>

Publish(named, t, claim) == \E i \in caller(named) :
    /\ publishRoute(i, t)
    /\ tracks[i][t] = None
    /\ \E s \in {u \in Ssrcs : free(u) /\ claim \in {None, u}} :
          /\ tracks' = [tracks EXCEPT ![i][t] = s]
          /\ bySsrc' = [bySsrc EXCEPT ![s] = <<i, t>>]
    /\ UNCHANGED <<slots, endpoint, streams>>

PublishUnregistered(named, t, claim) == \E i \in caller(named) :
    /\ publishRoute(i, t)
    /\ tracks[i][t] # None \/ claim = Zero \/ (claim \in Ssrcs /\ ~free(claim))
    /\ UNCHANGED wire

Subscribe(named, p, t) == \E i \in caller(named) :
    LET source == <<<<seat[i][1], p>>, t>> IN
    /\ seat[i] \in members
    /\ source \in published
    /\ Cardinality({u \in subscribed : u[1] = seat[i]}) < MaxSubscriptions
    /\ subscribed' = subscribed \cup {<<seat[i], source>>}
    /\ UNCHANGED <<store, members, published, wire>>

Unsubscribe(named, p, t) == \E i \in caller(named) :
    /\ subscribed' = subscribed \ {<<seat[i], <<<<seat[i][1], p>>, t>>>>}
    /\ UNCHANGED <<store, members, published, wire>>

(* on_leave and on_left: whatever session the slot belongs to, its          *)
(* participant leaves the room.                                             *)
Leave(named) == \E i \in caller(named) :
    /\ forget({i})
    /\ routesLeave({seat[i]})
    /\ removeSlots({i})
    /\ UNCHANGED <<issued, seat>>

-------------------------------------------------------------------------------
(* Datagrams and time                                                       *)

(* on_stun: the check that nominates the sender's address.                  *)
Nominate(i, e) ==
    /\ i \in slots
    /\ endpoint' = [endpoint EXCEPT ![i] = e]
    /\ UNCHANGED <<store, routes, slots, tracks, bySsrc, streams>>

(* on_rtp: a packet of the SSRC s from its owner's address is received on   *)
(* the owner's stream.                                                      *)
Receive(s, e) == \E i \in slots, t \in Tracks :
    /\ bySsrc[s] = <<i, t>>
    /\ endpoint[i] = e
    /\ streams' = streams \cup {<<seat[i], t>>}
    /\ UNCHANGED <<store, routes, slots, endpoint, tracks, bySsrc>>

Tick ==
    /\ \E i \in Ids : live(i) /\ age[i] < MaxAge
    /\ age' = [i \in Ids |->
                  IF live(i) /\ age[i] < MaxAge THEN age[i] + 1 ELSE age[i]]
    /\ UNCHANGED <<issued, record, seat, routes, wire>>

(* Mutant: only the idle rule, which leaves New sessions alone.             *)
overdue_IdleOnly(i) ==
    record[i] \notin {"none", "new", "closed"} /\ age[i] > IdleTicks

(* sweep_step: closed records are purged, sessions that are still New too   *)
(* late are removed with their slots. (The idle rule needs Negotiating.)    *)
overdue(i) == live(i) /\ age[i] > NegotiationTicks

(* Mutant: a sweep that frees the slot and forgets the room.                 *)
Sweep_KeepsRoute ==
    LET gone == {i \in Ids : overdue(i)} IN
    /\ forget(gone \cup {i \in Ids : record[i] = "closed"})
    /\ removeSlots(gone \cap slots)
    /\ UNCHANGED <<issued, seat, routes>>

Sweep ==
    LET gone == {i \in Ids : overdue(i)} IN
    /\ forget(gone \cup {i \in Ids : record[i] = "closed"})
    /\ routesLeave({seat[i] : i \in gone \cap slots})
    /\ removeSlots(gone \cap slots)
    /\ UNCHANGED <<issued, seat>>

Frame ==
    \E named \in Ids \cup {None} :
        \/ \E t \in Tracks, claim \in Ssrcs \cup {None, Zero} :
              Publish(named, t, claim) \/ PublishUnregistered(named, t, claim)
        \/ \E p \in Participants, t \in Tracks :
              Subscribe(named, p, t) \/ Unsubscribe(named, p, t)
        \/ Leave(named)

Datagram ==
    \/ \E i \in Ids, e \in Endpoints : Nominate(i, e)
    \/ \E s \in Ssrcs, e \in Endpoints : Receive(s, e)

Next ==
    \/ \E s \in Seats : Join(s) \/ JoinRefused(s)
    \/ Frame
    \/ Datagram
    \/ Tick
    \/ Sweep

Spec == Init /\ [][Next]_engine

(* Time passes, and the media loop sweeps every hundred rounds, whatever    *)
(* clients and gateways do.                                                 *)
FairSpec == Spec /\ WF_engine(Tick) /\ WF_engine(Sweep)

(* Properties                                                               *)

(* The variables keep their types: ids are given out in order, each session *)
(* has the seat it was created for, only slots have addresses and tracks,   *)
(* and routes and receive state are about seats of rooms.                   *)
EngineTypeOK ==
    /\ issued \in 0 .. MaxSessions
    /\ record \in [Ids -> {"none", "new", "closed"}]
    /\ age \in [Ids -> 0 .. MaxAge]
    /\ seat \in [Ids -> Seats \cup {None}]
    /\ \A i \in Ids : i > issued => record[i] = "none" /\ i \notin slots
    /\ \A i \in Ids : i <= issued => seat[i] \in Seats
    /\ members \subseteq Seats
    /\ published \subseteq Sources
    /\ subscribed \subseteq Seats \X Sources
    /\ slots \subseteq Ids
    /\ endpoint \in [Ids -> Endpoints \cup {None}]
    /\ tracks \in [Ids -> [Tracks -> Ssrcs \cup {None}]]
    /\ bySsrc \in [Ssrcs -> (Ids \X Tracks) \cup {None}]
    /\ streams \subseteq Sources

(* A room has no ghosts: of every participant the routing table lists there *)
(* is exactly one session that is not closed, and it has a slot. So the     *)
(* sweep, which finds participants by slots of sessions it ends, can always *)
(* reach them; joins, rejoins, refused joins, leaves of fenced incarnations *)
(* and sweeps all change the three tables separately.                       *)
MembersAlive ==
    \A s \in members : \E i \in slots : incarnations(s) = {i}

(* No route leads nowhere: whoever publishes or subscribes is in the room,  *)
(* and a subscription is to a track that is published in the same room (the *)
(* scrub of RouteTable::leave; subscribe's "routing lie").                  *)
SubscriptionsReal ==
    /\ \A src \in published : src[1] \in members
    /\ \A u \in subscribed :
          /\ u[1] \in members
          /\ u[2] \in published
          /\ u[1][1] = u[2][1][1]

(* "two slots never share" (allocate_ssrc_inner), and teardown is complete: *)
(* an SSRC is owned by exactly the track of the slot that sends under it,   *)
(* and there is receive state only for sources some slot still has.         *)
WireOwned ==
    /\ \A s \in Ssrcs, i \in Ids, t \in Tracks :
          bySsrc[s] = <<i, t>> <=> i \in slots /\ tracks[i][t] = s
    /\ \A src \in streams : \E i \in slots :
          seat[i] = src[1] /\ tracks[i][src[2]] # None

(* A session nobody ends is ended: a join whose answer the gateway never    *)
(* got, or whose gateway is gone, does not hold its place in the room.      *)
GhostsFreed ==
    \A i \in Ids :
        live(i) ~> /\ ~live(i)
                   /\ seat[i] \in members => incarnations(seat[i]) # {}

(* SweepKind: what is swept for its negotiation are sessions "that never    *)
(* reached Connected in time". A session whose address is nominated and     *)
(* whose media has been received is not due before its idle window is over. *)
established(i) ==
    /\ i \in slots /\ endpoint[i] # None
    /\ \E t \in Tracks : tracks[i][t] # None /\ <<seat[i], t>> \in streams

EstablishedKept ==
    \A i \in Ids : overdue(i) /\ established(i) => age[i] > IdleTicks

(* Store::join: the old incarnation "is fenced-out"; on_left: "scrap        *)
(* endpoint/SSRC ownership" after "explicit Leave frame, reconnect fencing, *)
(* or sweep". A closed session owns no SSRC.                                *)
FencedOut ==
    \A s \in Ssrcs : bySsrc[s] # None => live(bySsrc[s][1])

===============================================================================
