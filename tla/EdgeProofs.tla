------------------------------- MODULE EdgeProofs -------------------------------
(***************************************************************************)
(* What the edge guarantees for any connections, tenants, users, rooms,    *)
(* publishers and limits: the hub's counts, its two records of a           *)
(* membership, the connection's mirror and presence never disagree, and a  *)
(* delivery stays with the tenant it was published to.                     *)
(***************************************************************************)
EXTENDS Edge, FiniteSetTheorems, SequenceTheorems, TLAPS

Frames == {Own} \cup (Tenants \X Rooms)

(* The types the argument needs. Sets are counted, so they are finite,     *)
(* whether or not there are finitely many connections in all.              *)
Shapes ==
    /\ stage \in [Conns -> Stages]
    /\ tenant \in [Conns -> Tenants \cup {None}]
    /\ subscriptions \in [Conns -> SUBSET Rooms]
    /\ registered \in SUBSET Conns /\ IsFiniteSet(registered)
    /\ joined \in [Conns -> SUBSET Rooms]
    /\ \A c \in Conns : IsFiniteSet(joined[c])
    /\ peers \in [Tenants \X Rooms -> SUBSET Conns]
    /\ tenantConns \in [Tenants -> Nat]
    /\ online \in SUBSET Conns
    /\ queue \in [Conns -> Seq(Frames)]
    /\ fanout \in [Publishers -> [frame : Frames, targets : SUBSET Conns]]

(* Where a connection's goroutine is says what it has done: the deferred   *)
(* calls undo, in their order, exactly that.                               *)
Unknown == {"out", "admitted", "opened"}
Known == {"reading", "bound", "pinned", "announcing", "acking", "returned", "withdrawing"}

Whereabouts ==
    \A c \in Conns :
       /\ stage[c] \in Known => c \in registered
       /\ c \in registered => stage[c] \in Known \cup {"offline"}
       /\ tenant[c] \in {None, TenantOf[c]}
       /\ stage[c] \in Unknown \cup {"bound"} => tenant[c] = None
       /\ stage[c] \in {"pinned", "announcing", "acking", "withdrawing"} => tenant[c] # None
       /\ tenant[c] = None => joined[c] = {} /\ subscriptions[c] = {}
       /\ c \in online =>
             stage[c] \in {"announcing", "acking", "reading", "returned"} /\ tenant[c] # None
       /\ stage[c] \in {"announcing", "acking", "reading"} /\ tenant[c] # None => c \in online

(* What may be in c's queue, or on its way there.                          *)
FramesOf(c) == {f \in Frames : f # Own => f[1] = tenant[c]}

FramesAtHome ==
    /\ \A c \in Conns : queue[c] \in Seq(FramesOf(c))
    /\ \A p \in Publishers : \A c \in fanout[p].targets :
          fanout[p].frame \in FramesOf(c)

IInv == Shapes /\ Whereabouts /\ TenantSlotsExact /\ RoomsAgree /\ FramesAtHome

-----------------------------------------------------------------------------
(* Init                                                                    *)

LEMMA InitIInv == EdgeInit => IInv
<1> SUFFICES ASSUME EdgeInit PROVE IInv
  OBVIOUS
<1>1. Shapes
  BY FS_EmptySet DEF EdgeInit, Shapes, Stages, Frames
<1>2. Whereabouts
  BY DEF EdgeInit, Whereabouts, Unknown, Known
<1>3. TenantSlotsExact
  <2> SUFFICES ASSUME NEW t \in Tenants
               PROVE  tenantConns[t] = Cardinality(Holders(t)) /\ Cardinality(Holders(t)) <= MaxPerTenant
    BY DEF TenantSlotsExact
  <2>1. Holders(t) = {}
    BY DEF EdgeInit, Holders
  <2>2. MaxPerTenant \in Nat
    BY EdgeAssumption DEF EdgeAssumption
  <2> QED BY <2>1, <2>2, FS_EmptySet DEF EdgeInit
<1>4. RoomsAgree
  BY DEF EdgeInit, RoomsAgree
<1>5. FramesAtHome
  <2>1. ASSUME NEW c \in Conns PROVE queue[c] \in Seq(FramesOf(c))
    <3>1. queue[c] = <<>>
      BY DEF EdgeInit
    <3> QED BY <3>1
  <2> QED BY <2>1 DEF EdgeInit, FramesAtHome
<1> QED BY <1>1, <1>2, <1>3, <1>4, <1>5 DEF IInv

-----------------------------------------------------------------------------
(* Queues                                                                  *)

(* What a step may do to one queue: nothing, take the head, or enqueue.    *)
QueueStep(c, frame) == Enqueue(c, frame) \/ UNCHANGED queue

(* An enqueue of a frame that is at home leaves every queue at home.       *)
LEMMA EnqueueStaysHome ==
    ASSUME Shapes, FramesAtHome, NEW c \in Conns, NEW f \in FramesOf(c),
           QueueStep(c, f), UNCHANGED tenant
    PROVE  \A d \in Conns : queue'[d] \in Seq(FramesOf(d)')
<1> TAKE d \in Conns
<1>1. FramesOf(d)' = FramesOf(d)
  BY DEF FramesOf
<1>2. queue[d] \in Seq(FramesOf(d))
  BY DEF FramesAtHome
<1>3. CASE queue'[d] = queue[d]
  BY <1>1, <1>2, <1>3
<1>4. CASE d = c /\ queue'[d] = Append(queue[d], f)
  BY <1>1, <1>2, <1>4, AppendProperties
<1>5. queue'[d] = queue[d] \/ (d = c /\ queue'[d] = Append(queue[d], f))
  BY DEF QueueStep, Enqueue, Shapes
<1> QED BY <1>3, <1>4, <1>5

-----------------------------------------------------------------------------
(* Shapes                                                                  *)

LEMMA UpdateType ==
    ASSUME NEW D, NEW R, NEW f \in [D -> R], NEW d \in D, NEW v \in R
    PROVE  [f EXCEPT ![d] = v] \in [D -> R]
OBVIOUS

LEMMA OwnIsAFrame == Own \in Frames
BY DEF Frames

(* A queue takes frames, and what is left of it is a queue.                *)
LEMMA QueueShape ==
    ASSUME Shapes, NEW c \in Conns, NEW f \in Frames,
           \/ QueueStep(c, f)
           \/ queue[c] # <<>> /\ queue' = [queue EXCEPT ![c] = Tail(@)]
    PROVE  queue' \in [Conns -> Seq(Frames)]
<1>1. queue \in [Conns -> Seq(Frames)]
  BY DEF Shapes
<1>2. Append(queue[c], f) \in Seq(Frames)
  BY <1>1, AppendProperties
<1>3. queue[c] # <<>> => Tail(queue[c]) \in Seq(Frames)
  BY <1>1, HeadTailProperties
<1> QED BY <1>1, <1>2, <1>3 DEF QueueStep, Enqueue

(* The steps that touch neither the hub nor presence.                      *)
LEMMA ShapesOfTheRest ==
    ASSUME Shapes, Whereabouts, NEW c \in Conns,
           \/ Admit(c) \/ Upgrade(c) \/ Acknowledge(c) \/ Reply(c) \/ Write(c)
           \/ InitiateClose(c) \/ ReaderReturns(c) \/ ConnClosed(c) \/ RequestClose(c)
           \/ Pin(c) \/ EmitPresence(c)
    PROVE  Shapes'
<1>1. queue' \in [Conns -> Seq(Frames)]
  <2>1. QueueStep(c, Own) \/ (queue[c] # <<>> /\ queue' = [queue EXCEPT ![c] = Tail(@)])
    BY DEF QueueStep, Admit, Upgrade, Acknowledge, Reply, Write, InitiateClose, ReaderReturns,
           ConnClosed, RequestClose, Pin, EmitPresence
  <2> QED BY <2>1, OwnIsAFrame, QueueShape
<1>2. stage' \in [Conns -> Stages]
  BY DEF Shapes, Stages, Goto, Admit, Upgrade, Acknowledge, Reply, Write, InitiateClose,
         ReaderReturns, ConnClosed, RequestClose, Pin, EmitPresence, conn
<1>3. tenant' \in [Conns -> Tenants \cup {None}]
  BY EdgeAssumption DEF EdgeAssumption, Shapes, Admit, Upgrade, Acknowledge, Reply, Write, InitiateClose,
         ReaderReturns, ConnClosed, RequestClose, Pin, EmitPresence, conn
<1>4. UNCHANGED <<subscriptions, hub, online, fanout>>
  BY DEF Admit, Upgrade, Acknowledge, Reply, Write, InitiateClose, ReaderReturns, ConnClosed,
         RequestClose, Pin, EmitPresence, conn, presence, rest
<1> QED BY <1>1, <1>2, <1>3, <1>4 DEF Shapes, hub

(* Registration, the hello and presence.                                   *)
LEMMA ShapesOfSessions ==
    ASSUME Shapes, Whereabouts, TenantSlotsExact, NEW c \in Conns,
           \/ Welcome(c) \/ Hello(c) \/ Online(c) \/ Offline(c)
    PROVE  Shapes'
<1>1. CASE Welcome(c)
  <2>1. registered' \in SUBSET Conns /\ IsFiniteSet(registered')
    <3>1. IsFiniteSet(registered \cup {c})
      BY FS_AddElement DEF Shapes
    <3> QED BY <1>1, <3>1 DEF Welcome, Shapes
  <2> QED BY <1>1, <2>1 DEF Welcome, Shapes, Goto, Stages, presence, rest
<1>2. CASE Hello(c)
  <2>1. QueueStep(c, Own)
    BY <1>2 DEF Hello, RefuseHello, QueueStep
  <2>2. queue' \in [Conns -> Seq(Frames)]
    BY <2>1, OwnIsAFrame, QueueShape
  <2>3. stage' \in [Conns -> Stages]
    BY <1>2 DEF Hello, RefuseHello, Shapes, Goto, Stages
  <2>4. tenantConns' \in [Tenants -> Nat]
    BY <1>2 DEF Hello, Shapes
  <2> QED BY <1>2, <2>2, <2>3, <2>4 DEF Hello, Shapes, presence, rest
<1>3. CASE Online(c)
  BY <1>3 DEF Online, Shapes, Goto, Stages, hub, rest
<1>4. CASE Offline(c)
  BY <1>4 DEF Offline, Shapes, Goto, Stages, hub, rest
<1> QED BY <1>1, <1>2, <1>3, <1>4

(* Rooms, and leaving the hub.                                             *)
LEMMA ShapesOfRooms ==
    ASSUME Shapes, Whereabouts, TenantSlotsExact, NEW c \in Conns,
           \/ \E r \in Rooms : Subscribe(c, r) \/ Unsubscribe(c, r)
           \/ Unregister(c)
    PROVE  Shapes'
<1>1. ASSUME NEW r \in Rooms, Subscribe(c, r) PROVE Shapes'
  <2>1. QueueStep(c, Own)
    BY <1>1 DEF Subscribe, QueueStep
  <2>2. queue' \in [Conns -> Seq(Frames)]
    BY <2>1, OwnIsAFrame, QueueShape
  <2>3. \A d \in Conns : IsFiniteSet(joined'[d])
    <3>1. IsFiniteSet(joined[c] \cup {r})
      BY FS_AddElement DEF Shapes
    <3> QED BY <1>1, <3>1 DEF Subscribe, HubJoin, Shapes
  <2>4. joined' \in [Conns -> SUBSET Rooms] /\ subscriptions' \in [Conns -> SUBSET Rooms]
    <3>1. joined[c] \cup {r} \in SUBSET Rooms /\ subscriptions[c] \cup {r} \in SUBSET Rooms
      BY DEF Shapes
    <3>2. [joined EXCEPT ![c] = joined[c] \cup {r}] \in [Conns -> SUBSET Rooms]
      BY <3>1, UpdateType DEF Shapes
    <3>3. [subscriptions EXCEPT ![c] = subscriptions[c] \cup {r}] \in [Conns -> SUBSET Rooms]
      BY <3>1, UpdateType DEF Shapes
    <3> QED BY <1>1, <3>2, <3>3 DEF Subscribe, HubJoin, Shapes
  <2>5. peers' \in [Tenants \X Rooms -> SUBSET Conns]
    <3>1. <<tenant[c], r>> \in Tenants \X Rooms
      BY <1>1 DEF Subscribe, Shapes
    <3>2. peers[<<tenant[c], r>>] \cup {c} \in SUBSET Conns
      BY <3>1 DEF Shapes
    <3>3. [peers EXCEPT ![<<tenant[c], r>>] = peers[<<tenant[c], r>>] \cup {c}]
             \in [Tenants \X Rooms -> SUBSET Conns]
      BY <3>1, <3>2, UpdateType DEF Shapes
    <3> QED BY <1>1, <3>3 DEF Subscribe, HubJoin, Shapes
  <2>6. stage' \in [Conns -> Stages]
    BY <1>1 DEF Subscribe, Goto, Stages, Shapes
  <2>7. UNCHANGED <<tenant, registered, tenantConns, online, fanout>>
    BY <1>1 DEF Subscribe, presence, rest
  <2> QED BY <2>2, <2>3, <2>4, <2>5, <2>6, <2>7 DEF Shapes
<1>2. ASSUME NEW r \in Rooms, Unsubscribe(c, r) PROVE Shapes'
  <2>1. \A d \in Conns : IsFiniteSet(joined'[d])
    <3>1. IsFiniteSet(joined[c] \ {r})
      BY FS_RemoveElement DEF Shapes
    <3> QED BY <1>2, <3>1 DEF Unsubscribe, Shapes
  <2>2. joined' \in [Conns -> SUBSET Rooms] /\ subscriptions' \in [Conns -> SUBSET Rooms]
    BY <1>2 DEF Unsubscribe, Mirrored, Shapes
  <2>3. peers' \in [Tenants \X Rooms -> SUBSET Conns]
    <3>1. <<tenant[c], r>> \in Tenants \X Rooms
      BY <1>2 DEF Unsubscribe, Shapes
    <3>2. peers[<<tenant[c], r>>] \ {c} \in SUBSET Conns
      BY <3>1 DEF Shapes
    <3>3. [peers EXCEPT ![<<tenant[c], r>>] = peers[<<tenant[c], r>>] \ {c}]
             \in [Tenants \X Rooms -> SUBSET Conns]
      BY <3>1, <3>2, UpdateType DEF Shapes
    <3> QED BY <1>2, <3>3 DEF Unsubscribe, Shapes
  <2> QED BY <1>2, <2>1, <2>2, <2>3 DEF Unsubscribe, Shapes, Goto, Stages, presence, rest
<1>3. CASE Unregister(c) /\ c \notin registered
  BY <1>3 DEF Unregister, Shapes, Goto, Stages, hub, presence, rest
<1>4. CASE Unregister(c) /\ c \in registered
  <2>1. registered' \in SUBSET Conns /\ IsFiniteSet(registered')
    BY <1>4, FS_RemoveElement DEF Unregister, Shapes
  <2>2. joined' \in [Conns -> SUBSET Rooms] /\ \A d \in Conns : IsFiniteSet(joined'[d])
    BY <1>4, FS_EmptySet DEF Unregister, Shapes
  <2>3. peers' \in [Tenants \X Rooms -> SUBSET Conns]
    <3>1. \A k \in Tenants \X Rooms : peers[k] \in SUBSET Conns /\ peers[k] \ {c} \in SUBSET Conns
      BY DEF Shapes
    <3> QED BY <1>4, <3>1 DEF Unregister
  <2>4. tenantConns' \in [Tenants -> Nat]
    <3>1. tenantConns \in [Tenants -> Nat] /\ tenant[c] \in Tenants \cup {None}
      BY DEF Shapes
    <3>2. ASSUME tenant[c] # None PROVE tenantConns[tenant[c]] > 0
      <4>1. c \in Holders(tenant[c])
        BY <1>4 DEF Holders
      <4>2. IsFiniteSet(Holders(tenant[c]))
        BY FS_Subset DEF Holders, Shapes
      <4>3. Cardinality(Holders(tenant[c])) # 0
        BY <4>1, <4>2, FS_EmptySet
      <4> QED BY <3>1, <3>2, <4>3 DEF TenantSlotsExact
    <3> QED BY <1>4, <3>1, <3>2 DEF Unregister, SlotsAfter
  <2> QED BY <1>4, <2>1, <2>2, <2>3, <2>4 DEF Unregister, Shapes, Goto, Stages, presence, rest
<1> QED BY <1>1, <1>2, <1>3, <1>4

(* Publishers, and the shutdown.                                           *)
LEMMA ShapesOfFanout ==
    ASSUME Shapes, NEW p \in Publishers,
           \/ \E t \in Tenants, r \in Rooms : Publish(p, t, r)
           \/ \E c \in Conns : Deliver(p, c)
    PROVE  Shapes'
<1>1. ASSUME NEW t \in Tenants, NEW r \in Rooms, Publish(p, t, r) PROVE Shapes'
  BY <1>1 DEF Publish, Members, Shapes, Frames, conn, hub, presence
<1>2. ASSUME NEW c \in Conns, Deliver(p, c) PROVE Shapes'
  <2>1. fanout[p].frame \in Frames /\ fanout' \in [Publishers -> [frame : Frames, targets : SUBSET Conns]]
    <3>0. PICK o \in [frame : Frames, targets : SUBSET Conns] : o = fanout[p]
      BY DEF Shapes
    <3> DEFINE n == [o EXCEPT !.targets = o.targets \ {c}]
    <3>1. n \in [frame : Frames, targets : SUBSET Conns] /\ o.frame \in Frames
      OBVIOUS
    <3>2. fanout' = [fanout EXCEPT ![p] = n]
      BY <1>2, <3>0 DEF Deliver, Shapes
    <3> HIDE DEF n
    <3> QED BY <3>0, <3>1, <3>2 DEF Shapes
  <2>2. queue' \in [Conns -> Seq(Frames)]
    BY <1>2, <2>1, QueueShape DEF Deliver, QueueStep
  <2> QED BY <1>2, <2>1, <2>2 DEF Deliver, Shapes, hub, presence
<1> QED BY <1>1, <1>2

-----------------------------------------------------------------------------
(* Whereabouts                                                             *)

(* One step of c says something new of c only.                             *)
LEMMA WhereaboutsOfOne ==
    ASSUME Shapes, Whereabouts, NEW c \in Conns,
           \/ Admit(c) \/ Progress(c) \/ Hello(c) \/ Reply(c) \/ Write(c) \/ InitiateClose(c)
           \/ ReaderReturns(c) \/ RequestClose(c)
           \/ \E r \in Rooms : Subscribe(c, r) \/ Unsubscribe(c, r)
    PROVE  Whereabouts'
<1> USE EdgeAssumption DEF EdgeAssumption, Shapes, Whereabouts, Unknown, Known, Goto
<1>1. CASE Admit(c)
  BY <1>1 DEF Admit, hub, presence
<1>2. CASE Upgrade(c)
  BY <1>2 DEF Upgrade, hub, presence
<1>3. CASE Welcome(c)
  BY <1>3 DEF Welcome, presence
<1>4. CASE Hello(c)
  BY <1>4 DEF Hello, RefuseHello, presence
<1>5. CASE Pin(c)
  BY <1>5 DEF Pin, hub, presence
<1>6. CASE Online(c)
  BY <1>6 DEF Online, hub
<1>7. CASE EmitPresence(c)
  BY <1>7 DEF EmitPresence, hub
<1>8. CASE Acknowledge(c)
  BY <1>8 DEF Acknowledge, hub, presence
<1>9. ASSUME NEW r \in Rooms, Subscribe(c, r) PROVE Whereabouts'
  BY <1>9 DEF Subscribe, HubJoin, presence
<1>10. ASSUME NEW r \in Rooms, Unsubscribe(c, r) PROVE Whereabouts'
  BY <1>10 DEF Unsubscribe, Mirrored, presence
<1>11. CASE Offline(c)
  BY <1>11 DEF Offline, hub
<1>12. CASE Unregister(c)
  BY <1>12 DEF Unregister, hub, presence
<1>13. CASE ConnClosed(c)
  BY <1>13 DEF ConnClosed, hub, presence
<1>14. CASE ReaderReturns(c)
  BY <1>14 DEF ReaderReturns, hub, presence
<1>15. CASE Reply(c) \/ Write(c) \/ InitiateClose(c) \/ RequestClose(c)
  BY <1>15 DEF Reply, Write, InitiateClose, RequestClose, hub, presence
<1> QED BY <1>1, <1>2, <1>3, <1>4, <1>5, <1>6, <1>7, <1>8, <1>9, <1>10, <1>11, <1>12, <1>13,
           <1>14, <1>15 DEF Progress

-----------------------------------------------------------------------------
(* The tenants' slots                                                      *)

(* Nothing that neither binds, pins nor unregisters moves a slot.          *)
LEMMA SlotsStay ==
    ASSUME TenantSlotsExact, UNCHANGED <<tenantConns, tenant>>,
           \A c \in Conns : stage'[c] = "bound" <=> stage[c] = "bound",
           Shapes, Shapes',
           \A c \in Conns : c \in registered' /\ c \notin registered
                              => tenant[c] = None /\ stage[c] # "bound",
           \A c \in Conns : c \in registered => c \in registered'
    PROVE  TenantSlotsExact'
<1>1. ASSUME NEW t \in Tenants PROVE Holders(t)' = Holders(t)
  BY EdgeAssumption DEF EdgeAssumption, Holders, Shapes
<1> QED BY <1>1 DEF TenantSlotsExact

LEMMA SlotsOfOne ==
    ASSUME Shapes, Shapes', Whereabouts, TenantSlotsExact, NEW c \in Conns,
           \/ Admit(c) \/ Progress(c) \/ Hello(c) \/ Reply(c) \/ Write(c) \/ InitiateClose(c)
           \/ ReaderReturns(c) \/ RequestClose(c)
           \/ \E r \in Rooms : Subscribe(c, r) \/ Unsubscribe(c, r)
    PROVE  TenantSlotsExact'
<1>1. CASE Admit(c) \/ Upgrade(c) \/ Acknowledge(c) \/ EmitPresence(c) \/ Online(c) \/ Offline(c)
  BY <1>1, SlotsStay DEF Admit, Upgrade, Acknowledge, EmitPresence, Online, Offline, Goto, hub, Shapes
<1>2. CASE Reply(c) \/ Write(c) \/ InitiateClose(c) \/ RequestClose(c) \/ ReaderReturns(c) \/ ConnClosed(c)
  BY <1>2, SlotsStay DEF Reply, Write, InitiateClose, RequestClose, ReaderReturns, ConnClosed, Goto, hub, Shapes
<1>3. ASSUME NEW r \in Rooms, Subscribe(c, r) \/ Unsubscribe(c, r) PROVE TenantSlotsExact'
  BY <1>3, SlotsStay DEF Subscribe, Unsubscribe, Goto, Shapes
<1>4. CASE Welcome(c)
  BY <1>4, SlotsStay DEF Welcome, Goto, Shapes, Whereabouts, Unknown
<1>5. CASE Hello(c)
  <2>1. CASE RefuseHello(c) /\ UNCHANGED tenantConns
    BY <1>5, <2>1, SlotsStay DEF Hello, RefuseHello, Goto, Shapes
  <2>2. CASE ~OverTenantCap(TenantOf[c]) /\ Goto(c, "bound")
               /\ tenantConns' = [tenantConns EXCEPT ![TenantOf[c]] = @ + 1]
    <3> DEFINE u == TenantOf[c]
    <3>1. u \in Tenants /\ u # None /\ MaxPerTenant \in Nat
      BY EdgeAssumption DEF EdgeAssumption
    <3>2. c \in registered /\ tenant[c] = None /\ stage[c] = "reading" /\ stage'[c] = "bound"
          /\ UNCHANGED <<tenant, registered>>
          /\ \A d \in Conns \ {c} : stage'[d] = stage[d]
      BY <1>5, <2>2 DEF Hello, Goto, Whereabouts, Known, Shapes
    <3>3. Holders(u)' = Holders(u) \cup {c} /\ c \notin Holders(u)
      BY <3>1, <3>2 DEF Holders, Shapes
    <3>4. \A t \in Tenants \ {u} : Holders(t)' = Holders(t)
      BY <3>1, <3>2 DEF Holders, Shapes
    <3>5. IsFiniteSet(Holders(u)) /\ Holders(u) \in SUBSET registered
      BY FS_Subset DEF Holders, Shapes
    <3>6. Cardinality(Holders(u)') = Cardinality(Holders(u)) + 1
      BY <3>3, <3>5, FS_AddElement
    <3>7. tenantConns[u] < MaxPerTenant /\ tenantConns[u] \in Nat
      BY <2>2, <3>1 DEF OverTenantCap, Shapes
    <3>8. tenantConns'[u] = Cardinality(Holders(u)') /\ Cardinality(Holders(u)') <= MaxPerTenant
      BY <2>2, <3>1, <3>6, <3>7 DEF TenantSlotsExact, Shapes
    <3>9. \A t \in Tenants \ {u} : tenantConns'[t] = tenantConns[t]
      BY <2>2, <3>1 DEF Shapes
    <3> QED BY <3>4, <3>8, <3>9 DEF TenantSlotsExact
  <2> QED BY <1>5, <2>1, <2>2 DEF Hello
<1>6. CASE Pin(c)
  <2>1. ASSUME NEW t \in Tenants PROVE Holders(t)' = Holders(t)
    BY <1>6, EdgeAssumption
    DEF Pin, EdgeAssumption, Holders, Shapes, Whereabouts, Known, Goto, hub
  <2> QED BY <1>6, <2>1 DEF Pin, hub, TenantSlotsExact
<1>7. CASE Unregister(c) /\ c \notin registered
  BY <1>7, SlotsStay DEF Unregister, Goto, hub, Shapes
<1>8. CASE Unregister(c) /\ c \in registered /\ tenant[c] = None
  <2>1. ASSUME NEW t \in Tenants PROVE Holders(t)' = Holders(t)
    BY <1>8, EdgeAssumption DEF Unregister, EdgeAssumption, Holders, Shapes, Goto
  <2> QED BY <1>8, <2>1 DEF Unregister, SlotsAfter, TenantSlotsExact
<1>9. CASE Unregister(c) /\ c \in registered /\ tenant[c] # None
  <2>1. PICK u \in Tenants : u = tenant[c]
    BY <1>9 DEF Shapes
  <2>2. Holders(u)' = Holders(u) \ {c} /\ c \in Holders(u)
    BY <1>9, <2>1 DEF Unregister, Holders, Shapes, Goto
  <2>3. \A t \in Tenants \ {u} : Holders(t)' = Holders(t)
    BY <1>9, <2>1 DEF Unregister, Holders, Shapes, Goto
  <2>4. IsFiniteSet(Holders(u)) /\ Holders(u) \in SUBSET registered
    BY FS_Subset DEF Holders, Shapes
  <2>5. Cardinality(Holders(u)') = Cardinality(Holders(u)) - 1
    BY <2>2, <2>4, FS_RemoveElement
  <2>6. tenantConns' = [tenantConns EXCEPT ![u] = @ - 1]
    BY <1>9, <2>1 DEF Unregister, SlotsAfter
  <2>7. MaxPerTenant \in Nat /\ tenantConns[u] \in Nat
    BY <2>1, EdgeAssumption DEF EdgeAssumption, Shapes
  <2>8. tenantConns'[u] = Cardinality(Holders(u)') /\ Cardinality(Holders(u)') <= MaxPerTenant
    BY <2>1, <2>5, <2>6, <2>7 DEF TenantSlotsExact, Shapes
  <2>9. \A t \in Tenants \ {u} : tenantConns'[t] = tenantConns[t]
    BY <2>1, <2>6 DEF Shapes
  <2> SUFFICES ASSUME NEW t \in Tenants
               PROVE  tenantConns'[t] = Cardinality(Holders(t)') /\ Cardinality(Holders(t)') <= MaxPerTenant
    BY DEF TenantSlotsExact
  <2>10. CASE t = u
    BY <2>8, <2>10
  <2>11. CASE t # u
    <3>1. tenantConns'[t] = tenantConns[t] /\ Holders(t)' = Holders(t)
      BY <2>3, <2>9, <2>11
    <3>2. tenantConns[t] = Cardinality(Holders(t)) /\ Cardinality(Holders(t)) <= MaxPerTenant
      BY DEF TenantSlotsExact
    <3> QED BY <3>1, <3>2
  <2> QED BY <2>10, <2>11
<1> QED BY <1>1, <1>2, <1>3, <1>4, <1>5, <1>6, <1>7, <1>8, <1>9 DEF Progress

-----------------------------------------------------------------------------
(* Rooms                                                                   *)

(* Memberships stay as they are while those with any stay registered under *)
(* the tenant they had.                                                    *)
LEMMA RoomsStay ==
    ASSUME Shapes, Shapes', Whereabouts, RoomsAgree,
           UNCHANGED <<peers, joined, subscriptions>>,
           \A c \in Conns : \/ tenant'[c] = tenant[c] /\ (c \in registered' <=> c \in registered)
                            \/ tenant[c] = None
    PROVE  RoomsAgree'
<1>1. \A c \in Conns : tenant[c] = None => joined[c] = {} /\ subscriptions[c] = {}
  BY DEF Whereabouts
<1>2. 0 <= MaxSubs
  BY EdgeAssumption DEF EdgeAssumption
<1>3. ASSUME NEW t \in Tenants, NEW r \in Rooms
      PROVE  {c \in registered' : tenant'[c] = t /\ r \in joined[c]}
               = {c \in registered : tenant[c] = t /\ r \in joined[c]}
  BY <1>1, EdgeAssumption DEF EdgeAssumption, Shapes
<1>4. ASSUME NEW c \in registered'
      PROVE  subscriptions[c] = joined[c] /\ Cardinality(joined[c]) <= MaxSubs
  BY <1>1, <1>2, FS_EmptySet DEF RoomsAgree, Shapes
<1> QED BY <1>3, <1>4 DEF RoomsAgree

LEMMA RoomsOfOne ==
    ASSUME Shapes, Shapes', Whereabouts, RoomsAgree, NEW c \in Conns,
           \/ Admit(c) \/ Progress(c) \/ Hello(c) \/ Reply(c) \/ Write(c) \/ InitiateClose(c)
           \/ ReaderReturns(c) \/ RequestClose(c)
           \/ \E r \in Rooms : Subscribe(c, r) \/ Unsubscribe(c, r)
    PROVE  RoomsAgree'
<1>1. CASE Admit(c) \/ Upgrade(c) \/ Acknowledge(c) \/ EmitPresence(c) \/ Online(c) \/ Offline(c)
  BY <1>1, RoomsStay DEF Admit, Upgrade, Acknowledge, EmitPresence, Online, Offline, hub
<1>2. CASE Reply(c) \/ Write(c) \/ InitiateClose(c) \/ RequestClose(c) \/ ReaderReturns(c) \/ ConnClosed(c)
  BY <1>2, RoomsStay DEF Reply, Write, InitiateClose, RequestClose, ReaderReturns, ConnClosed, hub
<1>3. CASE Hello(c)
  BY <1>3, RoomsStay DEF Hello
<1>4. CASE Welcome(c)
  BY <1>4, RoomsStay DEF Welcome, Whereabouts, Unknown
<1>5. CASE Pin(c)
  BY <1>5, RoomsStay DEF Pin, Whereabouts, Shapes, hub
<1>6. ASSUME NEW r \in Rooms, Subscribe(c, r) PROVE RoomsAgree'
  <2>1. CASE UNCHANGED <<subscriptions, joined, peers>>
    BY <1>6, <2>1, RoomsStay DEF Subscribe
  <2>2. CASE HasPlace(c, r) /\ subscriptions' = [subscriptions EXCEPT ![c] = @ \cup {r}] /\ HubJoin(c, r)
    <3>1. c \in registered /\ tenant[c] \in Tenants /\ UNCHANGED <<tenant, registered>>
      BY <1>6 DEF Subscribe, Whereabouts, Known, Shapes
    <3>2. joined' = [joined EXCEPT ![c] = joined[c] \cup {r}]
      BY <2>2 DEF HubJoin
    <3>3. ASSUME NEW t \in Tenants, NEW q \in Rooms
          PROVE  peers'[<<t, q>>] = {d \in registered' : tenant'[d] = t /\ q \in joined'[d]}
      <4>1. peers[<<t, q>>] = {d \in registered : tenant[d] = t /\ q \in joined[d]}
        BY DEF RoomsAgree
      <4>2. <<t, q>> \in Tenants \X Rooms
        OBVIOUS
      <4>3. CASE t = tenant[c] /\ q = r
        <5>1. peers'[<<t, q>>] = peers[<<t, q>>] \cup {c}
          BY <2>2, <4>2, <4>3 DEF HubJoin, Shapes
        <5>2. joined'[c] = joined[c] \cup {r} /\ \A d \in Conns \ {c} : joined'[d] = joined[d]
          BY <3>2 DEF Shapes
        <5>3. \A d \in registered :
                 tenant[d] = t /\ q \in joined'[d] <=> (tenant[d] = t /\ q \in joined[d]) \/ d = c
          BY <3>1, <4>3, <5>2 DEF Shapes
        <5> QED BY <3>1, <4>1, <5>1, <5>3
      <4>4. CASE ~(t = tenant[c] /\ q = r)
        <5>1. peers'[<<t, q>>] = peers[<<t, q>>]
          BY <2>2, <4>2, <4>4 DEF HubJoin, Shapes
        <5> QED BY <3>1, <3>2, <4>1, <4>4, <5>1 DEF Shapes
      <4> QED BY <4>3, <4>4
    <3>4. subscriptions[c] = joined[c] /\ Cardinality(joined[c]) <= MaxSubs
      BY <3>1 DEF RoomsAgree
    <3>5. Cardinality(joined[c] \cup {r}) <= MaxSubs
      <4>1. IsFiniteSet(joined[c]) /\ Cardinality(joined[c]) \in Nat /\ MaxSubs \in Nat
        BY EdgeAssumption, FS_CardinalityType DEF Shapes, EdgeAssumption
      <4>2. Cardinality(joined[c] \cup {r})
              = IF r \in joined[c] THEN Cardinality(joined[c]) ELSE Cardinality(joined[c]) + 1
        BY <4>1, FS_AddElement
      <4> QED BY <2>2, <3>4, <4>1, <4>2 DEF HasPlace
    <3>6. joined'[c] = joined[c] \cup {r} /\ subscriptions'[c] = subscriptions[c] \cup {r}
      BY <2>2, <3>2 DEF Shapes
    <3>7. \A d \in Conns \ {c} : joined'[d] = joined[d] /\ subscriptions'[d] = subscriptions[d]
      BY <2>2, <3>2 DEF Shapes
    <3>8. ASSUME NEW d \in registered'
          PROVE  subscriptions'[d] = joined'[d] /\ Cardinality(joined'[d]) <= MaxSubs
      <4>1. d \in registered /\ d \in Conns
        BY <3>1 DEF Shapes
      <4>2. subscriptions[d] = joined[d] /\ Cardinality(joined[d]) <= MaxSubs
        BY <4>1 DEF RoomsAgree
      <4>3. CASE d = c
        BY <3>4, <3>5, <3>6, <4>3
      <4>4. CASE d # c
        BY <3>7, <4>1, <4>2, <4>4
      <4> QED BY <4>3, <4>4
    <3> QED BY <3>3, <3>8 DEF RoomsAgree
  <2> QED BY <1>6, <2>1, <2>2 DEF Subscribe
<1>7. ASSUME NEW r \in Rooms, Unsubscribe(c, r) PROVE RoomsAgree'
  <2>1. c \in registered /\ tenant[c] \in Tenants /\ UNCHANGED <<tenant, registered>>
    BY <1>7 DEF Unsubscribe, Whereabouts, Known, Shapes
  <2>2. joined' = [joined EXCEPT ![c] = joined[c] \ {r}]
    BY <1>7 DEF Unsubscribe
  <2>3. ASSUME NEW t \in Tenants, NEW q \in Rooms
        PROVE  peers'[<<t, q>>] = {d \in registered' : tenant'[d] = t /\ q \in joined'[d]}
    <3>1. peers[<<t, q>>] = {d \in registered : tenant[d] = t /\ q \in joined[d]}
      BY DEF RoomsAgree
    <3>2. <<t, q>> \in Tenants \X Rooms
      OBVIOUS
    <3>3. CASE t = tenant[c] /\ q = r
      <4>1. peers'[<<t, q>>] = peers[<<t, q>>] \ {c}
        BY <1>7, <3>2, <3>3 DEF Unsubscribe, Shapes
      <4> QED BY <2>1, <2>2, <3>1, <3>3, <4>1 DEF Shapes
    <3>4. CASE ~(t = tenant[c] /\ q = r)
      <4>1. peers'[<<t, q>>] = peers[<<t, q>>]
        BY <1>7, <3>2, <3>4 DEF Unsubscribe, Shapes
      <4> QED BY <2>1, <2>2, <3>1, <3>4, <4>1 DEF Shapes
    <3> QED BY <3>3, <3>4
  <2>4. joined'[c] = joined[c] \ {r} /\ subscriptions'[c] = subscriptions[c] \ {r}
    BY <1>7, <2>2 DEF Unsubscribe, Mirrored, Shapes
  <2>5. \A d \in Conns \ {c} : joined'[d] = joined[d] /\ subscriptions'[d] = subscriptions[d]
    BY <1>7, <2>2 DEF Unsubscribe, Shapes
  <2>6. ASSUME NEW d \in registered'
        PROVE  subscriptions'[d] = joined'[d] /\ Cardinality(joined'[d]) <= MaxSubs
    <3>1. d \in registered /\ d \in Conns
      BY <2>1 DEF Shapes
    <3>2. subscriptions[d] = joined[d] /\ Cardinality(joined[d]) <= MaxSubs
      BY <3>1 DEF RoomsAgree
    <3>3. CASE d = c
      <4>1. IsFiniteSet(joined[c]) /\ Cardinality(joined[c]) \in Nat /\ MaxSubs \in Nat
        BY EdgeAssumption, FS_CardinalityType DEF Shapes, EdgeAssumption
      <4>2. Cardinality(joined[c] \ {r}) <= Cardinality(joined[c])
        BY <4>1, FS_RemoveElement
      <4>3. Cardinality(joined[c] \ {r}) \in Nat
        BY <4>1, FS_RemoveElement, FS_CardinalityType
      <4> QED BY <2>4, <3>2, <3>3, <4>1, <4>2, <4>3
    <3>4. CASE d # c
      BY <2>5, <3>1, <3>2, <3>4
    <3> QED BY <3>3, <3>4
  <2> QED BY <2>3, <2>6 DEF RoomsAgree
<1>8. CASE Unregister(c) /\ c \notin registered
  BY <1>8, RoomsStay DEF Unregister, hub
<1>9. CASE Unregister(c) /\ c \in registered
  <2>1. registered' = registered \ {c} /\ UNCHANGED <<tenant, subscriptions>>
        /\ joined' = [joined EXCEPT ![c] = {}]
    BY <1>9 DEF Unregister
  <2>2. ASSUME NEW t \in Tenants, NEW q \in Rooms
        PROVE  peers'[<<t, q>>] = {d \in registered' : tenant'[d] = t /\ q \in joined'[d]}
    <3>1. peers[<<t, q>>] = {d \in registered : tenant[d] = t /\ q \in joined[d]}
      BY DEF RoomsAgree
    <3>2. peers'[<<t, q>>] = IF t = tenant[c] /\ q \in joined[c]
                             THEN peers[<<t, q>>] \ {c} ELSE peers[<<t, q>>]
      BY <1>9 DEF Unregister
    <3> QED BY <2>1, <3>1, <3>2 DEF Shapes
  <2>3. ASSUME NEW d \in registered'
        PROVE  subscriptions'[d] = joined'[d] /\ Cardinality(joined'[d]) <= MaxSubs
    BY <2>1 DEF RoomsAgree, Shapes
  <2> QED BY <2>2, <2>3 DEF RoomsAgree
<1> QED BY <1>1, <1>2, <1>3, <1>4, <1>5, <1>6, <1>7, <1>8, <1>9 DEF Progress

-----------------------------------------------------------------------------
(* Frames                                                                  *)

(* A tenant is pinned once: what was at home stays so.                     *)
LEMMA HomesStay ==
    ASSUME Shapes, Whereabouts, NEW c \in Conns,
           tenant'[c] = tenant[c] \/ tenant[c] = None
    PROVE  FramesOf(c) \subseteq FramesOf(c)'
BY EdgeAssumption DEF EdgeAssumption, FramesOf, Frames

LEMMA SeqsGrow ==
    ASSUME NEW S, NEW T, S \subseteq T, NEW q \in Seq(S)
    PROVE  q \in Seq(T)
OBVIOUS

LEMMA HomeOfOne ==
    ASSUME Shapes, Whereabouts, FramesAtHome, NEW c \in Conns,
           \/ Admit(c) \/ Progress(c) \/ Hello(c) \/ Reply(c) \/ Write(c) \/ InitiateClose(c)
           \/ ReaderReturns(c) \/ RequestClose(c)
           \/ \E r \in Rooms : Subscribe(c, r) \/ Unsubscribe(c, r)
    PROVE  FramesAtHome'
<1>1. /\ UNCHANGED fanout
      /\ QueueStep(c, Own) \/ (queue[c] # <<>> /\ queue' = [queue EXCEPT ![c] = Tail(@)])
      /\ UNCHANGED tenant \/ (UNCHANGED queue /\ tenant[c] = None
                                /\ tenant' = [tenant EXCEPT ![c] = TenantOf[c]])
  BY DEF Admit, Progress, Upgrade, Welcome, Pin, Online, EmitPresence, Acknowledge, Offline,
         Unregister, ConnClosed, Hello, RefuseHello, Reply, Write, InitiateClose, ReaderReturns,
         RequestClose, Subscribe, Unsubscribe, QueueStep, rest, Whereabouts
<1>2. \A d \in Conns : FramesOf(d) \subseteq FramesOf(d)'
  <2>1. \A d \in Conns : tenant'[d] = tenant[d] \/ tenant[d] = None
    BY <1>1 DEF Shapes
  <2> QED BY <2>1, HomesStay
<1>3. ASSUME NEW d \in Conns PROVE queue'[d] \in Seq(FramesOf(d)')
  <2>1. queue[d] \in Seq(FramesOf(d)) /\ Own \in FramesOf(d)
    BY OwnIsAFrame DEF FramesAtHome, FramesOf
  <2>2. Append(queue[d], Own) \in Seq(FramesOf(d))
    BY <2>1, AppendProperties
  <2>3. queue[d] # <<>> => Tail(queue[d]) \in Seq(FramesOf(d))
    BY <2>1, HeadTailProperties
  <2>4. \/ queue'[d] = queue[d]
        \/ queue'[d] = Append(queue[d], Own)
        \/ queue[d] # <<>> /\ queue'[d] = Tail(queue[d])
    BY <1>1 DEF QueueStep, Enqueue, Shapes
  <2>5. queue'[d] \in Seq(FramesOf(d))
    BY <2>1, <2>2, <2>3, <2>4
  <2> QED BY <1>2, <2>5, SeqsGrow
<1>4. ASSUME NEW p \in Publishers, NEW d \in fanout'[p].targets
      PROVE  fanout'[p].frame \in FramesOf(d)'
  BY <1>1, <1>2 DEF FramesAtHome, Shapes
<1> QED BY <1>3, <1>4 DEF FramesAtHome

LEMMA HomeOfFanout ==
    ASSUME Shapes, Whereabouts, RoomsAgree, FramesAtHome, NEW p \in Publishers,
           \/ \E t \in Tenants, r \in Rooms : Publish(p, t, r)
           \/ \E c \in Conns : Deliver(p, c)
    PROVE  FramesAtHome'
<1>1. ASSUME NEW t \in Tenants, NEW r \in Rooms, Publish(p, t, r) PROVE FramesAtHome'
  <2>1. UNCHANGED <<queue, tenant>>
    BY <1>1 DEF Publish, conn
  <2>2. \A d \in Conns : FramesOf(d)' = FramesOf(d)
    BY <2>1 DEF FramesOf
  <2>3. \A d \in Members(t, r) : d \in Conns /\ <<t, r>> \in FramesOf(d)
    BY DEF Members, RoomsAgree, FramesOf, Frames, Shapes
  <2>4. fanout'[p] = [frame |-> <<t, r>>, targets |-> Members(t, r)]
        /\ \A o \in Publishers \ {p} : fanout'[o] = fanout[o]
    BY <1>1 DEF Publish, Shapes
  <2>5. ASSUME NEW o \in Publishers, NEW d \in fanout'[o].targets
        PROVE  fanout'[o].frame \in FramesOf(d)'
    <3>1. CASE o = p
      BY <2>2, <2>3, <2>4, <3>1
    <3>2. CASE o # p
      BY <2>2, <2>4, <3>2 DEF FramesAtHome, Shapes
    <3> QED BY <3>1, <3>2
  <2>6. ASSUME NEW d \in Conns PROVE queue'[d] \in Seq(FramesOf(d)')
    BY <2>1, <2>2 DEF FramesAtHome
  <2> QED BY <2>5, <2>6 DEF FramesAtHome
<1>2. ASSUME NEW c \in Conns, Deliver(p, c) PROVE FramesAtHome'
  <2>1. UNCHANGED tenant
    BY <1>2 DEF Deliver
  <2>2. \A d \in Conns : FramesOf(d)' = FramesOf(d)
    BY <2>1 DEF FramesOf
  <2>3. fanout[p].frame \in FramesOf(c)
    BY <1>2 DEF Deliver, FramesAtHome
  <2>4. \A d \in Conns : queue'[d] \in Seq(FramesOf(d)')
    BY <1>2, <2>1, <2>3, EnqueueStaysHome DEF Deliver, QueueStep
  <2>5. \A o \in Publishers :
           fanout'[o].frame = fanout[o].frame /\ fanout'[o].targets \subseteq fanout[o].targets
    BY <1>2 DEF Deliver, Shapes
  <2>6. ASSUME NEW o \in Publishers, NEW d \in fanout'[o].targets
        PROVE  fanout'[o].frame \in FramesOf(d)'
    BY <2>2, <2>5 DEF FramesAtHome, Shapes
  <2> QED BY <2>4, <2>6 DEF FramesAtHome
<1> QED BY <1>1, <1>2

-----------------------------------------------------------------------------
(* The invariant                                                           *)

LEMMA NextIInv == IInv /\ [EdgeNext]_vars => IInv'
<1> SUFFICES ASSUME IInv, [EdgeNext]_vars PROVE IInv'
  OBVIOUS
<1> USE DEF IInv
<1>1. ASSUME NEW c \in Conns,
             \/ Admit(c) \/ Progress(c) \/ Hello(c) \/ Reply(c) \/ Write(c) \/ InitiateClose(c)
             \/ ReaderReturns(c) \/ RequestClose(c)
             \/ \E r \in Rooms : Subscribe(c, r) \/ Unsubscribe(c, r)
      PROVE  IInv'
  <2>1. Shapes'
    BY <1>1, ShapesOfTheRest, ShapesOfSessions, ShapesOfRooms DEF Progress
  <2> QED BY <1>1, <2>1, WhereaboutsOfOne, SlotsOfOne, RoomsOfOne, HomeOfOne
<1>2. ASSUME NEW p \in Publishers,
             \/ \E t \in Tenants, r \in Rooms : Publish(p, t, r)
             \/ \E c \in Conns : Deliver(p, c)
      PROVE  IInv'
  <2>1. Shapes'
    BY <1>2, ShapesOfFanout
  <2>2. UNCHANGED <<stage, tenant, subscriptions, hub, online>>
    BY <1>2 DEF Publish, Deliver, conn, presence
  <2>3. Whereabouts'
    BY <2>2 DEF Whereabouts, hub
  <2>4. TenantSlotsExact'
    BY <2>1, <2>2, SlotsStay DEF hub
  <2>5. RoomsAgree'
    BY <2>1, <2>2, RoomsStay DEF hub
  <2> QED BY <1>2, <2>1, <2>3, <2>4, <2>5, HomeOfFanout
<1>3. CASE ShutDown \/ CloseAll \/ UNCHANGED vars
  <2>1. UNCHANGED <<conn, hub, presence, fanout>>
    BY <1>3 DEF ShutDown, CloseAll, vars, rest
  <2>2. Shapes'
    BY <2>1 DEF Shapes, conn, hub, presence
  <2>3. Whereabouts'
    BY <2>1 DEF Whereabouts, conn, hub, presence
  <2>4. TenantSlotsExact'
    BY <2>1, <2>2, SlotsStay DEF conn, hub
  <2>5. RoomsAgree'
    BY <2>1, <2>2, RoomsStay DEF conn, hub
  <2>6. FramesAtHome'
    BY <2>1 DEF FramesAtHome, FramesOf, conn
  <2> QED BY <2>2, <2>3, <2>4, <2>5, <2>6
<1> QED BY <1>1, <1>2, <1>3 DEF EdgeNext

LEMMA InvariantHolds == EdgeSpec => []IInv
<1> QED BY InitIInv, NextIInv, PTL DEF EdgeSpec

-----------------------------------------------------------------------------
(* The theorems                                                            *)

(* Hub.tenantConns is the number of connections holding a slot of the      *)
(* tenant, and no order of hellos and closes puts a tenant over its cap.   *)
THEOREM SlotsAlwaysExact == EdgeSpec => []TenantSlotsExact
<1>1. IInv => TenantSlotsExact
  BY DEF IInv
<1> QED BY <1>1, InvariantHolds, PTL

(* The room's set, the session's own record and the connection's mirror of *)
(* a membership agree, and a room holds only connections of its tenant.    *)
THEOREM RoomsAlwaysAgree == EdgeSpec => []RoomsAgree
<1>1. IInv => RoomsAgree
  BY DEF IInv
<1> QED BY <1>1, InvariantHolds, PTL

(* A delivery in a queue is of the tenant its connection was pinned to,    *)
(* however stale the list of recipients was.                               *)
THEOREM DeliveriesAlwaysHome == EdgeSpec => []DeliveriesStayHome
<1>1. IInv => DeliveriesStayHome
  <2> SUFFICES ASSUME IInv, NEW c \in Conns, NEW i \in DOMAIN queue[c], queue[c][i] # Own
               PROVE  queue[c][i][1] = tenant[c]
    BY DEF DeliveriesStayHome
  <2>1. queue[c] \in Seq(FramesOf(c))
    BY DEF IInv, FramesAtHome
  <2>2. queue[c][i] \in FramesOf(c)
    BY <2>1
  <2> QED BY <2>2 DEF FramesOf
<1> QED BY <1>1, InvariantHolds, PTL

(* Presence holds a session only while the hub does, and every session     *)
(* that has been told it is ready.                                         *)
THEOREM PresenceAlwaysFollows == EdgeSpec => []PresenceFollowsSockets
<1>1. IInv => PresenceFollowsSockets
  BY DEF IInv, Shapes, Whereabouts, Known, PresenceFollowsSockets
<1> QED BY <1>1, InvariantHolds, PTL

-----------------------------------------------------------------------------
(* The connections gauge                                                   *)

GaugeInv == IsFiniteSet(Served) /\ connections = Cardinality(Served)

(* A step that begins or ends no serving.                                  *)
LEMMA GaugeStays ==
    ASSUME GaugeInv, UNCHANGED connections,
           \A d \in Conns : d \in Served <=> d \in Served'
    PROVE  GaugeInv'
<1>1. Served' = Served
  BY DEF Served
<1> QED BY <1>1 DEF GaugeInv

LEMMA GaugeOfOne ==
    ASSUME Shapes, GaugeInv, NEW c \in Conns,
           \/ Admit(c) \/ Progress(c) \/ Hello(c) \/ Reply(c) \/ Write(c) \/ InitiateClose(c)
           \/ ReaderReturns(c) \/ RequestClose(c)
           \/ \E r \in Rooms : Subscribe(c, r) \/ Unsubscribe(c, r)
    PROVE  GaugeInv'
<1>0. stage \in [Conns -> Stages] /\ Cardinality(Served) \in Nat /\ IsFiniteSet(Served)
      /\ connections = Cardinality(Served)
  BY FS_CardinalityType DEF Shapes, GaugeInv
<1>1. CASE Upgrade(c) /\ connections' = connections + 1
  <2>1. c \notin Served /\ Served' = Served \cup {c}
    BY <1>0, <1>1 DEF Upgrade, Goto, Served
  <2> QED BY <1>0, <1>1, <2>1, FS_AddElement DEF GaugeInv
<1>2. CASE ConnClosed(c)
  <2>1. c \in Served /\ Served' = Served \ {c}
    BY <1>0, <1>2 DEF ConnClosed, Goto, Served
  <2>2. Cardinality(Served \ {c}) = Cardinality(Served) - 1 /\ IsFiniteSet(Served \ {c})
    BY <1>0, <2>1, FS_RemoveElement
  <2>3. connections' = connections - 1
    BY <1>2 DEF ConnClosed
  <2> QED BY <1>0, <2>1, <2>2, <2>3 DEF GaugeInv
<1>3. CASE ~(Upgrade(c) /\ connections' = connections + 1) /\ ~ConnClosed(c)
  <2>1. UNCHANGED connections /\ stage' \in {stage, [stage EXCEPT ![c] = stage'[c]]}
    BY <1>0, <1>3
       DEF Admit, Progress, Upgrade, Welcome, Pin, Online, EmitPresence, Acknowledge, Offline,
           Unregister, Hello, RefuseHello, Reply, Write, InitiateClose, ReaderReturns,
           RequestClose, Subscribe, Unsubscribe, Goto, rest
  <2>2. c \in Served <=> c \in Served'
    BY <1>0, <1>3
       DEF Admit, Progress, Upgrade, Welcome, Pin, Online, EmitPresence, Acknowledge, Offline,
           Unregister, Hello, RefuseHello, Reply, Write, InitiateClose, ReaderReturns,
           RequestClose, Subscribe, Unsubscribe, Goto, Served, Serving
  <2>3. \A d \in Conns : d # c => stage'[d] = stage[d]
    BY <1>0, <2>1
  <2> QED BY <2>1, <2>2, <2>3, GaugeStays DEF Served
<1> QED BY <1>1, <1>2, <1>3

LEMMA GaugeNext == IInv /\ GaugeInv /\ [EdgeNext]_vars => GaugeInv'
<1> SUFFICES ASSUME IInv, GaugeInv, [EdgeNext]_vars PROVE GaugeInv'
  OBVIOUS
<1>1. ASSUME NEW p \in Publishers,
             \/ \E t \in Tenants, r \in Rooms : Publish(p, t, r)
             \/ \E c \in Conns : Deliver(p, c)
      PROVE  UNCHANGED <<stage, connections>>
  BY <1>1 DEF Publish, Deliver, conn
<1>2. ShutDown \/ CloseAll \/ UNCHANGED vars => UNCHANGED <<stage, connections>>
  BY DEF ShutDown, CloseAll, vars, conn, rest
<1>3. UNCHANGED <<stage, connections>> => GaugeInv'
  BY GaugeStays DEF Served
<1> QED BY <1>1, <1>2, <1>3, GaugeOfOne DEF EdgeNext, IInv

(* The tenants' counts and the gauge are exact: the numbers the caps are   *)
(* tested on (hub.go BindTenant, server.go serveWS).                       *)
THEOREM CountsAlwaysExact == EdgeSpec => []CountsExact
<1>1. EdgeInit => GaugeInv
  <2> SUFFICES ASSUME EdgeInit PROVE GaugeInv
    OBVIOUS
  <2>1. Served = {}
    BY DEF EdgeInit, Served
  <2> QED BY <2>1, FS_EmptySet DEF EdgeInit, GaugeInv
<1>2. EdgeSpec => []GaugeInv
  BY <1>1, GaugeNext, InvariantHolds, PTL DEF EdgeSpec
<1>3. IInv /\ GaugeInv => CountsExact
  BY DEF IInv, GaugeInv, CountsExact
<1> QED BY <1>2, <1>3, InvariantHolds, PTL

-----------------------------------------------------------------------------
(* Types and bounds                                                        *)

(* What the types say that no other part of the argument needs.            *)
Bounds ==
    /\ closed \in [Conns -> BOOLEAN]
    /\ \A c \in Conns : Len(queue[c]) <= QueueCap
    /\ snapshot \in [Conns -> 0 .. Cardinality(Conns)]
    /\ presenceUsers \in 0 .. Cardinality(Conns)
    /\ down \in BOOLEAN
    /\ sweep = None \/ sweep \subseteq Conns

(* One enqueue or one write, in any queue.                                 *)
LEMMA QueueBounded ==
    ASSUME Shapes, Bounds, NEW c \in Conns, NEW f \in Frames,
           \/ QueueStep(c, f)
           \/ queue[c] # <<>> /\ queue' = [queue EXCEPT ![c] = Tail(@)]
    PROVE  \A d \in Conns : Len(queue'[d]) <= QueueCap
<1>0. QueueCap \in Nat
  BY EdgeAssumption DEF EdgeAssumption
<1> TAKE d \in Conns
<1>1. PICK q \in Seq(Frames) : q = queue[d] /\ Len(q) <= QueueCap
  BY DEF Shapes, Bounds
<1>2. \/ queue'[d] = q
      \/ Len(q) < QueueCap /\ queue'[d] = Append(q, f)
      \/ q # <<>> /\ queue'[d] = Tail(q)
  BY <1>1 DEF QueueStep, Enqueue, Shapes
<1>3. Len(Append(q, f)) = Len(q) + 1 /\ Len(q) \in Nat /\ (q # <<>> => Len(Tail(q)) = Len(q) - 1)
  BY AppendProperties, HeadTailProperties, LenProperties
<1>4. Len(queue'[d]) \in {Len(q), Len(q) - 1} \/ (Len(q) < QueueCap /\ Len(queue'[d]) = Len(q) + 1)
  BY <1>2, <1>3
<1> QED BY ONLY <1>0, <1>1, <1>3, <1>4

(* A total over sessions is at most their number.                          *)
LEMMA TotalBounded ==
    ASSUME IsFiniteSet(Conns), NEW S \in SUBSET Conns
    PROVE  TotalUsers(S) \in 0 .. Cardinality(Conns)
<1>1. IsFiniteSet(S) /\ Cardinality(S) <= Cardinality(Conns)
  BY FS_Subset
<1> DEFINE f == [c \in S |-> <<TenantOf[c], UserOf[c]>>]
<1>2. Reachable(S) = {f[c] : c \in S}
  BY DEF Reachable
<1>3. f \in Surjection(S, Reachable(S))
  BY <1>2 DEF Surjection
<1>4. IsFiniteSet(Reachable(S)) /\ Cardinality(Reachable(S)) <= Cardinality(S)
  BY <1>1, <1>3, FS_Surjection
<1>5. /\ Cardinality(Reachable(S)) \in Nat /\ Cardinality(S) \in Nat /\ Cardinality(Conns) \in Nat
  BY <1>1, <1>4, FS_CardinalityType
<1> QED BY <1>1, <1>4, <1>5 DEF TotalUsers

LEMMA BoundsOfOne ==
    ASSUME IsFiniteSet(Conns), IInv, Bounds, NEW c \in Conns,
           \/ Admit(c) \/ Progress(c) \/ Hello(c) \/ Reply(c) \/ Write(c) \/ InitiateClose(c)
           \/ ReaderReturns(c) \/ RequestClose(c)
           \/ \E r \in Rooms : Subscribe(c, r) \/ Unsubscribe(c, r)
    PROVE  Bounds'
<1>0. Shapes
  BY DEF IInv
<1>1. \A d \in Conns : Len(queue'[d]) <= QueueCap
  <2>1. QueueStep(c, Own) \/ (queue[c] # <<>> /\ queue' = [queue EXCEPT ![c] = Tail(@)])
    BY DEF Admit, Progress, Upgrade, Welcome, Pin, Online, EmitPresence, Acknowledge, Offline,
           Unregister, ConnClosed, Hello, RefuseHello, Reply, Write, InitiateClose, ReaderReturns,
           RequestClose, Subscribe, Unsubscribe, QueueStep
  <2> QED BY <1>0, <2>1, OwnIsAFrame, QueueBounded
<1>2. closed' \in {closed, [closed EXCEPT ![c] = TRUE]}
  BY DEF Admit, Progress, Upgrade, Welcome, Pin, Online, EmitPresence, Acknowledge, Offline,
         Unregister, ConnClosed, Hello, RefuseHello, Reply, Write, InitiateClose, ReaderReturns,
         RequestClose, Subscribe, Unsubscribe
<1>3. snapshot' = snapshot \/ snapshot' = [snapshot EXCEPT ![c] = TotalUsers(online')]
  BY DEF Admit, Progress, Upgrade, Welcome, Pin, Online, EmitPresence, Acknowledge, Offline,
         Unregister, ConnClosed, Hello, RefuseHello, Reply, Write, InitiateClose, ReaderReturns,
         RequestClose, Subscribe, Unsubscribe, presence
<1>4. TotalUsers(online') \in 0 .. Cardinality(Conns)
  <2>1. online' \in SUBSET Conns
    BY <1>0
       DEF Shapes, Admit, Progress, Upgrade, Welcome, Pin, Online, EmitPresence, Acknowledge,
           Offline, Unregister, ConnClosed, Hello, RefuseHello, Reply, Write, InitiateClose,
           ReaderReturns, RequestClose, Subscribe, Unsubscribe, presence
  <2> QED BY <2>1, TotalBounded
<1>5. presenceUsers' \in {presenceUsers, snapshot[c]}
  BY DEF Admit, Progress, Upgrade, Welcome, Pin, Online, EmitPresence, Acknowledge, Offline,
         Unregister, ConnClosed, Hello, RefuseHello, Reply, Write, InitiateClose, ReaderReturns,
         RequestClose, Subscribe, Unsubscribe, presence
<1>6. down' = down /\ (sweep' = sweep \/ (sweep # None /\ sweep' = sweep \ {c}))
  BY DEF Admit, Progress, Upgrade, Welcome, Pin, Online, EmitPresence, Acknowledge, Offline,
         Unregister, ConnClosed, Hello, RefuseHello, Reply, Write, InitiateClose, ReaderReturns,
         RequestClose, Subscribe, Unsubscribe, rest
<1>7. closed' \in [Conns -> BOOLEAN]
  BY <1>2 DEF Bounds
<1>8. snapshot' \in [Conns -> 0 .. Cardinality(Conns)]
  BY <1>3, <1>4 DEF Bounds
<1>9. presenceUsers' \in 0 .. Cardinality(Conns)
  BY <1>5 DEF Bounds
<1>10. down' \in BOOLEAN /\ (sweep' = None \/ sweep' \subseteq Conns)
  BY <1>6 DEF Bounds
<1> QED BY <1>1, <1>7, <1>8, <1>9, <1>10 DEF Bounds

LEMMA BoundsNext ==
    ASSUME IsFiniteSet(Conns), IInv, Bounds, [EdgeNext]_vars PROVE Bounds'
<1>0. Shapes
  BY DEF IInv
<1>1. ASSUME NEW p \in Publishers, NEW t \in Tenants, NEW r \in Rooms, Publish(p, t, r)
      PROVE  Bounds'
  BY <1>1 DEF Publish, Bounds, conn, presence
<1>2. ASSUME NEW p \in Publishers, NEW c \in Conns, Deliver(p, c) PROVE Bounds'
  <2>1. fanout[p].frame \in Frames
    BY <1>0 DEF Shapes
  <2>2. \A d \in Conns : Len(queue'[d]) <= QueueCap
    BY <1>0, <1>2, <2>1, QueueBounded DEF Deliver, QueueStep
  <2> QED BY <1>2, <2>2 DEF Deliver, Bounds, presence
<1>3. CASE ShutDown
  <2>1. down' \in BOOLEAN /\ UNCHANGED <<closed, queue, snapshot, presenceUsers, sweep>>
    BY <1>3 DEF ShutDown, conn, presence
  <2> QED BY <2>1 DEF Bounds
<1>4. CASE CloseAll
  BY <1>0, <1>4 DEF CloseAll, conn, presence, Bounds, Shapes
<1>5. CASE UNCHANGED vars
  BY <1>5 DEF vars, conn, presence, rest, Bounds
<1> QED BY <1>1, <1>2, <1>3, <1>4, <1>5, BoundsOfOne DEF EdgeNext

LEMMA CountBounded ==
    ASSUME IsFiniteSet(Conns), NEW S \in SUBSET Conns
    PROVE  Cardinality(S) \in 0 .. Cardinality(Conns)
BY FS_Subset, FS_CardinalityType

(* Every variable of the edge keeps its type, every queue its bound, and   *)
(* no count exceeds the number of connections (there being finitely many). *)
THEOREM EdgeTypeCorrect == ASSUME IsFiniteSet(Conns) PROVE EdgeSpec => []EdgeTypeOK
<1>1. EdgeInit => Bounds
  <2>1. Cardinality(Conns) \in Nat /\ QueueCap \in Nat
    BY FS_CardinalityType, EdgeAssumption DEF EdgeAssumption
  <2> SUFFICES ASSUME EdgeInit PROVE Bounds
    OBVIOUS
  <2>2. \A c \in Conns : Len(queue[c]) = 0
    BY DEF EdgeInit
  <2>3. 0 \in 0 .. Cardinality(Conns)
    BY <2>1
  <2>4. closed \in [Conns -> BOOLEAN] /\ snapshot \in [Conns -> 0 .. Cardinality(Conns)]
    BY <2>3 DEF EdgeInit
  <2>5. down \in BOOLEAN /\ sweep = None
    BY DEF EdgeInit
  <2>6. presenceUsers \in 0 .. Cardinality(Conns) /\ \A c \in Conns : Len(queue[c]) <= QueueCap
    BY <2>1, <2>2, <2>3 DEF EdgeInit
  <2> QED BY <2>4, <2>5, <2>6 DEF Bounds
<1>2. IInv /\ Bounds /\ [EdgeNext]_vars => Bounds'
  BY BoundsNext
<1>3. EdgeSpec => []Bounds
  BY <1>1, <1>2, InvariantHolds, PTL DEF EdgeSpec
<1>4. IInv /\ Bounds /\ CountsExact => EdgeTypeOK
  <2> SUFFICES ASSUME IInv, Bounds, CountsExact PROVE EdgeTypeOK
    OBVIOUS
  <2>0. Shapes
    BY DEF IInv
  <2>1. \A t \in Tenants : tenantConns[t] \in 0 .. Cardinality(Conns)
    <3>1. \A t \in Tenants : Holders(t) \in SUBSET Conns
      BY <2>0 DEF Holders, Shapes
    <3> QED BY <3>1, CountBounded DEF CountsExact, TenantSlotsExact
  <2>2. connections \in 0 .. Cardinality(Conns)
    <3>1. Served \in SUBSET Conns
      BY DEF Served
    <3> QED BY <3>1, CountBounded DEF CountsExact
  <2>3. \A c \in Conns : /\ Len(queue[c]) <= QueueCap
                         /\ \A i \in DOMAIN queue[c] : queue[c][i] \in {Own} \cup (Tenants \X Rooms)
    BY <2>0 DEF Bounds, Shapes, Frames
  <2>4. tenantConns \in [Tenants -> 0 .. Cardinality(Conns)]
    BY <2>0, <2>1 DEF Shapes
  <2>5. \A p \in Publishers : fanout[p].targets \subseteq Conns
    BY <2>0 DEF Shapes
  <2> QED BY <2>0, <2>2, <2>3, <2>4, <2>5 DEF EdgeTypeOK, Shapes, Bounds
<1> QED BY <1>3, <1>4, InvariantHolds, CountsAlwaysExact, PTL

-----------------------------------------------------------------------------
(* The room service                                                        *)

LEMMA HomeUnmoved ==
    ASSUME \A d \in Conns : HomeOf(d)' = HomeOf(d) PROVE Home' = Home
BY DEF Home

(* The service counts as the edge does.                                    *)
LEMMA SameCount == ASSUME NEW S PROVE Service!Cardinality(S) = Cardinality(S)
  BY DEF Service!Cardinality, Cardinality

LEMMA HomeMoved ==
    ASSUME NEW c \in Conns, \A d \in Conns \ {c} : HomeOf(d)' = HomeOf(d)
    PROVE  Home' = [Home EXCEPT ![c] = HomeOf(c)']
BY DEF Home

(* A connection's home is the tenant whose slot it holds.                  *)
LEMMA HomesHoldSlots ==
    ASSUME Shapes, Whereabouts, NEW t \in Tenants
    PROVE  Service!Residents(t) = Holders(t)
<1>1. t # None
  BY EdgeAssumption DEF EdgeAssumption
<1>2. \A c \in Conns : HomeOf(c) = t <=> c \in Holders(t)
  BY <1>1, EdgeAssumption DEF EdgeAssumption, HomeOf, Holders, Whereabouts, Unknown
<1> QED BY <1>2 DEF Service!Residents, Home, Holders, Shapes

(* The steps at which nobody's slot, rooms or list of recipients changes:  *)
(* at most a frame of the connection's own is queued.                      *)
LEMMA PrivateSteps ==
    ASSUME Shapes, Whereabouts, NEW c \in Conns,
           \/ Admit(c) \/ Upgrade(c) \/ Welcome(c) \/ Pin(c) \/ Online(c) \/ EmitPresence(c)
           \/ Acknowledge(c) \/ Offline(c) \/ ConnClosed(c) \/ Reply(c) \/ InitiateClose(c)
           \/ ReaderReturns(c) \/ RequestClose(c) \/ Write(c)
    PROVE  Home' = Home /\ UNCHANGED <<joined, fanout>>
<1>1. ASSUME NEW d \in Conns PROVE HomeOf(d)' = HomeOf(d)
  <2>1. CASE Admit(c) \/ Upgrade(c) \/ Acknowledge(c) \/ Offline(c) \/ ConnClosed(c) \/ EmitPresence(c)
    BY <2>1 DEF Admit, Upgrade, Acknowledge, Offline, ConnClosed, EmitPresence, Goto, HomeOf, Shapes, hub
  <2>2. CASE Reply(c) \/ InitiateClose(c) \/ ReaderReturns(c) \/ RequestClose(c) \/ Write(c) \/ Online(c)
    BY <2>2 DEF Reply, InitiateClose, ReaderReturns, RequestClose, Write, Online, Goto, HomeOf, Shapes, hub
  <2>3. CASE Welcome(c)
    BY <2>3 DEF Welcome, Goto, HomeOf, Shapes, Whereabouts, Unknown
  <2>4. CASE Pin(c)
    <3>1. /\ stage[c] = "bound" /\ stage'[c] = "pinned" /\ tenant'[c] = TenantOf[c]
          /\ d # c => stage'[d] = stage[d] /\ tenant'[d] = tenant[d]
          /\ registered' = registered
      BY <2>4 DEF Pin, Goto, Shapes, hub
    <3> QED BY <3>1 DEF HomeOf
  <2> QED BY <2>1, <2>2, <2>3, <2>4
<1>2. UNCHANGED <<joined, fanout>>
  BY DEF Admit, Upgrade, Welcome, Pin, Online, EmitPresence, Acknowledge, Offline, ConnClosed,
         Reply, InitiateClose, ReaderReturns, RequestClose, Write, hub, rest
<1> QED BY <1>1, <1>2, HomeUnmoved

LEMMA NotesMap ==
    ASSUME NEW c \in Conns, Home' = Home, UNCHANGED <<joined, fanout>>,
           QueueStep(c, Own) \/ (queue[c] # <<>> /\ queue' = [queue EXCEPT ![c] = Tail(@)])
    PROVE  [Service!Next]_(Service!board)
<1>1. CASE Enqueue(c, Own)
  <2>1. Service!Notify(c)
    BY <1>1 DEF Enqueue, Own, Service!Notify, Service!Put, Service!Note
  <2> QED BY <2>1 DEF Service!Next
<1>2. CASE UNCHANGED queue
  BY <1>2 DEF Service!board
<1>3. CASE queue[c] # <<>> /\ queue' = [queue EXCEPT ![c] = Tail(@)]
  <2>1. Service!Take(c)
    BY <1>3 DEF Service!Take
  <2> QED BY <2>1 DEF Service!Next
<1> QED BY <1>1, <1>2, <1>3 DEF QueueStep

LEMMA PrivateStepsMap ==
    ASSUME Shapes, Whereabouts, NEW c \in Conns,
           \/ Admit(c) \/ Upgrade(c) \/ Welcome(c) \/ Pin(c) \/ Online(c) \/ EmitPresence(c)
           \/ Acknowledge(c) \/ Offline(c) \/ ConnClosed(c) \/ Reply(c) \/ InitiateClose(c)
           \/ ReaderReturns(c) \/ RequestClose(c) \/ Write(c)
    PROVE  [Service!Next]_(Service!board)
<1>1. QueueStep(c, Own) \/ (queue[c] # <<>> /\ queue' = [queue EXCEPT ![c] = Tail(@)])
  BY DEF Admit, Upgrade, Welcome, Pin, Online, EmitPresence, Acknowledge, Offline, ConnClosed,
         Reply, InitiateClose, ReaderReturns, RequestClose, Write, QueueStep, conn
<1> QED BY <1>1, PrivateSteps, NotesMap

(* A hello claims a slot, counted, at once; or leaves a note.              *)
LEMMA HelloMaps ==
    ASSUME Shapes, Whereabouts, TenantSlotsExact, NEW c \in Conns, Hello(c)
    PROVE  [Service!Next]_(Service!board)
<1>1. CASE RefuseHello(c)
  <2>1. \A d \in Conns : HomeOf(d)' = HomeOf(d)
    BY <1>1 DEF Hello, RefuseHello, Goto, HomeOf, Shapes
  <2>2. UNCHANGED <<joined, fanout>> /\ QueueStep(c, Own)
    BY <1>1 DEF Hello, RefuseHello, QueueStep, rest
  <2> QED BY <2>1, <2>2, HomeUnmoved, NotesMap
<1>2. CASE ~OverTenantCap(TenantOf[c]) /\ Goto(c, "bound") /\ UNCHANGED <<closed, queue>>
  <2> DEFINE t == TenantOf[c]
  <2>1. t \in Tenants /\ t # None /\ MaxPerTenant \in Nat
    BY EdgeAssumption DEF EdgeAssumption
  <2>2. /\ c \in registered /\ tenant[c] = None /\ stage[c] = "reading" /\ stage'[c] = "bound"
        /\ UNCHANGED <<tenant, registered, joined, fanout, queue>>
        /\ \A d \in Conns \ {c} : stage'[d] = stage[d]
    BY <1>2 DEF Hello, Goto, Whereabouts, Known, Shapes, rest
  <2>3. HomeOf(c) = None /\ HomeOf(c)' = t /\ \A d \in Conns \ {c} : HomeOf(d)' = HomeOf(d)
    BY <2>2 DEF HomeOf
  <2>4. Home' = [Home EXCEPT ![c] = t]
    BY <2>3, HomeMoved
  <2>5. tenantConns[t] \in Nat /\ tenantConns[t] = Cardinality(Holders(t)) /\ tenantConns[t] < MaxPerTenant
    BY <1>2, <2>1 DEF OverTenantCap, Shapes, TenantSlotsExact
  <2>6. Service!Cardinality(Service!Residents(t)) < MaxPerTenant
    BY <2>1, <2>5, HomesHoldSlots, SameCount
  <2>7. Home[c] = None
    BY <2>3 DEF Home
  <2>8. Service!Enter(c)
    BY <2>2, <2>4, <2>6, <2>7 DEF Service!Enter
  <2> QED BY <2>8 DEF Service!Next
<1> QED BY <1>1, <1>2 DEF Hello

LEMMA SubscribeMaps ==
    ASSUME Shapes, Whereabouts, RoomsAgree, NEW c \in Conns, NEW r \in Rooms,
           Subscribe(c, r) \/ Unsubscribe(c, r)
    PROVE  [Service!Next]_(Service!board)
<1>1. c \in registered /\ stage[c] = "reading" /\ tenant[c] # None /\ UNCHANGED <<tenant, registered, fanout>>
  BY DEF Subscribe, Unsubscribe, Whereabouts, Known, rest
<1>2. \A d \in Conns : HomeOf(d)' = HomeOf(d)
  BY <1>1 DEF Subscribe, Unsubscribe, Goto, HomeOf, Shapes
<1>3. Home' = Home /\ Home[c] # None
  BY <1>1, <1>2, HomeUnmoved DEF Home, HomeOf
<1>4. CASE Unsubscribe(c, r)
  <2>1. Service!Part(c, r)
    BY <1>1, <1>3, <1>4 DEF Unsubscribe, Service!Part
  <2> QED BY <2>1 DEF Service!Next
<1>5. CASE Subscribe(c, r) /\ ~HasPlace(c, r)
  BY <1>1, <1>3, <1>5, NotesMap DEF Subscribe, QueueStep
<1>6. CASE Subscribe(c, r) /\ HasPlace(c, r)
  <2>1. joined' = [joined EXCEPT ![c] = joined[c] \cup {r}] /\ UNCHANGED queue
    BY <1>6 DEF Subscribe, HubJoin
  <2>2. subscriptions[c] = joined[c] /\ Cardinality(joined[c]) <= MaxSubs
    BY <1>1 DEF RoomsAgree
  <2>3. IsFiniteSet(joined[c]) /\ Cardinality(joined[c]) \in Nat /\ MaxSubs \in Nat
    BY EdgeAssumption, FS_CardinalityType DEF Shapes, EdgeAssumption
  <2>4. Cardinality(joined[c] \cup {r})
          = IF r \in joined[c] THEN Cardinality(joined[c]) ELSE Cardinality(joined[c]) + 1
    BY <2>3, FS_AddElement
  <2>5. Cardinality(joined[c] \cup {r}) <= MaxSubs
    BY <1>6, <2>2, <2>3, <2>4 DEF HasPlace
  <2>6. Service!Join(c, r)
    BY <1>1, <1>3, <2>1, <2>5, SameCount DEF Service!Join
  <2> QED BY <2>6 DEF Service!Next
<1> QED BY <1>4, <1>5, <1>6

LEMMA UnregisterMaps ==
    ASSUME Shapes, Whereabouts, NEW c \in Conns, Unregister(c)
    PROVE  [Service!Next]_(Service!board)
<1>1. UNCHANGED <<tenant, queue, fanout>> /\ stage[c] = "offline" /\ Goto(c, "unregistered")
  BY DEF Unregister, rest
<1>2. CASE c \notin registered
  <2>1. UNCHANGED <<registered, joined>>
    BY <1>2 DEF Unregister, hub
  <2>2. \A d \in Conns : HomeOf(d)' = HomeOf(d)
    BY <1>1, <2>1 DEF Goto, HomeOf, Shapes
  <2> QED BY <1>1, <2>1, <2>2, HomeUnmoved DEF Service!board
<1>3. CASE c \in registered
  <2>1. registered' = registered \ {c} /\ joined' = [joined EXCEPT ![c] = {}]
    BY <1>3 DEF Unregister
  <2>2. HomeOf(c)' = None /\ \A d \in Conns \ {c} : HomeOf(d)' = HomeOf(d)
    BY <1>1, <2>1 DEF Goto, HomeOf, Shapes
  <2>3. Home' = [Home EXCEPT ![c] = None]
    BY <2>2, HomeMoved
  <2>4. Service!Leave(c)
    BY <1>1, <2>1, <2>3 DEF Service!Leave
  <2> QED BY <2>4 DEF Service!Next
<1> QED BY <1>2, <1>3

(* The recipients listed are the audience of the moment.                   *)
LEMMA FanoutMaps ==
    ASSUME Shapes, Whereabouts, RoomsAgree, NEW p \in Publishers,
           \/ \E t \in Tenants, r \in Rooms : Publish(p, t, r)
           \/ \E c \in Conns : Deliver(p, c)
    PROVE  [Service!Next]_(Service!board)
<1>1. UNCHANGED <<stage, tenant, registered, joined>>
  BY DEF Publish, Deliver, conn, hub
<1>2. Home' = Home
  BY <1>1, HomeUnmoved DEF HomeOf
<1>3. ASSUME NEW t \in Tenants, NEW r \in Rooms, Publish(p, t, r)
      PROVE  [Service!Next]_(Service!board)
  <2>1. t # None
    BY EdgeAssumption DEF EdgeAssumption
  <2>2. \A c \in Conns : c \in registered /\ tenant[c] = t /\ r \in joined[c]
                           <=> HomeOf(c) = t /\ r \in joined[c]
    BY <2>1 DEF HomeOf, Whereabouts
  <2>3. peers[<<t, r>>] = {c \in registered : tenant[c] = t /\ r \in joined[c]}
    BY DEF RoomsAgree
  <2>4. Members(t, r) = Service!Audience(t, r)
    BY <2>2, <2>3 DEF Members, Service!Audience, Service!Residents, Home, Shapes
  <2>5. Service!Post(p, t, r)
    BY <1>1, <1>2, <1>3, <2>4 DEF Publish, Service!Post, conn
  <2> QED BY <2>5 DEF Service!Next
<1>4. ASSUME NEW c \in Conns, Deliver(p, c) PROVE [Service!Next]_(Service!board)
  <2>1. Service!Give(p, c)
    BY <1>1, <1>2, <1>4 DEF Deliver, Enqueue, Service!Give, Service!Put
  <2> QED BY <2>1 DEF Service!Next
<1> QED BY <1>3, <1>4

LEMMA InitMaps == EdgeInit => Service!Init
<1> SUFFICES ASSUME EdgeInit PROVE Service!Init
  OBVIOUS
<1>1. Home = [c \in Conns |-> None]
  BY DEF EdgeInit, Home, HomeOf
<1> QED BY <1>1 DEF EdgeInit, Service!Init, Own, Service!Note

LEMMA NextMaps == IInv /\ [EdgeNext]_vars => [Service!Next]_(Service!board)
<1> SUFFICES ASSUME IInv, [EdgeNext]_vars PROVE [Service!Next]_(Service!board)
  OBVIOUS
<1> USE DEF IInv
<1>1. ASSUME NEW c \in Conns,
             \/ Admit(c) \/ Progress(c) \/ Hello(c) \/ Reply(c) \/ Write(c) \/ InitiateClose(c)
             \/ ReaderReturns(c) \/ RequestClose(c)
             \/ \E r \in Rooms : Subscribe(c, r) \/ Unsubscribe(c, r)
      PROVE  [Service!Next]_(Service!board)
  BY <1>1, PrivateStepsMap, HelloMaps, SubscribeMaps, UnregisterMaps DEF Progress
<1>2. CASE ShutDown \/ CloseAll \/ UNCHANGED vars
  <2>1. UNCHANGED <<stage, tenant, registered, joined, fanout, queue>>
    BY <1>2 DEF ShutDown, CloseAll, vars, conn, hub, rest
  <2>2. Home' = Home
    BY <2>1, HomeUnmoved DEF HomeOf
  <2> QED BY <2>1, <2>2 DEF Service!board
<1> QED BY <1>1, <1>2, FanoutMaps DEF EdgeNext

(* The edge implements the room service: behind three records of each      *)
(* membership, a count raised before its tenant is pinned and a list of    *)
(* recipients used outside the lock, connections and publishers see one    *)
(* atomic table.                                                           *)
THEOREM EdgeImplementsRooms == EdgeSpec => ImplementsRooms
<1> QED BY InitMaps, NextMaps, InvariantHolds, PTL DEF EdgeSpec, ImplementsRooms, Service!Spec
===============================================================================
