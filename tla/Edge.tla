---------------------------------- MODULE Edge ----------------------------------
(***************************************************************************)
(* The websocket edge of the gateway: admission (server), the life of a    *)
(* connection (websocket), the registry of connections and rooms (hub),    *)
(* who is online (presence), and the fan-out of one event to a room.       *)
(*                                                                         *)
(* A connection's serving goroutine is its program counter, stage.  The    *)
(* hub's mutex and the presence registry's are two different locks, so     *)
(* each locked section is one action and everything else interleaves:      *)
(* other connections, the heartbeat, the shutdown sweep, publishers.       *)
(***************************************************************************)
EXTENDS Naturals, Sequences, FiniteSets

CONSTANTS
    Conns,           \* connections; an id is random and never used twice
    Tenants, Users,
    TenantOf,        \* the tenant in each connection's token
    UserOf,          \* the user in each connection's token
    Rooms,           \* room names clients subscribe to
    Publishers,      \* goroutines serving an ingest request
    MaxConnections,  \* global cap, tested before the upgrade
    MaxPerTenant,    \* cap on a tenant's authenticated connections
    MaxSubs,         \* cap on a connection's subscriptions
    QueueCap,        \* capacity of a connection's outgoing queue
    None

ASSUME EdgeAssumption ==
    /\ None \notin Conns \cup Tenants
    /\ TenantOf \in [Conns -> Tenants] /\ UserOf \in [Conns -> Users]
    /\ {MaxConnections, MaxPerTenant, MaxSubs, QueueCap} \subseteq Nat \ {0}

VARIABLES
    stage,          \* where each connection's serving goroutine is
    tenant,         \* Connection.tenantID: pinned by a verified hello
    closed,         \* Connection.closed: initiateClose has run
    subscriptions,  \* Connection.subscriptions: the mirror the cap is tested on
    queue,          \* Connection.outgoing
    registered,     \* Hub.sessions
    joined,         \* sessionMeta.rooms of each registered connection
    peers,          \* Hub.rooms: the connections in each (tenant, room)
    tenantConns,    \* Hub.tenantConns
    online,         \* the presence registry's sessions
    snapshot,       \* TotalUsers in the presence event a goroutine is emitting
    presenceUsers,  \* the presence gauge
    connections,    \* the connections gauge the global cap is tested on
    fanout,         \* what is left of each publisher's delivery
    down,           \* shutdown has begun: no new connection is accepted
    sweep           \* connections CloseAll has still to ask; None before it ran

conn     == <<stage, tenant, closed, subscriptions, queue>>
hub      == <<registered, joined, peers, tenantConns>>
presence == <<online, snapshot, presenceUsers>>
rest     == <<connections, fanout, down, sweep>>
vars     == <<conn, hub, presence, rest>>

(* A frame of the session's own; a delivery is the (tenant, room) it was   *)
(* published to.                                                           *)
Own == <<None, None>>

EdgeInit ==
    /\ stage = [c \in Conns |-> "out"]
    /\ tenant = [c \in Conns |-> None]
    /\ closed = [c \in Conns |-> FALSE]
    /\ subscriptions = [c \in Conns |-> {}]
    /\ queue = [c \in Conns |-> <<>>]
    /\ registered = {}
    /\ joined = [c \in Conns |-> {}]
    /\ peers = [k \in Tenants \X Rooms |-> {}]
    /\ tenantConns = [t \in Tenants |-> 0]
    /\ online = {}
    /\ snapshot = [c \in Conns |-> 0]
    /\ presenceUsers = 0
    /\ connections = 0
    /\ fanout = [p \in Publishers |-> [frame |-> Own, targets |-> {}]]
    /\ down = FALSE
    /\ sweep = None

-----------------------------------------------------------------------------
Goto(c, s) == stage' = [stage EXCEPT ![c] = s]

(* Mutant: the queue has no bound.                                         *)
Enqueue_Unbounded(c, frame) == queue' = [queue EXCEPT ![c] = Append(@, frame)]

(* A non-blocking enqueue; a full queue drops the newcomer.                *)
Enqueue(c, frame) ==
    queue' = [queue EXCEPT ![c] = IF Len(@) < QueueCap THEN Append(@, frame) ELSE @]

(* Goroutines that may close a connection start once it is registered.     *)
Serving(c) == stage[c] \in {"reading", "bound", "pinned", "announcing", "acking"}

-----------------------------------------------------------------------------
(* Admission.                                                              *)

(* serveWS: the cap is read before the upgrade ...                         *)
Admit(c) ==
    /\ stage[c] = "out" /\ ~down
    /\ connections < MaxConnections
    /\ Goto(c, "admitted")
    /\ UNCHANGED <<tenant, closed, subscriptions, queue, hub, presence, rest>>

(* ... and the connection counted after it, when Serve begins.             *)
Upgrade(c) ==
    /\ stage[c] = "admitted"
    /\ \/ /\ Goto(c, "opened")
          /\ connections' = connections + 1
       \/ /\ Goto(c, "gone")               \* the handshake failed
          /\ UNCHANGED connections
    /\ UNCHANGED <<tenant, closed, subscriptions, queue, hub, presence, fanout, down, sweep>>

(* The welcome is written, then Hub.Register; or the write failed and      *)
(* Serve's deferred calls run.                                             *)
Welcome(c) ==
    /\ stage[c] = "opened"
    /\ \/ /\ Goto(c, "reading")
          /\ registered' = registered \cup {c}
       \/ /\ Goto(c, "offline")
          /\ UNCHANGED registered
    /\ UNCHANGED <<tenant, closed, subscriptions, queue, joined, peers, tenantConns, presence, rest>>

-----------------------------------------------------------------------------
(* The hello: verify, bind, pin, go online, acknowledge.                   *)

(* A refused hello owes the client one error frame and closes.             *)
RefuseHello(c) ==
    /\ Enqueue(c, Own)
    /\ closed' = [closed EXCEPT ![c] = TRUE]
    /\ Goto(c, "returned")

OverTenantCap(t) == tenantConns[t] >= MaxPerTenant

(* handleHello up to Hub.BindTenant.  The rebinding branches of BindTenant *)
(* are behind handleHello's own gate: a pinned connection never gets there.*)
Hello(c) ==
    /\ stage[c] = "reading" /\ tenant[c] = None
    /\ \/ RefuseHello(c) /\ UNCHANGED tenantConns       \* token invalid
       \/ /\ OverTenantCap(TenantOf[c])
          /\ RefuseHello(c) /\ UNCHANGED tenantConns
       \/ /\ ~OverTenantCap(TenantOf[c])
          /\ tenantConns' = [tenantConns EXCEPT ![TenantOf[c]] = @ + 1]
          /\ Goto(c, "bound")
          /\ UNCHANGED <<closed, queue>>
    /\ UNCHANGED <<tenant, subscriptions, registered, joined, peers, presence, rest>>

(* setIdentity pins the claims under the connection's own lock ...         *)
Pin(c) ==
    /\ stage[c] = "bound"
    /\ tenant' = [tenant EXCEPT ![c] = TenantOf[c]]
    /\ Goto(c, "pinned")
    /\ UNCHANGED <<closed, subscriptions, queue, hub, presence, rest>>

Reachable(sessions) == {<<TenantOf[c], UserOf[c]>> : c \in sessions}

TotalUsers(sessions) == Cardinality(Reachable(sessions))

(* ... and Registry.Online records the session, with the total it makes.   *)
Online(c) ==
    /\ stage[c] = "pinned"
    /\ online' = online \cup {c}
    /\ snapshot' = [snapshot EXCEPT ![c] = TotalUsers(online')]
    /\ Goto(c, "announcing")
    /\ UNCHANGED <<tenant, closed, subscriptions, queue, hub, presenceUsers, rest>>

(* The gauge's callback runs after the registry's lock is released.        *)
EmitPresence(c) ==
    /\ \/ stage[c] = "announcing" /\ Goto(c, "acking")
       \/ stage[c] = "withdrawing" /\ Goto(c, "offline")
    /\ presenceUsers' = snapshot[c]
    /\ UNCHANGED <<tenant, closed, subscriptions, queue, hub, online, snapshot, rest>>

(* ready, subscribed or unsubscribed: through the same queue as deliveries.*)
Acknowledge(c) ==
    /\ stage[c] = "acking"
    /\ Enqueue(c, Own)
    /\ Goto(c, "reading")
    /\ UNCHANGED <<tenant, closed, subscriptions, hub, presence, rest>>

-----------------------------------------------------------------------------
(* Rooms.                                                                  *)

(* Mutant: membership is not mirrored on the session's own record.         *)
HubJoin_Unrecorded(c, r) ==
    /\ peers' = [peers EXCEPT ![<<tenant[c], r>>] = @ \cup {c}]
    /\ UNCHANGED joined

(* Hub.Subscribe.                                                          *)
HubJoin(c, r) ==
    /\ joined' = [joined EXCEPT ![c] = @ \cup {r}]
    /\ peers' = [peers EXCEPT ![<<tenant[c], r>>] = @ \cup {c}]

(* The mirror knows the room already, or has a place for it.               *)
HasPlace(c, r) == r \in subscriptions[c] \/ Cardinality(subscriptions[c]) < MaxSubs

(* handleSubscribe: the mirror's cap, then the hub.  The hub cannot refuse *)
(* a session that is registered and pinned, which a reading one is.        *)
Subscribe(c, r) ==
    /\ stage[c] = "reading" /\ tenant[c] # None
    /\ \/ /\ HasPlace(c, r)
          /\ subscriptions' = [subscriptions EXCEPT ![c] = @ \cup {r}]
          /\ HubJoin(c, r)
          /\ Goto(c, "acking")
          /\ UNCHANGED queue
       \/ /\ ~HasPlace(c, r)
          /\ Enqueue(c, Own)
          /\ UNCHANGED <<stage, subscriptions, joined, peers>>
    /\ UNCHANGED <<tenant, closed, registered, tenantConns, presence, rest>>

(* The mirror after leaving r.                                             *)
Mirrored(c, r) == subscriptions[c] \ {r}

Unsubscribe(c, r) ==
    /\ stage[c] = "reading" /\ tenant[c] # None
    /\ joined' = [joined EXCEPT ![c] = @ \ {r}]
    /\ peers' = [peers EXCEPT ![<<tenant[c], r>>] = @ \ {c}]
    /\ subscriptions' = [subscriptions EXCEPT ![c] = Mirrored(c, r)]
    /\ Goto(c, "acking")
    /\ UNCHANGED <<tenant, closed, queue, registered, tenantConns, presence, rest>>

(* A ping, a refused frame, a frame before hello: one reply.               *)
Reply(c) ==
    /\ stage[c] = "reading"
    /\ Enqueue(c, Own)
    /\ UNCHANGED <<stage, tenant, closed, subscriptions, hub, presence, rest>>

-----------------------------------------------------------------------------
(* The writer, the close, the teardown.                                    *)

(* The writer, until Serve stops waiting for it and closes the socket.     *)
Write(c) ==
    /\ Serving(c) \/ stage[c] = "returned"
    /\ queue[c] # <<>>
    /\ queue' = [queue EXCEPT ![c] = Tail(@)]
    /\ UNCHANGED <<stage, tenant, closed, subscriptions, hub, presence, rest>>

(* initiateClose by the heartbeat or by a failed write; a lapsed token is  *)
(* announced first.                                                        *)
InitiateClose(c) ==
    /\ Serving(c) /\ ~closed[c]
    /\ closed' = [closed EXCEPT ![c] = TRUE]
    /\ \/ tenant[c] # None /\ Enqueue(c, Own)
       \/ UNCHANGED queue
    /\ UNCHANGED <<stage, tenant, subscriptions, hub, presence, rest>>

(* Mutant: a session closed from outside skips its presence record.        *)
ReaderReturns_Hurries(c) ==
    /\ stage[c] = "reading"
    /\ closed' = [closed EXCEPT ![c] = TRUE]
    /\ Goto(c, IF closed[c] THEN "offline" ELSE "returned")
    /\ UNCHANGED <<tenant, subscriptions, queue, hub, presence, rest>>

(* The reader returns between two frames: the peer closed, or a deadline   *)
(* passed.  Then Serve closes and waits for the writer, within a bound.    *)
ReaderReturns(c) ==
    /\ stage[c] = "reading"
    /\ closed' = [closed EXCEPT ![c] = TRUE]
    /\ Goto(c, "returned")
    /\ UNCHANGED <<tenant, subscriptions, queue, hub, presence, rest>>

(* Mutant: a session that presence never recorded is waited for.           *)
Offline_Recorded(c) ==
    /\ stage[c] = "returned" /\ c \in online
    /\ online' = online \ {c}
    /\ snapshot' = [snapshot EXCEPT ![c] = TotalUsers(online')]
    /\ Goto(c, "withdrawing")
    /\ UNCHANGED <<tenant, closed, subscriptions, queue, hub, presenceUsers, rest>>

(* leavePresence, the first deferred call after the relay's ConnClosed.    *)
Offline(c) ==
    /\ stage[c] = "returned"
    /\ IF c \in online
       THEN /\ online' = online \ {c}
            /\ snapshot' = [snapshot EXCEPT ![c] = TotalUsers(online')]
            /\ Goto(c, "withdrawing")
       ELSE /\ Goto(c, "offline")
            /\ UNCHANGED <<online, snapshot>>
    /\ UNCHANGED <<tenant, closed, subscriptions, queue, hub, presenceUsers, rest>>

(* Mutant: the tenant's slot is kept.                                      *)
SlotsAfter_Kept(c) == tenantConns

(* A pinned session's slot goes back to its tenant.                        *)
SlotsAfter(c) ==
    IF tenant[c] = None THEN tenantConns
    ELSE [tenantConns EXCEPT ![tenant[c]] = @ - 1]

(* Hub.Unregister; a session that was never registered is a no-op.         *)
Unregister(c) ==
    /\ stage[c] = "offline"
    /\ IF c \in registered
       THEN /\ registered' = registered \ {c}
            /\ tenantConns' = SlotsAfter(c)
            /\ peers' = [k \in Tenants \X Rooms |->
                           IF k[1] = tenant[c] /\ k[2] \in joined[c]
                           THEN peers[k] \ {c} ELSE peers[k]]
            /\ joined' = [joined EXCEPT ![c] = {}]
       ELSE UNCHANGED hub
    /\ Goto(c, "unregistered")
    /\ UNCHANGED <<tenant, closed, subscriptions, queue, presence, rest>>

(* The last deferred call: the connections gauge.                          *)
ConnClosed(c) ==
    /\ stage[c] = "unregistered"
    /\ connections' = connections - 1
    /\ Goto(c, "gone")
    /\ UNCHANGED <<tenant, closed, subscriptions, queue, hub, presence, fanout, down, sweep>>

-----------------------------------------------------------------------------
(* Fan-out.                                                                *)

(* Mutant: the room's name alone is the key.                               *)
Members_AnyTenant(t, r) == UNION {peers[<<u, r>>] : u \in Tenants} \cap registered

(* The sessions of (tenant, room) that are registered.                     *)
Members(t, r) == peers[<<t, r>>] \cap registered

(* Hub.Publish: the recipients are listed under the lock ...               *)
Publish(p, t, r) ==
    /\ fanout[p].targets = {} /\ Members(t, r) # {}
    /\ fanout' = [fanout EXCEPT ![p] = [frame |-> <<t, r>>, targets |-> Members(t, r)]]
    /\ UNCHANGED <<conn, hub, presence, connections, down, sweep>>

(* Mutant: a recipient stays on the list it was served from.               *)
Deliver_Again(p, c) ==
    /\ c \in fanout[p].targets
    /\ Enqueue(c, fanout[p].frame)
    /\ UNCHANGED <<stage, tenant, closed, subscriptions, hub, presence, rest>>

(* ... and their queues filled outside it, in any order.                   *)
Deliver(p, c) ==
    /\ c \in fanout[p].targets
    /\ Enqueue(c, fanout[p].frame)
    /\ fanout' = [fanout EXCEPT ![p].targets = @ \ {c}]
    /\ UNCHANGED <<stage, tenant, closed, subscriptions, hub, presence, connections, down, sweep>>

-----------------------------------------------------------------------------
(* Shutdown.                                                               *)

(* The listener closes; handlers already running keep running.             *)
ShutDown ==
    /\ ~down
    /\ down' = TRUE
    /\ UNCHANGED <<conn, hub, presence, connections, fanout, sweep>>

(* Hub.CloseAll lists the registered connections under the lock ...        *)
CloseAll ==
    /\ down /\ sweep = None
    /\ sweep' = registered
    /\ UNCHANGED <<conn, hub, presence, connections, fanout, down>>

(* ... and asks each of them to close, outside it.                         *)
RequestClose(c) ==
    /\ sweep # None /\ c \in sweep
    /\ sweep' = sweep \ {c}
    /\ closed' = [closed EXCEPT ![c] = TRUE]
    /\ UNCHANGED <<stage, tenant, subscriptions, queue, hub, presence, connections, fanout, down>>

-----------------------------------------------------------------------------
(* A goroutine's own steps, which nothing outside it can hold up.          *)
Progress(c) ==
    \/ Upgrade(c) \/ Welcome(c)
    \/ Pin(c) \/ Online(c) \/ EmitPresence(c) \/ Acknowledge(c)
    \/ Offline(c) \/ Unregister(c) \/ ConnClosed(c)

EdgeNext ==
    \/ \E c \in Conns :
          \/ Admit(c) \/ Progress(c)
          \/ Hello(c) \/ Reply(c)
          \/ \E r \in Rooms : Subscribe(c, r) \/ Unsubscribe(c, r)
          \/ Write(c) \/ InitiateClose(c) \/ ReaderReturns(c)
          \/ RequestClose(c)
    \/ \E p \in Publishers :
          \/ \E t \in Tenants, r \in Rooms : Publish(p, t, r)
          \/ \E c \in Conns : Deliver(p, c)
    \/ ShutDown
    \/ CloseAll

EdgeSpec == EdgeInit /\ [][EdgeNext]_vars

(* Goroutines run on.  A closed connection's reader may still meet frames  *)
(* that were buffered, but its read deadline is in the past: strong        *)
(* fairness.  No client owes anybody a frame, and nothing obliges the      *)
(* process to shut down.                                                   *)
EdgeFairness ==
    \A c \in Conns : /\ WF_vars(Progress(c))
                     /\ SF_vars(closed[c] /\ ReaderReturns(c))

FairEdgeSpec == EdgeSpec /\ EdgeFairness

-----------------------------------------------------------------------------
(* Properties.                                                             *)

Stages == {"out", "admitted", "opened", "reading", "bound", "pinned",
           "announcing", "acking", "returned", "withdrawing", "offline",
           "unregistered", "gone"}

(* What each variable may hold; a queue never outgrows its capacity.       *)
EdgeTypeOK ==
    /\ stage \in [Conns -> Stages]
    /\ tenant \in [Conns -> Tenants \cup {None}]
    /\ closed \in [Conns -> BOOLEAN]
    /\ subscriptions \in [Conns -> SUBSET Rooms]
    /\ \A c \in Conns :
          /\ Len(queue[c]) <= QueueCap
          /\ \A i \in DOMAIN queue[c] : queue[c][i] \in {Own} \cup (Tenants \X Rooms)
    /\ registered \subseteq Conns
    /\ joined \in [Conns -> SUBSET Rooms]
    /\ peers \in [Tenants \X Rooms -> SUBSET Conns]
    /\ tenantConns \in [Tenants -> 0 .. Cardinality(Conns)]
    /\ online \subseteq Conns
    /\ snapshot \in [Conns -> 0 .. Cardinality(Conns)]
    /\ presenceUsers \in 0 .. Cardinality(Conns)
    /\ connections \in 0 .. Cardinality(Conns)
    /\ \A p \in Publishers : fanout[p].targets \subseteq Conns
    /\ down \in BOOLEAN
    /\ sweep = None \/ sweep \subseteq Conns

(* The connections that hold one of t's slots: from the moment BindTenant  *)
(* counted them, before setIdentity made the tenant visible, until         *)
(* Unregister.                                                             *)
Holders(t) == {c \in registered : tenant[c] = t \/ (stage[c] = "bound" /\ TenantOf[c] = t)}

(* Hub.tenantConns counts exactly the connections holding a slot, though   *)
(* it is raised before the pin Unregister lowers it by is readable; and no *)
(* interleaving of hellos and closes puts a tenant over its cap.           *)
TenantSlotsExact ==
    \A t \in Tenants : /\ tenantConns[t] = Cardinality(Holders(t))
                       /\ Cardinality(Holders(t)) <= MaxPerTenant

(* The connections Serve is running for, from the upgrade to its last      *)
(* deferred call.                                                          *)
Served == {c \in Conns : stage[c] \notin {"out", "admitted", "gone"}}

(* The two numbers the caps are tested on count what they stand for: each  *)
(* tenant's slots, and on the gauge the connections being served, whatever *)
(* way each of them came to its end.                                       *)
CountsExact == TenantSlotsExact /\ connections = Cardinality(Served)

(* The three records of a membership agree: the room's set, the session's  *)
(* own, and the connection's mirror, on which the cap on subscriptions is  *)
(* tested; and a room holds only live connections of its own tenant.       *)
RoomsAgree ==
    /\ \A t \in Tenants, r \in Rooms :
          peers[<<t, r>>] = {c \in registered : tenant[c] = t /\ r \in joined[c]}
    /\ \A c \in registered : /\ subscriptions[c] = joined[c]
                             /\ Cardinality(joined[c]) <= MaxSubs

(* A delivery in a connection's queue was published to the tenant its own  *)
(* token pinned, however stale the list of recipients was.                 *)
DeliveriesStayHome ==
    \A c \in Conns : \A i \in DOMAIN queue[c] :
       queue[c][i] # Own => queue[c][i][1] = tenant[c]

(* Presence holds a session only while the hub does and under a pinned     *)
(* identity, and holds every one that has been told it is ready.           *)
PresenceFollowsSockets ==
    /\ \A c \in online : c \in registered /\ tenant[c] # None
    /\ \A c \in Conns : stage[c] \in {"reading", "acking"} /\ tenant[c] # None => c \in online

(* Whatever closes a connection, wherever its goroutine was: the session   *)
(* leaves the hub, the rooms, presence and its tenant's count.             *)
ClosedIsTornDown ==
    \A c \in Conns :
       closed[c] ~> /\ stage[c] = "gone" /\ c \notin registered \cup online
                    /\ \A t \in Tenants, r \in Rooms : c \notin peers[<<t, r>>]

(* What the rooms are to those in them.  A slot is held from BindTenant,   *)
(* before the tenant is readable anywhere, and given back with the         *)
(* memberships by Unregister.                                              *)
HomeOf(c) ==
    IF c \in registered THEN IF stage[c] = "bound" THEN TenantOf[c] ELSE tenant[c] ELSE None

Home == [c \in Conns |-> HomeOf(c)]

Service == INSTANCE RoomService WITH home <- Home, within <- joined, posting <- fanout, mailbox <- queue

(* The hub implements the room service: its three records of a membership, *)
(* the count raised before the identity is pinned, the list of recipients  *)
(* used outside the lock, and the order of the deferred calls are nothing  *)
(* a connection or a publisher could tell from one atomic table.           *)
ImplementsRooms == Service!Spec

-----------------------------------------------------------------------------
(* What the documentation says and the code does not do.                   *)

(* metrics.go: SetPresenceUsers keeps the gauge at "the registry's latest   *)
(* TotalUsers snapshot".  Two transitions may report their totals in the   *)
(* other order, and nothing corrects the gauge until the next one.         *)
PresenceGaugeSettles ==
    (\A c \in Conns : stage[c] \notin {"announcing", "withdrawing"})
       => presenceUsers = TotalUsers(online)
=============================================================================
