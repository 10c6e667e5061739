# VoxDesk realtime services: specification, model checking, proofs

VoxDesk is a voice and text receptionist product. Its dashboards and browsers
talk to a realtime edge written in Go, `src/voxdesk/services/realtime/gateway-go`
(about 7,500 lines without tests). The edge is where the system is concurrent:
one process, several goroutines per connection, four mutexes, two lock-free
maps, bounded queues, a reaper, a shutdown sweep and an HTTP ingest path all at
once. Behind it stand a media engine in Rust, which relays calls when they are
not peer to peer, and a Python application over a database, whose payments
arrive as webhooks. This directory models the gateway, the engine's registries
and the billing webhooks in TLA+, checks them with TLC and proves the central
results with TLAPS. Paths below are relative to the gateway directory unless
they begin with `crates/` (`services/realtime/media-engine-rs`) or `app/`.

## 1. The system

The repository holds two snapshots of one product; `src/voxdesk/` is the
complete one. Its parts:

| Part | Where | State it keeps | Modelled |
|---|---|---|---|
| session ledger | `internal/session` | sessions and three indexes (by id, tenant, connection), one mutex | yes |
| signaling relay | `internal/signaling` | engine enrolments and steered sessions (`sync.Map`s), the sessions gauge | yes |
| connection | `internal/websocket` | identity, subscription mirror, outgoing queue, close-once; reader, writer, heartbeat goroutines | all but timing |
| hub | `internal/hub` | registered connections, rooms, tenant slots, one mutex | yes |
| presence | `internal/presence` | tenant -> user -> sessions, one mutex, callbacks | yes |
| backpressure | `internal/backpressure` | a bounded queue, newest dropped | yes |
| server, shutdown | `internal/server`, `internal/shutdown`, `cmd/gateway` | gauges, the once-only close | admission, ingest, shutdown sweep |
| replay guard | `internal/idempotency` | (tenant, event) -> time, one mutex | yes |
| broker | `internal/broker` | subscribers, closed flag; Redis: two sockets and a supervisor | yes |
| rate limiter | `internal/ratelimit` | a token bucket per connection | no (planned) |
| engine client | `internal/engineclient` | the availability of the media engine | as choices of the relay |
| protocol, validate, auth, config, observability | `internal/...` | none that matters here | as choices |
| media engine (Rust) | `crates/sessions`, `routing`, `signaling`, `engine` | sessions, rooms and routes, slots, SSRC ownership, receive streams, one mutex | all but DTLS and media contents |
| billing webhooks (Python) | `app/billing`, `app/api/billing_routes.py` | subscription rows, receipts of events | the webhook's transaction |
| control plane (Rust), internal hub (Go) | `services/control-plane`, `services/signal-go` | | no (planned) |
| media plane (C++), ops tools | `services/media-plane`, `services/ops` | | no: data processing, command line |
| application (Python) | `app/` | database rows | no (planned: call state, transfers, metering, breaker, workflow) |

How the gateway's parts meet. `serveWS` upgrades a socket and calls `Serve`,
which registers with the hub, starts the writer and the heartbeat, and runs the
reader. The reader dispatches frames: hello (verify, `Hub.BindTenant`, pin,
`presence.Online`), subscribe and unsubscribe (mirror and hub), and signaling
frames, which the relay turns into ledger operations. An operation is atomic
under the manager's mutex and returns events; the relay emits them *after* the
mutex is released, looking each recipient up in the hub and filling its queue.
The reaper goroutine does the same with expired sessions. An ingest request
passes the replay guard, then the broker, then `Hub.Publish`. In Redis mode the
broker also sends the message over a bus to the other replicas and delivers
what they send. When `Serve` returns it tells the relay, then presence, then the
hub, then the gauge. The relay's engine hooks are HTTP calls that become the
control frames of the media engine; its clients then send it STUN checks and
RTP directly, and a sweep ends sessions that are overdue. The payment provider
posts events to the application until each is answered 2xx.

What makes this hard: locked sections that belong together but are separate
(bind and pin; join and steer; seen and publish; list and deliver), events
emitted in another order than the operations that caused them, queues that
refuse, recipients that vanish, a shutdown that races an upgrade, sockets that
fail while others wait on them, a rejoin whose old incarnation is still there, an
event delivered twice at once or again after a crash. `PROJECT.json`
lists each hazard at its line.

What makes each part correct:

- ledger: its indexes agree; a session seats one or two connections of one
  tenant; at most one offer is outstanding and the other side answers it; caps
  hold; the reaper takes only sessions nobody joined.
- relay: frames go to seats of the session and nobody else, offers and answers in
  turn; no session and no
  enrolment outlives its socket; nobody is told of an end that did not happen,
  and survivors are told of one that did; media paths are not mixed.
- edge: tenant slots, rooms, mirror and presence agree with the connections
  alive, whatever closed one; deliveries stay in their tenant.
- ingest: of the retries of one event one passes; a suppressed request really
  repeats an earlier one.
- Redis broker: a message reaches the handler of a node once; every open socket
  has an owner that closes it; a publish returns; the supervisor comes back to a
  live socket or exits.
- media engine: sessions, rooms, slots and SSRCs agree whatever rejoined, left or
  was swept; routes lead to published tracks; ghosts are freed.
- billing: an event is applied at most once, acknowledged only when recorded, and
  acknowledged in the end.

## 2. The modules

### Negotiation.tla (abstract) and SessionManager.tla

`Negotiation` is what the ledger promises: who sits where, whose offer is
outstanding, nothing revived. `SessionManager` is the ledger: `sess` holds every
`Session` object built, `byID`, `byTenant`, `byConn` are the registry's maps.
`Start` ... `Reap` are the manager's methods, each one action because one mutex
covers each. A method returns events or an error, so it has up to three
operators: `JoinResult` (the error), `Join` (the change), `JoinEvents` (what it
returns). Time since `createdAt` is counted in ticks and saturates at
`PendingTTL`, the only value it is compared with. `createdAt` is the only
timestamp modelled: `changedAt` and `endedAt` are written and never decided on.
Both session ids and connection ids are random UUIDs, so they are never reused.

### SignalRelay.tla

The relay over the ledger. `task[p]` is the goroutine of connection `p` (or the
reaper): the handler's next step, or the events still to emit. `EmitHook`,
`EngineJoin`, `EmitFrame`, `Expel` are the parts of `emitWithSteer` for one
event, in the order of the code: engine leave and steer clearing, the start's
gauge, the inline engine join, lookup with the end's gauge and the enqueue, and
the `End` a refused frame causes (whose events the code discards). A handler's
steps are separate where the code releases a lock or reads without one: `Join`,
then `NegotiateSteer`; `HandleP2P` (reads the steered map), then `Relay`;
`HandleEngineSignal` (the gates), then `EngineReply`. `life[c]` follows `Serve`'s
deferred calls. Queues are counts here: what a frame *says* matters when it is
enqueued (`told`), not afterwards. `told` and `refused` are history: what a
client was told of each session, and whose frame a full queue refused.

Abstractions: the engine's verdicts (up, admitted, reply) are free choices; one
reply carries one frame (several frames are several enqueues of the same kind);
a lookup and the enqueue that follows are one step (a frame enqueued to a
connection that has just left the hub is never read by anyone); SDP bodies and
candidates are not represented.

### RoomService.tla (abstract) and Edge.tla

`RoomService` is what the hub promises the people in a tenant's rooms: one table
of who is where, changed atomically. `home` is the tenant slot a connection holds,
`within` its rooms, `posting` a publisher's event and those still to be given it,
`mailbox` what a connection has still to be written. It has no index, counter or
lock, and no life of a connection. `Edge` implements it with `Home` (the tenant
of a registered connection, from the moment it is counted), `joined`, `fanout` and `queue` in their place:
the stages of `Serve`, the presence count, the mirror and the shutdown are
stutters of it, and the counters and the index the code keeps agree with its table.

Admission, the connection, the hub, presence and fan-out. `stage[c]` is the
program counter of the goroutine running `Serve`. The hub's mutex, the presence
registry's and the connection's own are three locks, so `Hello` (through
`BindTenant`), `Pin`, `Online`, `EmitPresence` and `Acknowledge` are five
actions. Queues are sequences of frames: `Own`, one of the connection's own
(a reply or an acknowledgement), or the (tenant, room) a delivery was published to. `Publish` lists the recipients, `Deliver` fills their
queues one at a time, in any order, as they are when it comes to them.

Simplifications and why they are sound: `BindTenant`'s rebinding branches are
behind `handleHello`'s own gate, so a pinned connection does not reach them; the
mirror and the hub are changed in one step by `Subscribe`, because the hub
cannot refuse a session its own reader is serving and nobody else writes either;
the writer stops at `returned`, when `Serve` has waited for it and closed the
socket; `Admit` requires a listener that is still open, while handlers already
running go on after `ShutDown`. The process's exit at the end of the grace
period is not modelled: it ends everything. Signaling frames are `SignalRelay`'s
concern and change none of this state.

### Ingest.tla

`serveIngest`, the replay guard and the memory broker. A request reads the clock
(`Receive`), then takes the store's lock (`SeenBefore`), then meets the broker
(`Publish`, `Deliver`), and time passes between the steps. `Slack` bounds the
pause between reading the clock and taking the lock; the code has no such bound,
so the property that depends on it says so. The zero `time.Time` of a new store
is `-TTL`: long past. Go ranges over a map in any order, so which old entries an
eviction takes is a choice (`sweep` is the set of possible outcomes); the loop
tests its target after evicting, so it evicts at least one (`Quota`). A restart,
and other replicas with stores of their own, are outside this module.

### NodeBus.tla (abstract) and RedisBroker.tla

`NodeBus` is what the broker promises the handler of its node: a message published
here is handed over in that call or never, one published elsewhere once at most and
later, nothing before the handler is registered. Its state is the `origin` of each
message, how often it was `given` to the handler, whether the handler is registered
and whether `Close` was called. `RedisBroker` implements it with `delivered` for
`given` and with the origin read off the message's call; sockets, rounds of the
supervisor, Redis and the echo of our own messages are stutters.

`RedisBroker` is one replica of the multi-replica broker. `stage` is the supervisor goroutine,
from `Top` through `DialPub`, `DialSub`, `ApplyTopics`, `AwaitConfirm`, `Install`
to the read loop and `EndRound`; `call[m]` is the `Publish` call of a message, or
`"elsewhere"` for a message another replica publishes; `subscribing` is the one
`Subscribe` call (the server's, at construction, for its one topic). Sockets are
`up`, `broken` (the network failed) or `none` (we closed them, or never dialled);
`inbox` is what the subscribing socket has yet to read, `inFlight` and `replies`
the commands and answers of the publishing one. A deadline is a choice
(`ReadTimesOut`) allowed whenever nothing has been answered; an answer that comes
after it is read by the next call, as in the code. Redis, the other replicas and
the network are the environment: they may process a command late, lose it with
its socket, or break either socket `MaxFaults` times.

Left out: the counters, `connected`, logs; AUTH and SELECT, which are one more way
for a dial to fail; a write that blocks (the code sets no write deadline). The
local handler table is one handler, and `Unsubscribe`, which nothing calls, is not
there.

### MediaEngine.tla

The registries of the media engine. One mutex covers the engine, so a control
frame, a datagram or a sweep is one action, but four tables change in it: the
session store (`record`, `age`, `seat`, by numeric id), the route table
(`members`, `published`, `subscribed`), the slots with their nominated `endpoint`
and `tracks`, and the reverse map `bySsrc` with the receive `streams`. `caller` is
the attribution of a frame: a session that has a slot, or the only slot if the
frame names none. A rejoin closes the first older record and touches nothing
else, so the old incarnation's slot goes on sending frames and media; `Leave`
removes the participant whatever incarnation it comes from; `Sweep` purges closed
records and ends the overdue ones through their slots. `Publish` and
`PublishUnregistered` are the two outcomes of a publish the room accepted: its SSRC
registered, or refused with the route left in place.

`record` is `"new"` or `"closed"`: no code calls `Session::advance` or `touch`. Ages
count ticks since `created_at` and saturate above both timeouts. Left out: SDP and
trickle, the DTLS association with the map `by_endpoint` that only its records
consult, key binding, packet contents, RTCP statistics, and the cache of
`legs_for`, which every change drops.

### EventInbox.tla (abstract) and BillingWebhooks.tla

`EventInbox` is what the endpoint promises the provider: each event gets its
`verdict` once, its changes (`effect`) are made in that step or never, only decided
events are acknowledged (`told`). `BillingWebhooks` implements it with the
committed receipts, the count of applications and the answers that arrived;
deliveries, claims, crashes and lost answers are stutters, and a duplicate is one too.

`BillingWebhooks` is one tenant's subscription row, the receipts, and `Workers` webhook requests at a
time, each one database transaction at read committed. A request is cut where
others can act: `Deliver`, `Claim` or `Duplicate` (the receipt and its unique
constraint: an insert waits for the transaction that inserted the same event),
`Ignore`, `Load` (the row is read), `Handle` (what the handler makes of its copy),
`Commit` (the columns it changed are written, whatever the row has become),
`Answer`. `Raise` is a handler that fails, before its changes or after; `Crash` loses
the transaction; `LoseAnswer` loses the 2xx. `_claim`'s comment says the receipt is
committed immediately; the code flushes it in a savepoint, so the model holds it
until the request commits. Left out: plans, prices, periods and invoices (what
they may raise is in `Raise`), the audit row written after a failed payment, and
the dashboard's own writes to the row.

## 3. What is checked

TLC, exhaustively, within the bounds given.

| Run | Instance | Shows |
|---|---|---|
| `SessionManager` | 3+1 connections of 2 tenants, 3 sessions, cap 2, TTL 1 | `IndexesAgree`, `SessionsSound` (seats and the glare guard), `TenantCap`, `ReapsOnlyLone`; the ledger implements `Negotiation` |
| `SignalRelay` | 2 connections of 1 tenant, 1 session, queue 1, engine on, wire 1 and 2, all messages | `AddressedInTurn` (frames go to the other member; an offer while none is outstanding, an answer to whoever offered), `SessionNeedsSockets`, `EngineSideSound` (enrolments need sockets, steering needs both members), `EndsReportedTruly` (only of ends that happened, on the gauge too, and no end forgotten) |
| `SignalRelayLive` | 2 connections, clients address a peer they were told of, no engine frames, fair scheduling | `NoMixing` for such clients, `RefusalEndsSession` where nothing is steered; `SurvivorHears`, `ClosedLeaves`, `LoneSessionResolved` |
| `EdgeAdmission` | 3 connections, 2 tenants, 2 rooms, caps: 2 global, 1 per tenant, 1 subscription | `CountsExact` (the tenants' slots and the gauge of connections), `PresenceFollowsSockets`, `RoomsAgree` |
| `EdgeRooms` | 2 connections of different tenants, the same room name, 1 publisher, fair scheduling | `DeliveriesStayHome`; `ClosedIsTornDown`; the edge implements `RoomService` |
| `Ingest` | 5 requests (2 of one event, 1 of the same id under another tenant, 1 of another, 1 without an id), capacity 1, TTL 4, clock to 5 | `VerdictsSpaced`, `DuplicateHasOriginal` |
| `RedisBroker` | 2 messages, 2 faults, fair goroutines | `SocketsOwned`; `PublishReturns`, `SupervisorSettles`; the broker implements `NodeBus` |
| `MediaEngine` | 3 people, 1 room for 2, 3 joins, 1 track, 2 SSRCs, 1 address, fair sweep | `MembersAlive`, `SubscriptionsReal`, `WireOwned`; `GhostsFreed` |
| `BillingWebhooks` | 4 events, 2 requests at a time, 2 faults, a provider that retries | `AppliedOnce`; `EventuallyAcked`; the webhooks implement `EventInbox` |

Each module has one type invariant besides. Every property is known to be
falsifiable: for each, `PROJECT.json` names a plausible bug (the definitions
marked *Mutant* in the modules) that makes its run fail.

Bounds. Two connections and one session give every role: initiator, responder,
the one that closes, the one that survives. The stranger, the full session, the
foreigner of a second tenant, further sessions and the leftovers of earlier ones are
in the ledger's instance and not in the relay's: that the relay addresses no frame to
any of them rests there on the verdicts the ledger run checks, and in general on the
theorem `FramesAddressedInTurn`. The two connections of `EdgeRooms` are of different
tenants, so nobody contends for a tenant's cap in it and a delivery has one recipient:
`EdgeAdmission` has the contention (`CountsExact`), and the theorem
`EdgeImplementsRooms` holds for any number of both. A store of capacity one is over
its capacity with a second entry, and a tenth of it is zero, the boundary the eviction
loop's order is about; a tenth above one (`Quota`) needs room for twenty and is covered by
the theorem `VerdictsAlwaysSpaced`, for any capacity. Queues of capacity one are full as soon as one frame is
unread, the case the drop policy is about. Caps of one or two are reached and
exceeded. `MessageTypes` leaves out messages a question does not need.
`MaxTime` ends the clock one tick past a TTL, so entries are young, past their
midpoint and expired. `PendingTTL` is small where the reaper matters; the
violation run of the relay sets it out of the way, to make its trace about
something else. Two messages on the bus are one to break a socket under and one to
queue behind it, or one of ours and one of a peer's; two faults allow a second
failure while the first is being repaired. Three people and two places make a
full room, a refused join and a rejoin while full; three joins allow two
incarnations of one person beside another; a session is overdue after one tick.
Two SSRCs are one to own and one to claim. Four events are bought, changed, failed
(attributable only once the row is linked) and of no interest; `FailedEventLost`
has the payment that succeeds and the end of the subscription instead. Two faults
are a crash and a lost answer, or a handler that raises twice. Symmetry is used only where no property or fairness
singles an element out, and in no run with a liveness property.

`CHECK_DEADLOCK FALSE` is set for `Edge`, `Ingest` and `RedisBroker`: connections,
requests and messages are finite and never reused, so a behaviour may come to
rest. The ledger, the relay, the engine and the webhooks can always take a step.

Fairness. Goroutines that can run are run (weak fairness of a handler's
continuation, of emissions, of teardown, of the writer). A closed connection's
reader returns because `initiateClose` puts the read deadline in the past; in
`Edge` a few buffered frames may be handled first, hence strong fairness. That
assumes a peer that answers pings but does not send pongs unasked, since a pong
moves the deadline again. No fairness is given to clients, the engine, or the
request to shut down. In `RedisBroker` the supervisor, the rest of a `Subscribe`
and of a `Close`, and each publish call go on, and read deadlines pass; Redis
owes no answer, and only the bound on faults makes a dial succeed in the end. In
`MediaEngine` time passes and the media loop sweeps every hundred rounds
(`bins/media-engine/src/main.rs:107`). In `BillingWebhooks` a request that runs goes
on, and the provider retries what was not answered 2xx; that retry is strongly
fair because `Workers` may be busy with other deliveries when it comes.

## 4. Where the code departs from what it says

One run each, checked to be violated; the trace is the explanation.

| Run | Said | Done |
|---|---|---|
| `EngineOutlives` | engine hooks are in linear order (`events.go:157`) | a leave can precede the join it undoes; the enrolment stays until the connection closes |
| `EstablishedKept` | the negotiation timeout is for sessions that "never reached Connected in time" (`crates/sessions/src/lib.rs:174`) | nothing ever advances or touches a session, so each is swept 10 s after its join, media flowing or not |
| `FailedEventLost` | a handler failure is a 500 "so Stripe *does* retry" (`app/api/billing_routes.py:502`) | the receipt is committed all the same, the retry is answered as a duplicate, the event is never processed |

The modules state eight more such promises, each as a formula the code's
behaviours violate. To see one fail, check it as an `INVARIANT` (or `PROPERTY`) under
the named configuration.

| Formula | Configuration | Said | Done |
|---|---|---|---|
| `NoMixing` | `SignalRelayLive` with `Polite = FALSE` | media paths are never mixed (`steer.go:5`) | an offer slips in between the join and the recording of the steered path |
| `BothStartClean` | `SignalRelay` | a drop lets both sides start clean (`events.go:103`) | the end's events are discarded, the peer is not told |
| `PresenceGaugeSettles` | `EdgeRooms`, two users of one tenant and `MaxPerTenant = 2` | the presence gauge is the registry's latest total (`metrics.go:93`) | two totals may be set in the wrong order, and the older stays until the next transition |
| `DuplicateWasFannedOut` | `Ingest` | `SeenBefore` reports what was fanned out (`store.go:45`) | it records what is about to be; a refused publish stays recorded |
| `SubscribedWhileUp` | `RedisBroker` | every connect round subscribes every recorded topic (`redis.go:154`) | a `Subscribe` between the copy of the topics and the hand-over finds no socket and is in neither; the pair stays up and deaf to the bus |
| `PublisherHeals` | `RedisBroker` | any failure tears everything down (`redis.go:258`) | only the subscribing socket's failure ends a round; a broken publishing socket fails every publish until then |
| `FencedOut` | `MediaEngine` | a rejoined participant's old incarnation is fenced out (`crates/sessions/src/lib.rs:160`), its SSRCs scrapped (`crates/engine/src/lib.rs:650`) | the old slot keeps its SSRCs, its address and its right to send frames until a Leave names it; that Leave then removes the new incarnation from the room |
| `NeverBackwards` | `BillingWebhooks` | `_apply_remote` refuses to go backwards (`app/billing/service.py:462`) | the row is read without a lock: two requests each find theirs the newer, and the older may be written last |

More were met while modelling, and the models exhibit them. The sessions gauge
"must move exactly once" per end (`events.go:44`), yet an end that nobody is left in
the hub to hear, or that a full queue caused, never moves it (`GaugeNeverUnder` is
what remains true). Steered frames do not share the relay's drop policy, as
`steer.go:134` says they do. The global connection cap is tested before the
upgrade and counted after it, so concurrent upgrades pass it together
(`server.go:157`). The hub forgets a session after presence does, the reverse of
`connection.go:126`. A connection that registers after `Hub.CloseAll` listed its
targets is not asked to close (`hub.go:267`). A publish refused for its SSRC stays
published in its room (`crates/engine/src/lib.rs:397`), subscribable and silent, and
its track name is used up. A teardown removes its address from `by_endpoint`
whoever owns the address by then (`crates/engine/src/lib.rs:671`; outside the model).

## 5. What is proved

TLAPS checks these for all values of the constants, under the named assumptions
of the modules only (`TenantOf` is a function into `Tenants`, caps and terms are
positive, `None` is nothing else). Four theorems have a hypothesis of their own,
written in their statement. `EdgeTypeCorrect` and `BusTypeCorrect` bound counts by
the number of connections and of messages, so these are finite. `MediaPathsNeverMix`
is about `Polite` clients, which address a peer only once they were told of it: of
others it is false, as section 4 says. `RefusalAlwaysEnds` is about a relay whose
clients send no frames for the engine (`"engine"` is not in `MessageTypes`): with
them it is false, because `steer.go` drops such a frame and does nothing else. Both
hypotheses are those of the run that checks the property.

`SessionManagerProofs.tla`: `TypeCorrect`, `IndexesAlwaysAgree`, `SessionsAlwaysSound`,
`TenantsWithinCap`, `OnlyLoneSessionsReaped`. None of the
invariants is inductive alone: caps are tested on `byTenant` but stated on
sessions, and a seat is free only because `byConn` says so. The inductive
invariant `IInv` is their conjunction with the types; `EndAllInv` does the work
for the four operations that end sessions. `OnlyLoneSessionsReaped` needs in
addition that a session which has not ended carries no reason.

`NegotiationProofs.tla`: `LedgerImplementsNegotiation`. Under `IInv`, each ledger
operation maps to the abstract action of the same meaning, or to a stutter; the
cap of the abstract specification, which counts sessions by their seats, equals
the code's count of the tenant index because seats are of one tenant.
The ledger's state keeps who offered and not who answered, so a step that let a
member answer its own offer would still map to the other side's answer. Who answers
shows only in the frame it causes, so the relay watches that guard: `AnswersMatchOffers`,
the second half of `AddressedInTurn`.

`IngestProofs.tla`: `IngestTypeCorrect`, `VerdictsAlwaysSpaced`,
`DuplicatesHaveOriginals`. The strengthening says that a verdict younger than half
a TTL is still in the store under its own key (an eviction takes nothing
younger), that every entry has the request that wrote it, and that a request
before the lock read the clock at most `Slack` ago. The interesting case is a
sweep by a goroutine whose reading is older than its neighbours'.

`MediaEngineProofs.tla`: `EngineTypeCorrect`, `NoGhosts`, `RoutesReal`, `SsrcsOwned`,
for any rooms, people, tracks, SSRCs, limits and number of joins. `IInv` is the
conjunction of the four properties with what ties them: a session that is not
closed has a slot, no two unclosed sessions share a seat, a slot without a track
under an SSRC owns none. The steps that need it are the rejoin (which closes the
one live incarnation there can be) and the sweep, which finds rooms by the slots
of the sessions it ends.

`BillingProofs.tla`: `Typed`, `OnceOnly`, `AnswersAreKept`, `WebhooksImplementInbox`,
for any events, any number of requests at a time and of faults. `AppliedOnce` says nothing of requests in
progress, so the strengthening adds that an open transaction is about an event without
a committed receipt, that no two are about the same one (the unique constraint), and
that changes are committed with the receipt. `Raise`, which commits both after a
failure, is the case that needs all three. `WebhooksImplementInbox` rests on the same
facts: the step that commits a receipt is the abstract decision because no receipt of
the event was there and nothing of it had been applied, and whatever a request answers
it answers about a committed receipt, so an answer is an `Acknowledge`. (`AnswersAreKept`
states the consequence `AckedIsRecorded`, which the refinement includes and no run
repeats.)

`EdgeProofs.tla`: `CountsAlwaysExact`, `RoomsAlwaysAgree`, `DeliveriesAlwaysHome`,
`PresenceAlwaysFollows`, `EdgeTypeCorrect`, `EdgeImplementsRooms`, for any connections, tenants, rooms and caps. The handlers
change several tables between releases of the hub's lock, so each table is exact only
relative to where the goroutine that changes it stands: the strengthening
(`Whereabouts`) says, for every stage of a connection's reader and of its close, what
it has done and what it still owes. A tenant is pinned once and never changes, which
is what keeps a stale list of recipients harmless. The gauge of connections is raised
and lowered outside the hub altogether; `GaugeInv` counts the connections whose stage
lies between the two, which are finitely many although connections need not be.
`EdgeImplementsRooms` maps a connection's home to the tenant whose slot it holds (from
`BindTenant` on, before `setIdentity` makes the tenant readable) and its memberships
to the session's record; then `Hello`, `Subscribe`, `Unsubscribe` and `Unregister` are
single steps of the abstract table, the rest of a handler is a stutter or a frame of
its own, and a list of recipients is the room's audience at the moment of `Publish`.
The abstract caps, stated on people and rooms, follow from those the code tests on
its counter and on the connection's mirror by the invariants above.

`RedisBrokerProofs.tla`: `HandlesOnce`, `SocketsAlwaysOwned`, `BusTypeCorrect`,
`BrokerImplementsBus`, for any messages and faults. `OncePerNode` needs that a message of
another replica is in one place at a time (in flight, once in the read buffer, or just
read) until it has been handed on;
`SocketsOwned` that a pair of sockets belongs to exactly one round, which closes it.
That answers on the publishing socket are never more than messages takes an argument of
its own (`Answers`): calls give up on answers that still come, but each command is
processed at most once, so the calls already given up or processed only grow in number
and bound the answers. `BrokerImplementsBus`: a `Publish` that starts is the abstract
publish with its hand-over, the supervisor's hand-over of a message it read is `Give`
because the message then is nowhere else and was not given before, our own messages are
recognised by their origin and dropped, and everything else leaves what the handler saw
alone. `OncePerNode`, the invariant `HandlesOnce` proves, follows from it and is not
checked by a run of its own.

`SignalRelayProofs.tla`: `RelayImplementsLedger`, `RelayImplementsNegotiation`,
`RelayTypeCorrect`, `FramesAddressedInTurn`, `SessionsNeedSockets`,
`EngineSideAlwaysSound`, `EndsAlwaysReportedTruly`, for any connections, sessions, queue
capacity, steering mode and replies of the engine. The relay calls the manager, lets
its lock go and emits event by event while other goroutines change the same sessions;
so `RInv` is the ledger's `IInv` with `TasksOK`, what a goroutine in the middle of an
operation may still rely on: the seats of the sessions its events are about (seats are
only added), that an ended session stays ended, and that a frame it relays has two
members. `ExpelIsADrop` shows that ending the session of a refused frame is, for the
ledger, a drop of its recipient, and with it every step of the relay is a step of the
ledger or a stutter. `FramesAddressedInTurn` reads the addresses off `TasksOK`; for the
turns, every step but the ledger's verdict on an offer or an answer puts no such frame
on any list that was not there (`RelaysNoSDP`), and `AnsweredIsOfferer` shows that the
peer of whoever may answer is the one who offered, for the two members hold the two
roles. A gauge that never under-reports is not inductive: `GaugeInv` says
that the gauge, plus the starts whose hook has still to run, is at least the live
sessions plus the ends whose first notice has still to go out (each such end is in one
goroutine's list only), which for a quiet relay is the property. That no end is
forgotten (`EndsOnTheirWay`, the safety half of `SurvivorHears`) is `EndsInv`: the
notices of an end enter the list of the goroutine that ended the session in the step that ends it
(`Heralded`), each step of a goroutine hands its list on or disposes of the first
notice for a reason that stays good, told, refused or gone (`HandsOn`, `ExcusedStays`),
and the one operation whose events are discarded, `Expel`, runs only after a refusal.
`MediaPathsNeverMix` needs to know of a session what path its media takes while no
variable says so: `PathInv` follows the decision from the goroutine that joined the
session, through the events it has still to emit, to the record of steered sessions,
and shows that a polite client cannot offer before that goroutine told it of its peer.
Only two steps decide a path, the join and the record; `JoinKeepsPath` and
`SteerKeepsPath` are their cases. `RefusalAlwaysEnds` needs that a refusal is written
only by the goroutine that will act on it, that nothing is done in between
(`OneOwnStep`), and that the session id is never given out again.

Only model-checked: the liveness properties (fairness and `ENABLED` are beyond the
prover).

## 6. Plan

Done: `Negotiation`, `SessionManager`, `SignalRelay`, `RoomService`, `Edge`, `Ingest`,
`NodeBus`, `RedisBroker`, `MediaEngine`, `EventInbox` and `BillingWebhooks`, with their
proofs. Next, in this order:

1. `Heartbeat`: read deadlines with time (auth, pong, the deadline in the past),
   token expiry and the silent peer; a closed connection's reader returns. Only a
   pong and a hello extend a deadline, although `reader.go:22` speaks of every
   frame. It refines `Edge`'s fairness.
2. The relay against the engine: `SignalRelay`'s free choices replaced by
   `MediaEngine`, so that the enrolment `EngineOutlives` leaves behind is followed to
   the sweep.
3. Metering and the closing of a billing period, with the dashboard's writes beside
   the webhooks.
4. `EngineMonitor`: availability transitions and what the relay reads of them;
   `RateLimiter`: the bucket's arithmetic against a reference definition.
5. Process exit: the grace period over `Edge`, what is cut off.
6. `signal-go`'s hub and idempotency store; then the application's other state
   machines (call state, transfers, breaker, campaigns).

Every invariant the runs check is proved. Proofs to come: what the liveness properties
rest on (that the measures they descend by do), and an abstract specification of the
replay guard that `Ingest` implements.

## 7. Not modelled

Token verification, frame decoding and shapes, rendering of metrics and logs:
pure functions whose outcomes are choices here. Deadlines, the rate limiter and
the engine monitor, until the plan reaches them. Media (RTP, SRTP, DTLS, audio),
which is data transformation, cryptography and I/O. The rest of the Python
application and the control plane, until the plan reaches them; most of the
former is request handlers around a database and third-party APIs. Older
snapshots, vendored toolchains and data files are no part of the program.
