--------------------------------- MODULE Ingest ---------------------------------
(***************************************************************************)
(* POST /ingest/v1/publish: the replay guard (idempotency) and the fan-out *)
(* transport (the memory broker) a request goes through, many requests at  *)
(* once, with the shutdown that closes the broker under them.              *)
(*                                                                         *)
(* A request reads the clock, then takes the store's lock, then meets the  *)
(* broker: three steps of its goroutine, and time passes between them.     *)
(***************************************************************************)
EXTENDS Integers, FiniteSets

CONSTANTS
    Requests,      \* HTTP requests; a retry is another request
    Tenants, Events,
    Tenant,        \* the tenant a request names
    EventId,       \* the event it names, NoEvent if it opted out of dedupe
    NoEvent,
    TTL,           \* how long an entry suppresses
    Capacity,      \* entries the store tolerates before it sweeps
    Slack,         \* longest pause between reading the clock and the lock
    MaxTime        \* bound: the last clock reading explored

ASSUME IngestAssumption ==
    /\ Tenant \in [Requests -> Tenants]
    /\ EventId \in [Requests -> Events \cup {NoEvent}] /\ NoEvent \notin Events
    /\ TTL \in Nat \ {0} /\ Capacity \in Nat \ {0}
    /\ Slack \in Nat /\ MaxTime \in Nat

VARIABLES
    clock,      \* the process's monotonic clock
    step,       \* where each request's goroutine is
    now,        \* the clock reading a request took
    seen,       \* Store.seen: the keys recorded, each with its reading
    lastSweep,  \* Store.lastSweep
    closed,     \* the broker's flag
    delivered   \* requests whose frame was handed to the hub

store == <<seen, lastSweep>>
ivars == <<clock, step, now, store, closed, delivered>>

IngestInit ==
    /\ clock = 0
    /\ step = [q \in Requests |-> "idle"]
    /\ now = [q \in Requests |-> 0]
    /\ seen = [k \in {} |-> 0]
    /\ lastSweep = -TTL                  \* the zero time: long past
    /\ closed = FALSE
    /\ delivered = {}

Goto(q, s) == step' = [step EXCEPT ![q] = s]

-----------------------------------------------------------------------------
(* Time passes; no request between its reading and the lock is overtaken   *)
(* by more than Slack.                                                     *)
Tick ==
    /\ clock < MaxTime
    /\ \A q \in Requests : step[q] = "timed" => clock - now[q] < Slack
    /\ clock' = clock + 1
    /\ UNCHANGED <<step, now, store, closed, delivered>>

(* Authentication, size, shape: a refused request ends here, a request     *)
(* with no event id goes straight to the broker, the others are timed.     *)
Receive(q) ==
    /\ step[q] = "idle"
    /\ \/ Goto(q, "refused") /\ UNCHANGED now
       \/ EventId[q] = NoEvent /\ Goto(q, "passed") /\ UNCHANGED now
       \/ /\ EventId[q] # NoEvent
          /\ Goto(q, "timed")
          /\ now' = [now EXCEPT ![q] = clock]
    /\ UNCHANGED <<clock, store, closed, delivered>>

-----------------------------------------------------------------------------
(* The replay guard.                                                       *)

Keys == Tenants \X Events

(* Mutant: the entry is filed under the event id as it came.               *)
key_Bare(q) == EventId[q]

(* Mutant: replay scope is not per tenant.                                 *)
key_EventOnly(q) == <<CHOOSE t \in Tenants : TRUE, EventId[q]>>

key(q) == <<Tenant[q], EventId[q]>>

Unexpired(n) == {k \in DOMAIN seen : n - seen[k] < TTL}

(* Entries past the midpoint of their life, the ones pressure may evict.   *)
MidLife(n) == {k \in Unexpired(n) : seen[k] < n - (TTL \div 2)}

(* The loop tests its target after the eviction, so it evicts one at least.*)
Quota == IF Capacity < 20 THEN 1 ELSE Capacity \div 10

(* Mutant: anything may go under pressure.                                 *)
sweep_AnyAge(n) ==
    IF Cardinality(Unexpired(n)) < Capacity THEN {Unexpired(n)}
    ELSE {Unexpired(n) \ gone : gone \in {g \in SUBSET Unexpired(n) : Cardinality(g) = Quota}}

(* sweep: what it may leave, a Go map being ranged over in any order.      *)
sweep(n) ==
    IF Cardinality(Unexpired(n)) < Capacity
    THEN {Unexpired(n)}
    ELSE {Unexpired(n) \ gone :
             gone \in {g \in SUBSET MidLife(n) :
                          \/ Cardinality(g) = Quota
                          \/ g = MidLife(n) /\ Cardinality(g) < Quota}}

SweepDue(n) == Cardinality(DOMAIN seen) >= Capacity \/ n - lastSweep >= TTL

(* The key was recorded less than a TTL ago.                               *)
Suppressed(k, n) == k \in DOMAIN seen /\ n - seen[k] < TTL

(* SeenBefore: check and record are one locked section.                    *)
SeenBefore(q) ==
    LET k == key(q)
        n == now[q]
        Record(kept) == seen' = [x \in kept \cup {k} |-> IF x = k THEN n ELSE seen[x]]
    IN /\ step[q] = "timed"
       /\ \/ /\ Suppressed(k, n)
             /\ Goto(q, "duplicate")
             /\ UNCHANGED store
          \/ /\ ~Suppressed(k, n)
             /\ Goto(q, "passed")
             /\ \/ /\ SweepDue(n)
                   /\ \E kept \in sweep(n) : Record(kept)
                   /\ lastSweep' = n
                \/ /\ ~SweepDue(n)
                   /\ Record(DOMAIN seen)
                   /\ UNCHANGED lastSweep
       /\ UNCHANGED <<clock, now, closed, delivered>>

-----------------------------------------------------------------------------
(* The broker.                                                             *)

(* MemoryBroker.Publish: a closed broker refuses, and the handler answers  *)
(* 503; the entry SeenBefore recorded stays ...                            *)
Publish(q) ==
    /\ step[q] = "passed"
    /\ Goto(q, IF closed THEN "unavailable" ELSE "publishing")
    /\ UNCHANGED <<clock, now, store, closed, delivered>>

(* ... an open one hands the frame to handleIngestEnvelope, and so to the  *)
(* hub, before it returns.                                                 *)
Deliver(q) ==
    /\ step[q] = "publishing"
    /\ delivered' = delivered \cup {q}
    /\ Goto(q, "accepted")
    /\ UNCHANGED <<clock, now, store, closed>>

(* Server.CloseAll, at shutdown; requests in flight complete.              *)
Close ==
    /\ ~closed
    /\ closed' = TRUE
    /\ UNCHANGED <<clock, step, now, store, delivered>>

-----------------------------------------------------------------------------
IngestNext ==
    \/ Tick
    \/ \E q \in Requests : Receive(q) \/ SeenBefore(q) \/ Publish(q) \/ Deliver(q)
    \/ Close

IngestSpec == IngestInit /\ [][IngestNext]_ivars

-----------------------------------------------------------------------------
(* Properties.                                                             *)

(* The requests the guard let through.                                     *)
Passed == {q \in Requests : EventId[q] # NoEvent
                            /\ step[q] \in {"passed", "publishing", "accepted", "unavailable"}}

Steps == {"idle", "refused", "timed", "passed", "duplicate",
          "publishing", "accepted", "unavailable"}

(* What each variable may hold.                                            *)
IngestTypeOK ==
    /\ clock \in 0 .. MaxTime
    /\ step \in [Requests -> Steps]
    /\ now \in [Requests -> 0 .. clock]
    /\ DOMAIN seen \subseteq Keys
    /\ \A k \in DOMAIN seen : seen[k] \in 0 .. clock
    /\ lastSweep \in -TTL .. clock
    /\ closed \in BOOLEAN
    /\ delivered \subseteq Requests

(* Two requests let through for one event are more than half a TTL apart,  *)
(* less the pause a goroutine may make before the lock: eviction under     *)
(* pressure never reaches a young entry, and no race lets two through.     *)
VerdictsSpaced ==
    \A p, q \in Passed :
       p # q /\ key(p) = key(q) =>
          \/ now[p] - now[q] > (TTL \div 2) - Slack
          \/ now[q] - now[p] > (TTL \div 2) - Slack

(* A request answered as a duplicate repeats, within a TTL, one of the     *)
(* same tenant and event that was let through.                             *)
DuplicateHasOriginal ==
    \A q \in Requests :
       step[q] = "duplicate" =>
          \E p \in Passed : /\ Tenant[p] = Tenant[q] /\ EventId[p] = EventId[q]
                            /\ now[q] - now[p] < TTL

(* store.go: SeenBefore "reports whether this (tenant, event) was already  *)
(* fanned out".  It reports that the event was once about to be.           *)
DuplicateWasFannedOut ==
    \A q \in Requests :
       step[q] = "duplicate" =>
          \E p \in delivered : Tenant[p] = Tenant[q] /\ EventId[p] = EventId[q]
=============================================================================
