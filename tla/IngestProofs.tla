------------------------------ MODULE IngestProofs ------------------------------
(***************************************************************************)
(* What the replay guard guarantees for any number of requests, tenants    *)
(* and events, any TTL, any capacity and any pause of a goroutine.         *)
(***************************************************************************)
EXTENDS Ingest, TLAPS

(* A request between its reading and the lock is not overtaken by more     *)
(* than Slack.                                                             *)
Timely == \A q \in Requests : step[q] = "timed" => clock - now[q] <= Slack

(* Every entry of the store was recorded by a request that was let through.*)
EntriesHaveAuthors ==
    \A k \in DOMAIN seen : \E p \in Passed : key(p) = k /\ now[p] = seen[k]

(* What the store still knows of a request that was let through: its entry *)
(* or a later one; or, if neither is left, that it is older than half a    *)
(* TTL.  Only a Slack within half a TTL makes the next reading later.      *)
StoreRemembers ==
    Slack <= TTL \div 2 =>
       \A p \in Passed :
          IF key(p) \in DOMAIN seen THEN now[p] <= seen[key(p)]
          ELSE clock - now[p] > TTL \div 2

IInv == /\ IngestTypeOK /\ Timely /\ EntriesHaveAuthors /\ StoreRemembers
        /\ VerdictsSpaced /\ DuplicateHasOriginal

(* Half a TTL is a natural number below the TTL.                           *)
LEMMA HalfTTL == TTL \div 2 \in Nat /\ TTL \div 2 < TTL
  BY IngestAssumption

(* Initially nothing was asked and nothing is stored.                      *)
LEMMA Initially == IngestInit => IInv
  <1> SUFFICES ASSUME IngestInit PROVE IInv
    OBVIOUS
  <1>1. Passed = {}
    BY DEF IngestInit, Passed
  <1>2. DOMAIN seen = {}
    BY DEF IngestInit
  <1>3. IngestTypeOK
    <2>1. clock \in 0 .. MaxTime /\ lastSweep \in -TTL .. clock
      BY IngestAssumption DEF IngestInit
    <2>2. step \in [Requests -> Steps] /\ now \in [Requests -> 0 .. clock]
      BY DEF IngestInit, Steps
    <2>3. closed \in BOOLEAN /\ delivered \subseteq Requests
      BY DEF IngestInit
    <2> QED
      BY <1>2, <2>1, <2>2, <2>3 DEF IngestTypeOK
  <1>4. Timely /\ EntriesHaveAuthors /\ StoreRemembers
    BY <1>1, <1>2 DEF IngestInit, Timely, EntriesHaveAuthors, StoreRemembers
  <1>5. VerdictsSpaced /\ DuplicateHasOriginal
    BY <1>1 DEF VerdictsSpaced, DuplicateHasOriginal, IngestInit
  <1> QED
    BY <1>3, <1>4, <1>5 DEF IInv

(* A sweep drops only entries at least half a TTL older than its reading.  *)
LEMMA SweptAreOld ==
  ASSUME IngestTypeOK, NEW n \in Nat, NEW kept \in sweep(n)
  PROVE  /\ kept \subseteq DOMAIN seen
         /\ \A k \in DOMAIN seen \ kept : n - seen[k] > TTL \div 2
  <1>1. kept \subseteq Unexpired(n) /\ Unexpired(n) \ kept \subseteq MidLife(n)
    BY DEF sweep
  <1>2. \A k \in DOMAIN seen : seen[k] \in Int
    BY DEF IngestTypeOK
  <1>3. ASSUME NEW k \in DOMAIN seen \ kept PROVE n - seen[k] > TTL \div 2
    <2>1. CASE k \in Unexpired(n)
      <3>1. seen[k] < n - (TTL \div 2)
        BY <1>1, <1>3, <2>1 DEF MidLife
      <3> QED
        BY <1>2, <1>3, <3>1, HalfTTL
    <2>2. CASE k \notin Unexpired(n)
      <3>1. ~(n - seen[k] < TTL)
        BY <1>3, <2>2 DEF Unexpired
      <3> QED
        BY <1>2, <1>3, <3>1, HalfTTL, IngestAssumption
    <2> QED
      BY <2>1, <2>2
  <1> QED
    BY <1>1, <1>3 DEF Unexpired

(* A key is a tenant and an event.                                         *)
LEMMA KeysAreKeys ==
  ASSUME NEW q \in Requests, EventId[q] # NoEvent PROVE key(q) \in Keys
  BY IngestAssumption DEF key, Keys

(* A step that moves no request past the guard and leaves the store alone. *)
LEMMA StoreUntouched ==
  ASSUME IInv, IngestTypeOK', Timely', UNCHANGED store, clock <= clock',
         Passed' = Passed, \A p \in Passed : now'[p] = now[p],
         \A q \in Requests : step'[q] = "duplicate" <=> step[q] = "duplicate",
         \A q \in Requests : step[q] = "duplicate" => now'[q] = now[q]
  PROVE  IInv'
  <1>1. EntriesHaveAuthors'
    BY DEF IInv, EntriesHaveAuthors, store, key
  <1>2. StoreRemembers'
    <2> SUFFICES ASSUME Slack <= TTL \div 2, NEW p \in Passed
                 PROVE  IF key(p) \in DOMAIN seen THEN now[p] <= seen[key(p)]
                        ELSE clock' - now[p] > TTL \div 2
      BY DEF StoreRemembers, store, key
    <2>1. IF key(p) \in DOMAIN seen THEN now[p] <= seen[key(p)]
          ELSE clock - now[p] > TTL \div 2
      BY DEF IInv, StoreRemembers
    <2>2. clock \in Int /\ clock' \in Int /\ now[p] \in Int
      BY DEF IInv, IngestTypeOK, Passed
    <2> QED
      BY <2>1, <2>2, HalfTTL
  <1>3. VerdictsSpaced'
    BY DEF IInv, VerdictsSpaced, key
  <1>4. DuplicateHasOriginal'
    <2> SUFFICES ASSUME NEW q \in Requests, step[q] = "duplicate"
                 PROVE  \E p \in Passed : /\ Tenant[p] = Tenant[q] /\ EventId[p] = EventId[q]
                                          /\ now'[q] - now'[p] < TTL
      BY DEF DuplicateHasOriginal
    <2>1. PICK p \in Passed : /\ Tenant[p] = Tenant[q] /\ EventId[p] = EventId[q]
                              /\ now[q] - now[p] < TTL
      BY DEF IInv, DuplicateHasOriginal
    <2> QED
      BY <2>1
  <1> QED
    BY <1>1, <1>2, <1>3, <1>4 DEF IInv

(* Time passes.                                                            *)
LEMMA TickKeeps == IInv /\ Tick => IInv'
  <1> SUFFICES ASSUME IInv, Tick PROVE IInv'
    OBVIOUS
  <1>1. clock \in Nat /\ clock' = clock + 1 /\ clock' \in 0 .. MaxTime
    BY IngestAssumption DEF IInv, IngestTypeOK, Tick
  <1>2. IngestTypeOK'
    <2>1. now' \in [Requests -> 0 .. clock'] /\ lastSweep' \in -TTL .. clock'
      BY <1>1, IngestAssumption DEF IInv, IngestTypeOK, Tick, store
    <2>2. DOMAIN seen' \subseteq Keys /\ \A k \in DOMAIN seen' : seen'[k] \in 0 .. clock'
      BY <1>1 DEF IInv, IngestTypeOK, Tick, store
    <2> QED
      BY <1>1, <2>1, <2>2 DEF IInv, IngestTypeOK, Tick
  <1>3. Timely'
    <2> SUFFICES ASSUME NEW q \in Requests, step[q] = "timed"
                 PROVE  clock' - now[q] <= Slack
      BY DEF Timely, Tick
    <2>1. clock - now[q] < Slack /\ now[q] \in Int
      BY DEF Tick, IInv, IngestTypeOK
    <2> QED
      BY <1>1, <2>1, IngestAssumption
  <1>4. Passed' = Passed /\ UNCHANGED store /\ UNCHANGED <<now, step>> /\ clock <= clock'
    BY <1>1 DEF Tick, Passed
  <1> QED
    BY <1>2, <1>3, <1>4, StoreUntouched

(* A request is refused, sent on undeduplicated, or timed.                 *)
LEMMA ReceiveKeeps == ASSUME NEW q \in Requests PROVE IInv /\ Receive(q) => IInv'
  <1> SUFFICES ASSUME IInv, Receive(q) PROVE IInv'
    OBVIOUS
  <1>1. clock \in Nat /\ UNCHANGED <<clock, store, closed, delivered>> /\ step[q] = "idle"
    BY DEF IInv, IngestTypeOK, Receive
  <1>2. PICK s \in {"refused", "passed", "timed"} :
           /\ step' = [step EXCEPT ![q] = s]
           /\ s = "passed" => EventId[q] = NoEvent
           /\ now' = IF s = "timed" THEN [now EXCEPT ![q] = clock] ELSE now
    BY DEF Receive, Goto
  <1>3. step' \in [Requests -> Steps] /\ now' \in [Requests -> 0 .. clock]
    BY <1>1, <1>2 DEF IInv, IngestTypeOK, Steps
  <1>4. IngestTypeOK'
    BY <1>1, <1>3 DEF IInv, IngestTypeOK, store
  <1>5. Timely'
    <2> SUFFICES ASSUME NEW r \in Requests, step'[r] = "timed"
                 PROVE  clock - now'[r] <= Slack
      BY <1>1 DEF Timely
    <2>1. CASE r = q
      <3>1. now'[r] = clock
        BY <1>2, <2>1 DEF IInv, IngestTypeOK
      <3> QED
        BY <1>1, <3>1, IngestAssumption
    <2>2. CASE r # q
      BY <1>2, <2>2 DEF IInv, Timely, IngestTypeOK
    <2> QED
      BY <2>1, <2>2
  <1>6. Passed' = Passed
    BY <1>1, <1>2 DEF IInv, IngestTypeOK, Passed
  <1>7. \A p \in Passed : now'[p] = now[p]
    BY <1>1, <1>2 DEF IInv, IngestTypeOK, Passed
  <1>8. \A r \in Requests : /\ step'[r] = "duplicate" <=> step[r] = "duplicate"
                            /\ step[r] = "duplicate" => now'[r] = now[r]
    BY <1>1, <1>2 DEF IInv, IngestTypeOK
  <1> QED
    BY <1>1, <1>4, <1>5, <1>6, <1>7, <1>8, StoreUntouched

(* The broker's steps move a request that was already let through.         *)
LEMMA BrokerKeeps ==
  ASSUME NEW q \in Requests PROVE IInv /\ (Publish(q) \/ Deliver(q)) => IInv'
  <1> SUFFICES ASSUME IInv, Publish(q) \/ Deliver(q) PROVE IInv'
    OBVIOUS
  <1>1. PICK s \in {"unavailable", "publishing", "accepted"} : step' = [step EXCEPT ![q] = s]
    BY DEF Publish, Deliver, Goto
  <1>2. /\ step[q] \in {"passed", "publishing"}
        /\ UNCHANGED <<clock, now, store, closed>> /\ delivered' \subseteq Requests
    BY DEF Publish, Deliver, IInv, IngestTypeOK
  <1>3. IngestTypeOK'
    <2>1. step' \in [Requests -> Steps]
      BY <1>1 DEF IInv, IngestTypeOK, Steps
    <2> QED
      BY <1>2, <2>1 DEF IInv, IngestTypeOK, store
  <1>4. Timely'
    BY <1>1, <1>2 DEF IInv, IngestTypeOK, Timely
  <1>5. Passed' = Passed
    BY <1>1, <1>2 DEF IInv, IngestTypeOK, Passed
  <1>6. \A r \in Requests : step'[r] = "duplicate" <=> step[r] = "duplicate"
    BY <1>1, <1>2 DEF IInv, IngestTypeOK
  <1>7. clock <= clock'
    BY <1>2 DEF IInv, IngestTypeOK
  <1> QED
    BY <1>2, <1>3, <1>4, <1>5, <1>6, <1>7, StoreUntouched

(* A suppressed request repeats the author of the entry it met.            *)
LEMMA SuppressKeeps ==
  ASSUME NEW q \in Requests, IInv, SeenBefore(q), Suppressed(key(q), now[q]),
         step' = [step EXCEPT ![q] = "duplicate"], UNCHANGED store
  PROVE  IInv'
  <1>1. step[q] = "timed" /\ UNCHANGED <<clock, now, closed, delivered>>
    BY DEF SeenBefore
  <1>2. IngestTypeOK'
    <2>1. step' \in [Requests -> Steps]
      BY DEF IInv, IngestTypeOK, Steps
    <2> QED
      BY <1>1, <2>1 DEF IInv, IngestTypeOK, store
  <1>3. Passed' = Passed
    BY <1>1 DEF IInv, IngestTypeOK, Passed
  <1>4. Timely'
    BY <1>1 DEF IInv, IngestTypeOK, Timely
  <1>5. EntriesHaveAuthors' /\ StoreRemembers' /\ VerdictsSpaced'
    BY <1>1, <1>3 DEF IInv, EntriesHaveAuthors, StoreRemembers, VerdictsSpaced, store, key
  <1>6. DuplicateHasOriginal'
    <2> SUFFICES ASSUME NEW r \in Requests, step'[r] = "duplicate"
                 PROVE  \E p \in Passed : /\ Tenant[p] = Tenant[r] /\ EventId[p] = EventId[r]
                                          /\ now[r] - now[p] < TTL
      BY <1>1, <1>3 DEF DuplicateHasOriginal
    <2>1. CASE r = q
      <3>1. key(q) \in DOMAIN seen /\ now[q] - seen[key(q)] < TTL
        BY DEF Suppressed
      <3>2. PICK p \in Passed : key(p) = key(q) /\ now[p] = seen[key(q)]
        BY <3>1 DEF IInv, EntriesHaveAuthors
      <3> QED
        BY <2>1, <3>1, <3>2 DEF key
    <2>2. CASE r # q
      <3>1. step[r] = "duplicate"
        BY <2>2 DEF IInv, IngestTypeOK
      <3> QED
        BY <3>1 DEF IInv, DuplicateHasOriginal
    <2> QED
      BY <2>1, <2>2
  <1> QED
    BY <1>2, <1>4, <1>5, <1>6 DEF IInv

(* A request that is let through comes half a TTL after the last one.      *)
LEMMA PassKeeps ==
  ASSUME NEW q \in Requests, IInv, SeenBefore(q), ~Suppressed(key(q), now[q]),
         EventId[q] # NoEvent, step' = [step EXCEPT ![q] = "passed"],
         NEW kept \in SUBSET DOMAIN seen,
         \A k \in DOMAIN seen \ kept : now[q] - seen[k] > TTL \div 2,
         seen' = [x \in kept \cup {key(q)} |-> IF x = key(q) THEN now[q] ELSE seen[x]],
         lastSweep' \in {lastSweep, now[q]}
  PROVE  IInv'
  <1> DEFINE k == key(q)
             n == now[q]
  <1>1. step[q] = "timed" /\ UNCHANGED <<clock, now, closed, delivered>>
    BY DEF SeenBefore
  <1>2. /\ clock \in Nat /\ n \in Nat /\ n <= clock /\ clock - n <= Slack
        /\ \A r \in Requests : now[r] \in Nat /\ now[r] <= clock
        /\ \A x \in DOMAIN seen : seen[x] \in Nat /\ seen[x] <= clock
    BY <1>1 DEF IInv, IngestTypeOK, Timely
  <1>3. k \in Keys
    BY KeysAreKeys
  <1>4. /\ DOMAIN seen' = kept \cup {k} /\ seen'[k] = n
        /\ \A x \in kept : x # k => seen'[x] = seen[x]
    OBVIOUS
  <1>5. Passed' = Passed \cup {q} /\ q \notin Passed
    BY <1>1 DEF IInv, IngestTypeOK, Passed
  <1>6. IngestTypeOK'
    <2>1. step' \in [Requests -> Steps]
      BY DEF IInv, IngestTypeOK, Steps
    <2>2. DOMAIN seen' \subseteq Keys
      BY <1>3, <1>4 DEF IInv, IngestTypeOK
    <2>3. \A x \in DOMAIN seen' : seen'[x] \in 0 .. clock
      BY <1>2, <1>4
    <2>4. lastSweep' \in -TTL .. clock
      BY <1>2, IngestAssumption DEF IInv, IngestTypeOK
    <2> QED
      BY <1>1, <2>1, <2>2, <2>3, <2>4 DEF IInv, IngestTypeOK
  <1>7. Timely'
    BY <1>1 DEF IInv, IngestTypeOK, Timely
  <1>8. EntriesHaveAuthors'
    <2> SUFFICES ASSUME NEW x \in DOMAIN seen'
                 PROVE  \E p \in Passed' : key(p) = x /\ now[p] = seen'[x]
      BY <1>1 DEF EntriesHaveAuthors, key
    <2>1. CASE x = k
      BY <1>4, <1>5, <2>1
    <2>2. CASE x # k
      <3>1. x \in DOMAIN seen /\ seen'[x] = seen[x]
        BY <1>4, <2>2
      <3> QED
        BY <1>5, <3>1 DEF IInv, EntriesHaveAuthors
    <2> QED
      BY <2>1, <2>2
  <1>9. Slack <= TTL \div 2 => \A p \in Passed : key(p) = k => n - now[p] > (TTL \div 2) - Slack
    <2> SUFFICES ASSUME Slack <= TTL \div 2, NEW p \in Passed, key(p) = k
                 PROVE  n - now[p] > (TTL \div 2) - Slack
      OBVIOUS
    <2>1. now[p] \in Nat
      BY <1>2 DEF Passed
    <2>2. CASE k \in DOMAIN seen
      <3>1. now[p] <= seen[k] /\ ~(n - seen[k] < TTL)
        BY <2>2 DEF IInv, StoreRemembers, Suppressed
      <3> QED
        BY <1>2, <2>1, <2>2, <3>1, HalfTTL, IngestAssumption
    <2>3. CASE k \notin DOMAIN seen
      <3>1. clock - now[p] > TTL \div 2
        BY <2>3 DEF IInv, StoreRemembers
      <3> QED
        BY <1>2, <2>1, <3>1, HalfTTL, IngestAssumption
    <2> QED
      BY <2>2, <2>3
  <1>10. StoreRemembers'
    <2> SUFFICES ASSUME Slack <= TTL \div 2, NEW p \in Passed'
                 PROVE  IF key(p) \in DOMAIN seen' THEN now[p] <= seen'[key(p)]
                        ELSE clock - now[p] > TTL \div 2
      BY <1>1 DEF StoreRemembers, key
    <2>0. now[p] \in Nat
      BY <1>2 DEF Passed
    <2>1. CASE p = q
      BY <1>2, <1>4, <2>1
    <2>2. CASE p # q /\ key(p) = k
      <3>1. n - now[p] > (TTL \div 2) - Slack
        BY <1>5, <1>9, <2>2
      <3> QED
        BY <1>2, <1>4, <2>0, <2>2, <3>1, HalfTTL, IngestAssumption
    <2>3. CASE p # q /\ key(p) # k
      <3>1. IF key(p) \in DOMAIN seen THEN now[p] <= seen[key(p)]
            ELSE clock - now[p] > TTL \div 2
        BY <1>5, <2>3 DEF IInv, StoreRemembers
      <3>2. CASE key(p) \in kept
        BY <1>4, <2>3, <3>1, <3>2
      <3>3. CASE key(p) \in DOMAIN seen \ kept
        <4>1. n - seen[key(p)] > TTL \div 2 /\ now[p] <= seen[key(p)]
          BY <3>1, <3>3
        <4>2. key(p) \notin DOMAIN seen' /\ seen[key(p)] \in Nat
          BY <1>2, <1>4, <2>3, <3>3
        <4> QED
          BY <1>2, <2>0, <4>1, <4>2, HalfTTL
      <3>4. CASE key(p) \notin DOMAIN seen
        BY <1>4, <2>3, <3>1, <3>4
      <3> QED
        BY <3>2, <3>3, <3>4
    <2> QED
      BY <2>1, <2>2, <2>3
  <1>11. VerdictsSpaced'
    <2> SUFFICES ASSUME NEW p \in Passed', NEW r \in Passed', p # r, key(p) = key(r)
                 PROVE  \/ now[p] - now[r] > (TTL \div 2) - Slack
                        \/ now[r] - now[p] > (TTL \div 2) - Slack
      BY <1>1 DEF VerdictsSpaced, key
    <2>0. now[p] \in Nat /\ now[r] \in Nat
      BY <1>2 DEF Passed
    <2>1. CASE Slack > TTL \div 2
      BY <2>0, <2>1, HalfTTL, IngestAssumption
    <2>2. CASE Slack <= TTL \div 2
      <3>1. CASE p = q
        BY <1>5, <1>9, <2>2, <3>1
      <3>2. CASE r = q
        BY <1>5, <1>9, <2>2, <3>2
      <3>3. CASE p # q /\ r # q
        BY <1>5, <3>3 DEF IInv, VerdictsSpaced
      <3> QED
        BY <3>1, <3>2, <3>3
    <2> QED
      BY <2>1, <2>2, HalfTTL, IngestAssumption
  <1>12. DuplicateHasOriginal'
    <2> SUFFICES ASSUME NEW r \in Requests, step'[r] = "duplicate"
                 PROVE  \E p \in Passed' : /\ Tenant[p] = Tenant[r] /\ EventId[p] = EventId[r]
                                           /\ now[r] - now[p] < TTL
      BY <1>1 DEF DuplicateHasOriginal
    <2>1. step[r] = "duplicate"
      BY <1>1 DEF IInv, IngestTypeOK
    <2> QED
      BY <1>5, <2>1 DEF IInv, DuplicateHasOriginal
  <1> QED
    BY <1>6, <1>7, <1>8, <1>10, <1>11, <1>12 DEF IInv

(* Only requests with an event id are ever timed.                          *)
TimedHaveEvents == \A q \in Requests : step[q] = "timed" => EventId[q] # NoEvent

LEMMA TimedInit == IngestInit => TimedHaveEvents
  BY DEF IngestInit, TimedHaveEvents

LEMMA TimedNext == IInv /\ TimedHaveEvents /\ [IngestNext]_ivars => TimedHaveEvents'
  BY DEF IInv, IngestTypeOK, TimedHaveEvents, IngestNext, ivars, Tick, Receive, SeenBefore,
         Publish, Deliver, Close, Goto

(* SeenBefore, both ways.                                                  *)
LEMMA SeenBeforeKeeps ==
  ASSUME NEW q \in Requests PROVE IInv /\ TimedHaveEvents /\ SeenBefore(q) => IInv'
  <1> SUFFICES ASSUME IInv, TimedHaveEvents, SeenBefore(q) PROVE IInv'
    OBVIOUS
  <1>1. EventId[q] # NoEvent /\ now[q] \in Nat /\ IngestTypeOK
    BY DEF SeenBefore, TimedHaveEvents, IInv, IngestTypeOK
  <1>2. CASE Suppressed(key(q), now[q])
    <2>1. step' = [step EXCEPT ![q] = "duplicate"] /\ UNCHANGED store
      BY <1>2 DEF SeenBefore, Goto
    <2> QED
      BY <1>2, <2>1, SuppressKeeps
  <1>3. CASE ~Suppressed(key(q), now[q]) /\ SweepDue(now[q])
    <2>1. PICK kept \in sweep(now[q]) :
             seen' = [x \in kept \cup {key(q)} |-> IF x = key(q) THEN now[q] ELSE seen[x]]
      BY <1>3 DEF SeenBefore
    <2>2. step' = [step EXCEPT ![q] = "passed"] /\ lastSweep' = now[q]
      BY <1>3 DEF SeenBefore, Goto
    <2>3. kept \subseteq DOMAIN seen /\ \A k \in DOMAIN seen \ kept : now[q] - seen[k] > TTL \div 2
      BY <1>1, SweptAreOld
    <2> QED
      BY <1>1, <1>3, <2>1, <2>2, <2>3, PassKeeps
  <1>4. CASE ~Suppressed(key(q), now[q]) /\ ~SweepDue(now[q])
    <2>1. /\ seen' = [x \in DOMAIN seen \cup {key(q)} |-> IF x = key(q) THEN now[q] ELSE seen[x]]
          /\ step' = [step EXCEPT ![q] = "passed"] /\ lastSweep' = lastSweep
      BY <1>4 DEF SeenBefore, Goto
    <2> QED
      BY <1>1, <1>4, <2>1, PassKeeps
  <1> QED
    BY <1>2, <1>3, <1>4

(* The inductive invariant holds in every reachable state.                 *)
THEOREM IngestInvariance == IngestSpec => [](IInv /\ TimedHaveEvents)
  <1>1. IngestInit => IInv /\ TimedHaveEvents
    BY Initially, TimedInit
  <1>2. IInv /\ TimedHaveEvents /\ [IngestNext]_ivars => IInv' /\ TimedHaveEvents'
    <2> SUFFICES ASSUME IInv, TimedHaveEvents, [IngestNext]_ivars PROVE IInv'
      BY TimedNext
    <2>1. CASE Tick
      BY <2>1, TickKeeps
    <2>2. ASSUME NEW q \in Requests, Receive(q) PROVE IInv'
      BY <2>2, ReceiveKeeps
    <2>3. ASSUME NEW q \in Requests, SeenBefore(q) PROVE IInv'
      BY <2>3, SeenBeforeKeeps
    <2>4. ASSUME NEW q \in Requests, Publish(q) \/ Deliver(q) PROVE IInv'
      BY <2>4, BrokerKeeps
    <2>5. CASE Close \/ UNCHANGED ivars
      <3>1. UNCHANGED <<clock, step, now, store, delivered>> /\ closed' \in BOOLEAN
        BY <2>5 DEF Close, ivars, IInv, IngestTypeOK
      <3>2. IngestTypeOK' /\ Timely' /\ Passed' = Passed /\ clock <= clock'
        BY <3>1 DEF IInv, IngestTypeOK, Timely, Passed, store
      <3> QED
        BY <3>1, <3>2, StoreUntouched
    <2> QED
      BY <2>1, <2>2, <2>3, <2>4, <2>5 DEF IngestNext
  <1> QED
    BY <1>1, <1>2, PTL DEF IngestSpec

(* Type correctness of the ingest path.                                    *)
THEOREM IngestTypeCorrect == IngestSpec => []IngestTypeOK
  BY IngestInvariance, PTL DEF IInv

(* Whatever the load, two publications of one event are let through more   *)
(* than half a TTL apart, less the pause a goroutine may make.             *)
THEOREM VerdictsAlwaysSpaced == IngestSpec => []VerdictsSpaced
  BY IngestInvariance, PTL DEF IInv

(* No request is ever answered as a duplicate of nothing.                  *)
THEOREM DuplicatesHaveOriginals == IngestSpec => []DuplicateHasOriginal
  BY IngestInvariance, PTL DEF IInv
=============================================================================
