----------------------------- MODULE SignalRelay ------------------------------
(***************************************************************************)
(* The signaling relay of the gateway (gateway-go/internal/signaling) over *)
(* the session ledger: one reader goroutine per connection, the reaper     *)
(* goroutine, bounded outgoing queues, and the two maps the router keeps   *)
(* beside the ledger (engine enrolments, steered sessions).                *)
(*                                                                         *)
(* A ledger operation is atomic (the manager's mutex); the emission of the *)
(* events it returns runs after the mutex is released, event by event, so  *)
(* operations and emissions of different goroutines interleave here as     *)
(* they do in the code.                                                    *)
(***************************************************************************)
EXTENDS SessionManager, Integers

CONSTANTS
    Reaper,        \* the goroutine of StartReaper
    QueueCap,      \* capacity of a connection's outgoing queue
    EngineOn,      \* a media-engine client is attached
    SteerMode,     \* "off", "v1.2" or "force"
    WireVersions,  \* the wire versions clients declare at hello
    MessageTypes,  \* the client messages this instance sends
    Polite         \* clients address the peer only once told it is there

ASSUME RelayAssumption ==
    /\ Reaper \notin Conns
    /\ QueueCap \in Nat \ {0}
    /\ EngineOn \in BOOLEAN /\ Polite \in BOOLEAN
    /\ SteerMode \in {"off", "v1.2", "force"} /\ WireVersions \subseteq Nat

VARIABLES
    life,      \* where each connection's Serve is
    capable,   \* the connections that declared wire 1.2 at hello
    writing,   \* whether its writer goroutine still drains the queue
    backlog,   \* frames in its outgoing queue
    task,      \* what each goroutine is in the middle of
    enrolled,  \* Router.engineSessions: (connection, session) pairs
    steered,   \* Router.steerSessions
    gauge,     \* the signal-sessions gauge
    told,      \* what each client has been told of each session
    refused    \* history: (connection, session) whose frame a queue refused

plane == <<life, capable, writing, backlog, task, enrolled, steered, gauge, told, refused>>
vars == <<ledger, plane>>

Procs == Conns \cup {Reaper}

P2P == {"offer", "answer", "candidate"}

Idle == [step |-> "idle", todo |-> <<>>, kind |-> None, sid |-> None,
         cleared |-> {}, closed |-> {}]

(* A goroutine about to emit the events of one ledger operation.           *)
Emitting(events) ==
    IF events = <<>> THEN Idle ELSE [Idle EXCEPT !.step = "hook", !.todo = events]

Busy(step, kind, i) == [Idle EXCEPT !.step = step, !.kind = kind, !.sid = i]

RelayInit ==
    /\ Init
    /\ life = [c \in Conns |-> "new"]
    /\ capable = {}
    /\ writing = [c \in Conns |-> FALSE]
    /\ backlog = [c \in Conns |-> 0]
    /\ task = [p \in Procs |-> Idle]
    /\ enrolled = {}
    /\ steered = {}
    /\ gauge = 0
    /\ told = [c \in Conns |-> [i \in SessionIds |-> "nothing"]]
    /\ refused = {}

-----------------------------------------------------------------------------
(* Queues and the hub's lookup.                                            *)

Registered(c) == life[c] \in {"open", "leaving", "dropped"}

Full(c) == backlog[c] >= QueueCap

(* Mutant: the queue is not bounded.                                       *)
Enqueue_Unbounded(c) == backlog' = [backlog EXCEPT ![c] = @ + 1]

(* A non-blocking enqueue under DropNewest.                                *)
Enqueue(c) == backlog' = [backlog EXCEPT ![c] = IF Full(c) THEN @ ELSE @ + 1]

(* A refusal frame to the sender; on a full queue it is simply lost.       *)
Refuse(c) ==
    /\ Enqueue(c)
    /\ task' = [task EXCEPT ![c] = Idle]
    /\ UNCHANGED <<ledger, life, capable, writing, enrolled, steered, gauge, told, refused>>

(* The writer goroutine puts one frame on the wire.                        *)
Write(c) ==
    /\ writing[c] /\ backlog[c] > 0
    /\ backlog' = [backlog EXCEPT ![c] = @ - 1]
    /\ UNCHANGED <<ledger, life, capable, writing, task, enrolled, steered, gauge, told, refused>>

-----------------------------------------------------------------------------
(* The life of a connection.                                               *)

(* Registered with the hub, authenticated, its wire version pinned.        *)
Connect(c) ==
    /\ life[c] = "new"
    /\ life' = [life EXCEPT ![c] = "open"]
    /\ \E v \in WireVersions :
          capable' = IF v >= 2 THEN capable \cup {c} ELSE capable
    /\ writing' = [writing EXCEPT ![c] = TRUE]
    /\ UNCHANGED <<ledger, backlog, task, enrolled, steered, gauge, told, refused>>

(* initiateClose by a failed write, the heartbeat or the shutdown, and the *)
(* writer's exit; the reader may still be handling a frame.                *)
WriterExits(c) ==
    /\ life[c] = "open" /\ writing[c]
    /\ writing' = [writing EXCEPT ![c] = FALSE]
    /\ UNCHANGED <<ledger, life, capable, backlog, task, enrolled, steered, gauge, told, refused>>

(* The reader returns between two frames; Serve waits for the writer.      *)
ReaderReturns(c) ==
    /\ life[c] = "open" /\ task[c] = Idle
    /\ life' = [life EXCEPT ![c] = "leaving"]
    /\ writing' = [writing EXCEPT ![c] = FALSE]
    /\ UNCHANGED <<ledger, capable, backlog, task, enrolled, steered, gauge, told, refused>>

(* Mutant: only the session the connection still sits in is left.          *)
EngineLeaveAll_Seated(c) ==
    /\ life[c] = "leaving" /\ task[c] = Idle
    /\ enrolled' = enrolled \ {<<c, byConn[c]>>}
    /\ task' = [task EXCEPT ![c] = Busy("drop", None, None)]
    /\ UNCHANGED <<ledger, life, capable, writing, backlog, steered, gauge, told, refused>>

(* ConnClosed: first every engine session of the connection is left ...    *)
EngineLeaveAll(c) ==
    /\ life[c] = "leaving" /\ task[c] = Idle
    /\ enrolled' = {e \in enrolled : e[1] # c}
    /\ task' = [task EXCEPT ![c] = Busy("drop", None, None)]
    /\ UNCHANGED <<ledger, life, capable, writing, backlog, steered, gauge, told, refused>>

(* Mutant: the ledger is not told.                                         *)
Drop_Forgets(c) ==
    /\ task[c].step = "drop"
    /\ task' = [task EXCEPT ![c] = Idle]
    /\ life' = [life EXCEPT ![c] = "dropped"]
    /\ UNCHANGED <<ledger, capable, writing, backlog, enrolled, steered, gauge, told, refused>>

(* ... then the ledger drops the connection and its events are emitted.    *)
Drop(c) ==
    /\ task[c].step = "drop"
    /\ ConnDropped(c)
    /\ task' = [task EXCEPT ![c] = Emitting(ConnDroppedEvents(c))]
    /\ life' = [life EXCEPT ![c] = "dropped"]
    /\ UNCHANGED <<capable, writing, backlog, enrolled, steered, gauge, told, refused>>

(* Last, the connection leaves the hub.                                    *)
Unregister(c) ==
    /\ life[c] = "dropped" /\ task[c] = Idle
    /\ life' = [life EXCEPT ![c] = "gone"]
    /\ UNCHANGED <<ledger, capable, writing, backlog, task, enrolled, steered, gauge, told, refused>>

-----------------------------------------------------------------------------
(* Handlers, each run by the sender's reader goroutine.                    *)

Ready(c, type) == life[c] = "open" /\ task[c] = Idle /\ type \in MessageTypes

(* A polite client names the peer only after it was told of it.            *)
MayAddress(c, i) == Polite => told[c][i] = "paired"

(* The handler's next step, nothing else having changed.                   *)
Begin(c, step, kind, i) ==
    /\ task' = [task EXCEPT ![c] = Busy(step, kind, i)]
    /\ UNCHANGED <<ledger, life, capable, writing, backlog, enrolled, steered, gauge, told, refused>>

HandleStart(c) ==
    /\ Ready(c, "start")
    /\ IF StartResult(c) = "ok"
       THEN \E i \in SessionIds :
              /\ Start(c, i)
              /\ task' = [task EXCEPT ![c] = Emitting(StartEvents(c, i))]
              /\ UNCHANGED <<life, capable, writing, backlog, enrolled, steered, gauge, told, refused>>
       ELSE Refuse(c)

HandleJoin(c, i) ==
    /\ Ready(c, "join")
    /\ IF JoinResult(c, i) = "ok"
       THEN /\ Join(c, i)
            /\ task' = [task EXCEPT ![c] =
                          [Busy("negotiate", None, i) EXCEPT !.todo = JoinEvents(c, i)]]
            /\ UNCHANGED <<life, capable, writing, backlog, enrolled, steered, gauge, told, refused>>
       ELSE Refuse(c)

(* steerCapable asks the hub: a connection that left it is not capable.    *)
Capable(c) == Registered(c) /\ c \in capable

(* After the ledger's lock is released: decide the session's media path    *)
(* and record it, before the acks go out.                                  *)
NegotiateSteer(c) ==
    /\ task[c].step = "negotiate"
    /\ LET i == task[c].sid
           both == Capable(c) /\ Capable(task[c].todo[2].to)
       IN \E up \in BOOLEAN :          \* the availability monitor's last word
            /\ up => EngineOn
            /\ steered' = IF /\ up /\ SteerMode # "off"
                             /\ SteerMode = "force" \/ both
                          THEN steered \cup {i} ELSE steered
    /\ task' = [task EXCEPT ![c] = Emitting(@.todo)]
    /\ UNCHANGED <<ledger, life, capable, writing, backlog, enrolled, gauge, told, refused>>

HandleEnd(c, i) ==
    /\ Ready(c, "end")
    /\ IF EndResult(c, i) = "ok"
       THEN /\ End(c, i, "member_ended")
            /\ task' = [task EXCEPT ![c] = Emitting(endEvents(i))]
            /\ UNCHANGED <<life, capable, writing, backlog, enrolled, steered, gauge, told, refused>>
       ELSE Refuse(c)

(* Mutant: the media path is not read.                                     *)
HandleP2P_Unread(c, kind, i) ==
    /\ Ready(c, kind) /\ kind \in P2P /\ MayAddress(c, i)
    /\ Begin(c, "relay", kind, i)

(* handleOffer, handleAnswer and handleCandidate first read the media path *)
(* (IsSteered, no lock) and check the payload's envelope, refusing a       *)
(* steered session or a malformed body ...                                 *)
HandleP2P(c, kind, i) ==
    /\ Ready(c, kind) /\ kind \in P2P /\ MayAddress(c, i)
    /\ \/ i \notin steered /\ Begin(c, "relay", kind, i)
       \/ Refuse(c)

(* ... and then run the ledger operation.                                  *)
Relay(c) ==
    LET i == task[c].sid
        After(events) ==
            /\ task' = [task EXCEPT ![c] = Emitting(events)]
            /\ UNCHANGED <<life, capable, writing, backlog, enrolled, steered, gauge, told, refused>>
    IN /\ task[c].step = "relay"
       /\ \/ /\ task[c].kind = "offer"
             /\ IF OfferResult(c, i) = "ok"
                THEN Offer(c, i) /\ After(OfferEvents(c, i)) ELSE Refuse(c)
          \/ /\ task[c].kind = "answer"
             /\ IF AnswerResult(c, i) = "ok"
                THEN Answer(c, i) /\ After(AnswerEvents(c, i)) ELSE Refuse(c)
          \/ /\ task[c].kind = "candidate"
             /\ IF CandidateResult(c, i) = "ok"
                THEN UNCHANGED ledger /\ After(CandidateEvents(c, i)) ELSE Refuse(c)

(* An engine.* frame is gated on the mode, the seat, the enrolment and the *)
(* body ...                                                                *)
HandleEngineSignal(c, i) ==
    /\ Ready(c, "engine") /\ MayAddress(c, i)
    /\ \/ /\ i \in steered /\ EngineOn /\ byConn[c] = i /\ <<c, i>> \in enrolled
          /\ Begin(c, "engine", None, i)
       \/ Refuse(c)

(* One steered frame for d: a full queue drops it and nothing else.        *)
Dispatch(d, i) ==
    /\ Enqueue(d)
    /\ refused' = IF Full(d) THEN refused \cup {<<d, i>>} ELSE refused
    /\ UNCHANGED <<ledger, life, capable, writing, task, enrolled, steered, gauge, told>>

(* ... then the engine is called without any lock.  Its reply is a list of *)
(* frames: answers for the caller, tracks announced to the peer, errors;   *)
(* or the call fails.                                                      *)
EngineReply(c) ==
    LET i == task[c].sid
        hasPeer == i \in byID /\ sess[i].tenant = TenantOf[c] /\ Seats(i) # {c}
    IN /\ task[c].step = "engine"
       /\ \/ Dispatch(c, i)
          \/ hasPeer /\ Registered(peerOf(i, c)) /\ Dispatch(peerOf(i, c), i)
          \/ Refuse(c)
          \/ /\ task' = [task EXCEPT ![c] = Idle]
             /\ UNCHANGED <<ledger, life, capable, writing, backlog, enrolled, steered, gauge, told, refused>>

-----------------------------------------------------------------------------
(* The reaper goroutine.                                                   *)

HandleReap ==
    /\ task[Reaper] = Idle /\ Expired # {}
    /\ Reap
    /\ \E order \in [1 .. Cardinality(Expired) -> Expired] :
          /\ \A i \in Expired : \E k \in DOMAIN order : order[k] = i
          /\ task' = [task EXCEPT ![Reaper] = Emitting(
                        [k \in DOMAIN order |-> Event("ended", sess[order[k]].members[1], order[k])])]
    /\ UNCHANGED <<life, capable, writing, backlog, enrolled, steered, gauge, told, refused>>

-----------------------------------------------------------------------------
(* emitWithSteer, run by whichever goroutine performed the operation.      *)

(* The hooks of one event.  An end leaves the engine and clears the        *)
(* session's steering whether or not the recipient is still registered; a  *)
(* start counts (its recipient is the emitting connection itself, so the   *)
(* lookup before it succeeds).                                             *)
EmitHook(p) ==
    LET e == Head(task[p].todo) IN
    /\ task[p].step = "hook"
    /\ task' = [task EXCEPT ![p].step = IF EngineOn /\ e.kind \in {"started", "joined"}
                                        THEN "enrol" ELSE "deliver",
                            ![p].cleared = IF e.kind = "ended" THEN @ \cup {e.sid} ELSE @]
    /\ IF e.kind = "ended"
       THEN /\ enrolled' = enrolled \ {<<e.to, e.sid>>}
            /\ steered' = IF e.sid \in task[p].cleared THEN steered ELSE steered \ {e.sid}
       ELSE UNCHANGED <<enrolled, steered>>
    /\ gauge' = IF e.kind = "started" THEN gauge + 1 ELSE gauge
    /\ UNCHANGED <<ledger, life, capable, writing, backlog, told, refused>>

(* engineJoinHook: the call is inline; a failed one enrols nobody.         *)
EngineJoin(p) ==
    LET e == Head(task[p].todo) IN
    /\ task[p].step = "enrol"
    /\ enrolled' \in {enrolled, enrolled \cup {<<e.to, e.sid>>}}
    /\ task' = [task EXCEPT ![p].step = "deliver"]
    /\ UNCHANGED <<ledger, life, capable, writing, backlog, steered, gauge, told, refused>>

(* What a frame of this kind makes its client believe; "revived" is a      *)
(* session acknowledged to a client after its end.                         *)
Told(belief, kind) ==
    IF kind = "ended" THEN "over"
    ELSE IF kind \in P2P THEN belief
    ELSE IF belief \in {"over", "revived"} THEN "revived"
    ELSE IF kind = "started" THEN "alone" ELSE "paired"

(* The goroutine after the event it is at.                                 *)
Popped(p, closed) ==
    LET next == Tail(task[p].todo) IN
    IF next = <<>> THEN Idle
    ELSE [task[p] EXCEPT !.step = "hook", !.todo = next, !.closed = closed]

(* The first notice of an end in this emission moves the gauge.            *)
Closing(p, e) == e.kind = "ended" /\ e.sid \notin task[p].closed

(* Mutant: the emission waits for a recipient that is gone.                *)
SkipFrame_Waits(p) == UNCHANGED task

(* The recipient left the hub.                                             *)
SkipFrame(p) == task' = [task EXCEPT ![p] = Popped(p, task[p].closed)]

(* Lookup, gauge of an end, and enqueue.                                   *)
SendFrame(p, e) ==
    LET closed == IF Closing(p, e) THEN task[p].closed \cup {e.sid} ELSE task[p].closed IN
    \/ /\ Registered(e.to)
       /\ gauge' = IF Closing(p, e) THEN gauge - 1 ELSE gauge
       /\ Enqueue(e.to)
       /\ IF Full(e.to)
          THEN /\ task' = [task EXCEPT ![p].step = "expel", ![p].closed = closed]
               /\ refused' = refused \cup {<<e.to, e.sid>>}
               /\ UNCHANGED told
          ELSE /\ task' = [task EXCEPT ![p] = Popped(p, closed)]
               /\ told' = [told EXCEPT ![e.to][e.sid] = Told(@, e.kind)]
               /\ UNCHANGED refused
    \/ /\ ~Registered(e.to)
       /\ SkipFrame(p)
       /\ UNCHANGED <<backlog, gauge, told, refused>>

EmitFrame(p) ==
    /\ task[p].step = "deliver"
    /\ SendFrame(p, Head(task[p].todo))
    /\ UNCHANGED <<ledger, life, capable, writing, enrolled, steered>>

(* Mutant: only a relayed frame's loss ends the session.                   *)
Expels_Relayed(e) == e.kind \in P2P /\ EndResult(e.to, e.sid) = "ok"

Expels(e) == EndResult(e.to, e.sid) = "ok"

(* A refused frame ends its session; the events of that end are discarded. *)
Expel(p) ==
    LET e == Head(task[p].todo) IN
    /\ task[p].step = "expel"
    /\ IF Expels(e) THEN End(e.to, e.sid, "peer_disconnected") ELSE UNCHANGED ledger
    /\ task' = [task EXCEPT ![p] = Popped(p, task[p].closed)]
    /\ UNCHANGED <<life, capable, writing, backlog, enrolled, steered, gauge, told, refused>>

-----------------------------------------------------------------------------
RelayTick == Tick /\ UNCHANGED plane

Teardown(c) == EngineLeaveAll(c) \/ Drop(c) \/ Unregister(c)

Emit(p) == EmitHook(p) \/ EngineJoin(p) \/ EmitFrame(p) \/ Expel(p)

(* Steps a goroutine takes once a handler has begun.                       *)
Continue(c) == NegotiateSteer(c) \/ Relay(c) \/ EngineReply(c)

Handle(c) ==
    \/ HandleStart(c)
    \/ \E i \in SessionIds :
          \/ HandleJoin(c, i)
          \/ HandleEnd(c, i)
          \/ \E kind \in P2P : HandleP2P(c, kind, i)
          \/ HandleEngineSignal(c, i)

RelayNext ==
    \/ \E c \in Conns :
          \/ Connect(c)
          \/ Write(c)
          \/ WriterExits(c)
          \/ ReaderReturns(c)
          \/ Handle(c)
          \/ Continue(c)
          \/ Teardown(c)
    \/ \E p \in Procs : Emit(p)
    \/ HandleReap
    \/ RelayTick

RelaySpec == RelayInit /\ [][RelayNext]_vars

(* Goroutines are scheduled: a handler, an emission, a teardown and the    *)
(* writer run on; a closed connection's reader returns (its read deadline  *)
(* is in the past).  Nothing obliges a client to send anything.            *)
Fairness ==
    /\ \A c \in Conns : /\ WF_vars(Write(c))
                        /\ WF_vars(Continue(c))
                        /\ WF_vars(Teardown(c))
                        /\ WF_vars(~writing[c] /\ ReaderReturns(c))
    /\ \A p \in Procs : WF_vars(Emit(p))
    /\ WF_vars(HandleReap)
    /\ WF_vars(RelayTick)

FairRelaySpec == RelaySpec /\ Fairness

-----------------------------------------------------------------------------
(* Properties.                                                             *)

Kinds == {"started", "joined", "peer_joined", "ended"} \cup P2P

Beliefs == {"nothing", "alone", "paired", "over", "revived"}

Events == [kind : Kinds, to : Conns, sid : SessionIds]

(* The relay's variables keep their shape.                                 *)
RelayTypeOK ==
    /\ TypeOK
    /\ life \in [Conns -> {"new", "open", "leaving", "dropped", "gone"}]
    /\ capable \subseteq Conns
    /\ writing \in [Conns -> BOOLEAN]
    /\ backlog \in [Conns -> 0 .. QueueCap]
    /\ task \in [Procs ->
         [step : {"idle", "negotiate", "relay", "engine", "drop", "hook", "enrol", "deliver",
                  "expel"},
          todo : Seq(Events), kind : P2P \cup {None}, sid : SessionIds \cup {None},
          cleared : SUBSET SessionIds, closed : SUBSET SessionIds]]
    /\ enrolled \subseteq Conns \X SessionIds
    /\ steered \subseteq SessionIds
    /\ gauge \in Int
    /\ told \in [Conns -> [SessionIds -> Beliefs]]
    /\ refused \subseteq Conns \X SessionIds

(* "The receiver, if any, is the session's OTHER member and nobody else"   *)
(* (router.go HandleMessage): every frame still to be emitted is addressed *)
(* to a seat of its session, a relayed one to a seat that is not the       *)
(* sender's, whatever happened to the session since the decision.          *)
AddressedToSeats ==
    \A p \in Procs : \A k \in DOMAIN task[p].todo :
        LET e == task[p].todo[k] IN
        /\ e.to \in Seats(e.sid) /\ TenantOf[e.to] = sess[e.sid].tenant
        /\ e.kind \in P2P => p \in Seats(e.sid) \ {e.to}

Emits(p, kind, d, i) ==
    \E k \in DOMAIN task[p].todo : task[p].todo[k] = Event(kind, d, i)

(* What p may newly relay of session i to d: an offer while none was       *)
(* outstanding, and it is p's then; an answer to the offer d had made.     *)
InTurn(p, i, d) ==
    /\ Emits(p, "offer", d, i)' /\ ~Emits(p, "offer", d, i) =>
          sess[i].state # "offering" /\ sess'[i].offerBy = RoleOf(i, p)
    /\ Emits(p, "answer", d, i)' /\ ~Emits(p, "answer", d, i) =>
          sess[i].state = "offering" /\ sess[i].offerBy = RoleOf(i, d)

(* "One outstanding offer at a time, full stop", and an answer only "from  *)
(* the member who did not make it" (manager.go), as the clients see it: no *)
(* step relays an answer but to the member whose offer is outstanding, nor *)
(* an offer beside another.                                                *)
AnswersMatchOffers == [][\A p \in Procs, i \in SessionIds, d \in Conns : InTurn(p, i, d)]_vars

(* What the relay sends goes to whom it concerns, and in turn.             *)
AddressedInTurn == []AddressedToSeats /\ AnswersMatchOffers

(* "A session can never outlive the sockets it binds" (router.go           *)
(* ConnClosed): once a connection has told the ledger it is gone, no live  *)
(* session seats it, although other goroutines may still be emitting.      *)
SessionNeedsSockets ==
    \A i \in byID : \A c \in Seats(i) : life[c] \in {"open", "leaving"}

(* The safety net of ConnClosed: an engine enrolment never survives its    *)
(* connection, in whatever order ends and joins were emitted.              *)
EnrolmentNeedsSocket ==
    \A e \in enrolled : life[e[1]] \in {"open", "leaving"}

HeardEnd(c, i) == told[c][i] \in {"over", "revived"}

(* A client is told that a session ended only when it has: no late or      *)
(* misrouted notice makes it abandon a live session.                       *)
EndedMeansEnded ==
    \A c \in Conns, i \in SessionIds : HeardEnd(c, i) => i \notin byID

(* A steered session has an engine behind it and, unless forced, two       *)
(* members that both declared wire 1.2 (router.go negotiateSteer).         *)
SteerNeedsBoth ==
    \A i \in steered :
        /\ EngineOn /\ SteerMode # "off" /\ memberCount(i) = 2
        /\ SteerMode = "force" \/ Seats(i) \subseteq capable

(* The gauge never under-reports: a two-member end counts once and an end  *)
(* nobody is left to hear is not counted at all (events.go emit).          *)
GaugeNeverUnder ==
    (\A p \in Procs : task[p] = Idle) => gauge >= Cardinality(byID)

(* What the relay keeps on the engine's side outlives neither a socket nor *)
(* the consent of both members.                                            *)
EngineSideSound == EnrolmentNeedsSocket /\ SteerNeedsBoth

(* No end is forgotten: who sat in a session that is over, and has not     *)
(* dropped it, has heard, or a goroutine has still the notice to emit, or  *)
(* a full queue refused a frame of the session.                            *)
EndsOnTheirWay ==
    \A c \in Conns, i \in SessionIds :
        sess[i].state = "ended" /\ c \in Seats(i) /\ life[c] \in {"open", "leaving"} =>
            \/ HeardEnd(c, i) \/ \E d \in Conns : <<d, i>> \in refused
            \/ \E p \in Procs : \E k \in DOMAIN task[p].todo :
                  task[p].todo[k] = Event("ended", c, i)

(* What the relay reports of ends, to the members and on the gauge, is so, *)
(* and whoever survives an end is told of it or about to be.               *)
EndsReportedTruly == EndedMeansEnded /\ GaugeNeverUnder /\ EndsOnTheirWay

(* Dropping a negotiation frame ends its session (events.go emit): a       *)
(* session whose frame was refused by a full queue is over, or about to be *)
(* ended by the goroutine that met the full queue.                         *)
RefusalEndsSession ==
    \A r \in refused :
        r[2] \in byID =>
            \E p \in Procs : task[p].step = "expel" /\ Head(task[p].todo).sid = r[2]

(* Mixing media paths in one session is forbidden (steer.go): no SDP       *)
(* exchange runs through the relay in a session steered to the engine.     *)
NoMixing == \A i \in steered \cap byID : sess[i].state = "pending"

Settled(c) == life[c] = "open" /\ writing[c]

(* Unless one of its frames was refused by a full queue, every connection  *)
(* that stays up is told the end of a session it sat in.                   *)
SurvivorHears ==
    \A c \in Conns, i \in SessionIds :
        sess[i].state = "ended" /\ c \in Seats(i) /\ Settled(c)
            ~> \/ HeardEnd(c, i) \/ ~Settled(c)
               \/ \E d \in Conns : <<d, i>> \in refused

(* A closed connection is torn down completely: it leaves the hub even     *)
(* when its last events are addressed to full or vanished queues.          *)
ClosedLeaves == \A c \in Conns : life[c] = "leaving" ~> life[c] = "gone"

(* A session nobody joins does not wait for ever.                          *)
LoneSessionResolved ==
    \A i \in SessionIds : i \in byID /\ memberCount(i) = 1 ~> i \notin byID \/ memberCount(i) = 2

-----------------------------------------------------------------------------
(* What the source says of the relay and the relay does not do.            *)

Quiet == \A p \in Procs : task[p] = Idle

(* events.go: every end "produces a leave for THAT member's engine         *)
(* session", for the hooks' ordering is linear: with nothing in flight and *)
(* no frame ever refused, whoever is enrolled sits in a live session.      *)
EngineFollowsSession == Quiet /\ refused = {} => \A e \in enrolled : e[2] \in byID

(* events.go: a drop ends the session "so both sides start clean instead   *)
(* of half-connected": the member whose queue refused nothing hears it.    *)
BothStartClean ==
    Quiet => \A c \in Conns, i \in SessionIds :
        sess[i].state = "ended" /\ c \in Seats(i) /\ Settled(c) /\ <<c, i>> \notin refused
            => HeardEnd(c, i)
=============================================================================
