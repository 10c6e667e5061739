-------------------------- MODULE SignalRelayProofs ---------------------------
(***************************************************************************)
(* The relay over the ledger, for any connections, sessions, queues and    *)
(* steering mode: every step of the relay is a step of the ledger or       *)
(* leaves it alone, and what the goroutines hold between a ledger          *)
(* operation and the frames it causes stays true while others interfere.   *)
(***************************************************************************)
EXTENDS SignalRelay, NegotiationProofs

Steps == {"idle", "negotiate", "relay", "engine", "drop", "hook", "enrol", "deliver", "expel"}

(* An event p has yet to emit.                                             *)
EventOK(p, e) ==
    /\ e.to \in Seats(e.sid) /\ TenantOf[e.to] = sess[e.sid].tenant
    /\ e.kind \in P2P => p \in Seats(e.sid) \ {e.to}
    /\ e.kind \in {"started", "joined"} => p = e.to /\ life[p] = "open"
    /\ e.kind = "started" => p = sess[e.sid].members[1]
    /\ e.kind = "ended" => sess[e.sid].state = "ended"

(* What a goroutine in the middle of something may rely on.                *)
TaskOK(p) ==
    LET t == task[p] IN
    /\ \A k \in DOMAIN t.todo : /\ EventOK(p, t.todo[k])
                                /\ t.todo[k].kind = "started" => k = 1
    /\ t.step \in {"negotiate", "hook", "enrol", "deliver", "expel"} => t.todo # <<>>
    /\ t.step \in {"negotiate", "relay", "engine", "drop"} => p \in Conns
    /\ t.step \in {"negotiate", "relay", "engine"} => life[p] = "open" /\ t.sid \in SessionIds
    /\ t.step = "relay" => t.kind \in P2P
    /\ t.step = "drop" => life[p] = "leaving" /\ \A e \in enrolled : e[1] # p
    /\ t.step = "negotiate" =>
          /\ Len(t.todo) = 2 /\ memberCount(t.sid) = 2 /\ Seats(t.sid) = {p, t.todo[2].to}
          /\ \A k \in DOMAIN t.todo : t.todo[k].kind # "ended"
    /\ t.step = "enrol" => t.todo[1].kind \in {"started", "joined"}

TasksOK == \A p \in Procs : TaskOK(p)

LedgerInv == IInv /\ IsFiniteSet(byID)

HeardRight == \A c \in Conns, i \in SessionIds : HeardEnd(c, i) => sess[i].state = "ended"

RInv == /\ LedgerInv
        /\ RelayTypeOK
        /\ TasksOK
        /\ SessionNeedsSockets
        /\ EngineSideSound
        /\ HeardRight

USE NoneAssumption, TenantOfAssumption, LimitsAssumption, RelayAssumption

-----------------------------------------------------------------------------
(* What a ledger operation may do to a session that has seats.             *)
Grows(i) ==
    /\ sess[i].state = "ended" => sess'[i].state = "ended"
    /\ sess[i].members # <<>> =>
        /\ sess'[i].tenant = sess[i].tenant
        /\ \/ sess'[i].members = sess[i].members
           \/ Len(sess[i].members) = 1 /\ \E c \in Conns : sess'[i].members = Append(sess[i].members, c)

LedgerGrows == \A i \in SessionIds : Grows(i)

(* What every operation but Start and Join does: nobody is seated.         *)
Still ==
    /\ byID' \subseteq byID
    /\ \A i \in SessionIds :
          /\ sess'[i].members = sess[i].members /\ sess'[i].tenant = sess[i].tenant
          /\ sess[i].state = "ended" => sess'[i].state = "ended"

LEMMA StillGrows == Still => LedgerGrows
BY DEF Still, LedgerGrows, Grows

LEMMA EndAllStill ==
    ASSUME IInv, NEW D \in SUBSET byID, NEW r \in Reasons, endAll(D, r)
    PROVE  Still /\ \A i \in D : sess'[i].state = "ended" /\ i \notin byID'
<1>1. ASSUME NEW i \in SessionIds
      PROVE  /\ sess'[i].members = sess[i].members /\ sess'[i].tenant = sess[i].tenant
             /\ i \in D \/ sess[i].state = "ended" => sess'[i].state = "ended"
  <2>1. sess[i] \in Session
    BY DEF IInv, TypeOK
  <2>2. CASE i \in D
    <3>1. sess'[i] = Sealed(sess[i], r)
      BY <2>2 DEF endAll, Sealed
    <3> QED BY <2>1, <2>2, <3>1, SealedSession
  <2>3. CASE i \notin D
    BY <2>3 DEF endAll
  <2> QED BY <2>2, <2>3
<1>2. D \subseteq SessionIds
  BY DEF IInv, TypeOK
<1> QED BY <1>1, <1>2 DEF Still, endAll

LEMMA EndStill ==
    ASSUME IInv, NEW c \in Conns, NEW i \in SessionIds, NEW r \in Reasons, End(c, i, r)
    PROVE  Still /\ i \in byID /\ c \in Seats(i) /\ sess'[i].state = "ended" /\ i \notin byID'
<1>1. {i} \in SUBSET byID /\ c \in Seats(i) /\ endAll({i}, r)
  BY DEF End, EndResult, lookupMember
<1> QED BY <1>1, EndAllStill

LEMMA NegotiateStill ==
    ASSUME IInv, NEW c \in Conns, NEW i \in SessionIds, Offer(c, i) \/ Answer(c, i)
    PROVE  Still
<1>0. sess \in [SessionIds -> Session] /\ byID \subseteq SessionIds
  BY DEF IInv, TypeOK
<1>1. i \in byID /\ sess[i].state # "ended"
  BY RegisteredNotEnded DEF Offer, Answer, OfferResult, AnswerResult, lookupMember
<1>2. ASSUME NEW j \in SessionIds
      PROVE  /\ sess'[j].members = sess[j].members /\ sess'[j].tenant = sess[j].tenant
             /\ j # i => sess'[j] = sess[j]
  <2>1. CASE Offer(c, i)
    BY <1>0, <2>1 DEF Offer, Session
  <2>2. CASE Answer(c, i)
    BY <1>0, <2>2 DEF Answer, Session
  <2> QED BY <2>1, <2>2
<1>3. byID' = byID
  BY DEF Offer, Answer
<1> QED BY <1>1, <1>2, <1>3 DEF Still

LEMMA ConnDroppedStill ==
    ASSUME IInv, NEW c \in Conns, ConnDropped(c)
    PROVE  /\ Still
           /\ byConn[c] \in byID => sess'[byConn[c]].state = "ended" /\ byConn[c] \notin byID'
<1>1. CASE byConn[c] \in byID
  <2>1. /\ {byConn[c]} \in SUBSET byID /\ "peer_disconnected" \in Reasons
        /\ endAll({byConn[c]}, "peer_disconnected")
    BY <1>1 DEF ConnDropped, Reasons
  <2> QED BY <2>1, EndAllStill
<1>2. CASE byConn[c] \notin byID
  BY <1>2 DEF ConnDropped, Still
<1> QED BY <1>1, <1>2

LEMMA ReapStill ==
    ASSUME IInv, Reap
    PROVE  Still /\ \A i \in Expired : sess'[i].state = "ended" /\ i \notin byID'
<1>1. Expired \in SUBSET byID /\ "join_timeout" \in Reasons /\ endAll(Expired, "join_timeout")
  BY DEF Reap, Expired, Reasons
<1> QED BY <1>1, EndAllStill

LEMMA TickStill == ASSUME IInv, Tick PROVE Still
<1>1. sess \in [SessionIds -> Session]
  BY DEF IInv, TypeOK
<1>2. ASSUME NEW j \in SessionIds
      PROVE  /\ sess'[j].members = sess[j].members /\ sess'[j].tenant = sess[j].tenant
             /\ sess'[j].state = sess[j].state
  BY <1>1 DEF Tick, Session
<1> QED BY <1>2 DEF Tick, Still

LEMMA StartGrows ==
    ASSUME IInv, NEW c \in Conns, NEW i \in SessionIds, Start(c, i)
    PROVE  /\ LedgerGrows /\ byID' = byID \cup {i} /\ i \notin byID
           /\ sess'[i] = NewSession(c) /\ sess[i] = Unborn
           /\ \A j \in SessionIds : j # i => sess'[j] = sess[j]
<1>1. sess[i] = Unborn /\ sess \in [SessionIds -> Session]
  BY DEF Start, IInv, UnbornClean, TypeOK
<1>2. ASSUME NEW j \in SessionIds PROVE Grows(j)
  BY <1>1 DEF Start, Grows, Unborn
<1>3. i \notin byID
  BY <1>1 DEF IInv, IndexesAgree, RegistryExact, Live, Unborn
<1> QED BY <1>1, <1>2, <1>3 DEF Start, LedgerGrows

LEMMA JoinGrows ==
    ASSUME IInv, NEW c \in Conns, NEW i \in SessionIds, Join(c, i)
    PROVE  /\ LedgerGrows /\ byID' = byID /\ i \in byID
           /\ Len(sess[i].members) = 1 /\ sess[i].members[1] # c
           /\ TenantOf[c] = sess[i].tenant /\ sess'[i].tenant = sess[i].tenant
           /\ sess'[i].members = Append(sess[i].members, c)
           /\ \A j \in SessionIds : j # i => sess'[j] = sess[j]
<1>0. sess \in [SessionIds -> Session]
  BY DEF IInv, TypeOK
<1>1. Len(sess[i].members) = 1 /\ i \in byID /\ TenantOf[c] = sess[i].tenant /\ byConn[c] = None
  BY DEF Join, JoinResult, memberCount, IInv, SeatsOK
<1>2. sess[i].members[1] # c
  <2>1. sess[i].members[1] \in Seats(i)
    BY <1>0, <1>1 DEF Seats, Session
  <2>2. c \notin Seats(i)
    BY <1>1 DEF IInv, IndexesAgree, SeatIndexExact
  <2> QED BY <2>1, <2>2
<1>3. /\ sess'[i].tenant = sess[i].tenant /\ sess'[i].state = sess[i].state
      /\ sess'[i].members = Append(sess[i].members, c)
  BY <1>0 DEF Join, Session
<1>4. ASSUME NEW j \in SessionIds PROVE Grows(j) /\ (j # i => sess'[j] = sess[j])
  BY <1>0, <1>1, <1>3 DEF Join, Grows
<1> QED BY <1>1, <1>2, <1>3, <1>4 DEF Join, LedgerGrows

(* Seats are only added, to sessions that have one; an id is registered by *)
(* Start alone.                                                            *)
LEMMA LedgerStepGrows ==
    ASSUME IInv, [Next]_ledger
    PROVE  LedgerGrows /\ \E x : byID' \subseteq byID \cup {x}
<1>1. ASSUME NEW c \in Conns, NEW i \in SessionIds, Start(c, i)
      PROVE  LedgerGrows /\ byID' \subseteq byID \cup {i}
  BY <1>1, StartGrows
<1>2. ASSUME NEW c \in Conns, NEW i \in SessionIds, Join(c, i)
      PROVE  LedgerGrows /\ byID' \subseteq byID
  BY <1>2, JoinGrows
<1>3. ASSUME NEW c \in Conns, NEW i \in SessionIds, End(c, i, "member_ended") PROVE Still
  BY <1>3, EndStill DEF Reasons
<1>4. ASSUME NEW c \in Conns, NEW i \in SessionIds, Offer(c, i) \/ Answer(c, i) PROVE Still
  BY <1>4, NegotiateStill
<1>5. ASSUME NEW c \in Conns, ConnDropped(c) PROVE Still
  BY <1>5, ConnDroppedStill
<1>6. CASE Reap \/ Tick
  BY <1>6, ReapStill, TickStill, StillGrows DEF Still
<1>7. CASE UNCHANGED ledger
  BY <1>7 DEF ledger, LedgerGrows, Grows
<1>8. Still => LedgerGrows /\ byID' \subseteq byID
  BY StillGrows DEF Still
<1> QED BY <1>1, <1>2, <1>3, <1>4, <1>5, <1>6, <1>7, <1>8 DEF Next

(* What stays true of a session while others operate on it.                *)
LEMMA SeatsKept ==
    ASSUME TypeOK, NEW i \in SessionIds, Grows(i)
    PROVE  /\ Seats(i) \subseteq Seats(i)'
           /\ Seats(i) # {} => /\ sess'[i].tenant = sess[i].tenant
                              /\ sess'[i].members[1] = sess[i].members[1]
           /\ memberCount(i) = 2 => memberCount(i)' = 2 /\ Seats(i)' = Seats(i)
<1>1. sess[i].members \in Seq(Conns)
  BY DEF TypeOK, Session
<1>2. Seats(i) # {} <=> sess[i].members # <<>>
  <2>1. CASE sess[i].members = <<>>
    BY <2>1 DEF Seats
  <2>2. CASE sess[i].members # <<>>
    <3>1. 1 \in DOMAIN sess[i].members
      BY <1>1, <2>2
    <3>2. sess[i].members[1] \in Seats(i)
      BY <3>1 DEF Seats
    <3> QED BY <2>2, <3>2
  <2> QED BY <2>1, <2>2
<1>3. CASE sess[i].members = <<>>
  BY <1>2, <1>3 DEF Seats, memberCount
<1>4. CASE sess[i].members # <<>> /\ sess'[i].members = sess[i].members
  BY <1>4 DEF Seats, memberCount, Grows
<1>5. ASSUME sess[i].members # <<>>, Len(sess[i].members) = 1, NEW c \in Conns,
             sess'[i].members = Append(sess[i].members, c)
      PROVE  /\ Seats(i) \subseteq Seats(i)' /\ memberCount(i) # 2
             /\ sess'[i].members[1] = sess[i].members[1]
  BY <1>1, <1>5 DEF Seats, memberCount
<1> QED BY <1>2, <1>3, <1>4, <1>5 DEF Grows

LEMMA EventStays ==
    ASSUME TypeOK, LedgerGrows, NEW p \in Procs, NEW e \in Events, EventOK(p, e),
           p \in Conns /\ life[p] = "open" => life'[p] = "open"
    PROVE  EventOK(p, e)'
<1>1. e.sid \in SessionIds /\ e.to \in Conns
  BY DEF Events
<1>2. Grows(e.sid)
  BY <1>1 DEF LedgerGrows
<1>3. /\ Seats(e.sid) \subseteq Seats(e.sid)'
      /\ sess'[e.sid].tenant = sess[e.sid].tenant
      /\ sess'[e.sid].members[1] = sess[e.sid].members[1]
  BY <1>1, <1>2, SeatsKept DEF EventOK
<1> QED BY <1>1, <1>2, <1>3 DEF EventOK, Grows

(* A goroutine that takes no step, or one that is not about its task.      *)
LEMMA TaskStays ==
    ASSUME RelayTypeOK, LedgerGrows, NEW q \in Procs, TaskOK(q), task'[q] = task[q],
           q \in Conns /\ life[q] \in {"open", "leaving"} => life'[q] = life[q],
           \A e \in enrolled' : e \in enrolled \/ e[1] # q
    PROVE  TaskOK(q)'
<1>1. TypeOK /\ task[q].todo \in Seq(Events)
  BY DEF RelayTypeOK
<1>2. ASSUME NEW e \in Events, EventOK(q, e) PROVE EventOK(q, e)'
  BY <1>1, <1>2, EventStays
<1>3. ASSUME NEW k \in DOMAIN task[q].todo
      PROVE  EventOK(q, task[q].todo[k])' /\ (task[q].todo[k].kind = "started" => k = 1)
  <2>1. PICK e \in Events : e = task[q].todo[k]
    BY <1>1
  <2>2. EventOK(q, e)'
    BY <1>2, <2>1 DEF TaskOK
  <2> QED BY <2>1, <2>2 DEF EventOK, TaskOK
<1>4. task[q].step = "negotiate" =>
        memberCount(task[q].sid)' = 2 /\ Seats(task[q].sid)' = Seats(task[q].sid)
  <2> SUFFICES ASSUME task[q].step = "negotiate"
               PROVE memberCount(task[q].sid)' = 2 /\ Seats(task[q].sid)' = Seats(task[q].sid)
    OBVIOUS
  <2>1. PICK i \in SessionIds : i = task[q].sid
    BY DEF TaskOK
  <2>2. Grows(i) /\ memberCount(i) = 2
    BY <2>1 DEF TaskOK, LedgerGrows
  <2>3. memberCount(i)' = 2 /\ Seats(i)' = Seats(i)
    BY <1>1, <2>2, SeatsKept
  <2> QED BY <2>1, <2>3 DEF memberCount, Seats
<1> QED BY <1>3, <1>4 DEF TaskOK

-----------------------------------------------------------------------------
(* The relay implements the ledger.                                        *)

(* A refused frame's session is ended as the drop of its recipient would.  *)
LEMMA ExpelIsADrop ==
    ASSUME IInv, NEW c \in Conns, NEW i \in SessionIds, End(c, i, "peer_disconnected")
    PROVE  ConnDropped(c)
<1>1. byConn[c] = i /\ i \in byID
  BY DEF IInv, IndexesAgree, SeatIndexExact, End, EndResult, lookupMember
<1> QED BY <1>1 DEF End, ConnDropped

LEMMA HeadOfTask ==
    ASSUME RelayTypeOK, TasksOK, NEW p \in Procs,
           task[p].step \in {"hook", "enrol", "deliver", "expel"}
    PROVE  /\ Head(task[p].todo) = task[p].todo[1] /\ task[p].todo[1] \in Events
           /\ EventOK(p, task[p].todo[1])
           /\ Tail(task[p].todo) \in Seq(Events)
           /\ \A k \in DOMAIN Tail(task[p].todo) :
                 /\ k + 1 \in DOMAIN task[p].todo
                 /\ Tail(task[p].todo)[k] = task[p].todo[k + 1]
<1>1. task[p].todo \in Seq(Events) /\ task[p].todo # <<>>
  BY DEF RelayTypeOK, TasksOK, TaskOK
<1>2. 1 \in DOMAIN task[p].todo
  BY <1>1
<1>3. EventOK(p, task[p].todo[1])
  BY <1>2 DEF TasksOK, TaskOK
<1> QED BY <1>1, <1>2, <1>3

LEMMA AtWork ==
    ASSUME NEW p \in Procs, EmitHook(p) \/ EngineJoin(p) \/ EmitFrame(p) \/ Expel(p)
    PROVE  task[p].step \in {"hook", "enrol", "deliver", "expel"}
<1>1. CASE EmitHook(p)
  BY <1>1 DEF EmitHook
<1>2. CASE EngineJoin(p)
  BY <1>2 DEF EngineJoin
<1>3. CASE EmitFrame(p)
  BY <1>3 DEF EmitFrame
<1>4. CASE Expel(p)
  BY <1>4 DEF Expel
<1> QED BY <1>1, <1>2, <1>3, <1>4

(* What any of the four steps of an emission finds at the head.            *)
LEMMA FirstEvent ==
    ASSUME RInv, NEW p \in Procs, EmitHook(p) \/ EngineJoin(p) \/ EmitFrame(p) \/ Expel(p)
    PROVE  \E e \in Events : /\ e = Head(task[p].todo) /\ e = task[p].todo[1]
                             /\ 1 \in DOMAIN task[p].todo /\ task[p].todo # <<>>
                             /\ EventOK(p, e)
<1>1. RelayTypeOK /\ TasksOK
  BY DEF RInv
<1>2. task[p].step \in {"hook", "enrol", "deliver", "expel"}
  BY AtWork
<1>3. /\ Head(task[p].todo) = task[p].todo[1] /\ task[p].todo[1] \in Events
      /\ EventOK(p, task[p].todo[1])
  BY <1>1, <1>2, HeadOfTask
<1>4. task[p].todo \in Seq(Events) /\ task[p].todo # <<>>
  BY <1>1, <1>2 DEF RelayTypeOK, TasksOK, TaskOK
<1>5. 1 \in DOMAIN task[p].todo
  BY <1>4
<1> QED BY <1>3, <1>4, <1>5

(* The engine is joined for the goroutine's own connection.                *)
LEMMA EnrolsItself ==
    ASSUME RInv, NEW p \in Procs, EngineJoin(p)
    PROVE  Head(task[p].todo).to = p /\ life[p] = "open"
<1>1. PICK e \in Events : e = Head(task[p].todo) /\ e = task[p].todo[1] /\ EventOK(p, e)
  BY FirstEvent
<1>2. task[p].step = "enrol" /\ TaskOK(p)
  BY DEF EngineJoin, RInv, TasksOK
<1>3. e.kind \in {"started", "joined"}
  BY <1>1, <1>2 DEF TaskOK
<1> QED BY <1>1, <1>3 DEF EventOK

(* What EmitFrame does with it.                                            *)
LEMMA SentFrame ==
    ASSUME RInv, NEW p \in Procs, EmitFrame(p)
    PROVE  \E e \in Events : /\ e = Head(task[p].todo) /\ e = task[p].todo[1]
                             /\ 1 \in DOMAIN task[p].todo /\ task[p].todo # <<>>
                             /\ EventOK(p, e) /\ SendFrame(p, e)
<1>1. PICK e \in Events : /\ e = Head(task[p].todo) /\ e = task[p].todo[1]
                          /\ 1 \in DOMAIN task[p].todo /\ task[p].todo # <<>>
                          /\ EventOK(p, e)
  BY FirstEvent
<1>2. SendFrame(p, e)
  BY <1>1 DEF EmitFrame
<1> QED BY <1>1, <1>2

(* After a frame the goroutine goes on, or expels the frame's recipient.   *)
LEMMA FrameTask ==
    ASSUME RInv, NEW p \in Procs, EmitFrame(p)
    PROVE  \E closed \in SUBSET SessionIds :
              \/ task' = [task EXCEPT ![p] = Popped(p, closed)]
              \/ task' = [task EXCEPT ![p].step = "expel", ![p].closed = closed]
<1>1. PICK e \in Events : SendFrame(p, e)
  BY SentFrame
<1>2. e.sid \in SessionIds /\ task[p].closed \in SUBSET SessionIds
  BY DEF Events, RInv, RelayTypeOK
<1>3. \E closed \in {task[p].closed, task[p].closed \cup {e.sid}} :
         \/ task' = [task EXCEPT ![p] = Popped(p, closed)]
         \/ task' = [task EXCEPT ![p].step = "expel", ![p].closed = closed]
  BY <1>1 DEF SendFrame, SkipFrame
<1> QED BY <1>2, <1>3

LEMMA RelayStepIsLedgerStep == RInv /\ [RelayNext]_vars => [Next]_ledger
<1> SUFFICES ASSUME RInv, [RelayNext]_vars PROVE [Next]_ledger
  OBVIOUS
<1>0. IInv
  BY DEF RInv, LedgerInv
<1>1. ASSUME NEW c \in Conns, Handle(c) PROVE [Next]_ledger
  BY <1>1 DEF Handle, HandleStart, HandleJoin, HandleEnd, HandleP2P, HandleEngineSignal,
              Refuse, Begin, Next
<1>2. ASSUME NEW c \in Conns, Continue(c) PROVE [Next]_ledger
  <2>1. CASE NegotiateSteer(c) \/ EngineReply(c)
    BY <2>1 DEF NegotiateSteer, EngineReply, Dispatch, Refuse
  <2>2. CASE Relay(c)
    <3>1. task[c].sid \in SessionIds
      BY <2>2 DEF Relay, RInv, TasksOK, TaskOK, Procs
    <3> QED BY <2>2, <3>1 DEF Relay, Refuse, Next
  <2> QED BY <1>2, <2>1, <2>2 DEF Continue
<1>3. ASSUME NEW c \in Conns, Teardown(c) PROVE [Next]_ledger
  BY <1>3 DEF Teardown, EngineLeaveAll, Drop, Unregister, Next
<1>4. ASSUME NEW c \in Conns, Connect(c) \/ Write(c) \/ WriterExits(c) \/ ReaderReturns(c)
      PROVE  UNCHANGED ledger
  BY <1>4 DEF Connect, Write, WriterExits, ReaderReturns
<1>5. ASSUME NEW p \in Procs, Emit(p) PROVE [Next]_ledger
  <2>1. CASE EmitHook(p) \/ EngineJoin(p) \/ EmitFrame(p)
    BY <2>1 DEF EmitHook, EngineJoin, EmitFrame
  <2>2. CASE Expel(p)
    <3>1. PICK e \in Events : e = Head(task[p].todo)
      BY <2>2, HeadOfTask DEF Expel, RInv
    <3>2. e.to \in Conns /\ e.sid \in SessionIds
      BY DEF Events
    <3>3. End(e.to, e.sid, "peer_disconnected") \/ UNCHANGED ledger
      BY <2>2, <3>1 DEF Expel
    <3>4. ConnDropped(e.to) \/ UNCHANGED ledger
      BY <1>0, <3>2, <3>3, ExpelIsADrop
    <3> QED BY <3>2, <3>4 DEF Next
  <2> QED BY <1>5, <2>1, <2>2 DEF Emit
<1>6. CASE HandleReap
  BY <1>6 DEF HandleReap, Next
<1>7. CASE RelayTick
  BY <1>7 DEF RelayTick, Next
<1>8. CASE UNCHANGED vars
  BY <1>8 DEF vars
<1> QED BY <1>1, <1>2, <1>3, <1>4, <1>5, <1>6, <1>7, <1>8 DEF RelayNext

LEMMA LedgerInvNext ==
    ASSUME RInv, [RelayNext]_vars
    PROVE  LedgerInv' /\ LedgerGrows /\ [Next]_ledger
<1>1. IInv /\ [Next]_ledger
  BY RelayStepIsLedgerStep DEF RInv, LedgerInv
<1>2. IInv'
  BY <1>1, NextInv
<1>3. LedgerGrows /\ \E x : byID' \subseteq byID \cup {x}
  BY <1>1, LedgerStepGrows
<1>4. IsFiniteSet(byID')
  <2>1. PICK x : byID' \subseteq byID \cup {x}
    BY <1>3
  <2>2. IsFiniteSet(byID \cup {x})
    BY FS_AddElement DEF RInv, LedgerInv
  <2> QED BY <2>1, <2>2, FS_Subset
<1> QED BY <1>1, <1>2, <1>3, <1>4 DEF LedgerInv

-----------------------------------------------------------------------------
(* Sockets.                                                                *)

Seating(c, i) ==
    /\ life[c] = "open" /\ UNCHANGED life
    /\ Start(c, i) \/ Join(c, i)

LifeOnly(c) == UNCHANGED ledger /\ (Connect(c) \/ ReaderReturns(c) \/ Unregister(c))

(* What a step means for the ledger's seats and the sockets' lives.        *)
LEMMA StepKinds ==
    ASSUME RInv, [RelayNext]_vars
    PROVE  \/ UNCHANGED life /\ Still
           \/ \E c \in Conns, i \in SessionIds : Seating(c, i)
           \/ \E c \in Conns : LifeOnly(c)
           \/ \E c \in Conns : Drop(c)
<1> DEFINE Calm == UNCHANGED life /\ Still
           Goal == \/ Calm
                   \/ \E c \in Conns, i \in SessionIds : Seating(c, i)
                   \/ \E c \in Conns : LifeOnly(c)
                   \/ \E c \in Conns : Drop(c)
<1>0. IInv
  BY DEF RInv, LedgerInv
<1>a. UNCHANGED <<ledger, life>> => Calm
  BY DEF ledger, Still
<1>1. ASSUME NEW c \in Conns, Handle(c) PROVE Goal
  <2>1. CASE HandleStart(c)
    BY <1>a, <2>1 DEF HandleStart, Ready, Seating, Refuse
  <2>2. ASSUME NEW i \in SessionIds, HandleJoin(c, i) PROVE Goal
    BY <1>a, <2>2 DEF HandleJoin, Ready, Seating, Refuse
  <2>3. ASSUME NEW i \in SessionIds, HandleEnd(c, i) PROVE Calm
    BY <1>0, <1>a, <2>3, EndStill DEF HandleEnd, Refuse, Reasons
  <2>4. ASSUME NEW i \in SessionIds, NEW k \in P2P, HandleP2P(c, k, i) PROVE Calm
    BY <1>a, <2>4 DEF HandleP2P, Refuse, Begin
  <2>5. ASSUME NEW i \in SessionIds, HandleEngineSignal(c, i) PROVE Calm
    BY <1>a, <2>5 DEF HandleEngineSignal, Refuse, Begin
  <2> QED BY <1>1, <2>1, <2>2, <2>3, <2>4, <2>5 DEF Handle
<1>2. ASSUME NEW c \in Conns, Continue(c) PROVE Calm
  <2>1. CASE NegotiateSteer(c) \/ EngineReply(c)
    BY <1>a, <2>1 DEF NegotiateSteer, EngineReply, Dispatch, Refuse
  <2>2. CASE Relay(c)
    <3>1. PICK i \in SessionIds : i = task[c].sid
      BY <2>2 DEF Relay, RInv, TasksOK, TaskOK, Procs
    <3>2. UNCHANGED life /\ (UNCHANGED ledger \/ Offer(c, i) \/ Answer(c, i))
      BY <2>2, <3>1 DEF Relay, Refuse
    <3> QED BY <1>0, <1>a, <3>2, NegotiateStill
  <2> QED BY <1>2, <2>1, <2>2 DEF Continue
<1>3. ASSUME NEW c \in Conns, Teardown(c) PROVE Goal
  BY <1>3, <1>a DEF Teardown, EngineLeaveAll, Unregister, LifeOnly
<1>4. ASSUME NEW c \in Conns, Connect(c) \/ Write(c) \/ WriterExits(c) \/ ReaderReturns(c)
      PROVE  Goal
  BY <1>4, <1>a DEF Connect, Write, WriterExits, ReaderReturns, LifeOnly
<1>5. ASSUME NEW p \in Procs, Emit(p) PROVE Calm
  <2>1. CASE EmitHook(p) \/ EngineJoin(p) \/ EmitFrame(p)
    BY <1>a, <2>1 DEF EmitHook, EngineJoin, EmitFrame
  <2>2. CASE Expel(p)
    <3>1. PICK e \in Events : e = Head(task[p].todo)
      BY <2>2, HeadOfTask DEF Expel, RInv
    <3>2. e.to \in Conns /\ e.sid \in SessionIds
      BY DEF Events
    <3>3. UNCHANGED life /\ (End(e.to, e.sid, "peer_disconnected") \/ UNCHANGED ledger)
      BY <2>2, <3>1 DEF Expel
    <3> QED BY <1>0, <1>a, <3>2, <3>3, EndStill DEF Reasons
  <2> QED BY <1>5, <2>1, <2>2 DEF Emit
<1>6. CASE HandleReap
  BY <1>0, <1>6, ReapStill DEF HandleReap
<1>7. CASE RelayTick
  BY <1>0, <1>7, TickStill DEF RelayTick, plane
<1>8. CASE UNCHANGED vars
  BY <1>8, <1>a DEF vars, plane
<1> QED BY <1>1, <1>2, <1>3, <1>4, <1>5, <1>6, <1>7, <1>8 DEF RelayNext

LEMMA SocketsNext == RInv /\ [RelayNext]_vars => SessionNeedsSockets'
<1> SUFFICES ASSUME RInv, [RelayNext]_vars PROVE SessionNeedsSockets'
  OBVIOUS
<1>0. /\ IInv /\ SessionNeedsSockets /\ sess \in [SessionIds -> Session] /\ byID \subseteq SessionIds
      /\ life \in [Conns -> {"new", "open", "leaving", "dropped", "gone"}]
  BY DEF RInv, LedgerInv, IInv, TypeOK, RelayTypeOK
<1>1. CASE UNCHANGED life /\ Still
  <2>1. ASSUME NEW i \in byID' PROVE i \in byID /\ Seats(i)' = Seats(i)
    BY <1>0, <1>1 DEF Still, Seats
  <2> QED BY <1>0, <1>1, <2>1 DEF SessionNeedsSockets
<1>2. ASSUME NEW c \in Conns, NEW i \in SessionIds, Seating(c, i)
      PROVE  SessionNeedsSockets'
  <2>1. ASSUME NEW j \in byID', j # i PROVE j \in byID /\ Seats(j)' = Seats(j)
    BY <1>0, <1>2, <2>1, StartGrows, JoinGrows DEF Seating, Seats
  <2>2. Seats(i)' \subseteq Seats(i) \cup {c} /\ (i \notin byID => Seats(i)' = {c})
    <3>1. CASE Start(c, i)
      <4>1. sess'[i] = NewSession(c) /\ i \notin byID
        BY <1>0, <3>1, StartGrows
      <4>2. sess'[i].members = <<c>>
        BY <4>1 DEF NewSession
      <4> QED BY <4>2 DEF Seats
    <3>2. CASE Join(c, i)
      <4>1. sess'[i].members = Append(sess[i].members, c) /\ i \in byID
        BY <1>0, <3>2, JoinGrows
      <4>2. sess[i].members \in Seq(Conns)
        BY <1>0 DEF Session
      <4> QED BY <4>1, <4>2 DEF Seats
    <3> QED BY <1>2, <3>1, <3>2 DEF Seating
  <2>3. life' = life /\ life[c] = "open"
    BY <1>2 DEF Seating
  <2>4. ASSUME NEW j \in byID', NEW d \in Seats(j)' PROVE life'[d] \in {"open", "leaving"}
    <3>1. CASE d = c
      BY <2>3, <3>1
    <3>2. CASE d # c
      <4>1. j \in byID /\ d \in Seats(j)
        BY <2>1, <2>2, <3>2
      <4> QED BY <1>0, <2>3, <4>1 DEF SessionNeedsSockets
    <3> QED BY <3>1, <3>2
  <2> QED BY <2>4 DEF SessionNeedsSockets
<1>3. ASSUME NEW c \in Conns, LifeOnly(c) PROVE SessionNeedsSockets'
  <2>1. byID' = byID /\ \A i \in byID : Seats(i)' = Seats(i)
    BY <1>3 DEF LifeOnly, ledger, Seats
  <2>2. /\ \A d \in Conns : d # c => life'[d] = life[d]
        /\ life[c] \in {"open", "leaving"} => life'[c] \in {"open", "leaving"}
    BY <1>0, <1>3 DEF LifeOnly, Connect, ReaderReturns, Unregister
  <2>3. ASSUME NEW i \in byID, NEW d \in Seats(i) PROVE d \in Conns
    BY <1>0 DEF Seats, Session
  <2> QED BY <1>0, <2>1, <2>2, <2>3 DEF SessionNeedsSockets
<1>4. ASSUME NEW c \in Conns, Drop(c) PROVE SessionNeedsSockets'
  <2>1. Still /\ byConn[c] \notin byID'
    BY <1>0, <1>4, ConnDroppedStill DEF Drop, Still
  <2>2. ASSUME NEW i \in byID', NEW d \in Seats(i)' PROVE life'[d] \in {"open", "leaving"}
    <3>1. i \in byID /\ d \in Seats(i) /\ i # byConn[c]
      BY <1>0, <2>1, <2>2 DEF Still, Seats
    <3>2. d \in Conns
      BY <1>0, <3>1 DEF Seats, Session
    <3>3. d # c
      BY <1>0, <3>1, <3>2 DEF IInv, IndexesAgree, SeatIndexExact
    <3> QED BY <1>0, <1>4, <3>1, <3>2, <3>3 DEF Drop, SessionNeedsSockets
  <2> QED BY <2>2 DEF SessionNeedsSockets
<1> QED BY <1>1, <1>2, <1>3, <1>4, StepKinds

-----------------------------------------------------------------------------
(* The engine's side, and what clients are told.                           *)

(* Who writes the maps beside the ledger.                                  *)
LEMMA Writers ==
    ASSUME [RelayNext]_vars
    PROVE  /\ enrolled' \subseteq enrolled \/ \E p \in Procs : EngineJoin(p)
           /\ steered' \subseteq steered \/ \E c \in Conns : NegotiateSteer(c)
           /\ capable \subseteq capable'
           /\ told' = told \/ \E p \in Procs : EmitFrame(p)
<1> DEFINE Same == UNCHANGED <<enrolled, steered, capable, told>>
<1>1. ASSUME NEW c \in Conns, Handle(c) PROVE Same
  BY <1>1 DEF Handle, HandleStart, HandleJoin, HandleEnd, HandleP2P, HandleEngineSignal,
              Refuse, Begin
<1>2. ASSUME NEW c \in Conns, Continue(c) PROVE Same \/ NegotiateSteer(c)
  BY <1>2 DEF Continue, Relay, EngineReply, Dispatch, Refuse
<1>3. ASSUME NEW c \in Conns, NegotiateSteer(c) PROVE UNCHANGED <<enrolled, capable, told>>
  BY <1>3 DEF NegotiateSteer
<1>4. ASSUME NEW c \in Conns,
             Teardown(c) \/ Connect(c) \/ Write(c) \/ WriterExits(c) \/ ReaderReturns(c)
      PROVE  enrolled' \subseteq enrolled /\ capable \subseteq capable' /\ UNCHANGED <<steered, told>>
  BY <1>4 DEF Teardown, EngineLeaveAll, Drop, Unregister, Connect, Write, WriterExits, ReaderReturns
<1>5. ASSUME NEW p \in Procs, EmitHook(p) \/ Expel(p)
      PROVE  enrolled' \subseteq enrolled /\ steered' \subseteq steered /\ UNCHANGED <<capable, told>>
  BY <1>5 DEF EmitHook, Expel
<1>6. ASSUME NEW p \in Procs, EngineJoin(p) PROVE UNCHANGED <<steered, capable, told>>
  BY <1>6 DEF EngineJoin
<1>7. ASSUME NEW p \in Procs, EmitFrame(p) PROVE UNCHANGED <<enrolled, steered, capable>>
  BY <1>7 DEF EmitFrame
<1>8. HandleReap \/ RelayTick \/ UNCHANGED vars => Same
  BY DEF HandleReap, RelayTick, plane, vars
<1> QED
  BY <1>1, <1>2, <1>3, <1>4, <1>5, <1>6, <1>7, <1>8 DEF RelayNext, Emit

(* A life that can still be enrolled ends by Drop alone.                   *)
LEMMA LifeStays ==
    ASSUME RInv, [RelayNext]_vars, NEW d \in Conns, life[d] \in {"open", "leaving"}
    PROVE  life'[d] \in {"open", "leaving"} \/ Drop(d)
<1>0. life \in [Conns -> {"new", "open", "leaving", "dropped", "gone"}]
  BY DEF RInv, RelayTypeOK
<1>1. ASSUME NEW c \in Conns, LifeOnly(c) PROVE life'[d] \in {"open", "leaving"}
  BY <1>0, <1>1 DEF LifeOnly, Connect, ReaderReturns, Unregister
<1>2. ASSUME NEW c \in Conns, Drop(c), c # d PROVE life'[d] \in {"open", "leaving"}
  BY <1>0, <1>2 DEF Drop
<1> QED BY <1>1, <1>2, StepKinds DEF Seating

LEMMA EnrolmentNext == RInv /\ [RelayNext]_vars => EnrolmentNeedsSocket'
<1> SUFFICES ASSUME RInv, [RelayNext]_vars PROVE EnrolmentNeedsSocket'
  OBVIOUS
<1>0. enrolled \subseteq Conns \X SessionIds /\ EnrolmentNeedsSocket
  BY DEF RInv, RelayTypeOK, EngineSideSound
<1>1. ASSUME NEW p \in Procs, EngineJoin(p) PROVE EnrolmentNeedsSocket'
  <2>1. PICK e \in Events : e = Head(task[p].todo) /\ EventOK(p, e) /\ e = task[p].todo[1]
    BY <1>1, FirstEvent
  <2>2. life[e.to] = "open"
    BY <1>1, <2>1, EnrolsItself
  <2>3. enrolled' \subseteq enrolled \cup {<<e.to, e.sid>>} /\ life' = life
    BY <1>1, <2>1 DEF EngineJoin
  <2> QED BY <1>0, <2>2, <2>3 DEF EnrolmentNeedsSocket
<1>2. CASE enrolled' \subseteq enrolled
  <2> SUFFICES ASSUME NEW e \in enrolled' PROVE life'[e[1]] \in {"open", "leaving"}
    BY DEF EnrolmentNeedsSocket
  <2>1. e \in enrolled /\ e[1] \in Conns /\ life[e[1]] \in {"open", "leaving"}
    BY <1>0, <1>2 DEF EnrolmentNeedsSocket
  <2>2. ~Drop(e[1])
    BY <2>1 DEF Drop, RInv, TasksOK, TaskOK, Procs
  <2> QED BY <2>1, <2>2, LifeStays
<1> QED BY <1>1, <1>2, Writers

LEMMA SteerNext == RInv /\ [RelayNext]_vars => SteerNeedsBoth'
<1> SUFFICES ASSUME RInv, [RelayNext]_vars, NEW i \in steered'
             PROVE  /\ EngineOn /\ SteerMode # "off" /\ memberCount(i)' = 2
                    /\ SteerMode = "force" \/ Seats(i)' \subseteq capable'
  BY DEF SteerNeedsBoth
<1>0. TypeOK /\ steered \subseteq SessionIds /\ capable \subseteq Conns /\ SteerNeedsBoth
  BY DEF RInv, RelayTypeOK, EngineSideSound
<1>1. LedgerGrows /\ capable \subseteq capable'
  BY LedgerInvNext, Writers
<1>2. CASE i \in steered
  <2>1. /\ EngineOn /\ SteerMode # "off" /\ memberCount(i) = 2 /\ i \in SessionIds
        /\ SteerMode = "force" \/ Seats(i) \subseteq capable
    BY <1>0, <1>2 DEF SteerNeedsBoth
  <2>2. memberCount(i)' = 2 /\ Seats(i)' = Seats(i)
    BY <1>0, <1>1, <2>1, SeatsKept DEF LedgerGrows
  <2> QED BY <1>1, <2>1, <2>2
<1>3. ASSUME NEW c \in Conns, NegotiateSteer(c), i \notin steered
      PROVE  /\ EngineOn /\ SteerMode # "off" /\ memberCount(i)' = 2
             /\ SteerMode = "force" \/ Seats(i)' \subseteq capable'
  <2>1. /\ i = task[c].sid /\ EngineOn /\ SteerMode # "off"
        /\ SteerMode = "force" \/ (c \in capable /\ task[c].todo[2].to \in capable)
    BY <1>3 DEF NegotiateSteer, Capable
  <2>2. memberCount(i) = 2 /\ Seats(i) = {c, task[c].todo[2].to}
    BY <1>3, <2>1 DEF NegotiateSteer, RInv, TasksOK, TaskOK, Procs
  <2>3. sess' = sess /\ capable' = capable
    BY <1>3 DEF NegotiateSteer, ledger
  <2>4. memberCount(i)' = memberCount(i) /\ Seats(i)' = Seats(i)
    BY <2>3 DEF memberCount, Seats
  <2> QED BY <2>1, <2>2, <2>3, <2>4
<1> QED BY <1>2, <1>3, Writers

LEMMA HeardNext == RInv /\ [RelayNext]_vars => HeardRight'
<1> SUFFICES ASSUME RInv, [RelayNext]_vars, NEW c \in Conns, NEW i \in SessionIds, HeardEnd(c, i)'
             PROVE  sess'[i].state = "ended"
  BY DEF HeardRight
<1>0. told \in [Conns -> [SessionIds -> Beliefs]]
  BY DEF RInv, RelayTypeOK
<1>1. sess[i].state = "ended" => sess'[i].state = "ended"
  BY LedgerInvNext DEF LedgerGrows, Grows
<1>2. HeardEnd(c, i) => sess[i].state = "ended"
  BY DEF RInv, HeardRight
<1>3. ASSUME NEW p \in Procs, EmitFrame(p), ~HeardEnd(c, i) PROVE sess[i].state = "ended"
  <2>1. PICK e \in Events : EventOK(p, e) /\ SendFrame(p, e)
    BY <1>3, SentFrame
  <2>2. told' = told \/ told' = [told EXCEPT ![e.to][e.sid] = Told(@, e.kind)]
    BY <2>1 DEF SendFrame
  <2>3. e.to = c /\ e.sid = i /\ told'[c][i] = Told(told[c][i], e.kind)
    BY <1>0, <1>3, <2>2 DEF HeardEnd, Events
  <2>4. e.kind = "ended"
    BY <1>3, <2>3 DEF HeardEnd, Told, Events, Kinds, P2P
  <2> QED BY <2>1, <2>3, <2>4 DEF EventOK
<1> QED BY <1>1, <1>2, <1>3, Writers DEF HeardEnd

-----------------------------------------------------------------------------
(* Tasks.                                                                  *)

TaskType == [step : Steps, todo : Seq(Events), kind : P2P \cup {None}, sid : SessionIds \cup {None},
             cleared : SUBSET SessionIds, closed : SUBSET SessionIds]

(* A step of p: its task is in order afterwards, the others are untouched. *)
Moved(p) ==
    /\ task' \in [Procs -> TaskType]
    /\ \A q \in Procs : q # p => task'[q] = task[q]
    /\ TaskOK(p)'

TasksTyped == task \in [Procs -> TaskType]

LEMMA TypesOfTasks == RelayTypeOK => TasksTyped
BY DEF RelayTypeOK, TasksTyped, TaskType, Steps

(* Events that p may be left to emit.                                      *)
Emittable(p, es) ==
    /\ es \in Seq(Events)
    /\ \A k \in DOMAIN es : EventOK(p, es[k]) /\ (es[k].kind = "started" => k = 1)

LEMMA MovedIdle ==
    ASSUME TasksTyped, NEW p \in Procs, task' = [task EXCEPT ![p] = Idle]
    PROVE  Moved(p)
<1>1. Idle \in TaskType
  BY DEF Idle, TaskType, Steps
<1>2. task'[p] = Idle /\ task' \in [Procs -> TaskType]
  BY <1>1 DEF TasksTyped
<1>3. \A q \in Procs : q # p => task'[q] = task[q]
  BY DEF TasksTyped
<1>4. TaskOK(p)'
  BY <1>2 DEF TaskOK, Idle
<1> QED BY <1>2, <1>3, <1>4 DEF Moved

LEMMA MovedEmitting ==
    ASSUME TasksTyped, NEW p \in Procs, NEW es, Emittable(p, es)',
           task' = [task EXCEPT ![p] = Emitting(es)]
    PROVE  Moved(p)
<1>1. CASE es = <<>>
  <2>1. task' = [task EXCEPT ![p] = Idle]
    BY <1>1 DEF Emitting
  <2> QED BY <2>1, MovedIdle
<1>2. CASE es # <<>>
  <2> DEFINE x == [Idle EXCEPT !.step = "hook", !.todo = es]
  <2>1. x \in TaskType /\ x.step = "hook" /\ x.todo = es
    BY DEF Idle, TaskType, Steps, Emittable
  <2>2. task' = [task EXCEPT ![p] = x]
    BY <1>2 DEF Emitting
  <2> HIDE DEF x
  <2>3. /\ task' \in [Procs -> TaskType] /\ task'[p].step = "hook" /\ task'[p].todo = es
        /\ \A q \in Procs : q # p => task'[q] = task[q]
    BY <2>1, <2>2 DEF TasksTyped
  <2>4. TaskOK(p)'
    BY <1>2, <2>3 DEF TaskOK, Emittable, EventOK
  <2> QED BY <2>3, <2>4 DEF Moved
<1> QED BY <1>1, <1>2

LEMMA BusyIs ==
    ASSUME NEW st \in Steps, NEW kd \in P2P \cup {None}, NEW i \in SessionIds \cup {None}
    PROVE  /\ Busy(st, kd, i) \in TaskType /\ Busy(st, kd, i).step = st
           /\ Busy(st, kd, i).todo = <<>> /\ Busy(st, kd, i).kind = kd
           /\ Busy(st, kd, i).sid = i
<1>1. Idle \in TaskType /\ Idle.todo = <<>>
  BY DEF Idle, TaskType, Steps
<1> QED BY <1>1 DEF Busy, TaskType

LEMMA MovedBusy ==
    ASSUME TasksTyped, NEW p \in Conns, NEW step \in {"relay", "engine"},
           NEW kind \in P2P \cup {None}, step = "relay" => kind \in P2P, NEW i \in SessionIds,
           life'[p] = "open", task' = [task EXCEPT ![p] = Busy(step, kind, i)]
    PROVE  Moved(p)
<1> DEFINE x == Busy(step, kind, i)
<1>1. /\ x \in TaskType /\ x.step = step /\ x.todo = <<>> /\ x.kind = kind /\ x.sid = i
  BY BusyIs DEF Steps
<1> HIDE DEF x
<1>2. /\ task' \in [Procs -> TaskType] /\ task'[p] = x
      /\ \A q \in Procs : q # p => task'[q] = task[q]
  BY <1>1 DEF TasksTyped, Procs, x
<1>3. TaskOK(p)'
  BY <1>1, <1>2 DEF TaskOK
<1> QED BY <1>2, <1>3 DEF Moved

(* The events of each operation, as the state after it sees them.          *)
LEMMA StartEmittable ==
    ASSUME IInv, NEW c \in Conns, NEW i \in SessionIds, Start(c, i), life'[c] = "open",
           NEW es, es = StartEvents(c, i)
    PROVE  Emittable(c, es)'
<1>1. sess'[i] = NewSession(c)
  BY StartGrows
<1>2. sess'[i].members = <<c>> /\ sess'[i].tenant = TenantOf[c]
  BY <1>1 DEF NewSession
<1>3. es = <<Event("started", c, i)>> /\ Event("started", c, i) \in Events
  BY DEF StartEvents, Event, Events, Kinds
<1>4. es \in Seq(Events) /\ DOMAIN es = {1} /\ es[1] = [kind |-> "started", to |-> c, sid |-> i]
  BY <1>3 DEF Event
<1>5. c \in Seats(i)'
  BY <1>2 DEF Seats
<1> QED BY <1>2, <1>4, <1>5 DEF Emittable, EventOK, P2P

LEMMA EndEmittable ==
    ASSUME IInv, NEW i \in byID, Still, sess'[i].state = "ended", NEW p,
           NEW es, es = endEvents(i)
    PROVE  Emittable(p, es)'
<1>1. /\ i \in SessionIds /\ sess[i].members \in Seq(Conns) /\ sess'[i].members = sess[i].members
      /\ sess'[i].tenant = sess[i].tenant /\ \A c \in Seats(i) : TenantOf[c] = sess[i].tenant
  BY DEF IInv, TypeOK, Session, Still, SeatsOK
<1>2. /\ DOMAIN es = DOMAIN sess[i].members
      /\ DOMAIN es = 1 .. Len(sess[i].members) /\ Len(sess[i].members) \in Nat
      /\ \A k \in DOMAIN es : sess[i].members[k] \in Conns
      /\ \A k \in DOMAIN es : es[k] = [kind |-> "ended", to |-> sess[i].members[k], sid |-> i]
  BY <1>1 DEF endEvents, Event
<1>3. es \in Seq(Events)
  <2>1. es \in [1 .. Len(sess[i].members) -> Events]
    BY <1>1, <1>2 DEF endEvents, Event, Events, Kinds
  <2> QED BY <1>2, <2>1
<1>4. ASSUME NEW k \in DOMAIN es PROVE EventOK(p, es[k])' /\ es[k].kind = "ended"
  <2>1. PICK m \in DOMAIN sess[i].members : m = k
    BY <1>2
  <2>2. es[k] = [kind |-> "ended", to |-> sess[i].members[m], sid |-> i]
    BY <1>2, <2>1
  <2>3. sess[i].members[m] \in Seats(i) /\ sess[i].members[m] \in Seats(i)'
    BY <1>1 DEF Seats
  <2> QED BY <1>1, <2>2, <2>3 DEF EventOK, P2P
<1> QED BY <1>3, <1>4 DEF Emittable

LEMMA PeerIsOther ==
    ASSUME IInv, NEW i \in byID, NEW c \in Seats(i), Seats(i) # {c}
    PROVE  peerOf(i, c) \in Seats(i) \ {c} /\ peerOf(i, c) \in Conns
<1>1. /\ sess[i].members \in Seq(Conns) /\ Len(sess[i].members) \in 1 .. 2
  BY DEF IInv, TypeOK, Session, SeatsOK, memberCount
<1>2. /\ sess[i].members[1] \in Conns
      /\ Len(sess[i].members) = 1 => Seats(i) = {sess[i].members[1]}
      /\ Len(sess[i].members) = 2 =>
            sess[i].members[2] \in Conns /\ Seats(i) = {sess[i].members[1], sess[i].members[2]}
  BY <1>1, FirstSeat DEF Seats
<1>3. Len(sess[i].members) = 2
  BY <1>1, <1>2
<1> QED BY <1>2, <1>3 DEF peerOf

(* One frame for the other member of a session.                            *)
LEMMA PeerEmittable ==
    ASSUME IInv, NEW c \in Conns, NEW i \in SessionIds, i \in byID, c \in Seats(i), Seats(i) # {c},
           Still, NEW kind \in P2P \cup {"ended"}, kind = "ended" => sess'[i].state = "ended",
           NEW es, es = <<Event(kind, peerOf(i, c), i)>>
    PROVE  Emittable(c, es)'
<1>1. peerOf(i, c) \in Seats(i) \ {c} /\ peerOf(i, c) \in Conns
  BY PeerIsOther
<1>2. /\ sess'[i].members = sess[i].members /\ sess'[i].tenant = sess[i].tenant
      /\ \A d \in Seats(i) : TenantOf[d] = sess[i].tenant
  BY DEF IInv, Still, SeatsOK
<1>3. Seats(i)' = Seats(i)
  BY <1>2 DEF Seats
<1>4. PICK d \in Conns : d = peerOf(i, c)
  BY <1>1
<1>5. es \in Seq(Events) /\ DOMAIN es = {1} /\ es[1] = [kind |-> kind, to |-> d, sid |-> i]
  BY <1>4 DEF Event, Events, Kinds
<1> QED BY <1>1, <1>2, <1>3, <1>4, <1>5 DEF Emittable, EventOK, P2P

LEMMA TaskUpdates ==
    ASSUME NEW t \in TaskType, NEW es \in Seq(Events)
    PROVE  /\ [t EXCEPT !.todo = es] \in TaskType /\ [t EXCEPT !.todo = es].todo = es
           /\ [t EXCEPT !.todo = es].step = t.step /\ [t EXCEPT !.todo = es].sid = t.sid
BY DEF TaskType, Steps

(* The events p already had.                                               *)
LEMMA EventsStay ==
    ASSUME RelayTypeOK, LedgerGrows, UNCHANGED life, NEW p \in Procs, TaskOK(p),
           NEW k \in DOMAIN task[p].todo, NEW e, e = task[p].todo[k]
    PROVE  EventOK(p, e)' /\ e \in Events /\ (e.kind = "started" => k = 1)
<1>1. e \in Events /\ TypeOK
  BY DEF RelayTypeOK
<1>2. EventOK(p, e) /\ (e.kind = "started" => k = 1)
  BY DEF TaskOK
<1> QED BY <1>1, <1>2, EventStays

LEMMA MovedPopped ==
    ASSUME RelayTypeOK, TasksOK, LedgerGrows, UNCHANGED life, NEW p \in Procs,
           task[p].step \in {"deliver", "expel"}, NEW closed \in SUBSET SessionIds,
           task' = [task EXCEPT ![p] = Popped(p, closed)]
    PROVE  Moved(p)
<1> DEFINE next == Tail(task[p].todo)
<1>0. TasksTyped /\ TaskOK(p) /\ next \in Seq(Events)
  BY TypesOfTasks, HeadOfTask DEF TasksOK
<1>1. CASE next = <<>>
  <2>1. task' = [task EXCEPT ![p] = Idle]
    BY <1>1 DEF Popped
  <2> QED BY <1>0, <2>1, MovedIdle
<1>2. CASE next # <<>>
  <2>0. PICK t \in TaskType, es \in Seq(Events) : t = task[p] /\ es = next
    BY <1>0 DEF TasksTyped
  <2> DEFINE x == [t EXCEPT !.step = "hook", !.todo = es, !.closed = closed]
  <2>1. x \in TaskType /\ x.step = "hook" /\ x.todo = next
    <3> HIDE DEF next
    <3> QED BY <2>0 DEF TaskType, Steps
  <2>2. task' = [task EXCEPT ![p] = x]
    BY <1>2, <2>0 DEF Popped
  <2> HIDE DEF x
  <2>3. /\ task' \in [Procs -> TaskType] /\ task'[p].step = "hook" /\ task'[p].todo = next
        /\ \A q \in Procs : q # p => task'[q] = task[q]
    BY <1>0, <2>1, <2>2 DEF TasksTyped
  <2>4. ASSUME NEW k \in DOMAIN next, NEW e, e = next[k]
        PROVE  EventOK(p, e)' /\ e.kind # "started"
    <3>1. k + 1 \in DOMAIN task[p].todo /\ e = task[p].todo[k + 1] /\ k + 1 # 1
      BY <1>0, <2>4, HeadOfTask
    <3> QED BY <1>0, <3>1, EventsStay
  <2> HIDE DEF next
  <2>5. TaskOK(p)'
    BY <1>2, <2>3, <2>4 DEF TaskOK, EventOK
  <2> QED BY <2>3, <2>5 DEF Moved
<1> QED BY <1>1, <1>2

(* The next step of the same event.                                        *)
LEMMA MovedStep ==
    ASSUME RelayTypeOK, TasksOK, UNCHANGED <<ledger, life>>, NEW p \in Procs,
           NEW x \in TaskType, x.todo = task[p].todo, x.todo # <<>>,
           x.step \in {"enrol", "deliver", "expel"},
           x.step = "enrol" => x.todo[1].kind \in {"started", "joined"},
           task' = [task EXCEPT ![p] = x]
    PROVE  Moved(p)
<1>0. TasksTyped /\ TaskOK(p) /\ LedgerGrows
  BY TypesOfTasks DEF TasksOK, ledger, LedgerGrows, Grows
<1>1. /\ task' \in [Procs -> TaskType] /\ task'[p] = x
      /\ \A q \in Procs : q # p => task'[q] = task[q]
  BY <1>0 DEF TasksTyped
<1>2. ASSUME NEW k \in DOMAIN x.todo, NEW e, e = x.todo[k]
      PROVE  EventOK(p, e)' /\ (e.kind = "started" => k = 1)
  BY <1>0, <1>2, EventsStay
<1>3. TaskOK(p)'
  BY <1>1, <1>2 DEF TaskOK, EventOK
<1> QED BY <1>1, <1>3 DEF Moved

-----------------------------------------------------------------------------
(* One step of a goroutine.                                                *)

LEMMA RefuseMoves ==
    ASSUME RInv, NEW c \in Conns, Refuse(c) PROVE Moved(c)
BY MovedIdle, TypesOfTasks DEF Refuse, RInv, Procs

LEMMA StartMoves ==
    ASSUME RInv, NEW c \in Conns, HandleStart(c) PROVE Moved(c)
<1>1. CASE StartResult(c) = "ok"
  <2>1. PICK i \in SessionIds : /\ Start(c, i) /\ task' = [task EXCEPT ![c] = Emitting(StartEvents(c, i))]
                                /\ life'[c] = "open"
    BY <1>1 DEF HandleStart, Ready
  <2>2. PICK es : es = StartEvents(c, i)
    OBVIOUS
  <2>3. Emittable(c, es)'
    BY <2>1, <2>2, StartEmittable DEF RInv, LedgerInv
  <2> QED BY <2>1, <2>2, <2>3, MovedEmitting, TypesOfTasks DEF RInv, Procs
<1>2. CASE StartResult(c) # "ok"
  BY <1>2, RefuseMoves DEF HandleStart
<1> QED BY <1>1, <1>2

LEMMA JoinMoves ==
    ASSUME RInv, NEW c \in Conns, NEW i \in SessionIds, HandleJoin(c, i) PROVE Moved(c)
<1>1. CASE JoinResult(c, i) = "ok"
  <2> DEFINE m == sess[i].members[1]
             x == [Busy("negotiate", None, i) EXCEPT !.todo = JoinEvents(c, i)]
  <2>0. /\ IInv /\ TasksTyped /\ Join(c, i) /\ life'[c] = "open"
        /\ task' = [task EXCEPT ![c] = x]
    BY <1>1, TypesOfTasks DEF HandleJoin, Ready, RInv, LedgerInv
  <2>1. /\ i \in byID /\ Len(sess[i].members) = 1 /\ m # c
        /\ TenantOf[c] = sess[i].tenant /\ sess'[i].tenant = sess[i].tenant
        /\ sess'[i].members = Append(sess[i].members, c)
    BY <2>0, JoinGrows
  <2>2. sess[i].members \in Seq(Conns) /\ m \in Conns /\ m \in Seats(i)
    <3>1. sess[i].members \in Seq(Conns)
      BY <2>0 DEF IInv, TypeOK, Session
    <3> QED BY <2>1, <3>1 DEF Seats
  <2>3. TenantOf[m] = sess[i].tenant
    BY <2>0, <2>1, <2>2 DEF IInv, SeatsOK
  <2>4. sess'[i].members[1] = m /\ Len(sess'[i].members) = 2 /\ Seats(i)' = {c, m}
    BY <2>1, <2>2 DEF Seats
  <2>5. /\ JoinEvents(c, i) \in Seq(Events) /\ DOMAIN JoinEvents(c, i) = {1, 2}
        /\ Len(JoinEvents(c, i)) = 2
        /\ JoinEvents(c, i)[1] = [kind |-> "joined", to |-> c, sid |-> i]
        /\ JoinEvents(c, i)[2] = [kind |-> "peer_joined", to |-> m, sid |-> i]
    BY <2>2 DEF JoinEvents, Event, Events, Kinds
  <2> HIDE DEF m
  <2>6. x \in TaskType /\ x.step = "negotiate" /\ x.todo = JoinEvents(c, i) /\ x.sid = i
    <3>1. Busy("negotiate", None, i) \in TaskType /\ Busy("negotiate", None, i).step = "negotiate"
          /\ Busy("negotiate", None, i).sid = i
      BY BusyIs DEF Steps
    <3> QED BY <2>5, <3>1, TaskUpdates
  <2> HIDE DEF x
  <2>7. /\ task' \in [Procs -> TaskType] /\ task'[c] = x
        /\ \A q \in Procs : q # c => task'[q] = task[q]
    BY <2>0, <2>6 DEF TasksTyped, Procs
  <2>8. PICK es : es = JoinEvents(c, i)
    OBVIOUS
  <2>9. ASSUME NEW k \in DOMAIN es
        PROVE  EventOK(c, es[k])' /\ es[k].kind \notin {"started", "ended"}
    BY <2>0, <2>1, <2>3, <2>4, <2>5, <2>8 DEF EventOK, P2P
  <2>10. memberCount(i)' = 2
    BY <2>4 DEF memberCount
  <2>11. task'[c].step = "negotiate" /\ task'[c].sid = i /\ task'[c].todo = es /\ c \in Conns
    BY <2>6, <2>7, <2>8
  <2>12. es # <<>> /\ Len(es) = 2 /\ Seats(i)' = {c, es[2].to} /\ i \in SessionIds
    BY <2>4, <2>5, <2>8
  <2>13. TaskOK(c)'
    BY <2>0, <2>9, <2>10, <2>11, <2>12 DEF TaskOK
  <2> QED BY <2>7, <2>13 DEF Moved
<1>2. CASE JoinResult(c, i) # "ok"
  BY <1>2, RefuseMoves DEF HandleJoin
<1> QED BY <1>1, <1>2

LEMMA EndMoves ==
    ASSUME RInv, NEW c \in Conns, NEW i \in SessionIds, HandleEnd(c, i) PROVE Moved(c)
<1>1. CASE EndResult(c, i) = "ok"
  <2>1. End(c, i, "member_ended") /\ task' = [task EXCEPT ![c] = Emitting(endEvents(i))]
    BY <1>1 DEF HandleEnd
  <2>2. Still /\ i \in byID /\ sess'[i].state = "ended"
    BY <2>1, EndStill DEF RInv, LedgerInv, Reasons
  <2>3. PICK es : es = endEvents(i)
    OBVIOUS
  <2>4. Emittable(c, es)'
    BY <2>2, <2>3, EndEmittable DEF RInv, LedgerInv
  <2> QED BY <2>1, <2>3, <2>4, MovedEmitting, TypesOfTasks DEF RInv, Procs
<1>2. CASE EndResult(c, i) # "ok"
  BY <1>2, RefuseMoves DEF HandleEnd
<1> QED BY <1>1, <1>2

LEMMA P2PMoves ==
    ASSUME RInv, NEW c \in Conns, NEW i \in SessionIds, NEW kind \in P2P, HandleP2P(c, kind, i)
    PROVE  Moved(c)
<1>1. CASE Begin(c, "relay", kind, i)
  <2>1. life'[c] = "open" /\ task' = [task EXCEPT ![c] = Busy("relay", kind, i)]
    BY <1>1 DEF HandleP2P, Begin, Ready
  <2> QED BY <2>1, MovedBusy, TypesOfTasks DEF RInv
<1>2. CASE Refuse(c)
  BY <1>2, RefuseMoves
<1> QED BY <1>1, <1>2 DEF HandleP2P

LEMMA EngineSignalMoves ==
    ASSUME RInv, NEW c \in Conns, NEW i \in SessionIds, HandleEngineSignal(c, i)
    PROVE  Moved(c)
<1>1. CASE Begin(c, "engine", None, i)
  <2>1. life'[c] = "open" /\ task' = [task EXCEPT ![c] = Busy("engine", None, i)]
    BY <1>1 DEF HandleEngineSignal, Begin, Ready
  <2> QED BY <2>1, MovedBusy, TypesOfTasks DEF RInv
<1>2. CASE Refuse(c)
  BY <1>2, RefuseMoves
<1> QED BY <1>1, <1>2 DEF HandleEngineSignal

LEMMA SteerMoves ==
    ASSUME RInv, NEW c \in Conns, NegotiateSteer(c) PROVE Moved(c)
<1>1. PICK es : es = task[c].todo
  OBVIOUS
<1>2. /\ TasksTyped /\ TaskOK(c) /\ RelayTypeOK /\ c \in Procs
      /\ es \in Seq(Events) /\ LedgerGrows
  BY <1>1, TypesOfTasks DEF RInv, TasksOK, Procs, RelayTypeOK, NegotiateSteer, ledger, LedgerGrows,
                            Grows
<1>3. task' = [task EXCEPT ![c] = Emitting(es)] /\ UNCHANGED life
  BY <1>1, <1>2 DEF NegotiateSteer, TasksTyped
<1>4. ASSUME NEW k \in DOMAIN es, NEW e, e = es[k]
      PROVE  EventOK(c, e)' /\ (e.kind = "started" => k = 1)
  BY <1>1, <1>2, <1>3, <1>4, EventsStay
<1>5. Emittable(c, es)'
  BY <1>2, <1>4 DEF Emittable, EventOK
<1> QED BY <1>2, <1>3, <1>5, MovedEmitting

LEMMA RelayMoves ==
    ASSUME RInv, NEW c \in Conns, Relay(c) PROVE Moved(c)
<1>1. PICK i \in SessionIds : i = task[c].sid
  BY DEF Relay, RInv, TasksOK, TaskOK, Procs
<1>2. CASE Refuse(c)
  BY <1>2, RefuseMoves
<1>3. ASSUME NEW kind \in P2P, i \in byID, c \in Seats(i), ~(memberCount(i) < 2), Still,
             task' = [task EXCEPT ![c] = Emitting(<<Event(kind, peerOf(i, c), i)>>)]
      PROVE  Moved(c)
  <2>1. Seats(i) # {c} /\ IInv
    <3>1. /\ sess[i].members \in Seq(Conns) /\ memberCount(i) \in 1 .. 2
          /\ memberCount(i) = 2 => sess[i].members[1] # sess[i].members[2]
      BY <1>3 DEF RInv, LedgerInv, IInv, TypeOK, Session, SeatsOK
    <3>2. /\ Len(sess[i].members) = 2 /\ 1 \in DOMAIN sess[i].members /\ 2 \in DOMAIN sess[i].members
      BY <1>3, <3>1 DEF memberCount
    <3>3. sess[i].members[1] \in Seats(i) /\ sess[i].members[2] \in Seats(i)
      BY <3>2 DEF Seats
    <3> QED BY <3>1, <3>2, <3>3 DEF RInv, LedgerInv, memberCount
  <2>2. PICK es : es = <<Event(kind, peerOf(i, c), i)>>
    OBVIOUS
  <2>3. kind # "ended" /\ kind \in P2P \cup {"ended"}
    BY DEF P2P
  <2>4. Emittable(c, es)'
    BY <1>3, <2>1, <2>2, <2>3, PeerEmittable
  <2> QED BY <1>3, <2>2, <2>4, MovedEmitting, TypesOfTasks DEF RInv, Procs
<1>4. CASE Offer(c, i) /\ task' = [task EXCEPT ![c] = Emitting(OfferEvents(c, i))]
  <2>1. i \in byID /\ c \in Seats(i) /\ ~(memberCount(i) < 2)
    BY <1>4 DEF Offer, OfferResult, lookupMember
  <2>2. Still /\ "offer" \in P2P
    BY <1>4, NegotiateStill DEF RInv, LedgerInv, P2P
  <2> QED BY <1>3, <1>4, <2>1, <2>2 DEF OfferEvents
<1>5. CASE Answer(c, i) /\ task' = [task EXCEPT ![c] = Emitting(AnswerEvents(c, i))]
  <2>1. i \in byID /\ c \in Seats(i) /\ sess[i].state = "offering"
    BY <1>5 DEF Answer, AnswerResult, lookupMember
  <2>2. ~(memberCount(i) < 2)
    BY <2>1 DEF RInv, LedgerInv, IInv, GlareGuard
  <2>3. Still /\ "answer" \in P2P
    BY <1>5, NegotiateStill DEF RInv, LedgerInv, P2P
  <2> QED BY <1>3, <1>5, <2>1, <2>2, <2>3 DEF AnswerEvents
<1>6. CASE /\ CandidateResult(c, i) = "ok" /\ UNCHANGED ledger
           /\ task' = [task EXCEPT ![c] = Emitting(CandidateEvents(c, i))]
  <2>1. i \in byID /\ c \in Seats(i) /\ ~(memberCount(i) < 2)
    BY <1>6 DEF CandidateResult, lookupMember
  <2>2. Still /\ "candidate" \in P2P
    BY <1>6 DEF Still, ledger, P2P
  <2> QED BY <1>3, <1>6, <2>1, <2>2 DEF CandidateEvents
<1> QED BY <1>1, <1>2, <1>4, <1>5, <1>6 DEF Relay

LEMMA LeaveAllMoves ==
    ASSUME RInv, NEW c \in Conns, EngineLeaveAll(c) PROVE Moved(c)
<1> DEFINE x == Busy("drop", None, None)
<1>1. x \in TaskType /\ x.step = "drop" /\ x.todo = <<>>
  BY BusyIs DEF Steps
<1> HIDE DEF x
<1>2. TasksTyped
  BY TypesOfTasks DEF RInv
<1>3. /\ task' \in [Procs -> TaskType] /\ task'[c] = x
      /\ \A q \in Procs : q # c => task'[q] = task[q]
  BY <1>1, <1>2 DEF EngineLeaveAll, TasksTyped, Procs, x
<1>4. life'[c] = "leaving" /\ \A e \in enrolled' : e[1] # c
  BY DEF EngineLeaveAll
<1>5. TaskOK(c)'
  BY <1>1, <1>3, <1>4 DEF TaskOK
<1> QED BY <1>3, <1>5 DEF Moved

LEMMA DropMoves ==
    ASSUME RInv, NEW c \in Conns, Drop(c) PROVE Moved(c)
<1>1. PICK es : es = ConnDroppedEvents(c)
  OBVIOUS
<1>2. /\ IInv /\ TasksTyped /\ c \in Procs /\ ConnDropped(c)
      /\ task' = [task EXCEPT ![c] = Emitting(es)]
  BY <1>1, TypesOfTasks DEF Drop, RInv, LedgerInv, Procs
<1>3. CASE byConn[c] \in byID /\ Seats(byConn[c]) # {c}
  <2>1. PICK i \in SessionIds : i = byConn[c]
    BY <1>2, <1>3 DEF IInv, TypeOK
  <2>2. c \in Seats(i) /\ i \in byID
    BY <1>2, <1>3, <2>1 DEF IInv, IndexesAgree, SeatIndexExact
  <2>3. Still /\ sess'[i].state = "ended"
    BY <1>2, <2>1, <2>2, ConnDroppedStill
  <2>4. es = <<Event("ended", peerOf(i, c), i)>>
    BY <1>1, <1>3, <2>1 DEF ConnDroppedEvents
  <2>5. Emittable(c, es)'
    BY <1>2, <1>3, <2>1, <2>2, <2>3, <2>4, PeerEmittable
  <2> QED BY <1>2, <2>5, MovedEmitting
<1>4. CASE ~(byConn[c] \in byID /\ Seats(byConn[c]) # {c})
  <2>1. es = <<>>
    BY <1>1, <1>4 DEF ConnDroppedEvents
  <2>2. Emittable(c, es)'
    BY <2>1 DEF Emittable
  <2> QED BY <1>2, <2>2, MovedEmitting
<1> QED BY <1>3, <1>4

LEMMA ReapMoves == ASSUME RInv, HandleReap PROVE Moved(Reaper)
<1>1. PICK order \in [1 .. Cardinality(Expired) -> Expired] :
         task' = [task EXCEPT ![Reaper] = Emitting(
                    [k \in DOMAIN order |-> Event("ended", sess[order[k]].members[1], order[k])])]
  BY DEF HandleReap
<1>2. PICK es : es = [k \in DOMAIN order |-> Event("ended", sess[order[k]].members[1], order[k])]
  OBVIOUS
<1>3. PICK n \in Nat : n = Cardinality(Expired)
  <2>1. Expired \subseteq byID /\ IsFiniteSet(byID)
    BY DEF Expired, RInv, LedgerInv
  <2> QED BY <2>1, FS_Subset, FS_CardinalityType
<1>4. IInv /\ TasksTyped /\ Reaper \in Procs /\ Still /\ \A i \in Expired : sess'[i].state = "ended"
  BY TypesOfTasks, ReapStill DEF HandleReap, RInv, LedgerInv, Procs
<1>5. ASSUME NEW k \in 1 .. n
      PROVE  es[k] \in Events /\ EventOK(Reaper, es[k])' /\ es[k].kind = "ended"
  <2>1. PICK i \in Expired : i = order[k]
    BY <1>3
  <2>2. /\ i \in SessionIds /\ i \in byID /\ sess[i].members \in Seq(Conns) /\ Len(sess[i].members) = 1
        /\ sess'[i].members = sess[i].members /\ sess'[i].tenant = sess[i].tenant
        /\ sess'[i].state = "ended" /\ \A c \in Seats(i) : TenantOf[c] = sess[i].tenant
    BY <1>4 DEF Expired, IInv, TypeOK, Session, memberCount, Still, SeatsOK
  <2>3. PICK d \in Conns : d = sess[i].members[1]
    BY <2>2
  <2>4. d \in Seats(i) /\ d \in Seats(i)'
    BY <2>2, <2>3 DEF Seats
  <2>5. es[k] = [kind |-> "ended", to |-> d, sid |-> i]
    BY <1>2, <1>3, <2>1, <2>3 DEF Event
  <2> QED BY <2>2, <2>4, <2>5 DEF EventOK, Events, Kinds, P2P
<1>6. DOMAIN es = 1 .. n /\ es \in Seq(Events)
  <2>1. es \in [1 .. n -> Events]
    BY <1>2, <1>3, <1>5
  <2> QED BY <1>3, <2>1
<1>7. Emittable(Reaper, es)'
  BY <1>5, <1>6 DEF Emittable
<1> QED BY <1>1, <1>2, <1>4, <1>7, MovedEmitting

LEMMA HookMoves == ASSUME RInv, NEW p \in Procs, EmitHook(p) PROVE Moved(p)
<1>1. PICK t \in TaskType : t = task[p]
  BY TypesOfTasks DEF RInv, TasksTyped
<1>2. PICK e \in Events : e = Head(t.todo) /\ e = t.todo[1] /\ t.todo # <<>>
  BY <1>1, HeadOfTask DEF EmitHook, RInv, TasksOK, TaskOK
<1> DEFINE st == IF EngineOn /\ e.kind \in {"started", "joined"} THEN "enrol" ELSE "deliver"
           cl == IF e.kind = "ended" THEN t.cleared \cup {e.sid} ELSE t.cleared
           x == [t EXCEPT !.step = st, !.cleared = cl]
<1>3. st \in {"enrol", "deliver"} /\ (st = "enrol" => e.kind \in {"started", "joined"})
  OBVIOUS
<1>4. cl \in SUBSET SessionIds
  BY DEF TaskType, Events
<1>5. task' = [task EXCEPT ![p] = x] /\ UNCHANGED <<ledger, life>>
  BY <1>1, <1>2 DEF EmitHook, RInv, RelayTypeOK
<1> HIDE DEF st, cl
<1>6. x \in TaskType /\ x.step = st /\ x.todo = t.todo
  BY <1>3, <1>4 DEF TaskType, Steps
<1> HIDE DEF x
<1> QED BY <1>1, <1>2, <1>3, <1>5, <1>6, MovedStep DEF RInv

LEMMA JoinCallMoves == ASSUME RInv, NEW p \in Procs, EngineJoin(p) PROVE Moved(p)
<1>1. PICK t \in TaskType : t = task[p]
  BY TypesOfTasks DEF RInv, TasksTyped
<1>2. t.todo # <<>>
  BY <1>1 DEF EngineJoin, RInv, TasksOK, TaskOK
<1> DEFINE x == [t EXCEPT !.step = "deliver"]
<1>3. task' = [task EXCEPT ![p] = x] /\ UNCHANGED <<ledger, life>>
  BY <1>1 DEF EngineJoin, RInv, RelayTypeOK
<1>4. x \in TaskType /\ x.step = "deliver" /\ x.todo = t.todo
  BY DEF TaskType, Steps
<1> HIDE DEF x
<1> QED BY <1>1, <1>2, <1>3, <1>4, MovedStep DEF RInv

LEMMA FrameMoves == ASSUME RInv, NEW p \in Procs, EmitFrame(p) PROVE Moved(p)
<1>1. PICK t \in TaskType : t = task[p]
  BY TypesOfTasks DEF RInv, TasksTyped
<1>2. t.todo # <<>> /\ t.step = "deliver"
  BY <1>1, SentFrame DEF EmitFrame
<1>3. PICK closed \in SUBSET SessionIds :
         \/ task' = [task EXCEPT ![p] = Popped(p, closed)]
         \/ task' = [task EXCEPT ![p].step = "expel", ![p].closed = closed]
  BY FrameTask
<1>4. UNCHANGED <<ledger, life>> /\ LedgerGrows
  BY DEF EmitFrame, ledger, LedgerGrows, Grows
<1>5. CASE task' = [task EXCEPT ![p] = Popped(p, closed)]
  BY <1>1, <1>2, <1>4, <1>5, MovedPopped DEF RInv
<1>6. CASE task' = [task EXCEPT ![p].step = "expel", ![p].closed = closed]
  <2> DEFINE x == [t EXCEPT !.step = "expel", !.closed = closed]
  <2>1. task' = [task EXCEPT ![p] = x]
    BY <1>1, <1>6 DEF RInv, RelayTypeOK
  <2>2. x \in TaskType /\ x.step = "expel" /\ x.todo = t.todo
    BY DEF TaskType, Steps
  <2> HIDE DEF x
  <2> QED BY <1>1, <1>2, <1>4, <2>1, <2>2, MovedStep DEF RInv
<1> QED BY <1>3, <1>5, <1>6

LEMMA ExpelMoves == ASSUME RInv, [RelayNext]_vars, NEW p \in Procs, Expel(p) PROVE Moved(p)
<1>1. LedgerGrows /\ UNCHANGED life
  BY LedgerInvNext DEF Expel
<1>2. task[p].closed \in SUBSET SessionIds
  BY DEF RInv, RelayTypeOK
<1>3. task' = [task EXCEPT ![p] = Popped(p, task[p].closed)]
  BY DEF Expel
<1> QED BY <1>1, <1>2, <1>3, MovedPopped DEF Expel, RInv

LEMMA HandleMoves == ASSUME RInv, NEW c \in Conns, Handle(c) PROVE Moved(c)
BY StartMoves, JoinMoves, EndMoves, P2PMoves, EngineSignalMoves DEF Handle

LEMMA ContinueMoves ==
    ASSUME RInv, NEW c \in Conns, Continue(c)
    PROVE  Moved(c) \/ UNCHANGED <<byID, task, gauge>>
<1>1. CASE NegotiateSteer(c) \/ Relay(c)
  BY <1>1, SteerMoves, RelayMoves
<1>2. CASE EngineReply(c)
  <2>1. \/ Refuse(c) \/ task' = [task EXCEPT ![c] = Idle]
        \/ UNCHANGED <<byID, task, gauge>>
    BY <1>2 DEF EngineReply, Dispatch, ledger
  <2> QED BY <2>1, RefuseMoves, MovedIdle, TypesOfTasks DEF RInv, Procs
<1> QED BY <1>1, <1>2 DEF Continue

(* A step is some goroutine's, and leaves the others' affairs alone; or it *)
(* is about no task, and a life that ends has none.                        *)
Mover(p) ==
    /\ Moved(p)
    /\ \A q \in Conns : q # p => life'[q] = life[q]
    /\ \A e \in enrolled' : e \in enrolled \/ e[1] = p

NoMove ==
    /\ UNCHANGED <<byID, task, enrolled, gauge>>
    /\ \A q \in Conns : life[q] \in {"open", "leaving"} => life'[q] = life[q] \/ task[q] = Idle

LEMMA OneMoves ==
    ASSUME RInv, [RelayNext]_vars
    PROVE  NoMove \/ \E p \in Procs : Mover(p)
<1>0. life \in [Conns -> {"new", "open", "leaving", "dropped", "gone"}] /\ Conns \subseteq Procs
  BY DEF RInv, RelayTypeOK, Procs
<1>1. ASSUME NEW c \in Conns, Handle(c) PROVE Mover(c)
  <2>1. Moved(c)
    BY <1>1, HandleMoves
  <2>2. UNCHANGED <<life, enrolled>>
    BY <1>1 DEF Handle, HandleStart, HandleJoin, HandleEnd, HandleP2P, HandleEngineSignal,
                Refuse, Begin
  <2> QED BY <2>1, <2>2 DEF Mover
<1>2. ASSUME NEW c \in Conns, Continue(c) PROVE Mover(c) \/ NoMove
  <2>1. UNCHANGED <<life, enrolled>>
    BY <1>2 DEF Continue, NegotiateSteer, Relay, EngineReply, Dispatch, Refuse
  <2> QED BY <1>2, <2>1, ContinueMoves DEF Mover, NoMove
<1>3. ASSUME NEW c \in Conns, EngineLeaveAll(c) \/ Drop(c) PROVE Mover(c)
  <2>1. Moved(c)
    BY <1>3, LeaveAllMoves, DropMoves
  <2> QED BY <1>0, <1>3, <2>1 DEF Mover, EngineLeaveAll, Drop
<1>4. ASSUME NEW c \in Conns,
             Unregister(c) \/ Connect(c) \/ Write(c) \/ WriterExits(c) \/ ReaderReturns(c)
      PROVE  NoMove
  BY <1>0, <1>4 DEF Unregister, Connect, Write, WriterExits, ReaderReturns, ledger, NoMove
<1>5. ASSUME NEW p \in Procs, EmitHook(p) \/ EmitFrame(p) \/ Expel(p) PROVE Mover(p)
  <2>1. Moved(p)
    BY <1>5, HookMoves, FrameMoves, ExpelMoves
  <2> QED BY <1>5, <2>1 DEF Mover, EmitHook, EmitFrame, Expel
<1>6. ASSUME NEW p \in Procs, EngineJoin(p) PROVE Mover(p)
  <2>1. PICK e \in Events : e = Head(task[p].todo) /\ EventOK(p, e) /\ e = task[p].todo[1]
    BY <1>6, FirstEvent
  <2>2. e.to = p
    BY <1>6, <2>1, EnrolsItself
  <2>3. enrolled' \subseteq enrolled \cup {<<p, e.sid>>} /\ life' = life
    BY <1>6, <2>1, <2>2 DEF EngineJoin
  <2> QED BY <1>6, <2>3, JoinCallMoves DEF Mover
<1>7. CASE HandleReap
  <2>1. Reaper \in Procs
    BY DEF Procs
  <2> QED BY <1>7, <2>1, ReapMoves DEF HandleReap, Mover
<1>8. CASE RelayTick \/ UNCHANGED vars
  BY <1>8 DEF RelayTick, Tick, vars, plane, ledger, NoMove
<1> QED BY <1>1, <1>2, <1>3, <1>4, <1>5, <1>6, <1>7, <1>8, <1>0 DEF RelayNext, Teardown, Emit

LEMMA TasksNext == RInv /\ [RelayNext]_vars => TasksOK' /\ TasksTyped'
<1> SUFFICES ASSUME RInv, [RelayNext]_vars PROVE TasksOK' /\ TasksTyped'
  OBVIOUS
<1>0. RelayTypeOK /\ TasksOK /\ LedgerGrows /\ TasksTyped
  BY LedgerInvNext, TypesOfTasks DEF RInv
<1>1. ASSUME NEW p \in Procs, Mover(p), NEW q \in Procs PROVE TaskOK(q)'
  <2>1. CASE q = p
    BY <1>1, <2>1 DEF Mover, Moved
  <2>2. CASE q # p
    <3>1. /\ task'[q] = task[q] /\ (q \in Conns => life'[q] = life[q])
          /\ \A e \in enrolled' : e \in enrolled \/ e[1] # q
      BY <1>1, <2>2 DEF Mover, Moved
    <3> QED BY <1>0, <3>1, TaskStays DEF TasksOK
  <2> QED BY <2>1, <2>2
<1>2. ASSUME NoMove, NEW q \in Procs PROVE TaskOK(q)'
  <2>1. CASE task[q] = Idle
    <3>1. task'[q] = Idle
      BY <1>2, <2>1 DEF NoMove
    <3> QED BY <3>1 DEF TaskOK, Idle
  <2>2. CASE task[q] # Idle
    <3>1. /\ task'[q] = task[q] /\ (q \in Conns /\ life[q] \in {"open", "leaving"} => life'[q] = life[q])
          /\ \A e \in enrolled' : e \in enrolled \/ e[1] # q
      BY <1>2, <2>2 DEF NoMove
    <3> QED BY <1>0, <3>1, TaskStays DEF TasksOK
  <2> QED BY <2>1, <2>2
<1>3. TasksTyped'
  BY <1>0, OneMoves DEF NoMove, Mover, Moved, TasksTyped
<1> QED BY <1>1, <1>2, <1>3, OneMoves DEF TasksOK

-----------------------------------------------------------------------------
(* Types.                                                                  *)

Lives == {"new", "open", "leaving", "dropped", "gone"}

Fields ==
    /\ life \in [Conns -> Lives]
    /\ capable \subseteq Conns
    /\ writing \in [Conns -> BOOLEAN]
    /\ backlog \in [Conns -> 0 .. QueueCap]
    /\ enrolled \subseteq Conns \X SessionIds
    /\ steered \subseteq SessionIds
    /\ gauge \in Int
    /\ told \in [Conns -> [SessionIds -> Beliefs]]
    /\ refused \subseteq Conns \X SessionIds

LEMMA TypeParts == RelayTypeOK <=> TypeOK /\ TasksTyped /\ Fields
BY DEF RelayTypeOK, TasksTyped, TaskType, Steps, Fields, Lives

LEMMA TypePartsNext == RelayTypeOK' <=> TypeOK' /\ TasksTyped' /\ Fields'
BY DEF RelayTypeOK, TasksTyped, TaskType, Steps, Fields, Lives

LEMMA EnqueueType ==
    ASSUME backlog \in [Conns -> 0 .. QueueCap], NEW c \in Conns, Enqueue(c)
    PROVE  backlog' \in [Conns -> 0 .. QueueCap]
BY DEF Enqueue, Full

LEMMA ToldType ==
    ASSUME NEW b \in Beliefs, NEW k \in Kinds PROVE Told(b, k) \in Beliefs
  BY DEF Told, Beliefs

LEMMA PeerTyped ==
    ASSUME IInv, NEW i \in byID, NEW c \in Conns, Seats(i) # {c}
    PROVE  peerOf(i, c) \in Conns
<1>1. /\ sess[i].members \in Seq(Conns) /\ Len(sess[i].members) \in 1 .. 2
  BY DEF IInv, TypeOK, Session, SeatsOK, memberCount
<1>2. /\ sess[i].members[1] \in Conns
      /\ Len(sess[i].members) = 1 => Seats(i) = {sess[i].members[1]}
      /\ Len(sess[i].members) = 2 => sess[i].members[2] \in Conns
  BY <1>1, FirstSeat DEF Seats
<1> QED BY <1>1, <1>2 DEF peerOf

LEMMA FieldsNext ==
    ASSUME RInv, [RelayNext]_vars
    PROVE  Fields'
<1>0. Fields
  BY TypeParts DEF RInv
<1> DEFINE Rest == UNCHANGED <<life, capable, writing, enrolled, steered, gauge, told, refused>>
<1>a. ASSUME Rest, backlog' \in [Conns -> 0 .. QueueCap] PROVE Fields'
  BY <1>0, <1>a DEF Fields
<1>b. ASSUME NEW c \in Conns, Refuse(c) PROVE Fields'
  BY <1>0, <1>a, <1>b, EnqueueType DEF Refuse, Fields
<1>c. ASSUME Rest, UNCHANGED backlog PROVE Fields'
  BY <1>0, <1>c DEF Fields
<1>1. ASSUME NEW c \in Conns, Handle(c) PROVE Fields'
  <2>1. Refuse(c) \/ (Rest /\ UNCHANGED backlog)
    BY <1>1 DEF Handle, HandleStart, HandleJoin, HandleEnd, HandleP2P, HandleEngineSignal, Begin
  <2> QED BY <1>b, <1>c, <2>1
<1>2. ASSUME NEW c \in Conns, Relay(c) PROVE Fields'
  <2>1. Refuse(c) \/ (Rest /\ UNCHANGED backlog)
    BY <1>2 DEF Relay
  <2> QED BY <1>b, <1>c, <2>1
<1>3. ASSUME NEW c \in Conns, NegotiateSteer(c) PROVE Fields'
  <2>1. task[c].sid \in SessionIds
    BY <1>3 DEF NegotiateSteer, RInv, TasksOK, TaskOK, Procs
  <2> QED BY <1>0, <1>3, <2>1 DEF NegotiateSteer, Fields
<1>4. ASSUME NEW c \in Conns, EngineReply(c) PROVE Fields'
  <2>1. PICK i \in SessionIds : i = task[c].sid
    BY <1>4 DEF EngineReply, RInv, TasksOK, TaskOK, Procs
  <2>2. ASSUME NEW d \in Conns, Dispatch(d, i) PROVE Fields'
    BY <1>0, <2>2, EnqueueType DEF Dispatch, Fields
  <2>3. ASSUME i \in byID, Seats(i) # {c} PROVE peerOf(i, c) \in Conns
    BY <2>3, PeerTyped DEF RInv, LedgerInv
  <2>4. Refuse(c) \/ (Rest /\ UNCHANGED backlog) \/ \E d \in Conns : Dispatch(d, i)
    BY <1>4, <2>1, <2>3 DEF EngineReply
  <2> QED BY <1>b, <1>c, <2>2, <2>4
<1>5. ASSUME NEW c \in Conns,
             Teardown(c) \/ Connect(c) \/ Write(c) \/ WriterExits(c) \/ ReaderReturns(c)
      PROVE  Fields'
  <2>1. CASE Teardown(c)
    BY <1>0, <2>1 DEF Teardown, EngineLeaveAll, Drop, Unregister, Fields, Lives
  <2>2. CASE Connect(c)
    BY <1>0, <2>2 DEF Connect, Fields, Lives
  <2>3. CASE Write(c)
    <3>1. backlog' \in [Conns -> 0 .. QueueCap]
      BY <1>0, <2>3 DEF Write, Fields
    <3> QED BY <1>a, <2>3, <3>1 DEF Write
  <2>4. CASE WriterExits(c) \/ ReaderReturns(c)
    BY <1>0, <2>4 DEF WriterExits, ReaderReturns, Fields, Lives
  <2> QED BY <1>5, <2>1, <2>2, <2>3, <2>4
<1>6. ASSUME NEW p \in Procs, EmitHook(p) \/ EngineJoin(p) PROVE Fields'
  <2>1. PICK e \in Events : e = Head(task[p].todo)
    BY <1>6, FirstEvent
  <2>2. e.to \in Conns /\ e.sid \in SessionIds
    BY DEF Events
  <2> QED BY <1>0, <1>6, <2>1, <2>2 DEF EmitHook, EngineJoin, Fields
<1>7. ASSUME NEW p \in Procs, EmitFrame(p) PROVE Fields'
  <2>1. PICK e \in Events : SendFrame(p, e)
    BY <1>7, SentFrame
  <2>2. e.to \in Conns /\ e.sid \in SessionIds /\ e.kind \in Kinds
    BY DEF Events
  <2>3. UNCHANGED <<life, capable, writing, enrolled, steered>>
    BY <1>7 DEF EmitFrame
  <2>0. /\ \/ Enqueue(e.to)
           \/ UNCHANGED backlog
        /\ gauge' \in {gauge, gauge - 1}
        /\ refused' \in {refused, refused \cup {<<e.to, e.sid>>}}
    BY <2>1 DEF SendFrame
  <2>4. backlog' \in [Conns -> 0 .. QueueCap] /\ gauge' \in Int
    <3>1. backlog' \in [Conns -> 0 .. QueueCap]
      BY <1>0, <2>0, <2>2, EnqueueType DEF Fields
    <3>2. gauge' \in Int
      BY <1>0, <2>0 DEF Fields
    <3> QED BY <3>1, <3>2
  <2>5. refused' \subseteq Conns \X SessionIds
    BY <1>0, <2>0, <2>2 DEF Fields
  <2>6. told' \in [Conns -> [SessionIds -> Beliefs]]
    <3>1. told[e.to][e.sid] \in Beliefs
      BY <1>0, <2>2 DEF Fields
    <3>2. Told(told[e.to][e.sid], e.kind) \in Beliefs
      BY <2>2, <3>1, ToldType
    <3>3. \/ told' = told
          \/ told' = [told EXCEPT ![e.to][e.sid] = Told(@, e.kind)]
      BY <2>1 DEF SendFrame
    <3>4. PICK b \in Beliefs : b = Told(told[e.to][e.sid], e.kind)
      BY <3>2
    <3>5. told' = told \/ told' = [told EXCEPT ![e.to] = [told[e.to] EXCEPT ![e.sid] = b]]
      BY <1>0, <2>2, <3>3, <3>4 DEF Fields
    <3>6. [told[e.to] EXCEPT ![e.sid] = b] \in [SessionIds -> Beliefs]
      BY <1>0, <2>2 DEF Fields
    <3> QED BY <1>0, <3>5, <3>6 DEF Fields
  <2> QED BY <1>0, <2>3, <2>4, <2>5, <2>6 DEF Fields
<1>8. ASSUME NEW p \in Procs, Expel(p) PROVE Fields'
  BY <1>c, <1>8 DEF Expel
<1>9. CASE HandleReap \/ RelayTick \/ UNCHANGED vars
  BY <1>c, <1>9 DEF HandleReap, RelayTick, plane, vars
<1> QED BY <1>1, <1>2, <1>3, <1>4, <1>5, <1>6, <1>7, <1>8, <1>9 DEF RelayNext, Continue, Emit

-----------------------------------------------------------------------------
LEMMA RelayInitInv == RelayInit => RInv
<1> SUFFICES ASSUME RelayInit PROVE RInv
  OBVIOUS
<1>1. LedgerInv
  BY InitInv, FS_EmptySet DEF RelayInit, LedgerInv, Init
<1>2. Fields
  BY DEF RelayInit, Fields, Lives, Beliefs
<1>3. TasksTyped
  BY DEF RelayInit, TasksTyped, TaskType, Steps, Idle
<1>4. RelayTypeOK
  BY <1>1, <1>2, <1>3, TypeParts DEF LedgerInv, IInv
<1>5. TasksOK
  BY DEF RelayInit, TasksOK, TaskOK, Idle
<1>6. SessionNeedsSockets /\ EngineSideSound
  BY DEF RelayInit, Init, SessionNeedsSockets, EngineSideSound, EnrolmentNeedsSocket, SteerNeedsBoth
<1>7. HeardRight
  BY DEF RelayInit, HeardRight, HeardEnd
<1> QED BY <1>1, <1>4, <1>5, <1>6, <1>7 DEF RInv

LEMMA RelayInvNext == RInv /\ [RelayNext]_vars => RInv'
<1> SUFFICES ASSUME RInv, [RelayNext]_vars PROVE RInv'
  OBVIOUS
<1>1. LedgerInv'
  BY LedgerInvNext
<1>2. RelayTypeOK'
  BY <1>1, TasksNext, FieldsNext, TypePartsNext DEF LedgerInv, IInv
<1>3. TasksOK'
  BY TasksNext
<1>4. SessionNeedsSockets'
  BY SocketsNext
<1>5. EngineSideSound'
  BY EnrolmentNext, SteerNext DEF EngineSideSound
<1>6. HeardRight'
  BY HeardNext
<1> QED BY <1>1, <1>2, <1>3, <1>4, <1>5, <1>6 DEF RInv

THEOREM RelayInvariance == RelaySpec => []RInv
BY RelayInitInv, RelayInvNext, PTL DEF RelaySpec

(* The relay uses the ledger as the ledger means to be used: whatever its  *)
(* goroutines interleave, what it does to the sessions is a behaviour of   *)
(* the ledger (signaling/router.go over session/manager.go).               *)
THEOREM RelayImplementsLedger == RelaySpec => Spec
<1>1. RelayInit => Init
  BY DEF RelayInit
<1> QED BY <1>1, RelayInvariance, RelayStepIsLedgerStep, PTL DEF RelaySpec, Spec

(* So two browsers behind the relay see the negotiation protocol.          *)
THEOREM RelayImplementsNegotiation == RelaySpec => ImplementsNegotiation
BY RelayImplementsLedger, LedgerImplementsNegotiation, PTL

(* The relay's variables keep their shape.                                 *)
THEOREM RelayTypeCorrect == RelaySpec => []RelayTypeOK
<1>1. RInv => RelayTypeOK
  BY DEF RInv
<1> QED BY <1>1, RelayInvariance, PTL

(* No session outlives the sockets it binds (router.go ConnClosed).        *)
THEOREM SessionsNeedSockets == RelaySpec => []SessionNeedsSockets
<1>1. RInv => SessionNeedsSockets
  BY DEF RInv
<1> QED BY <1>1, RelayInvariance, PTL

(* An enrolment outlives no socket, and a steered session has both members *)
(* and their consent (events.go, steer.go).                                *)
THEOREM EngineSideAlwaysSound == RelaySpec => []EngineSideSound
<1>1. RInv => EngineSideSound
  BY DEF RInv
<1> QED BY <1>1, RelayInvariance, PTL

-----------------------------------------------------------------------------
(* The gauge. It may lag behind the starts whose hook is still to run, and *)
(* leads by the ends whose first notice is still to be delivered.          *)

EndsIn(p) == {i \in SessionIds :
                 \E k \in DOMAIN task[p].todo :
                    task[p].todo[k].kind = "ended" /\ task[p].todo[k].sid = i}

ToClose(p) == EndsIn(p) \ task[p].closed

Starting(p) == {i \in SessionIds : /\ task[p].step = "hook"
                                   /\ task[p].todo[1].kind = "started"
                                   /\ task[p].todo[1].sid = i}

Counted == byID \cup UNION {ToClose(p) : p \in Procs}
Awaited == UNION {Starting(p) : p \in Procs}

EndsApart == \A p, q \in Procs : p # q => EndsIn(p) \cap EndsIn(q) = {}

GaugeInv ==
    /\ EndsApart
    /\ IsFiniteSet(Counted) /\ IsFiniteSet(Awaited)
    /\ gauge + Cardinality(Awaited) >= Cardinality(Counted)

(* What p's step leaves alone.                                             *)
LEMMA OthersCount ==
    ASSUME NEW p \in Procs, NEW q \in Procs, task'[q] = task[q]
    PROVE  EndsIn(q)' = EndsIn(q) /\ ToClose(q)' = ToClose(q) /\ Starting(q)' = Starting(q)
BY DEF EndsIn, ToClose, Starting

(* An end still to be reported is of a session that is over, a start of    *)
(* one that its emitter opened.                                            *)
LEMMA PendingEvents ==
    ASSUME RInv, NEW p \in Procs
    PROVE  /\ EndsIn(p) \cap byID = {}
           /\ \A i \in EndsIn(p) : sess[i].state = "ended"
           /\ \A i \in Starting(p) : p = sess[i].members[1] /\ sess[i].members # <<>>
<1>1. ASSUME NEW i \in EndsIn(p) PROVE sess[i].state = "ended" /\ i \notin byID
  <2>0. PICK k \in DOMAIN task[p].todo : task[p].todo[k].kind = "ended" /\ task[p].todo[k].sid = i
    BY DEF EndsIn
  <2>1. EventOK(p, task[p].todo[k])
    BY DEF RInv, TasksOK, TaskOK
  <2>2. sess[i].state = "ended"
    BY <2>0, <2>1 DEF EventOK
  <2> QED BY <2>2, RegisteredNotEnded DEF RInv, LedgerInv
<1>2. ASSUME NEW i \in Starting(p) PROVE p = sess[i].members[1] /\ sess[i].members # <<>>
  <2>1. PICK e \in Events : e = task[p].todo[1] /\ EventOK(p, e) /\ e.kind = "started" /\ e.sid = i
    BY <1>2, HeadOfTask DEF Starting, RInv
  <2>2. p = sess[i].members[1] /\ Seats(i) # {}
    BY <2>1 DEF EventOK
  <2>3. sess[i].members # <<>>
    BY <2>2 DEF Seats
  <2> QED BY <2>2, <2>3
<1> QED BY <1>1, <1>2

LEMMA StartsApart ==
    ASSUME RInv, NEW p \in Procs, NEW q \in Procs, NEW i \in Starting(p), i \in Starting(q)
    PROVE  p = q
BY PendingEvents

LEMMA StartingFinite ==
    ASSUME NEW p PROVE IsFiniteSet(Starting(p))
<1>1. CASE Starting(p) = {}
  BY <1>1, FS_EmptySet
<1>2. ASSUME NEW i \in Starting(p) PROVE Starting(p) = {i}
  BY <1>2 DEF Starting
<1> QED BY <1>1, <1>2, FS_Singleton

LEMMA StartingFiniteNext ==
    ASSUME NEW p PROVE IsFiniteSet(Starting(p)')
<1>1. CASE Starting(p)' = {}
  BY <1>1, FS_EmptySet
<1>2. CASE Starting(p)' # {}
  <2>1. PICK i : i \in Starting(p)'
    BY <1>2
  <2>2. Starting(p)' = {i}
    BY <2>1 DEF Starting
  <2> QED BY <2>2, FS_Singleton
<1> QED BY <1>1, <1>2

(* The steps that only lose ends and only gain starts.                     *)
Calm(p) ==
    /\ byID' \subseteq byID /\ gauge' = gauge
    /\ EndsIn(p)' \subseteq EndsIn(p) \cup byID
    /\ ToClose(p)' \subseteq ToClose(p) \cup byID
    /\ Starting(p) \subseteq Starting(p)'

LEMMA CalmKeepsGauge ==
    ASSUME RInv, GaugeInv, NEW p \in Procs, \A q \in Procs : q # p => task'[q] = task[q], Calm(p)
    PROVE  GaugeInv'
<1>0. \A q \in Procs : q # p =>
        EndsIn(q)' = EndsIn(q) /\ ToClose(q)' = ToClose(q) /\ Starting(q)' = Starting(q)
  BY OthersCount
<1>1. EndsApart'
  <2>1. \A q \in Procs : q # p => EndsIn(p)' \cap EndsIn(q)' = {}
    BY <1>0, PendingEvents DEF Calm, GaugeInv, EndsApart
  <2> QED BY <1>0, <2>1 DEF GaugeInv, EndsApart
<1>2. Counted' \subseteq Counted
  BY <1>0 DEF Counted, Calm
<1>3. Awaited \subseteq Awaited' /\ IsFiniteSet(Awaited')
  <2>1. Awaited' \subseteq Awaited \cup Starting(p)'
    BY <1>0 DEF Awaited
  <2>2. IsFiniteSet(Awaited \cup Starting(p)')
    BY StartingFiniteNext, FS_Union DEF GaugeInv
  <2>3. Awaited \subseteq Awaited'
    BY <1>0 DEF Awaited, Calm
  <2> QED BY <2>1, <2>2, <2>3, FS_Subset
<1>4. /\ IsFiniteSet(Counted') /\ Cardinality(Counted') <= Cardinality(Counted)
      /\ Cardinality(Awaited) <= Cardinality(Awaited')
      /\ Cardinality(Counted') \in Nat /\ Cardinality(Awaited') \in Nat
      /\ Cardinality(Counted) \in Nat /\ Cardinality(Awaited) \in Nat
  BY <1>2, <1>3, FS_Subset, FS_CardinalityType DEF GaugeInv
<1>5. gauge \in Int /\ gauge' = gauge
  BY DEF RInv, RelayTypeOK, Calm
<1> QED BY <1>1, <1>3, <1>4, <1>5 DEF GaugeInv

(* A goroutine that gets a new list of events: their ends are of sessions  *)
(* that were live a moment ago.                                            *)
LEMMA CalmByNewEvents ==
    ASSUME NEW p \in Procs, task[p].step # "hook", byID' \subseteq byID, gauge' = gauge,
           \A k \in DOMAIN task'[p].todo :
              task'[p].todo[k].kind = "ended" => task'[p].todo[k].sid \in byID
    PROVE  Calm(p)
<1>1. Starting(p) = {}
  BY DEF Starting
<1>2. EndsIn(p)' \subseteq byID
  BY DEF EndsIn
<1> QED BY <1>1, <1>2 DEF Calm, ToClose

(* A goroutine that goes on with what is left of its list.                 *)
LEMMA CalmByRest ==
    ASSUME NEW p \in Procs, Starting(p) = {}, byID' \subseteq byID, gauge' = gauge,
           \A k \in DOMAIN task'[p].todo :
              \E m \in DOMAIN task[p].todo : task'[p].todo[k] = task[p].todo[m],
           task[p].closed \subseteq task'[p].closed \/ task'[p].todo = <<>> \/ EndsIn(p) = {}
    PROVE  Calm(p)
<1>1. EndsIn(p)' \subseteq EndsIn(p)
  BY DEF EndsIn
<1>2. task'[p].todo = <<>> => EndsIn(p)' = {}
  BY DEF EndsIn
<1> QED BY <1>1, <1>2 DEF Calm, ToClose

LEMMA IdleCalm ==
    ASSUME RInv, NEW p \in Procs, task' = [task EXCEPT ![p] = Idle], task[p].step # "hook",
           byID' \subseteq byID, gauge' = gauge
    PROVE  Calm(p)
<1>1. task'[p].todo = <<>>
  BY TypesOfTasks DEF RInv, TasksTyped, Idle
<1> QED BY <1>1, CalmByNewEvents

LEMMA EmittingCalm ==
    ASSUME RInv, NEW p \in Procs, NEW es, task' = [task EXCEPT ![p] = Emitting(es)],
           task[p].step # "hook", byID' \subseteq byID, gauge' = gauge,
           \A k \in DOMAIN es : es[k].kind = "ended" => es[k].sid \in byID
    PROVE  Calm(p)
<1>1. task'[p].todo = es
  BY TypesOfTasks DEF RInv, TasksTyped, Emitting, Idle
<1> QED BY <1>1, CalmByNewEvents

LEMMA RefuseCalm == ASSUME RInv, NEW c \in Conns, Refuse(c), task[c].step # "hook" PROVE Calm(c)
BY IdleCalm DEF Refuse, ledger, Procs

LEMMA PeerEventNotEnd ==
    ASSUME NEW kind \in P2P, NEW x, NEW i
    PROVE  \A k \in DOMAIN <<Event(kind, x, i)>> :
              <<Event(kind, x, i)>>[k].kind = "ended" => <<Event(kind, x, i)>>[k].sid \in byID
BY DEF Event, P2P

LEMMA HandlersCalm ==
    ASSUME RInv, NEW c \in Conns, Handle(c)
    PROVE  Calm(c) \/ \E i \in SessionIds :
                         /\ Start(c, i) /\ gauge' = gauge
                         /\ task' = [task EXCEPT ![c] = Emitting(StartEvents(c, i))]
<1>0. c \in Procs /\ TasksTyped
  BY TypesOfTasks DEF RInv, Procs
<1>a. task[c].step # "hook"
  <2>1. task[c] = Idle
    BY DEF Handle, HandleStart, HandleJoin, HandleEnd, HandleP2P, HandleEngineSignal, Ready
  <2> QED BY <2>1 DEF Idle
<1>b. ASSUME NEW st \in Steps, NEW kd \in P2P \cup {None}, NEW i \in SessionIds, Begin(c, st, kd, i)
      PROVE  Calm(c)
  <2>1. task'[c] = Busy(st, kd, i) /\ UNCHANGED <<byID, gauge>>
    BY <1>0, <1>b DEF Begin, TasksTyped, ledger
  <2>2. task'[c].todo = <<>>
    BY <2>1, BusyIs
  <2> QED BY <1>0, <1>a, <2>1, <2>2, CalmByNewEvents
<1>1. CASE HandleStart(c)
  BY <1>a, <1>1, RefuseCalm DEF HandleStart
<1>2. ASSUME NEW i \in SessionIds, HandleJoin(c, i) PROVE Calm(c)
  <2>1. CASE JoinResult(c, i) = "ok"
    <3>1. /\ task' = [task EXCEPT ![c] = [Busy("negotiate", None, i) EXCEPT !.todo = JoinEvents(c, i)]]
          /\ UNCHANGED <<byID, gauge>>
      BY <1>2, <2>1 DEF HandleJoin, Join
    <3>2. task'[c].todo = JoinEvents(c, i)
      BY <1>0, <3>1 DEF TasksTyped, Busy, Idle
    <3>3. \A k \in DOMAIN JoinEvents(c, i) : JoinEvents(c, i)[k].kind # "ended"
      BY DEF JoinEvents, Event
    <3> QED BY <1>0, <1>a, <3>1, <3>2, <3>3, CalmByNewEvents
  <2>2. CASE JoinResult(c, i) # "ok"
    BY <1>a, <1>2, <2>2, RefuseCalm DEF HandleJoin
  <2> QED BY <2>1, <2>2
<1>3. ASSUME NEW i \in SessionIds, HandleEnd(c, i) PROVE Calm(c)
  <2>1. CASE EndResult(c, i) = "ok"
    <3>1. /\ End(c, i, "member_ended") /\ task' = [task EXCEPT ![c] = Emitting(endEvents(i))]
          /\ gauge' = gauge
      BY <1>3, <2>1 DEF HandleEnd
    <3>2. i \in byID /\ byID' \subseteq byID
      BY <3>1, EndStill DEF Still, RInv, LedgerInv, Reasons
    <3>3. \A k \in DOMAIN endEvents(i) : endEvents(i)[k].sid = i
      BY DEF endEvents, Event
    <3> QED BY <1>0, <1>a, <3>1, <3>2, <3>3, EmittingCalm
  <2>2. CASE EndResult(c, i) # "ok"
    BY <1>a, <1>3, <2>2, RefuseCalm DEF HandleEnd
  <2> QED BY <2>1, <2>2
<1>4. ASSUME NEW i \in SessionIds, NEW kind \in P2P, HandleP2P(c, kind, i) PROVE Calm(c)
  BY <1>a, <1>b, <1>4, RefuseCalm DEF HandleP2P, Steps
<1>5. ASSUME NEW i \in SessionIds, HandleEngineSignal(c, i) PROVE Calm(c)
  BY <1>a, <1>b, <1>5, RefuseCalm DEF HandleEngineSignal, Steps
<1> QED BY <1>1, <1>2, <1>3, <1>4, <1>5 DEF Handle

LEMMA ContinueCalm ==
    ASSUME RInv, [RelayNext]_vars, NEW c \in Conns, Continue(c), task' # task
    PROVE  Calm(c)
<1>0. c \in Procs /\ TasksTyped
  BY TypesOfTasks DEF RInv, Procs
<1>1. CASE NegotiateSteer(c)
  <2>1. task' = [task EXCEPT ![c] = Emitting(task[c].todo)] /\ UNCHANGED <<byID, gauge>>
    BY <1>0, <1>1 DEF NegotiateSteer, TasksTyped, ledger
  <2>2. task[c].step # "hook" /\ \A k \in DOMAIN task[c].todo : task[c].todo[k].kind # "ended"
    BY <1>0, <1>1 DEF NegotiateSteer, RInv, TasksOK, TaskOK
  <2> QED BY <1>0, <2>1, <2>2, EmittingCalm
<1>2. CASE Relay(c)
  <2>1. PICK i \in SessionIds : i = task[c].sid
    BY <1>2 DEF Relay, RInv, TasksOK, TaskOK, Procs
  <2>2. task[c].step # "hook"
    BY <1>2 DEF Relay
  <2>3. CASE Refuse(c)
    BY <2>2, <2>3, RefuseCalm
  <2>4. ASSUME NEW kind \in P2P, UNCHANGED <<byID, gauge>>,
               task' = [task EXCEPT ![c] = Emitting(<<Event(kind, peerOf(i, c), i)>>)]
        PROVE  Calm(c)
    BY <1>0, <2>2, <2>4, PeerEventNotEnd, EmittingCalm
  <2>5. CASE Offer(c, i) /\ gauge' = gauge /\ task' = [task EXCEPT ![c] = Emitting(OfferEvents(c, i))]
    BY <2>4, <2>5 DEF Offer, OfferEvents, P2P
  <2>6. CASE Answer(c, i) /\ gauge' = gauge /\ task' = [task EXCEPT ![c] = Emitting(AnswerEvents(c, i))]
    BY <2>4, <2>6 DEF Answer, AnswerEvents, P2P
  <2>7. CASE /\ UNCHANGED ledger /\ gauge' = gauge
             /\ task' = [task EXCEPT ![c] = Emitting(CandidateEvents(c, i))]
    BY <2>4, <2>7 DEF CandidateEvents, ledger, P2P
  <2> QED BY <1>2, <2>1, <2>3, <2>5, <2>6, <2>7 DEF Relay
<1>3. CASE EngineReply(c)
  <2>1. task[c].step # "hook"
    BY <1>3 DEF EngineReply
  <2>2. \/ Refuse(c)
        \/ task' = [task EXCEPT ![c] = Idle] /\ UNCHANGED <<byID, gauge>>
    BY <1>3 DEF EngineReply, Dispatch, ledger
  <2> QED BY <1>0, <2>1, <2>2, RefuseCalm, IdleCalm
<1> QED BY <1>1, <1>2, <1>3 DEF Continue

LEMMA TeardownCalm ==
    ASSUME RInv, [RelayNext]_vars, NEW c \in Conns, EngineLeaveAll(c) \/ Drop(c)
    PROVE  Calm(c)
<1>0. c \in Procs /\ TasksTyped
  BY TypesOfTasks DEF RInv, Procs
<1>1. CASE EngineLeaveAll(c)
  <2>1. task'[c] = Busy("drop", None, None) /\ UNCHANGED <<byID, gauge>> /\ task[c] = Idle
    BY <1>0, <1>1 DEF EngineLeaveAll, TasksTyped, ledger
  <2>2. task'[c].todo = <<>>
    BY <2>1, BusyIs DEF Steps
  <2>3. task[c].step # "hook"
    BY <2>1 DEF Idle
  <2> QED BY <1>0, <2>1, <2>2, <2>3, CalmByNewEvents
<1>2. CASE Drop(c)
  <2>1. /\ task' = [task EXCEPT ![c] = Emitting(ConnDroppedEvents(c))] /\ gauge' = gauge
        /\ task[c].step # "hook" /\ ConnDropped(c)
    BY <1>2 DEF Drop
  <2>2. byID' \subseteq byID
    BY <2>1, ConnDroppedStill DEF Still, RInv, LedgerInv
  <2>3. \A k \in DOMAIN ConnDroppedEvents(c) : ConnDroppedEvents(c)[k].sid \in byID
    BY DEF ConnDroppedEvents, Event
  <2> QED BY <1>0, <2>1, <2>2, <2>3, EmittingCalm
<1> QED BY <1>1, <1>2

LEMMA ReapCalm == ASSUME RInv, [RelayNext]_vars, HandleReap PROVE Calm(Reaper)
<1>1. PICK order \in [1 .. Cardinality(Expired) -> Expired] :
         task' = [task EXCEPT ![Reaper] = Emitting(
                    [k \in DOMAIN order |-> Event("ended", sess[order[k]].members[1], order[k])])]
  BY DEF HandleReap
<1>2. PICK es : es = [k \in DOMAIN order |-> Event("ended", sess[order[k]].members[1], order[k])]
  OBVIOUS
<1>3. ASSUME NEW k \in DOMAIN es PROVE es[k].sid \in byID
  <2>1. order[k] \in Expired /\ es[k].sid = order[k]
    BY <1>2 DEF Event
  <2> QED BY <2>1 DEF Expired
<1>4. byID' \subseteq byID
  BY ReapStill DEF HandleReap, Still, RInv, LedgerInv
<1>5. task[Reaper].step # "hook" /\ gauge' = gauge /\ Reaper \in Procs
  BY DEF HandleReap, Idle, Procs
<1> QED BY <1>1, <1>2, <1>3, <1>4, <1>5, EmittingCalm

(* Where one event is handed on.                                           *)
LEMMA PoppedCalm ==
    ASSUME RInv, NEW p \in Procs, task[p].step \in {"deliver", "expel"},
           NEW closed, task[p].closed \subseteq closed,
           task' = [task EXCEPT ![p] = Popped(p, closed)], byID' \subseteq byID, gauge' = gauge
    PROVE  Calm(p)
<1> DEFINE next == Tail(task[p].todo)
<1>0. /\ TasksTyped /\ task[p] \in TaskType /\ next \in Seq(Events)
      /\ \A k \in DOMAIN next : k + 1 \in DOMAIN task[p].todo /\ next[k] = task[p].todo[k + 1]
  BY TypesOfTasks, HeadOfTask DEF RInv, TasksTyped
<1>1. Starting(p) = {}
  BY DEF Starting
<1>2. task'[p] = Popped(p, closed)
  BY <1>0 DEF TasksTyped
<1>3. CASE next = <<>>
  <2>1. task'[p].todo = <<>>
    BY <1>2, <1>3 DEF Popped, Idle
  <2> QED BY <1>1, <2>1, CalmByRest
<1>4. CASE next # <<>>
  <2>0. PICK t \in TaskType, es \in {next} : t = task[p] /\ es = next
    BY <1>0
  <2>1. task'[p].todo = next /\ task'[p].closed = closed
    <3>1. task'[p] = [t EXCEPT !.step = "hook", !.todo = es, !.closed = closed]
      BY <1>2, <1>4, <2>0 DEF Popped
    <3> HIDE DEF next
    <3> QED BY <2>0, <3>1 DEF TaskType
  <2> HIDE DEF next
  <2> QED BY <1>0, <1>1, <2>1, CalmByRest
<1> QED BY <1>3, <1>4

(* The hook of a start, and the first notice of an end, move the gauge.    *)
CountsStart(p, i) ==
    /\ gauge' = gauge + 1 /\ byID' = byID /\ i \in Starting(p) /\ Starting(p)' = {}
    /\ EndsIn(p)' = EndsIn(p) /\ ToClose(p)' = ToClose(p)

CountsEnd(p, i) ==
    /\ gauge' = gauge - 1 /\ byID' = byID /\ i \in ToClose(p)
    /\ Starting(p) = {} /\ EndsIn(p)' \subseteq EndsIn(p) /\ ToClose(p)' \subseteq ToClose(p) \ {i}

LEMMA HookCounts ==
    ASSUME RInv, NEW p \in Procs, EmitHook(p)
    PROVE  Calm(p) \/ \E i \in SessionIds : CountsStart(p, i)
<1>1. PICK t \in TaskType : t = task[p]
  BY TypesOfTasks DEF RInv, TasksTyped
<1>2. PICK e \in Events : e = Head(t.todo) /\ e = t.todo[1] /\ t.todo # <<>>
  BY <1>1, HeadOfTask DEF EmitHook, RInv, TasksOK, TaskOK
<1>3. /\ t.step = "hook" /\ byID' = byID
      /\ gauge' = IF e.kind = "started" THEN gauge + 1 ELSE gauge
  BY <1>1, <1>2 DEF EmitHook, ledger
<1>4. task'[p].step \in {"enrol", "deliver"} /\ task'[p].todo = t.todo /\ task'[p].closed = t.closed
  <2>1. t \in TaskType /\ task \in [Procs -> TaskType]
    BY TypesOfTasks DEF RInv, TasksTyped
  <2> QED BY <1>1, <2>1 DEF EmitHook, TaskType
<1>5. EndsIn(p)' = EndsIn(p) /\ ToClose(p)' = ToClose(p) /\ Starting(p)' = {}
  BY <1>1, <1>4 DEF EndsIn, ToClose, Starting
<1>6. CASE e.kind = "started"
  <2>1. e.sid \in Starting(p) /\ e.sid \in SessionIds
    BY <1>1, <1>2, <1>3, <1>6 DEF Starting, Events
  <2> QED BY <1>3, <1>5, <1>6, <2>1 DEF CountsStart
<1>7. CASE e.kind # "started"
  <2>1. Starting(p) = {}
    BY <1>1, <1>2, <1>7 DEF Starting
  <2> QED BY <1>3, <1>5, <1>7, <2>1 DEF Calm
<1> QED BY <1>6, <1>7

LEMMA JoinCallCalm == ASSUME RInv, NEW p \in Procs, EngineJoin(p) PROVE Calm(p)
<1>1. PICK t \in TaskType : t = task[p]
  BY TypesOfTasks DEF RInv, TasksTyped
<1>2. task'[p].todo = task[p].todo /\ task'[p].closed = task[p].closed /\ task[p].step = "enrol"
  <2>1. task \in [Procs -> TaskType]
    BY TypesOfTasks DEF RInv, TasksTyped
  <2> QED BY <1>1, <2>1 DEF EngineJoin, TaskType
<1>3. Starting(p) = {}
  BY <1>2 DEF Starting
<1>4. byID' = byID /\ gauge' = gauge
  BY DEF EngineJoin, ledger
<1> QED BY <1>2, <1>3, <1>4, CalmByRest

LEMMA FrameCounts ==
    ASSUME RInv, NEW p \in Procs, EmitFrame(p)
    PROVE  Calm(p) \/ \E i \in SessionIds : CountsEnd(p, i)
<1>1. PICK t \in TaskType : t = task[p]
  BY TypesOfTasks DEF RInv, TasksTyped
<1>2. PICK e \in Events : e = Head(t.todo) /\ e = t.todo[1] /\ t.todo # <<>> /\ SendFrame(p, e)
  BY <1>1, SentFrame
<1>3. /\ TasksTyped /\ t.todo \in Seq(Events) /\ t.closed \in SUBSET SessionIds
      /\ t.step = "deliver" /\ byID' = byID /\ e.sid \in SessionIds
  <2>1. TasksTyped /\ t.todo \in Seq(Events) /\ t.closed \in SUBSET SessionIds /\ e.sid \in SessionIds
    BY <1>1, TypesOfTasks DEF RInv, TaskType, Events
  <2>2. t.step = "deliver" /\ byID' = byID
    BY <1>1 DEF EmitFrame, ledger
  <2> QED BY <2>1, <2>2
<1>4. PICK closed : closed = IF Closing(p, e) THEN t.closed \cup {e.sid} ELSE t.closed
  OBVIOUS
<1>5. Starting(p) = {}
  BY <1>1, <1>3 DEF Starting
<1>6. CASE gauge' = gauge /\ task' = [task EXCEPT ![p] = Popped(p, t.closed)]
  BY <1>1, <1>3, <1>6, PoppedCalm
<1>7. \/ gauge' = gauge /\ task' = [task EXCEPT ![p] = Popped(p, t.closed)]
      \/ /\ gauge' = IF Closing(p, e) THEN gauge - 1 ELSE gauge
         /\ \/ task' = [task EXCEPT ![p].step = "expel", ![p].closed = closed]
            \/ task' = [task EXCEPT ![p] = Popped(p, closed)]
  BY <1>1, <1>2, <1>4 DEF SendFrame, SkipFrame
<1>8. ASSUME task' = [task EXCEPT ![p].step = "expel", ![p].closed = closed]
      PROVE  task'[p].todo = t.todo /\ task'[p].closed = closed
  BY <1>1, <1>3, <1>8 DEF TasksTyped, TaskType
<1>9. ASSUME task' = [task EXCEPT ![p] = Popped(p, closed)]
      PROVE  \/ task'[p].todo = <<>>
             \/ task'[p].todo = Tail(t.todo) /\ task'[p].closed = closed
  <2> DEFINE next == Tail(t.todo)
  <2>0. PICK es : es = next
    OBVIOUS
  <2>1. task'[p] = Popped(p, closed)
    BY <1>3, <1>9 DEF TasksTyped
  <2>2. CASE next = <<>>
    BY <1>1, <2>1, <2>2 DEF Popped, Idle
  <2>3. CASE next # <<>>
    <3>1. task'[p] = [t EXCEPT !.step = "hook", !.todo = es, !.closed = closed]
      BY <1>1, <2>0, <2>1, <2>3 DEF Popped
    <3> HIDE DEF next
    <3>2. task'[p].todo = es /\ task'[p].closed = closed
      BY <3>1 DEF TaskType
    <3> QED BY <2>0, <3>2 DEF next
  <2> QED BY <2>2, <2>3
<1>10. ASSUME \/ task'[p].todo = <<>>
              \/ task'[p].closed = closed /\ task'[p].todo \in {t.todo, Tail(t.todo)}
       PROVE  EndsIn(p)' \subseteq EndsIn(p) /\ ToClose(p)' \subseteq EndsIn(p) \ closed
  <2>1. \A k \in DOMAIN Tail(t.todo) : k + 1 \in DOMAIN t.todo /\ Tail(t.todo)[k] = t.todo[k + 1]
    BY <1>2, <1>3
  <2>4. PICK rest : rest = task'[p].todo
    OBVIOUS
  <2>5. \A k \in DOMAIN rest : \E m \in DOMAIN t.todo : rest[k] = t.todo[m]
    <3>1. CASE rest = <<>>
      BY <3>1
    <3>2. CASE rest = t.todo
      BY <3>2
    <3>3. CASE rest = Tail(t.todo)
      <4> SUFFICES ASSUME NEW k \in DOMAIN rest PROVE \E m \in DOMAIN t.todo : rest[k] = t.todo[m]
        OBVIOUS
      <4>1. k + 1 \in DOMAIN t.todo /\ rest[k] = t.todo[k + 1]
        BY <2>1, <3>3
      <4> QED BY <4>1
    <3> QED BY <1>10, <2>4, <3>1, <3>2, <3>3
  <2>2. EndsIn(p)' \subseteq EndsIn(p)
    BY <1>1, <2>4, <2>5 DEF EndsIn
  <2>3. task'[p].todo = <<>> => EndsIn(p)' = {}
    BY DEF EndsIn
  <2> QED BY <1>10, <2>2, <2>3 DEF ToClose
<1>11. CASE /\ gauge' = IF Closing(p, e) THEN gauge - 1 ELSE gauge
            /\ \/ task' = [task EXCEPT ![p].step = "expel", ![p].closed = closed]
               \/ task' = [task EXCEPT ![p] = Popped(p, closed)]
  <2>1. EndsIn(p)' \subseteq EndsIn(p) /\ ToClose(p)' \subseteq EndsIn(p) \ closed
    BY <1>8, <1>9, <1>10, <1>11
  <2>2. CASE Closing(p, e)
    <3>1. closed = t.closed \cup {e.sid} /\ gauge' = gauge - 1
      BY <1>4, <1>11, <2>2
    <3>2. e.kind = "ended" /\ e.sid \notin t.closed
      BY <1>1, <2>2 DEF Closing
    <3>3. 1 \in DOMAIN t.todo
      BY <1>2, <1>3
    <3>4. e.sid \in ToClose(p)
      BY <1>1, <1>2, <1>3, <3>2, <3>3 DEF ToClose, EndsIn
    <3>5. ToClose(p)' \subseteq ToClose(p) \ {e.sid}
      BY <1>1, <2>1, <3>1 DEF ToClose
    <3> QED BY <1>3, <1>5, <2>1, <3>1, <3>4, <3>5 DEF CountsEnd
  <2>3. CASE ~Closing(p, e)
    <3>1. closed = t.closed /\ gauge' = gauge
      BY <1>4, <1>11, <2>3
    <3> QED BY <1>1, <1>3, <1>5, <2>1, <3>1 DEF Calm, ToClose
  <2> QED BY <2>2, <2>3
<1> QED BY <1>6, <1>7, <1>11

-----------------------------------------------------------------------------
LEMMA StartKeepsGauge ==
    ASSUME RInv, GaugeInv, NEW p \in Conns, \A q \in Procs : q # p => task'[q] = task[q],
           NEW i \in SessionIds, Start(p, i), gauge' = gauge,
           task' = [task EXCEPT ![p] = Emitting(StartEvents(p, i))], task[p].step # "hook"
    PROVE  GaugeInv'
<1>0. /\ p \in Procs /\ TasksTyped
      /\ \A q \in Procs : q # p =>
           EndsIn(q)' = EndsIn(q) /\ ToClose(q)' = ToClose(q) /\ Starting(q)' = Starting(q)
  BY OthersCount, TypesOfTasks DEF RInv, Procs
<1>1. sess[i] = Unborn /\ byID' = byID \cup {i}
  BY StartGrows DEF RInv, LedgerInv
<1>2. task'[p].step = "hook" /\ task'[p].todo = <<Event("started", p, i)>>
  BY <1>0 DEF TasksTyped, Emitting, StartEvents, Idle
<1>3. /\ DOMAIN task'[p].todo = {1} /\ task'[p].todo[1].kind = "started"
      /\ task'[p].todo[1].sid = i
  BY <1>2 DEF Event
<1>4. EndsIn(p)' = {} /\ ToClose(p)' = {} /\ Starting(p)' = {i} /\ Starting(p) = {}
  BY <1>2, <1>3 DEF EndsIn, ToClose, Starting
<1>5. i \notin Awaited
  BY <1>1, PendingEvents DEF Awaited, Unborn
<1>6. Awaited' = Awaited \cup {i} /\ Counted' \subseteq Counted \cup {i}
  BY <1>0, <1>1, <1>4 DEF Awaited, Counted
<1>7. EndsApart'
  BY <1>0, <1>4 DEF GaugeInv, EndsApart
<1>8. /\ IsFiniteSet(Awaited') /\ Cardinality(Awaited') = Cardinality(Awaited) + 1
      /\ Cardinality(Awaited) \in Nat
  BY <1>5, <1>6, FS_AddElement, FS_CardinalityType DEF GaugeInv
<1>9. /\ IsFiniteSet(Counted') /\ Cardinality(Counted') <= Cardinality(Counted) + 1
      /\ Cardinality(Counted') \in Nat /\ Cardinality(Counted) \in Nat
  <2>1. /\ IsFiniteSet(Counted \cup {i}) /\ Cardinality(Counted) \in Nat
        /\ \/ Cardinality(Counted \cup {i}) = Cardinality(Counted)
           \/ Cardinality(Counted \cup {i}) = Cardinality(Counted) + 1
    BY FS_AddElement, FS_CardinalityType DEF GaugeInv
  <2>2. /\ IsFiniteSet(Counted') /\ Cardinality(Counted') <= Cardinality(Counted \cup {i})
        /\ Cardinality(Counted') \in Nat
    BY <1>6, <2>1, FS_Subset, FS_CardinalityType
  <2> QED BY <2>1, <2>2
<1>10. gauge \in Int
  BY DEF RInv, RelayTypeOK
<1> QED BY <1>7, <1>8, <1>9, <1>10 DEF GaugeInv

LEMMA CountsStartKeepsGauge ==
    ASSUME RInv, GaugeInv, NEW p \in Procs, \A q \in Procs : q # p => task'[q] = task[q],
           NEW i \in SessionIds, CountsStart(p, i)
    PROVE  GaugeInv'
<1>0. \A q \in Procs : q # p =>
        EndsIn(q)' = EndsIn(q) /\ ToClose(q)' = ToClose(q) /\ Starting(q)' = Starting(q)
  BY OthersCount
<1>1. Counted' = Counted /\ EndsApart'
  BY <1>0 DEF CountsStart, Counted, GaugeInv, EndsApart
<1>2. i \in Awaited /\ Starting(p) = {i}
  BY DEF CountsStart, Awaited, Starting
<1>3. Awaited' = Awaited \ {i}
  <2>1. \A q \in Procs : q # p => i \notin Starting(q)
    BY <1>2, StartsApart
  <2> QED BY <1>0, <1>2, <2>1 DEF Awaited, CountsStart
<1>4. /\ IsFiniteSet(Awaited') /\ Cardinality(Awaited') = Cardinality(Awaited) - 1
      /\ Cardinality(Awaited) \in Nat /\ Cardinality(Counted) \in Nat
  BY <1>2, <1>3, FS_RemoveElement, FS_CardinalityType DEF GaugeInv
<1>5. gauge \in Int /\ gauge' = gauge + 1
  BY DEF RInv, RelayTypeOK, CountsStart
<1> QED BY <1>1, <1>4, <1>5 DEF GaugeInv

LEMMA CountsEndKeepsGauge ==
    ASSUME RInv, GaugeInv, NEW p \in Procs, \A q \in Procs : q # p => task'[q] = task[q],
           NEW i \in SessionIds, CountsEnd(p, i)
    PROVE  GaugeInv'
<1>0. \A q \in Procs : q # p =>
        EndsIn(q)' = EndsIn(q) /\ ToClose(q)' = ToClose(q) /\ Starting(q)' = Starting(q)
  BY OthersCount
<1>1. EndsApart'
  BY <1>0 DEF CountsEnd, GaugeInv, EndsApart
<1>2. i \in Counted /\ i \notin byID /\ \A q \in Procs : q # p => i \notin ToClose(q)
  BY PendingEvents DEF CountsEnd, Counted, ToClose, GaugeInv, EndsApart
<1>3. Counted' \subseteq Counted \ {i}
  BY <1>0, <1>2 DEF Counted, CountsEnd
<1>4. Awaited \subseteq Awaited' /\ IsFiniteSet(Awaited')
  <2>1. Awaited' \subseteq Awaited \cup Starting(p)' /\ Awaited \subseteq Awaited'
    BY <1>0 DEF Awaited, CountsEnd
  <2>2. IsFiniteSet(Awaited \cup Starting(p)')
    BY StartingFiniteNext, FS_Union DEF GaugeInv
  <2> QED BY <2>1, <2>2, FS_Subset
<1>5. /\ Cardinality(Awaited) <= Cardinality(Awaited')
      /\ Cardinality(Awaited') \in Nat /\ Cardinality(Awaited) \in Nat
  BY <1>4, FS_Subset, FS_CardinalityType DEF GaugeInv
<1>6. /\ IsFiniteSet(Counted \ {i}) /\ Cardinality(Counted \ {i}) = Cardinality(Counted) - 1
      /\ Cardinality(Counted) \in Nat
  BY <1>2, FS_RemoveElement, FS_CardinalityType DEF GaugeInv
<1>7. /\ IsFiniteSet(Counted') /\ Cardinality(Counted') <= Cardinality(Counted) - 1
      /\ Cardinality(Counted') \in Nat
  BY <1>3, <1>6, FS_Subset, FS_CardinalityType
<1>8. gauge \in Int /\ gauge' = gauge - 1
  BY DEF RInv, RelayTypeOK, CountsEnd
<1>9. gauge + Cardinality(Awaited) >= Cardinality(Counted)
  BY DEF GaugeInv
<1>10. gauge' + Cardinality(Awaited') >= Cardinality(Counted')
  <2> HIDE DEF CountsEnd, Counted, Awaited
  <2> QED BY ONLY <1>5, <1>6, <1>7, <1>8, <1>9
<1> QED BY <1>1, <1>4, <1>7, <1>10 DEF GaugeInv

LEMMA GaugeNext == RInv /\ GaugeInv /\ [RelayNext]_vars => GaugeInv'
<1> SUFFICES ASSUME RInv, GaugeInv, [RelayNext]_vars PROVE GaugeInv'
  OBVIOUS
<1>0. Conns \subseteq Procs /\ Reaper \in Procs
  BY DEF Procs
<1>1. ASSUME UNCHANGED <<byID, task, gauge>> PROVE GaugeInv'
  <2>1. Counted' = Counted /\ Awaited' = Awaited /\ EndsApart'
    BY <1>1 DEF Counted, Awaited, ToClose, EndsIn, Starting, GaugeInv, EndsApart
  <2> QED BY <1>1, <2>1 DEF GaugeInv
<1>2. ASSUME NEW p \in Procs, Moved(p), Calm(p) PROVE GaugeInv'
  BY <1>2, CalmKeepsGauge DEF Moved
<1>3. ASSUME NEW c \in Conns, Handle(c) PROVE GaugeInv'
  <2>1. Moved(c)
    BY <1>3, HandleMoves
  <2>2. ASSUME NEW i \in SessionIds, Start(c, i), gauge' = gauge,
               task' = [task EXCEPT ![c] = Emitting(StartEvents(c, i))]
        PROVE  GaugeInv'
    <3>1. task[c] = Idle
      BY <1>3 DEF Handle, HandleStart, HandleJoin, HandleEnd, HandleP2P, HandleEngineSignal, Ready
    <3>2. task[c].step # "hook"
      BY <3>1 DEF Idle
    <3> QED BY <2>1, <2>2, <3>2, StartKeepsGauge DEF Moved
  <2> QED BY <1>0, <1>2, <1>3, <2>1, <2>2, HandlersCalm
<1>4. ASSUME NEW c \in Conns, Continue(c) PROVE GaugeInv'
  <2>1. UNCHANGED <<byID, gauge>>
    BY <1>4 DEF Continue, NegotiateSteer, Relay, EngineReply, Dispatch, Refuse, Offer, Answer, ledger
  <2>2. CASE task' # task
    BY <1>0, <1>2, <1>4, <2>2, ContinueMoves, ContinueCalm
  <2> QED BY <1>1, <2>1, <2>2
<1>5. ASSUME NEW c \in Conns, EngineLeaveAll(c) \/ Drop(c) PROVE GaugeInv'
  BY <1>0, <1>2, <1>5, LeaveAllMoves, DropMoves, TeardownCalm
<1>6. ASSUME NEW c \in Conns,
             Unregister(c) \/ Connect(c) \/ Write(c) \/ WriterExits(c) \/ ReaderReturns(c)
      PROVE  GaugeInv'
  <2>1. UNCHANGED <<byID, task, gauge>>
    BY <1>6 DEF Unregister, Connect, Write, WriterExits, ReaderReturns, ledger
  <2> QED BY <1>1, <2>1
<1>7. ASSUME NEW p \in Procs, EmitHook(p) PROVE GaugeInv'
  <2>1. Moved(p)
    BY <1>7, HookMoves
  <2> QED BY <1>2, <1>7, <2>1, HookCounts, CountsStartKeepsGauge DEF Moved
<1>8. ASSUME NEW p \in Procs, EmitFrame(p) PROVE GaugeInv'
  <2>1. Moved(p)
    BY <1>8, FrameMoves
  <2> QED BY <1>2, <1>8, <2>1, FrameCounts, CountsEndKeepsGauge DEF Moved
<1>9. ASSUME NEW p \in Procs, EngineJoin(p) PROVE GaugeInv'
  BY <1>2, <1>9, JoinCallMoves, JoinCallCalm
<1>10. ASSUME NEW p \in Procs, Expel(p) PROVE GaugeInv'
  <2>1. /\ task[p].step = "expel" /\ task' = [task EXCEPT ![p] = Popped(p, task[p].closed)]
        /\ gauge' = gauge
    BY <1>10 DEF Expel
  <2>2. byID' \subseteq byID
    <3>1. CASE UNCHANGED ledger
      BY <3>1 DEF ledger
    <3>2. ASSUME NEW c, NEW i, End(c, i, "peer_disconnected") PROVE byID' \subseteq byID
      BY <3>2 DEF End, endAll
    <3> QED BY <1>10, <3>1, <3>2 DEF Expel
  <2>3. Calm(p)
    BY <2>1, <2>2, PoppedCalm
  <2> QED BY <1>2, <1>10, <2>3, ExpelMoves
<1>11. CASE HandleReap
  BY <1>0, <1>2, <1>11, ReapMoves, ReapCalm
<1>12. CASE RelayTick \/ UNCHANGED vars
  BY <1>1, <1>12 DEF RelayTick, Tick, vars, plane, ledger
<1> QED
  BY <1>3, <1>4, <1>5, <1>6, <1>7, <1>8, <1>9, <1>10, <1>11, <1>12 DEF RelayNext, Teardown, Emit

LEMMA InitGauge == RelayInit => GaugeInv
<1> SUFFICES ASSUME RelayInit PROVE GaugeInv
  OBVIOUS
<1>1. \A p \in Procs : task[p] = Idle
  BY DEF RelayInit
<1>2. \A p \in Procs : EndsIn(p) = {} /\ ToClose(p) = {} /\ Starting(p) = {}
  BY <1>1 DEF EndsIn, ToClose, Starting, Idle
<1>3. Counted = {} /\ Awaited = {} /\ gauge = 0
  BY <1>2 DEF Counted, Awaited, RelayInit, Init
<1> QED BY <1>2, <1>3, FS_EmptySet DEF GaugeInv, EndsApart

-----------------------------------------------------------------------------
(* No end is forgotten: its notices are in the list of the goroutine that  *)
(* ended the session until each was sent, refused or without recipient.    *)

Carries(p, c, i) == \E k \in DOMAIN task[p].todo : task[p].todo[k] = Event("ended", c, i)

Excused(c, i) == \/ HeardEnd(c, i) \/ life[c] \notin {"open", "leaving"}
                 \/ \E d \in Conns : <<d, i>> \in refused

Accounted(c, i) == Excused(c, i) \/ \E p \in Procs : Carries(p, c, i)

(* The steps of a goroutine that has nothing to emit; of one that expels.  *)
Blank(t) == t.step \in {"idle", "relay", "engine", "drop"}

InOrder(p) ==
    /\ Blank(task[p]) => task[p].todo = <<>>
    /\ task[p].step = "expel" => \E d \in Conns : <<d, task[p].todo[1].sid>> \in refused

EndsInv ==
    /\ \A i \in SessionIds, c \in Conns : c \in Seats(i) => life[c] # "new"
    /\ \A p \in Procs : InOrder(p)
    /\ \A i \in SessionIds, c \in Conns :
          sess[i].state = "ended" /\ c \in Seats(i) => Accounted(c, i)

(* What a step of p does to the notices p carries.                         *)
HandsOn(p) ==
    /\ \A q \in Procs : q # p => task'[q] = task[q]
    /\ InOrder(p)'
    /\ \A c \in Conns, i \in SessionIds : Carries(p, c, i) => Carries(p, c, i)' \/ Excused(c, i)'

(* The sessions a step ends, and that their members are accounted for.     *)
Ends(i) == sess[i].state # "ended" /\ sess'[i].state = "ended"

Heralded == \A i \in SessionIds, c \in Conns : Ends(i) /\ c \in Seats(i)' => Accounted(c, i)'

NoEnds == \A i \in SessionIds : ~Ends(i)

LEMMA NothingToHerald == NoEnds => Heralded
BY DEF NoEnds, Heralded

LEMMA ClosesOnly ==
    ASSUME IInv, NEW D \in SUBSET byID, NEW r \in Reasons, endAll(D, r), NEW i \in SessionIds, Ends(i)
    PROVE  i \in D /\ Seats(i)' = Seats(i)
<1>1. CASE i \notin D
  <2>1. sess'[i] = sess[i]
    BY <1>1 DEF endAll
  <2> QED BY <2>1 DEF Ends
<1>2. sess'[i].members = sess[i].members
  BY EndAllStill DEF Still
<1> QED BY <1>1, <1>2 DEF Seats

LEMMA EndsNone ==
    ASSUME IInv, NEW c \in Conns, NEW j \in SessionIds,
           UNCHANGED ledger \/ Start(c, j) \/ Join(c, j) \/ Offer(c, j) \/ Answer(c, j)
    PROVE  NoEnds
<1> SUFFICES ASSUME NEW i \in SessionIds PROVE ~Ends(i)
  BY DEF NoEnds
<1>0. sess \in [SessionIds -> Session]
  BY DEF IInv, TypeOK
<1>1. CASE UNCHANGED ledger
  BY <1>1 DEF ledger, Ends
<1>2. CASE Start(c, j)
  <2>1. sess'[j] = NewSession(c) /\ (i # j => sess'[i] = sess[i])
    BY <1>2, StartGrows
  <2>2. sess'[j].state = "pending"
    BY <2>1 DEF NewSession
  <2> QED BY <2>1, <2>2 DEF Ends
<1>3. CASE Join(c, j)
  BY <1>0, <1>3 DEF Join, Session, Ends
<1>4. CASE Offer(c, j)
  BY <1>0, <1>4 DEF Offer, Session, Ends
<1>5. CASE Answer(c, j)
  BY <1>0, <1>5 DEF Answer, Session, Ends
<1> QED BY <1>1, <1>2, <1>3, <1>4, <1>5

LEMMA TickEndsNone == ASSUME IInv, Tick PROVE NoEnds
<1>1. sess \in [SessionIds -> Session]
  BY DEF IInv, TypeOK
<1>2. ASSUME NEW i \in SessionIds PROVE sess'[i].state = sess[i].state
  BY <1>1 DEF Tick, Session
<1> QED BY <1>2 DEF NoEnds, Ends

LEMMA StutterEndsNone == UNCHANGED sess => NoEnds
BY DEF NoEnds, Ends

(* A goroutine that had nothing to emit, and one that has been given es.   *)
LEMMA FromBlank ==
    ASSUME TasksTyped, NEW p \in Procs, InOrder(p), Blank(task[p]), NEW x,
           task' = [task EXCEPT ![p] = x], Blank(x) => x.todo = <<>>, x.step # "expel"
    PROVE  HandsOn(p)
<1>1. task'[p] = x /\ \A q \in Procs : q # p => task'[q] = task[q]
  BY DEF TasksTyped
<1>2. \A c \in Conns, i \in SessionIds : ~Carries(p, c, i)
  BY DEF InOrder, Carries
<1>3. InOrder(p)'
  BY <1>1 DEF InOrder, Blank
<1> QED BY <1>1, <1>2, <1>3 DEF HandsOn

LEMMA EmittingIs ==
    ASSUME NEW es
    PROVE  /\ Emitting(es).todo = es /\ Emitting(es).step \in {"idle", "hook"}
           /\ Emitting(es).step = "idle" => es = <<>>
BY DEF Emitting, Idle

LEMMA StartsEmitting ==
    ASSUME TasksTyped, NEW p \in Procs, InOrder(p), Blank(task[p]), NEW es,
           task' = [task EXCEPT ![p] = Emitting(es)]
    PROVE  HandsOn(p) /\ task'[p].todo = es
<1>1. PICK x : x = Emitting(es)
  OBVIOUS
<1>2. x.todo = es /\ x.step \in {"idle", "hook"} /\ (x.step = "idle" => es = <<>>)
  BY <1>1, EmittingIs
<1>3. HandsOn(p)
  BY <1>1, <1>2, FromBlank DEF Blank
<1> QED BY <1>1, <1>2, <1>3 DEF TasksTyped

LEMMA GoesIdle ==
    ASSUME TasksTyped, NEW p \in Procs, InOrder(p), Blank(task[p]),
           task' = [task EXCEPT ![p] = Idle]
    PROVE  HandsOn(p)
<1>1. Idle.step = "idle" /\ Idle.todo = <<>>
  BY DEF Idle
<1> QED BY <1>1, FromBlank

LEMMA GoesBusy ==
    ASSUME TasksTyped, NEW p \in Procs, InOrder(p), Blank(task[p]),
           NEW st \in Steps, NEW kd \in P2P \cup {None}, NEW i \in SessionIds \cup {None},
           st # "expel", task' = [task EXCEPT ![p] = Busy(st, kd, i)]
    PROVE  HandsOn(p)
<1>1. PICK x : x = Busy(st, kd, i)
  OBVIOUS
<1>2. x.step = st /\ x.todo = <<>>
  BY <1>1, BusyIs
<1> QED BY <1>1, <1>2, FromBlank

(* The next step of the same event.                                        *)
LEMMA SameEvents ==
    ASSUME TasksTyped, NEW p \in Procs, NEW x, task' = [task EXCEPT ![p] = x],
           x.todo = task[p].todo, ~Blank(x),
           x.step = "expel" => \E d \in Conns : <<d, x.todo[1].sid>> \in refused'
    PROVE  HandsOn(p)
<1>1. task'[p] = x /\ \A q \in Procs : q # p => task'[q] = task[q]
  BY DEF TasksTyped
<1>2. InOrder(p)'
  BY <1>1 DEF InOrder, Blank
<1>3. \A c \in Conns, i \in SessionIds : Carries(p, c, i) => Carries(p, c, i)'
  BY <1>1 DEF Carries
<1> QED BY <1>1, <1>2, <1>3 DEF HandsOn

LEMMA PoppedIs ==
    ASSUME RelayTypeOK, TasksOK, NEW p \in Procs, task[p].step \in {"deliver", "expel"},
           NEW closed
    PROVE  \E x : /\ x = Popped(p, closed) /\ x.todo = Tail(task[p].todo)
                  /\ x.step \in {"idle", "hook"} /\ (x.step = "idle" => x.todo = <<>>)
<1>1. PICK t \in TaskType, es \in Seq(Events) : t = task[p] /\ es = Tail(task[p].todo)
  BY TypesOfTasks, HeadOfTask DEF TasksTyped
<1>2. CASE es = <<>>
  <2>1. Popped(p, closed) = Idle
    BY <1>1, <1>2 DEF Popped
  <2>2. Idle.step = "idle" /\ Idle.todo = <<>>
    BY DEF Idle
  <2> QED BY <1>1, <1>2, <2>1, <2>2
<1>3. CASE es # <<>>
  <2>1. PICK x : x = [t EXCEPT !.step = "hook", !.todo = es, !.closed = closed]
    OBVIOUS
  <2>2. x.step = "hook" /\ x.todo = es
    BY <2>1 DEF TaskType
  <2>3. x = Popped(p, closed)
    BY <1>1, <1>3, <2>1 DEF Popped
  <2> QED BY <1>1, <2>2, <2>3
<1> QED BY <1>2, <1>3

(* The first event is done with: its recipient is excused.                 *)
LEMMA PopsExcused ==
    ASSUME RelayTypeOK, TasksOK, NEW p \in Procs, task[p].step \in {"deliver", "expel"},
           NEW closed, task' = [task EXCEPT ![p] = Popped(p, closed)],
           NEW e, e = task[p].todo[1], e.kind = "ended" => Excused(e.to, e.sid)'
    PROVE  HandsOn(p)
<1>0. TasksTyped /\ task[p].todo \in Seq(Events) /\ task[p].todo # <<>>
  BY TypesOfTasks DEF RelayTypeOK, TasksOK, TaskOK
<1>1. PICK x : /\ x = Popped(p, closed) /\ x.todo = Tail(task[p].todo)
               /\ x.step \in {"idle", "hook"} /\ (x.step = "idle" => x.todo = <<>>)
  BY PoppedIs
<1>2. task'[p] = x /\ \A q \in Procs : q # p => task'[q] = task[q]
  BY <1>0, <1>1 DEF TasksTyped
<1>3. InOrder(p)'
  BY <1>1, <1>2 DEF InOrder, Blank
<1>4. ASSUME NEW c \in Conns, NEW i \in SessionIds, Carries(p, c, i)
      PROVE  Carries(p, c, i)' \/ Excused(c, i)'
  <2>1. PICK k \in DOMAIN task[p].todo : task[p].todo[k] = Event("ended", c, i)
    BY <1>4 DEF Carries
  <2>2. CASE k = 1
    <3>1. e.kind = "ended" /\ e.to = c /\ e.sid = i
      BY <2>1, <2>2 DEF Event
    <3> QED BY <3>1
  <2>3. CASE k # 1
    <3>1. PICK s \in Seq(Events) : s = task[p].todo
      BY <1>0
    <3>2. k - 1 \in DOMAIN Tail(s) /\ Tail(s)[k - 1] = s[k]
      BY <1>0, <2>1, <2>3, <3>1
    <3> QED BY <1>1, <1>2, <2>1, <3>1, <3>2 DEF Carries
  <2> QED BY <2>2, <2>3
<1> QED BY <1>2, <1>3, <1>4 DEF HandsOn

-----------------------------------------------------------------------------
(* Every step, for the notices.                                            *)

LEMMA EndsParts ==
    ASSUME RInv, EndsInv, NEW p \in Procs
    PROVE  IInv /\ TasksTyped /\ InOrder(p)
BY TypesOfTasks DEF RInv, LedgerInv, EndsInv

LEMMA RefuseHands ==
    ASSUME RInv, EndsInv, NEW c \in Conns, Blank(task[c]), Refuse(c)
    PROVE  HandsOn(c) /\ NoEnds
<1>1. c \in Procs /\ task' = [task EXCEPT ![c] = Idle] /\ UNCHANGED sess
  BY DEF Refuse, Procs, ledger
<1> QED BY <1>1, EndsParts, GoesIdle, StutterEndsNone

LEMMA EndHands ==
    ASSUME RInv, EndsInv, NEW c \in Conns, Blank(task[c]), NEW i \in SessionIds,
           End(c, i, "member_ended"), task' = [task EXCEPT ![c] = Emitting(endEvents(i))]
    PROVE  HandsOn(c) /\ Heralded
<1>1. PICK es : es = endEvents(i)
  OBVIOUS
<1>2. c \in Procs /\ IInv /\ TasksTyped /\ InOrder(c)
  BY EndsParts DEF Procs
<1>3. HandsOn(c) /\ task'[c].todo = es
  BY <1>1, <1>2, StartsEmitting
<1>4. {i} \in SUBSET byID /\ "member_ended" \in Reasons /\ endAll({i}, "member_ended")
  BY DEF End, EndResult, lookupMember, Reasons
<1>5. ASSUME NEW j \in SessionIds, NEW d \in Conns, Ends(j), d \in Seats(j)'
      PROVE  Accounted(d, j)'
  <2>0. j \in {i} /\ Seats(j)' = Seats(j)
    BY <1>2, <1>4, <1>5, ClosesOnly
  <2>1. j = i /\ d \in Seats(i)
    BY <1>5, <2>0
  <2>2. PICK k \in DOMAIN sess[i].members : d = sess[i].members[k]
    BY <2>1 DEF Seats
  <2>3. k \in DOMAIN es /\ es[k] = Event("ended", d, i)
    BY <1>1, <2>2 DEF endEvents
  <2>4. Carries(c, d, i)'
    BY <1>3, <2>3 DEF Carries
  <2> QED BY <1>2, <2>1, <2>4 DEF Accounted
<1> QED BY <1>3, <1>5 DEF Heralded

LEMMA HandleHands ==
    ASSUME RInv, EndsInv, NEW c \in Conns, Handle(c)
    PROVE  HandsOn(c) /\ Heralded
<1>0. c \in Procs /\ IInv /\ TasksTyped /\ InOrder(c)
  BY EndsParts DEF Procs
<1>1. task[c] = Idle
  BY DEF Handle, HandleStart, HandleJoin, HandleEnd, HandleP2P, HandleEngineSignal, Ready
<1>2. Blank(task[c])
  BY <1>1 DEF Blank, Idle
<1>3. CASE Refuse(c)
  BY <1>2, <1>3, RefuseHands, NothingToHerald
<1>4. ASSUME NEW i \in SessionIds, Start(c, i), NEW es, task' = [task EXCEPT ![c] = Emitting(es)]
      PROVE  HandsOn(c) /\ Heralded
  BY <1>0, <1>2, <1>4, StartsEmitting, EndsNone, NothingToHerald
<1>5. ASSUME NEW i \in SessionIds, Join(c, i),
             NEW es, task' = [task EXCEPT ![c] = [Busy("negotiate", None, i) EXCEPT !.todo = es]]
      PROVE  HandsOn(c) /\ Heralded
  <2>1. PICK b \in TaskType : b = Busy("negotiate", None, i) /\ b.step = "negotiate"
    BY BusyIs DEF Steps
  <2>2. PICK x : x = [b EXCEPT !.todo = es]
    OBVIOUS
  <2>3. x.step = "negotiate"
    BY <2>1, <2>2 DEF TaskType
  <2>4. HandsOn(c)
    BY <1>0, <1>2, <1>5, <2>1, <2>2, <2>3, FromBlank DEF Blank
  <2> QED BY <1>0, <1>5, <2>4, EndsNone, NothingToHerald
<1>6. ASSUME NEW i \in SessionIds, End(c, i, "member_ended"),
             task' = [task EXCEPT ![c] = Emitting(endEvents(i))]
      PROVE  HandsOn(c) /\ Heralded
  BY <1>2, <1>6, EndHands
<1>7. ASSUME NEW i \in SessionIds, NEW st \in {"relay", "engine"}, NEW kd \in P2P \cup {None},
             Begin(c, st, kd, i)
      PROVE  HandsOn(c) /\ Heralded
  <2>1. task' = [task EXCEPT ![c] = Busy(st, kd, i)] /\ UNCHANGED sess
    BY <1>7 DEF Begin, ledger
  <2>2. st \in Steps /\ st # "expel"
    BY DEF Steps
  <2>3. HandsOn(c)
    BY <1>0, <1>2, <2>1, <2>2, GoesBusy
  <2> QED BY <2>1, <2>3, StutterEndsNone, NothingToHerald
<1>8. CASE HandleStart(c)
  BY <1>3, <1>4, <1>8 DEF HandleStart
<1>9. ASSUME NEW i \in SessionIds, HandleJoin(c, i) PROVE HandsOn(c) /\ Heralded
  BY <1>3, <1>5, <1>9 DEF HandleJoin
<1>10. ASSUME NEW i \in SessionIds, HandleEnd(c, i) PROVE HandsOn(c) /\ Heralded
  BY <1>3, <1>6, <1>10 DEF HandleEnd
<1>11. ASSUME NEW i \in SessionIds, NEW kind \in P2P, HandleP2P(c, kind, i)
       PROVE  HandsOn(c) /\ Heralded
  BY <1>3, <1>7, <1>11 DEF HandleP2P
<1>12. ASSUME NEW i \in SessionIds, HandleEngineSignal(c, i) PROVE HandsOn(c) /\ Heralded
  BY <1>3, <1>7, <1>12 DEF HandleEngineSignal
<1> QED BY <1>8, <1>9, <1>10, <1>11, <1>12 DEF Handle

LEMMA ContinueHands ==
    ASSUME RInv, EndsInv, NEW c \in Conns, Continue(c)
    PROVE  (HandsOn(c) \/ UNCHANGED task) /\ NoEnds
<1>0. c \in Procs /\ IInv /\ TasksTyped /\ InOrder(c) /\ TaskOK(c)
  BY EndsParts DEF Procs, RInv, TasksOK
<1>1. CASE NegotiateSteer(c)
  <2>1. PICK es : es = task[c].todo
    OBVIOUS
  <2>2. es # <<>> /\ UNCHANGED sess /\ task' = [task EXCEPT ![c] = Emitting(es)]
    BY <1>0, <1>1, <2>1 DEF TaskOK, NegotiateSteer, ledger, TasksTyped
  <2>3. PICK x : x = Emitting(es)
    OBVIOUS
  <2>4. x.todo = task[c].todo /\ x.step = "hook"
    BY <2>1, <2>2, <2>3, EmittingIs
  <2>5. HandsOn(c)
    BY <1>0, <2>2, <2>3, <2>4, SameEvents DEF Blank
  <2> QED BY <2>2, <2>5, StutterEndsNone
<1>2. CASE Relay(c)
  <2>1. Blank(task[c])
    BY <1>2 DEF Relay, Blank
  <2>2. CASE Refuse(c)
    BY <2>1, <2>2, RefuseHands
  <2>3. PICK i \in SessionIds : i = task[c].sid
    BY <1>0, <1>2 DEF Relay, TaskOK
  <2>4. CASE ~Refuse(c)
    <3>1. /\ UNCHANGED ledger \/ Offer(c, i) \/ Answer(c, i)
          /\ \E es : task' = [task EXCEPT ![c] = Emitting(es)]
      BY <1>2, <2>3, <2>4 DEF Relay
    <3> QED BY <1>0, <2>1, <3>1, StartsEmitting, EndsNone
  <2> QED BY <2>2, <2>4
<1>3. CASE EngineReply(c)
  <2>1. Blank(task[c])
    BY <1>3 DEF EngineReply, Blank
  <2>2. CASE Refuse(c)
    BY <2>1, <2>2, RefuseHands
  <2>3. CASE ~Refuse(c)
    <3>1. UNCHANGED sess /\ (UNCHANGED task \/ task' = [task EXCEPT ![c] = Idle])
      BY <1>3, <2>3 DEF EngineReply, Dispatch, ledger
    <3> QED BY <1>0, <2>1, <3>1, GoesIdle, StutterEndsNone
  <2> QED BY <2>2, <2>3
<1> QED BY <1>1, <1>2, <1>3 DEF Continue

LEMMA LeaveAllHands ==
    ASSUME RInv, EndsInv, NEW c \in Conns, EngineLeaveAll(c)
    PROVE  HandsOn(c) /\ NoEnds
<1>1. c \in Procs /\ TasksTyped /\ InOrder(c)
  BY EndsParts DEF Procs
<1>2. task[c] = Idle /\ task' = [task EXCEPT ![c] = Busy("drop", None, None)] /\ UNCHANGED sess
  BY DEF EngineLeaveAll, ledger
<1>3. Blank(task[c]) /\ "drop" \in Steps
  BY <1>2 DEF Blank, Idle, Steps
<1>4. HandsOn(c)
  BY <1>1, <1>2, <1>3, GoesBusy
<1> QED BY <1>2, <1>4, StutterEndsNone

LEMMA OtherSeat ==
    ASSUME IInv, NEW i \in byID, NEW c \in Seats(i), NEW d \in Seats(i), d # c
    PROVE  peerOf(i, c) = d
<1>1. sess[i].members \in Seq(Conns) /\ Len(sess[i].members) \in 1 .. 2
  BY DEF IInv, TypeOK, Session, SeatsOK, memberCount
<1>2. /\ Len(sess[i].members) = 1 => Seats(i) = {sess[i].members[1]}
      /\ Len(sess[i].members) = 2 => Seats(i) = {sess[i].members[1], sess[i].members[2]}
  BY <1>1 DEF Seats
<1> QED BY <1>1, <1>2 DEF peerOf

LEMMA DropHands ==
    ASSUME RInv, EndsInv, NEW c \in Conns, Drop(c)
    PROVE  HandsOn(c) /\ Heralded
<1>1. PICK es : es = ConnDroppedEvents(c)
  OBVIOUS
<1>2. /\ c \in Procs /\ IInv /\ TasksTyped /\ InOrder(c) /\ ConnDropped(c)
      /\ task' = [task EXCEPT ![c] = Emitting(es)] /\ Blank(task[c])
  BY <1>1, EndsParts DEF Drop, Procs, Blank
<1>3. HandsOn(c) /\ task'[c].todo = es
  BY <1>2, StartsEmitting
<1>4. life'[c] = "dropped"
  BY DEF Drop, RInv, RelayTypeOK
<1>5. ASSUME NEW j \in SessionIds, NEW d \in Conns, Ends(j), d \in Seats(j)', d # c
      PROVE  Carries(c, d, j)'
  <2>1. byConn[c] \in byID
    BY <1>2, <1>5 DEF ConnDropped, Ends
  <2>2. PICK i \in SessionIds : i = byConn[c]
    BY <1>2, <2>1 DEF IInv, TypeOK
  <2>3. /\ {i} \in SUBSET byID /\ "peer_disconnected" \in Reasons
        /\ endAll({i}, "peer_disconnected")
    BY <1>2, <2>1, <2>2 DEF ConnDropped, Reasons
  <2>a. j \in {i} /\ Seats(j)' = Seats(j)
    BY <1>2, <1>5, <2>3, ClosesOnly
  <2>4. j = i /\ d \in Seats(i)
    BY <1>5, <2>a
  <2>5. c \in Seats(i) /\ Seats(i) # {c}
    BY <1>2, <1>5, <2>1, <2>2, <2>4 DEF IInv, IndexesAgree, SeatIndexExact
  <2>6. es = <<Event("ended", peerOf(i, c), i)>>
    BY <1>1, <2>1, <2>2, <2>5 DEF ConnDroppedEvents
  <2>7. peerOf(i, c) = d
    BY <1>2, <1>5, <2>3, <2>4, <2>5, OtherSeat
  <2>8. 1 \in DOMAIN es /\ es[1] = Event("ended", d, i)
    BY <2>6, <2>7
  <2> QED BY <1>3, <2>4, <2>8 DEF Carries
<1>6. ASSUME NEW j \in SessionIds, NEW d \in Conns, Ends(j), d \in Seats(j)'
      PROVE  Accounted(d, j)'
  <2>1. CASE d = c
    BY <1>4, <2>1 DEF Accounted, Excused
  <2>2. CASE d # c
    BY <1>2, <1>5, <1>6, <2>2 DEF Accounted
  <2> QED BY <2>1, <2>2
<1> QED BY <1>3, <1>6 DEF Heralded

LEMMA ReapHands == ASSUME RInv, EndsInv, HandleReap PROVE HandsOn(Reaper) /\ Heralded
<1>1. PICK order \in [1 .. Cardinality(Expired) -> Expired] :
         /\ \A i \in Expired : \E k \in DOMAIN order : order[k] = i
         /\ task' = [task EXCEPT ![Reaper] = Emitting(
                    [k \in DOMAIN order |-> Event("ended", sess[order[k]].members[1], order[k])])]
  BY DEF HandleReap
<1>2. PICK es : es = [k \in DOMAIN order |-> Event("ended", sess[order[k]].members[1], order[k])]
  OBVIOUS
<1>3. Reaper \in Procs /\ IInv /\ TasksTyped /\ InOrder(Reaper)
  BY EndsParts DEF Procs
<1>4. Blank(task[Reaper])
  BY DEF HandleReap, Blank, Idle
<1>5. HandsOn(Reaper) /\ task'[Reaper].todo = es
  BY <1>1, <1>2, <1>3, <1>4, StartsEmitting
<1>6. /\ Expired \in SUBSET byID /\ "join_timeout" \in Reasons /\ endAll(Expired, "join_timeout")
  BY DEF HandleReap, Reap, Expired, Reasons
<1>7. ASSUME NEW j \in SessionIds, NEW d \in Conns, Ends(j), d \in Seats(j)'
      PROVE  Accounted(d, j)'
  <2>0. j \in Expired /\ Seats(j)' = Seats(j)
    BY <1>3, <1>6, <1>7, ClosesOnly
  <2>1. j \in Expired /\ d \in Seats(j)
    BY <1>7, <2>0
  <2>2. sess[j].members \in Seq(Conns) /\ Len(sess[j].members) = 1
    BY <1>3, <2>1 DEF Expired, memberCount, IInv, TypeOK, Session
  <2>3. d = sess[j].members[1]
    BY <2>1, <2>2 DEF Seats
  <2>4. PICK k \in DOMAIN order : order[k] = j
    BY <1>1, <2>1
  <2>5. k \in DOMAIN es /\ es[k] = Event("ended", d, j)
    BY <1>2, <2>3, <2>4
  <2>6. Carries(Reaper, d, j)'
    BY <1>5, <2>5 DEF Carries
  <2> QED BY <1>3, <2>6 DEF Accounted
<1> QED BY <1>5, <1>7 DEF Heralded

LEMMA HookHands ==
    ASSUME RInv, EndsInv, NEW p \in Procs, EmitHook(p) \/ EngineJoin(p)
    PROVE  HandsOn(p) /\ NoEnds
<1>0. IInv /\ TasksTyped /\ UNCHANGED sess
  BY EndsParts DEF EmitHook, EngineJoin, ledger
<1>1. PICK t \in TaskType : t = task[p]
  BY <1>0 DEF TasksTyped
<1>2. CASE EmitHook(p)
  <2>1. PICK e : e = Head(task[p].todo)
    OBVIOUS
  <2>2. PICK st \in {"enrol", "deliver"} :
           st = IF EngineOn /\ e.kind \in {"started", "joined"} THEN "enrol" ELSE "deliver"
    OBVIOUS
  <2>3. PICK cl : cl = IF e.kind = "ended" THEN t.cleared \cup {e.sid} ELSE t.cleared
    OBVIOUS
  <2>4. PICK x : x = [t EXCEPT !.step = st, !.cleared = cl]
    OBVIOUS
  <2>5. task' = [task EXCEPT ![p] = x]
    BY <1>0, <1>1, <1>2, <2>1, <2>2, <2>3, <2>4 DEF EmitHook, TasksTyped
  <2>6. x.step = st /\ x.todo = task[p].todo
    BY <1>1, <2>4 DEF TaskType
  <2>7. HandsOn(p)
    BY <1>0, <2>5, <2>6, SameEvents DEF Blank
  <2> QED BY <1>0, <2>7, StutterEndsNone
<1>3. CASE EngineJoin(p)
  <2>1. PICK x : x = [t EXCEPT !.step = "deliver"]
    OBVIOUS
  <2>2. task' = [task EXCEPT ![p] = x]
    BY <1>0, <1>1, <1>3, <2>1 DEF EngineJoin, TasksTyped
  <2>3. x.step = "deliver" /\ x.todo = task[p].todo
    BY <1>1, <2>1 DEF TaskType
  <2>4. HandsOn(p)
    BY <1>0, <2>2, <2>3, SameEvents DEF Blank
  <2> QED BY <1>0, <2>4, StutterEndsNone
<1> QED BY <1>2, <1>3

(* A frame is put in the queue, refused by it, or has no recipient.        *)
LEMMA FrameHands ==
    ASSUME RInv, EndsInv, NEW p \in Procs, EmitFrame(p)
    PROVE  HandsOn(p) /\ NoEnds
<1>0. TasksTyped /\ RelayTypeOK /\ TasksOK /\ UNCHANGED <<sess, life>> /\ task[p].step = "deliver"
  BY EndsParts DEF EmitFrame, ledger, RInv
<1>1. PICK e \in Events : e = task[p].todo[1] /\ SendFrame(p, e)
  BY SentFrame
<1>2. e.to \in Conns /\ e.sid \in SessionIds
  BY DEF Events
<1>3. PICK closed : closed = IF Closing(p, e) THEN task[p].closed \cup {e.sid} ELSE task[p].closed
  OBVIOUS
<1>4. CASE Registered(e.to) /\ ~Full(e.to)
  <2>1. /\ task' = [task EXCEPT ![p] = Popped(p, closed)]
        /\ told' = [told EXCEPT ![e.to][e.sid] = Told(@, e.kind)]
    BY <1>1, <1>3, <1>4 DEF SendFrame
  <2>2. told'[e.to][e.sid] = Told(told[e.to][e.sid], e.kind)
    BY <1>0, <1>2, <2>1 DEF RelayTypeOK
  <2>3. e.kind = "ended" => Excused(e.to, e.sid)'
    BY <2>2 DEF Excused, HeardEnd, Told
  <2> QED BY <1>0, <1>1, <2>1, <2>3, PopsExcused, StutterEndsNone
<1>5. CASE Registered(e.to) /\ Full(e.to)
  <2>1. /\ task' = [task EXCEPT ![p].step = "expel", ![p].closed = closed]
        /\ refused' = refused \cup {<<e.to, e.sid>>}
    BY <1>1, <1>3, <1>5 DEF SendFrame
  <2>2. PICK t \in TaskType : t = task[p]
    BY <1>0 DEF TasksTyped
  <2>3. PICK x : x = [t EXCEPT !.step = "expel", !.closed = closed]
    OBVIOUS
  <2>4. task' = [task EXCEPT ![p] = x]
    BY <1>0, <2>1, <2>2, <2>3 DEF TasksTyped
  <2>5. x.step = "expel" /\ x.todo = task[p].todo
    BY <2>2, <2>3 DEF TaskType
  <2>6. \E d \in Conns : <<d, x.todo[1].sid>> \in refused'
    BY <1>1, <1>2, <2>1, <2>5
  <2>7. HandsOn(p)
    BY <1>0, <2>4, <2>5, <2>6, SameEvents DEF Blank
  <2> QED BY <1>0, <2>7, StutterEndsNone
<1>6. CASE ~Registered(e.to)
  <2>1. task' = [task EXCEPT ![p] = Popped(p, task[p].closed)]
    BY <1>1, <1>6 DEF SendFrame, SkipFrame
  <2>2. life'[e.to] \notin {"open", "leaving"}
    BY <1>0, <1>6 DEF Registered
  <2>3. Excused(e.to, e.sid)'
    BY <2>2 DEF Excused
  <2> QED BY <1>0, <1>1, <2>1, <2>3, PopsExcused, StutterEndsNone
<1> QED BY <1>4, <1>5, <1>6

(* An expulsion is silent, but a frame of its session has been refused.    *)
LEMMA ExpelHands ==
    ASSUME RInv, EndsInv, NEW p \in Procs, Expel(p)
    PROVE  HandsOn(p) /\ Heralded
<1>0. IInv /\ RelayTypeOK /\ TasksOK /\ InOrder(p) /\ task[p].step = "expel" /\ refused' = refused
  BY EndsParts DEF Expel, RInv
<1>1. PICK e \in Events : e = Head(task[p].todo) /\ e = task[p].todo[1]
  BY FirstEvent
<1>2. e.to \in Conns /\ e.sid \in SessionIds
  BY DEF Events
<1>3. \E d \in Conns : <<d, e.sid>> \in refused'
  BY <1>0, <1>1 DEF InOrder
<1>4. \A c \in Conns : Excused(c, e.sid)'
  BY <1>3 DEF Excused
<1>5. task' = [task EXCEPT ![p] = Popped(p, task[p].closed)]
  BY DEF Expel
<1>6. HandsOn(p)
  BY <1>0, <1>1, <1>2, <1>4, <1>5, PopsExcused
<1>7. End(e.to, e.sid, "peer_disconnected") \/ UNCHANGED sess
  BY <1>1 DEF Expel, ledger
<1>8. CASE End(e.to, e.sid, "peer_disconnected")
  <2>1. /\ {e.sid} \in SUBSET byID /\ "peer_disconnected" \in Reasons
        /\ endAll({e.sid}, "peer_disconnected")
    BY <1>8 DEF End, EndResult, lookupMember, Reasons
  <2>2. ASSUME NEW j \in SessionIds, Ends(j) PROVE j = e.sid
    BY <1>0, <2>1, <2>2, ClosesOnly
  <2> QED BY <1>4, <1>6, <2>2 DEF Heralded, Accounted
<1> QED BY <1>6, <1>7, <1>8, StutterEndsNone, NothingToHerald

LEMMA StepHands ==
    ASSUME RInv, EndsInv, [RelayNext]_vars
    PROVE  (UNCHANGED task \/ \E p \in Procs : HandsOn(p)) /\ Heralded
<1>0. IInv /\ Conns \subseteq Procs /\ Reaper \in Procs
  BY DEF RInv, LedgerInv, Procs
<1>1. ASSUME NEW c \in Conns,
             Unregister(c) \/ Connect(c) \/ Write(c) \/ WriterExits(c) \/ ReaderReturns(c)
      PROVE  UNCHANGED task /\ Heralded
  <2>1. UNCHANGED <<task, sess>>
    BY <1>1 DEF Unregister, Connect, Write, WriterExits, ReaderReturns, ledger
  <2> QED BY <2>1, StutterEndsNone, NothingToHerald
<1>2. CASE RelayTick \/ UNCHANGED vars
  <2>1. UNCHANGED task /\ (Tick \/ UNCHANGED sess)
    BY <1>2 DEF RelayTick, plane, vars, ledger
  <2> QED BY <1>0, <2>1, TickEndsNone, StutterEndsNone, NothingToHerald
<1> QED
  BY <1>0, <1>1, <1>2, HandleHands, ContinueHands, LeaveAllHands, DropHands, ReapHands, HookHands,
     FrameHands, ExpelHands, NothingToHerald DEF RelayNext, Teardown, Emit

LEMMA RefusedGrows == [RelayNext]_vars => refused \subseteq refused'
<1> SUFFICES ASSUME [RelayNext]_vars PROVE refused \subseteq refused'
  OBVIOUS
<1>1. ASSUME NEW c \in Conns, Handle(c) PROVE refused' = refused
  BY <1>1 DEF Handle, HandleStart, HandleJoin, HandleEnd, HandleP2P, HandleEngineSignal,
              Refuse, Begin
<1>2. ASSUME NEW c \in Conns, Continue(c) PROVE refused \subseteq refused'
  BY <1>2 DEF Continue, NegotiateSteer, Relay, EngineReply, Dispatch, Refuse
<1>3. ASSUME NEW c \in Conns,
             Teardown(c) \/ Connect(c) \/ Write(c) \/ WriterExits(c) \/ ReaderReturns(c)
      PROVE  refused' = refused
  BY <1>3 DEF Teardown, EngineLeaveAll, Drop, Unregister, Connect, Write, WriterExits, ReaderReturns
<1>4. ASSUME NEW p \in Procs, EmitHook(p) \/ EngineJoin(p) \/ Expel(p) PROVE refused' = refused
  BY <1>4 DEF EmitHook, EngineJoin, Expel
<1>5. ASSUME NEW p \in Procs, EmitFrame(p) PROVE refused \subseteq refused'
  BY <1>5 DEF EmitFrame, SendFrame
<1>6. HandleReap \/ RelayTick \/ UNCHANGED vars => refused' = refused
  BY DEF HandleReap, RelayTick, plane, vars
<1> QED BY <1>1, <1>2, <1>3, <1>4, <1>5, <1>6 DEF RelayNext, Emit

(* What excuses a notice excuses it for good.                              *)
LEMMA ExcusedStays ==
    ASSUME RInv, [RelayNext]_vars, NEW c \in Conns, NEW i \in SessionIds, life[c] # "new",
           Excused(c, i)
    PROVE  Excused(c, i)' /\ life'[c] # "new"
<1>0. life \in [Conns -> Lives] /\ told \in [Conns -> [SessionIds -> Beliefs]]
  BY DEF RInv, RelayTypeOK, Lives
<1>1. HeardEnd(c, i) => HeardEnd(c, i)'
  <2>1. ASSUME NEW p \in Procs, EmitFrame(p), HeardEnd(c, i) PROVE HeardEnd(c, i)'
    <3>1. PICK e \in Events : SendFrame(p, e)
      BY <2>1, SentFrame
    <3>2. told' = told \/ told' = [told EXCEPT ![e.to][e.sid] = Told(@, e.kind)]
      BY <3>1 DEF SendFrame
    <3>3. told'[c][i] = told[c][i] \/ told'[c][i] = Told(told[c][i], e.kind)
      BY <1>0, <3>2 DEF Events
    <3> QED BY <2>1, <3>3 DEF HeardEnd, Told
  <2> QED BY <2>1, Writers DEF HeardEnd
<1>2. /\ life[c] \notin {"open", "leaving"} => life'[c] \notin {"open", "leaving"}
      /\ life'[c] # "new"
  <2>1. ASSUME NEW d \in Conns, LifeOnly(d)
        PROVE  /\ life[c] \notin {"open", "leaving"} => life'[c] \notin {"open", "leaving"}
               /\ life'[c] # "new"
    BY <1>0, <2>1 DEF LifeOnly, Connect, ReaderReturns, Unregister
  <2>2. ASSUME NEW d \in Conns, Drop(d)
        PROVE  /\ life[c] \notin {"open", "leaving"} => life'[c] \notin {"open", "leaving"}
               /\ life'[c] # "new"
    BY <1>0, <2>2 DEF Drop
  <2> QED BY <2>1, <2>2, StepKinds DEF Seating
<1> QED BY <1>1, <1>2, RefusedGrows DEF Excused

LEMMA SeatedIsNotNew ==
    ASSUME RInv, EndsInv, [RelayNext]_vars, NEW i \in SessionIds, NEW c \in Conns, c \in Seats(i)'
    PROVE  life'[c] # "new" /\ (sess[i].state = "ended" => c \in Seats(i))
<1>0. /\ IInv /\ life \in [Conns -> Lives] /\ sess \in [SessionIds -> Session]
      /\ (c \in Seats(i) => life[c] # "new")
  BY DEF RInv, RelayTypeOK, Lives, EndsInv, LedgerInv, IInv, TypeOK
<1>1. CASE UNCHANGED life /\ Still
  <2>1. c \in Seats(i)
    BY <1>1 DEF Still, Seats
  <2> QED BY <1>0, <1>1, <2>1
<1>2. ASSUME NEW d \in Conns, NEW j \in SessionIds, Seating(d, j)
      PROVE  life'[c] # "new" /\ (sess[i].state = "ended" => c \in Seats(i))
  <2>1. sess[j].state # "ended" /\ (i # j => sess'[i] = sess[i])
    <3>1. CASE Start(d, j)
      BY <1>0, <3>1, StartGrows DEF Unborn
    <3>2. CASE Join(d, j)
      BY <1>0, <3>2, JoinGrows, RegisteredNotEnded
    <3> QED BY <1>2, <3>1, <3>2 DEF Seating
  <2>2. i # j => c \in Seats(i)
    BY <2>1 DEF Seats
  <2>3. i = j => c \in Seats(i) \cup {d}
    <3>1. CASE Start(d, j)
      <4>0. sess'[j] = NewSession(d)
        BY <1>0, <3>1, StartGrows
      <4>1. sess'[j].members = <<d>>
        BY <4>0 DEF NewSession
      <4>2. Seats(j)' = {d}
        BY <4>1 DEF Seats
      <4> QED BY <4>2
    <3>2. CASE Join(d, j)
      <4>1. sess'[j].members = Append(sess[j].members, d) /\ sess[j].members \in Seq(Conns)
        BY <1>0, <3>2, JoinGrows DEF Session
      <4>2. Seats(j)' \subseteq Seats(j) \cup {d}
        BY <4>1 DEF Seats
      <4> QED BY <4>2
    <3> QED BY <1>2, <3>1, <3>2 DEF Seating
  <2>4. life' = life /\ life[d] = "open"
    BY <1>2 DEF Seating
  <2> QED BY <1>0, <2>1, <2>2, <2>3, <2>4
<1>3. ASSUME NEW d \in Conns, LifeOnly(d)
      PROVE  life'[c] # "new" /\ (sess[i].state = "ended" => c \in Seats(i))
  <2>1. c \in Seats(i)
    BY <1>3 DEF LifeOnly, ledger, Seats
  <2>2. life'[c] # "new"
    BY <1>0, <1>3, <2>1 DEF LifeOnly, Connect, ReaderReturns, Unregister
  <2> QED BY <2>1, <2>2
<1>4. ASSUME NEW d \in Conns, Drop(d)
      PROVE  life'[c] # "new" /\ (sess[i].state = "ended" => c \in Seats(i))
  <2>1. Still
    BY <1>0, <1>4, ConnDroppedStill DEF Drop
  <2>2. c \in Seats(i)
    BY <2>1 DEF Still, Seats
  <2>3. life'[c] # "new"
    BY <1>0, <1>4, <2>2 DEF Drop
  <2> QED BY <2>2, <2>3
<1> QED BY <1>1, <1>2, <1>3, <1>4, StepKinds

LEMMA EndsNext == RInv /\ EndsInv /\ [RelayNext]_vars => EndsInv'
<1> SUFFICES ASSUME RInv, EndsInv, [RelayNext]_vars PROVE EndsInv'
  OBVIOUS
<1>0. (UNCHANGED task \/ \E p \in Procs : HandsOn(p)) /\ Heralded /\ refused \subseteq refused'
  BY StepHands, RefusedGrows
<1>1. ASSUME NEW q \in Procs, task'[q] = task[q] PROVE InOrder(q)'
  BY <1>0, <1>1 DEF EndsInv, InOrder
<1>2. \A q \in Procs : InOrder(q)'
  BY <1>0, <1>1 DEF HandsOn
<1>3. ASSUME NEW i \in SessionIds, NEW c \in Conns, sess'[i].state = "ended", c \in Seats(i)'
      PROVE  Accounted(c, i)'
  <2>1. CASE Ends(i)
    BY <1>0, <1>3, <2>1 DEF Heralded
  <2>2. CASE ~Ends(i)
    <3>1. sess[i].state = "ended" /\ c \in Seats(i)
      BY <1>3, <2>2, SeatedIsNotNew DEF Ends
    <3>2. life[c] # "new" /\ Accounted(c, i)
      BY <3>1 DEF EndsInv
    <3>3. CASE Excused(c, i)
      BY <3>2, <3>3, ExcusedStays DEF Accounted
    <3>4. ASSUME NEW q \in Procs, Carries(q, c, i) PROVE Accounted(c, i)'
      <4>1. CASE task'[q] = task[q]
        <5>1. Carries(q, c, i)'
          BY <3>4, <4>1 DEF Carries
        <5> QED BY <5>1 DEF Accounted
      <4>2. CASE HandsOn(q)
        BY <3>4, <4>2 DEF HandsOn, Accounted
      <4> QED BY <1>0, <4>1, <4>2 DEF HandsOn
    <3> QED BY <3>2, <3>3, <3>4 DEF Accounted
  <2> QED BY <2>1, <2>2
<1>4. \A i \in SessionIds, c \in Conns : c \in Seats(i)' => life'[c] # "new"
  BY SeatedIsNotNew
<1> QED BY <1>2, <1>3, <1>4 DEF EndsInv

LEMMA InitEnds == RelayInit => EndsInv
<1> SUFFICES ASSUME RelayInit PROVE EndsInv
  OBVIOUS
<1>1. \A i \in SessionIds : sess[i].state = "unborn" /\ Seats(i) = {}
  BY DEF RelayInit, Init, Unborn, Seats
<1>2. \A p \in Procs : InOrder(p)
  BY DEF RelayInit, InOrder, Idle
<1> QED BY <1>1, <1>2 DEF EndsInv

(* A client is told of an end only when the session is over; when the      *)
(* relay is quiet the gauge counts every live session; and no end is       *)
(* forgotten while a member it concerns is there to hear it (events.go     *)
(* emit, manager.go endLocked).                                            *)
THEOREM EndsAlwaysReportedTruly == RelaySpec => []EndsReportedTruly
<1>1. RInv => EndedMeansEnded
  <2> SUFFICES ASSUME RInv, NEW c \in Conns, NEW i \in SessionIds, HeardEnd(c, i) PROVE i \notin byID
    BY DEF EndedMeansEnded
  <2>1. sess[i].state = "ended"
    BY DEF RInv, HeardRight
  <2> QED BY <2>1, RegisteredNotEnded DEF RInv, LedgerInv
<1>2. RInv /\ GaugeInv => GaugeNeverUnder
  <2> SUFFICES ASSUME RInv, GaugeInv, \A p \in Procs : task[p] = Idle
               PROVE  gauge >= Cardinality(byID)
    BY DEF GaugeNeverUnder
  <2>1. \A p \in Procs : ToClose(p) = {} /\ Starting(p) = {}
    BY DEF EndsIn, ToClose, Starting, Idle
  <2>2. Counted = byID /\ Awaited = {}
    BY <2>1 DEF Counted, Awaited
  <2>3. gauge \in Int
    BY DEF RInv, RelayTypeOK
  <2> QED BY <2>2, <2>3, FS_EmptySet DEF GaugeInv
<1>3. RelaySpec => []GaugeInv
  BY InitGauge, GaugeNext, RelayInvariance, PTL DEF RelaySpec
<1>4. EndsInv => EndsOnTheirWay
  <2> SUFFICES ASSUME EndsInv, NEW c \in Conns, NEW i \in SessionIds,
                      sess[i].state = "ended", c \in Seats(i), life[c] \in {"open", "leaving"}
               PROVE  \/ HeardEnd(c, i) \/ \E d \in Conns : <<d, i>> \in refused
                      \/ \E p \in Procs : Carries(p, c, i)
    BY DEF EndsOnTheirWay, Carries
  <2> QED BY DEF EndsInv, Accounted, Excused
<1>5. RelaySpec => []EndsInv
  BY InitEnds, EndsNext, RelayInvariance, PTL DEF RelaySpec
<1>6. RInv /\ GaugeInv /\ EndsInv => EndsReportedTruly
  BY <1>1, <1>2, <1>4 DEF EndsReportedTruly
<1> QED BY <1>3, <1>5, <1>6, RelayInvariance, PTL

-----------------------------------------------------------------------------
(* Offers and answers in turn.  Only the ledger's verdict on an offer or   *)
(* an answer puts one on its way: every other step emits something else,   *)
(* or goes on with what was there.                                         *)

SDP == {"offer", "answer"}

Frames(t) == {t.todo[k] : k \in DOMAIN t.todo}

RelaysNoSDP == \A p \in Procs : {e \in Frames(task'[p]) : e.kind \in SDP} \subseteq Frames(task[p])

AllInTurn == \A p \in Procs, i \in SessionIds, d \in Conns : InTurn(p, i, d)

LEMMA EmitsIsFrames ==
    ASSUME NEW p \in Procs, NEW kind, NEW d, NEW i
    PROVE  /\ Emits(p, kind, d, i) <=> Event(kind, d, i) \in Frames(task[p])
           /\ Emits(p, kind, d, i)' <=> Event(kind, d, i) \in Frames(task'[p])
BY DEF Emits, Frames

LEMMA NoSDPInTurn == RelaysNoSDP => AllInTurn
<1> SUFFICES ASSUME RelaysNoSDP, NEW p \in Procs, NEW i \in SessionIds, NEW d \in Conns
             PROVE  InTurn(p, i, d)
  BY DEF AllInTurn
<1>1. ASSUME NEW kind \in SDP, Emits(p, kind, d, i)' PROVE Emits(p, kind, d, i)
  <2>0. Event(kind, d, i).kind = kind
    BY DEF Event
  <2>1. PICK e : e = Event(kind, d, i) /\ e.kind = kind
    BY <2>0
  <2>2. e \in Frames(task'[p])
    BY <1>1, <2>1, EmitsIsFrames
  <2>3. e \in Frames(task[p])
    BY <2>1, <2>2 DEF RelaysNoSDP
  <2> QED BY <2>1, <2>3, EmitsIsFrames
<1> QED BY <1>1 DEF InTurn, SDP

LEMMA PutsNoSDP ==
    ASSUME TasksTyped, NEW p \in Procs, NEW x, task' = [task EXCEPT ![p] = x],
           \A k \in DOMAIN x.todo : x.todo[k].kind \in SDP => x.todo[k] \in Frames(task[p])
    PROVE  RelaysNoSDP
<1>1. task'[p] = x /\ \A q \in Procs : q # p => task'[q] = task[q]
  BY DEF TasksTyped
<1>2. {e \in Frames(x) : e.kind \in SDP} \subseteq Frames(task[p])
  BY DEF Frames
<1> QED BY <1>1, <1>2 DEF RelaysNoSDP

LEMMA KeepsNoSDP ==
    ASSUME TasksTyped, NEW p \in Procs, NEW x, task' = [task EXCEPT ![p] = x],
           x.todo = task[p].todo
    PROVE  RelaysNoSDP
<1>1. \A k \in DOMAIN x.todo : x.todo[k] \in Frames(task[p])
  BY DEF Frames
<1> QED BY <1>1, PutsNoSDP

LEMMA EmitsNoSDP ==
    ASSUME TasksTyped, NEW p \in Procs, NEW es, task' = [task EXCEPT ![p] = Emitting(es)],
           \A k \in DOMAIN es : es[k].kind \notin SDP
    PROVE  RelaysNoSDP
<1>1. PICK x : x = Emitting(es) /\ x.todo = es
  BY EmittingIs
<1> QED BY <1>1, PutsNoSDP

LEMMA IdlesNoSDP ==
    ASSUME TasksTyped, NEW p \in Procs, task' = [task EXCEPT ![p] = Idle]
    PROVE  RelaysNoSDP
<1>0. Idle.todo = <<>>
  BY DEF Idle
<1>1. PICK x : x = Idle /\ x.todo = <<>>
  BY <1>0
<1>2. DOMAIN x.todo = {}
  BY <1>1
<1> QED BY <1>1, <1>2, PutsNoSDP

LEMMA BusiesNoSDP ==
    ASSUME TasksTyped, NEW p \in Procs, NEW st \in Steps, NEW kd \in P2P \cup {None},
           NEW i \in SessionIds \cup {None}, task' = [task EXCEPT ![p] = Busy(st, kd, i)]
    PROVE  RelaysNoSDP
<1>1. PICK x : x = Busy(st, kd, i) /\ x.todo = <<>>
  BY BusyIs
<1>2. DOMAIN x.todo = {}
  BY <1>1
<1> QED BY <1>1, <1>2, PutsNoSDP

LEMMA PopsNoSDP ==
    ASSUME RelayTypeOK, TasksOK, NEW p \in Procs, task[p].step \in {"deliver", "expel"},
           NEW closed, task' = [task EXCEPT ![p] = Popped(p, closed)]
    PROVE  RelaysNoSDP
<1>1. PICK x : x = Popped(p, closed) /\ x.todo = Tail(task[p].todo)
  BY PoppedIs
<1>2. \A k \in DOMAIN x.todo : x.todo[k] \in Frames(task[p])
  BY <1>1, HeadOfTask DEF Frames
<1> QED BY <1>1, <1>2, PutsNoSDP, TypesOfTasks

LEMMA HandlersNoSDP == ASSUME RInv, NEW c \in Conns, Handle(c) PROVE RelaysNoSDP
<1>0. c \in Procs /\ TasksTyped
  BY TypesOfTasks DEF Procs, RInv
<1>1. CASE Refuse(c)
  BY <1>0, <1>1, IdlesNoSDP DEF Refuse
<1>2. ASSUME NEW i, task' = [task EXCEPT ![c] = Emitting(StartEvents(c, i))] PROVE RelaysNoSDP
  <2>1. PICK es : es = StartEvents(c, i)
    OBVIOUS
  <2>2. \A k \in DOMAIN es : es[k].kind \notin SDP
    BY <2>1 DEF StartEvents, Event, SDP
  <2> QED BY <1>0, <1>2, <2>1, <2>2, EmitsNoSDP
<1>3. ASSUME NEW i \in SessionIds, task' = [task EXCEPT ![c] = Emitting(endEvents(i))]
      PROVE  RelaysNoSDP
  <2>1. PICK es : es = endEvents(i)
    OBVIOUS
  <2>2. \A k \in DOMAIN es : es[k].kind \notin SDP
    BY <2>1 DEF endEvents, Event, SDP
  <2> QED BY <1>0, <1>3, <2>1, <2>2, EmitsNoSDP
<1>4. ASSUME NEW i \in SessionIds, task' = [task EXCEPT ![c] =
                          [Busy("negotiate", None, i) EXCEPT !.todo = JoinEvents(c, i)]]
      PROVE  RelaysNoSDP
  <2>1. PICK b \in TaskType : b = Busy("negotiate", None, i)
    BY BusyIs DEF Steps
  <2>2. PICK es : es = JoinEvents(c, i)
    OBVIOUS
  <2>3. PICK x : x = [b EXCEPT !.todo = es]
    OBVIOUS
  <2>4. x.todo = es
    BY <2>1, <2>3 DEF TaskType
  <2>5. \A k \in DOMAIN es : es[k].kind \notin SDP
    BY <2>2 DEF JoinEvents, Event, SDP
  <2> QED BY <1>0, <1>4, <2>1, <2>2, <2>3, <2>4, <2>5, PutsNoSDP
<1>5. ASSUME NEW i \in SessionIds, NEW st \in {"relay", "engine"}, NEW kd \in P2P \cup {None},
             Begin(c, st, kd, i)
      PROVE  RelaysNoSDP
  <2>1. st \in Steps /\ task' = [task EXCEPT ![c] = Busy(st, kd, i)]
    BY <1>5 DEF Steps, Begin
  <2> QED BY <1>0, <2>1, BusiesNoSDP
<1>6. CASE HandleStart(c)
  BY <1>1, <1>2, <1>6 DEF HandleStart
<1>7. ASSUME NEW i \in SessionIds, HandleJoin(c, i) PROVE RelaysNoSDP
  BY <1>1, <1>4, <1>7 DEF HandleJoin
<1>8. ASSUME NEW i \in SessionIds, HandleEnd(c, i) PROVE RelaysNoSDP
  BY <1>1, <1>3, <1>8 DEF HandleEnd
<1>9. ASSUME NEW i \in SessionIds, NEW kind \in P2P, HandleP2P(c, kind, i) PROVE RelaysNoSDP
  BY <1>1, <1>5, <1>9 DEF HandleP2P
<1>10. ASSUME NEW i \in SessionIds, HandleEngineSignal(c, i) PROVE RelaysNoSDP
  BY <1>1, <1>5, <1>10 DEF HandleEngineSignal
<1> QED BY <1>6, <1>7, <1>8, <1>9, <1>10 DEF Handle

(* The two members hold the two roles: whoever may answer was not the one  *)
(* to offer, so the frame's recipient was.                                 *)
LEMMA AnsweredIsOfferer ==
    ASSUME IInv, NEW c \in Conns, NEW i \in SessionIds, AnswerResult(c, i) = "ok"
    PROVE  sess[i].state = "offering" /\ sess[i].offerBy = RoleOf(i, peerOf(i, c))
<1>1. i \in byID /\ c \in Seats(i) /\ sess[i].state = "offering" /\ RoleOf(i, c) # sess[i].offerBy
  BY DEF AnswerResult, lookupMember
<1>2. /\ sess[i].offerBy \in {"initiator", "responder"} /\ sess[i].members[1] # sess[i].members[2]
      /\ sess[i].members \in Seq(Conns) /\ Len(sess[i].members) = 2
  BY <1>1 DEF IInv, SeatsOK, GlareGuard, TypeOK, Session, memberCount, Roles
<1>3. c = sess[i].members[1] \/ c = sess[i].members[2]
  BY <1>1, <1>2 DEF Seats
<1> QED BY <1>1, <1>2, <1>3 DEF RoleOf, peerOf

(* One frame for the peer: nothing else is newly relayed.                  *)
LEMMA OneFrame ==
    ASSUME TasksTyped, NEW c \in Procs, NEW f, NEW es, es = <<f>>,
           task' = [task EXCEPT ![c] = Emitting(es)]
    PROVE  \A p \in Procs : \A e \in Frames(task'[p]) \ Frames(task[p]) : p = c /\ e = f
<1>1. PICK x : x = Emitting(es) /\ x.todo = es
  BY EmittingIs
<1>2. task'[c] = x /\ \A q \in Procs : q # c => task'[q] = task[q]
  BY <1>1 DEF TasksTyped
<1>3. Frames(x) = {f}
  BY <1>1 DEF Frames
<1> QED BY <1>2, <1>3

LEMMA RelayInTurn == ASSUME RInv, NEW c \in Conns, Relay(c) PROVE AllInTurn
<1>0. c \in Procs /\ TasksTyped /\ IInv /\ sess \in [SessionIds -> Session]
  BY TypesOfTasks DEF Procs, RInv, LedgerInv, IInv, TypeOK
<1>1. PICK j \in SessionIds : j = task[c].sid
  BY <1>0 DEF Relay, RInv, TasksOK, TaskOK
<1>2. PICK to : to = peerOf(j, c)
  OBVIOUS
<1>3. \/ Refuse(c)
      \/ /\ Offer(c, j) /\ task' = [task EXCEPT ![c] = Emitting(<<Event("offer", to, j)>>)]
      \/ /\ Answer(c, j) /\ task' = [task EXCEPT ![c] = Emitting(<<Event("answer", to, j)>>)]
      \/ task' = [task EXCEPT ![c] = Emitting(<<Event("candidate", to, j)>>)]
  BY <1>1, <1>2 DEF Relay, OfferEvents, AnswerEvents, CandidateEvents
<1>4. CASE Refuse(c)
  BY <1>0, <1>4, IdlesNoSDP, NoSDPInTurn DEF Refuse
<1>5. CASE Offer(c, j) /\ task' = [task EXCEPT ![c] = Emitting(<<Event("offer", to, j)>>)]
  <2>1. PICK f : f = Event("offer", to, j)
    OBVIOUS
  <2>2. PICK es : es = <<f>>
    OBVIOUS
  <2>3. task' = [task EXCEPT ![c] = Emitting(es)]
    BY <1>5, <2>1, <2>2
  <2>4. \A q \in Procs : \A e \in Frames(task'[q]) \ Frames(task[q]) : q = c /\ e = f
    BY <1>0, <2>2, <2>3, OneFrame
  <2>5. sess[j].state # "offering" /\ sess'[j].offerBy = RoleOf(j, c)
    <3>1. /\ OfferResult(c, j) = "ok"
          /\ sess' = [sess EXCEPT ![j].state = "offering", ![j].offerBy = RoleOf(j, c)]
      BY <1>5 DEF Offer
    <3>2. sess[j].state # "offering"
      BY <3>1 DEF OfferResult
    <3> QED BY <1>0, <3>1, <3>2 DEF Session
  <2>6. ASSUME NEW p \in Procs, NEW i \in SessionIds, NEW d \in Conns, NEW sdp \in SDP,
               Emits(p, sdp, d, i)', ~Emits(p, sdp, d, i)
        PROVE  p = c /\ sdp = "offer" /\ i = j
    <3>1. PICK e : e = Event(sdp, d, i) /\ e \in Frames(task'[p]) \ Frames(task[p])
      BY <2>6, EmitsIsFrames
    <3>2. p = c /\ e = f
      BY <2>4, <3>1
    <3> QED BY <2>1, <3>1, <3>2 DEF Event
  <2> QED BY <2>5, <2>6 DEF AllInTurn, InTurn, SDP
<1>6. CASE Answer(c, j) /\ task' = [task EXCEPT ![c] = Emitting(<<Event("answer", to, j)>>)]
  <2>1. PICK f : f = Event("answer", to, j)
    OBVIOUS
  <2>2. PICK es : es = <<f>>
    OBVIOUS
  <2>3. task' = [task EXCEPT ![c] = Emitting(es)]
    BY <1>6, <2>1, <2>2
  <2>4. \A q \in Procs : \A e \in Frames(task'[q]) \ Frames(task[q]) : q = c /\ e = f
    BY <1>0, <2>2, <2>3, OneFrame
  <2>5. sess[j].state = "offering" /\ sess[j].offerBy = RoleOf(j, to)
    BY <1>0, <1>2, <1>6, AnsweredIsOfferer DEF Answer
  <2>6. ASSUME NEW p \in Procs, NEW i \in SessionIds, NEW d \in Conns, NEW sdp \in SDP,
               Emits(p, sdp, d, i)', ~Emits(p, sdp, d, i)
        PROVE  sdp = "answer" /\ d = to /\ i = j
    <3>1. PICK e : e = Event(sdp, d, i) /\ e \in Frames(task'[p]) \ Frames(task[p])
      BY <2>6, EmitsIsFrames
    <3>2. p = c /\ e = f
      BY <2>4, <3>1
    <3> QED BY <2>1, <3>1, <3>2 DEF Event
  <2> QED BY <2>5, <2>6 DEF AllInTurn, InTurn, SDP
<1>7. CASE task' = [task EXCEPT ![c] = Emitting(<<Event("candidate", to, j)>>)]
  <2>1. PICK es : es = <<Event("candidate", to, j)>>
    OBVIOUS
  <2>2. \A k \in DOMAIN es : es[k].kind \notin SDP
    BY <2>1 DEF Event, SDP
  <2> QED BY <1>0, <1>7, <2>1, <2>2, EmitsNoSDP, NoSDPInTurn
<1> QED BY <1>3, <1>4, <1>5, <1>6, <1>7

LEMMA TeardownNoSDP ==
    ASSUME RInv, NEW c \in Conns, EngineLeaveAll(c) \/ Drop(c) PROVE RelaysNoSDP
<1>0. c \in Procs /\ TasksTyped /\ "drop" \in Steps
  BY TypesOfTasks DEF Procs, RInv, Steps
<1>1. CASE EngineLeaveAll(c)
  BY <1>0, <1>1, BusiesNoSDP DEF EngineLeaveAll
<1>2. CASE Drop(c)
  <2>1. PICK es : es = ConnDroppedEvents(c)
    OBVIOUS
  <2>2. \A k \in DOMAIN es : es[k].kind \notin SDP
    BY <2>1 DEF ConnDroppedEvents, Event, SDP
  <2> QED BY <1>0, <1>2, <2>1, <2>2, EmitsNoSDP DEF Drop
<1> QED BY <1>1, <1>2

LEMMA ReapNoSDP == ASSUME RInv, HandleReap PROVE RelaysNoSDP
<1>1. PICK order \in [1 .. Cardinality(Expired) -> Expired] :
         task' = [task EXCEPT ![Reaper] = Emitting(
                    [k \in DOMAIN order |-> Event("ended", sess[order[k]].members[1], order[k])])]
  BY DEF HandleReap
<1>2. PICK es : es = [k \in DOMAIN order |-> Event("ended", sess[order[k]].members[1], order[k])]
  OBVIOUS
<1>3. \A k \in DOMAIN es : es[k].kind \notin SDP
  BY <1>2 DEF Event, SDP
<1>4. Reaper \in Procs /\ TasksTyped
  BY TypesOfTasks DEF Procs, RInv
<1> QED BY <1>1, <1>2, <1>3, <1>4, EmitsNoSDP

LEMMA EmissionNoSDP == ASSUME RInv, NEW p \in Procs, Emit(p) PROVE RelaysNoSDP
<1>0. TasksTyped /\ RelayTypeOK /\ TasksOK
  BY TypesOfTasks DEF RInv
<1>1. PICK t \in TaskType : t = task[p]
  BY <1>0 DEF TasksTyped
<1>2. CASE EmitHook(p)
  <2>1. PICK st, cl : task' = [task EXCEPT ![p].step = st, ![p].cleared = cl]
    BY <1>2 DEF EmitHook
  <2>2. PICK x : x = [t EXCEPT !.step = st, !.cleared = cl]
    OBVIOUS
  <2>3. task' = [task EXCEPT ![p] = x] /\ x.todo = task[p].todo
    BY <1>0, <1>1, <2>1, <2>2 DEF TasksTyped, TaskType
  <2> QED BY <1>0, <2>3, KeepsNoSDP
<1>3. CASE EngineJoin(p)
  <2>1. PICK x : x = [t EXCEPT !.step = "deliver"]
    OBVIOUS
  <2>2. task' = [task EXCEPT ![p] = x] /\ x.todo = task[p].todo
    BY <1>0, <1>1, <1>3, <2>1 DEF EngineJoin, TasksTyped, TaskType
  <2> QED BY <1>0, <2>2, KeepsNoSDP
<1>4. CASE EmitFrame(p)
  <2>1. PICK closed \in SUBSET SessionIds :
           \/ task' = [task EXCEPT ![p] = Popped(p, closed)]
           \/ task' = [task EXCEPT ![p].step = "expel", ![p].closed = closed]
    BY <1>4, FrameTask
  <2>2. CASE task' = [task EXCEPT ![p] = Popped(p, closed)]
    BY <1>0, <1>4, <2>2, PopsNoSDP DEF EmitFrame
  <2>3. CASE task' = [task EXCEPT ![p].step = "expel", ![p].closed = closed]
    <3>1. PICK x : x = [t EXCEPT !.step = "expel", !.closed = closed]
      OBVIOUS
    <3>2. task' = [task EXCEPT ![p] = x] /\ x.todo = task[p].todo
      BY <1>0, <1>1, <2>3, <3>1 DEF TasksTyped, TaskType
    <3> QED BY <1>0, <3>2, KeepsNoSDP
  <2> QED BY <2>1, <2>2, <2>3
<1>5. CASE Expel(p)
  <2>1. task[p].step = "expel" /\ task' = [task EXCEPT ![p] = Popped(p, task[p].closed)]
    BY <1>5 DEF Expel
  <2> QED BY <1>0, <2>1, PopsNoSDP
<1> QED BY <1>2, <1>3, <1>4, <1>5 DEF Emit

LEMMA StepInTurn == RInv /\ [RelayNext]_vars => AllInTurn
<1> SUFFICES ASSUME RInv, [RelayNext]_vars PROVE AllInTurn
  OBVIOUS
<1>0. TasksTyped /\ Conns \subseteq Procs
  BY TypesOfTasks DEF RInv, Procs
<1>1. CASE UNCHANGED task
  BY <1>1, NoSDPInTurn DEF RelaysNoSDP
<1>2. ASSUME NEW c \in Conns,
             Unregister(c) \/ Connect(c) \/ Write(c) \/ WriterExits(c) \/ ReaderReturns(c)
      PROVE  UNCHANGED task
  BY <1>2 DEF Unregister, Connect, Write, WriterExits, ReaderReturns
<1>3. RelayTick \/ UNCHANGED vars => UNCHANGED task
  BY DEF RelayTick, plane, vars
<1>4. ASSUME NEW c \in Conns, NegotiateSteer(c) PROVE RelaysNoSDP
  <2>1. PICK x : x = Emitting(task[c].todo) /\ x.todo = task[c].todo
    BY EmittingIs
  <2>2. task' = [task EXCEPT ![c] = x]
    BY <1>0, <1>4, <2>1 DEF NegotiateSteer, TasksTyped
  <2> QED BY <1>0, <2>1, <2>2, KeepsNoSDP
<1>5. ASSUME NEW c \in Conns, EngineReply(c) PROVE UNCHANGED task \/ RelaysNoSDP
  <2>1. UNCHANGED task \/ task' = [task EXCEPT ![c] = Idle]
    BY <1>5 DEF EngineReply, Dispatch, Refuse
  <2> QED BY <1>0, <2>1, IdlesNoSDP
<1>6. ASSUME NEW c \in Conns, Continue(c) PROVE AllInTurn
  BY <1>1, <1>4, <1>5, <1>6, RelayInTurn, NoSDPInTurn DEF Continue
<1> QED
  BY <1>1, <1>2, <1>3, <1>6, HandlersNoSDP, TeardownNoSDP, ReapNoSDP, EmissionNoSDP, NoSDPInTurn
     DEF RelayNext, Teardown

(* Every frame still to be emitted is addressed to a seat of its session,  *)
(* a relayed one to the other seat (router.go HandleMessage); an offer is  *)
(* relayed only while none is outstanding and becomes its sender's, an     *)
(* answer only to the member who had offered (manager.go Offer, Answer).   *)
THEOREM FramesAddressedInTurn == RelaySpec => AddressedInTurn
<1>1. RInv => AddressedToSeats
  <2> SUFFICES ASSUME RInv, NEW p \in Procs, NEW k \in DOMAIN task[p].todo
               PROVE  LET e == task[p].todo[k] IN
                      /\ e.to \in Seats(e.sid) /\ TenantOf[e.to] = sess[e.sid].tenant
                      /\ e.kind \in P2P => p \in Seats(e.sid) \ {e.to}
    BY DEF AddressedToSeats
  <2>1. EventOK(p, task[p].todo[k])
    BY DEF RInv, TasksOK, TaskOK
  <2> QED BY <2>1 DEF EventOK
<1>2. RInv /\ [RelayNext]_vars =>
        [\A p \in Procs, i \in SessionIds, d \in Conns : InTurn(p, i, d)]_vars
  BY StepInTurn DEF AllInTurn
<1> QED BY <1>1, <1>2, RelayInvariance, PTL DEF AddressedInTurn, AnswersMatchOffers, RelaySpec

-----------------------------------------------------------------------------
(* One media path per session.  It is decided once, by the goroutine of    *)
(* the join, between the second seat and the first word of it to a member; *)
(* nothing of the session's SDP is relayed before or decided again after.  *)

Negotiating(q, i) == task[q].step = "negotiate" /\ task[q].sid = i

Relaying(q, i) == task[q].step = "relay" /\ task[q].sid = i

Joinish == {"joined", "peer_joined"}

(* Somebody is about to be told that i has both its members.               *)
Announcing(q, i) ==
    /\ task[q].step # "negotiate"
    /\ \E k \in DOMAIN task[q].todo : task[q].todo[k].kind \in Joinish /\ task[q].todo[k].sid = i

Negotiated(i) == sess[i].state \in {"offering", "answered"}

Decided(i) == memberCount(i) = 2 /\ \A q \in Procs : ~Negotiating(q, i)

DirectPath(i) == Decided(i) /\ i \notin steered

PathOf(i) ==
    /\ \A p, q \in Procs : Negotiating(p, i) /\ Negotiating(q, i) => p = q
    /\ \A q \in Procs : /\ Negotiating(q, i) => \A k \in DOMAIN task[q].todo : task[q].todo[k].sid = i
                        /\ Announcing(q, i) => Decided(i)
                        /\ Relaying(q, i) => DirectPath(i)
    /\ \A c \in Conns : told[c][i] = "paired" => Decided(i)
    /\ Negotiated(i) => DirectPath(i)

PathInv == \A i \in SessionIds : PathOf(i)

(* What a step that decides no path may do to a session.                   *)
Tame(i) ==
    /\ steered' \subseteq steered
    /\ \A q \in Procs :
          /\ Negotiating(q, i)' => Negotiating(q, i) /\ task'[q] = task[q]
          /\ Announcing(q, i)' => Announcing(q, i) \/ Decided(i)
          /\ Relaying(q, i)' => Relaying(q, i) \/ DirectPath(i)
    /\ \A c \in Conns : told'[c][i] = "paired" => told[c][i] = "paired" \/ Decided(i)
    /\ Negotiated(i)' => Negotiated(i) \/ DirectPath(i)

LEMMA DecidedStays ==
    ASSUME TypeOK, LedgerGrows, NEW i \in SessionIds, Decided(i),
           \A q \in Procs : Negotiating(q, i)' => Negotiating(q, i)
    PROVE  Decided(i)'
<1>1. memberCount(i)' = 2
  BY SeatsKept DEF LedgerGrows, Decided
<1> QED BY <1>1 DEF Decided

LEMMA TameKeepsPath ==
    ASSUME TypeOK, LedgerGrows, NEW i \in SessionIds, PathOf(i), Tame(i)
    PROVE  PathOf(i)'
<1>1. Decided(i) => Decided(i)'
  BY DecidedStays DEF Tame
<1>2. DirectPath(i) => DirectPath(i)'
  BY <1>1 DEF Tame, DirectPath
<1>3. \A q \in Procs : /\ Announcing(q, i)' => Decided(i)
                       /\ Relaying(q, i)' => DirectPath(i)
  BY DEF Tame, PathOf
<1>4. \A p, q \in Procs : Negotiating(p, i)' /\ Negotiating(q, i)' => p = q
  BY DEF Tame, PathOf
<1>5. ASSUME NEW q \in Procs, Negotiating(q, i)'
      PROVE  \A k \in DOMAIN task'[q].todo : task'[q].todo[k].sid = i
  <2>1. Negotiating(q, i) /\ task'[q] = task[q]
    BY <1>5 DEF Tame
  <2> QED BY <2>1 DEF PathOf
<1>6. \A c \in Conns : told'[c][i] = "paired" => Decided(i)
  BY DEF Tame, PathOf
<1>7. Negotiated(i)' => DirectPath(i)
  BY DEF Tame, PathOf
<1> QED BY <1>1, <1>2, <1>3, <1>4, <1>5, <1>6, <1>7 DEF PathOf

(* A goroutine that goes on with events it had, or others than a join's.   *)
GoesOn(p) ==
    /\ \A q \in Procs : q # p => task'[q] = task[q]
    /\ task'[p].step \notin {"negotiate", "relay"}
    /\ \A k \in DOMAIN task'[p].todo :
          task'[p].todo[k].kind \in Joinish => Announcing(p, task'[p].todo[k].sid)

LEMMA GoingOnIsTame ==
    ASSUME NEW p \in Procs, GoesOn(p), NEW i \in SessionIds, steered' \subseteq steered,
           \A c \in Conns : told'[c][i] = "paired" => told[c][i] = "paired" \/ Decided(i),
           Negotiated(i)' => Negotiated(i) \/ DirectPath(i)
    PROVE  Tame(i)
<1>1. ASSUME NEW q \in Procs, q # p
      PROVE  /\ Negotiating(q, i)' => Negotiating(q, i) /\ task'[q] = task[q]
             /\ Announcing(q, i)' => Announcing(q, i)
             /\ Relaying(q, i)' => Relaying(q, i)
  BY <1>1 DEF GoesOn, Negotiating, Announcing, Relaying
<1>2. ~Negotiating(p, i)' /\ ~Relaying(p, i)' /\ (Announcing(p, i)' => Announcing(p, i))
  BY DEF GoesOn, Negotiating, Announcing, Relaying
<1> QED BY <1>1, <1>2 DEF Tame

LEMMA IdleGoesOn ==
    ASSUME TasksTyped, NEW p \in Procs, task' = [task EXCEPT ![p] = Idle] PROVE GoesOn(p)
<1>1. task'[p] = Idle /\ \A q \in Procs : q # p => task'[q] = task[q]
  BY DEF TasksTyped
<1> QED BY <1>1 DEF GoesOn, Idle

LEMMA EmittingGoesOn ==
    ASSUME TasksTyped, NEW p \in Procs, NEW es, task' = [task EXCEPT ![p] = Emitting(es)],
           \A k \in DOMAIN es : es[k].kind \notin Joinish
    PROVE  GoesOn(p)
<1>1. task'[p] = Emitting(es) /\ \A q \in Procs : q # p => task'[q] = task[q]
  BY DEF TasksTyped
<1>2. Emitting(es).step \in {"idle", "hook"} /\ Emitting(es).todo = es
  BY DEF Emitting, Idle
<1> QED BY <1>1, <1>2 DEF GoesOn

LEMMA PoppedGoesOn ==
    ASSUME RelayTypeOK, TasksOK, NEW p \in Procs, task[p].step \in {"deliver", "expel"},
           NEW closed, task' = [task EXCEPT ![p] = Popped(p, closed)]
    PROVE  GoesOn(p)
<1> DEFINE next == Tail(task[p].todo)
<1>0. TasksTyped
  BY TypesOfTasks
<1>1. CASE next = <<>>
  <2>1. task' = [task EXCEPT ![p] = Idle]
    BY <1>1 DEF Popped
  <2> QED BY <1>0, <2>1, IdleGoesOn
<1>2. CASE next # <<>>
  <2>1. PICK t \in TaskType, es \in Seq(Events) : t = task[p] /\ es = next
    BY <1>0, HeadOfTask DEF TasksTyped
  <2> DEFINE x == [t EXCEPT !.step = "hook", !.todo = es, !.closed = closed]
  <2>2. x.step = "hook" /\ x.todo = next
    <3> HIDE DEF next
    <3> QED BY <2>1 DEF TaskType
  <2>3. task'[p] = x /\ \A q \in Procs : q # p => task'[q] = task[q]
    BY <1>0, <1>2, <2>1 DEF TasksTyped, Popped
  <2> HIDE DEF x
  <2>4. \A k \in DOMAIN next : k + 1 \in DOMAIN task[p].todo /\ next[k] = task[p].todo[k + 1]
    BY HeadOfTask
  <2> HIDE DEF next
  <2> QED BY <2>2, <2>3, <2>4 DEF GoesOn, Announcing
<1> QED BY <1>1, <1>2

(* Only an offer and an answer begin or resume an exchange of SDP.         *)
LEMMA EndAllNegotiatesNone ==
    ASSUME TypeOK, NEW D, NEW r, endAll(D, r), NEW i \in SessionIds
    PROVE  Negotiated(i)' => Negotiated(i)
<1>1. sess[i] \in Session
  BY DEF TypeOK
<1>2. CASE i \in D
  <2>1. sess'[i] = [sess[i] EXCEPT !.state = "ended", !.reason = r]
    BY <1>2 DEF endAll
  <2>2. sess'[i].state = "ended"
    BY <1>1, <2>1 DEF Session
  <2> QED BY <2>2 DEF Negotiated
<1>3. CASE i \notin D
  BY <1>3 DEF endAll, Negotiated
<1> QED BY <1>2, <1>3

LEMMA LedgerNegotiates ==
    ASSUME TypeOK, NEW i \in SessionIds
    PROVE  /\ \A c \in Conns, j \in SessionIds :
                 Start(c, j) \/ Join(c, j) => (Negotiated(i)' => Negotiated(i))
           /\ \A c \in Conns, j \in SessionIds :
                 Offer(c, j) \/ Answer(c, j) => (Negotiated(i)' => Negotiated(i) \/ i = j)
           /\ \A c, j, r : End(c, j, r) => (Negotiated(i)' => Negotiated(i))
           /\ \A c \in Conns : ConnDropped(c) => (Negotiated(i)' => Negotiated(i))
           /\ Reap \/ Tick => (Negotiated(i)' => Negotiated(i))
<1>0. sess \in [SessionIds -> Session]
  BY DEF TypeOK
<1>1. ASSUME NEW c \in Conns, NEW j \in SessionIds, Start(c, j) \/ Join(c, j)
      PROVE  Negotiated(i)' => Negotiated(i)
  <2>1. CASE Start(c, j)
    <3>1. NewSession(c).state = "pending"
      BY DEF NewSession
    <3> QED BY <1>0, <2>1, <3>1 DEF Start, Negotiated
  <2>2. CASE Join(c, j)
    <3>1. sess'[i].state = sess[i].state
      BY <1>0, <2>2 DEF Join, Session
    <3> QED BY <3>1 DEF Negotiated
  <2> QED BY <1>1, <2>1, <2>2
<1>2. ASSUME NEW c \in Conns, NEW j \in SessionIds, Offer(c, j) \/ Answer(c, j), i # j
      PROVE  Negotiated(i)' => Negotiated(i)
  BY <1>0, <1>2 DEF Offer, Answer, Negotiated
<1>3. ASSUME NEW c, NEW j, NEW r, End(c, j, r) PROVE Negotiated(i)' => Negotiated(i)
  BY <1>3, EndAllNegotiatesNone DEF End
<1>4. ASSUME NEW c \in Conns, ConnDropped(c) PROVE Negotiated(i)' => Negotiated(i)
  <2>1. CASE byConn[c] \in byID
    BY <1>4, <2>1, EndAllNegotiatesNone DEF ConnDropped
  <2>2. CASE byConn[c] \notin byID
    BY <1>4, <2>2 DEF ConnDropped, Negotiated
  <2> QED BY <2>1, <2>2
<1>5. Reap \/ Tick => (Negotiated(i)' => Negotiated(i))
  <2>1. CASE Reap
    BY <2>1, EndAllNegotiatesNone DEF Reap
  <2>2. CASE Tick
    <3>1. sess'[i].state = sess[i].state
      BY <1>0, <2>2 DEF Tick, Session
    <3> QED BY <3>1 DEF Negotiated
  <2> QED BY <2>1, <2>2
<1> QED BY <1>1, <1>2, <1>3, <1>4, <1>5

LEMMA RefusalIsTame ==
    ASSUME RInv, NEW c \in Conns, Refuse(c), NEW i \in SessionIds PROVE Tame(i)
<1>1. GoesOn(c)
  BY IdleGoesOn, TypesOfTasks DEF Refuse, RInv, Procs
<1> QED BY <1>1, GoingOnIsTame DEF Refuse, Procs, Negotiated, ledger

LEMMA StartIsTame ==
    ASSUME RInv, NEW c \in Conns, HandleStart(c), NEW i \in SessionIds PROVE Tame(i)
<1>1. CASE StartResult(c) = "ok"
  <2>1. PICK j \in SessionIds : /\ Start(c, j) /\ UNCHANGED <<steered, told>>
                                /\ task' = [task EXCEPT ![c] = Emitting(StartEvents(c, j))]
    BY <1>1 DEF HandleStart
  <2>2. PICK es : es = StartEvents(c, j)
    OBVIOUS
  <2>3. \A k \in DOMAIN es : es[k].kind \notin Joinish
    BY <2>2 DEF StartEvents, Event, Joinish
  <2>4. GoesOn(c)
    BY <2>1, <2>2, <2>3, EmittingGoesOn, TypesOfTasks DEF RInv, Procs
  <2>5. Negotiated(i)' => Negotiated(i)
    BY <2>1, LedgerNegotiates DEF RInv, RelayTypeOK
  <2> QED BY <2>1, <2>4, <2>5, GoingOnIsTame DEF Procs
<1>2. CASE StartResult(c) # "ok"
  BY <1>2, RefusalIsTame DEF HandleStart
<1> QED BY <1>1, <1>2

LEMMA EndIsTame ==
    ASSUME RInv, NEW c \in Conns, NEW j \in SessionIds, HandleEnd(c, j), NEW i \in SessionIds
    PROVE  Tame(i)
<1>1. CASE EndResult(c, j) = "ok"
  <2>1. PICK es : es = endEvents(j)
    OBVIOUS
  <2>2. /\ End(c, j, "member_ended") /\ UNCHANGED <<steered, told>>
        /\ task' = [task EXCEPT ![c] = Emitting(es)]
    BY <1>1, <2>1 DEF HandleEnd
  <2>3. \A k \in DOMAIN es : es[k].kind \notin Joinish
    BY <2>1 DEF endEvents, Event, Joinish
  <2>4. GoesOn(c)
    BY <2>2, <2>3, EmittingGoesOn, TypesOfTasks DEF RInv, Procs
  <2>5. Negotiated(i)' => Negotiated(i)
    BY <2>2, LedgerNegotiates DEF RInv, RelayTypeOK
  <2> QED BY <2>2, <2>4, <2>5, GoingOnIsTame DEF Procs
<1>2. CASE EndResult(c, j) # "ok"
  BY <1>2, RefusalIsTame DEF HandleEnd
<1> QED BY <1>1, <1>2

(* A polite client's SDP is accepted only after the path was decided.      *)
LEMMA P2PIsTame ==
    ASSUME RInv, PathInv, Polite, NEW c \in Conns, NEW kind \in P2P, NEW j \in SessionIds,
           HandleP2P(c, kind, j), NEW i \in SessionIds
    PROVE  Tame(i)
<1>1. CASE Refuse(c)
  BY <1>1, RefusalIsTame
<1>2. CASE j \notin steered /\ Begin(c, "relay", kind, j)
  <2> DEFINE x == Busy("relay", kind, j)
  <2>1. DirectPath(j)
    BY <1>2 DEF HandleP2P, MayAddress, PathInv, PathOf, DirectPath
  <2>2. x.step = "relay" /\ x.todo = <<>> /\ x.sid = j
    BY BusyIs DEF Steps
  <2>3. /\ task'[c] = x /\ \A q \in Procs : q # c => task'[q] = task[q]
        /\ UNCHANGED <<sess, steered, told>>
    BY <1>2, TypesOfTasks DEF Begin, RInv, TasksTyped, Procs, ledger
  <2> HIDE DEF x
  <2>4. ASSUME NEW q \in Procs
        PROVE  /\ Negotiating(q, i)' => Negotiating(q, i) /\ task'[q] = task[q]
               /\ Announcing(q, i)' => Announcing(q, i)
               /\ Relaying(q, i)' => Relaying(q, i) \/ DirectPath(i)
    <3>1. CASE q = c
      BY <2>1, <2>2, <2>3, <3>1 DEF Negotiating, Announcing, Relaying
    <3>2. CASE q # c
      BY <2>3, <3>2 DEF Negotiating, Announcing, Relaying
    <3> QED BY <3>1, <3>2
  <2> QED BY <2>3, <2>4 DEF Tame, Negotiated
<1> QED BY <1>1, <1>2 DEF HandleP2P

LEMMA EngineSignalIsTame ==
    ASSUME RInv, NEW c \in Conns, NEW j \in SessionIds, HandleEngineSignal(c, j), NEW i \in SessionIds
    PROVE  Tame(i)
<1>1. CASE Refuse(c)
  BY <1>1, RefusalIsTame
<1>2. CASE Begin(c, "engine", None, j)
  <2> DEFINE x == Busy("engine", None, j)
  <2>1. x.step = "engine" /\ x.todo = <<>>
    BY BusyIs DEF Steps
  <2>2. /\ task'[c] = x /\ \A q \in Procs : q # c => task'[q] = task[q]
        /\ UNCHANGED <<sess, steered, told>>
    BY <1>2, TypesOfTasks DEF Begin, RInv, TasksTyped, Procs, ledger
  <2> HIDE DEF x
  <2>3. GoesOn(c)
    BY <2>1, <2>2 DEF GoesOn
  <2> QED BY <2>2, <2>3, GoingOnIsTame DEF Negotiated, Procs
<1> QED BY <1>1, <1>2 DEF HandleEngineSignal

LEMMA RelayIsTame ==
    ASSUME RInv, PathInv, NEW c \in Conns, Relay(c), NEW i \in SessionIds PROVE Tame(i)
<1>1. PICK j \in SessionIds : j = task[c].sid /\ DirectPath(j)
  BY DEF Relay, RInv, TasksOK, TaskOK, Procs, PathInv, PathOf, Relaying
<1>2. CASE Refuse(c)
  BY <1>2, RefusalIsTame
<1>3. ASSUME NEW kind \in P2P, UNCHANGED <<steered, told>>,
             task' = [task EXCEPT ![c] = Emitting(<<Event(kind, peerOf(j, c), j)>>)]
      PROVE  GoesOn(c)
  <2>1. PICK es : es = <<Event(kind, peerOf(j, c), j)>>
    OBVIOUS
  <2>2. \A k \in DOMAIN es : es[k].kind \notin Joinish
    BY <2>1 DEF Event, Joinish, P2P
  <2> QED BY <1>3, <2>1, <2>2, EmittingGoesOn, TypesOfTasks DEF RInv, Procs
<1>4. CASE /\ Offer(c, j) \/ Answer(c, j)
           /\ UNCHANGED <<steered, told>>
           /\ GoesOn(c)
  <2>1. Negotiated(i)' => Negotiated(i) \/ i = j
    BY <1>4, LedgerNegotiates DEF RInv, RelayTypeOK
  <2> QED BY <1>1, <1>4, <2>1, GoingOnIsTame DEF Procs
<1>5. CASE UNCHANGED <<ledger, steered, told>> /\ GoesOn(c)
  BY <1>5, GoingOnIsTame DEF Procs, Negotiated, ledger
<1>6. \/ Refuse(c)
      \/ /\ UNCHANGED <<steered, told>>
         /\ \/ /\ Offer(c, j)
               /\ task' = [task EXCEPT ![c] = Emitting(<<Event("offer", peerOf(j, c), j)>>)]
            \/ /\ Answer(c, j)
               /\ task' = [task EXCEPT ![c] = Emitting(<<Event("answer", peerOf(j, c), j)>>)]
            \/ /\ UNCHANGED ledger
               /\ task' = [task EXCEPT ![c] = Emitting(<<Event("candidate", peerOf(j, c), j)>>)]
  BY <1>1 DEF Relay, OfferEvents, AnswerEvents, CandidateEvents
<1>7. {"offer", "answer", "candidate"} = P2P
  BY DEF P2P
<1> QED BY <1>2, <1>3, <1>4, <1>5, <1>6, <1>7

LEMMA EngineReplyIsTame ==
    ASSUME RInv, NEW c \in Conns, EngineReply(c), NEW i \in SessionIds PROVE Tame(i)
<1>1. CASE task' = [task EXCEPT ![c] = Idle] /\ UNCHANGED <<ledger, steered, told>>
  <2>1. GoesOn(c)
    BY <1>1, IdleGoesOn, TypesOfTasks DEF RInv, Procs
  <2> QED BY <1>1, <2>1, GoingOnIsTame DEF Procs, Negotiated, ledger
<1>2. CASE UNCHANGED <<ledger, task, steered, told>>
  BY <1>2 DEF Tame, Negotiating, Announcing, Relaying, Negotiated, ledger
<1> QED BY <1>1, <1>2 DEF EngineReply, Dispatch, Refuse

LEMMA TeardownIsTame ==
    ASSUME RInv, NEW c \in Conns, Teardown(c), NEW i \in SessionIds PROVE Tame(i)
<1>0. TasksTyped
  BY TypesOfTasks DEF RInv
<1>1. CASE EngineLeaveAll(c)
  <2> DEFINE x == Busy("drop", None, None)
  <2>1. x.step = "drop" /\ x.todo = <<>>
    BY BusyIs DEF Steps
  <2>2. /\ task'[c] = x /\ \A q \in Procs : q # c => task'[q] = task[q]
        /\ UNCHANGED <<sess, steered, told>>
    BY <1>0, <1>1 DEF EngineLeaveAll, TasksTyped, Procs, ledger
  <2> HIDE DEF x
  <2>3. GoesOn(c)
    BY <2>1, <2>2 DEF GoesOn
  <2> QED BY <2>2, <2>3, GoingOnIsTame DEF Negotiated, Procs
<1>2. CASE Drop(c)
  <2>1. PICK es : es = ConnDroppedEvents(c)
    OBVIOUS
  <2>2. /\ ConnDropped(c) /\ UNCHANGED <<steered, told>>
        /\ task' = [task EXCEPT ![c] = Emitting(es)]
    BY <1>2, <2>1 DEF Drop
  <2>3. \A k \in DOMAIN es : es[k].kind \notin Joinish
    BY <2>1 DEF ConnDroppedEvents, Event, Joinish
  <2>4. GoesOn(c)
    BY <1>0, <2>2, <2>3, EmittingGoesOn DEF Procs
  <2>5. Negotiated(i)' => Negotiated(i)
    BY <2>2, LedgerNegotiates DEF RInv, RelayTypeOK
  <2> QED BY <2>2, <2>4, <2>5, GoingOnIsTame DEF Procs
<1>3. CASE Unregister(c)
  BY <1>3 DEF Unregister, Tame, Negotiating, Announcing, Relaying, Negotiated, ledger
<1> QED BY <1>1, <1>2, <1>3 DEF Teardown

LEMMA ReapIsTame ==
    ASSUME RInv, HandleReap, NEW i \in SessionIds PROVE Tame(i)
<1>1. PICK order : task' = [task EXCEPT ![Reaper] = Emitting(
                    [k \in DOMAIN order |-> Event("ended", sess[order[k]].members[1], order[k])])]
  BY DEF HandleReap
<1>2. PICK es : es = [k \in DOMAIN order |-> Event("ended", sess[order[k]].members[1], order[k])]
  OBVIOUS
<1>3. \A k \in DOMAIN es : es[k].kind \notin Joinish
  BY <1>2 DEF Event, Joinish
<1>4. GoesOn(Reaper)
  BY <1>1, <1>2, <1>3, EmittingGoesOn, TypesOfTasks DEF RInv, Procs
<1>5. Negotiated(i)' => Negotiated(i)
  BY LedgerNegotiates DEF HandleReap, RInv, RelayTypeOK
<1> QED BY <1>4, <1>5, GoingOnIsTame DEF HandleReap, Procs

LEMMA EmitIsTame ==
    ASSUME RInv, PathInv, NEW p \in Procs, Emit(p), NEW i \in SessionIds PROVE Tame(i)
<1>0. TasksTyped /\ RelayTypeOK /\ TasksOK
  BY TypesOfTasks DEF RInv
<1>1. PICK t \in TaskType : t = task[p]
  BY <1>0 DEF TasksTyped
<1>2. ASSUME NEW x, x.todo = t.todo, x.step \in {"enrol", "deliver", "expel"},
             task' = [task EXCEPT ![p] = x], t.step # "negotiate"
      PROVE  GoesOn(p)
  <2>1. task'[p] = x /\ \A q \in Procs : q # p => task'[q] = task[q]
    BY <1>0, <1>2 DEF TasksTyped
  <2> QED BY <1>1, <1>2, <2>1 DEF GoesOn, Announcing
<1>3. CASE EmitHook(p)
  <2>0. PICK st \in {"enrol", "deliver"} :
           \E cl : task' = [task EXCEPT ![p].step = st, ![p].cleared = cl]
    BY <1>3 DEF EmitHook
  <2>1. PICK cl : task' = [task EXCEPT ![p].step = st, ![p].cleared = cl]
    BY <2>0
  <2> DEFINE x == [t EXCEPT !.step = st, !.cleared = cl]
  <2>2. task' = [task EXCEPT ![p] = x]
    BY <1>0, <1>1, <2>1 DEF TasksTyped
  <2>3. x.todo = t.todo /\ x.step = st
    BY DEF TaskType
  <2> HIDE DEF x
  <2>4. GoesOn(p) /\ steered' \subseteq steered /\ UNCHANGED <<sess, told>>
    BY <1>1, <1>2, <1>3, <2>2, <2>3 DEF EmitHook, ledger
  <2> QED BY <2>4, GoingOnIsTame DEF Negotiated
<1>4. CASE EngineJoin(p)
  <2> DEFINE x == [t EXCEPT !.step = "deliver"]
  <2>2. task' = [task EXCEPT ![p] = x]
    BY <1>0, <1>1, <1>4 DEF EngineJoin, TasksTyped
  <2>3. x.todo = t.todo /\ x.step = "deliver"
    BY DEF TaskType
  <2> HIDE DEF x
  <2>4. GoesOn(p) /\ UNCHANGED <<sess, steered, told>>
    BY <1>1, <1>2, <1>4, <2>2, <2>3 DEF EngineJoin, ledger
  <2> QED BY <2>4, GoingOnIsTame DEF Negotiated
<1>5. CASE EmitFrame(p)
  <2>0. PICK e \in Events : e = t.todo[1] /\ 1 \in DOMAIN t.todo /\ SendFrame(p, e)
    BY <1>1, <1>5, SentFrame
  <2>4. t.step = "deliver" /\ UNCHANGED <<sess, steered>>
    BY <1>1, <1>5 DEF EmitFrame, ledger
  <2>1. GoesOn(p)
    <3>1. CASE \E closed : task' = [task EXCEPT ![p] = Popped(p, closed)]
      BY <1>0, <1>1, <2>4, <3>1, PoppedGoesOn
    <3>2. CASE \E closed : task' = [task EXCEPT ![p].step = "expel", ![p].closed = closed]
      <4>1. PICK closed : task' = [task EXCEPT ![p].step = "expel", ![p].closed = closed]
        BY <3>2
      <4> DEFINE x == [t EXCEPT !.step = "expel", !.closed = closed]
      <4>2. task' = [task EXCEPT ![p] = x]
        BY <1>0, <1>1, <4>1 DEF TasksTyped
      <4>3. x.todo = t.todo /\ x.step = "expel"
        BY DEF TaskType
      <4> HIDE DEF x
      <4> QED BY <1>1, <1>2, <2>4, <4>2, <4>3
    <3> QED BY <1>5, <3>1, <3>2, FrameTask
  <2>2. ASSUME NEW c \in Conns, told'[c][i] = "paired", told[c][i] # "paired" PROVE Decided(i)
    <3>1. told' = [told EXCEPT ![e.to][e.sid] = Told(@, e.kind)]
      BY <2>0, <2>2 DEF SendFrame
    <3>2. told \in [Conns -> [SessionIds -> Beliefs]]
      BY <1>0 DEF RelayTypeOK
    <3>3. e.to = c /\ e.sid = i /\ told'[c][i] = Told(told[c][i], e.kind)
      BY <2>2, <3>1, <3>2 DEF Events
    <3>4. e.kind \in Joinish
      BY <2>2, <3>3 DEF Told, Joinish, Events, Kinds, P2P
    <3>5. Announcing(p, i)
      BY <1>1, <2>0, <2>4, <3>3, <3>4 DEF Announcing
    <3> QED BY <3>5 DEF PathInv, PathOf
  <2> QED BY <2>1, <2>2, <2>4, GoingOnIsTame DEF Negotiated
<1>6. CASE Expel(p)
  <2>1. GoesOn(p)
    BY <1>0, <1>6, PoppedGoesOn DEF Expel
  <2>2. Negotiated(i)' => Negotiated(i)
    BY <1>0, <1>6, LedgerNegotiates DEF Expel, RelayTypeOK, Negotiated, ledger
  <2> QED BY <1>6, <2>1, <2>2, GoingOnIsTame DEF Expel
<1> QED BY <1>3, <1>4, <1>5, <1>6 DEF Emit

(* The join seats the second member and has not decided yet ...            *)
LEMMA JoinKeepsPath ==
    ASSUME RInv, PathInv, NEW c \in Conns, NEW j \in SessionIds, HandleJoin(c, j),
           JoinResult(c, j) = "ok", NEW i \in SessionIds, LedgerGrows
    PROVE  PathOf(i)'
<1> DEFINE x == [Busy("negotiate", None, j) EXCEPT !.todo = JoinEvents(c, j)]
<1>1. TypeOK /\ Join(c, j) /\ task' = [task EXCEPT ![c] = x] /\ UNCHANGED <<steered, told>>
  BY DEF HandleJoin, RInv, RelayTypeOK
<1>2. memberCount(j) = 1 /\ (i # j => sess'[i] = sess[i])
  BY <1>1, JoinGrows DEF RInv, LedgerInv, memberCount
<1>3. x.step = "negotiate" /\ x.sid = j /\ x.todo = JoinEvents(c, j)
  <2>1. Busy("negotiate", None, j) \in TaskType /\ Busy("negotiate", None, j).step = "negotiate"
        /\ Busy("negotiate", None, j).sid = j
    BY BusyIs DEF Steps
  <2> QED BY <2>1 DEF TaskType
<1> HIDE DEF x
<1>4. task'[c] = x /\ \A q \in Procs : q # c => task'[q] = task[q]
  BY <1>1, TypesOfTasks DEF RInv, TasksTyped, Procs
<1>5. \A q \in Procs : ~Negotiating(q, j) /\ ~Negotiating(c, i)
  BY <1>2 DEF HandleJoin, Ready, Refuse, RInv, TasksOK, TaskOK, Negotiating, Idle
<1>6. CASE i = j
  <2>1. ~Decided(i) /\ ~DirectPath(i)
    BY <1>2, <1>6 DEF Decided, DirectPath
  <2>2. \A q \in Procs : ~Announcing(q, i) /\ ~Relaying(q, i)
    BY <2>1 DEF PathInv, PathOf
  <2>3. ~Negotiated(i) /\ \A d \in Conns : told[d][i] # "paired"
    BY <2>1 DEF PathInv, PathOf
  <2>4. \A q \in Procs : q # c => ~Negotiating(q, i)' /\ ~Announcing(q, i)' /\ ~Relaying(q, i)'
    BY <1>4, <1>5, <1>6, <2>2 DEF Negotiating, Announcing, Relaying
  <2>5. ~Announcing(c, i)' /\ ~Relaying(c, i)'
    BY <1>3, <1>4 DEF Announcing, Relaying
  <2>6. \A k \in DOMAIN task'[c].todo : task'[c].todo[k].sid = i
    BY <1>3, <1>4, <1>6 DEF JoinEvents, Event
  <2>7. ~Negotiated(i)'
    BY <1>1, <2>3, LedgerNegotiates
  <2> QED BY <1>1, <2>3, <2>4, <2>5, <2>6, <2>7 DEF PathOf
<1>7. CASE i # j
  <2>1. ASSUME NEW q \in Procs
        PROVE  /\ Negotiating(q, i)' => Negotiating(q, i) /\ task'[q] = task[q]
               /\ Announcing(q, i)' => Announcing(q, i)
               /\ Relaying(q, i)' => Relaying(q, i)
    <3>1. CASE q = c
      BY <1>3, <1>4, <1>7, <3>1 DEF Negotiating, Announcing, Relaying
    <3>2. CASE q # c
      BY <1>4, <3>2 DEF Negotiating, Announcing, Relaying
    <3> QED BY <3>1, <3>2
  <2>2. Tame(i)
    BY <1>1, <1>2, <1>7, <2>1 DEF Tame, Negotiated
  <2> QED BY <1>1, <2>2, TameKeepsPath DEF PathInv
<1> QED BY <1>6, <1>7

(* ... and the same goroutine decides, before it announces anything.       *)
LEMMA SteerKeepsPath ==
    ASSUME RInv, PathInv, NEW c \in Conns, NegotiateSteer(c), NEW i \in SessionIds, LedgerGrows
    PROVE  PathOf(i)'
<1>1. PICK j \in SessionIds : j = task[c].sid
  BY DEF NegotiateSteer, RInv, TasksOK, TaskOK, Procs
<1>2. /\ Negotiating(c, j) /\ memberCount(j) = 2 /\ c \in Procs /\ TypeOK
      /\ \A k \in DOMAIN task[c].todo : task[c].todo[k].sid = j
  BY <1>1 DEF NegotiateSteer, RInv, RelayTypeOK, TasksOK, TaskOK, Procs, Negotiating, PathInv, PathOf
<1>3. PICK es : es = task[c].todo
  OBVIOUS
<1>4. /\ steered' \subseteq steered \cup {j} /\ UNCHANGED <<sess, told>>
      /\ task'[c] = Emitting(es) /\ \A q \in Procs : q # c => task'[q] = task[q]
  BY <1>1, <1>2, <1>3, TypesOfTasks DEF NegotiateSteer, RInv, TasksTyped, ledger
<1>5. Emitting(es).step \in {"idle", "hook"} /\ Emitting(es).todo = es
  BY DEF Emitting, Idle
<1>6. ASSUME NEW q \in Procs
      PROVE  /\ Negotiating(q, i)' => Negotiating(q, i) /\ task'[q] = task[q] /\ q # c
             /\ Announcing(q, i)' => Announcing(q, i) \/ i = j
             /\ Relaying(q, i)' => Relaying(q, i)
  <2>1. CASE q = c
    BY <1>2, <1>3, <1>4, <1>5, <2>1 DEF Negotiating, Announcing, Relaying
  <2>2. CASE q # c
    BY <1>4, <2>2 DEF Negotiating, Announcing, Relaying
  <2> QED BY <2>1, <2>2
<1>7. CASE i = j
  <2>1. ~Decided(i) /\ ~DirectPath(i)
    BY <1>2, <1>7 DEF Decided, DirectPath
  <2>2. \A q \in Procs : ~Relaying(q, i)
    BY <2>1 DEF PathInv, PathOf
  <2>3. \A q \in Procs : ~Negotiating(q, i)'
    BY <1>2, <1>6, <1>7 DEF PathInv, PathOf
  <2>4. memberCount(i)' = 2
    BY <1>2, <1>4, <1>7 DEF memberCount
  <2>5. Decided(i)' /\ \A q \in Procs : ~Relaying(q, i)'
    BY <1>6, <2>2, <2>3, <2>4 DEF Decided
  <2>6. ~Negotiated(i) /\ (Negotiated(i)' <=> Negotiated(i))
    BY <1>4, <2>1 DEF PathInv, PathOf, Negotiated
  <2> QED BY <2>3, <2>5, <2>6 DEF PathOf
<1>8. CASE i # j
  <2>1. Decided(i) => Decided(i)'
    BY <1>2, <1>6, DecidedStays
  <2>2. DirectPath(i) => DirectPath(i)'
    BY <1>4, <1>8, <2>1 DEF DirectPath
  <2>3. \A q \in Procs : Negotiating(q, i)' => \A k \in DOMAIN task'[q].todo : task'[q].todo[k].sid = i
    BY <1>6 DEF PathInv, PathOf
  <2>4. \A p, q \in Procs : Negotiating(p, i)' /\ Negotiating(q, i)' => p = q
    BY <1>6 DEF PathInv, PathOf
  <2>5. \A q \in Procs : (Announcing(q, i)' => Decided(i)) /\ (Relaying(q, i)' => DirectPath(i))
    BY <1>6, <1>8 DEF PathInv, PathOf
  <2>6. /\ \A d \in Conns : told'[d][i] = "paired" => Decided(i)
        /\ Negotiated(i)' => DirectPath(i)
    BY <1>4 DEF PathInv, PathOf, Negotiated
  <2> QED BY <2>1, <2>2, <2>3, <2>4, <2>5, <2>6 DEF PathOf
<1> QED BY <1>7, <1>8

LEMMA PathNext == ASSUME Polite, RInv, PathInv, [RelayNext]_vars PROVE PathInv'
<1> SUFFICES ASSUME NEW i \in SessionIds PROVE PathOf(i)'
  BY DEF PathInv
<1>0. LedgerGrows /\ TypeOK /\ PathOf(i)
  BY LedgerInvNext DEF RInv, RelayTypeOK, PathInv
<1>1. ASSUME NEW c \in Conns, Handle(c) PROVE Tame(i) \/ PathOf(i)'
  <2>1. ASSUME NEW j \in SessionIds, HandleJoin(c, j) PROVE Tame(i) \/ PathOf(i)'
    BY <1>0, <2>1, JoinKeepsPath, RefusalIsTame DEF HandleJoin
  <2> QED BY <1>1, <2>1, StartIsTame, EndIsTame, P2PIsTame, EngineSignalIsTame DEF Handle
<1>2. ASSUME NEW c \in Conns, Continue(c) PROVE Tame(i) \/ PathOf(i)'
  BY <1>0, <1>2, SteerKeepsPath, RelayIsTame, EngineReplyIsTame DEF Continue
<1>3. ASSUME NEW c \in Conns, Connect(c) \/ Write(c) \/ WriterExits(c) \/ ReaderReturns(c)
      PROVE  Tame(i)
  <2>1. UNCHANGED <<sess, task, steered, told>>
    BY <1>3 DEF Connect, Write, WriterExits, ReaderReturns, ledger
  <2> QED BY <2>1 DEF Tame, Negotiating, Announcing, Relaying, Negotiated
<1>4. ASSUME RelayTick \/ UNCHANGED vars PROVE Tame(i)
  <2>1. UNCHANGED <<task, steered, told>> /\ (Tick \/ UNCHANGED sess)
    BY <1>4 DEF RelayTick, vars, plane, ledger
  <2>2. Negotiated(i)' => Negotiated(i)
    BY <1>0, <2>1, LedgerNegotiates DEF Negotiated
  <2> QED BY <2>1, <2>2 DEF Tame, Negotiating, Announcing, Relaying
<1>5. Tame(i) \/ PathOf(i)'
  BY <1>1, <1>2, <1>3, <1>4, TeardownIsTame, ReapIsTame, EmitIsTame DEF RelayNext
<1> QED BY <1>0, <1>5, TameKeepsPath

(* As long as clients address a peer only once told of it, the path of a   *)
(* session is decided once, before any of its SDP is relayed, and none is  *)
(* relayed in a steered session (steer.go).                                *)
THEOREM MediaPathsNeverMix == ASSUME Polite PROVE RelaySpec => []NoMixing
<1>1. RelayInit => PathInv
  <2> SUFFICES ASSUME RelayInit, NEW i \in SessionIds PROVE PathOf(i)
    BY DEF PathInv
  <2>1. \A q \in Procs : ~Negotiating(q, i) /\ ~Announcing(q, i) /\ ~Relaying(q, i)
    BY DEF RelayInit, Negotiating, Announcing, Relaying, Idle
  <2>2. ~Negotiated(i) /\ \A c \in Conns : told[c][i] # "paired"
    BY DEF RelayInit, Init, Negotiated, Unborn
  <2> QED BY <2>1, <2>2 DEF PathOf
<1>2. RInv /\ PathInv => NoMixing
  <2> SUFFICES ASSUME RInv, PathInv, NEW i \in steered \cap byID PROVE sess[i].state = "pending"
    BY DEF NoMixing
  <2>1. i \in SessionIds /\ Live(i)
    BY DEF RInv, LedgerInv, IInv, IndexesAgree, RegistryExact, RelayTypeOK
  <2> QED BY <2>1 DEF PathInv, PathOf, DirectPath, Negotiated, Live
<1>3. RInv /\ PathInv /\ [RelayNext]_vars => PathInv'
  BY PathNext
<1>4. RelaySpec => []PathInv
  BY <1>1, <1>3, RelayInvariance, PTL DEF RelaySpec
<1> QED BY <1>2, <1>4, RelayInvariance, PTL

-----------------------------------------------------------------------------
(* A refused frame ends its session.                                       *)

Expelling(p, i) == task[p].step = "expel" /\ Head(task[p].todo).sid = i

RefusalInv ==
    /\ \A p \in Procs : task[p].step # "engine"
    /\ \A r \in refused : r[1] \in Seats(r[2])
    /\ RefusalEndsSession

(* What a step of p's own may be, and what it cannot begin.                *)
OwnStep(p) ==
    /\ \A q \in Procs : q # p => task'[q] = task[q]
    /\ task[p].step = "expel" => Expel(p)
    /\ task'[p].step = "engine" => "engine" \in MessageTypes

LEMMA PutsTask ==
    ASSUME TasksTyped, NEW p \in Procs, NEW x, task' = [task EXCEPT ![p] = x],
           task[p].step = "expel" => Expel(p), x.step = "engine" => "engine" \in MessageTypes
    PROVE  OwnStep(p)
BY DEF TasksTyped, OwnStep

LEMMA PlainSteps ==
    ASSUME RelayTypeOK, TasksOK, NEW p \in Procs
    PROVE  /\ Idle.step = "idle" /\ \A es : Emitting(es).step \in {"idle", "hook"}
           /\ task[p].step \in {"deliver", "expel"} =>
                 \A closed \in SUBSET SessionIds : Popped(p, closed).step \in {"idle", "hook"}
<1>1. PICK t \in TaskType : t = task[p]
  BY TypesOfTasks DEF TasksTyped
<1>2. ASSUME NEW closed \in SUBSET SessionIds, task[p].step \in {"deliver", "expel"}
      PROVE  Popped(p, closed).step \in {"idle", "hook"}
  <2>1. PICK es \in Seq(Events) : es = Tail(task[p].todo)
    BY <1>2, HeadOfTask
  <2>2. [t EXCEPT !.step = "hook", !.todo = es, !.closed = closed].step = "hook"
    BY DEF TaskType
  <2> QED BY <1>1, <2>1, <2>2 DEF Popped, Idle
<1> QED BY <1>2 DEF Emitting, Idle

LEMMA HandlerSteps == ASSUME RInv, NEW c \in Conns, Handle(c) PROVE OwnStep(c)
<1>0. TasksTyped /\ RelayTypeOK /\ TasksOK /\ c \in Procs
  BY TypesOfTasks DEF RInv, Procs
<1>1. task[c].step = "idle"
  <2>1. task[c] = Idle
    BY DEF Handle, HandleStart, HandleJoin, HandleEnd, HandleP2P, HandleEngineSignal, Ready
  <2> QED BY <2>1 DEF Idle
<1>2. CASE Refuse(c)
  BY <1>0, <1>1, <1>2, PutsTask, PlainSteps DEF Refuse
<1>3. ASSUME NEW es, task' = [task EXCEPT ![c] = Emitting(es)] PROVE OwnStep(c)
  BY <1>0, <1>1, <1>3, PutsTask, PlainSteps
<1>4. ASSUME NEW i \in SessionIds, task' = [task EXCEPT ![c] =
                          [Busy("negotiate", None, i) EXCEPT !.todo = JoinEvents(c, i)]]
      PROVE  OwnStep(c)
  <2> DEFINE x == [Busy("negotiate", None, i) EXCEPT !.todo = JoinEvents(c, i)]
  <2>1. x.step = "negotiate"
    <3>1. Busy("negotiate", None, i) \in TaskType /\ Busy("negotiate", None, i).step = "negotiate"
      BY BusyIs DEF Steps
    <3> QED BY <3>1 DEF TaskType
  <2> HIDE DEF x
  <2> QED BY <1>0, <1>1, <1>4, <2>1, PutsTask DEF x
<1>5. ASSUME NEW i \in SessionIds, NEW kind \in P2P, Begin(c, "relay", kind, i)
      PROVE  OwnStep(c)
  <2> DEFINE x == Busy("relay", kind, i)
  <2>1. x.step = "relay"
    BY BusyIs DEF Steps
  <2> QED BY <1>0, <1>1, <1>5, <2>1, PutsTask DEF Begin
<1>6. ASSUME NEW i \in SessionIds, Begin(c, "engine", None, i), "engine" \in MessageTypes
      PROVE  OwnStep(c)
  BY <1>0, <1>1, <1>6, PutsTask DEF Begin
<1> QED
  BY <1>2, <1>3, <1>4, <1>5, <1>6
     DEF Handle, HandleStart, HandleJoin, HandleEnd, HandleP2P, HandleEngineSignal, Ready

LEMMA OneOwnStep ==
    ASSUME RInv, [RelayNext]_vars
    PROVE  UNCHANGED task \/ \E p \in Procs : OwnStep(p)
<1>0. TasksTyped /\ RelayTypeOK /\ TasksOK /\ Conns \subseteq Procs
  BY TypesOfTasks DEF RInv, Procs
<1>1. ASSUME NEW c \in Conns, Continue(c) \/ Teardown(c) PROVE UNCHANGED task \/ OwnStep(c)
  <2>1. task[c].step # "expel"
    BY <1>1 DEF Continue, NegotiateSteer, Relay, EngineReply, Teardown, EngineLeaveAll, Drop,
                Unregister, Idle
  <2>2. CASE task' = [task EXCEPT ![c] = Idle]
    BY <1>0, <2>1, <2>2, PutsTask, PlainSteps
  <2>3. ASSUME NEW es, task' = [task EXCEPT ![c] = Emitting(es)] PROVE OwnStep(c)
    BY <1>0, <2>1, <2>3, PutsTask, PlainSteps
  <2>4. CASE task' = [task EXCEPT ![c] = Busy("drop", None, None)]
    <3> DEFINE x == Busy("drop", None, None)
    <3>1. x.step = "drop"
      BY BusyIs DEF Steps
    <3> QED BY <1>0, <2>1, <2>4, <3>1, PutsTask
  <2>5. CASE NegotiateSteer(c)
    <3>1. task' = [task EXCEPT ![c] = Emitting(task[c].todo)]
      BY <1>0, <2>5 DEF NegotiateSteer, TasksTyped
    <3> QED BY <2>3, <3>1
  <2>6. CASE Relay(c) \/ EngineReply(c)
    BY <2>2, <2>3, <2>6 DEF Relay, EngineReply, Dispatch, Refuse
  <2> QED BY <1>1, <2>2, <2>3, <2>4, <2>5, <2>6 DEF Continue, Teardown, EngineLeaveAll, Drop, Unregister
<1>2. ASSUME NEW c \in Conns, Connect(c) \/ Write(c) \/ WriterExits(c) \/ ReaderReturns(c)
      PROVE  UNCHANGED task
  BY <1>2 DEF Connect, Write, WriterExits, ReaderReturns
<1>3. ASSUME NEW p \in Procs, Emit(p) PROVE OwnStep(p)
  <2>1. PICK t \in TaskType : t = task[p]
    BY <1>0 DEF TasksTyped
  <2>2. CASE EmitHook(p)
    <3>1. PICK st \in {"enrol", "deliver"} :
             \E cl : task' = [task EXCEPT ![p].step = st, ![p].cleared = cl]
      BY <2>2 DEF EmitHook
    <3>2. PICK cl : task' = [task EXCEPT ![p].step = st, ![p].cleared = cl]
      BY <3>1
    <3> DEFINE x == [t EXCEPT !.step = st, !.cleared = cl]
    <3>3. task' = [task EXCEPT ![p] = x]
      BY <1>0, <2>1, <3>2 DEF TasksTyped
    <3>4. x.step = st
      BY DEF TaskType
    <3> HIDE DEF x
    <3> QED BY <1>0, <2>2, <3>3, <3>4, PutsTask DEF EmitHook
  <2>3. CASE EngineJoin(p)
    <3> DEFINE x == [t EXCEPT !.step = "deliver"]
    <3>1. task' = [task EXCEPT ![p] = x]
      BY <1>0, <2>1, <2>3 DEF EngineJoin, TasksTyped
    <3>2. x.step = "deliver"
      BY DEF TaskType
    <3> HIDE DEF x
    <3> QED BY <1>0, <2>3, <3>1, <3>2, PutsTask DEF EngineJoin
  <2>4. CASE EmitFrame(p)
    <3>0. task[p].step = "deliver"
      BY <2>4 DEF EmitFrame
    <3>1. ASSUME NEW closed \in SUBSET SessionIds, task' = [task EXCEPT ![p] = Popped(p, closed)]
          PROVE  OwnStep(p)
      BY <1>0, <3>0, <3>1, PutsTask, PlainSteps
    <3>2. ASSUME NEW closed, task' = [task EXCEPT ![p].step = "expel", ![p].closed = closed]
          PROVE  OwnStep(p)
      <4> DEFINE x == [t EXCEPT !.step = "expel", !.closed = closed]
      <4>1. task' = [task EXCEPT ![p] = x]
        BY <1>0, <2>1, <3>2 DEF TasksTyped
      <4>2. x.step = "expel"
        BY DEF TaskType
      <4> HIDE DEF x
      <4> QED BY <1>0, <3>0, <4>1, <4>2, PutsTask
    <3>3. PICK closed \in SUBSET SessionIds :
             \/ task' = [task EXCEPT ![p] = Popped(p, closed)]
             \/ task' = [task EXCEPT ![p].step = "expel", ![p].closed = closed]
      BY <2>4, FrameTask
    <3> QED BY <3>1, <3>2, <3>3
  <2>5. CASE Expel(p)
    <3>1. task[p].closed \in SUBSET SessionIds
      BY <2>1 DEF TaskType
    <3> QED BY <1>0, <2>5, <3>1, PutsTask, PlainSteps DEF Expel
  <2> QED BY <1>3, <2>2, <2>3, <2>4, <2>5 DEF Emit
<1>4. CASE HandleReap
  <2>1. \E es : task' = [task EXCEPT ![Reaper] = Emitting(es)]
    BY <1>4 DEF HandleReap
  <2>2. Reaper \in Procs /\ task[Reaper].step # "expel"
    BY <1>4 DEF HandleReap, Idle, Procs
  <2>3. OwnStep(Reaper)
    BY <1>0, <2>1, <2>2, PutsTask, PlainSteps
  <2> QED BY <2>2, <2>3
<1>5. RelayTick \/ UNCHANGED vars => UNCHANGED task
  BY DEF RelayTick, vars, plane
<1> QED BY <1>0, <1>1, <1>2, <1>3, <1>4, <1>5, HandlerSteps DEF RelayNext

LEMMA RefusedWriters ==
    ASSUME [RelayNext]_vars, \A c \in Conns : task[c].step # "engine"
    PROVE  refused' = refused \/ \E p \in Procs : EmitFrame(p)
<1>1. ASSUME NEW c \in Conns, Handle(c) PROVE refused' = refused
  BY <1>1 DEF Handle, HandleStart, HandleJoin, HandleEnd, HandleP2P, HandleEngineSignal, Refuse, Begin
<1>2. ASSUME NEW c \in Conns, Continue(c) \/ Teardown(c) PROVE refused' = refused
  BY <1>2 DEF Continue, NegotiateSteer, Relay, EngineReply, Refuse, Teardown, EngineLeaveAll, Drop,
              Unregister
<1>3. ASSUME NEW c \in Conns, Connect(c) \/ Write(c) \/ WriterExits(c) \/ ReaderReturns(c)
      PROVE  refused' = refused
  BY <1>3 DEF Connect, Write, WriterExits, ReaderReturns
<1>4. ASSUME NEW p \in Procs, EmitHook(p) \/ EngineJoin(p) \/ Expel(p) PROVE refused' = refused
  BY <1>4 DEF EmitHook, EngineJoin, Expel
<1>5. HandleReap \/ RelayTick \/ UNCHANGED vars => refused' = refused
  BY DEF HandleReap, RelayTick, vars, plane
<1> QED BY <1>1, <1>2, <1>3, <1>4, <1>5 DEF RelayNext, Emit

(* An id is registered once, before it has a seat.                         *)
LEMMA SeatedIsNotReborn ==
    ASSUME RInv, [RelayNext]_vars, NEW i \in SessionIds, i \in byID', Seats(i) # {}
    PROVE  i \in byID
<1>0. IInv
  BY DEF RInv, LedgerInv
<1>1. ASSUME NEW c \in Conns, NEW j \in SessionIds, Seating(c, j) PROVE i \in byID
  <2>1. CASE Start(c, j)
    <3>1. byID' = byID \cup {j} /\ sess[j].members = <<>>
      BY <1>0, <2>1, StartGrows DEF Unborn
    <3>2. Seats(j) = {}
      BY <3>1 DEF Seats
    <3> QED BY <3>1, <3>2
  <2>2. CASE Join(c, j)
    BY <1>0, <2>2, JoinGrows
  <2> QED BY <1>1, <2>1, <2>2 DEF Seating
<1>2. ASSUME NEW c \in Conns, Drop(c) PROVE i \in byID
  BY <1>0, <1>2, ConnDroppedStill DEF Drop, Still
<1> QED BY <1>1, <1>2, StepKinds DEF Still, LifeOnly, ledger

LEMMA ExpelEndsSession ==
    ASSUME RInv, NEW p \in Procs, Expel(p), NEW i \in SessionIds, Expelling(p, i)
    PROVE  i \notin byID'
<1>1. PICK e \in Events : e = Head(task[p].todo) /\ EventOK(p, e) /\ e.sid = i
  BY HeadOfTask DEF Expel, RInv, Expelling
<1>2. IInv /\ e.to \in Conns
  BY DEF RInv, LedgerInv, Events
<1>3. CASE Expels(e)
  BY <1>1, <1>2, <1>3, EndStill DEF Expel, Reasons
<1>4. CASE ~Expels(e)
  <2>1. i \notin byID
    BY <1>1, <1>4 DEF Expels, EndResult, lookupMember, EventOK
  <2> QED BY <1>1, <1>4, <2>1 DEF Expel, ledger
<1> QED BY <1>3, <1>4

LEMMA RefusalNext ==
    ASSUME "engine" \notin MessageTypes, RInv, RefusalInv, [RelayNext]_vars
    PROVE  RefusalInv'
<1>0. /\ TypeOK /\ LedgerGrows /\ refused \subseteq Conns \X SessionIds /\ TasksTyped
      /\ Conns \subseteq Procs
  BY LedgerInvNext, TypesOfTasks DEF RInv, RelayTypeOK, Procs
<1>1. \A p \in Procs : task'[p].step # "engine"
  BY OneOwnStep DEF OwnStep, RefusalInv
<1>2. ASSUME NEW p \in Procs, NEW i \in SessionIds, Expelling(p, i)
      PROVE  Expelling(p, i)' \/ i \notin byID'
  <2>1. task'[p] = task[p] \/ Expel(p)
    BY <1>2, OneOwnStep DEF OwnStep, Expelling
  <2>2. CASE task'[p] = task[p]
    BY <1>2, <2>2 DEF Expelling
  <2>3. CASE Expel(p)
    BY <1>2, <2>3, ExpelEndsSession
  <2> QED BY <2>1, <2>2, <2>3
<1>3. ASSUME NEW r \in refused
      PROVE  r[1] \in Seats(r[2])' /\ (r[2] \in byID' => \E p \in Procs : Expelling(p, r[2])')
  <2>1. r[2] \in SessionIds /\ r[1] \in Seats(r[2])
    BY <1>0 DEF RefusalInv
  <2>2. Seats(r[2]) \subseteq Seats(r[2])'
    BY <1>0, <2>1, SeatsKept DEF LedgerGrows
  <2>3. r[2] \in byID' => \E p \in Procs : Expelling(p, r[2])
    BY <2>1, SeatedIsNotReborn DEF RefusalInv, RefusalEndsSession, Expelling
  <2> QED BY <1>2, <2>1, <2>2, <2>3
<1>4. ASSUME NEW p \in Procs, EmitFrame(p), NEW r \in refused', r \notin refused
      PROVE  r[1] \in Seats(r[2])' /\ Expelling(p, r[2])'
  <2>1. PICK e \in Events : e = Head(task[p].todo) /\ EventOK(p, e) /\ SendFrame(p, e)
    BY <1>4, SentFrame
  <2>2. /\ r = <<e.to, e.sid>> /\ sess' = sess
        /\ \E closed : task' = [task EXCEPT ![p].step = "expel", ![p].closed = closed]
    <3>1. sess' = sess
      BY <1>4 DEF EmitFrame, ledger
    <3> QED BY <1>4, <2>1, <3>1 DEF SendFrame
  <2>3. e.to \in Seats(e.sid)'
    <3>1. e.to \in Seats(e.sid)
      BY <2>1 DEF EventOK
    <3> QED BY <2>2, <3>1 DEF Seats
  <2>4. PICK closed : task' = [task EXCEPT ![p].step = "expel", ![p].closed = closed]
    BY <2>2
  <2>5. PICK t \in TaskType : t = task[p]
    BY <1>0 DEF TasksTyped
  <2> DEFINE x == [t EXCEPT !.step = "expel", !.closed = closed]
  <2>6. task'[p] = x
    BY <1>0, <2>4, <2>5 DEF TasksTyped
  <2>7. x.step = "expel" /\ x.todo = t.todo
    BY DEF TaskType
  <2> HIDE DEF x
  <2> QED BY <2>1, <2>2, <2>3, <2>5, <2>6, <2>7 DEF Expelling
<1>5. \A r \in refused' :
        r[1] \in Seats(r[2])' /\ (r[2] \in byID' => \E p \in Procs : Expelling(p, r[2])')
  BY <1>0, <1>3, <1>4, RefusedWriters DEF RefusalInv
<1> QED BY <1>1, <1>5 DEF RefusalInv, RefusalEndsSession, Expelling

(* Where no engine frame is sent, a session whose frame a full queue       *)
(* refused is over or about to be ended, whoever else works on it          *)
(* (events.go emit).                                                       *)
THEOREM RefusalAlwaysEnds ==
    ASSUME "engine" \notin MessageTypes PROVE RelaySpec => []RefusalEndsSession
<1>1. RelayInit => RefusalInv
  <2> SUFFICES ASSUME RelayInit PROVE RefusalInv
    OBVIOUS
  <2>1. refused = {} /\ \A p \in Procs : task[p].step # "engine"
    BY DEF RelayInit, Idle
  <2> QED BY <2>1 DEF RefusalInv, RefusalEndsSession
<1>2. RInv /\ RefusalInv /\ [RelayNext]_vars => RefusalInv'
  BY RefusalNext
<1>3. RefusalInv => RefusalEndsSession
  BY DEF RefusalInv
<1> QED BY <1>1, <1>2, <1>3, RelayInvariance, PTL DEF RelaySpec
===============================================================================
