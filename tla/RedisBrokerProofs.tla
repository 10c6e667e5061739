--------------------------- MODULE RedisBrokerProofs ---------------------------
(***************************************************************************)
(* Two promises of the Redis broker for any set of messages and any number *)
(* of faults: no message reaches the handler twice, and every socket has   *)
(* an owner that will close it.                                            *)
(***************************************************************************)
EXTENDS RedisBroker, FiniteSetTheorems, SequenceTheorems, TLAPS

CallStates == {"idle", "local", "ready", "waiting", "late", "stale", "done", "elsewhere"}

Types ==
    /\ call \in [Msgs -> CallStates]
    /\ delivered \in [Msgs -> Nat]
    /\ inFlight \subseteq Msgs
    /\ inbox \in Seq(Msgs \cup {Confirm})
    /\ heard \in Msgs \cup {None}
    /\ pubSock \in Sockets /\ subSock \in Sockets
    /\ installed \in BOOLEAN

(* Where a message is: still with Redis, in the socket's buffer, read.     *)
Queued(m) == \E i \in DOMAIN inbox : inbox[i] = m
QueuedOnce(m) == \A i, j \in DOMAIN inbox : inbox[i] = m /\ inbox[j] = m => i = j

(* A message of another replica is in one place at a time, and once it has *)
(* reached the handler it is nowhere; one nobody published is nowhere.     *)
OnePlace(m) ==
    /\ delivered[m] \in {0, 1}
    /\ call[m] = "idle" =>
          delivered[m] = 0 /\ m \notin inFlight /\ ~Queued(m) /\ heard # m
    /\ call[m] = "elsewhere" =>
          /\ m \in inFlight => ~Queued(m) /\ heard # m /\ delivered[m] = 0
          /\ Queued(m) => heard # m /\ delivered[m] = 0 /\ QueuedOnce(m)
          /\ heard = m => delivered[m] = 0

(* A pair is installed while the supervisor reads it, and not before it    *)
(* has both sockets.                                                       *)
Reading == {"reading", "blocked", "delivering", "ending"}

PairsOwned ==
    /\ installed => stage \in Reading
    /\ stage = "halfDialed" => subSock = "none"
    /\ SocketsOwned

IInv == Types /\ (\A m \in Msgs : OnePlace(m)) /\ PairsOwned

-----------------------------------------------------------------------------
(* The buffer                                                              *)

(* What a step does to the buffer of the subscribing socket.               *)
Shrinks == \/ inbox' = inbox \/ inbox' = <<>>
           \/ inbox # <<>> /\ inbox' = Tail(inbox)
           \/ inbox' \in Prefixes(inbox)
Grows(f) == inbox' = Append(inbox, f)

LEMMA ShrinkingQueuesNothing ==
    ASSUME inbox \in Seq(Msgs \cup {Confirm}), Shrinks, NEW m
    PROVE  /\ inbox' \in Seq(Msgs \cup {Confirm})
           /\ Queued(m)' => Queued(m)
           /\ QueuedOnce(m) => QueuedOnce(m)'
<1>1. CASE inbox' = inbox
  BY <1>1 DEF Queued, QueuedOnce
<1>4. CASE inbox' = <<>>
  <2>1. inbox' \in Seq(Msgs \cup {Confirm}) /\ DOMAIN inbox' = {}
    BY <1>4
  <2> QED BY <2>1 DEF Queued, QueuedOnce
<1>2. CASE inbox # <<>> /\ inbox' = Tail(inbox)
  <2>1. /\ inbox' \in Seq(Msgs \cup {Confirm}) /\ Len(inbox') = Len(inbox) - 1
        /\ Len(inbox) \in Nat /\ Len(inbox') \in Nat
        /\ \A i \in 1 .. Len(inbox') : inbox'[i] = inbox[i + 1]
    BY <1>2, HeadTailProperties
  <2>2. DOMAIN inbox = 1 .. Len(inbox) /\ DOMAIN inbox' = 1 .. Len(inbox')
    BY <2>1
  <2>3. \A i \in DOMAIN inbox' : i + 1 \in DOMAIN inbox /\ inbox'[i] = inbox[i + 1]
    BY <2>1, <2>2
  <2> QED BY <2>1, <2>2, <2>3 DEF Queued, QueuedOnce
<1>3. CASE inbox' \in Prefixes(inbox)
  <2>1. PICK n \in 0 .. Len(inbox) : inbox' = SubSeq(inbox, 1, n)
    BY <1>3 DEF Prefixes
  <2>2. /\ inbox' \in Seq(Msgs \cup {Confirm}) /\ Len(inbox') = n /\ n <= Len(inbox)
        /\ \A i \in 1 .. n : inbox'[i] = inbox[i]
    BY <2>1
  <2>3. \A i \in DOMAIN inbox' : i \in DOMAIN inbox /\ inbox'[i] = inbox[i]
    BY <2>2
  <2> QED BY <2>2, <2>3 DEF Queued, QueuedOnce
<1> QED BY <1>1, <1>2, <1>3, <1>4 DEF Shrinks

LEMMA GrowingQueuesOne ==
    ASSUME inbox \in Seq(Msgs \cup {Confirm}), NEW f \in Msgs \cup {Confirm}, Grows(f), NEW m
    PROVE  /\ inbox' \in Seq(Msgs \cup {Confirm})
           /\ m # f => (Queued(m)' <=> Queued(m)) /\ (QueuedOnce(m)' <=> QueuedOnce(m))
           /\ ~Queued(m) => QueuedOnce(m)'
<1>1. /\ inbox' \in Seq(Msgs \cup {Confirm}) /\ Len(inbox') = Len(inbox) + 1 /\ Len(inbox) \in Nat
      /\ \A i \in 1 .. Len(inbox) : inbox'[i] = inbox[i]
      /\ inbox'[Len(inbox) + 1] = f
  BY AppendProperties DEF Grows
<1>2. DOMAIN inbox = 1 .. Len(inbox) /\ DOMAIN inbox' = 1 .. (Len(inbox) + 1)
  BY <1>1
<1>3. \A i \in DOMAIN inbox' : \/ i \in DOMAIN inbox /\ inbox'[i] = inbox[i]
                               \/ i = Len(inbox) + 1 /\ inbox'[i] = f
  BY <1>1, <1>2
<1>4. \A i \in DOMAIN inbox : i \in DOMAIN inbox' /\ inbox'[i] = inbox[i]
  BY <1>1, <1>2
<1> QED BY <1>1, <1>3, <1>4 DEF Queued, QueuedOnce

-----------------------------------------------------------------------------
(* One place                                                               *)

Untold == {"idle", "elsewhere"}   \* calls of messages this replica has not sent

(* A step that hands nothing on: the broker's own bookkeeping and the      *)
(* calls of messages it has delivered already.                             *)
Calm ==
    /\ UNCHANGED delivered /\ heard' \in {heard, None}
    /\ Shrinks \/ Grows(Confirm)
    /\ call' \in [Msgs -> CallStates]
    /\ inFlight' \subseteq Msgs
    /\ \A m \in Msgs : call'[m] \in Untold =>
          call'[m] = call[m] /\ (m \in inFlight' => m \in inFlight)

LEMMA CalmKeepsOnePlace ==
    ASSUME Types, Calm, \A m \in Msgs : OnePlace(m)
    PROVE  inbox' \in Seq(Msgs \cup {Confirm}) /\ \A m \in Msgs : OnePlace(m)'
<1>1. \A m \in Msgs : m # Confirm /\ m # None
  BY BusAssumption DEF BusAssumption
<1>2. inbox' \in Seq(Msgs \cup {Confirm})
  BY ShrinkingQueuesNothing, GrowingQueuesOne DEF Calm, Types
<1>3. ASSUME NEW m \in Msgs PROVE OnePlace(m)'
  <2>1. /\ Queued(m)' => Queued(m)
        /\ QueuedOnce(m) => QueuedOnce(m)'
        /\ m # None /\ OnePlace(m)
    BY <1>1, ShrinkingQueuesNothing, GrowingQueuesOne DEF Calm, Types
  <2>2. heard' = m => heard = m
    BY <2>1 DEF Calm
  <2>3. delivered' = delivered
    BY DEF Calm
  <2>4. call'[m] \in Untold => call'[m] = call[m] /\ (m \in inFlight' => m \in inFlight)
    BY DEF Calm
  <2> QED BY <2>1, <2>2, <2>3, <2>4 DEF OnePlace, Untold
<1> QED BY <1>2, <1>3

LEMMA ClosingPubIsCalm ==
    ASSUME Types, ClosePub \/ UNCHANGED calls
    PROVE  /\ call' \in [Msgs -> CallStates]
           /\ inFlight' = inFlight
           /\ \A m \in Msgs : call'[m] \in Untold => call'[m] = call[m]
BY DEF CallStates, ClosePub, calls, Types, Untold

(* The supervisor, but for what it reads and hands on.                     *)
LEMMA SupervisorIsCalm ==
    ASSUME Types,
           \/ Top \/ DialPub \/ DialSub \/ ApplyTopics \/ AwaitConfirm \/ Install
           \/ ReadNext \/ ReadFails \/ EndRound \/ Resume
    PROVE  Calm
<1>1. ClosePub \/ UNCHANGED calls
  BY DEF Top, DialPub, DialSub, ApplyTopics, AwaitConfirm, Install, ReadNext, ReadFails, EndRound,
         Resume, CloseBoth, closeConns
<1>2. UNCHANGED <<delivered, heard>>
  BY DEF Top, DialPub, DialSub, ApplyTopics, AwaitConfirm, Install, ReadNext, ReadFails, EndRound,
         Resume
<1>3. Shrinks \/ Grows(Confirm)
  BY DEF Top, DialPub, DialSub, ApplyTopics, SendSubscribe, AwaitConfirm, Install, ReadNext,
         ReadFails, EndRound, Resume, Shrinks, Grows
<1> QED BY <1>1, <1>2, <1>3, ClosingPubIsCalm DEF Calm, Types

(* Subscribe, Close, the failures of sockets, stuttering.                  *)
LEMMA OthersAreCalm ==
    ASSUME Types,
           \/ Subscribe \/ Subscribing \/ Close \/ FinishClose \/ BreakPub \/ BreakSub
           \/ UNCHANGED broker
    PROVE  Calm
<1>1. ClosePub \/ UNCHANGED calls
  BY DEF Subscribe, Subscribing, SubscribeNow, SubscribeLocal, Close, FinishClose, BreakPub,
         BreakSub, CloseBoth, closeConns, broker
<1>2. UNCHANGED <<delivered, heard>>
  BY DEF Subscribe, Subscribing, SubscribeNow, SubscribeLocal, Close, FinishClose, BreakPub,
         BreakSub, supervisor, broker
<1>3. Shrinks \/ Grows(Confirm)
  BY DEF Subscribe, Subscribing, SubscribeNow, SubscribeLocal, SendSubscribe, Close, FinishClose,
         BreakPub, BreakSub, broker, Shrinks, Grows
<1> QED BY <1>1, <1>2, <1>3, ClosingPubIsCalm DEF Calm, Types

(* A call goes on; a command that was written is lost.                     *)
LEMMA PublishingIsCalm ==
    ASSUME Types, NEW m \in Msgs, Publishing(m) \/ Lose(m)
    PROVE  Calm
<1>1. UNCHANGED <<delivered, heard>> /\ Shrinks
  BY DEF Publishing, publishBus, Write, ReadReply, ReadTimesOut, BusFails, Lose, supervisor, Shrinks
<1>2. call' = [call EXCEPT ![m] = call'[m]] /\ inFlight' \subseteq inFlight \cup {m}
  BY DEF Publishing, publishBus, Write, ReadReply, ReadTimesOut, BusFails, Lose, Return, Types
<1>3. CASE Publishing(m)
  <2>1. call'[m] \in {"ready", "done", "waiting", "late"}
    BY <1>3 DEF Publishing, publishBus, Write, ReadReply, ReadTimesOut, BusFails, Return, Types
  <2> QED BY <1>1, <1>2, <2>1 DEF CallStates, Calm, Types, Untold
<1>4. CASE Lose(m)
  <2>1. call'[m] \in {call[m], "done"} /\ inFlight' \subseteq inFlight
    BY <1>4 DEF Lose, Types
  <2> QED BY <1>1, <1>2, <2>1 DEF CallStates, Calm, Types, Untold
<1> QED BY <1>3, <1>4

(* The steps that hand a message on: from the buffer to the supervisor,    *)
(* from it to the handler, from a publisher to the handler, from another   *)
(* replica to Redis, from Redis to the buffer.                             *)
LEMMA HandingOnKeepsOnePlace ==
    ASSUME Types, \A m \in Msgs : OnePlace(m),
           \/ ReadFrame \/ busDeliver
           \/ \E k \in Msgs : Publish(k) \/ RemotePublish(k) \/ RedisPublishes(k)
    PROVE  Types' /\ \A m \in Msgs : OnePlace(m)'
<1> USE BusAssumption DEF BusAssumption
<1>1. CASE ReadFrame
  <2>1. /\ inbox # <<>> /\ inbox' = Tail(inbox) /\ UNCHANGED <<calls, sockets, installed, delivered>>
        /\ heard' \in {heard, Head(inbox)} /\ (heard' = heard \/ Head(inbox) # Confirm)
    BY <1>1 DEF ReadFrame
  <2>2. Head(inbox) \in Msgs \cup {Confirm} /\ Head(inbox) = inbox[1] /\ 1 \in DOMAIN inbox
    BY <2>1, HeadTailProperties DEF Types
  <2>3. Shrinks
    BY <2>1 DEF Shrinks
  <2>5. inbox' \in Seq(Msgs \cup {Confirm})
    BY <2>3, ShrinkingQueuesNothing DEF Types
  <2>4. ASSUME NEW m \in Msgs PROVE OnePlace(m)'
    <3>1. /\ Queued(m)' => Queued(m)
          /\ QueuedOnce(m) => QueuedOnce(m)'
      BY <2>3, ShrinkingQueuesNothing DEF Types
    <3>2. OnePlace(m)
      OBVIOUS
    <3>3. CASE heard' = m /\ heard # m
      <4>1. Queued(m) /\ Head(inbox) = m
        BY <2>1, <2>2, <3>3 DEF Queued
      <4>2. QueuedOnce(m) => ~Queued(m)'
        <5> SUFFICES ASSUME QueuedOnce(m), NEW i \in DOMAIN inbox', inbox'[i] = m PROVE FALSE
          BY DEF Queued
        <5>1. i + 1 \in DOMAIN inbox /\ inbox[i + 1] = m /\ i \in Nat /\ i # 0
          BY <2>1, HeadTailProperties DEF Types
        <5> QED BY <2>2, <4>1, <5>1 DEF QueuedOnce
      <4> QED BY <2>1, <3>1, <3>2, <4>1, <4>2 DEF OnePlace, calls
    <3>4. CASE heard' # m \/ heard = m
      BY <2>1, <3>1, <3>2, <3>4 DEF OnePlace, calls
    <3> QED BY <3>3, <3>4
  <2> QED BY <2>1, <2>2, <2>4, <2>5 DEF Types, calls, sockets
<1>2. CASE busDeliver
  <2>1. UNCHANGED <<inbox, calls, sockets, installed>> /\ heard' = None
    BY <1>2 DEF busDeliver
  <2>2. \A m \in Msgs : /\ delivered'[m] \in {delivered[m], delivered[m] + 1}
                        /\ delivered'[m] # delivered[m] => heard = m /\ call[m] = "elsewhere"
    BY <1>2 DEF busDeliver, deliver, ownEcho, Types
  <2>3. delivered' \in [Msgs -> Nat]
    BY <1>2 DEF busDeliver, deliver, Types
  <2>4. ASSUME NEW m \in Msgs PROVE OnePlace(m)'
    BY <2>1, <2>2 DEF OnePlace, Queued, QueuedOnce, calls
  <2> QED BY <2>1, <2>3, <2>4 DEF Types, calls, sockets
<1>3. ASSUME NEW k \in Msgs, Publish(k)
      PROVE  Types' /\ \A m \in Msgs : OnePlace(m)'
  <2>1. /\ call[k] = "idle" /\ call' = [call EXCEPT ![k] = call'[k]] /\ call'[k] \in {"done", "local"}
        /\ UNCHANGED <<inbox, heard, inFlight, sockets, installed>>
        /\ \A m \in Msgs : /\ delivered'[m] \in {delivered[m], delivered[m] + 1}
                           /\ delivered'[m] # delivered[m] => m = k
        /\ delivered' \in [Msgs -> Nat]
    BY <1>3 DEF Publish, deliver, Types, supervisor
  <2>2. ASSUME NEW m \in Msgs PROVE OnePlace(m)'
    BY <2>1 DEF OnePlace, Queued, QueuedOnce, Types
  <2> QED BY <2>1, <2>2 DEF CallStates, Types, sockets
<1>4. ASSUME NEW k \in Msgs, RemotePublish(k)
      PROVE  Types' /\ \A m \in Msgs : OnePlace(m)'
  <2>1. /\ call[k] = "idle" /\ call' = [call EXCEPT ![k] = "elsewhere"]
        /\ inFlight' = inFlight \cup {k}
        /\ UNCHANGED <<inbox, heard, delivered, sockets, installed>>
    BY <1>4 DEF RemotePublish, supervisor
  <2>2. ASSUME NEW m \in Msgs PROVE OnePlace(m)'
    BY <2>1 DEF OnePlace, Queued, QueuedOnce, Types
  <2> QED BY <2>1, <2>2 DEF CallStates, Types, sockets
<1>5. ASSUME NEW k \in Msgs, RedisPublishes(k)
      PROVE  Types' /\ \A m \in Msgs : OnePlace(m)'
  <2>1. /\ k \in inFlight /\ inFlight' = inFlight \ {k}
        /\ inbox' = inbox \/ Grows(k)
        /\ UNCHANGED <<heard, delivered, sockets, installed>>
        /\ call' \in [Msgs -> CallStates]
        /\ \A m \in Msgs : call'[m] \in Untold => call'[m] = call[m]
    BY <1>5 DEF CallStates, RedisPublishes, Grows, supervisor, Types, Untold
  <2>3. inbox' \in Seq(Msgs \cup {Confirm})
    BY <2>1, GrowingQueuesOne DEF Types
  <2>2. ASSUME NEW m \in Msgs PROVE OnePlace(m)'
    <3>1. CASE inbox' = inbox
      BY <2>1, <3>1 DEF OnePlace, Queued, QueuedOnce, Types, Untold
    <3>2. CASE Grows(k)
      <4>1. /\ m # k => (Queued(m)' <=> Queued(m)) /\ (QueuedOnce(m)' <=> QueuedOnce(m))
            /\ ~Queued(m) => QueuedOnce(m)'
        BY <3>2, GrowingQueuesOne DEF Types
      <4> QED BY <2>1, <4>1 DEF OnePlace, Untold
    <3> QED BY <2>1, <3>1, <3>2
  <2> QED BY <2>1, <2>2, <2>3 DEF Types, sockets
<1> QED BY <1>1, <1>2, <1>3, <1>4, <1>5

-----------------------------------------------------------------------------
(* Sockets                                                                 *)

LEMMA SupervisorOwns ==
    ASSUME Types, PairsOwned, supervise
    PROVE  PairsOwned' /\ pubSock' \in Sockets /\ subSock' \in Sockets /\ installed' \in BOOLEAN
<1> USE DEF PairsOwned, SocketsOwned, Reading, Dialling, Sockets, Types
<1>1. CASE Top \/ ReadNext \/ Resume
  BY <1>1 DEF Top, ReadNext, Resume, sockets
<1>2. CASE DialPub
  BY <1>2 DEF DialPub
<1>3. CASE DialSub
  BY <1>3 DEF DialSub, ClosePub
<1>4. CASE ApplyTopics
  BY <1>4 DEF ApplyTopics
<1>5. CASE AwaitConfirm
  BY <1>5 DEF AwaitConfirm, CloseBoth, ClosePub, CloseSub, sockets
<1>6. CASE Install
  BY <1>6 DEF Install, CloseBoth, ClosePub, CloseSub, sockets
<1>7. CASE ReadFrame \/ busDeliver
  BY <1>7 DEF ReadFrame, busDeliver, sockets
<1>8. CASE ReadFails
  BY <1>8 DEF ReadFails, ClosePub
<1>9. CASE EndRound
  BY <1>9 DEF EndRound, closeConns, CloseBoth, ClosePub, CloseSub, sockets
<1> QED BY <1>1, <1>2, <1>3, <1>4, <1>5, <1>6, <1>7, <1>8, <1>9 DEF supervise

LEMMA OthersOwn ==
    ASSUME Types, PairsOwned,
           \/ Subscribe \/ Subscribing \/ Close \/ FinishClose \/ BreakPub \/ BreakSub
           \/ \E m \in Msgs : \/ Publish(m) \/ Publishing(m)
                              \/ RemotePublish(m) \/ RedisPublishes(m) \/ Lose(m)
           \/ UNCHANGED broker
    PROVE  PairsOwned' /\ pubSock' \in Sockets /\ subSock' \in Sockets /\ installed' \in BOOLEAN
<1> USE DEF PairsOwned, SocketsOwned, Reading, Dialling, Sockets, Types
<1>1. CASE FinishClose
  BY <1>1 DEF FinishClose, closeConns, CloseBoth, ClosePub, CloseSub, supervisor, sockets
<1>2. CASE BreakPub \/ BreakSub
  BY <1>2 DEF BreakPub, BreakSub, supervisor
<1>3. CASE Subscribe \/ Subscribing \/ Close \/ UNCHANGED broker
  BY <1>3 DEF Subscribe, Subscribing, SubscribeNow, SubscribeLocal, Close, broker, supervisor, sockets
<1>4. ASSUME NEW m \in Msgs,
             Publish(m) \/ Publishing(m) \/ RemotePublish(m) \/ RedisPublishes(m) \/ Lose(m)
      PROVE  UNCHANGED <<supervisor, sockets, installed>> \/ UNCHANGED <<stage, sockets, installed>>
  BY <1>4 DEF Publish, Publishing, publishBus, Write, ReadReply, ReadTimesOut, BusFails,
              RemotePublish, RedisPublishes, Lose
<1> QED BY <1>1, <1>2, <1>3, <1>4 DEF supervisor, sockets

-----------------------------------------------------------------------------
(* The invariant                                                           *)

LEMMA InitIInv == Init => IInv
<1> SUFFICES ASSUME Init PROVE IInv
  OBVIOUS
<1>1. Types
  <2>1. inbox \in Seq(Msgs \cup {Confirm})
    BY DEF Init
  <2> QED BY <2>1 DEF CallStates, Init, Types, Sockets
<1>2. ASSUME NEW m \in Msgs PROVE OnePlace(m)
  BY BusAssumption DEF BusAssumption, Init, OnePlace, Queued
<1>3. PairsOwned
  BY DEF Init, PairsOwned, SocketsOwned
<1> QED BY <1>1, <1>2, <1>3 DEF IInv

LEMMA NextIInv == IInv /\ [Next]_broker => IInv'
<1> SUFFICES ASSUME IInv, [Next]_broker PROVE IInv'
  OBVIOUS
<1> USE DEF IInv
<1>1. PairsOwned' /\ pubSock' \in Sockets /\ subSock' \in Sockets /\ installed' \in BOOLEAN
  BY SupervisorOwns, OthersOwn DEF Next
<1>2. CASE Calm
  BY <1>1, <1>2, CalmKeepsOnePlace DEF Calm, Types
<1>3. CASE \/ ReadFrame \/ busDeliver
           \/ \E k \in Msgs : Publish(k) \/ RemotePublish(k) \/ RedisPublishes(k)
  BY <1>1, <1>3, HandingOnKeepsOnePlace
<1>4. CASE supervise
  BY <1>2, <1>3, <1>4, SupervisorIsCalm DEF supervise
<1>5. CASE \/ Subscribe \/ Subscribing \/ Close \/ FinishClose \/ BreakPub \/ BreakSub
           \/ UNCHANGED broker
  BY <1>2, <1>5, OthersAreCalm
<1>6. ASSUME NEW m \in Msgs, Publishing(m) \/ Lose(m) PROVE IInv'
  BY <1>2, <1>6, PublishingIsCalm
<1> QED BY <1>3, <1>4, <1>5, <1>6 DEF Next

LEMMA InvariantHolds == Spec => []IInv
<1> QED BY InitIInv, NextIInv, PTL DEF Spec

-----------------------------------------------------------------------------
(* The theorems                                                            *)

(* The handler is given no message twice: not the echo of one published    *)
(* here, and none of another replica, whatever sockets were lost and       *)
(* dialled in between.                                                     *)
THEOREM HandlesOnce == Spec => []OncePerNode
<1>1. IInv => OncePerNode
  BY DEF IInv, OnePlace, OncePerNode
<1> QED BY <1>1, InvariantHolds, PTL

(* Between rounds, and after Close and the supervisor are done, the node   *)
(* holds no socket, whichever of Close, a failed dial and a failed read    *)
(* came first.                                                             *)
THEOREM SocketsAlwaysOwned == Spec => []SocketsOwned
<1>1. IInv => SocketsOwned
  BY DEF IInv, PairsOwned
<1> QED BY <1>1, InvariantHolds, PTL

-----------------------------------------------------------------------------
(* Types                                                                   *)

(* The control state of Close, Subscribe and the supervisor.               *)
Controls ==
    /\ closing \in {"open", "flagged", "returned"}
    /\ subscribing \in {"before", "writing", "stale", "done"}
    /\ stage \in Stages
    /\ wanted \in BOOLEAN /\ todo \in BOOLEAN /\ subscribed \in BOOLEAN
    /\ faults \in 0 .. MaxFaults

LEMMA SupervisorControls ==
    ASSUME Controls, supervise PROVE Controls'
<1> USE BusAssumption DEF BusAssumption
<1>1. stage' \in Stages
  BY DEF Controls, Stages, Dialling, supervise, Top, DialPub, DialSub, ApplyTopics, AwaitConfirm,
         Install, ReadNext, ReadFrame, busDeliver, ReadFails, EndRound, Resume
<1>2. faults' \in 0 .. MaxFaults
  <2>1. faults' = faults \/ Fault
    BY DEF supervise, Top, DialPub, DialSub, ApplyTopics, AwaitConfirm, Install, ReadNext,
           ReadFrame, busDeliver, ReadFails, EndRound, Resume
  <2> QED BY <2>1 DEF Controls, Fault
<1>3. closing' = closing /\ wanted' = wanted /\ (todo' = todo \/ todo' = wanted)
  BY DEF supervise, Top, DialPub, DialSub, ApplyTopics, AwaitConfirm, Install, ReadNext,
         ReadFrame, busDeliver, ReadFails, EndRound, Resume
<1>4. subscribing' \in {subscribing, "stale"}
  BY DEF supervise, Top, DialPub, DialSub, ApplyTopics, AwaitConfirm, Install, ReadNext,
         ReadFrame, busDeliver, ReadFails, EndRound, Resume, closeConns, CloseBoth, CloseSub
<1>5. subscribed' \in {subscribed, TRUE, FALSE}
  BY DEF supervise, Top, DialPub, DialSub, ApplyTopics, SendSubscribe, AwaitConfirm, Install,
         ReadNext, ReadFrame, busDeliver, ReadFails, EndRound, Resume, closeConns, CloseBoth,
         CloseSub, sockets
<1>6. subscribed' \in BOOLEAN /\ wanted' \in BOOLEAN /\ todo' \in BOOLEAN
  BY <1>3, <1>5 DEF Controls
<1> QED BY <1>1, <1>2, <1>3, <1>4, <1>6 DEF Controls

LEMMA OtherControls ==
    ASSUME Controls,
           \/ Subscribe \/ Subscribing \/ Close \/ FinishClose \/ BreakPub \/ BreakSub
           \/ \E m \in Msgs : \/ Publish(m) \/ Publishing(m)
                              \/ RemotePublish(m) \/ RedisPublishes(m) \/ Lose(m)
           \/ UNCHANGED broker
    PROVE  Controls'
<1> USE BusAssumption DEF BusAssumption
<1>1. stage' = stage /\ todo' = todo
  BY DEF Subscribe, Subscribing, SubscribeNow, SubscribeLocal, Close, FinishClose, BreakPub,
         BreakSub, Publish, Publishing, publishBus, Write, ReadReply, ReadTimesOut, BusFails,
         RemotePublish, RedisPublishes, Lose, supervisor, broker
<1>2. faults' = faults \/ Fault
  BY DEF Subscribe, Subscribing, SubscribeNow, SubscribeLocal, Close, FinishClose, BreakPub,
         BreakSub, Publish, Publishing, publishBus, Write, ReadReply, ReadTimesOut, BusFails,
         RemotePublish, RedisPublishes, Lose, broker
<1>3. faults' \in 0 .. MaxFaults
  BY <1>2 DEF Controls, Fault
<1>4. closing' \in {closing, "flagged", "returned"} /\ wanted' \in {wanted, TRUE}
  BY DEF Subscribe, Subscribing, SubscribeNow, SubscribeLocal, Close, FinishClose, BreakPub,
         BreakSub, Publish, Publishing, publishBus, Write, ReadReply, ReadTimesOut, BusFails,
         RemotePublish, RedisPublishes, Lose, broker
<1>5. subscribing' \in {subscribing, "writing", "stale", "done"}
  BY DEF Subscribe, Subscribing, SubscribeNow, SubscribeLocal, Close, FinishClose, BreakPub,
         BreakSub, Publish, Publishing, publishBus, Write, ReadReply, ReadTimesOut, BusFails,
         RemotePublish, RedisPublishes, Lose, closeConns, CloseBoth, CloseSub, broker
<1>6. subscribed' \in {subscribed, TRUE, FALSE}
  BY DEF Subscribe, Subscribing, SubscribeNow, SubscribeLocal, SendSubscribe, Close, FinishClose,
         BreakPub, BreakSub, Publish, Publishing, publishBus, Write, ReadReply, ReadTimesOut,
         BusFails, RemotePublish, RedisPublishes, Lose, closeConns, CloseBoth, CloseSub, sockets,
         broker
<1>7. subscribed' \in BOOLEAN /\ wanted' \in BOOLEAN
  BY <1>4, <1>6 DEF Controls
<1> QED BY <1>1, <1>3, <1>4, <1>5, <1>7 DEF Controls

-----------------------------------------------------------------------------
(* Answers                                                                 *)

(* The calls that were given up or whose command Redis has done with: each *)
(* left one answer at most, and none goes back on the bus.                 *)
Answered == {m \in Msgs : call[m] \in {"waiting", "late", "stale", "done"} /\ m \notin inFlight}

Answers == replies \in Nat /\ replies <= Cardinality(Answered)

LEMMA AnswersNext ==
    ASSUME IsFiniteSet(Msgs), Types, Answers, [Next]_broker
    PROVE  Answers'
<1>0. IsFiniteSet(Answered) /\ IsFiniteSet(Answered')
  BY FS_Subset DEF Answered
<1>1. ASSUME Answered \subseteq Answered', replies' \in Nat, replies' <= replies
      PROVE  Answers'
  <2>1. /\ Cardinality(Answered) \in Nat /\ Cardinality(Answered') \in Nat
        /\ Cardinality(Answered) <= Cardinality(Answered')
    BY <1>0, <1>1, FS_Subset, FS_CardinalityType
  <2> QED BY <1>1, <2>1 DEF Answers
<1>2. ASSUME ClosePub \/ UNCHANGED calls PROVE Answers'
  <2>1. inFlight' = inFlight /\ replies' \in {replies, 0}
    BY <1>2 DEF ClosePub, calls
  <2>2. \A m \in Msgs : call[m] \in {"waiting", "late", "stale", "done"}
                          => call'[m] \in {"waiting", "late", "stale", "done"}
    BY <1>2 DEF ClosePub, calls, Types
  <2>3. Answered \subseteq Answered'
    BY <2>1, <2>2 DEF Answered
  <2> QED BY <1>1, <2>1, <2>3 DEF Answers
<1>3. supervise => ClosePub \/ UNCHANGED calls
  BY DEF supervise, Top, DialPub, DialSub, ApplyTopics, AwaitConfirm, Install, ReadNext,
         ReadFrame, busDeliver, ReadFails, EndRound, Resume, closeConns, CloseBoth
<1>4. \/ Subscribe \/ Subscribing \/ Close \/ FinishClose \/ BreakPub \/ BreakSub
      \/ UNCHANGED broker
      => ClosePub \/ UNCHANGED calls
  BY DEF Subscribe, Subscribing, SubscribeNow, SubscribeLocal, Close, FinishClose, BreakPub,
         BreakSub, closeConns, CloseBoth, broker
<1>5. ASSUME NEW m \in Msgs, Publish(m) \/ Publishing(m) \/ RemotePublish(m) \/ Lose(m)
      PROVE  Answers'
  <2>1. replies' \in Nat /\ replies' <= replies
    BY <1>5 DEF Answers, Publish, Publishing, publishBus, Write, ReadReply, ReadTimesOut, BusFails,
                RemotePublish, Lose
  <2>2. \A k \in Msgs : k # m => call'[k] = call[k] /\ (k \in inFlight' => k \in inFlight)
    BY <1>5 DEF Publish, Publishing, publishBus, Write, ReadReply, ReadTimesOut, BusFails,
                RemotePublish, Lose, Return, Types
  <2>3. m \in Answered => call'[m] \in {call[m], "late", "done"} /\ m \notin inFlight'
    BY <1>5 DEF Answered, Publish, Publishing, publishBus, Write, ReadReply, ReadTimesOut,
                BusFails, RemotePublish, Lose, Return, Types
  <2>4. Answered \subseteq Answered'
    BY <2>2, <2>3 DEF Answered
  <2> QED BY <1>1, <2>1, <2>4
<1>6. ASSUME NEW m \in Msgs, RedisPublishes(m) PROVE Answers'
  <2>1. /\ m \in inFlight /\ inFlight' = inFlight \ {m}
        /\ \A k \in Msgs : k # m => call'[k] = call[k]
        /\ call'[m] = IF call[m] = "late" THEN "done" ELSE call[m]
    BY <1>6 DEF RedisPublishes, Types
  <2>2. Answered \subseteq Answered' /\ m \notin Answered
    BY <2>1 DEF Answered
  <2>3. CASE replies' = replies
    BY <1>1, <2>2, <2>3 DEF Answers
  <2>4. CASE replies' = replies + 1 /\ call[m] \in {"waiting", "late"}
    <3>1. Answered \cup {m} \subseteq Answered'
      BY <2>1, <2>2, <2>4 DEF Answered
    <3>2. /\ Cardinality(Answered \cup {m}) = Cardinality(Answered) + 1
          /\ Cardinality(Answered \cup {m}) <= Cardinality(Answered')
          /\ Cardinality(Answered) \in Nat /\ Cardinality(Answered') \in Nat
      BY <1>0, <2>2, <3>1, FS_AddElement, FS_Subset, FS_CardinalityType
    <3> QED BY <2>4, <3>2 DEF Answers
  <2> QED BY <1>6, <2>3, <2>4 DEF RedisPublishes, Outstanding
<1> QED BY <1>2, <1>3, <1>4, <1>5, <1>6 DEF Next

(* Every variable of the broker keeps its type; in particular the answers  *)
(* left on a publishing socket are never more than the messages published  *)
(* (there being finitely many), however calls gave up on them.             *)
THEOREM BusTypeCorrect == ASSUME IsFiniteSet(Msgs) PROVE Spec => []BusTypeOK
<1>1. Init => Controls /\ Answers
  <2> SUFFICES ASSUME Init PROVE Controls /\ Answers
    OBVIOUS
  <2>1. Controls
    <3>1. wanted \in BOOLEAN /\ todo \in BOOLEAN /\ subscribed \in BOOLEAN
      BY DEF Init
    <3>2. stage \in Stages /\ faults \in 0 .. MaxFaults
      BY BusAssumption DEF BusAssumption, Init, Stages
    <3> QED BY <3>1, <3>2 DEF Init, Controls
  <2>2. Answered = {}
    BY DEF Init, Answered
  <2> QED BY <2>1, <2>2, FS_EmptySet DEF Init, Answers
<1>2. IInv /\ Controls /\ Answers /\ [Next]_broker => Controls' /\ Answers'
  BY SupervisorControls, OtherControls, AnswersNext DEF Next, IInv
<1>3. Spec => [](Controls /\ Answers)
  BY <1>1, <1>2, InvariantHolds, PTL DEF Spec
<1>4. IInv /\ Controls /\ Answers => BusTypeOK
  <2> SUFFICES ASSUME IInv, Controls, Answers PROVE BusTypeOK
    OBVIOUS
  <2>1. replies \in 0 .. Cardinality(Msgs)
    <3>1. /\ Cardinality(Answered) <= Cardinality(Msgs)
          /\ Cardinality(Answered) \in Nat /\ Cardinality(Msgs) \in Nat
      BY FS_Subset, FS_CardinalityType DEF Answered
    <3> QED BY <3>1 DEF Answers
  <2>2. {wanted, todo, installed, subscribed} \subseteq BOOLEAN
    <3>1. wanted \in BOOLEAN /\ todo \in BOOLEAN /\ installed \in BOOLEAN /\ subscribed \in BOOLEAN
      BY DEF IInv, Types, Controls
    <3> QED BY <3>1
  <2>3. {pubSock, subSock} \subseteq Sockets
    BY DEF IInv, Types
  <2> QED BY <2>1, <2>2, <2>3 DEF BusTypeOK, IInv, Types, CallStates, Controls
<1> QED BY <1>3, <1>4, InvariantHolds, PTL
-----------------------------------------------------------------------------
(* What the handler is given                                               *)

(* A step the abstract bus does not see: nobody's origin changes, nothing  *)
(* is given, the handler and the flag of Close stay.                       *)
Unseen ==
    /\ UNCHANGED delivered
    /\ (subscribing' = "done") = (subscribing = "done")
    /\ closed' = closed
    /\ \A m \in Msgs : origin'[m] = origin[m]

LEMMA UnseenIsStutter ==
    ASSUME Unseen PROVE UNCHANGED Bus!bus
<1>1. origin' = origin
  BY DEF Unseen, origin
<1> QED BY <1>1 DEF Unseen, Bus!bus

(* A call of a message that somebody has published goes on as one.         *)
LEMMA CallsGoOn ==
    ASSUME Types,
           \A m \in Msgs : (call'[m] = "idle") = (call[m] = "idle")
                           /\ (call'[m] = "elsewhere") = (call[m] = "elsewhere")
    PROVE  \A m \in Msgs : origin'[m] = origin[m]
BY DEF origin

LEMMA ClosingPubKeepsOrigins ==
    ASSUME Types, ClosePub \/ UNCHANGED calls
    PROVE  \A m \in Msgs : origin'[m] = origin[m]
<1>1. CASE ClosePub
  <2>1. \A m \in Msgs : /\ (call'[m] = "idle") = (call[m] = "idle")
                        /\ (call'[m] = "elsewhere") = (call[m] = "elsewhere")
    BY <1>1 DEF ClosePub
  <2> QED BY <2>1, CallsGoOn
<1>2. CASE UNCHANGED calls
  BY <1>2, CallsGoOn DEF calls
<1> QED BY <1>1, <1>2

LEMMA SupervisorIsUnseen ==
    ASSUME Types,
           \/ Top \/ DialPub \/ DialSub \/ ApplyTopics \/ AwaitConfirm \/ Install
           \/ ReadNext \/ ReadFrame \/ ReadFails \/ EndRound \/ Resume
    PROVE  Unseen
<1>1. ClosePub \/ UNCHANGED calls
  BY DEF Top, DialPub, DialSub, ApplyTopics, AwaitConfirm, Install, ReadNext, ReadFrame, ReadFails,
         EndRound, Resume, CloseBoth, closeConns
<1>2. UNCHANGED <<delivered, closing>>
  BY DEF Top, DialPub, DialSub, ApplyTopics, AwaitConfirm, Install, ReadNext, ReadFrame, ReadFails,
         EndRound, Resume
<1>3. subscribing' = subscribing \/ CloseSub
  BY DEF Top, DialPub, DialSub, ApplyTopics, AwaitConfirm, Install, ReadNext, ReadFrame, ReadFails,
         EndRound, Resume, CloseBoth, closeConns
<1>4. (subscribing' = "done") = (subscribing = "done")
  BY <1>3 DEF CloseSub
<1> QED BY <1>1, <1>2, <1>4, ClosingPubKeepsOrigins DEF Unseen, closed

LEMMA OthersAreUnseen ==
    ASSUME Types,
           \/ Subscribe \/ SubscribeNow \/ FinishClose \/ BreakPub \/ BreakSub
           \/ UNCHANGED broker
    PROVE  Unseen
<1>1. ClosePub \/ UNCHANGED calls
  BY DEF Subscribe, SubscribeNow, FinishClose, BreakPub, BreakSub, CloseBoth, closeConns, broker
<1>2. UNCHANGED delivered
  BY DEF Subscribe, SubscribeNow, FinishClose, BreakPub, BreakSub, broker
<1>3. closed' = closed
  BY DEF Subscribe, SubscribeNow, FinishClose, BreakPub, BreakSub, broker, closed
<1>4. \/ subscribing' = subscribing \/ CloseSub
      \/ subscribing \in {"before", "writing"} /\ subscribing' \in {"writing", "stale"}
  BY DEF Subscribe, SubscribeNow, FinishClose, BreakPub, BreakSub, CloseBoth, closeConns, broker
<1>5. (subscribing' = "done") = (subscribing = "done")
  BY <1>4 DEF CloseSub
<1> QED BY <1>1, <1>2, <1>3, <1>5, ClosingPubKeepsOrigins DEF Unseen

(* A Publish call once its message has been handed over, and Redis.        *)
LEMMA CallsAreUnseen ==
    ASSUME Types, NEW m \in Msgs, Publishing(m) \/ RedisPublishes(m) \/ Lose(m)
    PROVE  Unseen
<1>1. UNCHANGED <<delivered, subscribing, closing>>
  BY DEF Publishing, publishBus, Write, ReadReply, ReadTimesOut, BusFails, RedisPublishes, Lose
<1>2. \/ call' = call
      \/ /\ call[m] \notin Untold
         /\ \E s \in CallStates \ Untold : call' = [call EXCEPT ![m] = s]
  <2>1. CASE Publishing(m)
    <3>1. call[m] \in {"local", "ready", "waiting", "stale"}
      BY <2>1 DEF Publishing, publishBus, Write, ReadReply, ReadTimesOut, BusFails
    <3>2. \E s \in {"ready", "done", "waiting", "late"} : call' = [call EXCEPT ![m] = s]
      BY <2>1 DEF Publishing, publishBus, Write, ReadReply, ReadTimesOut, BusFails, Return
    <3> QED BY <3>1, <3>2 DEF CallStates, Untold
  <2>2. CASE RedisPublishes(m) \/ Lose(m)
    <3>1. call' = [call EXCEPT ![m] = IF @ = "late" THEN "done" ELSE @]
      BY <2>2 DEF RedisPublishes, Lose
    <3>2. CASE call[m] = "late"
      BY <3>1, <3>2 DEF CallStates, Untold
    <3>3. CASE call[m] # "late"
      BY <3>1, <3>3 DEF Types
    <3> QED BY <3>2, <3>3
  <2> QED BY <2>1, <2>2
<1>3. \A n \in Msgs : /\ (call'[n] = "idle") = (call[n] = "idle")
                      /\ (call'[n] = "elsewhere") = (call[n] = "elsewhere")
  BY <1>2 DEF Types, Untold
<1> QED BY <1>1, <1>3, CallsGoOn DEF Unseen, closed

(* The steps it does see.                                                  *)
LEMMA OriginAfter ==
    ASSUME Types, NEW m \in Msgs, NEW s \in CallStates, call' = [call EXCEPT ![m] = s]
    PROVE  origin' = [origin EXCEPT ![m] = IF s = "idle" THEN "none"
                                           ELSE IF s = "elsewhere" THEN "elsewhere" ELSE "here"]
<1>1. \A n \in Msgs : call'[n] = IF n = m THEN s ELSE call[n]
  BY DEF Types
<1> QED BY <1>1 DEF origin

LEMMA PublishIsPublishHere ==
    ASSUME Types, NEW m \in Msgs, OnePlace(m), Publish(m) PROVE Bus!PublishHere(m)
<1>1. call[m] = "idle" /\ delivered[m] = 0
  BY DEF OnePlace, Publish
<1>2. UNCHANGED <<subscribing, closing>>
  BY DEF Publish
<1>3. PICK s \in {"done", "local"} : call' = [call EXCEPT ![m] = s]
  BY DEF Publish
<1>4. origin' = [origin EXCEPT ![m] = "here"]
  BY <1>3, OriginAfter DEF CallStates
<1>5. delivered' = [delivered EXCEPT ![m] = IF ~closed /\ subscribing = "done" THEN 1 ELSE 0]
  BY <1>1 DEF Publish, deliver, Types
<1>6. origin[m] = "none"
  BY <1>1 DEF origin
<1> QED BY <1>2, <1>4, <1>5, <1>6 DEF Bus!PublishHere, closed

LEMMA RemotePublishIsPublishElsewhere ==
    ASSUME Types, NEW m \in Msgs, RemotePublish(m) PROVE Bus!PublishElsewhere(m)
<1>1. call[m] = "idle" /\ call' = [call EXCEPT ![m] = "elsewhere"]
      /\ UNCHANGED <<subscribing, closing, delivered>>
  BY DEF RemotePublish
<1>2. origin' = [origin EXCEPT ![m] = "elsewhere"]
  BY <1>1, OriginAfter DEF CallStates
<1>3. origin[m] = "none"
  BY <1>1 DEF origin
<1> QED BY <1>1, <1>2, <1>3 DEF Bus!PublishElsewhere, closed

(* What the supervisor hands over is the handler's first of it: the one    *)
(* place a message of another node is in is the supervisor's hand.         *)
LEMMA DeliverIsGive ==
    ASSUME Types, \A m \in Msgs : OnePlace(m), busDeliver
    PROVE  Unseen \/ \E m \in Msgs : Bus!Give(m)
<1>1. UNCHANGED <<subscribing, closing, calls>>
  BY DEF busDeliver
<1>2. \A m \in Msgs : origin'[m] = origin[m]
  BY <1>1, ClosingPubKeepsOrigins
<1>3. CASE delivered' = delivered
  BY <1>1, <1>2, <1>3 DEF Unseen, closed
<1>4. CASE delivered' # delivered
  <2>1. /\ call[heard] = "elsewhere" /\ subscribing = "done"
        /\ delivered' = [delivered EXCEPT ![heard] = @ + 1]
    BY <1>4 DEF busDeliver, ownEcho, deliver, Types
  <2>2. heard \in Msgs
    BY <1>4, <2>1 DEF Types
  <2>3. delivered[heard] = 0
    BY <2>1, <2>2 DEF OnePlace
  <2>4. delivered' = [delivered EXCEPT ![heard] = 1]
    BY <2>1, <2>3
  <2>5. origin[heard] = "elsewhere"
    BY <2>1, <2>2 DEF origin
  <2>6. origin' = origin
    BY <1>2 DEF origin
  <2> QED BY <1>1, <2>1, <2>2, <2>3, <2>4, <2>5, <2>6 DEF Bus!Give, closed
<1> QED BY <1>3, <1>4

LEMMA StepIsBusStep ==
    ASSUME IInv, [Next]_broker PROVE [Bus!Next]_Bus!bus
<1> USE DEF IInv
<1>1. CASE Unseen
  BY <1>1, UnseenIsStutter
<1>2. CASE supervise
  <2>1. CASE busDeliver
    BY <1>1, <2>1, DeliverIsGive DEF Bus!Next
  <2> QED BY <1>1, <1>2, <2>1, SupervisorIsUnseen DEF supervise
<1>3. CASE \/ Subscribe \/ SubscribeNow \/ FinishClose \/ BreakPub \/ BreakSub
           \/ UNCHANGED broker
  BY <1>1, <1>3, OthersAreUnseen
<1>4. CASE SubscribeLocal
  <2>1. subscribing = "stale" /\ subscribing' = "done" /\ UNCHANGED <<closing, delivered, calls>>
    BY <1>4 DEF SubscribeLocal
  <2>2. origin' = origin
    BY <2>1 DEF origin, calls
  <2>3. Bus!Listen
    BY <2>1, <2>2 DEF Bus!Listen, closed
  <2> QED BY <2>3 DEF Bus!Next
<1>5. CASE Close
  <2>1. closing = "open" /\ closing' = "flagged" /\ UNCHANGED <<subscribing, delivered, calls>>
    BY <1>5 DEF Close
  <2>2. origin' = origin
    BY <2>1 DEF origin, calls
  <2>3. Bus!Close
    BY <2>1, <2>2 DEF Bus!Close, closed
  <2> QED BY <2>3 DEF Bus!Next
<1>6. ASSUME NEW m \in Msgs, Publish(m) PROVE Bus!Next
  BY <1>6, PublishIsPublishHere DEF Bus!Next
<1>7. ASSUME NEW m \in Msgs, RemotePublish(m) PROVE Bus!Next
  BY <1>7, RemotePublishIsPublishElsewhere DEF Bus!Next
<1>8. ASSUME NEW m \in Msgs, Publishing(m) \/ RedisPublishes(m) \/ Lose(m) PROVE Unseen
  BY <1>8, CallsAreUnseen
<1> QED BY <1>1, <1>2, <1>3, <1>4, <1>5, <1>6, <1>7, <1>8 DEF Next, Subscribing

(* The broker implements NodeBus: whatever sockets break, are closed or    *)
(* replaced, and however its goroutines interleave, Publish hands its      *)
(* message over in the call or never, the echo is not handed over again,   *)
(* and a message of another node is, once at most.                         *)
THEOREM BrokerImplementsBus == Spec => ImplementsBus
<1>1. Init => Bus!Init
  <2> SUFFICES ASSUME Init PROVE Bus!Init
    OBVIOUS
  <2>1. origin = [m \in Msgs |-> "none"]
    BY DEF Init, origin
  <2> QED BY <2>1 DEF Init, Bus!Init, closed
<1>2. IInv /\ [Next]_broker => [Bus!Next]_Bus!bus
  BY StepIsBusStep
<1> QED BY <1>1, <1>2, InvariantHolds, PTL DEF Spec, ImplementsBus, Bus!Spec
===============================================================================
