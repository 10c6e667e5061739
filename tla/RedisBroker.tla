----------------------------- MODULE RedisBroker ------------------------------
(* The multi-replica broker of internal/broker/redis.go, on one replica:   *)
(* the supervisor goroutine that dials a publishing and a subscribing      *)
(* socket, the Publish calls of the HTTP handlers, the one Subscribe call  *)
(* (the server's, at construction, for the one topic it has), and Close.   *)
(* Redis is external; the other replicas are what it has to deliver.       *)
(*                                                                         *)
(* Counters, logs, AUTH and SELECT are left out: the first two decide      *)
(* nothing, the last two are one more way for a dial to fail.              *)
EXTENDS Integers, Sequences, FiniteSets, SequencesExt

CONSTANTS Msgs,       \* messages published once each, here or elsewhere
          MaxFaults,  \* bound: how often a socket breaks or a dial fails
          None

Confirm == "subscribe"                \* the confirmation of a SUBSCRIBE

ASSUME BusAssumption == MaxFaults \in Nat /\ None \notin Msgs /\ Confirm \notin Msgs

Sockets == {"none", "up", "broken"}   \* "none": not dialled, or closed by us
Dialling == {"halfDialed", "copied", "confirming", "dialed"}
Stages == {"top", "dialing", "reading", "blocked", "delivering", "ending", "pausing", "exited"}
             \cup Dialling

VARIABLES
    closing,     \* Close: "open", "flagged" (closed is set), "returned"
    wanted,      \* topics: has Subscribe recorded the topic
    subscribing, \* how far the Subscribe call has come
    stage,       \* the supervisor
    todo,        \* dialPair's copy of topics has the topic
    heard,       \* the frame readLoop has read and not yet delivered
    installed,   \* b.pub and b.sub are set: always both or neither
    pubSock, subSock,
    subscribed,  \* Redis: the subscribing socket is subscribed
    inbox,       \* what the subscribing socket has yet to read
    call,        \* how far the Publish call of a message has come
    inFlight,    \* PUBLISH commands written and not processed
    replies,     \* answers the publishing socket has yet to read
    delivered,   \* history: how often the handler was given a message
    faults

supervisor == <<stage, todo, heard>>
sockets == <<pubSock, subSock, subscribed>>
calls == <<call, inFlight, replies>>
broker == <<closing, wanted, subscribing, supervisor, installed, sockets, inbox, calls,
            delivered, faults>>

Init ==
    /\ closing = "open" /\ wanted = FALSE /\ subscribing = "before"
    /\ stage = "top" /\ todo = FALSE /\ heard = None
    /\ installed = FALSE /\ pubSock = "none" /\ subSock = "none"
    /\ subscribed = FALSE /\ inbox = <<>>
    /\ call = [m \in Msgs |-> "idle"]
    /\ inFlight = {} /\ replies = 0
    /\ delivered = [m \in Msgs |-> 0]
    /\ faults = 0

closed == closing # "open"

(* The local table: the handler is called if it has been registered.       *)
deliver(m) ==
    delivered' = [delivered EXCEPT ![m] = IF subscribing = "done" THEN @ + 1 ELSE @]

(* A fault spends one of the budget; dialPair's error paths are such.      *)
Fault == faults < MaxFaults /\ faults' = faults + 1

(* Closing the publishing socket fails the calls that hold it (a command   *)
(* written may still be processed); closing the subscribing one ends the   *)
(* subscription and fails a Subscribe that is about to write to it.        *)
ClosePub ==
    /\ pubSock' = "none"
    /\ call' = [m \in Msgs |-> CASE call[m] \in {"ready", "waiting"} -> "stale"
                                 [] call[m] = "late" -> "done"
                                 [] OTHER -> call[m]]
    /\ replies' = 0
    /\ UNCHANGED inFlight
CloseSub ==
    /\ subSock' = "none" /\ subscribed' = FALSE
    /\ subscribing' = IF subscribing = "writing" THEN "stale" ELSE subscribing
CloseBoth == ClosePub /\ CloseSub

-----------------------------------------------------------------------------
(* supervise and connectRound.                                             *)
Top ==
    /\ stage = "top"
    /\ stage' = IF closed THEN "exited" ELSE "dialing"
    /\ UNCHANGED <<closing, wanted, subscribing, todo, heard, installed, sockets, inbox, calls,
                   delivered, faults>>

DialPub ==
    /\ stage = "dialing"
    /\ \/ stage' = "halfDialed" /\ pubSock' = "up" /\ UNCHANGED faults
       \/ Fault /\ stage' = "ending" /\ UNCHANGED pubSock
    /\ UNCHANGED <<closing, wanted, subscribing, todo, heard, installed, subSock, subscribed,
                   inbox, calls, delivered>>

DialSub ==
    /\ stage = "halfDialed"
    /\ \/ /\ stage' = "copied" /\ subSock' = "up" /\ inbox' = <<>> /\ todo' = wanted
          /\ UNCHANGED <<pubSock, calls, faults>>
       \/ Fault /\ stage' = "ending" /\ ClosePub /\ UNCHANGED <<subSock, inbox, todo>>
    /\ UNCHANGED <<closing, wanted, subscribing, heard, installed, subscribed, delivered>>

(* SUBSCRIBE: Redis subscribes the socket and confirms.                    *)
SendSubscribe ==
    IF subSock = "up" THEN subscribed' = TRUE /\ inbox' = Append(inbox, Confirm)
                      ELSE UNCHANGED <<subscribed, inbox>>

(* The topics the pair was dialled with; what is read next is taken for    *)
(* the confirmation.                                                       *)
ApplyTopics ==
    /\ stage = "copied"
    /\ IF todo THEN stage' = "confirming" /\ SendSubscribe
               ELSE stage' = "dialed" /\ UNCHANGED <<subscribed, inbox>>
    /\ UNCHANGED <<closing, wanted, subscribing, todo, heard, installed, pubSock, subSock, calls,
                   delivered, faults>>

AwaitConfirm ==
    /\ stage = "confirming"
    /\ \/ /\ inbox # <<>> /\ inbox' = Tail(inbox) /\ stage' = "dialed"
          /\ UNCHANGED <<subscribing, sockets, calls, faults>>
       \/ /\ IF subSock = "broken" THEN UNCHANGED faults ELSE Fault
          /\ CloseBoth /\ stage' = "ending" /\ UNCHANGED inbox
    /\ UNCHANGED <<closing, wanted, todo, heard, installed, delivered>>

(* The pair is handed over under b.mu, unless Close came first.            *)
Install ==
    /\ stage = "dialed"
    /\ IF closed
       THEN stage' = "ending" /\ CloseBoth /\ UNCHANGED installed
       ELSE /\ stage' = "reading" /\ installed' = TRUE
            /\ UNCHANGED <<subscribing, sockets, calls>>
    /\ UNCHANGED <<closing, wanted, todo, heard, inbox, delivered, faults>>

(* readLoop: a closed broker, or a read that fails, ends the round; frames *)
(* already received can be read from a socket that has failed since.       *)
ReadNext ==
    /\ stage = "reading" /\ ~closed
    /\ stage' = "blocked"
    /\ UNCHANGED <<closing, wanted, subscribing, todo, heard, installed, sockets, inbox, calls,
                   delivered, faults>>

ReadFrame ==
    /\ stage = "blocked"
    /\ inbox # <<>>
    /\ inbox' = Tail(inbox)
    /\ IF Head(inbox) = Confirm THEN stage' = "reading" /\ UNCHANGED heard
                                ELSE stage' = "delivering" /\ heard' = Head(inbox)
    /\ UNCHANGED <<closing, wanted, subscribing, todo, installed, sockets, calls, delivered,
                   faults>>

ownEcho_Forgotten(m) == FALSE  \* Mutant: the origin stamp is not compared
ownEcho(m) == call[m] # "elsewhere"

busDeliver ==
    /\ stage = "delivering"
    /\ IF ownEcho(heard) THEN UNCHANGED delivered ELSE deliver(heard)
    /\ heard' = None /\ stage' = "reading"
    /\ UNCHANGED <<closing, wanted, subscribing, todo, installed, sockets, inbox, calls, faults>>

(* The read fails, or closed is noticed: connectRound closes the publisher *)
(* it dialled, and then both sockets if they are still installed.          *)
ReadFails ==
    /\ \/ stage = "reading" /\ closed
       \/ stage = "blocked" /\ subSock # "up"
    /\ ClosePub
    /\ stage' = "ending"
    /\ UNCHANGED <<closing, wanted, subscribing, todo, heard, installed, subSock, subscribed,
                   inbox, delivered, faults>>

(* Mutant: what was installed is forgotten without being closed.           *)
closeConns_Forgets ==
    installed' = FALSE /\ UNCHANGED <<subscribing, sockets, calls>>

closeConns ==
    IF installed THEN installed' = FALSE /\ CloseBoth
                 ELSE UNCHANGED <<installed, subscribing, sockets, calls>>

(* Mutant: a failed round is the last one.                                 *)
EndRound_GivesUp ==
    /\ stage = "ending"
    /\ closeConns
    /\ inbox' = <<>>
    /\ stage' = "exited"
    /\ UNCHANGED <<closing, wanted, todo, heard, delivered, faults>>
EndRound ==
    /\ stage = "ending"
    /\ closeConns
    /\ inbox' = <<>>
    /\ stage' = IF closed THEN "exited" ELSE "pausing"
    /\ UNCHANGED <<closing, wanted, todo, heard, delivered, faults>>

(* The backoff passes, or Close interrupts it.                             *)
Resume ==
    /\ stage = "pausing"
    /\ \/ stage' = "top"
       \/ closed /\ stage' = "exited"
    /\ UNCHANGED <<closing, wanted, subscribing, todo, heard, installed, sockets, inbox, calls,
                   delivered, faults>>

supervise ==
    \/ Top \/ DialPub \/ DialSub \/ ApplyTopics \/ AwaitConfirm \/ Install
    \/ ReadNext \/ ReadFrame \/ busDeliver \/ ReadFails \/ EndRound \/ Resume

-----------------------------------------------------------------------------
(* Subscribe: record the topic and read b.sub under b.mu, write to that    *)
(* socket if there is one, then register the handler.                      *)
Subscribe ==
    /\ subscribing = "before"
    /\ wanted' = TRUE
    /\ subscribing' = IF installed THEN "writing" ELSE "stale"
    /\ UNCHANGED <<closing, supervisor, installed, sockets, inbox, calls, delivered, faults>>

SubscribeNow ==
    /\ subscribing = "writing"
    /\ SendSubscribe
    /\ subscribing' = "stale"
    /\ UNCHANGED <<closing, wanted, supervisor, installed, pubSock, subSock, calls, delivered,
                   faults>>

SubscribeLocal ==
    /\ subscribing = "stale"
    /\ subscribing' = "done"
    /\ UNCHANGED <<closing, wanted, supervisor, installed, sockets, inbox, calls, delivered,
                   faults>>

Subscribing == SubscribeNow \/ SubscribeLocal

(* Publish: local delivery, then one round trip on the publishing socket   *)
(* of the moment, under that socket's mutex and a deadline.                *)
Publish(m) ==
    /\ call[m] = "idle"
    /\ \/ closed /\ call' = [call EXCEPT ![m] = "done"] /\ UNCHANGED delivered
       \/ ~closed /\ call' = [call EXCEPT ![m] = "local"] /\ deliver(m)
    /\ UNCHANGED <<closing, wanted, subscribing, supervisor, installed, sockets, inbox, inFlight,
                   replies, faults>>

publishBus(m) ==
    /\ call[m] = "local"
    /\ call' = [call EXCEPT ![m] = IF installed THEN "ready" ELSE "done"]
    /\ UNCHANGED <<closing, wanted, subscribing, supervisor, installed, sockets, inbox, inFlight,
                   replies, delivered, faults>>

Write(m) ==
    /\ call[m] = "ready"
    /\ \A other \in Msgs : call[other] # "waiting"
    /\ \/ /\ pubSock = "up"
          /\ call' = [call EXCEPT ![m] = "waiting"]
          /\ inFlight' = inFlight \cup {m}
       \/ pubSock = "broken" /\ call' = [call EXCEPT ![m] = "done"] /\ UNCHANGED inFlight
    /\ UNCHANGED <<closing, wanted, subscribing, supervisor, installed, sockets, inbox, replies,
                   delivered, faults>>

(* A call that returns before its command was answered leaves the answer   *)
(* to whoever reads next.                                                  *)
Return(m) == call' = [call EXCEPT ![m] = IF m \in inFlight THEN "late" ELSE "done"]

(* Mutant: a publish is given whatever the buffer holds.                   *)
ReadReply_Blind(m) ==
    /\ call[m] = "waiting"
    /\ Return(m)
    /\ replies' = replies - 1
    /\ UNCHANGED <<closing, wanted, subscribing, supervisor, installed, sockets, inbox, inFlight,
                   delivered, faults>>
ReadReply(m) ==
    /\ call[m] = "waiting" /\ replies > 0
    /\ Return(m)
    /\ replies' = replies - 1
    /\ UNCHANGED <<closing, wanted, subscribing, supervisor, installed, sockets, inbox, inFlight,
                   delivered, faults>>

(* The deadline passes on a silent socket.                                 *)
ReadTimesOut_Never(m) == FALSE /\ UNCHANGED broker  \* Mutant: the read has no deadline
ReadTimesOut(m) ==
    /\ call[m] = "waiting" /\ replies = 0 /\ pubSock = "up"
    /\ Return(m)
    /\ UNCHANGED <<closing, wanted, subscribing, supervisor, installed, sockets, inbox, inFlight,
                   replies, delivered, faults>>

(* The socket failed, or was closed, under the call.                       *)
BusFails(m) ==
    /\ \/ call[m] = "stale"
       \/ call[m] = "waiting" /\ pubSock = "broken"
    /\ call' = [call EXCEPT ![m] = "done"]
    /\ UNCHANGED <<closing, wanted, subscribing, supervisor, installed, sockets, inbox, inFlight,
                   replies, delivered, faults>>

Publishing(m) == publishBus(m) \/ Write(m) \/ ReadReply(m) \/ ReadTimesOut(m) \/ BusFails(m)

(* Close: the flag, then the sockets.                                      *)
Close ==
    /\ closing = "open"
    /\ closing' = "flagged"
    /\ UNCHANGED <<wanted, subscribing, supervisor, installed, sockets, inbox, calls, delivered,
                   faults>>

FinishClose ==
    /\ closing = "flagged"
    /\ closeConns
    /\ closing' = "returned"
    /\ UNCHANGED <<wanted, supervisor, inbox, delivered, faults>>

-----------------------------------------------------------------------------
(* Redis, the other replicas and the network.                              *)
RemotePublish(m) ==
    /\ call[m] = "idle"
    /\ call' = [call EXCEPT ![m] = "elsewhere"]
    /\ inFlight' = inFlight \cup {m}
    /\ UNCHANGED <<closing, wanted, subscribing, supervisor, installed, sockets, inbox, replies,
                   delivered, faults>>

Outstanding(m) == call[m] \in {"waiting", "late"} /\ pubSock = "up"

RedisPublishes(m) ==
    /\ m \in inFlight
    /\ inFlight' = inFlight \ {m}
    /\ inbox' = IF subscribed THEN Append(inbox, m) ELSE inbox
    /\ replies' = IF Outstanding(m) THEN replies + 1 ELSE replies
    /\ call' = [call EXCEPT ![m] = IF @ = "late" THEN "done" ELSE @]
    /\ UNCHANGED <<closing, wanted, subscribing, supervisor, installed, sockets, delivered,
                   faults>>

(* A command on a socket that is gone may be lost.                         *)
Lose(m) ==
    /\ m \in inFlight /\ call[m] # "elsewhere" /\ ~Outstanding(m)
    /\ inFlight' = inFlight \ {m}
    /\ call' = [call EXCEPT ![m] = IF @ = "late" THEN "done" ELSE @]
    /\ UNCHANGED <<closing, wanted, subscribing, supervisor, installed, sockets, inbox, replies,
                   delivered, faults>>

BreakPub ==
    /\ Fault
    /\ pubSock = "up" /\ pubSock' = "broken"
    /\ UNCHANGED <<closing, wanted, subscribing, supervisor, installed, subSock, subscribed,
                   inbox, calls, delivered>>

(* Part of what Redis has sent may have arrived.                           *)
BreakSub ==
    /\ Fault
    /\ subSock = "up" /\ subSock' = "broken" /\ subscribed' = FALSE
    /\ inbox' \in Prefixes(inbox)
    /\ UNCHANGED <<closing, wanted, subscribing, supervisor, installed, pubSock, calls,
                   delivered>>

Next ==
    \/ supervise \/ Subscribe \/ Subscribing \/ Close \/ FinishClose \/ BreakPub \/ BreakSub
    \/ \E m \in Msgs : \/ Publish(m) \/ Publishing(m)
                       \/ RemotePublish(m) \/ RedisPublishes(m) \/ Lose(m)

Spec == Init /\ [][Next]_broker

(* Goroutines that can run do; read deadlines pass. Nothing is assumed of  *)
(* Redis, of publishers or of who calls Close: dials succeed once the      *)
(* faults are spent.                                                       *)
Fairness ==
    /\ WF_broker(supervise) /\ WF_broker(Subscribing) /\ WF_broker(FinishClose)
    /\ \A m \in Msgs : WF_broker(Publishing(m))

FairSpec == Spec /\ Fairness

-----------------------------------------------------------------------------
(* Types. A socket of each kind at most, calls and frames of known kinds.  *)
BusTypeOK ==
    /\ closing \in {"open", "flagged", "returned"}
    /\ {wanted, todo, installed, subscribed} \subseteq BOOLEAN
    /\ subscribing \in {"before", "writing", "stale", "done"}
    /\ stage \in Stages
    /\ heard \in Msgs \cup {None}
    /\ {pubSock, subSock} \subseteq Sockets
    /\ inbox \in Seq(Msgs \cup {Confirm})
    /\ call \in [Msgs -> {"idle", "local", "ready", "waiting", "late", "stale", "done",
                          "elsewhere"}]
    /\ inFlight \subseteq Msgs
    /\ replies \in 0 .. Cardinality(Msgs)
    /\ delivered \in [Msgs -> Nat]
    /\ faults \in 0 .. MaxFaults

(* The handler is never given a message twice: not one published here,     *)
(* whose echo comes back over the bus, and not one of another replica,     *)
(* whatever sockets were lost and dialled in between ("exactly-once-per-   *)
(* node ... with no message ids", busDeliver).                             *)
OncePerNode == \A m \in Msgs : delivered[m] <= 1

(* Every open socket has an owner that will close it: dialPair while it    *)
(* dials, the broker once they are installed. Between rounds, and after    *)
(* Close and the supervisor are done, the node holds none, whichever of    *)
(* Close, a failed dial and a failed read came first.                      *)
SocketsOwned ==
    ~installed /\ stage \notin Dialling => pubSock = "none" /\ subSock = "none"

(* A round trip on the bus never holds a Publish call for ever, although   *)
(* Redis may never answer, the socket may break, be closed or be replaced  *)
(* under it, and calls queue behind each other on its mutex.               *)
PublishReturns == \A m \in Msgs : call[m] = "local" ~> call[m] \in {"late", "done"}

(* Whatever fails, the supervisor comes back to reading a live socket, and *)
(* once the broker is closed it exits, holding nothing.                    *)
SupervisorSettles ==
    []<>(\/ stage = "blocked" /\ subSock = "up" /\ ~closed
         \/ stage = "exited" /\ closed /\ pubSock = "none" /\ subSock = "none")

(* Once the topic's Subscribe call has returned, a live pair of sockets is *)
(* subscribed to it: "records the topic so every connect round SUBSCRIBEs  *)
(* it on the bus" (Subscribe).                                             *)
SubscribedWhileUp ==
    subscribing = "done" /\ installed /\ subSock = "up" => subscribed

(* A publisher that has failed is replaced or closed: "on ANY failure tear *)
(* everything down, back off ... and try again" (supervise).               *)
PublisherHeals == installed /\ pubSock = "broken" ~> pubSock # "broken"

(* What the node has been told of: NodeBus keeps where each message came   *)
(* from and whether the handler has it, whatever sockets it went through.  *)
origin ==
    [m \in Msgs |-> CASE call[m] = "idle" -> "none"
                      [] call[m] = "elsewhere" -> "elsewhere"
                      [] OTHER -> "here"]

Bus == INSTANCE NodeBus
         WITH given <- delivered, listening <- subscribing = "done", open <- ~closed

(* The broker implements NodeBus: whatever sockets break and are replaced, *)
(* Publish hands its message over in the call or never, its echo is not    *)
(* handed over again, and what another node published is, once at most     *)
(* ("exactly-once-per-node ... with no message ids", busDeliver).          *)
ImplementsBus == Bus!Spec
=============================================================================
