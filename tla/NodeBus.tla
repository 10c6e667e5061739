-------------------------------- MODULE NodeBus --------------------------------
(***************************************************************************)
(* What the Redis broker promises the handler of its node (internal/broker *)
(* /redis.go: "exactly-once-per-node"): a message published here is handed *)
(* over in that call or never, one published elsewhere at most once and at *)
(* some later time, and nothing to a handler that is not there yet.  No    *)
(* socket, no supervisor, no Redis, no echo.                               *)
(***************************************************************************)
EXTENDS Naturals

CONSTANT Msgs

VARIABLES
    origin,     \* where a message was published: "none", "here", "elsewhere"
    given,      \* how often the handler was given it
    listening,  \* the handler is registered
    open        \* Close has not been called

bus == <<origin, given, listening, open>>

Init ==
    /\ origin = [m \in Msgs |-> "none"]
    /\ given = [m \in Msgs |-> 0]
    /\ listening = FALSE /\ open = TRUE

PublishHere(m) ==
    /\ origin[m] = "none"
    /\ origin' = [origin EXCEPT ![m] = "here"]
    /\ given' = [given EXCEPT ![m] = IF open /\ listening THEN 1 ELSE 0]
    /\ UNCHANGED <<listening, open>>

PublishElsewhere(m) ==
    /\ origin[m] = "none"
    /\ origin' = [origin EXCEPT ![m] = "elsewhere"]
    /\ UNCHANGED <<given, listening, open>>

(* What the bus brings may still be handed over after Close.               *)
Give(m) ==
    /\ origin[m] = "elsewhere" /\ given[m] = 0 /\ listening
    /\ given' = [given EXCEPT ![m] = 1]
    /\ UNCHANGED <<origin, listening, open>>

Listen == ~listening /\ listening' = TRUE /\ UNCHANGED <<origin, given, open>>

Close == open /\ open' = FALSE /\ UNCHANGED <<origin, given, listening>>

Next ==
    \/ Listen \/ Close
    \/ \E m \in Msgs : PublishHere(m) \/ PublishElsewhere(m) \/ Give(m)

Spec == Init /\ [][Next]_bus
================================================================================
