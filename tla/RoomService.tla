----------------------------- MODULE RoomService ------------------------------
(***************************************************************************)
(* What the hub promises the people in a tenant's rooms (gateway-go        *)
(* internal/hub, as a connection and a publisher see it): one table of who *)
(* is where, every change of it atomic; an event goes once to each of the  *)
(* people who were in its room at one moment, and to nobody else.  No      *)
(* index, no counter, no lock, no life of a connection.                    *)
(***************************************************************************)
EXTENDS Naturals, Sequences, FiniteSets

CONSTANTS Conns, Tenants, TenantOf, Rooms, Publishers, MaxPerTenant, MaxSubs, QueueCap, None

VARIABLES
    home,     \* the tenant whose slot each connection holds
    within,   \* the rooms each connection is in
    posting,  \* each publisher's event and those still to be given it
    mailbox   \* what each connection has still to be written

board == <<home, within, posting, mailbox>>

Note == <<None, None>>   \* not an event: the connection's own business

Init ==
    /\ home = [c \in Conns |-> None]
    /\ within = [c \in Conns |-> {}]
    /\ posting = [p \in Publishers |-> [frame |-> Note, targets |-> {}]]
    /\ mailbox = [c \in Conns |-> <<>>]

Residents(t) == {c \in Conns : home[c] = t}

Audience(t, r) == {c \in Residents(t) : r \in within[c]}

(* A tenant admits so many; its own only.                                  *)
Enter(c) ==
    /\ home[c] = None
    /\ Cardinality(Residents(TenantOf[c])) < MaxPerTenant
    /\ home' = [home EXCEPT ![c] = TenantOf[c]]
    /\ UNCHANGED <<within, posting, mailbox>>

Join(c, r) ==
    /\ home[c] # None
    /\ Cardinality(within[c] \cup {r}) <= MaxSubs
    /\ within' = [within EXCEPT ![c] = @ \cup {r}]
    /\ UNCHANGED <<home, posting, mailbox>>

Part(c, r) ==
    /\ within' = [within EXCEPT ![c] = @ \ {r}]
    /\ UNCHANGED <<home, posting, mailbox>>

(* Slot and rooms go together.                                             *)
Leave(c) ==
    /\ home' = [home EXCEPT ![c] = None]
    /\ within' = [within EXCEPT ![c] = {}]
    /\ UNCHANGED <<posting, mailbox>>

(* A full mailbox loses what comes last.                                   *)
Put(c, f) ==
    mailbox' = [mailbox EXCEPT ![c] = IF Len(@) < QueueCap THEN Append(@, f) ELSE @]

Post(p, t, r) ==
    /\ posting[p].targets = {}
    /\ posting' = [posting EXCEPT ![p] = [frame |-> <<t, r>>, targets |-> Audience(t, r)]]
    /\ UNCHANGED <<home, within, mailbox>>

Give(p, c) ==
    /\ c \in posting[p].targets
    /\ posting' = [posting EXCEPT ![p].targets = @ \ {c}]
    /\ Put(c, posting[p].frame)
    /\ UNCHANGED <<home, within>>

Notify(c) == Put(c, Note) /\ UNCHANGED <<home, within, posting>>

Take(c) ==
    /\ mailbox[c] # <<>>
    /\ mailbox' = [mailbox EXCEPT ![c] = Tail(@)]
    /\ UNCHANGED <<home, within, posting>>

Next ==
    \/ \E c \in Conns : \/ Enter(c) \/ Leave(c) \/ Notify(c) \/ Take(c)
                        \/ \E r \in Rooms : Join(c, r) \/ Part(c, r)
                        \/ \E p \in Publishers : Give(p, c)
    \/ \E p \in Publishers, t \in Tenants, r \in Rooms : Post(p, t, r)

Spec == Init /\ [][Next]_board
=============================================================================
