------------------------------ MODULE EventInbox -------------------------------
(***************************************************************************)
(* What the webhook endpoint promises the provider of events (voxdesk      *)
(* app/billing/webhooks.py): an event is decided once, its changes are     *)
(* made in the same step or never, the decision stands, and only what is   *)
(* decided is acknowledged.  No request, no transaction, no subscription.  *)
(***************************************************************************)
EXTENDS Naturals

CONSTANTS Events,
          Handled,   \* events some handler is for
          Ours       \* of these, the ones that say whose they are

VARIABLES
    verdict,  \* of each event: "none" yet, "failed", "done"
    effect,   \* how often its changes were made
    told      \* events the provider will not send again

inbox == <<verdict, effect, told>>

Init ==
    /\ verdict = [e \in Events |-> "none"]
    /\ effect = [e \in Events |-> 0]
    /\ told = {}

(* Done means made, for an event of ours; a failure may come before the    *)
(* changes or after them; nothing is made of what no handler is for.       *)
Consistent(e, v, n) ==
    /\ (v = "done" /\ e \in Ours) => n = 1
    /\ n = 1 => e \in Handled

Decide(e) ==
    /\ verdict[e] = "none"
    /\ \E v \in {"failed", "done"}, n \in {0, 1} :
          /\ Consistent(e, v, n)
          /\ verdict' = [verdict EXCEPT ![e] = v]
          /\ effect' = [effect EXCEPT ![e] = n]
    /\ UNCHANGED told

Acknowledge(e) ==
    /\ verdict[e] # "none"
    /\ told' = told \cup {e}
    /\ UNCHANGED <<verdict, effect>>

Next == \E e \in Events : Decide(e) \/ Acknowledge(e)

Spec == Init /\ [][Next]_inbox
================================================================================
