---------------------------- MODULE BillingWebhooks ----------------------------
(* The webhooks of the billing provider (app/billing/webhooks.py, the route *)
(* in app/api/billing_routes.py and the ordering check of                   *)
(* app/billing/service.py) for one tenant. The provider delivers an event   *)
(* until it is answered 2xx, in any order and more than once; a request is  *)
(* one database transaction, read committed; several run at a time.         *)
(*                                                                          *)
(* A transaction is cut where others can act: the receipt, the read of the  *)
(* subscription row, the handler (which awaits the provider and queries),   *)
(* the commit. Plans, prices, periods, invoices and the closing of a period *)
(* are left out, except that the last may raise. The dashboard's own writes *)
(* (checkout, cancel, plan change, reconciliation) are not modelled.        *)
EXTENDS Integers

CONSTANTS Events,
          Workers,        \* bound: requests in progress at a time
          Kind, Created, Remote, \* of an event: its type, time and state carried
          Stamped,        \* events carrying our tenant id in their metadata
          ProviderStatus, \* what get_subscription answers
          MaxFaults,      \* bound: crashes, lost answers, handlers that raise
          None

Statuses == {"incomplete", "trialing", "active", "past_due", "canceling", "canceled"}
Kinds == {"other", "checkout", "changed", "deleted", "paid", "failed"}

ASSUME BillingAssumption ==
    /\ Kind \in [Events -> Kinds]
    /\ Created \in [Events -> Nat]
    /\ Remote \in [Events -> Statuses]
    /\ Stamped \subseteq Events
    /\ ProviderStatus \in Statuses
    /\ MaxFaults \in Nat
    /\ None \notin Events

Rows == [status : Statuses, stamp : Nat, linked : BOOLEAN]
Holding == {"claimed", "loaded", "handled"}   \* the receipt is inserted, not committed
Phases == {"idle", "received", "answering"} \cup Holding

VARIABLES
    row,      \* the subscription: status, provider_updated_at, has external id
    receipt,  \* BillingWebhookReceipt, committed: "none", "failed", "done"
    phase,    \* how far a request is
    event,    \* what it is about
    loaded,   \* the row as it read it
    copy,     \* the row as it will write it
    acked,    \* provider: events answered 2xx
    applied,  \* history: how often the changes of an event were committed
    faults

database == <<row, receipt, applied>>
requests == <<phase, event, loaded, copy>>
billing == <<database, requests, acked, faults>>

(* start_checkout creates the row before the provider knows of the tenant.  *)
NewRow == [status |-> "incomplete", stamp |-> 0, linked |-> FALSE]

Init ==
    /\ row = NewRow
    /\ receipt = [e \in Events |-> "none"]
    /\ phase = [w \in Workers |-> "idle"]
    /\ event = [w \in Workers |-> None]
    /\ loaded = [w \in Workers |-> NewRow]
    /\ copy = [w \in Workers |-> NewRow]
    /\ acked = {}
    /\ applied = [e \in Events |-> 0]
    /\ faults = 0

goes(w, from, to) == phase[w] = from /\ phase' = [phase EXCEPT ![w] = to]
holders(e) == {w \in Workers : phase[w] \in Holding /\ event[w] = e}

(* Mutant: the request ends and its event stays.                            *)
finish_KeepsEvent(w) ==
    /\ phase' = [phase EXCEPT ![w] = "idle"]
    /\ UNCHANGED <<event, loaded, copy>>

(* The request is over; what its session held in memory is gone.            *)
finish(w) ==
    /\ phase' = [phase EXCEPT ![w] = "idle"]
    /\ event' = [event EXCEPT ![w] = None]
    /\ loaded' = [loaded EXCEPT ![w] = NewRow]
    /\ copy' = [copy EXCEPT ![w] = NewRow]

fault == faults < MaxFaults /\ faults' = faults + 1

-------------------------------------------------------------------------------
(* The request                                                              *)

(* The provider sends e, for the first time, again, or although answered.   *)
Deliver(w, e) ==
    /\ goes(w, "idle", "received")
    /\ event' = [event EXCEPT ![w] = e]
    /\ UNCHANGED <<database, loaded, copy, acked, faults>>

(* Mutant: a receipt another request has not committed counts already.      *)
Duplicate_Uncommitted(w) ==
    /\ goes(w, "received", "answering")
    /\ receipt[event[w]] # "none" \/ holders(event[w]) # {}
    /\ UNCHANGED <<database, event, loaded, copy, acked, faults>>

(* Mutant: a duplicate is refused, so that the provider sends it again.     *)
Duplicate_Refused(w) ==
    /\ phase[w] = "received"
    /\ receipt[event[w]] # "none"
    /\ finish(w)
    /\ UNCHANGED <<database, acked, faults>>

(* _claim: a committed receipt makes it a duplicate, processed or not.      *)
Duplicate(w) ==
    /\ goes(w, "received", "answering")
    /\ receipt[event[w]] # "none"
    /\ UNCHANGED <<database, event, loaded, copy, acked, faults>>

(* Mutant: the SELECT alone, without the unique constraint.                 *)
Claim_NoConstraint(w) ==
    /\ goes(w, "received", "claimed")
    /\ receipt[event[w]] = "none"
    /\ UNCHANGED <<database, event, loaded, copy, acked, faults>>

(* The unique constraint: an insert waits for the transaction that inserted *)
(* the same event, and fails if it commits.                                 *)
Claim(w) ==
    /\ goes(w, "received", "claimed")
    /\ receipt[event[w]] = "none"
    /\ holders(event[w]) = {}
    /\ UNCHANGED <<database, event, loaded, copy, acked, faults>>

(* process_event: what no handler is for, or no tenant is known for, is     *)
(* recorded and never looked at again.                                      *)
attributed(e) == e \in Stamped \/ row.linked

Ignore(w) ==
    LET e == event[w] IN
    /\ goes(w, "claimed", "answering")
    /\ Kind[e] = "other" \/ ~attributed(e)
    /\ receipt' = [receipt EXCEPT ![e] = "done"]
    /\ UNCHANGED <<row, applied, event, loaded, copy, acked, faults>>

Load(w) ==
    /\ goes(w, "claimed", "loaded")
    /\ Kind[event[w]] # "other" /\ attributed(event[w])
    /\ loaded' = [loaded EXCEPT ![w] = row]
    /\ copy' = [copy EXCEPT ![w] = row]
    /\ UNCHANGED <<database, event, acked, faults>>

-------------------------------------------------------------------------------
(* The handlers, as what they make of the row they read                     *)

(* _apply_remote: refuses what is older than what was applied.              *)
stale(r, e) == Created[e] < r.stamp

apply_remote(r, e, status) ==
    IF stale(r, e) THEN r ELSE [status |-> status, stamp |-> Created[e], linked |-> TRUE]

on_subscription_deleted(r, e) ==
    IF stale(r, e) THEN r ELSE [r EXCEPT !.status = "canceled", !.stamp = Created[e]]

on_invoice_paid(r) ==
    IF r.status = "past_due" THEN [r EXCEPT !.status = "active"] ELSE r

on_invoice_failed(r) ==
    IF r.status \in {"active", "trialing"} THEN [r EXCEPT !.status = "past_due"] ELSE r

(* The link is kept even if reading the subscription fails.                 *)
on_checkout_completed(r, e) ==
    LET l == [r EXCEPT !.linked = TRUE]
    IN {l, apply_remote(l, e, ProviderStatus)}

outcomes(r, e) ==
    CASE Kind[e] = "checkout" -> on_checkout_completed(r, e)
      [] Kind[e] = "changed" -> {apply_remote(r, e, Remote[e])}
      [] Kind[e] = "deleted" -> {on_subscription_deleted(r, e)}
      [] Kind[e] = "paid" -> {on_invoice_paid(r)}
      [] Kind[e] = "failed" -> {on_invoice_failed(r)}

Handle(w) ==
    /\ goes(w, "loaded", "handled")
    /\ \E r \in outcomes(copy[w], event[w]) : copy' = [copy EXCEPT ![w] = r]
    /\ UNCHANGED <<database, event, loaded, acked, faults>>
-------------------------------------------------------------------------------
(* The end of the transaction                                               *)

(* The UPDATE sets the columns the handler changed, whatever the row has    *)
(* become since it was read.                                                *)
changed(w, field) == copy[w][field] # loaded[w][field]

written(w) ==
    [f \in DOMAIN row |-> IF changed(w, f) THEN copy[w][f] ELSE row[f]]

settle(w, outcome) ==
    /\ row' = written(w)
    /\ receipt' = [receipt EXCEPT ![event[w]] = outcome]
    /\ applied' = [applied EXCEPT ![event[w]] =
                     IF phase[w] = "handled" /\ @ < 2 THEN @ + 1 ELSE @]

Commit(w) ==
    /\ goes(w, "handled", "answering")
    /\ settle(w, "done")
    /\ UNCHANGED <<event, loaded, copy, acked, faults>>

(* The handler raises, before its changes or after them: the receipt is     *)
(* committed as not processed, with the changes, and the answer is a 500.   *)
Raise(w) ==
    /\ phase[w] \in {"loaded", "handled"}
    /\ settle(w, "failed")
    /\ fault
    /\ finish(w)
    /\ UNCHANGED acked

(* The process dies or the database fails: nothing is committed.            *)
Crash(w) ==
    /\ phase[w] \in Holding \cup {"received"}
    /\ fault
    /\ finish(w)
    /\ UNCHANGED <<database, acked>>

Answer(w) ==
    /\ phase[w] = "answering"
    /\ acked' = acked \cup {event[w]}
    /\ finish(w)
    /\ UNCHANGED <<database, faults>>

LoseAnswer(w) ==
    /\ phase[w] = "answering"
    /\ fault
    /\ finish(w)
    /\ UNCHANGED <<database, acked>>

Progress(w) ==
    \/ Duplicate(w) \/ Claim(w) \/ Ignore(w) \/ Load(w) \/ Handle(w)
    \/ Commit(w) \/ Answer(w)

Next ==
    \E w \in Workers :
        \/ \E e \in Events : Deliver(w, e)
        \/ Progress(w)
        \/ Raise(w) \/ Crash(w) \/ LoseAnswer(w)

Spec == Init /\ [][Next]_billing

(* A request that is running goes on running. The provider retries what was *)
(* not answered 2xx; that the server has room for a request is true of the  *)
(* program and only sometimes of the bound Workers, hence strong fairness.  *)
Retry(e) == e \notin acked /\ \E w \in Workers : Deliver(w, e)

FairSpec ==
    /\ Spec
    /\ \A w \in Workers : WF_billing(Progress(w))
    /\ \A e \in Events : SF_billing(Retry(e))

-------------------------------------------------------------------------------
(* Properties                                                               *)

(* The variables keep their types, and only a request in progress is about  *)
(* an event.                                                                *)
BillingTypeOK ==
    /\ row \in Rows
    /\ receipt \in [Events -> {"none", "failed", "done"}]
    /\ phase \in [Workers -> Phases]
    /\ event \in [Workers -> Events \cup {None}]
    /\ \A w \in Workers : event[w] = None <=> phase[w] = "idle"
    /\ loaded \in [Workers -> Rows] /\ copy \in [Workers -> Rows]
    /\ acked \subseteq Events
    /\ applied \in [Events -> 0 .. 2]
    /\ faults \in 0 .. MaxFaults

(* "a duplicate has financial consequences": however an event is delivered, *)
(* concurrently, again after a crash, a 500 or a lost answer, its changes   *)
(* are committed at most once.                                              *)
AppliedOnce == \A e \in Events : applied[e] <= 1

(* What the provider will not send again is in the database, and what the   *)
(* database calls processed has been: a receipt says "done" only if the     *)
(* changes of its event are committed, or no handler or tenant was known.   *)
AckedIsRecorded ==
    /\ \A e \in acked : receipt[e] # "none"
    /\ \A e \in Stamped :
          receipt[e] = "done" /\ Kind[e] # "other" => applied[e] = 1

handled == {e \in Events : Kind[e] # "other"}

Inbox == INSTANCE EventInbox
    WITH Handled <- handled, Ours <- handled \cap Stamped,
         verdict <- receipt, effect <- applied, told <- acked

(* Requests, transactions and faults are nothing the provider could tell    *)
(* from an inbox that decides each event in one step: an event's changes    *)
(* and its receipt appear together and once, no later request alters them,  *)
(* and a 2xx is for what is decided.                                        *)
ImplementsInbox == Inbox!Spec

(* Every event is answered 2xx in the end: no crash, no lost answer and no  *)
(* race between two deliveries makes the provider give up the endpoint.     *)
EventuallyAcked == \A e \in Events : <>(e \in acked)

(* api/billing_routes.py: "Genuine handler failures are the exception:      *)
(* those return 500 so Stripe *does* retry." What is answered 2xx in the    *)
(* end has been processed.                                                  *)
AckedIsProcessed == \A e \in acked : receipt[e] = "done"

(* "_apply_remote, which refuses to go backwards": the time of the state    *)
(* applied never decreases.                                                 *)
NeverBackwards == [][row'.stamp >= row.stamp]_billing

===============================================================================
