----------------------------- MODULE BillingProofs -----------------------------
(* What BillingWebhooks promises of a receipt, for any events, any number of *)
(* requests at a time and any number of faults.                              *)
EXTENDS BillingWebhooks, TLAPS

(* Only one open transaction is about an event nobody has committed a        *)
(* receipt for: what the unique constraint of the table gives.               *)
OneHolder ==
    /\ \A w \in Workers :
          phase[w] \in Holding => receipt[event[w]] = "none"
    /\ \A v, w \in Workers :
          phase[v] \in Holding /\ phase[w] \in Holding /\ event[v] = event[w]
              => v = w

(* Changes are committed with the receipt, in one transaction.               *)
WithReceipt ==
    \A e \in Events :
       /\ receipt[e] = "none" => applied[e] = 0
       /\ applied[e] <= 1
       /\ e \in Stamped /\ receipt[e] = "done" /\ Kind[e] # "other" => applied[e] = 1

(* A 2xx is about to be answered only for what has a committed receipt.      *)
AnswersRecorded ==
    /\ \A w \in Workers : phase[w] = "answering" => receipt[event[w]] # "none"
    /\ \A e \in acked : receipt[e] # "none"

(* Only an event with a handler is taken past the claim.                     *)
HandledKinds ==
    \A w \in Workers : phase[w] \in {"loaded", "handled"} => Kind[event[w]] # "other"

IInv == BillingTypeOK /\ HandledKinds /\ OneHolder /\ WithReceipt /\ AnswersRecorded

-------------------------------------------------------------------------------
(* The handlers                                                             *)

(* Whatever row a handler is given, what it makes of it is a row.           *)
LEMMA OutcomesAreRows ==
    ASSUME NEW r \in Rows, NEW e \in Events, Kind[e] # "other",
           NEW q \in outcomes(r, e)
    PROVE  q \in Rows
<1> USE BillingAssumption
<1>1. Created[e] \in Nat /\ Remote[e] \in Statuses /\ Kind[e] \in Kinds
  BY DEF BillingAssumption
<1>2. ASSUME NEW s \in Rows, NEW st \in Statuses
      PROVE  apply_remote(s, e, st) \in Rows
  BY <1>1, <1>2 DEF apply_remote, Rows
<1>3. CASE Kind[e] = "checkout"
  <2>1. q \in on_checkout_completed(r, e)
    BY <1>3 DEF outcomes
  <2>2. [r EXCEPT !.linked = TRUE] \in Rows
    BY DEF Rows
  <2> QED BY <2>1, <2>2, <1>2, BillingAssumption DEF on_checkout_completed, BillingAssumption
<1>4. CASE Kind[e] = "changed"
  <2>1. q = apply_remote(r, e, Remote[e])
    BY <1>4 DEF outcomes
  <2> QED BY <2>1, <1>1, <1>2
<1>5. CASE Kind[e] = "deleted"
  <2>1. q = on_subscription_deleted(r, e)
    BY <1>5 DEF outcomes
  <2> QED BY <2>1, <1>1 DEF on_subscription_deleted, Rows, Statuses
<1>6. CASE Kind[e] = "paid"
  <2>1. q = on_invoice_paid(r)
    BY <1>6 DEF outcomes
  <2> QED BY <2>1 DEF on_invoice_paid, Rows, Statuses
<1>7. CASE Kind[e] = "failed"
  <2>1. q = on_invoice_failed(r)
    BY <1>7 DEF outcomes
  <2> QED BY <2>1 DEF on_invoice_failed, Rows, Statuses
<1> QED BY <1>1, <1>3, <1>4, <1>5, <1>6, <1>7 DEF Kinds

(* An UPDATE of some columns of a row leaves a row.                          *)
LEMMA WrittenIsARow ==
    ASSUME BillingTypeOK, NEW w \in Workers
    PROVE  written(w) \in Rows
BY DEF BillingTypeOK, Rows, written, changed

-------------------------------------------------------------------------------
(* The invariant                                                            *)

LEMMA InitIInv == Init => IInv
<1> SUFFICES ASSUME Init PROVE IInv
  OBVIOUS
<1>1. BillingTypeOK
  BY BillingAssumption DEF Init, BillingTypeOK, BillingAssumption, NewRow, Rows, Statuses, Phases
<1>2. HandledKinds /\ OneHolder /\ WithReceipt /\ AnswersRecorded
  BY DEF Init, HandledKinds, OneHolder, WithReceipt, AnswersRecorded, Holding
<1> QED BY <1>1, <1>2 DEF IInv

(* A request that goes on to another phase and commits nothing.             *)
LEMMA MovesKeepIInv ==
    ASSUME IInv, NEW w \in Workers, NEW e \in Events,
           Deliver(w, e) \/ Duplicate(w) \/ Claim(w) \/ Load(w) \/ Handle(w)
    PROVE  IInv'
<1> USE DEF IInv
<1>1. CASE Deliver(w, e)
  <2>1. BillingTypeOK'
    BY <1>1, BillingAssumption
    DEF Deliver, goes, database, BillingTypeOK, Phases, Holding, BillingAssumption
  <2>2. (HandledKinds /\ OneHolder /\ WithReceipt /\ AnswersRecorded)'
    BY <1>1 DEF Deliver, goes, database, BillingTypeOK, Holding, OneHolder,
                WithReceipt, AnswersRecorded, HandledKinds
  <2> QED BY <2>1, <2>2
<1>2. CASE Duplicate(w)
  <2>1. BillingTypeOK'
    BY <1>2 DEF Duplicate, goes, database, BillingTypeOK, Phases, Holding
  <2>2. (HandledKinds /\ OneHolder /\ WithReceipt /\ AnswersRecorded)'
    BY <1>2 DEF Duplicate, goes, database, BillingTypeOK, Holding, OneHolder,
                WithReceipt, AnswersRecorded, HandledKinds
  <2> QED BY <2>1, <2>2
<1>3. CASE Claim(w)
  <2>1. BillingTypeOK'
    BY <1>3 DEF Claim, goes, database, BillingTypeOK, Phases, Holding
  <2>2. OneHolder'
    BY <1>3 DEF Claim, goes, database, holders, BillingTypeOK, Phases, Holding, OneHolder
  <2>3. (HandledKinds /\ WithReceipt /\ AnswersRecorded)'
    BY <1>3 DEF Claim, goes, database, BillingTypeOK, WithReceipt, AnswersRecorded, HandledKinds
  <2> QED BY <2>1, <2>2, <2>3
<1>4. CASE Load(w)
  <2>1. BillingTypeOK'
    BY <1>4 DEF Load, goes, database, BillingTypeOK, Phases, Holding
  <2>2. (HandledKinds /\ OneHolder /\ WithReceipt /\ AnswersRecorded)'
    BY <1>4 DEF Load, goes, database, BillingTypeOK, Phases, Holding, OneHolder,
                WithReceipt, AnswersRecorded, HandledKinds
  <2> QED BY <2>1, <2>2
<1>5. CASE Handle(w)
  <2>1. PICK r \in outcomes(copy[w], event[w]) : copy' = [copy EXCEPT ![w] = r]
    BY <1>5 DEF Handle
  <2>2. event[w] \in Events /\ copy[w] \in Rows
    BY <1>5 DEF Handle, goes, BillingTypeOK
  <2>3. Kind[event[w]] # "other"
    BY <1>5 DEF Handle, goes, HandledKinds
  <2>4. r \in Rows
    BY <2>1, <2>2, <2>3, OutcomesAreRows
  <2>5. BillingTypeOK'
    BY <1>5, <2>1, <2>4 DEF Handle, goes, database, BillingTypeOK, Phases, Holding
  <2>6. (HandledKinds /\ OneHolder /\ WithReceipt /\ AnswersRecorded)'
    BY <1>5 DEF Handle, goes, database, BillingTypeOK, Phases, Holding, OneHolder,
                WithReceipt, AnswersRecorded, HandledKinds
  <2> QED BY <2>5, <2>6
<1> QED BY <1>1, <1>2, <1>3, <1>4, <1>5

(* A request that ends and commits nothing.                                  *)
LEMMA EndsKeepIInv ==
    ASSUME IInv, NEW w \in Workers, Crash(w) \/ Answer(w) \/ LoseAnswer(w)
    PROVE  IInv'
<1> USE DEF IInv
<1>1. finish(w) /\ UNCHANGED database /\ faults' \in 0 .. MaxFaults
  BY BillingAssumption
  DEF Crash, Answer, LoseAnswer, fault, BillingTypeOK, BillingAssumption
<1>2. acked' \subseteq Events /\ \A e \in acked' : receipt[e] # "none"
  BY DEF Crash, Answer, LoseAnswer, BillingTypeOK, AnswersRecorded, Holding
<1>3. BillingTypeOK'
  BY <1>1, <1>2, BillingAssumption
  DEF finish, database, BillingTypeOK, Phases, NewRow, Rows, Statuses, BillingAssumption
<1>4. (HandledKinds /\ OneHolder /\ WithReceipt /\ AnswersRecorded)'
  BY <1>1, <1>2
  DEF finish, database, BillingTypeOK, Holding, OneHolder, WithReceipt,
      AnswersRecorded, HandledKinds
<1> QED BY <1>3, <1>4

(* A request that commits its receipt: the one transaction open about its    *)
(* event, so the first to commit changes of it.                              *)
LEMMA CommitsKeepIInv ==
    ASSUME IInv, NEW w \in Workers, Ignore(w) \/ Commit(w) \/ Raise(w)
    PROVE  IInv'
<1> USE DEF IInv
<1> DEFINE e == event[w]
<1>1. phase[w] \in Holding /\ e \in Events /\ receipt[e] = "none" /\ applied[e] = 0
  BY DEF Ignore, Commit, Raise, goes, Holding, BillingTypeOK, OneHolder, WithReceipt
<1>2. \A v \in Workers \ {w} : phase[v] \in Holding => event[v] # e
  BY <1>1 DEF OneHolder
<1>3. CASE Ignore(w)
  <2>1. e \in Stamped => Kind[e] = "other"
    BY <1>3 DEF Ignore, attributed
  <2>2. BillingTypeOK'
    BY <1>1, <1>3 DEF Ignore, goes, BillingTypeOK, Phases, Holding
  <2>3. (HandledKinds /\ OneHolder)'
    BY <1>1, <1>2, <1>3
    DEF Ignore, goes, BillingTypeOK, Phases, Holding, HandledKinds, OneHolder
  <2>4. (WithReceipt /\ AnswersRecorded)'
    BY <1>1, <2>1, <1>3 DEF Ignore, goes, BillingTypeOK, WithReceipt, AnswersRecorded
  <2> QED BY <2>2, <2>3, <2>4
<1>4. CASE Commit(w)
  <2>1. /\ row' \in Rows
        /\ receipt' = [receipt EXCEPT ![e] = "done"]
        /\ applied' = [applied EXCEPT ![e] = 1]
    BY <1>1, <1>4, WrittenIsARow DEF Commit, settle, goes, BillingTypeOK
  <2>2. BillingTypeOK'
    BY <1>1, <1>4, <2>1 DEF Commit, goes, BillingTypeOK, Phases, Holding
  <2>3. (HandledKinds /\ OneHolder)'
    BY <1>1, <1>2, <1>4, <2>1
    DEF Commit, goes, BillingTypeOK, Phases, Holding, HandledKinds, OneHolder
  <2>4. (WithReceipt /\ AnswersRecorded)'
    BY <1>1, <1>4, <2>1 DEF Commit, goes, BillingTypeOK, WithReceipt, AnswersRecorded
  <2> QED BY <2>2, <2>3, <2>4
<1>5. CASE Raise(w)
  <2>1. /\ row' \in Rows
        /\ receipt' = [receipt EXCEPT ![e] = "failed"]
        /\ applied' = [applied EXCEPT ![e] = IF phase[w] = "handled" THEN 1 ELSE 0]
    BY <1>1, <1>5, WrittenIsARow DEF Raise, settle, BillingTypeOK
  <2>2. finish(w) /\ acked' = acked /\ faults' \in 0 .. MaxFaults
    BY <1>5, BillingAssumption DEF Raise, fault, BillingTypeOK, BillingAssumption
  <2>3. BillingTypeOK'
    BY <1>1, <2>1, <2>2, BillingAssumption
    DEF finish, BillingTypeOK, Phases, NewRow, Rows, Statuses, BillingAssumption
  <2>4. (HandledKinds /\ OneHolder)'
    BY <1>1, <1>2, <2>1, <2>2
    DEF finish, BillingTypeOK, Phases, Holding, HandledKinds, OneHolder
  <2>5. (WithReceipt /\ AnswersRecorded)'
    BY <1>1, <2>1, <2>2 DEF finish, BillingTypeOK, WithReceipt, AnswersRecorded
  <2> QED BY <2>3, <2>4, <2>5
<1> QED BY <1>3, <1>4, <1>5

LEMMA NextKeepsIInv == IInv /\ [Next]_billing => IInv'
<1> SUFFICES ASSUME IInv, [Next]_billing PROVE IInv'
  OBVIOUS
<1>1. CASE UNCHANGED billing
  BY <1>1 DEF billing, database, requests, IInv, BillingTypeOK, HandledKinds,
              OneHolder, WithReceipt, AnswersRecorded
<1>2. CASE Next
  <2>1. PICK w \in Workers :
          (\E e \in Events : Deliver(w, e)) \/ Progress(w)
              \/ Raise(w) \/ Crash(w) \/ LoseAnswer(w)
    BY <1>2 DEF Next
  <2>2. ASSUME NEW e \in Events, Deliver(w, e) PROVE IInv'
    BY <2>2, MovesKeepIInv
  <2>3. CASE Duplicate(w) \/ Claim(w) \/ Load(w) \/ Handle(w)
    <3>1. event[w] \in Events
      BY <2>3 DEF Duplicate, Claim, Load, Handle, goes, IInv, BillingTypeOK
    <3> QED BY <2>3, <3>1, MovesKeepIInv
  <2>4. CASE Ignore(w) \/ Commit(w) \/ Raise(w)
    BY <2>4, CommitsKeepIInv
  <2>5. CASE Answer(w) \/ Crash(w) \/ LoseAnswer(w)
    BY <2>5, EndsKeepIInv
  <2> QED BY <2>1, <2>2, <2>3, <2>4, <2>5 DEF Progress
<1> QED BY <1>1, <1>2

-------------------------------------------------------------------------------
(* The theorems                                                             *)

(* The invariant the three theorems rest on holds in every state.           *)
LEMMA InvariantHolds == Spec => []IInv
<1> QED BY InitIInv, NextKeepsIInv, PTL DEF Spec

(* Every state of the webhooks is of the types of the code's columns and    *)
(* phases, and only a request in progress is about an event.                *)
THEOREM Typed == Spec => []BillingTypeOK
<1>1. IInv => BillingTypeOK
  BY DEF IInv
<1> QED BY <1>1, InvariantHolds, PTL

(* However an event is delivered, concurrently, again after a crash, a 500  *)
(* or a lost answer, its changes are committed at most once: the receipt    *)
(* the unique constraint guards is committed with them.                     *)
THEOREM OnceOnly == Spec => []AppliedOnce
<1>1. IInv => AppliedOnce
  BY DEF IInv, WithReceipt, AppliedOnce
<1> QED BY <1>1, InvariantHolds, PTL

(* An event is answered 2xx only after its receipt is committed, and a      *)
(* receipt that says "done" of an event of ours is one whose changes are.   *)
THEOREM AnswersAreKept == Spec => []AckedIsRecorded
<1>1. IInv => AckedIsRecorded
  <2> SUFFICES ASSUME IInv PROVE AckedIsRecorded
    OBVIOUS
  <2>1. Stamped \subseteq Events
    BY BillingAssumption DEF BillingAssumption
  <2> QED BY <2>1 DEF IInv, WithReceipt, AnswersRecorded, AckedIsRecorded
<1> QED BY <1>1, InvariantHolds, PTL

-------------------------------------------------------------------------------
(* The inbox                                                                *)

(* Whoever commits decides: nobody has before, and nobody else is about to. *)
LEMMA CommitDecides ==
    ASSUME IInv, NEW w \in Workers, Ignore(w) \/ Commit(w) \/ Raise(w)
    PROVE  Inbox!Decide(event[w])
<1> DEFINE e == event[w]
<1>1. phase[w] \in Holding /\ e \in Events /\ receipt[e] = "none" /\ applied[e] = 0
  BY DEF Ignore, Commit, Raise, goes, Holding, IInv, BillingTypeOK, OneHolder, WithReceipt
<1>2. applied \in [Events -> 0 .. 2]
  BY DEF IInv, BillingTypeOK
<1>3. CASE Ignore(w)
  <2>1. e \notin handled \cap Stamped
    BY <1>3 DEF Ignore, attributed, handled
  <2>2. applied' = [applied EXCEPT ![e] = 0]
    BY <1>1, <1>2, <1>3 DEF Ignore
  <2>3. Inbox!Consistent(e, "done", 0)
    BY <2>1 DEF Inbox!Consistent
  <2> QED BY <1>1, <1>3, <2>2, <2>3 DEF Ignore, Inbox!Decide
<1>4. CASE Commit(w)
  <2>1. phase[w] = "handled" /\ e \in handled
    BY <1>1, <1>4 DEF Commit, goes, IInv, HandledKinds, handled
  <2>2. applied' = [applied EXCEPT ![e] = 1]
    BY <1>1, <1>4, <2>1 DEF Commit, settle
  <2>3. Inbox!Consistent(e, "done", 1)
    BY <2>1 DEF Inbox!Consistent
  <2> QED BY <1>1, <1>4, <2>2, <2>3 DEF Commit, settle, Inbox!Decide
<1>5. CASE Raise(w)
  <2>1. e \in handled
    BY <1>1, <1>5 DEF Raise, IInv, HandledKinds, handled
  <2>2. PICK n \in {0, 1} : applied' = [applied EXCEPT ![e] = n]
    <3>1. CASE phase[w] = "handled"
      BY <1>1, <1>5, <3>1 DEF Raise, settle
    <3>2. CASE phase[w] # "handled"
      BY <1>1, <1>5, <3>2 DEF Raise, settle
    <3> QED BY <3>1, <3>2
  <2>3. Inbox!Consistent(e, "failed", n)
    BY <2>1 DEF Inbox!Consistent
  <2> QED BY <1>1, <1>5, <2>2, <2>3 DEF Raise, settle, Inbox!Decide
<1> QED BY <1>3, <1>4, <1>5

LEMMA AnswerAcknowledges ==
    ASSUME IInv, NEW w \in Workers, Answer(w)
    PROVE  event[w] \in Events /\ Inbox!Acknowledge(event[w])
BY DEF IInv, BillingTypeOK, AnswersRecorded, Answer, database, Inbox!Acknowledge

LEMMA OthersStutter ==
    ASSUME NEW w \in Workers, NEW e,
           \/ Deliver(w, e) \/ Duplicate(w) \/ Claim(w) \/ Load(w) \/ Handle(w)
           \/ Crash(w) \/ LoseAnswer(w)
    PROVE  UNCHANGED Inbox!inbox
BY DEF Deliver, Duplicate, Claim, Load, Handle, Crash, LoseAnswer, database, Inbox!inbox

LEMMA StepIsInboxStep == IInv /\ [Next]_billing => [Inbox!Next]_Inbox!inbox
<1> SUFFICES ASSUME IInv, [Next]_billing PROVE [Inbox!Next]_Inbox!inbox
  OBVIOUS
<1>1. CASE UNCHANGED billing
  BY <1>1 DEF billing, database, Inbox!inbox
<1>2. ASSUME NEW w \in Workers, Ignore(w) \/ Commit(w) \/ Raise(w) PROVE Inbox!Next
  <2>1. event[w] \in Events
    BY <1>2 DEF Ignore, Commit, Raise, goes, IInv, BillingTypeOK
  <2> QED BY <1>2, <2>1, CommitDecides DEF Inbox!Next
<1>3. ASSUME NEW w \in Workers, Answer(w) PROVE Inbox!Next
  BY <1>3, AnswerAcknowledges DEF Inbox!Next
<1>4. ASSUME NEW w \in Workers, \E e \in Events : Deliver(w, e)
      PROVE  UNCHANGED Inbox!inbox
  BY <1>4, OthersStutter
<1>5. ASSUME NEW w \in Workers,
             Duplicate(w) \/ Claim(w) \/ Load(w) \/ Handle(w) \/ Crash(w) \/ LoseAnswer(w)
      PROVE  UNCHANGED Inbox!inbox
  BY <1>5, OthersStutter
<1> QED BY <1>1, <1>2, <1>3, <1>4, <1>5 DEF Next, Progress

(* However requests interleave, crash and repeat, the endpoint is an inbox  *)
(* that decides every event in one step, with its changes and for good, and *)
(* acknowledges only what it has decided.                                   *)
THEOREM WebhooksImplementInbox == Spec => ImplementsInbox
<1>1. Init => Inbox!Init
  BY DEF Init, Inbox!Init
<1> QED BY <1>1, StepIsInboxStep, InvariantHolds, PTL DEF Spec, ImplementsInbox, Inbox!Spec
===============================================================================
