--------------------------- MODULE MCBillingWebhooks ---------------------------
(* Two sets of four events, which between them are of every kind.           *)
EXTENDS BillingWebhooks

MCEvents == 1 .. 4

(* The subscription is bought and changed; the failed payment carries no    *)
(* tenant id of ours and is attributed only once we are linked.             *)
KindOf == <<"checkout", "changed", "failed", "other">>
CreatedAt == <<1, 2, 2, 3>>
StateOf == <<"incomplete", "active", "incomplete", "incomplete">>
WithTenant == {1, 2}

(* A payment fails and succeeds; the subscription ends.                     *)
EndingKindOf == <<"changed", "failed", "paid", "deleted">>
================================================================================
