---------------------------- MODULE MCRedisBroker -----------------------------
(* One replica, a message of its own or of others at each place.           *)
EXTENDS RedisBroker, TLC

CONSTANTS m1, m2

TwoMsgs == {m1, m2}
=============================================================================
