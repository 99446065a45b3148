---------------------------- MODULE MCDeliveryCursor ----------------------------
(* Invocations of one pair do the same things.  Only safety is checked.    *)
EXTENDS DeliveryCursor, TLC

SameInvocations == Permutations(Invocations)
===============================================================================
