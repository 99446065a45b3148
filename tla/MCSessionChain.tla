---------------------------- MODULE MCSessionChain ----------------------------
(* MCOwner: pairs of one session each.                                     *)
EXTENDS SessionChain

CONSTANTS k1, k2, k3, s1, s2, s3

MCOwner == [s \in Sessions |-> CASE s = s1 -> k1 [] s = s2 -> k2 [] s = s3 -> k3]
===============================================================================
