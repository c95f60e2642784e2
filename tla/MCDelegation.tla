--------------------------- MODULE MCDelegation ---------------------------
(* A source mission of one step, two requests, receipts with two revisions *)
(* and a crash of either instance.                                         *)
EXTENDS DelegationProperties

CONSTANT s1

MCSteps == {s1}
===========================================================================
