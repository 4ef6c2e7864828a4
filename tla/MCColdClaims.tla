---------------------------- MODULE MCColdClaims ----------------------------
(* ColdClaims for TLC: every request reads every slot.                     *)
EXTENDS ColdClaims

AllWanted == [r \in Requests |-> Slots]
=============================================================================
