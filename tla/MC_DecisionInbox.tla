-------------------------- MODULE MC_DecisionInbox --------------------------
(* Instances of DecisionInbox for TLC.                                         *)
EXTENDS DecisionInbox
=============================================================================
