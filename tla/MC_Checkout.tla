----------------------------- MODULE MC_Checkout -----------------------------
(* Checkout with a person who edits a few times while it is read.              *)
EXTENDS Checkout
=============================================================================
