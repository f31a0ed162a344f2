---------------------------- MODULE MCReconcile ----------------------------
(* A small instance of Reconcile for TLC: every request is refused for want *)
(* of a permission, which the script cannot tell from an admission.         *)
EXTENDS Reconcile
=============================================================================
