------------------------------ MODULE MCOperator ------------------------------
(* A small instance of Operator for TLC: the smoke script alone grants the    *)
(* permission, so that requests before it are refused and later ones decided  *)
(* by a quota of one.                                                         *)
EXTENDS Operator
=============================================================================
