----------------------------- MODULE MCLifecycle ----------------------------
(***************************************************************************)
(* Every dependency graph over three components, cyclic ones included.     *)
(***************************************************************************)
EXTENDS Lifecycle

ThreeComponents == 1..3
=============================================================================
