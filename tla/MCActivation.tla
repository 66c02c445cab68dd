--------------------------- MODULE MCActivation ---------------------------
(* The instance of Activation for TLC. *)
EXTENDS Activation

CONSTANTS r1, r2
=============================================================================
