---------------------------- MODULE MCPartyIndex ----------------------------
(* Instances of PartyIndex for TLC. *)
EXTENDS PartyIndex
=============================================================================
