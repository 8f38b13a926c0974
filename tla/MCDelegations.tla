--------------------------- MODULE MCDelegations ----------------------------
(* Small instances of Delegations for TLC. *)
EXTENDS Delegations
=============================================================================
