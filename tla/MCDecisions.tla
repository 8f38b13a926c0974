---------------------------- MODULE MCDecisions -----------------------------
(* Small instances of Decisions for TLC. *)
EXTENDS Decisions
=============================================================================
