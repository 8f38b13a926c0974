------------------------ MODULE DelegationLifecycle -------------------------
(***************************************************************************)
(* The state machine the documentation gives the delegations of one smart  *)
(* account (lib/bank/delegations/delegation.ex, "State machine";           *)
(* lib/bank/delegations.ex: ":revoked is terminal; a new grant produces a  *)
(* new record").  At most one delegation is not yet over, only what was    *)
(* being revoked is ever revoked, and what is over stays over.             *)
(*                                                                         *)
(* Delegations implements this module when every delegation is granted     *)
(* through the adapter.                                                    *)
(***************************************************************************)
EXTENDS Naturals, Sequences

VARIABLE history   \* the states of the account's delegations, oldest first

Over == {"revoked", "expired", "install_failed"}

LiveOnes == {d \in DOMAIN history : history[d] \notin Over}

LifecycleInit == history = <<>>

Granted(state) ==
  /\ LiveOnes = {}
  /\ history' = Append(history, state)

Moves(from, to) ==
  \E d \in DOMAIN history : /\ history[d] \in from
                            /\ history' = [history EXCEPT ![d] = to]

LifecycleNext ==
  \/ Granted("active")
  \/ Granted("pending")
  \/ Moves({"pending"}, "active")
  \/ Moves({"pending"}, "install_failed")
  \/ Moves({"pending", "active", "revoke_failed"}, "revoking")
  \/ Moves({"revoking"}, "revoke_failed")
  \/ Moves({"revoking"}, "revoked")
  \/ Moves({"active"}, "expired")

LifecycleSpec == LifecycleInit /\ [][LifecycleNext]_history
=============================================================================
