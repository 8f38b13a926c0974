--------------------------- MODULE BindingLifecycle ---------------------------
(***************************************************************************)
(* What a wallet binding promises, whatever browser, hook and page do: the *)
(* lifecycle in the documentation of                                       *)
(* lib/bank/wallet_bindings/wallet_binding.ex.  A challenge is pending     *)
(* until it is verified or too old; only a verified one can be revoked;    *)
(* a revoked one and an expired one stay what they are.                    *)
(***************************************************************************)
EXTENDS Naturals

CONSTANT Rows
VARIABLE state

Init == state = [r \in Rows |-> "none"]

Moves(from, to) ==
  \E r \in Rows : state[r] = from /\ state' = [state EXCEPT ![r] = to]

(* Time makes every pending challenge too old at once. *)
Expire ==
  state' = [r \in Rows |-> IF state[r] = "pending" THEN "expired"
                                                   ELSE state[r]]

Next ==
  \/ Moves("none", "pending")
  \/ Moves("pending", "verified")
  \/ Moves("verified", "revoked")
  \/ Expire

Spec == Init /\ [][Next]_state
=============================================================================
