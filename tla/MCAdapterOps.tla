---------------------------- MODULE MCAdapterOps ----------------------------
(* Small instances of AdapterOps for TLC. *)
EXTENDS AdapterOps, TLC

NoRoute == [provider |-> "none", complete |-> FALSE, native |-> FALSE,
            value |-> 0, sells |-> 0, deadline |-> NoDeadline]
Route0x(sells, deadline) ==
  [NoRoute EXCEPT !.provider = "0x", !.complete = TRUE, !.sells = sells,
                  !.deadline = deadline]

Dispatch(action, amount, route) ==
  [action |-> action, valid |-> TRUE, chain |-> "base-sepolia",
   asset |-> "USDC", amount |-> amount, route |-> route]

Transfer == Dispatch("transfer", 1, NoRoute)
Swap(sells) == Dispatch("swap", 2, Route0x(sells, NoDeadline))
Deposit == Dispatch("morpho_deposit", 1, NoRoute)

(* Two plans among a transfer, a swap whose router pulls less than it is   *)
(* allowed, one that wants more, and a deposit.                            *)
RacingBodies == {Transfer, Swap(1), Swap(3), Deposit}

(* Everything a handler checks, one check failing at a time. *)
CheckedBodies ==
  {Transfer, Deposit,
   [Transfer EXCEPT !.valid = FALSE], [Transfer EXCEPT !.asset = "DAI"],
   [Deposit EXCEPT !.chain = "base"],
   Dispatch("swap", 2, Route0x(2, 1)), Dispatch("swap", 0, Route0x(2, 1)),
   [Swap(2) EXCEPT !.chain = "base"], [Swap(2) EXCEPT !.asset = "DAI"],
   Dispatch("swap", 2, NoRoute), [Swap(2) EXCEPT !.route.native = TRUE],
   [Swap(2) EXCEPT !.route.complete = FALSE],
   [Swap(2) EXCEPT !.route.value = 1]}

OneTransfer == {Transfer}
OneSwap == {Dispatch("swap", 2, Route0x(1, 1))}

PlanSymmetry == Permutations(Plans)
=============================================================================
