------------------------- MODULE MCKernelAuthority -------------------------
(* Environments for KernelAuthority: the one the operator means, and the   *)
(* ways to get it wrong that the programs are meant to catch.              *)
EXTENDS KernelAuthority, TLC

CONSTANTS operator, session

MCEOAs == {operator, session}

Intended == [address |-> operator, key |-> operator, index |-> Absent,
             chain |-> "84532", rpc |-> Sepolia, bundler |-> Sepolia,
             account |-> <<operator, 0>>, session |-> session]

WrongLabel == [Intended EXCEPT !.chain = "absent", !.bundler = Mainnet]
(* One key in both roles. Only the adapter reads a chain like this one's. *)
Conflated == [Intended EXCEPT !.session = operator, !.chain = "84532abc"]
SecondAccount == [Intended EXCEPT !.index = 1, !.account = <<operator, 1>>]

ProvisionSymmetry == Permutations(Provisions)

SafetyEnvs == {Intended, WrongLabel, Conflated}
IntendedEnvs == {Intended}
TwoAccountEnvs == {Intended, SecondAccount}

Of(policies) == [signer |-> session, policies |-> policies]

Block(id, policies) ==
  [permission_id |-> id, validation_id |-> id, package_version |-> "pinned",
   session_signer_address |-> session, policies |-> policies]

(* A row of an earlier install, of another package and without a signer. *)
OldBlock == {[Block(Of({"sudo"}), {"sudo"}) EXCEPT
                !.package_version = "other", !.session_signer_address = None]}

(* And one of the session's key under another policy. *)
MCStored == OldBlock \cup {Block(Of({"call"}), {"call"})}

(* A row whose id is of one permission and whose blob is of another. *)
WrongBlock == {Block(Of({"sudo"}), {"call"})}
=============================================================================
