-------------------------- MODULE DispatchReports --------------------------
(***************************************************************************)
(* What the chain adapter promises about one dispatch request, without     *)
(* saying how: the control plane is told "broadcast" at most once and      *)
(* before any outcome, it is told one outcome at most, "confirmed" and     *)
(* "reverted" only of an operation whose broadcast it was told, and the    *)
(* dispatch is acknowledged (202) only when its outcome has been told.     *)
(* This is the callback lifecycle that chain_adapter/src/chains/base/      *)
(* {transfer,swap,morpho_deposit}.ts announce in their headers.            *)
(*                                                                         *)
(* AdapterOps implements this module.                                      *)
(***************************************************************************)
CONSTANT Dispatches  \* dispatch requests

VARIABLES told,   \* dispatch -> the last thing the control plane was told
          answer  \* dispatch -> how its HTTP request ended

reportVars == <<told, answer>>

Outcomes == {"confirmed", "reverted", "aborted"}

ReportsInit ==
  /\ told = [d \in Dispatches |-> "nothing"]
  /\ answer = [d \in Dispatches |-> "open"]

Tell(d, kind) ==
  /\ answer[d] = "open"
  /\ \/ kind = "broadcast" /\ told[d] = "nothing"
     \/ kind \in {"confirmed", "reverted"} /\ told[d] = "broadcast"
     \/ kind = "aborted" /\ told[d] \in {"nothing", "broadcast"}
  /\ told' = [told EXCEPT ![d] = kind]

(* A callback arrives and the dispatch goes on, ends well, or ends badly   *)
(* because its answer is lost on the way back.                             *)
TellAndAnswer(d, kind) ==
  /\ Tell(d, kind)
  /\ \/ UNCHANGED answer
     \/ answer' = [answer EXCEPT ![d] = "failed"]
     \/ kind \in Outcomes /\ answer' = [answer EXCEPT ![d] = "accepted"]

(* Open dispatches end badly at any time: one that is refused or fails, or *)
(* all of them when the process restarts.                                  *)
FailSome ==
  /\ told' = told
  /\ answer' \in [Dispatches -> {"open", "accepted", "failed"}]
  /\ \A d \in Dispatches :
       answer'[d] # answer[d] => answer[d] = "open" /\ answer'[d] = "failed"

ReportsNext ==
  \/ \E d \in Dispatches, kind \in Outcomes \cup {"broadcast"} :
       TellAndAnswer(d, kind)
  \/ FailSome

ReportsSpec == ReportsInit /\ [][ReportsNext]_reportVars
=============================================================================
