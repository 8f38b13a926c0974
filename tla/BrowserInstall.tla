---------------------------- MODULE BrowserInstall ----------------------------
(***************************************************************************)
(* Installing a session permission from the browser: the click, the        *)
(* wallet, the envelope, the user operation, and the attestations Phoenix  *)
(* takes from the page.  Sources: assets/js/hooks/                         *)
(* session_permission_install.js, install_zerodev_client.js and            *)
(* install_envelope_client.js; what the server does with a request is      *)
(* lib/bank/session_permissions/browser_install.ex, what the page shows is *)
(* lib/bank_web/live/agent_live.ex.                                        *)
(*                                                                         *)
(* Every click starts beginInstall, and nothing stops a second one while   *)
(* the first waits.  A step of a click is what happens between two awaits; *)
(* in between the wallet, the binding and the pause may change.  An answer *)
(* may be lost after the server or the bundler has acted on the request.   *)
(*                                                                         *)
(* The wallet is the one getProvider() returned; the button is rendered by *)
(* the agent page with a binding and its address.  An install is known by  *)
(* its click: each builds one user operation of its own.  The workers      *)
(* behind a pending row are one step here, and in detail in Delegations.   *)
(* The reason of a failure is kept where it is reported to Phoenix; the    *)
(* words of the events, and the page's for them, are left out.             *)
(***************************************************************************)
EXTENDS Naturals, Sequences, FiniteSets, SequencesExt

CONSTANTS Clicks,       \* clicks on the install button
          Bound,        \* the address of the binding
          Exposures,    \* sequences of accounts the wallet may expose
          MaxActs,      \* bound on changes by the user and the operator
          MaxQueue,     \* events the page may be behind
          None

ASSUME InstallAssumption ==
  /\ \A e \in Exposures : e \in Seq(Range(e))
  /\ <<Bound>> \in Exposures /\ None # Bound
  /\ MaxActs \in Nat /\ MaxQueue \in Nat \ {0}

VARIABLES wallet,      \* the accounts it exposes and its chain
          binding,     \* "verified" or "revoked"
          paused,      \* the runtime or the workspace is paused
          call,        \* beginInstall, one per click
          op,          \* the user operation of a click
          row,         \* the delegation of a click
          attested,    \* clicks whose confirmation Phoenix recorded
          toServer,    \* events pushed by the page, in order
          ui,          \* assigns of the agent page
          left         \* what is left of MaxActs

vars == <<wallet, binding, paused, call, op, row, attested,
          toServer, ui, left>>

-----------------------------------------------------------------------------
Steps == {"idle", "accounts", "chain", "envelope", "request", "balance",
          "build", "enable", "sign", "send", "post", "receipt", "confirm",
          "report", "over"}

(* A call: the step it waits at, the account of the operation, why it      *)
(* failed, and whether the failure it reports names the operation.         *)
Idle == [step |-> "idle", account |-> None, reason |-> None, named |-> FALSE]

Event(name, c) == [event |-> name, click |-> c]

TypeOK ==
  /\ wallet \in [accounts : Exposures, chain : {"base_sepolia", "base"}]
  /\ binding \in {"verified", "revoked"} /\ paused \in BOOLEAN
  /\ \A c \in Clicks : call[c].step \in Steps /\ call[c].named \in BOOLEAN
  /\ op \in [Clicks -> {"none", "mempool", "landed", "reverted"}]
  /\ row \in [Clicks -> {"none", "pending", "active", "install_failed"}]
  /\ attested \subseteq Clicks
  /\ \A i \in DOMAIN toServer : toServer[i].click \in Clicks
  /\ ui.install \in {"idle", "awaiting", "submitted", "confirmed", "failed",
                     "wrong_chain"}
  /\ ui.permission \in {"not_installed", "installing", "active", "failed"}
  /\ left \in 0..MaxActs

-----------------------------------------------------------------------------
(* Errors and the words the page has for them. *)

(* What can go wrong with a request to the wallet, the chain RPC, the      *)
(* bundler or, through Phoenix, the session signer.                        *)
classifySendError(e) ==
  CASE e = "declined" -> "user_rejected"
    [] e = "funds"    -> "insufficient_funds"
    [] e = "chain"    -> "chain_id_mismatch"
    [] e = "network"  -> "bundler_unavailable"
    [] e = "refused"  -> "bundler_rejected"
    [] e = "other"    -> "unknown"

classifyReceiptError(e) ==
  CASE e = "network" -> "bundler_unavailable"
    [] e = "timeout" -> "attestation_timeout"
    [] e = "other"   -> "unknown"

(* The signer's error carries its category as a string in err.code, and    *)
(* classifySendError reads numbers there and words in the message.         *)
SignerError(e) == IF e = "network" THEN "network" ELSE "other"

-----------------------------------------------------------------------------
(* What the server answers. *)

CheckBinding == binding = "verified" /\ ~paused

Live(c) == row[c] \in {"pending", "active"}

(* One live row per smart account. *)
Submits(c) == CheckBinding /\ (Live(c) \/ \A d \in Clicks : ~Live(d))

Confirms(c) == CheckBinding /\ row[c] = "pending"

-----------------------------------------------------------------------------
(* The agent page. *)

(* The state of the live delegation, None if there is none.                *)
FindDelegation(rs) ==
  LET live == {c \in Clicks : rs[c] \in {"pending", "active"}}
  IN  IF live = {} THEN None ELSE rs[CHOOSE c \in live : TRUE]

PermissionState(delegation, install) ==
  IF delegation = "active" THEN "active"
  ELSE IF delegation = "pending" THEN "installing"
  ELSE IF install = "idle" THEN "not_installed"
  ELSE IF install \in {"awaiting", "submitted", "confirmed"} THEN "installing"
  ELSE "failed"

Recompute(state, delegation) ==
  [install |-> state, delegation |-> delegation,
   permission |-> IF binding = "revoked" THEN "not_installed"
                  ELSE PermissionState(delegation, state)]

Init ==
  /\ wallet = [accounts |-> <<Bound>>, chain |-> "base_sepolia"]
  /\ binding = "verified" /\ paused = FALSE
  /\ call = [c \in Clicks |-> Idle]
  /\ op = [c \in Clicks |-> "none"] /\ row = [c \in Clicks |-> "none"]
  /\ attested = {} /\ toServer = <<>>
  /\ ui = [install |-> "idle", delegation |-> None,
           permission |-> "not_installed"]
  /\ left = MaxActs

-----------------------------------------------------------------------------
(* beginInstall.  Goes, Fails and Reports are the ends of a step.          *)

world == <<wallet, binding, paused, ui, left>>

Goes(c, step) == call' = [call EXCEPT ![c].step = step]

Push(event) ==
  Len(toServer) < MaxQueue /\ toServer' = Append(toServer, event)

Stops(c, event) ==
  call' = [call EXCEPT ![c] = [Idle EXCEPT !.step = "over"]] /\ Push(event)

Fails(c) == Stops(c, Event("failed", c))

(* The failure is posted first; the page hears of it afterwards. *)
Reports(c, reason, named) ==
  /\ call' = [call EXCEPT ![c] = [Idle EXCEPT !.step = "report",
                                              !.reason = reason,
                                              !.named = named]]
  /\ UNCHANGED toServer

Quiet == UNCHANGED <<op, row, attested>> /\ UNCHANGED world

(* The button is shown while the permission can be installed.  LiveView    *)
(* pushes phx-click's permission:install for the same click.               *)
Click(c) ==
  /\ call[c].step = "idle"
  /\ ui.permission \in {"not_installed", "failed"}
  /\ binding = "verified"
  /\ Goes(c, "accounts")
  /\ Push(Event("install", c))
  /\ Quiet

(* A request that throws leaves no account. *)
PreflightAccounts(c) ==
  /\ call[c].step = "accounts"
  /\ \E exposed \in {wallet.accounts, <<>>} :
       \/ exposed = <<>> /\ Fails(c)
       \/ /\ exposed # <<>> /\ Bound \notin Range(exposed)
          /\ Fails(c)
       \/ /\ Bound \in Range(exposed)
          /\ Goes(c, "chain") /\ UNCHANGED toServer
  /\ Quiet

(* Mutant of PreflightChain: what readChainId throws is not caught.        *)
PreflightChainUncaught(c) ==
  /\ call[c].step = "chain"
  /\ \/ wallet.chain # "base_sepolia" /\ Stops(c, Event("wrong_chain", c))
     \/ /\ wallet.chain = "base_sepolia"
        /\ Goes(c, "envelope") /\ UNCHANGED toServer
     \/ Goes(c, "over") /\ UNCHANGED toServer
  /\ Quiet

PreflightChain(c) ==
  /\ call[c].step = "chain"
  /\ \/ wallet.chain # "base_sepolia" /\ Stops(c, Event("wrong_chain", c))
     \/ /\ wallet.chain = "base_sepolia"
        /\ Goes(c, "envelope") /\ UNCHANGED toServer
     \/ Fails(c)
  /\ Quiet

(* Refused, also because the operator's own account would be derived, or   *)
(* lost, or without the address of a bundler: the call fails.              *)
FetchInstallEnvelope(c) ==
  /\ call[c].step = "envelope"
  /\ \/ Fails(c)
     \/ CheckBinding /\ Goes(c, "request") /\ UNCHANGED toServer
  /\ Quiet

(* The first account of the answer.  A wallet that exposes none asks its   *)
(* user, whose consent is a ChangeWallet.                                  *)
RequestAccounts(c) ==
  /\ call[c].step = "request"
  /\ \/ /\ wallet.accounts # <<>>
        /\ call' = [call EXCEPT ![c].step = "balance",
                                ![c].account = Head(wallet.accounts)]
        /\ UNCHANGED toServer
     \/ Fails(c)
  /\ Quiet

PreflightBalance(c) ==
  /\ call[c].step = "balance"
  /\ \/ Reports(c, "insufficient_funds", FALSE)
     \/ Fails(c)
     \/ Goes(c, "build") /\ Push(Event("awaiting", c))
  /\ Quiet

-----------------------------------------------------------------------------
(* submitInstall: its failures become reports. *)

(* The validators and the account are built with reads of the chain.       *)
BuildAccount(c) ==
  /\ call[c].step = "build"
  /\ \/ \E e \in {"network", "other"} : Reports(c, classifySendError(e), FALSE)
     \/ Goes(c, "enable") /\ UNCHANGED toServer
  /\ Quiet

(* The wallet signs the enable data as the account of the operation.       *)
SignEnable(c) ==
  /\ call[c].step = "enable"
  /\ \/ Reports(c, classifySendError("declined"), FALSE)
     \/ /\ wallet.chain # "base_sepolia"
        /\ Reports(c, classifySendError("chain"), FALSE)
     \/ /\ wallet.chain = "base_sepolia"
        /\ call[c].account \in Range(wallet.accounts)
        /\ Goes(c, "sign") /\ UNCHANGED toServer
  /\ Quiet

(* The session signer is asked through Phoenix, which wants a verified     *)
(* binding and does not look at the pause.                                 *)
SignSessionPortion(c) ==
  /\ call[c].step = "sign"
  /\ \/ \E e \in {"network", "unavailable", "refused"} :
          Reports(c, classifySendError(SignerError(e)), FALSE)
     \/ binding = "verified" /\ Goes(c, "send") /\ UNCHANGED toServer
  /\ Quiet

Broadcasts(c) == op' = [op EXCEPT ![c] = "mempool"]

(* The bundler may take an operation whose answer is lost. *)
SendUserOperation(c) ==
  /\ call[c].step = "send"
  /\ \/ \E e \in {"funds", "refused", "network"} :
          Reports(c, classifySendError(e), FALSE) /\ UNCHANGED op
     \/ Broadcasts(c) /\ Reports(c, classifySendError("network"), FALSE)
     \/ Broadcasts(c) /\ Goes(c, "post") /\ UNCHANGED toServer
  /\ UNCHANGED <<row, attested>> /\ UNCHANGED world

-----------------------------------------------------------------------------
(* The attestations. *)

Records(c) ==
  row' = [row EXCEPT ![c] = IF @ = "none" THEN "pending" ELSE @]

(* Mutant of PostSubmitted: the page goes on whatever the answer is. *)
PostSubmittedLenient(c) ==
  /\ call[c].step = "post"
  /\ IF Submits(c) THEN Records(c) ELSE UNCHANGED row
  /\ Goes(c, "receipt") /\ Push(Event("submitted", c))
  /\ UNCHANGED <<op, attested>> /\ UNCHANGED world

(* A refusal, or a request or an answer that is lost: the page gives up.   *)
PostSubmitted(c) ==
  /\ call[c].step = "post"
  /\ \/ Submits(c) /\ Records(c) /\ Goes(c, "receipt")
        /\ Push(Event("submitted", c))
     \/ Submits(c) /\ Records(c) /\ Fails(c)
     \/ UNCHANGED row /\ Fails(c)
  /\ UNCHANGED <<op, attested>> /\ UNCHANGED world

(* Mutant of WaitForReceipt: nothing ends the wait but a receipt. *)
WaitForReceiptForever(c) ==
  /\ call[c].step = "receipt"
  /\ \/ op[c] = "landed" /\ Goes(c, "confirm") /\ UNCHANGED toServer
     \/ op[c] = "reverted" /\ Reports(c, "userop_reverted", TRUE)
  /\ Quiet

(* After 45 seconds the page stops waiting; the operation may still land.  *)
WaitForReceipt(c) ==
  /\ call[c].step = "receipt"
  /\ \/ op[c] = "landed" /\ Goes(c, "confirm") /\ UNCHANGED toServer
     \/ op[c] = "reverted" /\ Reports(c, "userop_reverted", TRUE)
     \/ \E e \in {"network", "timeout"} :
          Reports(c, classifyReceiptError(e), TRUE)
  /\ Quiet

Attests(c) == attested' = attested \cup {c}

PostConfirmed(c) ==
  /\ call[c].step = "confirm"
  /\ \/ Confirms(c) /\ Attests(c) /\ Stops(c, Event("confirmed", c))
     \/ Confirms(c) /\ Attests(c) /\ Fails(c)
     \/ UNCHANGED attested /\ Fails(c)
  /\ UNCHANGED <<op, row>> /\ UNCHANGED world

(* Lenient: lost or refused, the page is told all the same.  With the hash *)
(* of the operation its row is marked, whatever its state.                 *)
PostFailure(c) ==
  /\ call[c].step = "report"
  /\ \/ /\ CheckBinding /\ call[c].named /\ row[c] # "none"
        /\ row' = [row EXCEPT ![c] = "install_failed"]
     \/ UNCHANGED row
  /\ Fails(c)
  /\ UNCHANGED <<op, attested>> /\ UNCHANGED world

-----------------------------------------------------------------------------
(* The chain, and the workers behind a pending row. *)

Settle(c) ==
  /\ op[c] = "mempool"
  /\ \E s \in {"landed", "reverted"} : op' = [op EXCEPT ![c] = s]
  /\ UNCHANGED <<call, row, attested, toServer>> /\ UNCHANGED world

(* The poller finds the receipt, the verifier the permission; or they give *)
(* up, also when they could not read the chain.                            *)
Workers(c) ==
  /\ row[c] = "pending"
  /\ \E s \in {"active", "install_failed"} :
       (s = "active" => op[c] = "landed") /\ row' = [row EXCEPT ![c] = s]
  /\ UNCHANGED <<call, op, attested, toServer>> /\ UNCHANGED world

-----------------------------------------------------------------------------
(* The page takes the events one by one. *)

(* Mutant of Handled: phx-click sets a state of its own. *)
HandledRaw(e) == Recompute(e.event, FindDelegation(row))

Handled(e) ==
  CASE e.event \in {"install", "awaiting"} ->
         Recompute("awaiting", ui.delegation)
    [] e.event = "wrong_chain" -> Recompute("wrong_chain", ui.delegation)
    [] OTHER -> Recompute(e.event, FindDelegation(row))

Handle ==
  /\ toServer # <<>>
  /\ ui' = Handled(Head(toServer))
  /\ toServer' = Tail(toServer)
  /\ UNCHANGED <<wallet, binding, paused, call, op, row, attested,
                 left>>

(* The polls after a confirmation and the broadcasts of the workers. *)
Refresh ==
  /\ ui.delegation # FindDelegation(row)
  /\ ui' = Recompute(ui.install, FindDelegation(row))
  /\ UNCHANGED <<wallet, binding, paused, call, op, row, attested,
                 toServer, left>>

-----------------------------------------------------------------------------
(* The user and the operator. *)

Act ==
  /\ left > 0 /\ left' = left - 1
  /\ UNCHANGED <<op, row, attested>>

(* Connect, disconnect, pick another account or network in the wallet. *)
ChangeWallet ==
  /\ Act
  /\ wallet' \in [accounts : Exposures, chain : {"base_sepolia", "base"}]
  /\ wallet' # wallet
  /\ UNCHANGED <<binding, paused, call, toServer, ui>>

(* wallet_connect:disconnect; the card shows nothing installed. *)
Disconnect ==
  /\ Act
  /\ binding = "verified" /\ binding' = "revoked"
  /\ ui' = [ui EXCEPT !.install = "idle", !.permission = "not_installed"]
  /\ UNCHANGED <<wallet, paused, call, toServer>>

Pause ==
  /\ Act
  /\ paused' = ~paused
  /\ UNCHANGED <<wallet, binding, call, toServer, ui>>

(* The calls of the page that goes are lost, and so are its events. *)
Reload ==
  /\ Act
  /\ call' = [c \in Clicks |->
               IF call[c].step = "idle" THEN Idle
               ELSE [Idle EXCEPT !.step = "over"]]
  /\ toServer' = <<>>
  /\ ui' = Recompute("idle", FindDelegation(row))
  /\ UNCHANGED <<wallet, binding, paused>>

Progress(c) ==
  \/ PreflightAccounts(c) \/ PreflightChain(c) \/ FetchInstallEnvelope(c)
  \/ RequestAccounts(c) \/ PreflightBalance(c) \/ BuildAccount(c)
  \/ SignEnable(c) \/ SignSessionPortion(c) \/ SendUserOperation(c)
  \/ PostSubmitted(c) \/ WaitForReceipt(c) \/ PostConfirmed(c)
  \/ PostFailure(c)

Next ==
  \/ \E c \in Clicks : Click(c) \/ Progress(c) \/ Settle(c) \/ Workers(c)
  \/ Handle \/ Refresh
  \/ ChangeWallet \/ Disconnect \/ Pause \/ Reload

Spec == Init /\ [][Next]_vars

(* The wallet, the bundler and Phoenix answer, if only with an error, and  *)
(* the page takes its events.  Nothing is asked of the chain: the wait for *)
(* a receipt has an end of its own.                                        *)
FairSpec ==
  Spec /\ WF_vars(\E c \in Clicks : Progress(c)) /\ WF_vars(Handle)

(* And the workers end, and the page hears of what they did. *)
FairWorkersSpec ==
  FairSpec /\ WF_vars(\E c \in Clicks : Workers(c)) /\ WF_vars(Refresh)

-----------------------------------------------------------------------------
(* Correctness. *)

Under == {c \in Clicks : call[c].step \notin {"idle", "over"}}

(* The strict gates: the page hears "submitted" only of an operation whose *)
(* row Phoenix has, and "confirmed" only of one that landed and whose      *)
(* confirmation Phoenix has taken.                                         *)
AcceptedBeforeShown ==
  \A i \in DOMAIN toServer :
    LET c == toServer[i].click
    IN  /\ toServer[i].event = "submitted" => row[c] # "none"
        /\ toServer[i].event = "confirmed" =>
              c \in attested /\ op[c] = "landed"

(* The card never waits for nothing: while it shows an install under way,  *)
(* with no delegation loaded, there is a call that will tell it more, an   *)
(* event on its way, or the page was told "submitted" or "confirmed".      *)
AwaitingIsBacked ==
  ui.install = "awaiting" /\ ui.permission = "installing"
    /\ ui.delegation = None
    => Under # {} \/ toServer # <<>>

(* Every click is answered: the call ends, whatever becomes of its         *)
(* operation, unless the wallet's user leaves the page.                    *)
ClickAnswered ==
  \A c \in Clicks : call[c].step # "idle" ~> call[c].step = "over"

-----------------------------------------------------------------------------
(* What the code does not guarantee: each is refuted by a configuration. *)

(* The comment on step 8 of the hook: the attestation guarantees a pending *)
(* row before the tab closes.  Between the bundler's answer and the        *)
(* attestation the tab closes, the pause comes, or another install is      *)
(* live; or the bundler's answer is lost.                                  *)
AnchoredRow ==
  \A c \in Clicks :
    call[c].step = "over" /\ op[c] \in {"mempool", "landed"} => row[c] # "none"

(* The preflight compares the exposed accounts with the bound one, to      *)
(* catch the case where the operator switched accounts; the operation is   *)
(* built for the first account the wallet lists.                           *)
SignedByBound ==
  \A c \in Clicks :
    call[c].step \in {"sign", "send", "post", "receipt", "confirm"}
      => call[c].account = Bound

(* The session signer's failures are to reach the page by their own names. *)
SignerFailureNamed ==
  [][\A c \in Clicks :
       call[c].step = "sign" /\ call'[c].step = "report" =>
         call'[c].reason \in {"session_signer_unavailable",
                              "session_signer_refused"}]_vars

(* An install that failed is shown as failed.  After a confirmation the    *)
(* page falls back on "confirmed" when the row is no longer listed.        *)
FailureShown ==
  ui.permission = "installing" ~> ui.permission # "installing"
=============================================================================
