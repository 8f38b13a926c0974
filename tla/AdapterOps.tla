----------------------------- MODULE AdapterOps -----------------------------
(***************************************************************************)
(* The operations the chain adapter executes: ERC-20 transfers, 0x swaps   *)
(* and Morpho deposits, from the HTTP dispatch to the ledger of the smart  *)
(* account.  Sources: chain_adapter/src/app.ts, dispatch/{transfer,swap,   *)
(* morpho_deposit}.ts, chains/base/{transfer,swap,morpho_deposit,userop,   *)
(* client}.ts, callbacks/client.ts, config/{chains,assets}.ts.             *)
(*                                                                         *)
(* Requests run concurrently in one process and interleave at their        *)
(* awaits: the nonce is read in one step, gas and fees in a second, the    *)
(* operation is submitted in a third.  Nothing serialises two requests.    *)
(* A user operation is identified by its hash, a function of the account's *)
(* nonce, the fees and the calls; two plans with the same body can build   *)
(* the same operation.                                                     *)
(*                                                                         *)
(* PlanExecution models what the control plane makes of the callbacks;     *)
(* here the control plane is the environment that posts dispatches.        *)
(***************************************************************************)
EXTENDS Naturals, Sequences, FiniteSets, FiniteSetsExt, SequencesExt

CONSTANTS Plans,      \* execution plans
          MaxPosts,   \* bound: how often the control plane posts a plan
          Bodies,     \* dispatch bodies a plan may have
          Headers,    \* Authorization headers a dispatch may come with
          Fees,       \* fees estimateFeesPerGas may return
          Funds,      \* the account's balance of the token at the start
          Horizon,    \* bound on the clock
          ChainIds,   \* chain ids an endpoint may report
          MaxFaults,  \* bound: lost callbacks, restarts
          None        \* no body, no operation, no report

Actions == {"transfer", "swap", "morpho_deposit"}
NoDeadline == Horizon + 1

Route == [provider : {"none", "0x", "other"}, complete : BOOLEAN,
          native : BOOLEAN, value : Nat, sells : Nat,
          deadline : 0..NoDeadline]
Body == [action : Actions, valid : BOOLEAN, chain : STRING, asset : STRING,
         amount : Nat, route : Route]
Op == [body : Bodies, chain : ChainIds, nonce : Nat, fee : Fees]

ASSUME BodiesAssumption == \A b \in Bodies : b \in Body
ASSUME AdapterBounds ==
  /\ MaxPosts \in Nat /\ Funds \in Nat /\ Horizon \in Nat /\ MaxFaults \in Nat
  /\ Fees \subseteq Nat
ASSUME NoneAssumption == None \notin Bodies /\ None \notin Op

VARIABLES body,     \* plan -> what it dispatches
          server,   \* is the process serving, with which chain clients
          req,      \* request -> its handler
          reports,  \* callbacks the control plane received
          mempool,  \* operations the bundler holds
          landed,   \* operations included, with their outcome
          ledger,   \* the smart account's token, allowances and shares
          now,      \* the clock
          faults    \* bound left

chainVars == <<mempool, landed, ledger>>
vars == <<body, server, req, reports, mempool, landed, ledger, now, faults>>

-----------------------------------------------------------------------------
Requests == Plans \X (1..MaxPosts)
BodyOf(d) == body[d[1]]

Reasons == {"none", "clients", "envelope", "build", "rejected", "mismatch",
            "confirmation", "reverted", "empty"}
Report == [request : Requests,
           kind : {"broadcast", "confirmed", "reverted", "aborted"},
           reason : Reasons, op : Op \cup {None}, spent : Nat]

Idle == [pc |-> "unposted", header |-> None, nonce |-> 0, op |-> None,
         report |-> None, reply |-> "none"]
Replies == {"none", "202", "400", "401", "422", "500", "502"}
Running == {"handling", "building", "estimating", "signed", "waiting",
            "sending"}

(* clients: a production process always has them, test ones may not. The   *)
(* configured chain id, and what the RPC and the bundler endpoint report.  *)
Servers == [up : BOOLEAN, clients : BOOLEAN, configured : ChainIds,
            rpc : ChainIds, bundler : ChainIds]

TypeOK ==
  /\ body \in [Plans -> Bodies \cup {None}]
  /\ server \in Servers
  /\ \A d \in Requests :
       /\ req[d].pc \in Running \cup {"unposted", "done", "lost"}
       /\ req[d].header \in Headers \cup {None}
       /\ req[d].nonce \in Nat
       /\ req[d].op = None \/ req[d].op \in Op
       /\ req[d].report = None \/ req[d].report \in Report
       /\ req[d].reply \in Replies
  /\ \A r \in reports : r \in Report
  /\ \A o \in mempool : o \in Op
  /\ \A l \in landed : l.op \in Op /\ l.ok \in BOOLEAN /\ l.moved \in Nat
  /\ ledger \in [ok : BOOLEAN, token : Nat, router : Nat, vault : Nat,
                 shares : Nat]
  /\ now \in 0..Horizon
  /\ faults \in 0..MaxFaults

Init ==
  /\ body = [p \in Plans |-> None]
  /\ server \in {s \in Servers : ~s.up}
  /\ req = [d \in Requests |-> Idle]
  /\ reports = {}
  /\ mempool = {}
  /\ landed = {}
  /\ ledger = [ok |-> TRUE, token |-> Funds, router |-> 0, vault |-> 0,
               shares |-> 0]
  /\ now = 0
  /\ faults = MaxFaults

-----------------------------------------------------------------------------
(* The calls an operation makes from the smart account. *)

EncodeErc20Transfer(amount) ==
  [does |-> "transfer", spender |-> "none", amount |-> amount]
EncodeErc20Approve(spender, amount) ==
  [does |-> "approve", spender |-> spender, amount |-> amount]
EncodeErc4626Deposit(amount) ==
  [does |-> "deposit", spender |-> "vault", amount |-> amount]
RouterCall(route) ==
  [does |-> "swap", spender |-> "router", amount |-> route.sells]

BuildTransferCallData(b) == <<EncodeErc20Transfer(b.amount)>>

(* Mutant of BuildSwapBatchCallData: an unlimited approval. *)
BuildSwapUnlimited(b) ==
  <<EncodeErc20Approve("router", Funds + 1), RouterCall(b.route)>>

(* approve(spender, input amount), then the router's calldata, which sells *)
(* what the route says and not what the dispatch says.                     *)
BuildSwapBatchCallData(b) ==
  <<EncodeErc20Approve("router", b.amount), RouterCall(b.route)>>

BuildMorphoDepositBatchCallData(b) ==
  <<EncodeErc20Approve("vault", b.amount), EncodeErc4626Deposit(b.amount)>>

CallsOf(b) ==
  CASE b.action = "transfer" -> BuildTransferCallData(b)
    [] b.action = "swap" -> BuildSwapBatchCallData(b)
    [] b.action = "morpho_deposit" -> BuildMorphoDepositBatchCallData(b)

(* What the token, the router and the vault do with a call. *)
Fits(l, c) ==
  /\ c.does # "approve" => c.amount <= l.token
  /\ c.does = "swap" => c.amount <= l.router
  /\ c.does = "deposit" => c.amount <= l.vault

Effect(l, c) ==
  IF ~(l.ok /\ Fits(l, c)) THEN [l EXCEPT !.ok = FALSE] ELSE
  CASE c.does = "transfer" -> [l EXCEPT !.token = @ - c.amount]
    [] c.does = "approve" /\ c.spender = "router" ->
         [l EXCEPT !.router = c.amount]
    [] c.does = "approve" /\ c.spender = "vault" ->
         [l EXCEPT !.vault = c.amount]
    [] c.does = "swap" ->
         [l EXCEPT !.token = @ - c.amount, !.router = @ - c.amount]
    [] c.does = "deposit" ->
         [l EXCEPT !.token = @ - c.amount, !.vault = @ - c.amount,
                   !.shares = @ + c.amount]

(* execute and executeBatch: all of the calls or none of them. *)
ExecuteBatch(l, calls) == FoldLeft(Effect, l, calls)

NextNonce == Cardinality(landed)

-----------------------------------------------------------------------------
(* The handler of a request. *)

Step(d, row) ==
  /\ req' = [req EXCEPT ![d] = row]
  /\ UNCHANGED <<body, server, now>>

Finish(d, status) == [req[d] EXCEPT !.pc = "done", !.reply = status]

(* The request goes on to send a callback and stops there until it is sent. *)
Sending(d, kind, reason, spent) ==
  [req[d] EXCEPT !.pc = "sending",
     !.report = [request |-> d, kind |-> kind, reason |-> reason,
                 op |-> IF kind = "aborted" THEN None ELSE req[d].op,
                 spent |-> spent]]

Abort(d, reason) == Sending(d, "aborted", reason, 0)

(* Base and Base Sepolia. *)
SelectBaseChain(id) == id \in {8453, 84532}

AssertBaseChainIdentity(s) ==
  s.rpc = s.configured /\ s.bundler = s.configured

StartServer ==
  /\ ~server.up
  /\ server.clients =>
       SelectBaseChain(server.configured) /\ AssertBaseChainIdentity(server)
  /\ server' = [server EXCEPT !.up = TRUE]
  /\ UNCHANGED <<body, req, reports, chainVars, now, faults>>

(* The control plane posts a dispatch; a repeated one has the same body.   *)
Post(d) ==
  /\ server.up
  /\ req[d].pc = "unposted"
  /\ d[2] > 1 => req[<<d[1], d[2] - 1>>].pc # "unposted"
  /\ \E h \in Headers :
       req' = [req EXCEPT ![d].pc = "handling", ![d].header = h]
  /\ IF BodyOf(d) = None
       THEN \E b \in Bodies : body' = [body EXCEPT ![d[1]] = b]
       ELSE UNCHANGED body
  /\ UNCHANGED <<server, reports, chainVars, now, faults>>

VerifyDispatchAuth(d) == req[d].header = "bearer"

RefuseCaller(d) ==
  /\ req[d].pc = "handling"
  /\ ~VerifyDispatchAuth(d)
  /\ Step(d, Finish(d, "401"))
  /\ UNCHANGED <<reports, chainVars, faults>>

IsSupportedChain(b) == b.chain \in {"base", "base-sepolia"}
IsSupportedSwapChain(b) == b.chain = "base-sepolia"
IsSupportedMorphoDepositChain(b) == b.chain = "base-sepolia"
IsSupportedAsset(b) == b.asset = "USDC"
HasSwapDecimals(b) == b.asset \in {"USDC", "USDT", "ETH", "WETH"}

(* The shared end of the three handlers' checks: a malformed body is a     *)
(* 400, an unsupported chain or asset a 422; neither reports anything.     *)
Handles(d, action) ==
  /\ req[d].pc = "handling"
  /\ VerifyDispatchAuth(d)
  /\ BodyOf(d).action = action
  /\ UNCHANGED <<reports, chainVars, faults>>

Checked(d, supported, row) ==
  \/ ~BodyOf(d).valid /\ Step(d, Finish(d, "400"))
  \/ BodyOf(d).valid /\ ~supported /\ Step(d, Finish(d, "422"))
  \/ BodyOf(d).valid /\ supported /\ Step(d, row)

Building(d) == [req[d] EXCEPT !.pc = "building"]

(* A transfer does not ask whether there are clients: without them it      *)
(* fails on a null reference and nothing is reported.                      *)
HandleTransferDispatch(d) ==
  /\ Handles(d, "transfer")
  /\ Checked(d, IsSupportedChain(BodyOf(d)) /\ IsSupportedAsset(BodyOf(d)),
             IF server.clients THEN Building(d) ELSE Finish(d, "500"))

CheckSwapEnvelope(b, t) ==
  /\ b.route.provider = "0x"
  /\ b.route.complete
  /\ ~b.route.native
  /\ HasSwapDecimals(b)
  /\ t < b.route.deadline
  /\ b.amount > 0
  /\ b.route.value = 0

HandleSwapDispatch(d) ==
  /\ Handles(d, "swap")
  /\ Checked(d, IsSupportedChain(BodyOf(d)) /\ IsSupportedSwapChain(BodyOf(d)),
             CASE ~server.clients -> Abort(d, "clients")
               [] server.clients /\ ~CheckSwapEnvelope(BodyOf(d), now) ->
                    Abort(d, "envelope")
               [] OTHER -> Building(d))

HandleMorphoDepositDispatch(d) ==
  /\ Handles(d, "morpho_deposit")
  /\ Checked(d, /\ IsSupportedChain(BodyOf(d))
                /\ IsSupportedMorphoDepositChain(BodyOf(d))
                /\ IsSupportedAsset(BodyOf(d)),
             IF server.clients THEN Building(d) ELSE Abort(d, "clients"))

-----------------------------------------------------------------------------
(* Executing a request: build, submit, tell, wait, tell. *)

Executes(d, action) == req[d].pc \in Running /\ BodyOf(d).action = action

(* buildAndSignUserOp reads the account's nonce from the EntryPoint, ...   *)
ReadNonce(d) ==
  /\ req[d].pc = "building"
  /\ Step(d, [req[d] EXCEPT !.pc = "estimating", !.nonce = NextNonce])
  /\ UNCHANGED <<reports, chainVars, faults>>

(* ... then the fees and the gas, hashes the operation and signs it. *)
SignUserOp(d) ==
  /\ req[d].pc = "estimating"
  /\ \E f \in Fees :
       Step(d, [req[d] EXCEPT !.pc = "signed",
                  !.op = [body |-> BodyOf(d), chain |-> server.configured,
                          nonce |-> req[d].nonce, fee |-> f]])
  /\ UNCHANGED <<reports, chainVars, faults>>

BuildFails(d) ==
  /\ req[d].pc \in {"building", "estimating"}
  /\ Step(d, Abort(d, "build"))
  /\ UNCHANGED <<reports, chainVars, faults>>

BuildAndSignUserOp(d) == ReadNonce(d) \/ SignUserOp(d) \/ BuildFails(d)

(* The bundler keeps one operation per nonce, the one that pays most, and  *)
(* takes one it already holds for the same.                                *)
BundlerTakes(o) ==
  /\ o.nonce >= NextNonce
  /\ \A m \in mempool : m.nonce = o.nonce /\ m # o => m.fee < o.fee
  /\ mempool' = {m \in mempool : m.nonce # o.nonce} \cup {o}

KnownOps == mempool \cup {l.op : l \in landed}

(* Mutant of TrackedOp: the bundler's hash is adopted. *)
TrackedOpOfBundler(local, returned) == {returned}

(* The operation the callbacks will name: the local one, provided the      *)
(* bundler names the same.                                                 *)
TrackedOp(local, returned) == {local} \cap {returned}

(* sendUserOperation: the bundler answers with a hash, refuses, or takes   *)
(* the operation while its answer is lost.                                 *)
Submit(d) ==
  /\ req[d].pc = "signed"
  /\ \/ /\ BundlerTakes(req[d].op)
        /\ \E h \in KnownOps \cup {req[d].op} :
             \/ \E o \in TrackedOp(req[d].op, h) :
                  Step(d, [Sending(d, "broadcast", "none", 0) EXCEPT
                             !.op = o, !.report.op = o])
             \/ TrackedOp(req[d].op, h) = {} /\ Step(d, Abort(d, "mismatch"))
     \/ BundlerTakes(req[d].op) /\ Step(d, Abort(d, "rejected"))
     \/ UNCHANGED mempool /\ Step(d, Abort(d, "rejected"))
  /\ UNCHANGED <<reports, landed, ledger, faults>>

ReceiptsOf(o) == {l \in landed : l.op = o}

(* Mutant of GiveUp: the wait for a receipt has no end. *)
GiveUpNever(d) == FALSE

(* Waiting fails after a while, also when the operation can still land. *)
GiveUp(d) ==
  /\ req[d].pc = "waiting"
  /\ Step(d, Abort(d, "confirmation"))
  /\ UNCHANGED <<reports, chainVars, faults>>

(* The report of an operation that succeeded, and of one that did not. *)
ReportSuccess(d) ==
  /\ req[d].pc = "waiting"
  /\ \E l \in ReceiptsOf(req[d].op) : l.ok
  /\ Step(d, Sending(d, "confirmed", "none", BodyOf(d).amount))
  /\ UNCHANGED <<reports, chainVars, faults>>

ReportRevert(d, reasons) ==
  /\ req[d].pc = "waiting"
  /\ \E l \in ReceiptsOf(req[d].op) : ~l.ok
  /\ \E reason \in reasons : Step(d, Sending(d, "reverted", reason, 0))
  /\ UNCHANGED <<reports, chainVars, faults>>

(* The reason a transfer or a swap gives is the bundler's, if it has one,  *)
(* also when it is the empty string; a deposit's is fixed.                 *)
ReceiptReasons == {"reverted", "empty"}

(* The stages of the three executions; what differs are the calls          *)
(* (CallsOf), what a success reports as spent, and a revert's reason.      *)
TransferSends(d) ==
  Executes(d, "transfer") /\ (BuildAndSignUserOp(d) \/ Submit(d))

TransferEnds(d) ==
  /\ Executes(d, "transfer")
  /\ ReportSuccess(d) \/ ReportRevert(d, ReceiptReasons) \/ GiveUp(d)

SwapSends(d) == Executes(d, "swap") /\ (BuildAndSignUserOp(d) \/ Submit(d))

SwapEnds(d) ==
  /\ Executes(d, "swap")
  /\ ReportSuccess(d) \/ ReportRevert(d, ReceiptReasons) \/ GiveUp(d)

MorphoDepositSends(d) ==
  Executes(d, "morpho_deposit") /\ (BuildAndSignUserOp(d) \/ Submit(d))

MorphoDepositEnds(d) ==
  /\ Executes(d, "morpho_deposit")
  /\ ReportSuccess(d) \/ ReportRevert(d, {"reverted"}) \/ GiveUp(d)

(* A callback must pass its own schema: a reason is never empty. *)
SelfValid(r) == r.reason # "empty"

(* Mutant of AfterReport: the request is answered with the callback's kind. *)
AfterReportNamed(d) ==
  IF req[d].report.kind = "broadcast" THEN [req[d] EXCEPT !.pc = "waiting"]
                                      ELSE Finish(d, req[d].report.kind)

(* What follows a callback that the control plane took. *)
AfterReport(d) ==
  CASE req[d].report.kind = "broadcast" -> [req[d] EXCEPT !.pc = "waiting"]
    [] req[d].report.kind \in {"confirmed", "reverted"} -> Finish(d, "202")
    [] req[d].report.kind = "aborted" ->
         Finish(d, IF req[d].report.reason \in {"clients", "envelope"}
                     THEN "202" ELSE "502")

(* Mutant of CallbackFails: a failed callback is passed over. *)
CallbackShrugged(d) ==
  /\ req[d].pc = "sending"
  /\ SelfValid(req[d].report) => faults > 0 /\ faults' = faults - 1
  /\ ~SelfValid(req[d].report) => UNCHANGED faults
  /\ UNCHANGED reports
  /\ Step(d, AfterReport(d))
  /\ UNCHANGED chainVars

CallbackDelivered(d) ==
  /\ req[d].pc = "sending"
  /\ SelfValid(req[d].report)
  /\ reports' = reports \cup {req[d].report}
  /\ Step(d, AfterReport(d))
  /\ UNCHANGED <<chainVars, faults>>

(* send throws: an invalid payload, a refusal of the control plane, or a   *)
(* call that is lost on its way there or back.  The request ends there.    *)
CallbackFails(d) ==
  /\ req[d].pc = "sending"
  /\ \/ ~SelfValid(req[d].report) /\ UNCHANGED <<reports, faults>>
     \/ /\ SelfValid(req[d].report)
        /\ faults > 0
        /\ faults' = faults - 1
        /\ reports' \in {reports, reports \cup {req[d].report}}
  /\ Step(d, Finish(d, "502"))
  /\ UNCHANGED chainVars

Handler(d) ==
  \/ RefuseCaller(d)
  \/ HandleTransferDispatch(d)
  \/ HandleSwapDispatch(d)
  \/ HandleMorphoDepositDispatch(d)
  \/ TransferSends(d) \/ TransferEnds(d)
  \/ SwapSends(d) \/ SwapEnds(d)
  \/ MorphoDepositSends(d) \/ MorphoDepositEnds(d)
  \/ CallbackDelivered(d) \/ CallbackFails(d)

-----------------------------------------------------------------------------
(* The world around the requests. *)

(* The next operation of the account is included: its calls all take       *)
(* effect, or none does (they do not fit, or the market has moved).        *)
Land(o) ==
  /\ o \in mempool
  /\ o.nonce = NextNonce
  /\ mempool' = {m \in mempool : m.nonce > o.nonce}
  /\ LET after == ExecuteBatch(ledger, CallsOf(o.body))
     IN \/ /\ after.ok
           /\ ledger' = after
           /\ landed' = landed \cup {[op |-> o, ok |-> TRUE,
                                      moved |-> ledger.token - after.token]}
        \/ /\ UNCHANGED ledger
           /\ landed' = landed \cup {[op |-> o, ok |-> FALSE, moved |-> 0]}
  /\ UNCHANGED <<body, server, req, reports, now, faults>>

(* The process restarts, with the same endpoints: requests are in memory   *)
(* only.                                                                   *)
Restart ==
  /\ server.up
  /\ faults > 0
  /\ faults' = faults - 1
  /\ req' = [d \in Requests |->
               IF req[d].pc \in Running THEN [req[d] EXCEPT !.pc = "lost"]
                                        ELSE req[d]]
  /\ UNCHANGED <<body, server, reports, chainVars, now>>

Tick ==
  /\ now < Horizon
  /\ now' = now + 1
  /\ UNCHANGED <<body, server, req, reports, chainVars, faults>>

Next ==
  \/ \E d \in Requests : Post(d) \/ Handler(d)
  \/ \E o \in mempool : Land(o)
  \/ StartServer
  \/ Restart
  \/ Tick

Spec == Init /\ [][Next]_vars

(* The event loop serves every request that is not waiting for the world;  *)
(* calls to the chain, the bundler and the control plane time out.         *)
FairSpec == Spec /\ \A d \in Requests : WF_vars(Handler(d))

-----------------------------------------------------------------------------
(* Properties. *)

(* What was asked for by the dispatches of these operations. *)
Asked(operations) == MapThenSumSet(LAMBDA l : l.op.body.amount, operations)

(* What a plan's operations moved out of the account and what the router   *)
(* and the vault may still pull are together no more than the plans whose  *)
(* operation landed asked for: approvals are bounded and batched           *)
(* (chains/base/userop.ts, buildSwapBatchCallData).                        *)
SpendBounded ==
  Funds + ledger.router + ledger.vault
    <= ledger.token + Asked({l \in landed : l.ok})

(* An outcome told to the control plane is the outcome of an operation     *)
(* with the plan's own calls, and "confirmed" never understates what left  *)
(* the account, whatever the bundler answered and however many requests of *)
(* whichever plans raced for the same nonce.                               *)
ReportsOwnOp ==
  \A r \in reports : r.kind \in {"confirmed", "reverted"} =>
    \E l \in landed :
      /\ l.op = r.op
      /\ l.op.body = BodyOf(r.request)
      /\ l.ok <=> r.kind = "confirmed"
      /\ l.ok => l.moved <= r.spent

(* What the control plane was told of a request, and how it was answered.  *)
Told(d) ==
  LET kinds == {r.kind : r \in {x \in reports : x.request = d}}
  IN IF kinds \subseteq {"broadcast"}
       THEN IF kinds = {} THEN "nothing" ELSE "broadcast"
       ELSE CHOOSE k \in kinds : k # "broadcast"

Answer(d) ==
  CASE req[d].reply = "202" -> "accepted"
    [] req[d].reply = "none" /\ req[d].pc # "lost" -> "open"
    [] OTHER -> "failed"

Promise == INSTANCE DispatchReports
             WITH Dispatches <- Requests,
                  told <- [d \in Requests |-> Told(d)],
                  answer <- [d \in Requests |-> Answer(d)]

(* Every step of the handlers, their awaits interleaved with the chain,    *)
(* lost callbacks and restarts, is a step of the promised lifecycle.       *)
ImplementsReports == Promise!ReportsSpec

(* Every posted dispatch is answered unless the process goes away; nothing *)
(* in a request waits for ever (dispatch/transfer.ts awaits the whole      *)
(* execution before it answers).                                           *)
DispatchAnswered ==
  \A d \in Requests :
    req[d].pc = "handling" ~> req[d].pc \in {"done", "lost"}

-----------------------------------------------------------------------------
(* What the code does not guarantee, with the states that show it. *)

(* "The user-op hash IS the identity that the control tower, the bundler   *)
(* RPC, and the operator use to look up the operation later"               *)
(* (chains/base/userop.ts): two plans that are confirmed are confirmed by  *)
(* two operations.  Two plans with the same body that read the same nonce  *)
(* and fees build one operation, and both are confirmed by it.             *)
ConfirmedApart ==
  \A r, s \in reports :
    r.kind = "confirmed" /\ s.kind = "confirmed" /\ r.request[1] # s.request[1]
      => r.op # s.op

(* "A chain: base envelope therefore fails closed ... rather than silently *)
(* broadcasting a mainnet swap UserOperation" (dispatch/swap.ts): no swap  *)
(* and no deposit lands on mainnet.  Only the envelope's label is looked   *)
(* at, never the chain the process is configured for.                      *)
BatchesOnTestnet ==
  \A l \in landed : l.op.body.action # "transfer" => l.op.chain = 84532

(* A swap is submitted before its route's deadline: the deadline is looked *)
(* at once, before the nonce, the fees and the gas are awaited.            *)
SubmittedInTime ==
  [][\A o \in mempool' \ mempool :
       o.body.action = "swap" => now < o.body.route.deadline]_vars

(* An operation that reverted is reported: an empty reason from the        *)
(* bundler fails the callback's own schema and nothing is sent.            *)
RevertsReported ==
  \A d \in Requests :
    req[d].report # None /\ req[d].report.kind = "reverted"
      => req[d].reply # "502" \/ faults < MaxFaults

(* A confirmed swap reports what it moved, not what it was asked for.      *)
SwapReportsExact ==
  \A r \in reports : r.kind = "confirmed" =>
    \A l \in ReceiptsOf(r.op) : l.moved = r.spent
=============================================================================
