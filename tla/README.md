# CryptoKorr in TLA+

TLA+ modules, TLC configurations and TLAPS proofs about the control plane of
CryptoKorr (`lib/bank`, Elixir) and its chain adapter (`chain_adapter`,
TypeScript). An agent submits an *intent* to move stablecoins; the control
plane *evaluates* it into a *decision envelope* (execute, ask, hold or block);
an approved decision becomes an *execution plan* that a background job hands to
the adapter; the adapter sends an ERC-4337 user operation from a smart account
whose *delegation* (a session permission) allows it, and reports back through
callbacks. The account is deployed by operator scripts, its owner's wallet is
bound to the workspace in the browser, and the delegation is installed from
there or by the adapter. Operators can approve, reject, cancel, abort, pause
and revoke at any of these moments. The modules are about those moments.

## 1. Inventory

### 1.1 Components

| Component | State | Operations | Hard parts |
|---|---|---|---|
| Plan execution: `decisions.ex` (1386–2735), `run_execution.ex`, adapter `dispatch/transfer.ts` | `execution_plans` rows (status, active), the intent's state, Oban jobs with attempts, HTTP requests, user operations | create, load, gate, claim, dispatch, revert, abort, callbacks | claim races, a 5 s HTTP timeout under a handler that goes on, retries, late and lost callbacks, stale structs |
| Decisions: `decisions.ex` (190–1385), `evaluate_intent.ex`, `expire_approval.ex` | `decision_envelopes` (current, superseded), the intent's state and pointer | evaluate, re-evaluate, approve, reject, expire, dispatch automatically or by hand | everything is read before the transaction, nothing about the intent is read again in it |
| Delegations: `delegations.ex`, `security.ex`, adapter `dispatch/{grant,revoke}.ts` | `delegations` rows of one account, the adapter's in-flight sets, what is installed on chain | grant, request revoke, revoke job, callbacks | fire-and-forget runs in the adapter, callbacks that arrive late or never, restarts |
| Browser install: `browser_install.ex`, `poll_install_receipt.ex`, `verify_install_onchain.ex` | the same rows | prepare, attest (submitted, confirmed, failed), poll, verify | the browser, the poller and the verifier write the same row unlocked |
| Install page: `assets/js/hooks/{session_permission_install,install_zerodev_client,install_envelope_client}.js`, `agent_live.ex` | one asynchronous call per click, the wallet, the assigns of the page | preflight, envelope, sign, send, attest, wait for the receipt | everything may change at each `await`; the answer to a request that was carried out can be lost |
| Wallet binding: `assets/js/wallet_provider.js`, `hooks/wallet_connect.js`, `agent_live.ex`, `wallet_bindings.ex` | registry of wallets, the selection in `localStorage`, `wallet_bindings` rows, assigns | announce, select, scan, connect, probe, challenge, sign, verify, disconnect | overlapping probes and scans, events in flight both ways, reloads |
| Adapter operations: `dispatch/*.ts`, `chains/base/{transfer,swap,morpho_deposit,userop}.ts` | requests in one process, the account's nonce, the bundler's mempool, the account's ledger | check, read the nonce, fees and gas, sign, submit, wait, report | no lock around the nonce; a callback that fails ends the handler |
| The account's authority: `scripts/{provision-kernel,verify-installed-validator}.ts`, `config/index.ts`, `chains/base/{client,grant,revoke,uninstall_validation}.ts` | the account's code, root validator, owner and permissions on each chain; the adapter's configuration | deploy, check, start, install, uninstall | programs run by hand in hand-written environments, twice, in any order; operations that land late |
| Intake: `intents.ex` | `agent_intents`, idempotency key and payload hash | submit, simulate, cancel | enqueue after commit, two idempotency keys |
| Safety controls: `security.ex`, `security/pause_state.ex`, `security/pauses.ex` | an in-memory switch, persisted scope pauses with an expiry | pause, resume, sweep, revoke | pause against a dispatch under way, restart, expired rows not yet swept |
| Jobs: `runtime.ex`, `runtime/workers/*` | Oban rows | enqueue, retry, snooze, cancel | at-least-once execution, a dead node's job is not rescued |
| Policies: `policies.ex`, `policies/versions.ex` | rules, versioned rule lists | draft, publish, roll back, revise, archive | the two write paths lock different rows |
| Autonomy and trust: `autonomy.ex`, `trust_engine.ex` | none | pure functions of the evaluation's inputs | precedence |
| Notifications: `notifications/*` | inbox rows, deliveries with attempts | create, deliver, retry | a send inside the transaction that records it |
| Activity: `activity/chain_sync.ex` | a cursor per address | sync a window | re-org rewind against window size, failures half-way |
| API keys, rate limit, access, accounts, workspaces, counterparties, screening, quotes, DeFi venues, Telegram, ops, audit, web | rows of their own | CRUD, reads, formatting | little interleaving; their results reach the modelled parts as free choices |

`PROJECT.json` lists each with its sources and what is left out.

### 1.2 How the components interact

Contexts call each other directly and share Postgres rows; anything slow is an
Oban job enqueued by id, so every job re-reads its rows and may run late, twice
or (after a node's death) not to the end. The control plane calls the adapter
over HTTP with a 5 s timeout and no HTTP retry. For a transfer the adapter
*works before it answers*; for grants and revokes it answers first and works in
the background. It reports by HTTP callbacks, each sent once:
one that fails fails the handler. Nothing polls the chain for a plan or a
revocation; only browser installs have pollers.

The page and its hooks exchange events over one connection, in order; a hook's
functions interleave at their awaits. The scripts and the adapter share the
account on chain and nothing else: what the operator copies from one
environment to the next is what connects them.

### 1.3 What makes each part correct

* a plan is dispatched by one worker at a time; an abort and a dispatch exclude
  each other; a pause in force before the claim is obeyed; a settled plan says
  what the chain did, and only its worker's abort is ever written over it;
  nothing stays half-dispatched;
* the verdicts on an intent form one chain, settled once, by whoever is first;
  automatic plans of one intent do not run side by side; approvals end;
* an account has one live delegation; a recorded revocation happened on chain;
  an active install is on chain (where the verifier reads it there, or the
  browser confirms only what it has seen); a pending install ends;
* what leaves the account, and what approvals leave to be pulled, stays within
  what the plans asked for; a report names the plan's own operation; outcomes
  are told once, in order, and every dispatch is answered;
* a binding is proven by its own address's signature over its own challenge and
  lives its documented life; the page shows what the rows and the wallet back; every
  connect and every click on install is answered;
* a deployment's receipt is true; the adapter works for what was checked; no
  session key is the account's root; permissions are as reported.

## 2. Modules

| Module | Models | State in TLA+ |
|---|---|---|
| `DispatchLicence` | abstract: a licence per plan, granted on an open plan, withdrawn by an abort | `gate`, `licence`, `withdrawn` |
| `PlanExecution` | plans of one decision, `RunExecution`, the transfer handler, callbacks, abort, cancel, pause | `plan` and `intent` are the rows; `job` the Oban jobs, with the loaded struct (`target`, `seen`); `op` the adapter's requests, one per plan and attempt, with the handler's progress, its nonce and what the chain made of it; `switch` the pause, the executable delegation and eligibility; `aborted`, `pausedSince` are history |
| `PlanExecutionProofs` | the TLAPS proofs about `PlanExecution` | |
| `VerdictLog` | abstract: the verdicts on an intent as a log | `log` |
| `Decisions` | envelopes of one intent: evaluation, approval, deadline, dispatch gates, cancel | `envelopes` in the order of insertion, with the follow-up the committing process still owes (`next`); `worker` the evaluation jobs with what they read; `request` the manual executions; `plans` a sketch of the plans |
| `DecisionsProofs` | the TLAPS proofs about `Decisions` | |
| `DelegationLifecycle` | abstract: the documented state machine of an account's delegations | `history` |
| `Delegations` | delegations of one account: grant, browser install, revoke, callbacks | `rows`; `install`, `connect`, `revoke` the requests with their jobs; `run`, `grantRun` the adapter's background work; `late` callbacks it gave up on; `op`, `chain` the chain |
| `DelegationsProofs` | the TLAPS proofs about `Delegations` | |
| `DispatchReports` | abstract: what the adapter tells of a dispatch, once and in order, and when it answers | `told`, `answer` |
| `AdapterOps` | transfer, swap and Morpho deposit in the adapter, from the HTTP request to the ledger | `req` the handlers with what they read (nonce, operation, receipt); `server` the process and the chains of its endpoints; `mempool`, `landed`, `ledger` the bundler and the account; `now` the clock; `reports` what the control plane was told |
| `AdapterOpsProofs` | the TLAPS proofs about `AdapterOps` | |
| `BindingLifecycle` | abstract: the documented life of a wallet binding | `state` |
| `WalletBrowser` | wallets, the registry, the hook and the page | `wallet`, `stored`, `page` the browser; `tasks` the bag of the hook's calls under way; `toServer`, `toBrowser` events in flight; `ui` the assigns; `rows` the bindings, with the signatures made (`signed`) |
| `WalletBrowserProofs` | the TLAPS proofs about `WalletBrowser` | |
| `BrowserInstall` | the install button: one call per click | `call` with what it read before the last await; `op`, `row`, `attested` the operation, the delegation and the recorded confirmation of a click; `toServer`, `ui` the page |
| `BrowserInstallProofs` | the TLAPS proofs about `BrowserInstall` | |
| `Provisioning` | the two operator scripts and the account on two chains | `accounts`, `pool`, `landed` the chains; `touched` the accounts their owners changed; `provision`, `check` the runs |
| `KernelAuthority` | EXTENDS `Provisioning` with the adapter's start, grants and revokes | `adapter` its configuration and starts; `grant`, `revoke` the calls |
| `KernelAuthorityProofs` | the TLAPS proofs about `KernelAuthority` and `Provisioning` | |
| `MC*` | bounds for TLC | |

One database transaction is one step, also where it reads a row without
locking it. A read outside the transaction that writes is a step of its own,
and the value it read stays in the state (`seen`, `prior`, `target`, `loaded`):
this is where most of the interesting behaviour comes from. An HTTP exchange is
two sides: the adapter's handler goes on whether or not the caller still waits.
`map` in `PROJECT.json` gives the lines of every definition.

### Abstractions

*PlanExecution.* The gates of a request are read in one step (only the insert
decides, by its index). Evaluation of the same intent appears as `Supersede`,
which takes the envelope's currency away. A snoozed job keeps its attempt, as
in Oban. `pending_confirmation` and `final_outcome` are never written by the
modelled code paths or never read by them. Swap and Morpho plans share the
worker and the callbacks; all three handlers are in `AdapterOps`.

*Decisions.* Policy, trust and simulation decide the verdict: it is any of the
four outcomes. Their rows are left out; the `MorphoEvaluator` commits the same
transaction and never dispatches automatically. The execution side is cut down
to what the gates and the intent's state see of it.

*Delegations.* An adapter grant always installs the same permission, because
one session signer and one policy produce one id; a browser install has an id
of its own. Reading and inserting a granted row is one step, because the index
makes the two orders of a race end in the same row. Each revoke request has one
HTTP handler at a time. The poller's attempts are not counted: its deadline
bounds them. `:expired` is left out because no adapter code sends it.
`Refusals` says whether a revoke may be refused outright (mainnet off, a 4xx).
The browser's side of an install is a free choice here and `BrowserInstall` in
detail; the workers behind a row are detailed here and one step there.

What the verifier sees of the chain depends on `validation_id_check`, the
constant `Enforced`. Set to `:enforce` it asks the account for the configuration
of the validation id; set to `:skip` it makes the answer up and an account with
code is enough (`kernel_verifier.ex:149`–`201`). The second is what the
repository's development configuration sets (`config/dev.exs:161`), since the
deployed Kernel does not expose the getter and reverts
(`kernel_verifier.ex:170`–`190`, `docs/runbooks/browser-install-path-a.md:240`);
an enforced read of such a Kernel is a node that cannot be reached, and the row
fails in the end. Under `:skip` the receipt is all there is, and who has seen it
matters: the poller reads it, but the browser's confirmation enqueues the
verifier too. `HonestBrowser` says whether a browser confirms only an operation
that succeeded, as `session_permission_install.js` does; without it, any claim
may arrive. `ActiveWasVerified` says what each combination is worth.

*AdapterOps.* An operation is its content (calls, nonce, fees, chain), as its
hash is a function of them: two requests that build the same content have the
same operation. A dispatch is a record of what the checks tell apart, one
label each. The token, the router and the vault are external: a swap's router
pulls what its route says. Gas, bytes and decimals are left out.

*WalletBrowser.* One tab. A wallet's uuid and rdns are both the wallet, and each
announces itself once per load. A signature is the challenge it is over and the
address it recovers to, or none if it is malformed: the wallet may sign with any
account, whichever `personal_sign` named, and `Verifiable` compares, as
`Signature.verify_eip191` does. `signed` is the history of who signed what. A
signature over another text recovers to an address that need not be the row's,
which is one of these cases. The words of errors are left out, and so is `control_live`'s older
connect button.

*BrowserInstall.* The provider is there (`getProvider()` not null, the button is
rendered with one); an operation is its click's. What the server does with an
attestation is its outcome and its write. The reason of a failure is kept where
it is told to Phoenix.

*Provisioning, KernelAuthority.* A key is named by its address and an endpoint
by the chain it serves; an address is its first owner and salt, as CREATE2
makes it. An owner may change the account's version, root or owner once it
exists (`touched`). A permission is named by what its id is derived
from: its session signer and its policies, each by its module; a policy's
parameters are left out. A stored row's `permission_id` and what its blob and
signer rebuild are separate: nothing in `revoke.ts` compares them. A grant or an
uninstall of an account that is not deployed carries the SDK's init code for the
owner's first account. Wallet
providers, gas sponsorship and the words of errors are left out.

## 3. What TLC checks

| Run | Instance | Shows | Size |
|---|---|---|---|
| `exec_safety` | one plan, two attempts, two changes of a switch, one dead worker | abort and pause beat dispatch; settled plans tell the truth and keep their outcome but for their worker's abort; `DispatchLicence` is implemented; without dead workers no plan stays prepared or signing | 342 000 states |
| `exec_two_plans` | two requests and two jobs of one decision, at most two adapter requests | one dispatcher per plan, one live plan per decision, also when the retrying job of an aborted plan meets its successor | 794 000 |
| `dec_safety` | first evaluation, a re-evaluation, a manual request, three envelopes, two plans, one dead process | the envelopes are one chain and implement `VerdictLog`; automatic plans do not run in parallel | 920 000 |
| `dec_liveness` | as above, four envelopes, one plan, no manual request | a scheduled deadline settles its approval | 165 000 |
| `del_safety` | one browser install, one connect, one revoke, the verifier's read enforced, a browser that may claim anything | one live row; revoked rows are backed by the chain; active installs are on chain; pending installs end | 188 000 |
| `del_lifecycle` | two connects, two revokes, one fault (lost callback, lost answer, dead request, restart) | the rows implement `DelegationLifecycle` | 182 000 |
| `adp_safety` | two plans of any two of a transfer, two swaps and a deposit, two fees, three chain ids, one lost callback or restart | spending is bounded, reports are of the plan's own operation, `DispatchReports` is implemented | 388 000 |
| `adp_answers` | one plan, posted twice, with each check of each handler failing in turn, a wrong header, a deadline that passes, one fault | every dispatch is answered unless the process dies | 52 000 |
| `wal_safety` | two wallets, one known from before, two accounts either may sign with, two acts of the user | bindings are proven by their own address, live their life (`BindingLifecycle`), the card and the pill are backed, every connect is answered | 1 034 000 |
| `ins_safety` | two clicks, one act of the user or operator, an account switch | nothing shown that was not taken, no wait for nothing, every click answered | 471 000 |
| `kern_safety` | two racing deployments, one check, one owner's change, one start, one grant, one revoke; a right environment, one with a wrong chain label, one with one key in both roles, whose chain the scripts refuse and only the adapter reads | receipts are true, the adapter works for what was checked, no session key is root, the permission a row names is there or gone as reported | 2 444 000 |

The violation run, `exec_double_pay`, is under "Disagreements".

Two more configurations pass and check what two of these runs check, on other
instances. `DelUnenforced` (`MCDelegations`, 229 000 states) is `ActiveWasVerified`
for two installs and a connect with the verifier's read skipped and browsers
that confirm what succeeded: active installs are on chain all the same, because
the poller hands over only a receipt that says so. `KernReports`
(`MCKernelAuthority`, 2 878 000 states) is `PermissionAsReported` with two
starts and two revokes, of the grant or of a stored row of the same key under
another policy.

Why these bounds are enough to be interesting: two attempts are what a timeout
race needs, and the only attempts whose guards differ are the last and the
others; two plans are what the slot of a decision can be fought over by; three
envelopes let each of evaluation, approval and deadline commit against each
other's; a connect, an install and a revoke are one actor of every kind that
writes delegation rows, and two connects and two revokes let late callbacks of
the first meet the second. Two plans are what a nonce race needs, and two posts
of one plan what a repeated request needs. Two wallets and two acts let a scan,
a probe and a change inside a wallet overlap; more overlap is in `WalRaces`
(`MaxBusy` 2). Two clicks are what one button can start at once. Two
deployments race for one account; one check, start, grant and revoke are one of
every program the account meets, and in `KernReports` a second start and revoke
meet what the first left. The larger numbers are the proofs' concern.
`adp_safety` and `kern_safety` use the symmetry of the plans and of the
deployments; both check safety only. Deadlock checking is off where everything
may be done: plans end, bounds run out.

### Fairness

Jobs that are available run and go on until they end or die (Oban's queues);
the adapter's handler goes on once called; time passes (the poller's deadline).
In `AdapterOps` a request's handler goes on, and its wait for a receipt ends
(viem's timeout), while the process is up. In `WalletBrowser` the wallet
answers what it was asked, with a yes or a no, the page and the hook handle
their events, and a loaded page mounts; `ConnectAnswered` rests on the wallet's
answer. In `BrowserInstall` some call under way goes on and the page handles
its events; the SDK's wait for the receipt has a timeout. Otherwise nothing is
assumed about the chain, the browser, the operator, the agent or the switches,
and every failure action is unfair.

In `exec_safety` the liveness property speaks of behaviours in which no worker dies: a worker
that dies between claim and answer leaves its plan signing, an abort refuses a
signing plan, and no other code moves it.

### Disagreements with the documentation

`exec_double_pay` is a listed run, with the sentence it refutes under
`findings`: a dispatch that outlives the 5 s HTTP timeout is dispatched again
while the adapter still works on the first request, both operations succeed,
and `run_execution.ex:192` says "Fail terminal rather than double-dispatch."
(`PaidAtMostOnce`).

The modules state more such sentences next to it. Each is refuted by the
configuration named; where one names several, TLC stops at the first it finds,
so leave one in to see its own counterexample. A row without a module is about
the one above.

| Configuration (module) | Refutes | In short |
|---|---|---|
| `ExecOpen` (`MCPlanExecution`) | `AcceptedNeverDowngrades` | the write after an accepted dispatch puts an executed intent back to executing (`run_execution.ex:644`; 660: "Don't downgrade") |
| | `AbortedNeverReachedAdapter` | a plan between two attempts can be aborted while the first is still being sent |
| | `TerminalIsInactive` | the worker's abort leaves `active` set, and the decision's slot taken |
| `ExecAgesOut` | `BroadcastAgesOut` | nothing ends a broadcast plan whose callback was lost |
| `DecOpen` (`MCDecisions`) | `CancelledIsTerminal` | an evaluation, approval or deadline brings a cancelled intent back (`decisions.ex:1284`; `reevaluate_intent.ex:14`: "`:cancelled` and `:expired` are terminal") |
| | `EvaluatedOnlyWhenLegal` | a verdict is committed for an intent that has left the legal states |
| | `NeverBackToDecided` | approving a re-evaluation puts an executing intent back to decided |
| | `OneActiveAuto` | two automatic dispatches pass the intent gate before either inserts |
| `DecStuck` | `HoldReleased` | no timer is armed for a hold |
| | `DeadlineNeverSlips` | a death between commit and enqueue leaves an approval without deadline |
| `DelOpen` (`MCDelegations`) | `FailClosed` | the install verifier writes active over a revocation under way (`verify_install_onchain.ex:106`; `incident-runbook.md:377`: "fail-closed the whole time") |
| | `RevokedIsTerminal` | the verifier writes active over a revoked row |
| | `InstallFailsFromPending` | a browser that gave up waiting, or a stale poller, fails an active row |
| | `ActiveIsInstalled` | with `validation_id_check` skipped, a browser that claims a receipt it has not seen makes the row active (`kernel_verifier.ex:9`: "Phoenix MUST NOT trust the browser's word") |
| | `FailedIsStillLive` | the revoke operation lands after it was reported failed |
| `DelDangles` | `NeverDangles` | with nothing lost, a second revoke in the closing moment of the first leaves the row revoking (`dispatch/revoke.ts:105`; 14: "Phoenix never dangles in `:revoking`") |
| `AdpOpen` (`MCAdapterOps`) | `ConfirmedApart` | two plans with one body that read one nonce build one operation and are both confirmed by it (`userop.ts:336`: "the user-op hash IS the identity") |
| | `RevertsReported` | a revert with an empty reason fails the callback's own schema and nothing is sent (`transfer.ts:257`, `swap.ts:450`) |
| `AdpSwapOpen` | `SubmittedInTime` | the deadline is looked at once, before nonce, fees and gas are awaited (`swap.ts:166`) |
| | `SwapReportsExact` | a confirmed swap reports what it was asked for, not what the router took |
| | `BatchesOnTestnet` | the envelope's label is compared, not the chain the process works on (`dispatch/swap.ts:62`, `dispatch/morpho_deposit.ts:90`: "cannot silently broadcast a mainnet Morpho deposit") |
| `WalDisconnect` (`MCWalletBrowser`) | `DisconnectClears` | one connect makes two bindings and Disconnect revokes one; the next mount shows the other (`agent_live.ex:1557`; `wallet-connect.md:112`) |
| `WalOpen` | `ConnectingStays` | a probe clears "connecting" while the wallet's prompt is still open |
| | `PickSurvivesReload` | a scan replaces the stored pick before its wallet announces itself |
| `WalRaces` | `SelectionSticks` | two scans, each having found none selected, select one after the other |
| | `PillReflects` | the probe that ends last need not be the one that began last |
| `InsOpen` (`MCBrowserInstall`) | `SignedByBound` | the preflight finds the bound account among those exposed, and the operation is built for the first of them (`session_permission_install.js:136`, the comment at 115) |
| | `AnchoredRow` | the operation is with the bundler and Phoenix has no row (250: "guarantees Phoenix has an anchored `:pending` row") |
| | `SignerFailureNamed` | the signer's failures reach the page as another reason (`install_envelope_client.js:88`) |
| `InsFailure` | `FailureShown` | after a confirmation, a row that failed is no longer listed and the card goes on showing an install (`agent_live.ex:1874`) |
| `KernOpen` (`MCKernelAuthority`) | `VerifiedOwner` | the check compares the validator's address, never the owner (`verify-installed-validator.ts:48`: "owned by the same EOA") |
| | `ReceiptDeployed` | of two racing runs, the loser's receipt names an operation that deployed nothing (`provision-kernel.ts:455`) |
| `KernRebound` | `RevokedWhereGranted` | an adapter restarted for another account revokes there and reports the row revoked |
| `KernLate` | `FailedRevokeIsOver` | a revoke reported failed is still in the mempool (`revoke.ts:834`) |
| `KernWrongBlock` | `RevokedIsGone` | a row whose ids agree with each other but not with its blob is reported revoked, and its permission stays installed (`uninstall_validation.ts:155` says its guard does not catch "a consistent-but-wrong pair"; `revoke.ts:704` to 790 has no other) |

Read on the way, and stated by no property: with `BASE_CHAIN_ID` unset the scripts mean Base Sepolia and the adapter Base; the
scripts never ask an endpoint for its chain; `get_active_binding` does not look
at `expires_at`; Disconnect before a pending challenge is signed is followed by
a binding when it is.

## 4. What TLAPS proves

Every invariant, action property and refinement that a passing run checks is a
theorem here, for every value of the constants and with no fairness assumed
(one refinement has a hypothesis, given with it).
Each proof module defines an `Inv`, which was model-checked before it was
proved, and has a lemma for each action or family of actions that says the
action keeps it. The named assumptions of the modules are all that is assumed:
the bounds are naturals, the model values are distinct.

`PlanExecutionProofs` proves, for any set of plans, any number of attempts and
any budgets (assumptions: `NoPlan` is not a plan, the bounds are naturals, at
least one attempt), with no fairness assumed:

| Theorem | States |
|---|---|
| `TypeCorrect`, `Invariance` | `[]TypeOK`, `[]Inv` |
| `OneDispatcher` | `[]ExclusiveClaim` |
| `AbortWins`, `PauseWins` | `[]AbortBeatsDispatch`, `[]PauseBeatsDispatch` |
| `AtMostOneLive` | `[]OneLivePlan` |
| `Truthful`, `Finality` | `[]SettledTruthfully`, `TerminalStaysTerminal` |
| `Implementation` | `Spec => ImplementsLicence` |

The safety properties are not inductive alone. `Inv` adds what ties the actors
together: what a job may hold at each program counter (`JobInv`), which rows
can be active and that at most one is (`PlanInv`), that a request of the adapter
belongs to the plan and attempt that sent it and that its progress agrees with
the chain (`OpInv`), and since when a pause has been in force (`PauseInv`).
`ExclusiveClaim` needs `JobInv`: a worker that holds a claim has found its plan
prepared under the lock, so nobody else holds it. The proof has a lemma per
family of actions (the worker's moves, the claim, dispatch, revert, the abort,
requests, the adapter's steps, the environment) and combines them in `InvNext`.
`Finality` and `Implementation` are step properties proved under `Inv`.

`KernelAuthorityProofs` proves, for any set of keys, environments, runs and
calls and any bounds (assumptions: the environments and stored blocks are
well-formed, the bounds are naturals), with no fairness assumed:

| Theorem | States |
|---|---|
| `TypeCorrect` | `[]TypeOK` |
| `SessionNeverRoot` | `[]SessionIsNotRoot` |
| `BootVerified` | `[]BootedOnVerified` |
| `ReceiptsAreTrue` | `[]ReceiptTrue` |
| `PermissionsAsReported` | `[]PermissionAsReported` |

The proof goes in layers. `TInv` is `TypeOK` with what every run and call holds
at each of its points (`RunsInv`, `CallsInv`), what an adapter that is up was
started with (`AdapterInv`), and that every operation on its way to install a
permission is signed by another key than the permission's (`PoolInv`); every
step preserves it. The account changes in few ways, which `AccountStep` names
once (kept, operated on, created, changed by its owner), and every later
invariant is proved against these and not against the actions.
`SessionIsNotRoot` follows from `PoolInv` at the moment an installation lands.
`CheckedInv` says what a check has found so far still holds unless the owner
changed the account meanwhile, and gives `BootedOnVerified`. `LandedInv` ties
the operations that landed to accounts that are there, and `RInv` the deploying
runs to their landed operations, for `ReceiptTrue`. `HistoryInv` says, for each
permission by its signer and policies, that it is on an account when its last
landed operation installed it and not when that uninstalled it. `ReportsInv`
says that a report was made after its operation landed, that a granted block
rebuilds the permission its operation installed, and that a revoke's operation
uninstalls what its row's block rebuilds. `PermissionAsReported` is about the
row's `permission_id`, so its revoked half has the hypothesis that the block
rebuilds that id (`Faithful`), which the code does not check; every block a
grant reports is of that kind, as its first half says, and without the
hypothesis the sentence is false (`KernWrongBlock`).

`DecisionsProofs`, for any re-evaluations and manual requests, and any number
of envelopes, plans and failures (`FirstAssumption`, `DecisionBounds`):

| Theorem | States |
|---|---|
| `TypeCorrect`, `Invariance` | `[]TypeOK`, `[]Inv` |
| `OneChain` | `[]ChainSound` |
| `AutoAlone` | `[]NoParallelAuto` |
| `Implementation` | `Spec => ImplementsVerdictLog` |

`ChainSound` is inductive once what an evaluation read is bounded by what was
written (`ReadInv`): a stale read then names an envelope that has a successor,
and the index refuses a second one. `NoParallelAuto` is not inductive, because
the gate and the worker's check look at different rows at different times. What
carries it is `NewestRuns`: while the worker of an automatic plan runs it, no
later envelope is between its gate and its insert, and none has a plan in
flight. Of two running plans neither is then later than the other, so they belong
to one envelope, and `OneActivePerDecision` makes them one plan.

`DelegationsProofs`, for any installs, connects and revokes, any number of
attempts and faults (`PermissionAssumption`, `DelegationBounds`):

| Theorem | States |
|---|---|
| `TypeCorrect`, `Invariance` | `[]TypeOK`, `[]Inv` |
| `SoleDelegation` | `[]OneLiveRow` |
| `RevokedForReal`, `ActiveForReal` | `[]RevokedOnProof`, `[]ActiveWasVerified` |
| `Implementation` | `Installs = {} => (Spec => ImplementsLifecycle)` |

`RevokedOnProof` follows the news of a revocation from the chain to the row:
`OpInv` (an operation that succeeded removed its id), `RunInv` (the run in
flight owns its operation and reports what became of it), `LateInv` (a callback
the adapter gave up on is as true as one in time). `ActiveForReal` holds for
both settings of `validation_id_check` and any browser: in the account's code
always, and in the permission wherever `Enforced` or `HonestBrowser`; the
invariant then ties a loaded or confirmed receipt to an operation that installed
its id, and nothing but a revoke of the adapter's own id takes one away.
The refinement carries the
hypothesis `Installs = {}`, as the run `del_lifecycle` does: with a browser
install the rows leave the documented machine, which `DelOpen` shows
(`FailClosed`, `RevokedIsTerminal`), so the theorem without it is false.

`AdapterOpsProofs`, for any plans, bodies, fees, funds and posts, any number of
faults and any clock (`BodiesAssumption`, `AdapterBounds`, `NoneAssumption`):

| Theorem | States |
|---|---|
| `TypeCorrect`, `Invariance` | `[]TypeOK`, `[]Inv` |
| `NeverOverspends` | `[]SpendBounded` |
| `TruthOfItsOwn` | `[]ReportsOwnOp` |
| `Implementation` | `Spec => ImplementsReports` |

`RequestInv` ties a request to its handler: the operation it waits for, and the
report it is sending, are of the plan's own body (`OwnOp`); what was told agrees
with how far the handler is (`ToldFits`), and it is answered when it is done
(`Answered`). With it a report can only repeat what landed, and each step is one
of `DispatchReports`. `ChainInv` keeps the nonces of what landed below the
account's, so no operation lands twice and its amount is counted once.
`SpendBounded` sums over the operations that landed, any number of them:
`AdditiveExists` and `AdditiveSums` show that
`MapThenSumSet` is additive by a smallest set that would contradict it (a
least number exists by `LeastNumber`, so no induction over a predicate is
needed), `AskedMore` that one operation more adds its amount, `FoldOne` and
`FoldTwo` what a batch of one or two calls does to the ledger, and
`BatchBounded` that a batch neither moves nor leaves to be pulled more than its
plan asked for.

`WalletBrowserProofs`, for any wallets, accounts and exposures, any number of
acts, rows and overlapping calls (`WalletAssumption`, `WalletBounds`):

| Theorem | States |
|---|---|
| `TypeCorrect`, `Invariance` | `[]TypeOK`, `[]Inv` |
| `ProvenByItsOwner` | `[]ProvenBinding` |
| `ActiveOnCard`, `PillHonest` | `[]CardShowsActive`, `[]PillIsBacked` |
| `Implementation` | `Spec => ImplementsLifecycle` |

The difficulty is what is under way: `QueueInv` says which calls of the hook and
which events in both directions there can be, given the rows and the signatures
made (a verification in the queue carries the account that signed, if any did,
and `signed` has it; a probe's answer names a wallet that was met). Every action either leaves these sets or
lets them grow. `NewestExists`, that any of the rows have a newest, is what makes
the binding that `get_active_binding` reads well defined; it is part of the
invariant because a row is stamped later than every other.

`BrowserInstallProofs`, for any number of clicks, any exposures and a page
however far behind (`InstallAssumption`):

| Theorem | States |
|---|---|
| `TypeCorrect`, `Invariance` | `[]TypeOK`, `[]Inv` |
| `GatesHold` | `[]AcceptedBeforeShown` |
| `WaitIsBacked` | `[]AwaitingIsBacked` |

`AwaitingIsBacked` alone is not inductive: it speaks of a page with no
delegation loaded, and a refresh may take a loaded one away. `ShownBacked` says
the same of every page that shows an install under way, and `LastBacked`, that
the last event in the queue is the end of its click or has more to come, is
why it survives the event that empties the queue.

Only model-checked: the liveness properties `DispatchSettles`,
`ApprovalSettles`, `PendingSettles`, `DispatchAnswered`, `ConnectAnswered` and
`ClickAnswered`, because fairness and ENABLED are out of this prover's reach;
and the sentences the code does not bear out, whose counterexamples are TLC's.
No module declares a RECURSIVE operator.

## 5. Plan

Built, in this order: plan execution (the money moves here) and its abstract
protocol; decisions; delegations; the adapter's operations; wallet binding; the
install page; the account's provisioning and authority. All with proofs.

Next, to prove: what the rows of `Delegations` promise with browser installs, as
a lifecycle of its own weaker than the documented one; and which of the
sentences that are refuted hold under a stated restriction (no second revoke in
the closing moment of the first, no lost callback), as theorems with that
hypothesis.

Next, to extend the model, each replacing or joining a run of its neighbour:

1. `Submission`: `intents.submit` and the execute idempotency key: two keys, a
   commit and an enqueue apart, concurrent first uses, replays. Abstract
   specification: a request with a key takes effect once.
2. `ScopePauses`: persisted pauses with an expiry, the lazy read, the sweeper,
   the partial index, with the in-memory switch and its restart.
3. `ChainSync`: cursor, window and re-org rewind: no settled block is skipped;
   under which window sizes the cursor advances.
4. `PolicyVersions`: publish, roll back and revise: one published version, and
   what a decision's snapshot is made of.
5. `Deliveries`: attempts, back-off, terminal states.
6. `Autonomy`: the router as an operator against a reference definition.

### Not modelled

The web layer beyond `agent_live`, formatting, cryptography, encodings and gas,
provider clients, seeds and smoke tests (`fork-proof-swap.ts`), SDKs: they hold
no state of their own or end in an operation that is modelled. Of the modelled
parts: the words of events, reasons and errors; the pause that
`sign_install_userop_hash` reads; a page without a provider; other tabs and
repeated announcements of one wallet; the `:expired` callback, which no adapter
code sends.

## 6. Running

    tlc -workers 2 -config ExecSafety.cfg MCPlanExecution.tla
    tlapm PlanExecutionProofs.tla
    tlapm KernelAuthorityProofs.tla
    tlapm DecisionsProofs.tla
    tlapm DelegationsProofs.tla
    tlapm AdapterOpsProofs.tla
    tlapm WalletBrowserProofs.tla
    tlapm BrowserInstallProofs.tla

A counterexample of the further ones is a configuration of the module its row
names:

    tlc -workers 2 -config KernOpen.cfg MCKernelAuthority.tla

Every property of a passing run has a mutant in `PROJECT.json`: a definition of
the module with a plausible bug (the operators named after the definition they
replace, marked "Mutant of"), under which TLC refutes the property.
