----------------------------- MODULE WalletBrowser -----------------------------
(***************************************************************************)
(* How a browser wallet gets bound to a workspace: the registry of         *)
(* announced wallets, the WalletConnect hook, the agent page and the rows  *)
(* of wallet_bindings.  Sources: assets/js/wallet_provider.js,             *)
(* assets/js/hooks/wallet_connect.js, lib/bank_web/live/agent_live.ex,     *)
(* lib/bank/wallet_bindings.ex.                                            *)
(*                                                                         *)
(* The hook's functions are asynchronous.  A call that waits for a wallet  *)
(* is a task; the bag of tasks holds every call under way, and any of them *)
(* may go on next.  The page and the hook exchange events over one         *)
(* connection, in order, and the page handles one event at a time.         *)
(*                                                                         *)
(* Accounts are what the user lets a wallet expose to the site.  One tab   *)
(* is modelled; a wallet's name and icon are left out, and a wallet's uuid *)
(* and its rdns are both the wallet.  A signature is the challenge it is   *)
(* over and the address it recovers to, None when it recovers to nobody's. *)
(***************************************************************************)
EXTENDS Naturals, Sequences, FiniteSets, Bags, SequencesExt

CONSTANTS Wallets,      \* browser wallets that announce themselves
          Known,        \* those that may know the site from an earlier visit
          Legacy,       \* window.ethereum: a wallet, or None
          Accounts,     \* addresses of the user
          Exposures,    \* sequences of accounts a wallet may expose
          MaxRows,      \* challenges whose lifecycle is watched
          MaxActs,      \* bound on clicks, reloads, changes inside a wallet,
                        \* expiries and requests that fail, together
          MaxBusy,      \* user and wallets start something while at
                        \* most so much is under way
          None

ASSUME WalletAssumption ==
  /\ Legacy \in Wallets \cup {None} /\ None \notin Wallets \cup Accounts
  /\ Known \subseteq Wallets
  /\ Exposures \subseteq Seq(Accounts) /\ <<>> \in Exposures
ASSUME WalletBounds == MaxRows \in Nat /\ MaxActs \in Nat /\ MaxBusy \in Nat

VARIABLES wallet,     \* what each wallet exposes, and its chain
          stored,     \* the selection kept in localStorage
          page,       \* registry and hook of the loaded page
          tasks,      \* calls of the hook under way
          toServer,   \* events pushed by the hook, in order
          toBrowser,  \* events pushed by the page, in order
          ui,         \* the assigns of the page
          rows,       \* wallet_bindings, in the order of insertion
          signed,     \* history: challenge and the account that signed it
          left        \* what is left of MaxActs

browserVars == <<wallet, stored, page, tasks>>
serverVars == <<ui, rows>>
vars == <<wallet, stored, page, tasks, toServer, toBrowser, ui, rows, signed,
          left>>

-----------------------------------------------------------------------------
Chains == {"base_sepolia", "base"}
Supported == {"base_sepolia"}

Row == [address : Accounts, stamp : Nat, revoked : BOOLEAN, expired : BOOLEAN]
Snapshot == [status : {"unknown", "no_provider", "no_account",
                       "exposed_account"},
             accounts : Exposures, chain : Chains \cup {None}]

NoSnapshot == [status |-> "unknown", accounts |-> <<>>, chain |-> None]
EmptyPage == [mounted |-> FALSE, announced |-> <<>>, selected |-> None,
              attached |-> None]

Msg(name) == [event |-> name, account |-> None, list |-> <<>>, chain |-> None,
              id |-> 0]
Task(kind, w) == [kind |-> kind, on |-> w, step |-> 1, account |-> None,
                  list |-> <<>>, chain |-> None, id |-> 0]

CardStates == {"disconnected", "connecting", "wrong_network", "wrong_chain",
               "browser_disconnected", "account_mismatch", "connected"}

Kinds == {"probe", "connect", "refresh", "recheck", "scan", "sign", "revoke"}

TypeOK ==
  /\ wallet \in [Wallets -> [accounts : Exposures, chain : Chains]]
  /\ stored \in Wallets \cup {None}
  /\ page.mounted \in BOOLEAN
  /\ Range(page.announced) \subseteq Wallets /\ IsInjective(page.announced)
  /\ page.selected \in Range(page.announced) \cup {None}
  /\ page.attached \in Wallets \cup {None}
  /\ \A t \in BagToSet(tasks) : t.kind \in Kinds /\ t.on \in Wallets \cup {None}
  /\ ui.wallet \in CardStates
  /\ ui.binding \in 0..Len(rows)
  /\ ui.browser \in Snapshot
  /\ rows \in Seq(Row)
  /\ signed \subseteq (1..Len(rows)) \X Accounts
  /\ left \in 0..MaxActs

-----------------------------------------------------------------------------
(* Bank.WalletBindings *)

Bound(rs) == {r \in DOMAIN rs : rs[r].stamp > 0 /\ ~rs[r].revoked}

(* Mutant of GetActiveBinding: the order is the wrong way round. *)
GetOldestBinding(rs) ==
  IF Bound(rs) = {} THEN 0
  ELSE CHOOSE r \in Bound(rs) : \A q \in Bound(rs) : rs[r].stamp <= rs[q].stamp

(* The most recently verified row that is not revoked, 0 if there is none. *)
GetActiveBinding(rs) ==
  IF Bound(rs) = {} THEN 0
  ELSE CHOOSE r \in Bound(rs) : \A q \in Bound(rs) : rs[q].stamp <= rs[r].stamp

IssueChallenge(account) ==
  Append(rows, [address |-> account, stamp |-> 0, revoked |-> FALSE,
                expired |-> FALSE])

NextStamp == Cardinality({r \in DOMAIN rows : rows[r].stamp > 0}) + 1

(* The row is there, not revoked, and not verified already. *)
AwaitsSignature(r) == rows[r].stamp = 0 /\ ~rows[r].revoked

(* Mutant of Verifiable: the time of the challenge is not looked at. *)
VerifiableLate(r, signer) == AwaitsSignature(r) /\ signer = rows[r].address

(* Mutant of Verifiable: any signature will do. *)
VerifiableUnsigned(r, signer) == AwaitsSignature(r) /\ ~rows[r].expired

(* In time, and verify_eip191 recovers the row's address from what was     *)
(* signed: otherwise expired, invalid_signature or address_mismatch.       *)
Verifiable(r, signer) ==
  /\ AwaitsSignature(r) /\ ~rows[r].expired
  /\ signer = rows[r].address

VerifyAndBind(r) == [rows EXCEPT ![r].stamp = NextStamp]

(* An unverified binding is not revoked, and the caller does not mind. *)
RevokeBinding(r) ==
  IF r \in Bound(rows) THEN [rows EXCEPT ![r].revoked = TRUE] ELSE rows

-----------------------------------------------------------------------------
(* The card of the agent page. *)

DeriveBrowserState(address, s) ==
  IF s.status # "exposed_account" \/ s.accounts = <<>>
    THEN "browser_disconnected"
  ELSE IF address \notin Range(s.accounts) THEN "account_mismatch"
  ELSE IF s.chain \notin Supported THEN "wrong_chain"
  ELSE "connected"

(* A row is only ever inserted for Base Sepolia. *)
DeriveWalletState(r, rs, s) ==
  IF r \notin Bound(rs) \/ rs[r].expired THEN "disconnected"
  ELSE DeriveBrowserState(rs[r].address, s)

ApplyBinding(r, rs) ==
  [ui EXCEPT !.wallet = DeriveWalletState(r, rs, ui.browser), !.binding = r]

ResetWallet == [ui EXCEPT !.wallet = "disconnected", !.binding = 0]

(* Mount: the active binding, and no probe yet. *)
MountedUi(rs) ==
  [wallet |-> DeriveWalletState(GetActiveBinding(rs), rs, NoSnapshot),
   binding |-> GetActiveBinding(rs), browser |-> NoSnapshot,
   providers |-> <<>>]

-----------------------------------------------------------------------------
(* The registry and the hook's subscription to it. *)

(* The selected wallet, else the first announced one, else window.ethereum *)
GetProvider(p) ==
  IF p.selected # None THEN p.selected
  ELSE IF p.announced # <<>> THEN Head(p.announced) ELSE Legacy

AttachListenersTo(p) ==
  [p EXCEPT !.attached = IF GetProvider(p) = None THEN @ ELSE GetProvider(p)]

(* A call to the provider, if there is one. *)
Call(t) == IF t.on = None THEN EmptyBag ELSE SetToBag({t})

(* The callback: report the list, listen to the provider, probe it, and    *)
(* look for an authorized wallet as long as none is selected.              *)
CallbackTasks(p) ==
  Call(Task("probe", GetProvider(p)))
  (+) (IF p.selected = None /\ p.announced # <<>>
       THEN SetToBag({Task("scan", None)}) ELSE EmptyBag)

CallbackEvents(p) ==
  <<[Msg("providers_discovered") EXCEPT !.list = p.announced]>>
  \o (IF GetProvider(p) = None
      THEN <<[Msg("browser_status") EXCEPT !.account = "no_provider"]>>
      ELSE <<>>)

(* page' is p, seen by the subscribers; running are the other tasks and    *)
(* events what the caller pushes after them.                               *)
Notify(p, running, events) ==
  IF p.mounted
    THEN /\ page' = AttachListenersTo(p)
         /\ tasks' = running (+) CallbackTasks(p)
         /\ toServer' = toServer \o CallbackEvents(p) \o events
    ELSE /\ page' = p
         /\ tasks' = running
         /\ toServer' = toServer \o events

Spend == left > 0 /\ left' = left - 1

Calm == BagCardinality(tasks) + Len(toServer) + Len(toBrowser) <= MaxBusy
UserActs == Calm /\ Spend

Init ==
  /\ wallet \in [Wallets -> [accounts : Exposures, chain : Supported]]
  /\ \A w \in Wallets \ Known : wallet[w].accounts = <<>>
  /\ stored = None
  /\ page = EmptyPage
  /\ tasks = EmptyBag
  /\ toServer = <<>> /\ toBrowser = <<>>
  /\ rows = <<>>
  /\ ui = MountedUi(<<>>)
  /\ signed = {}
  /\ left = MaxActs

(* startDiscovery listens before the hook subscribes. *)
Announce(w) ==
  /\ Calm
  /\ w \notin Range(page.announced)
  /\ Notify([page EXCEPT !.announced = Append(@, w),
                         !.selected = IF @ = None /\ stored = w THEN w ELSE @],
            tasks, <<>>)
  /\ UNCHANGED <<wallet, stored, toBrowser, serverVars, signed, left>>

Mount ==
  /\ ~page.mounted
  /\ Notify([page EXCEPT !.mounted = TRUE], tasks, <<>>)
  /\ UNCHANGED <<wallet, stored, toBrowser, serverVars, signed, left>>

(* Mutant of Reload: the registry remembers a wallet it has not met. *)
ReloadKeepsSelection ==
  /\ UserActs
  /\ page' = [EmptyPage EXCEPT !.selected = page.selected]
  /\ tasks' = EmptyBag
  /\ toServer' = <<>> /\ toBrowser' = <<>>
  /\ ui' = MountedUi(rows)
  /\ UNCHANGED <<wallet, stored, rows, signed>>

(* Everything the page knew is gone but the storage and the database. *)
Reload ==
  /\ UserActs
  /\ page' = EmptyPage
  /\ tasks' = EmptyBag
  /\ toServer' = <<>> /\ toBrowser' = <<>>
  /\ ui' = MountedUi(rows)
  /\ UNCHANGED <<wallet, stored, rows, signed>>

-----------------------------------------------------------------------------
(* What the hook's tasks do when the wallet answers. *)

Running(t) == BagIn(t, tasks)
Without(t) == tasks (-) SetToBag({t})
And(ts, new) == ts (+) SetToBag({new})

Ends(t, events) ==
  /\ tasks' = Without(t)
  /\ toServer' = toServer \o events

TaskStep == UNCHANGED <<toBrowser, serverVars>>
Quietly == UNCHANGED <<wallet, stored, page, signed, left>>

(* pushBrowserStatus: accounts, chain, permissions, then one event. *)
ProbeAccounts(t) ==
  /\ Running(t) /\ t.kind = "probe" /\ t.step = 1
  /\ tasks' = And(Without(t), [t EXCEPT !.step = 2,
                                         !.list = wallet[t.on].accounts])
  /\ UNCHANGED toServer /\ TaskStep /\ Quietly

ProbeChain(t) ==
  /\ Running(t) /\ t.kind = "probe" /\ t.step = 2
  /\ tasks' = And(Without(t), [t EXCEPT !.step = 3,
                                         !.chain = wallet[t.on].chain])
  /\ UNCHANGED toServer /\ TaskStep /\ Quietly

ProbePush(t) ==
  /\ Running(t) /\ t.kind = "probe" /\ t.step = 3
  /\ Ends(t, <<[Msg("browser_status") EXCEPT
                  !.account = IF t.list = <<>> THEN "no_account"
                                               ELSE "exposed_account",
                  !.list = t.list, !.chain = t.chain]>>)
  /\ TaskStep /\ Quietly

(* A read that fails counts as an empty one. *)
ProbeFails(t) ==
  /\ Running(t) /\ t.kind = "probe" /\ t.step < 3
  /\ Spend
  /\ tasks' = And(Without(t), [t EXCEPT !.step = @ + 1])
  /\ UNCHANGED <<wallet, stored, page, toServer, signed>> /\ TaskStep

(* autoSelectActive walks the map of wallets, which may grow meanwhile.    *)
(* Whether something is selected was tested when it started.               *)
ScanFinds(t) ==
  /\ Running(t) /\ t.kind = "scan"
  /\ t.step <= Len(page.announced)
  /\ LET w == page.announced[t.step]
     IN /\ wallet[w].accounts # <<>>
        /\ stored' = w
        /\ Notify([page EXCEPT !.selected = w], Without(t), <<>>)
  /\ UNCHANGED <<wallet, signed, left>> /\ TaskStep

ScanSkips(t) ==
  /\ Running(t) /\ t.kind = "scan"
  /\ t.step <= Len(page.announced)
  /\ wallet[page.announced[t.step]].accounts = <<>>
  /\ tasks' = IF t.step = Len(page.announced) THEN Without(t)
              ELSE And(Without(t), [t EXCEPT !.step = @ + 1])
  /\ UNCHANGED toServer /\ TaskStep /\ Quietly

(* handleAccountsChanged, called by the wallet the hook listens to, with   *)
(* its accounts: the probe and the refresh ask whoever is the provider.    *)
OnAccountsChanged(accounts, running) ==
  LET w == GetProvider(page)
  IN /\ tasks' = running (+) SetToBag({Task("probe", w)})
                 (+) (IF accounts = <<>> THEN EmptyBag
                      ELSE SetToBag({[Task("refresh", w) EXCEPT
                                        !.account = Head(accounts)]}))
     /\ toServer' = toServer \o (IF accounts = <<>>
                                 THEN <<Msg("disconnected")>> ELSE <<>>)

(* The accounts a wallet exposes change: it tells the hook if that listens. *)
Exposes(w, accounts, running) ==
  /\ wallet' = [wallet EXCEPT ![w].accounts = accounts]
  /\ IF page.attached = w /\ accounts # wallet[w].accounts
       THEN OnAccountsChanged(accounts, running)
       ELSE tasks' = running /\ UNCHANGED toServer

(* A wallet that knows the site answers eth_requestAccounts at once, any   *)
(* other one asks the user.                                                *)
ConnectApproved(t) ==
  /\ Running(t) /\ t.kind = "connect" /\ t.step = 1
  /\ \E e \in IF wallet[t.on].accounts # <<>> THEN {wallet[t.on].accounts}
              ELSE Exposures \ {<<>>} :
       Exposes(t.on, e, And(Without(t), [t EXCEPT !.step = 2,
                                                  !.account = Head(e)]))
  /\ UNCHANGED <<stored, page, signed, left>> /\ TaskStep

(* Mutant of ConnectDeclined: an empty answer is dropped. *)
ConnectDeclinedSilent(t) ==
  /\ Running(t) /\ t.kind = "connect" /\ t.step = 1
  /\ wallet[t.on].accounts = <<>>
  /\ \E events \in {<<>>, <<Msg("error")>>} : Ends(t, events)
  /\ TaskStep /\ Quietly

(* An empty answer, or an error: the user said no. *)
ConnectDeclined(t) ==
  /\ Running(t) /\ t.kind = "connect" /\ t.step = 1
  /\ wallet[t.on].accounts = <<>>
  /\ \E name \in {"cancelled", "error"} : Ends(t, <<Msg(name)>>)
  /\ TaskStep /\ Quietly

(* The chain decides what beginConnect and refreshState report. *)
ChainRead(t) ==
  /\ Running(t)
  /\ (t.kind = "connect" /\ t.step = 2) \/ t.kind = "refresh"
  /\ LET chain == wallet[t.on].chain
         name == IF chain \in Supported THEN "connected" ELSE "wrong_chain"
     IN Ends(t, <<[Msg(name) EXCEPT !.account = t.account, !.chain = chain]>>)
  /\ TaskStep /\ Quietly

(* handleChainChanged reads the accounts and goes on as a refresh. *)
Recheck(t) ==
  /\ Running(t) /\ t.kind = "recheck"
  /\ LET accounts == wallet[t.on].accounts
     IN IF accounts = <<>> THEN Ends(t, <<Msg("disconnected")>>)
        ELSE /\ tasks' = And(Without(t), [Task("refresh", GetProvider(page))
                                            EXCEPT !.account = Head(accounts)])
             /\ UNCHANGED toServer
  /\ TaskStep /\ Quietly

RequestFails(t) ==
  /\ Running(t) /\ t.kind \in {"connect", "refresh", "recheck"}
  /\ Spend
  /\ Ends(t, <<Msg("error")>>)
  /\ UNCHANGED <<wallet, stored, page, signed>> /\ TaskStep

ScanFails(t) ==
  /\ Running(t) /\ t.kind = "scan"
  /\ Spend
  /\ tasks' = IF t.step >= Len(page.announced) THEN Without(t)
              ELSE And(Without(t), [t EXCEPT !.step = @ + 1])
  /\ UNCHANGED <<wallet, stored, page, toServer, signed>> /\ TaskStep

(* personal_sign names an account.  Which one the wallet signs with, if it *)
(* returns a signature of an address at all, is up to the wallet.          *)
Signs(t) ==
  /\ Running(t) /\ t.kind = "sign"
  /\ \E signer \in Accounts \cup {None} :
       /\ signed' = signed \cup ({t.id} \X ({signer} \cap Accounts))
       /\ Ends(t, <<[Msg("verify") EXCEPT !.id = t.id, !.account = signer]>>)
  /\ UNCHANGED <<wallet, stored, page, left>> /\ TaskStep

RefusesToSign(t) ==
  /\ Running(t) /\ t.kind = "sign"
  /\ Ends(t, <<[Msg("verify_error") EXCEPT !.id = t.id]>>)
  /\ TaskStep /\ Quietly

(* wallet_revokePermissions, which a wallet may not know. *)
RevokesPermissions(t) ==
  /\ Running(t) /\ t.kind = "revoke"
  /\ \/ Exposes(t.on, <<>>, Without(t))
     \/ tasks' = Without(t) /\ UNCHANGED <<wallet, toServer>>
  /\ UNCHANGED <<stored, page, signed, left>> /\ TaskStep

-----------------------------------------------------------------------------
(* The page handles the next event of the hook. *)

Receives(names) ==
  /\ toServer # <<>> /\ Head(toServer).event \in names
  /\ toServer' = Tail(toServer)
  /\ UNCHANGED <<browserVars, signed, left>>

PushesNothing == UNCHANGED toBrowser
Pushes(m) == toBrowser' = Append(toBrowser, m)

ProvidersDiscovered ==
  /\ Receives({"providers_discovered"})
  /\ ui' = [ui EXCEPT !.providers = Head(toServer).list]
  /\ PushesNothing /\ UNCHANGED rows

SelectProvider ==
  /\ Receives({"select_provider"})
  /\ LET w == Head(toServer).account
     IN IF w \in Range(ui.providers)
          THEN Pushes([Msg("use_provider") EXCEPT !.account = w])
          ELSE PushesNothing
  /\ UNCHANGED serverVars

Connecting ==
  /\ Receives({"connecting"})
  /\ ui' = [ui EXCEPT !.wallet = "connecting"]
  /\ PushesNothing /\ UNCHANGED rows

(* issue_challenge; the hook has checked chain and account. *)
Connected ==
  /\ Receives({"connected"})
  /\ LET account == Head(toServer).account
         id == Len(rows) + 1
     IN /\ rows' = IssueChallenge(account)
        /\ ui' = ApplyBinding(id, IssueChallenge(account))
        /\ Pushes([Msg("challenge") EXCEPT !.id = id, !.account = account])

Verify ==
  /\ Receives({"verify"})
  /\ LET r == Head(toServer).id
     IN IF Verifiable(r, Head(toServer).account)
          THEN /\ rows' = VerifyAndBind(r)
               /\ ui' = ApplyBinding(GetActiveBinding(rows'), rows')
          ELSE /\ ui' = ResetWallet
               /\ UNCHANGED rows
  /\ PushesNothing

WrongChain ==
  /\ Receives({"wrong_chain"})
  /\ ui' = [ui EXCEPT !.wallet = "wrong_network", !.binding = 0]
  /\ PushesNothing /\ UNCHANGED rows

GivesUp ==
  /\ Receives({"unavailable", "cancelled", "error", "verify_error"})
  /\ ui' = ResetWallet
  /\ PushesNothing /\ UNCHANGED rows

(* revoke_active_binding revokes the row of the socket, if it has one. *)
RevokeActiveBinding ==
  rows' = IF ui.binding = 0 THEN rows ELSE RevokeBinding(ui.binding)

Disconnected ==
  /\ Receives({"disconnected"})
  /\ RevokeActiveBinding
  /\ ui' = ResetWallet
  /\ PushesNothing

Disconnect ==
  /\ Receives({"disconnect"})
  /\ RevokeActiveBinding
  /\ ui' = ResetWallet
  /\ Pushes(Msg("revoke_permissions"))

(* Mutant of BrowserStatus: the probe alone decides. *)
BrowserStatusAlone ==
  /\ Receives({"browser_status"})
  /\ LET e == Head(toServer)
         s == [status |-> e.account, accounts |-> e.list, chain |-> e.chain]
     IN ui' = [ui EXCEPT !.browser = s,
                         !.wallet = IF s.accounts = <<>> THEN "disconnected"
                                    ELSE DeriveBrowserState(s.accounts[1], s)]
  /\ PushesNothing /\ UNCHANGED rows

BrowserStatus ==
  /\ Receives({"browser_status"})
  /\ LET e == Head(toServer)
         s == [status |-> e.account, accounts |-> e.list, chain |-> e.chain]
     IN ui' = [ui EXCEPT !.browser = s,
                         !.wallet = DeriveWalletState(ui.binding, rows, s)]
  /\ PushesNothing /\ UNCHANGED rows

-----------------------------------------------------------------------------
(* The hook handles what the page pushes, and the user's clicks. *)

HookReceives(name) ==
  /\ page.mounted
  /\ toBrowser # <<>> /\ Head(toBrowser).event = name
  /\ toBrowser' = Tail(toBrowser)
  /\ UNCHANGED <<wallet, serverVars, signed, left>>

(* beginConnect *)
ConnectTasks(w) == Call(Task("connect", w))
ConnectEvents(w) == <<Msg(IF w = None THEN "unavailable" ELSE "connecting")>>

SignChallenge ==
  /\ HookReceives("challenge")
  /\ LET m == Head(toBrowser)
         w == GetProvider(page)
     IN /\ tasks' = tasks (+) Call([Task("sign", w) EXCEPT
                                     !.id = m.id, !.account = m.account])
        /\ toServer' = toServer \o
             IF w = None THEN <<[Msg("verify_error") EXCEPT !.id = m.id]>>
                         ELSE <<>>
  /\ UNCHANGED <<stored, page>>

(* selectByUuid notifies before beginConnect pushes its event. *)
UseProvider ==
  /\ HookReceives("use_provider")
  /\ LET w == Head(toBrowser).account
     IN stored' = w /\ Notify([page EXCEPT !.selected = w],
                              tasks (+) ConnectTasks(w), ConnectEvents(w))

RevokePermissions ==
  /\ HookReceives("revoke_permissions")
  /\ tasks' = tasks (+) Call(Task("revoke", GetProvider(page)))
  /\ UNCHANGED <<stored, page, toServer>>

UserClicks(states) ==
  /\ page.mounted /\ ui.wallet \in states
  /\ UserActs
  /\ UNCHANGED <<wallet, stored, page, toBrowser, serverVars, signed>>

(* The card shows a list of wallets instead of the button if it knows two. *)
ClickConnect ==
  /\ UserClicks({"disconnected", "connecting", "browser_disconnected",
                 "account_mismatch"})
  /\ ui.wallet = "disconnected" => Len(ui.providers) <= 1
  /\ tasks' = tasks (+) ConnectTasks(GetProvider(page))
  /\ toServer' = toServer \o ConnectEvents(GetProvider(page))

PickWallet ==
  /\ UserClicks({"disconnected"})
  /\ Len(ui.providers) > 1
  /\ \E w \in Range(ui.providers) :
       toServer' = Append(toServer, [Msg("select_provider") EXCEPT
                                       !.account = w])
  /\ UNCHANGED tasks

ClickDisconnect ==
  /\ UserClicks({"connected", "browser_disconnected", "wrong_chain",
                 "account_mismatch"})
  /\ toServer' = Append(toServer, Msg("disconnect"))
  /\ UNCHANGED tasks

-----------------------------------------------------------------------------
(* Inside the wallet: the user switches or removes accounts, or the chain. *)

AccountsChange(w) ==
  /\ UserActs
  /\ wallet[w].accounts # <<>>
  /\ \E e \in Exposures : e # wallet[w].accounts /\ Exposes(w, e, tasks)
  /\ UNCHANGED <<stored, page, signed>> /\ TaskStep

(* "Disconnect this site" does not reliably emit an event. *)
SiteRemovedSilently(w) ==
  /\ UserActs
  /\ wallet[w].accounts # <<>>
  /\ wallet' = [wallet EXCEPT ![w].accounts = <<>>]
  /\ UNCHANGED <<stored, page, tasks, toServer, signed>> /\ TaskStep

ChainChanges(w) ==
  /\ UserActs
  /\ \E c \in Chains \ {wallet[w].chain} :
       wallet' = [wallet EXCEPT ![w].chain = c]
  /\ tasks' = IF page.attached # w THEN tasks
              ELSE tasks (+) SetToBag({Task("probe", GetProvider(page)),
                                       Task("recheck", GetProvider(page))})
  /\ UNCHANGED <<stored, page, toServer, signed>> /\ TaskStep

(* Five minutes pass: every challenge issued so far is too old. *)
TimePasses ==
  /\ Spend
  /\ rows # <<>>
  /\ rows' = [r \in DOMAIN rows |-> [rows[r] EXCEPT !.expired = TRUE]]
  /\ UNCHANGED <<browserVars, toServer, toBrowser, ui, signed>>

WalletAnswers ==
  \E t \in BagToSet(tasks) :
    \/ ProbeAccounts(t) \/ ProbeChain(t) \/ ProbePush(t)
    \/ ScanFinds(t) \/ ScanSkips(t)
    \/ ConnectApproved(t) \/ ConnectDeclined(t)
    \/ ChainRead(t) \/ Recheck(t)
    \/ Signs(t) \/ RefusesToSign(t) \/ RevokesPermissions(t)

WalletFails ==
  \E t \in BagToSet(tasks) : ProbeFails(t) \/ RequestFails(t) \/ ScanFails(t)

PageHandles ==
  \/ ProvidersDiscovered \/ SelectProvider \/ Connecting \/ Connected
  \/ Verify \/ WrongChain \/ GivesUp \/ Disconnected \/ Disconnect
  \/ BrowserStatus

HookHandles == SignChallenge \/ UseProvider \/ RevokePermissions

User == ClickConnect \/ PickWallet \/ ClickDisconnect \/ Reload \/ TimePasses

Inside == \E w \in Wallets : \/ AccountsChange(w) \/ ChainChanges(w)
                             \/ SiteRemovedSilently(w)

Loads == Mount \/ \E w \in Wallets : Announce(w)

Next == Loads \/ WalletAnswers \/ WalletFails \/ PageHandles \/ HookHandles
        \/ User \/ Inside

Spec == Init /\ [][Next]_vars

(* A popup is answered sooner or later, and what is queued gets handled;   *)
(* that a wallet announces itself is not assumed.                          *)
FairSpec == Spec /\ WF_vars(WalletAnswers) /\ WF_vars(PageHandles)
                 /\ WF_vars(HookHandles) /\ WF_vars(Mount)

-----------------------------------------------------------------------------
(* A binding is verified only when its own address has signed its own      *)
(* challenge, whichever account the wallet signed with and however         *)
(* challenges, signatures and the card's binding pass each other           *)
(* (verify_and_bind, wallet_bindings.ex:119-139 and 228-253).              *)
ProvenBinding ==
  \A r \in DOMAIN rows :
    rows[r].stamp > 0 => <<r, rows[r].address>> \in signed

(* A verified binding on the card is the workspace's active one: the one   *)
(* the install, the other pages and the next mount use (agent_live.ex:301).*)
CardShowsActive ==
  ui.binding \in Bound(rows) =>
    \A q \in Bound(rows) : rows[q].stamp <= rows[ui.binding].stamp

(* "Connected" needs a verified binding that is not revoked, and a probe   *)
(* that saw its address on Base Sepolia (agent_live.ex:1569-1594).         *)
PillIsBacked ==
  ui.wallet = "connected" =>
    /\ ui.binding \in Bound(rows)
    /\ rows[ui.binding].address \in Range(ui.browser.accounts)
    /\ ui.browser.chain \in Supported

(* Every "connecting" is cleared by an event of the hook                   *)
(* (agent_live.ex:250-254).                                                *)
ConnectAnswered == ui.wallet = "connecting" ~> ui.wallet # "connecting"

StateOfRow(r) ==
  IF r \notin DOMAIN rows THEN "none"
  ELSE IF rows[r].revoked THEN "revoked"
  ELSE IF rows[r].stamp > 0 THEN "verified"
  ELSE IF rows[r].expired THEN "expired"
  ELSE "pending"

Lifecycle == INSTANCE BindingLifecycle WITH
  Rows <- 1..MaxRows, state <- [r \in 1..MaxRows |-> StateOfRow(r)]

(* Each row lives the documented life of a binding. *)
ImplementsLifecycle == Lifecycle!Spec

-----------------------------------------------------------------------------
(* What the code does not guarantee. *)

(* "The disconnect button revokes the active binding before resetting the  *)
(* local UI" (docs/wallet-connect.md:113): afterwards none is active.      *)
DisconnectClears == [][Disconnect => Bound(rows') = {}]_vars

(* autoSelectActive is idempotent: "once a selection lands, subsequent     *)
(* calls no-op" (wallet_connect.js:107-108); only the user changes it.     *)
SelectionSticks ==
  [][page.selected # None /\ page'.selected \notin {None, page.selected}
       => UseProvider]_vars

(* "connecting" is cleared by the events that end the connect             *)
(* (agent_live.ex:250-254), not by a probe while the popup is still open.  *)
ConnectingStays ==
  [][ui.wallet = "connecting" /\ ui'.wallet # "connecting"
       => ~BrowserStatus \/ \A t \in BagToSet(tasks) : t.kind # "connect"]_vars

(* "Connected" always reflects what the wallet exposes once every probe    *)
(* and event is through (agent_live.ex:378-380).                           *)
PillReflects ==
  ui.wallet = "connected" /\ tasks = EmptyBag /\ toServer = <<>> =>
    LET w == wallet[GetProvider(page)]
    IN rows[ui.binding].address \in Range(w.accounts) /\ w.chain \in Supported

(* A pick in localStorage is restored "as soon as that wallet announces"   *)
(* (wallet_provider.js:76-79): no scan replaces it before that.            *)
PickSurvivesReload ==
  [][page.selected = None /\ stored # None /\ stored' # stored
       => UseProvider]_vars
=============================================================================
