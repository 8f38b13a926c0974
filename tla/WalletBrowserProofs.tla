------------------------- MODULE WalletBrowserProofs -------------------------
(* Theorems about WalletBrowser for any wallets, accounts and exposures,   *)
(* however many calls and events are under way.                            *)
EXTENDS WalletBrowser, SequenceTheorems, FiniteSetTheorems, TLAPS

PageRow == [mounted : BOOLEAN, announced : Seq(Wallets),
            selected : Wallets \cup {None}, attached : Wallets \cup {None}]

UiRow == [wallet : CardStates, binding : Nat, browser : Snapshot,
          providers : Seq(Wallets)]

Status == {"unknown", "no_provider", "no_account", "exposed_account"}

Steps == Nat \ {0}

CallRow == [kind : Kinds, on : Wallets \cup {None}, step : Steps,
            account : Accounts \cup {None}, list : Exposures,
            chain : Chains \cup {None}, id : Nat]

(* A call of the hook that may be under way when the rows are rs: who is  *)
(* asked to sign was issued that challenge, and what is reported as        *)
(* connected is an account.                                                *)
Sound(t, rs) ==
  /\ t.kind # "scan" => t.on \in Wallets
  /\ t.kind = "refresh" \/ (t.kind = "connect" /\ t.step = 2) =>
       t.account \in Accounts
  /\ t.kind = "sign" => t.id \in DOMAIN rs /\ t.account = rs[t.id].address

Calls(rs) == {t \in CallRow : Sound(t, rs)}

Events == {"providers_discovered", "browser_status", "connecting", "connected",
           "wrong_chain", "disconnected", "cancelled", "error", "unavailable",
           "verify", "verify_error", "disconnect", "select_provider",
           "use_provider", "challenge", "revoke_permissions"}

Message ==
  [event : Events, account : Accounts \cup Wallets \cup Status \cup {None},
   list : Exposures \cup Seq(Wallets), chain : Chains \cup {None}, id : Nat]

(* What the hook may have told the page and the page has yet to handle,    *)
(* given the rows, the signatures sg and the wallets met: a verification   *)
(* carries a signature of whoever it recovers to, if of anyone, over the   *)
(* challenge it names.                                                     *)
Told(m, rs, sg, met) ==
  /\ m.event = "providers_discovered" =>
       m.list \in Seq(Wallets) /\ Range(m.list) \subseteq met
  /\ m.event = "connected" => m.account \in Accounts
  /\ m.event = "verify" =>
       /\ m.id \in DOMAIN rs
       /\ m.account \in Accounts => <<m.id, m.account>> \in sg
  /\ m.event = "browser_status" => m.account \in Status /\ m.list \in Exposures

ToServer(rs, sg, met) == {m \in Message : Told(m, rs, sg, met)}

(* What the page may have asked of the hook. *)
Asked(m, rs, met) ==
  /\ m.event = "challenge" =>
       m.id \in DOMAIN rs /\ m.account = rs[m.id].address
  /\ m.event = "use_provider" => m.account \in met

ToBrowser(rs, met) == {m \in Message : Asked(m, rs, met)}

Met == Range(page.announced)

(* The hook listens and calls only where there is a provider. *)
PageInv ==
  /\ page \in PageRow
  /\ IsInjective(page.announced)
  /\ page.selected \in Range(page.announced) \cup {None}
  /\ page.attached # None => GetProvider(page) # None
  /\ BagToSet(tasks) # {} => GetProvider(page) # None

QueueInv ==
  /\ BagToSet(tasks) \subseteq Calls(rows)
  /\ toServer \in Seq(ToServer(rows, signed, Met))
  /\ toBrowser \in Seq(ToBrowser(rows, Met))

UiInv ==
  /\ ui \in UiRow /\ ui.binding \in 0..Len(rows)
  /\ Range(ui.providers) \subseteq Met

RowsInv ==
  /\ rows \in Seq(Row)
  /\ signed \subseteq (1..Len(rows)) \X Accounts

WalletInv ==
  /\ wallet \in [Wallets -> [accounts : Exposures, chain : Chains]]
  /\ stored \in Wallets \cup {None}
  /\ left \in 0..MaxActs

TypeInv == WalletInv /\ PageInv /\ QueueInv /\ UiInv /\ RowsInv

(* Of any of the rows there is a newest one. *)
Newest(rs) ==
  \A S \in SUBSET DOMAIN rs : S # {} =>
    \E r \in S : \A q \in S : rs[q].stamp <= rs[r].stamp

NewestExists == Newest(rows)

BindingInv == NewestExists /\ ProvenBinding /\ CardShowsActive /\ PillIsBacked

Inv == TypeInv /\ BindingInv

-----------------------------------------------------------------------------
(* Lemmas about the operators. *)

LEMMA BagSets ==
  /\ BagToSet(EmptyBag) = {}
  /\ \A A, B : BagToSet(A (+) B) = BagToSet(A) \cup BagToSet(B)
  /\ \A A, B : BagToSet(A (-) B) \subseteq BagToSet(A)
  /\ \A S : BagToSet(SetToBag(S)) = S
  /\ \A t : BagToSet(Call(t)) = IF t.on = None THEN {} ELSE {t}
<1>1. BagToSet(EmptyBag) = {}
  BY DEF EmptyBag, SetToBag, BagToSet
<1>2. \A A, B : BagToSet(A (+) B) = BagToSet(A) \cup BagToSet(B)
  BY DEF (+), BagToSet
<1>3. \A A, B : BagToSet(A (-) B) \subseteq BagToSet(A)
  BY DEF (-), BagToSet
<1>4. \A S : BagToSet(SetToBag(S)) = S
  BY DEF SetToBag, BagToSet
<1>5. \A t : BagToSet(Call(t)) = IF t.on = None THEN {} ELSE {t}
  BY <1>1, <1>4 DEF Call
<1> QED BY <1>1, <1>2, <1>3, <1>4, <1>5

LEMMA Constants ==
  /\ Legacy \in Wallets \cup {None} /\ None \notin Wallets
  /\ \A e \in Exposures : e \in Seq(Accounts)
  /\ <<>> \in Exposures /\ MaxActs \in Nat /\ Supported \subseteq Chains
BY WalletAssumption, WalletBounds DEF Supported, Chains

(* The first account of an exposure that is not empty. *)
LEMMA FirstAccount ==
  ASSUME NEW e \in Exposures, e # <<>>
  PROVE  Head(e) \in Accounts /\ Head(e) \in Range(e)
<1>1. e \in Seq(Accounts)
  BY Constants
<1> QED BY <1>1 DEF Range

(* Ranges of the sequences that the registry and the queues are.           *)
LEMMA SeqRange ==
  ASSUME NEW S, NEW s \in Seq(S)
  PROVE  /\ Range(s) \subseteq S /\ (s # <<>> => Head(s) \in Range(s))
         /\ s # <<>> => Tail(s) \in Seq(S)
         /\ \A e \in S : Append(s, e) \in Seq(S) /\
                         Range(Append(s, e)) = Range(s) \cup {e}
<1>1. Len(s) \in Nat /\ DOMAIN s = 1..Len(s) /\ \A k \in 1..Len(s) : s[k] \in S
  BY LenProperties, ElementOfSeq
<1>2. Range(s) \subseteq S
  BY <1>1 DEF Range
<1>3. s # <<>> => Head(s) \in Range(s) /\ Tail(s) \in Seq(S)
  BY <1>1 DEF Range
<1>4. ASSUME NEW e \in S
      PROVE  Append(s, e) \in Seq(S) /\ Range(Append(s, e)) = Range(s) \cup {e}
  <2>1. /\ Append(s, e) \in Seq(S) /\ Len(Append(s, e)) = Len(s) + 1
        /\ \A k \in 1..Len(s) : Append(s, e)[k] = s[k]
        /\ Append(s, e)[Len(s) + 1] = e
    BY AppendProperties
  <2>2. DOMAIN Append(s, e) = 1..(Len(s) + 1)
    BY <2>1, LenProperties
  <2> QED BY <1>1, <2>1, <2>2 DEF Range
<1> QED BY <1>2, <1>3, <1>4

LEMMA AppendKeepsInjective ==
  ASSUME NEW S, NEW s \in Seq(S), IsInjective(s), NEW e \in S, e \notin Range(s)
  PROVE  IsInjective(Append(s, e))
<1>1. Len(s) \in Nat /\ DOMAIN s = 1..Len(s)
  BY LenProperties
<1>2. /\ Append(s, e) \in Seq(S) /\ Len(Append(s, e)) = Len(s) + 1
      /\ \A k \in 1..Len(s) : Append(s, e)[k] = s[k]
      /\ Append(s, e)[Len(s) + 1] = e
  BY AppendProperties
<1>3. DOMAIN Append(s, e) = 1..(Len(s) + 1)
  BY <1>2, LenProperties
<1>4. ASSUME NEW j \in 1..(Len(s) + 1), NEW k \in 1..(Len(s) + 1),
             Append(s, e)[j] = Append(s, e)[k]
      PROVE  j = k
  BY <1>1, <1>2, <1>4 DEF IsInjective, Range
<1> QED BY <1>3, <1>4 DEF IsInjective

(* The provider is a wallet, and the hook attaches to it.                  *)
LEMMA Provider ==
  ASSUME NEW p \in PageRow
  PROVE  /\ GetProvider(p) \in Wallets \cup {None}
         /\ p.announced # <<>> => GetProvider(p) # None
         /\ p.selected # None => GetProvider(p) # None
         /\ AttachListenersTo(p) \in PageRow
         /\ AttachListenersTo(p).mounted = p.mounted
         /\ AttachListenersTo(p).announced = p.announced
         /\ AttachListenersTo(p).selected = p.selected
         /\ AttachListenersTo(p).attached =
              IF GetProvider(p) = None THEN p.attached ELSE GetProvider(p)
         /\ GetProvider(AttachListenersTo(p)) = GetProvider(p)
<1>1. /\ p.announced \in Seq(Wallets) /\ p.selected \in Wallets \cup {None}
      /\ p.attached \in Wallets \cup {None}
  BY DEF PageRow
<1>2. /\ p.announced # <<>> => Head(p.announced) \in Wallets
  BY <1>1
<1>3. /\ GetProvider(p) \in Wallets \cup {None}
      /\ p.announced # <<>> => GetProvider(p) # None
      /\ p.selected # None => GetProvider(p) # None
  BY <1>1, <1>2, Constants DEF GetProvider
<1> DEFINE w == IF GetProvider(p) = None THEN p.attached ELSE GetProvider(p)
<1>4. AttachListenersTo(p) = [p EXCEPT !.attached = w] /\ w \in Wallets \cup {None}
  BY <1>1, <1>3 DEF AttachListenersTo
<1> HIDE DEF w
<1>5. /\ AttachListenersTo(p) \in PageRow
      /\ AttachListenersTo(p).mounted = p.mounted
      /\ AttachListenersTo(p).announced = p.announced
      /\ AttachListenersTo(p).selected = p.selected
      /\ AttachListenersTo(p).attached = w
  BY <1>4 DEF PageRow
<1> QED BY <1>3, <1>5 DEF w, GetProvider

(* Calls the hook makes. *)
LEMMA PlainCalls ==
  ASSUME NEW rs
  PROVE  /\ \A w \in Wallets, kind \in {"probe", "connect", "recheck", "revoke"} :
              Task(kind, w) \in Calls(rs) /\ Task(kind, w).on = w
         /\ Task("scan", None) \in Calls(rs)
         /\ \A w \in Wallets, a \in Accounts :
              [Task("refresh", w) EXCEPT !.account = a] \in Calls(rs)
BY Constants DEF Calls, CallRow, Sound, Task, Kinds, Steps

LEMMA SignCall ==
  ASSUME NEW rs, NEW w \in Wallets, NEW id \in DOMAIN rs, id \in Nat,
         NEW a \in Accounts, a = rs[id].address
  PROVE  /\ [Task("sign", w) EXCEPT !.id = id, !.account = a] \in Calls(rs)
         /\ [Task("sign", w) EXCEPT !.id = id, !.account = a].on = w
<1> DEFINE t == [Task("sign", w) EXCEPT !.id = id, !.account = a]
<1>1. Task("sign", w) \in CallRow
  BY Constants DEF Task, CallRow, Kinds, Steps
<1>2. t \in CallRow
  BY <1>1 DEF CallRow
<1>3. t.kind = "sign" /\ t.on = w /\ t.id = id /\ t.account = a
  BY DEF Task
<1> HIDE DEF t
<1>4. t \in Calls(rs) /\ t.on = w
  BY <1>2, <1>3 DEF Calls, Sound
<1> QED BY <1>4 DEF t

(* What may be under way stays so when rows, signatures and wallets are    *)
(* added.                                                                  *)
LEMMA Grows ==
  ASSUME NEW rs, NEW rt, DOMAIN rs \subseteq DOMAIN rt,
         \A r \in DOMAIN rs : rt[r].address = rs[r].address,
         NEW sg, NEW st, sg \subseteq st, NEW met, NEW more, met \subseteq more
  PROVE  /\ Calls(rs) \subseteq Calls(rt)
         /\ ToServer(rs, sg, met) \subseteq ToServer(rt, st, more)
         /\ \A q \in Seq(ToServer(rs, sg, met)) : q \in Seq(ToServer(rt, st, more))
         /\ \A q \in Seq(ToBrowser(rs, met)) : q \in Seq(ToBrowser(rt, more))
<1>1. Calls(rs) \subseteq Calls(rt)
  BY DEF Calls, Sound
<1>2. ToServer(rs, sg, met) \subseteq ToServer(rt, st, more)
  BY DEF ToServer, Told
<1>3. ToBrowser(rs, met) \subseteq ToBrowser(rt, more)
  BY DEF ToBrowser, Asked
<1> QED BY <1>1, <1>2, <1>3, SeqMonotonic

(* Events that carry nothing, and those that carry something. *)
LEMMA Bare ==
  ASSUME NEW name \in Events
  PROVE  /\ Msg(name) \in Message /\ Msg(name).event = name
         /\ Msg(name).list = <<>>
BY Constants DEF Msg, Message, Events

LEMMA PlainMessages ==
  ASSUME NEW rs, NEW sg, NEW met,
         NEW name \in {"disconnected", "error", "cancelled", "connecting",
                       "unavailable", "disconnect", "revoke_permissions"}
  PROVE  /\ Msg(name) \in ToServer(rs, sg, met)
         /\ Msg(name) \in ToBrowser(rs, met)
<1>1. Msg(name) \in Message /\ Msg(name).event = name
  BY Bare DEF Events
<1> QED BY <1>1 DEF ToServer, ToBrowser, Told, Asked

LEMMA ListMessage ==
  ASSUME NEW rs, NEW sg, NEW met, NEW l \in Seq(Wallets), Range(l) \subseteq met
  PROVE  [Msg("providers_discovered") EXCEPT !.list = l] \in ToServer(rs, sg, met)
<1> DEFINE m == [Msg("providers_discovered") EXCEPT !.list = l]
<1>1. m \in Message /\ m.event = "providers_discovered" /\ m.list = l
  <2>1. Msg("providers_discovered") \in Message
    BY Bare DEF Events
  <2>2. m \in Message
    BY <2>1 DEF Message
  <2>3. m.event = "providers_discovered" /\ m.list = l
    BY DEF Msg
  <2> QED BY <2>2, <2>3
<1> HIDE DEF m
<1>2. m \in ToServer(rs, sg, met)
  BY <1>1 DEF ToServer, Told
<1> QED BY <1>2 DEF m

LEMMA StatusMessage ==
  ASSUME NEW rs, NEW sg, NEW met, NEW s \in Status, NEW l \in Exposures,
         NEW c \in Chains \cup {None}
  PROVE  [Msg("browser_status") EXCEPT !.account = s, !.list = l, !.chain = c]
           \in ToServer(rs, sg, met)
<1> DEFINE m == [Msg("browser_status") EXCEPT !.account = s, !.list = l,
                                             !.chain = c]
<1>1. Msg("browser_status") \in Message
  BY Bare DEF Events
<1>2. m \in Message
  BY <1>1 DEF Message
<1>3. m.event = "browser_status" /\ m.account = s /\ m.list = l
  BY DEF Msg
<1> HIDE DEF m
<1>4. m \in ToServer(rs, sg, met)
  BY <1>2, <1>3 DEF ToServer, Told
<1> QED BY <1>4 DEF m

LEMMA NoProviderMessage ==
  ASSUME NEW rs, NEW sg, NEW met
  PROVE  [Msg("browser_status") EXCEPT !.account = "no_provider"]
           \in ToServer(rs, sg, met)
<1> DEFINE m == [Msg("browser_status") EXCEPT !.account = "no_provider"]
<1>1. Msg("browser_status") \in Message
  BY Bare DEF Events
<1>2. m \in Message
  BY <1>1 DEF Message, Status
<1>3. m.event = "browser_status" /\ m.account = "no_provider" /\ m.list = <<>>
  BY DEF Msg
<1> HIDE DEF m
<1>4. m \in ToServer(rs, sg, met)
  BY <1>2, <1>3, Constants DEF ToServer, Told, Status
<1> QED BY <1>4 DEF m

LEMMA ChainMessage ==
  ASSUME NEW rs, NEW sg, NEW met, NEW name \in {"connected", "wrong_chain"},
         NEW a \in Accounts, NEW c \in Chains
  PROVE  [Msg(name) EXCEPT !.account = a, !.chain = c] \in ToServer(rs, sg, met)
<1> DEFINE m == [Msg(name) EXCEPT !.account = a, !.chain = c]
<1>1. Msg(name) \in Message
  BY Bare DEF Events
<1>2. m \in Message
  BY <1>1 DEF Message
<1>3. m.event = name /\ m.account = a
  BY DEF Msg
<1> HIDE DEF m
<1>4. m \in ToServer(rs, sg, met)
  BY <1>2, <1>3 DEF ToServer, Told
<1> QED BY <1>4 DEF m

LEMMA PickMessage ==
  ASSUME NEW rs, NEW sg, NEW met, NEW w \in Wallets
  PROVE  [Msg("select_provider") EXCEPT !.account = w] \in ToServer(rs, sg, met)
<1> DEFINE m == [Msg("select_provider") EXCEPT !.account = w]
<1>1. Msg("select_provider") \in Message
  BY Bare DEF Events
<1>2. m \in Message
  BY <1>1 DEF Message
<1>3. m.event = "select_provider"
  BY DEF Msg
<1> HIDE DEF m
<1>4. m \in ToServer(rs, sg, met)
  BY <1>2, <1>3 DEF ToServer, Told
<1> QED BY <1>4 DEF m

LEMMA SignMessages ==
  ASSUME NEW rs, NEW sg, NEW met, NEW id \in Nat, id \in DOMAIN rs
  PROVE  /\ [Msg("verify_error") EXCEPT !.id = id] \in ToServer(rs, sg, met)
         /\ \A signer \in Accounts \cup {None} :
              (signer \in Accounts => <<id, signer>> \in sg) =>
                [Msg("verify") EXCEPT !.id = id, !.account = signer]
                  \in ToServer(rs, sg, met)
<1>1. Msg("verify") \in Message /\ Msg("verify_error") \in Message
  BY Bare DEF Events
<1>2. [Msg("verify_error") EXCEPT !.id = id] \in ToServer(rs, sg, met)
  <2> DEFINE m == [Msg("verify_error") EXCEPT !.id = id]
  <2>1. m \in Message /\ m.event = "verify_error"
    BY <1>1 DEF Message, Msg
  <2> HIDE DEF m
  <2>2. m \in ToServer(rs, sg, met)
    BY <2>1 DEF ToServer, Told
  <2> QED BY <2>2 DEF m
<1>3. ASSUME NEW signer \in Accounts \cup {None},
             signer \in Accounts => <<id, signer>> \in sg
      PROVE  [Msg("verify") EXCEPT !.id = id, !.account = signer]
               \in ToServer(rs, sg, met)
  <2> DEFINE m == [Msg("verify") EXCEPT !.id = id, !.account = signer]
  <2>1. m \in Message
    BY <1>1 DEF Message
  <2>2. m.event = "verify" /\ m.id = id /\ m.account = signer
    BY DEF Msg
  <2> HIDE DEF m
  <2>3. m \in ToServer(rs, sg, met)
    BY <1>3, <2>1, <2>2 DEF ToServer, Told
  <2> QED BY <2>3 DEF m
<1> QED BY <1>2, <1>3

LEMMA UseMessage ==
  ASSUME NEW rs, NEW met, NEW w \in met, w \in Wallets
  PROVE  [Msg("use_provider") EXCEPT !.account = w] \in ToBrowser(rs, met)
<1> DEFINE m == [Msg("use_provider") EXCEPT !.account = w]
<1>1. Msg("use_provider") \in Message
  BY Bare DEF Events
<1>2. m \in Message
  BY <1>1 DEF Message
<1>3. m.event = "use_provider" /\ m.account = w
  BY DEF Msg
<1> HIDE DEF m
<1>4. m \in ToBrowser(rs, met)
  BY <1>2, <1>3 DEF ToBrowser, Asked
<1> QED BY <1>4 DEF m

LEMMA ChallengeMessage ==
  ASSUME NEW rs, NEW met, NEW id \in DOMAIN rs, id \in Nat, NEW a \in Accounts,
         a = rs[id].address
  PROVE  [Msg("challenge") EXCEPT !.id = id, !.account = a] \in ToBrowser(rs, met)
<1> DEFINE m == [Msg("challenge") EXCEPT !.id = id, !.account = a]
<1>1. Msg("challenge") \in Message
  BY Bare DEF Events
<1>2. m \in Message
  BY <1>1 DEF Message
<1>3. m.event = "challenge" /\ m.id = id /\ m.account = a
  BY DEF Msg
<1> HIDE DEF m
<1>4. m \in ToBrowser(rs, met)
  BY <1>2, <1>3 DEF ToBrowser, Asked
<1> QED BY <1>4 DEF m

-----------------------------------------------------------------------------
(* What a notification of the hook leaves behind. *)

LEMMA Callback ==
  ASSUME NEW p \in PageRow, NEW rs, NEW sg
  PROVE  /\ BagToSet(CallbackTasks(p)) \subseteq Calls(rs)
         /\ BagToSet(CallbackTasks(p)) # {} => GetProvider(p) # None
         /\ CallbackEvents(p) \in Seq(ToServer(rs, sg, Range(p.announced)))
<1> DEFINE S == ToServer(rs, sg, Range(p.announced))
           probe == Task("probe", GetProvider(p))
<1>1. /\ GetProvider(p) \in Wallets \cup {None}
      /\ p.announced # <<>> => GetProvider(p) # None
      /\ p.announced \in Seq(Wallets)
  BY Provider DEF PageRow
<1>2. /\ GetProvider(p) # None => probe \in Calls(rs)
      /\ probe.on = GetProvider(p) /\ Task("scan", None) \in Calls(rs)
  BY <1>1, PlainCalls DEF Task
<1>3. BagToSet(CallbackTasks(p)) =
        BagToSet(Call(probe)) \cup
        BagToSet(IF p.selected = None /\ p.announced # <<>>
                   THEN SetToBag({Task("scan", None)}) ELSE EmptyBag)
  BY BagSets DEF CallbackTasks
<1>4. /\ GetProvider(p) = None => BagToSet(Call(probe)) = {}
      /\ BagToSet(Call(probe)) \subseteq Calls(rs)
  BY <1>2, BagSets
<1>5. /\ BagToSet(CallbackTasks(p)) \subseteq Calls(rs)
      /\ BagToSet(CallbackTasks(p)) # {} => GetProvider(p) # None
  BY <1>1, <1>2, <1>3, <1>4, BagSets
<1>6. <<[Msg("providers_discovered") EXCEPT !.list = p.announced]>> \in Seq(S)
  BY <1>1, ListMessage
<1>7. (IF GetProvider(p) = None
         THEN <<[Msg("browser_status") EXCEPT !.account = "no_provider"]>>
         ELSE <<>>) \in Seq(S)
  <2> DEFINE m == [Msg("browser_status") EXCEPT !.account = "no_provider"]
  <2>1. m \in S
    BY NoProviderMessage
  <2> HIDE DEF m, S
  <2>2. (IF GetProvider(p) = None THEN <<m>> ELSE <<>>) \in Seq(S)
    BY <2>1
  <2> QED BY <2>2 DEF m
<1> HIDE DEF S
<1>8. CallbackEvents(p) \in Seq(S)
  BY <1>6, <1>7, ConcatProperties DEF CallbackEvents
<1> QED BY <1>5, <1>8 DEF S

LEMMA Notifies ==
  ASSUME TypeInv, NEW p \in PageRow, NEW running, NEW events,
         Notify(p, running, events),
         BagToSet(running) \subseteq Calls(rows),
         events \in Seq(ToServer(rows, signed, Range(p.announced))),
         IsInjective(p.announced), p.selected \in Range(p.announced) \cup {None},
         Met \subseteq Range(p.announced),
         p.attached # None => GetProvider(p) # None,
         BagToSet(running) # {} => GetProvider(p) # None
  PROVE  /\ PageInv' /\ Met' = Range(p.announced)
         /\ BagToSet(tasks') \subseteq Calls(rows)
         /\ toServer' \in Seq(ToServer(rows, signed, Range(p.announced)))
<1> DEFINE S == ToServer(rows, signed, Range(p.announced))
<1>1. toServer \in Seq(S)
  BY Grows DEF TypeInv, QueueInv
<1>2. /\ BagToSet(CallbackTasks(p)) \subseteq Calls(rows)
      /\ BagToSet(CallbackTasks(p)) # {} => GetProvider(p) # None
      /\ CallbackEvents(p) \in Seq(S)
  BY Callback
<1> HIDE DEF S
<1>3. CASE p.mounted
  <2>1. /\ page' = AttachListenersTo(p)
        /\ tasks' = running (+) CallbackTasks(p)
        /\ toServer' = toServer \o CallbackEvents(p) \o events
    BY <1>3 DEF Notify
  <2>2. toServer' \in Seq(S)
    <3>1. events \in Seq(S)
      BY DEF S
    <3>2. toServer \o CallbackEvents(p) \in Seq(S)
      BY <1>1, <1>2, ConcatProperties
    <3> QED BY <2>1, <3>1, <3>2, ConcatProperties
  <2>3. BagToSet(tasks') = BagToSet(running) \cup BagToSet(CallbackTasks(p))
    BY <2>1, BagSets
  <2>4. /\ page' \in PageRow /\ page'.announced = p.announced
        /\ page'.selected = p.selected
        /\ page'.attached = IF GetProvider(p) = None THEN p.attached
                                                     ELSE GetProvider(p)
        /\ GetProvider(page') = GetProvider(p)
    BY <2>1, Provider
  <2>5. PageInv'
    BY <1>2, <2>3, <2>4 DEF PageInv
  <2> QED BY <1>2, <2>2, <2>3, <2>4, <2>5 DEF Met, S
<1>4. CASE ~p.mounted
  <2>1. page' = p /\ tasks' = running /\ toServer' = toServer \o events
    BY <1>4 DEF Notify
  <2>2. toServer' \in Seq(S)
    <3>1. events \in Seq(S)
      BY DEF S
    <3> QED BY <1>1, <2>1, <3>1, ConcatProperties
  <2>3. PageInv'
    BY <2>1 DEF PageInv
  <2> QED BY <2>1, <2>2, <2>3 DEF Met, S
<1> QED BY <1>3, <1>4

(* A wallet's new accounts reach the hook if it listens to that wallet.    *)
LEMMA Exposed ==
  ASSUME TypeInv, NEW w \in Wallets, NEW e \in Exposures, NEW running,
         Exposes(w, e, running), BagToSet(running) \subseteq Calls(rows),
         BagToSet(running) # {} => GetProvider(page) # None
  PROVE  /\ wallet' \in [Wallets -> [accounts : Exposures, chain : Chains]]
         /\ BagToSet(tasks') \subseteq Calls(rows)
         /\ BagToSet(tasks') # {} => GetProvider(page) # None
         /\ toServer' \in Seq(ToServer(rows, signed, Met))
<1> DEFINE S == ToServer(rows, signed, Met)
           v == GetProvider(page)
           probe == Task("probe", v)
           refresh == [Task("refresh", v) EXCEPT !.account = Head(e)]
           more == IF e = <<>> THEN EmptyBag ELSE SetToBag({refresh})
           events == IF e = <<>> THEN <<Msg("disconnected")>> ELSE <<>>
<1>1. wallet' \in [Wallets -> [accounts : Exposures, chain : Chains]]
  BY DEF Exposes, TypeInv, WalletInv
<1>2. toServer \in Seq(S)
  BY DEF TypeInv, QueueInv
<1>3. events \in Seq(S)
  BY PlainMessages
<1>4. v \in Wallets \cup {None}
  BY Provider DEF TypeInv, PageInv
<1>5. v # None => BagToSet(more) \subseteq Calls(rows) /\ probe \in Calls(rows)
  BY <1>4, FirstAccount, PlainCalls, BagSets
<1>6. CASE page.attached = w /\ e # wallet[w].accounts
  <2>1. tasks' = running (+) SetToBag({probe}) (+) more
        /\ toServer' = toServer \o events
    BY <1>6 DEF Exposes, OnAccountsChanged
  <2>2. v # None
    BY <1>6, Constants DEF TypeInv, PageInv
  <2> HIDE DEF more, probe, events, S, v
  <2>3. BagToSet(tasks') = BagToSet(running) \cup {probe} \cup BagToSet(more)
    BY <2>1, BagSets
  <2>4. toServer' \in Seq(S)
    BY <1>2, <1>3, <2>1, ConcatProperties
  <2> QED BY <1>1, <1>5, <2>2, <2>3, <2>4 DEF v, S
<1>7. CASE ~(page.attached = w /\ e # wallet[w].accounts)
  BY <1>1, <1>2, <1>7 DEF Exposes
<1> QED BY <1>6, <1>7

-----------------------------------------------------------------------------
(* What a step keeps that leaves the page's rows and its card alone. *)

LEMMA BrowserFrame ==
  ASSUME Inv, UNCHANGED <<ui, rows>>, signed \subseteq signed',
         signed' \subseteq (1..Len(rows)) \X Accounts, Met \subseteq Met',
         WalletInv', PageInv', BagToSet(tasks') \subseteq Calls(rows),
         toServer' \in Seq(ToServer(rows, signed', Met')),
         toBrowser' \in Seq(ToBrowser(rows, Met))
  PROVE  Inv'
<1>1. QueueInv'
  BY Grows DEF QueueInv
<1>2. UiInv' /\ RowsInv'
  BY DEF Inv, TypeInv, UiInv, RowsInv
<1>3. BindingInv'
  BY DEF Inv, BindingInv, NewestExists, Newest, ProvenBinding,
         CardShowsActive, PillIsBacked, Bound
<1> QED BY <1>1, <1>2, <1>3 DEF Inv, TypeInv

LEMMA TaskFrame ==
  ASSUME Inv, UNCHANGED <<page, toBrowser, ui, rows>>, signed \subseteq signed',
         signed' \subseteq (1..Len(rows)) \X Accounts, WalletInv',
         BagToSet(tasks') \subseteq Calls(rows),
         BagToSet(tasks') # {} => GetProvider(page) # None,
         toServer' \in Seq(ToServer(rows, signed', Met))
  PROVE  Inv'
<1>1. Met' = Met
  BY DEF Met
<1>2. PageInv'
  BY DEF Inv, TypeInv, PageInv
<1>3. toBrowser' \in Seq(ToBrowser(rows, Met))
  BY DEF Inv, TypeInv, QueueInv
<1> QED BY <1>1, <1>2, <1>3, BrowserFrame

LEMMA Swapped ==
  ASSUME BagToSet(tasks) \subseteq Calls(rows), NEW t, NEW u \in Calls(rows)
  PROVE  /\ BagToSet(Without(t)) \subseteq Calls(rows)
         /\ BagToSet(Without(t)) \subseteq BagToSet(tasks)
         /\ BagToSet(And(Without(t), u)) \subseteq Calls(rows)
BY BagSets DEF Without, And

(* The calls a call under way becomes as it goes on. *)
LEMMA Continues ==
  ASSUME NEW rs, NEW t \in Calls(rs), t.kind \in {"probe", "scan"},
         NEW l \in Exposures, NEW c \in Chains
  PROVE  /\ [t EXCEPT !.step = 2, !.list = l] \in Calls(rs)
         /\ [t EXCEPT !.step = 3, !.chain = c] \in Calls(rs)
         /\ [t EXCEPT !.step = t.step + 1] \in Calls(rs)
<1> DEFINE t1 == [t EXCEPT !.step = 2, !.list = l]
           t2 == [t EXCEPT !.step = 3, !.chain = c]
           t3 == [t EXCEPT !.step = t.step + 1]
<1>1. t \in CallRow /\ (t.kind # "scan" => t.on \in Wallets)
      /\ t.step + 1 \in Steps /\ 2 \in Steps /\ 3 \in Steps
  BY DEF Calls, Sound, CallRow, Steps
<1>2. t1 \in CallRow /\ t2 \in CallRow /\ t3 \in CallRow
  BY <1>1 DEF CallRow
<1>3. /\ t1.kind = t.kind /\ t2.kind = t.kind /\ t3.kind = t.kind
      /\ t1.on = t.on /\ t2.on = t.on /\ t3.on = t.on
  BY <1>1 DEF CallRow
<1> HIDE DEF t1, t2, t3
<1>4. t1 \in Calls(rs) /\ t2 \in Calls(rs) /\ t3 \in Calls(rs)
  BY <1>1, <1>2, <1>3 DEF Calls, Sound
<1> QED BY <1>4 DEF t1, t2, t3

LEMMA ConnectContinues ==
  ASSUME NEW rs, NEW t \in Calls(rs), t.kind = "connect", NEW a \in Accounts
  PROVE  [t EXCEPT !.step = 2, !.account = a] \in Calls(rs)
<1> DEFINE u == [t EXCEPT !.step = 2, !.account = a]
<1>1. t \in CallRow /\ t.on \in Wallets /\ 2 \in Steps
  BY DEF Calls, Sound, Steps
<1>2. u \in CallRow
  BY <1>1 DEF CallRow
<1>3. u.kind = "connect" /\ u.on = t.on /\ u.account = a
  BY <1>1 DEF CallRow
<1> HIDE DEF u
<1>4. u \in Calls(rs)
  BY <1>1, <1>2, <1>3 DEF Calls, Sound
<1> QED BY <1>4 DEF u

-----------------------------------------------------------------------------
(* The steps of a call of the hook. *)

LEMMA CallFacts ==
  ASSUME Inv, NEW t \in BagToSet(tasks)
  PROVE  /\ t \in Calls(rows) /\ t \in CallRow /\ Sound(t, rows)
         /\ GetProvider(page) \in Wallets
         /\ \A u : BagToSet(Without(u)) \subseteq Calls(rows)
         /\ \A u \in Calls(rows) : BagToSet(And(Without(t), u)) \subseteq Calls(rows)
         /\ toServer \in Seq(ToServer(rows, signed, Met))
         /\ WalletInv /\ signed \subseteq (1..Len(rows)) \X Accounts
<1>1. t \in Calls(rows)
  BY DEF Inv, TypeInv, QueueInv
<1>2. GetProvider(page) \in Wallets
  BY Provider DEF Inv, TypeInv, PageInv
<1>3. \A u : BagToSet(Without(u)) \subseteq Calls(rows)
  BY BagSets DEF Without, Inv, TypeInv, QueueInv
<1>4. \A u \in Calls(rows) : BagToSet(And(Without(t), u)) \subseteq Calls(rows)
  BY <1>3, BagSets DEF And
<1> QED BY <1>1, <1>2, <1>3, <1>4 DEF Calls, Inv, TypeInv, QueueInv, RowsInv

(* A call that only goes on or ends. *)
LEMMA OnlyCall ==
  ASSUME Inv, NEW t \in BagToSet(tasks), NEW u \in Calls(rows),
         tasks' = And(Without(t), u) \/ tasks' = Without(t),
         UNCHANGED <<wallet, stored, page, toServer, toBrowser, ui, rows, signed>>,
         left' \in 0..MaxActs
  PROVE  Inv'
<1>1. BagToSet(tasks') \subseteq Calls(rows) /\ GetProvider(page) # None
  BY CallFacts, Constants
<1>2. WalletInv'
  BY DEF Inv, TypeInv, WalletInv
<1>3. toServer' \in Seq(ToServer(rows, signed', Met))
  BY DEF Inv, TypeInv, QueueInv
<1> QED BY <1>1, <1>2, <1>3, TaskFrame DEF Inv, TypeInv, RowsInv

(* A call that ends with an event. *)
LEMMA EndsWith ==
  ASSUME Inv, NEW t \in BagToSet(tasks), NEW sg, signed' = sg,
         signed \subseteq sg, sg \subseteq (1..Len(rows)) \X Accounts,
         NEW m \in ToServer(rows, sg, Met),
         tasks' = Without(t), toServer' = toServer \o <<m>>,
         UNCHANGED <<wallet, stored, page, toBrowser, ui, rows>>,
         left' \in 0..MaxActs
  PROVE  Inv'
<1>1. BagToSet(tasks') \subseteq Calls(rows) /\ GetProvider(page) # None
  BY CallFacts, Constants
<1>2. WalletInv'
  BY DEF Inv, TypeInv, WalletInv
<1>3. toServer' \in Seq(ToServer(rows, signed', Met))
  <2> DEFINE S == ToServer(rows, sg, Met)
  <2>1. toServer \in Seq(S)
    BY Grows DEF Inv, TypeInv, QueueInv
  <2> HIDE DEF S
  <2>2. <<m>> \in Seq(S)
    BY DEF S
  <2>3. toServer' \in Seq(S)
    BY <2>1, <2>2, ConcatProperties
  <2> QED BY <2>3 DEF S
<1> QED BY <1>1, <1>2, <1>3, TaskFrame

LEMMA ProbeStep ==
  ASSUME Inv, NEW t \in BagToSet(tasks),
         ProbeAccounts(t) \/ ProbeChain(t) \/ ProbePush(t) \/ ProbeFails(t)
  PROVE  Inv'
<1>1. /\ t \in Calls(rows) /\ t.kind = "probe" /\ t.on \in Wallets
      /\ t.list \in Exposures /\ t.chain \in Chains \cup {None}
      /\ wallet[t.on].accounts \in Exposures /\ wallet[t.on].chain \in Chains
      /\ left \in 0..MaxActs /\ MaxActs \in Nat
  BY CallFacts, Constants DEF CallRow, Sound, WalletInv, ProbeAccounts,
     ProbeChain, ProbePush, ProbeFails
<1>2. CASE ProbeAccounts(t)
  <2>1. tasks' = And(Without(t), [t EXCEPT !.step = 2,
                                           !.list = wallet[t.on].accounts])
    BY <1>2 DEF ProbeAccounts
  <2>2. UNCHANGED <<wallet, stored, page, toServer, toBrowser, ui, rows, signed,
                    left>>
    BY <1>2 DEF ProbeAccounts, TaskStep, Quietly, serverVars
  <2>3. [t EXCEPT !.step = 2, !.list = wallet[t.on].accounts] \in Calls(rows)
    BY <1>1, Continues
  <2> QED BY <1>1, <2>1, <2>2, <2>3, OnlyCall
<1>3. CASE ProbeChain(t)
  <2>1. tasks' = And(Without(t), [t EXCEPT !.step = 3,
                                           !.chain = wallet[t.on].chain])
    BY <1>3 DEF ProbeChain
  <2>2. UNCHANGED <<wallet, stored, page, toServer, toBrowser, ui, rows, signed,
                    left>>
    BY <1>3 DEF ProbeChain, TaskStep, Quietly, serverVars
  <2>3. [t EXCEPT !.step = 3, !.chain = wallet[t.on].chain] \in Calls(rows)
    BY <1>1, Continues
  <2> QED BY <1>1, <2>1, <2>2, <2>3, OnlyCall
<1>4. CASE ProbePush(t)
  <2> DEFINE s == IF t.list = <<>> THEN "no_account" ELSE "exposed_account"
             m == [Msg("browser_status") EXCEPT !.account = s, !.list = t.list,
                                                !.chain = t.chain]
  <2>1. tasks' = Without(t) /\ toServer' = toServer \o <<m>>
    BY <1>4 DEF ProbePush, Ends
  <2>2. UNCHANGED <<wallet, stored, page, toBrowser, ui, rows, signed, left>>
    BY <1>4 DEF ProbePush, TaskStep, Quietly, serverVars
  <2>3. s \in Status
    BY DEF Status
  <2> HIDE DEF s
  <2>4. m \in ToServer(rows, signed, Met)
    BY <1>1, <2>3, StatusMessage
  <2> HIDE DEF m
  <2> QED BY <1>1, <2>1, <2>2, <2>4, CallFacts, EndsWith
<1>5. CASE ProbeFails(t)
  <2>1. tasks' = And(Without(t), [t EXCEPT !.step = t.step + 1])
    BY <1>5 DEF ProbeFails
  <2>2. UNCHANGED <<wallet, stored, page, toServer, toBrowser, ui, rows, signed>>
        /\ left' \in 0..MaxActs
    BY <1>1, <1>5 DEF ProbeFails, TaskStep, serverVars, Spend
  <2>3. [t EXCEPT !.step = t.step + 1] \in Calls(rows)
    BY <1>1, Continues, Constants
  <2> QED BY <2>1, <2>2, <2>3, OnlyCall
<1> QED BY <1>2, <1>3, <1>4, <1>5

LEMMA ScanStep ==
  ASSUME Inv, NEW t \in BagToSet(tasks), ScanSkips(t) \/ ScanFails(t)
  PROVE  Inv'
<1>1. /\ t \in Calls(rows) /\ t.kind = "scan" /\ left \in 0..MaxActs
      /\ MaxActs \in Nat
  BY CallFacts, Constants DEF WalletInv, ScanSkips, ScanFails
<1>2. [t EXCEPT !.step = t.step + 1] \in Calls(rows)
  BY <1>1, Continues, Constants DEF Chains
<1>3. \/ tasks' = And(Without(t), [t EXCEPT !.step = t.step + 1])
      \/ tasks' = Without(t)
  BY DEF ScanSkips, ScanFails
<1>4. UNCHANGED <<wallet, stored, page, toServer, toBrowser, ui, rows, signed>>
      /\ left' \in 0..MaxActs
  BY <1>1 DEF ScanSkips, ScanFails, TaskStep, Quietly, serverVars, Spend
<1> QED BY <1>2, <1>3, <1>4, OnlyCall

LEMMA ScanFindsStep ==
  ASSUME Inv, NEW t \in BagToSet(tasks), ScanFinds(t)
  PROVE  Inv'
<1> DEFINE w == page.announced[t.step]
           p == [page EXCEPT !.selected = w]
<1>1. /\ t \in CallRow /\ BagToSet(Without(t)) \subseteq Calls(rows)
      /\ page \in PageRow
  BY CallFacts DEF Inv, TypeInv, PageInv
<1>2. w \in Wallets /\ w \in Range(page.announced)
  <2>1. /\ page.announced \in Seq(Wallets) /\ Len(page.announced) \in Nat
        /\ DOMAIN page.announced = 1..Len(page.announced)
        /\ t.step \in 1..Len(page.announced)
    BY <1>1, LenProperties DEF PageRow, CallRow, Steps, ScanFinds
  <2> QED BY <2>1, ElementOfSeq DEF Range
<1>3. /\ stored' = w /\ Notify(p, Without(t), <<>>)
      /\ UNCHANGED <<wallet, signed, left, toBrowser, ui, rows>>
  BY DEF ScanFinds, TaskStep, serverVars
<1> HIDE DEF w
<1>4. /\ p \in PageRow /\ p.announced = page.announced /\ p.selected = w
      /\ p.attached = page.attached
  BY <1>1, <1>2 DEF PageRow
<1> HIDE DEF p
<1>5. GetProvider(p) # None /\ p.selected \in Range(p.announced) \cup {None}
  BY <1>2, <1>4, Provider, Constants
<1>6. /\ PageInv' /\ Met' = Met
      /\ BagToSet(tasks') \subseteq Calls(rows)
      /\ toServer' \in Seq(ToServer(rows, signed, Met))
  <2>1. Met = Range(p.announced) /\ IsInjective(p.announced)
    BY <1>4 DEF Met, Inv, TypeInv, PageInv
  <2>2. <<>> \in Seq(ToServer(rows, signed, Range(p.announced)))
    OBVIOUS
  <2> QED BY <1>1, <1>3, <1>4, <1>5, <2>1, <2>2, Notifies DEF Inv
<1>7. WalletInv'
  BY <1>2, <1>3 DEF Inv, TypeInv, WalletInv
<1> QED BY <1>3, <1>6, <1>7, BrowserFrame
        DEF Inv, TypeInv, QueueInv, RowsInv

(* What Exposes leaves behind is enough. *)
LEMMA ExposesFrame ==
  ASSUME Inv, NEW w \in Wallets, NEW e \in Exposures, NEW running,
         Exposes(w, e, running), BagToSet(running) \subseteq Calls(rows),
         BagToSet(running) # {} => GetProvider(page) # None,
         UNCHANGED <<stored, page, signed, toBrowser, ui, rows>>,
         left' \in 0..MaxActs
  PROVE  Inv'
<1>1. /\ wallet' \in [Wallets -> [accounts : Exposures, chain : Chains]]
      /\ BagToSet(tasks') \subseteq Calls(rows)
      /\ BagToSet(tasks') # {} => GetProvider(page) # None
      /\ toServer' \in Seq(ToServer(rows, signed, Met))
  BY Exposed DEF Inv
<1>2. WalletInv'
  BY <1>1 DEF Inv, TypeInv, WalletInv
<1> QED BY <1>1, <1>2, TaskFrame DEF Inv, TypeInv, RowsInv

LEMMA ConnectStep ==
  ASSUME Inv, NEW t \in BagToSet(tasks), ConnectApproved(t) \/ ConnectDeclined(t)
  PROVE  Inv'
<1>1. /\ t \in Calls(rows) /\ t.kind = "connect" /\ t.on \in Wallets
      /\ left \in 0..MaxActs /\ GetProvider(page) # None
      /\ wallet[t.on].accounts \in Exposures
      /\ signed \subseteq (1..Len(rows)) \X Accounts
  BY CallFacts, Constants DEF Sound, WalletInv, ConnectApproved, ConnectDeclined
<1>2. CASE ConnectApproved(t)
  <2>1. PICK e \in IF wallet[t.on].accounts # <<>> THEN {wallet[t.on].accounts}
                   ELSE Exposures \ {<<>>} :
          Exposes(t.on, e, And(Without(t), [t EXCEPT !.step = 2,
                                                     !.account = Head(e)]))
    BY <1>2 DEF ConnectApproved
  <2>2. e \in Exposures /\ e # <<>>
    BY <1>1
  <2>3. [t EXCEPT !.step = 2, !.account = Head(e)] \in Calls(rows)
    BY <1>1, <2>2, FirstAccount, ConnectContinues
  <2>4. UNCHANGED <<stored, page, signed, left, toBrowser, ui, rows>>
    BY <1>2 DEF ConnectApproved, TaskStep, serverVars
  <2> DEFINE running == And(Without(t), [t EXCEPT !.step = 2, !.account = Head(e)])
  <2>5. BagToSet(running) \subseteq Calls(rows)
    BY <2>3, CallFacts
  <2>6. Exposes(t.on, e, running)
    BY <2>1
  <2> HIDE DEF running
  <2> QED BY <1>1, <2>2, <2>4, <2>5, <2>6, ExposesFrame
<1>3. CASE ConnectDeclined(t)
  <2>1. PICK name \in {"cancelled", "error"} :
          tasks' = Without(t) /\ toServer' = toServer \o <<Msg(name)>>
    BY <1>3 DEF ConnectDeclined, Ends
  <2>2. Msg(name) \in ToServer(rows, signed, Met)
    BY PlainMessages
  <2>3. UNCHANGED <<wallet, stored, page, toBrowser, ui, rows, signed, left>>
    BY <1>3 DEF ConnectDeclined, TaskStep, Quietly, serverVars
  <2> QED BY <1>1, <2>1, <2>2, <2>3, EndsWith
<1> QED BY <1>2, <1>3

LEMMA ChainReadStep ==
  ASSUME Inv, NEW t \in BagToSet(tasks), ChainRead(t)
  PROVE  Inv'
<1> DEFINE c == wallet[t.on].chain
           name == IF c \in Supported THEN "connected" ELSE "wrong_chain"
           m == [Msg(name) EXCEPT !.account = t.account, !.chain = c]
<1>1. /\ t.on \in Wallets /\ t.account \in Accounts
      /\ c \in Chains /\ left \in 0..MaxActs
      /\ signed \subseteq (1..Len(rows)) \X Accounts
  BY CallFacts DEF Sound, WalletInv, ChainRead
<1>2. tasks' = Without(t) /\ toServer' = toServer \o <<m>>
  BY DEF ChainRead, Ends
<1>3. UNCHANGED <<wallet, stored, page, toBrowser, ui, rows, signed, left>>
  BY DEF ChainRead, TaskStep, Quietly, serverVars
<1>4. name \in {"connected", "wrong_chain"}
  OBVIOUS
<1> HIDE DEF name, c
<1>5. m \in ToServer(rows, signed, Met)
  BY <1>1, <1>4, ChainMessage
<1> HIDE DEF m
<1> QED BY <1>1, <1>2, <1>3, <1>5, EndsWith

LEMMA RecheckStep ==
  ASSUME Inv, NEW t \in BagToSet(tasks), Recheck(t) \/ RequestFails(t)
  PROVE  Inv'
<1>1. /\ t.kind # "scan" /\ t.on \in Wallets
      /\ left \in 0..MaxActs /\ MaxActs \in Nat
      /\ GetProvider(page) \in Wallets /\ wallet[t.on].accounts \in Exposures
      /\ signed \subseteq (1..Len(rows)) \X Accounts
  BY CallFacts, Constants DEF Sound, WalletInv, Recheck, RequestFails
<1> DEFINE a == wallet[t.on].accounts
           u == [Task("refresh", GetProvider(page)) EXCEPT !.account = Head(a)]
<1>2. UNCHANGED <<wallet, stored, page, toBrowser, ui, rows, signed>>
      /\ left' \in 0..MaxActs
  BY <1>1 DEF Recheck, RequestFails, TaskStep, Quietly, serverVars, Spend
<1>3. \/ \E name \in {"disconnected", "error"} :
           tasks' = Without(t) /\ toServer' = toServer \o <<Msg(name)>>
      \/ /\ a # <<>> /\ tasks' = And(Without(t), u)
         /\ UNCHANGED toServer
  BY DEF Recheck, RequestFails, Ends
<1>4. a # <<>> => u \in Calls(rows)
  BY <1>1, FirstAccount, PlainCalls
<1>5. CASE \E name \in {"disconnected", "error"} :
             tasks' = Without(t) /\ toServer' = toServer \o <<Msg(name)>>
  <2>1. PICK name \in {"disconnected", "error"} :
             tasks' = Without(t) /\ toServer' = toServer \o <<Msg(name)>>
    BY <1>5
  <2>2. Msg(name) \in ToServer(rows, signed, Met)
    BY PlainMessages
  <2> QED BY <1>1, <1>2, <2>1, <2>2, EndsWith
<1> HIDE DEF a, u
<1>6. CASE a # <<>> /\ tasks' = And(Without(t), u) /\ UNCHANGED toServer
  BY <1>2, <1>4, <1>6, OnlyCall
<1> QED BY <1>3, <1>5, <1>6

LEMMA SignStep ==
  ASSUME Inv, NEW t \in BagToSet(tasks), Signs(t) \/ RefusesToSign(t)
  PROVE  Inv'
<1>1. /\ t.id \in DOMAIN rows /\ t.id \in Nat /\ t.id \in 1..Len(rows)
      /\ left \in 0..MaxActs /\ signed \subseteq (1..Len(rows)) \X Accounts
  <2>1. t \in CallRow /\ Sound(t, rows) /\ t.kind = "sign" /\ WalletInv
        /\ signed \subseteq (1..Len(rows)) \X Accounts
    BY CallFacts DEF Signs, RefusesToSign
  <2>2. t.id \in DOMAIN rows
    BY <2>1 DEF Sound
  <2>3. rows \in Seq(Row) /\ DOMAIN rows = 1..Len(rows)
    BY LenProperties DEF Inv, TypeInv, RowsInv
  <2> QED BY <2>1, <2>2, <2>3 DEF CallRow, WalletInv
<1>2. UNCHANGED <<wallet, stored, page, toBrowser, ui, rows, left>>
  BY DEF Signs, RefusesToSign, TaskStep, Quietly, serverVars
<1>3. ASSUME NEW m, NEW sg, sg = signed', m \in ToServer(rows, sg, Met),
             signed \subseteq signed',
             signed' \subseteq (1..Len(rows)) \X Accounts,
             Ends(t, <<m>>)
      PROVE  Inv'
  <2>1. tasks' = Without(t) /\ toServer' = toServer \o <<m>>
    BY <1>3 DEF Ends
  <2> QED BY <1>1, <1>2, <1>3, <2>1, EndsWith
<1>4. PICK sg : sg = signed'
  OBVIOUS
<1>5. CASE Signs(t)
  <2>1. PICK signer \in Accounts \cup {None} :
          /\ signed' = signed \cup ({t.id} \X ({signer} \cap Accounts))
          /\ Ends(t, <<[Msg("verify") EXCEPT !.id = t.id, !.account = signer]>>)
    BY <1>5 DEF Signs
  <2>2. /\ signed \subseteq signed'
        /\ signed' \subseteq (1..Len(rows)) \X Accounts
        /\ signer \in Accounts => <<t.id, signer>> \in sg
    BY <1>1, <1>4, <2>1
  <2>3. [Msg("verify") EXCEPT !.id = t.id, !.account = signer]
          \in ToServer(rows, sg, Met)
    BY <1>1, <2>2, SignMessages
  <2> QED BY <1>3, <1>4, <2>1, <2>2, <2>3
<1>6. CASE RefusesToSign(t)
  <2>1. /\ signed' = signed
        /\ Ends(t, <<[Msg("verify_error") EXCEPT !.id = t.id]>>)
    BY <1>6 DEF RefusesToSign, Quietly
  <2>2. [Msg("verify_error") EXCEPT !.id = t.id] \in ToServer(rows, sg, Met)
    BY <1>1, SignMessages
  <2> QED BY <1>1, <1>3, <1>4, <2>1, <2>2
<1> QED BY <1>5, <1>6

LEMMA RevokeStep ==
  ASSUME Inv, NEW t \in BagToSet(tasks), RevokesPermissions(t)
  PROVE  Inv'
<1>1. /\ t.on \in Wallets /\ GetProvider(page) # None /\ left \in 0..MaxActs
      /\ BagToSet(Without(t)) \subseteq Calls(rows)
  BY CallFacts, Constants DEF Sound, WalletInv, RevokesPermissions
<1>2. UNCHANGED <<stored, page, signed, left, toBrowser, ui, rows>>
  BY DEF RevokesPermissions, TaskStep, serverVars
<1>3. CASE Exposes(t.on, <<>>, Without(t))
  BY <1>1, <1>2, <1>3, Constants, ExposesFrame
<1>4. CASE tasks' = Without(t) /\ UNCHANGED <<wallet, toServer>>
  <2>1. t \in Calls(rows)
    BY CallFacts
  <2> QED BY <1>1, <1>2, <1>4, <2>1, OnlyCall
<1> QED BY <1>3, <1>4 DEF RevokesPermissions

-----------------------------------------------------------------------------
(* The registry, and what the page asks of the hook. *)

LEMMA MountStep ==
  ASSUME Inv, Mount
  PROVE  Inv'
<1> DEFINE p == [page EXCEPT !.mounted = TRUE]
<1>1. /\ page \in PageRow /\ IsInjective(page.announced)
      /\ page.selected \in Range(page.announced) \cup {None}
      /\ page.attached # None => GetProvider(page) # None
      /\ BagToSet(tasks) # {} => GetProvider(page) # None
      /\ BagToSet(tasks) \subseteq Calls(rows)
  BY DEF Inv, TypeInv, PageInv, QueueInv
<1>2. /\ Notify(p, tasks, <<>>)
      /\ UNCHANGED <<wallet, stored, toBrowser, ui, rows, signed, left>>
  BY DEF Mount, serverVars
<1>3. /\ p \in PageRow /\ p.announced = page.announced
      /\ p.selected = page.selected /\ p.attached = page.attached
  BY <1>1 DEF PageRow
<1> HIDE DEF p
<1>4. GetProvider(p) = GetProvider(page) /\ Met = Range(p.announced)
  BY <1>3 DEF GetProvider, Met
<1>5. <<>> \in Seq(ToServer(rows, signed, Range(p.announced)))
  OBVIOUS
<1>6. /\ PageInv' /\ Met' = Met /\ BagToSet(tasks') \subseteq Calls(rows)
      /\ toServer' \in Seq(ToServer(rows, signed, Met))
  BY <1>1, <1>2, <1>3, <1>4, <1>5, Notifies DEF Inv
<1>7. WalletInv'
  BY <1>2 DEF Inv, TypeInv, WalletInv
<1> QED BY <1>2, <1>6, <1>7, BrowserFrame DEF Inv, TypeInv, QueueInv, RowsInv

LEMMA AnnounceStep ==
  ASSUME Inv, NEW w \in Wallets, Announce(w)
  PROVE  Inv'
<1> DEFINE seen == Append(page.announced, w)
           chosen == IF page.selected = None /\ stored = w THEN w
                                                           ELSE page.selected
           p == [page EXCEPT !.announced = seen, !.selected = chosen]
<1>1. /\ page \in PageRow /\ IsInjective(page.announced)
      /\ page.announced \in Seq(Wallets) /\ w \notin Range(page.announced)
      /\ page.selected \in Range(page.announced) \cup {None}
      /\ BagToSet(tasks) \subseteq Calls(rows)
  BY DEF Inv, TypeInv, PageInv, QueueInv, PageRow, Announce
<1>2. /\ Notify(p, tasks, <<>>)
      /\ UNCHANGED <<wallet, stored, toBrowser, ui, rows, signed, left>>
  BY DEF Announce, serverVars
<1>3. /\ seen \in Seq(Wallets) /\ Range(seen) = Range(page.announced) \cup {w}
      /\ IsInjective(seen) /\ seen # <<>>
      /\ chosen \in Range(seen) \cup {None} /\ chosen \in Wallets \cup {None}
  <2>1. seen \in Seq(Wallets) /\ Range(seen) = Range(page.announced) \cup {w}
        /\ Range(page.announced) \subseteq Wallets
    BY <1>1, SeqRange
  <2>2. IsInjective(seen)
    BY <1>1, AppendKeepsInjective
  <2>3. seen # <<>>
    BY <1>1, AppendProperties
  <2> QED BY <1>1, <2>1, <2>2, <2>3
<1> HIDE DEF seen, chosen
<1>4. /\ p \in PageRow /\ p.announced = seen /\ p.selected = chosen
  BY <1>1, <1>3 DEF PageRow
<1> HIDE DEF p
<1>5. GetProvider(p) # None /\ Met \subseteq Range(p.announced)
  BY <1>3, <1>4, Provider DEF Met
<1>6. <<>> \in Seq(ToServer(rows, signed, Range(p.announced)))
  OBVIOUS
<1>7. /\ PageInv' /\ Met' = Range(p.announced)
      /\ BagToSet(tasks') \subseteq Calls(rows)
      /\ toServer' \in Seq(ToServer(rows, signed, Range(p.announced)))
  BY <1>1, <1>2, <1>3, <1>4, <1>5, <1>6, Notifies DEF Inv
<1>8. WalletInv'
  BY <1>2 DEF Inv, TypeInv, WalletInv
<1> QED BY <1>2, <1>5, <1>7, <1>8, BrowserFrame
        DEF Inv, TypeInv, QueueInv, RowsInv

(* What the page asked of the hook is taken off the queue. *)
LEMMA HookFacts ==
  ASSUME Inv, toBrowser # <<>>
  PROVE  /\ Tail(toBrowser) \in Seq(ToBrowser(rows, Met))
         /\ Head(toBrowser) \in Message /\ Asked(Head(toBrowser), rows, Met)
<1>1. toBrowser \in Seq(ToBrowser(rows, Met))
  BY DEF Inv, TypeInv, QueueInv
<1>2. Tail(toBrowser) \in Seq(ToBrowser(rows, Met))
      /\ Head(toBrowser) \in ToBrowser(rows, Met)
  BY <1>1
<1> QED BY <1>2 DEF ToBrowser

LEMMA HookFrame ==
  ASSUME Inv, toBrowser' \in Seq(ToBrowser(rows, Met)), NEW u,
         u.on = GetProvider(page), GetProvider(page) # None => u \in Calls(rows),
         tasks' = tasks (+) Call(u), NEW events,
         toServer' = toServer \o events,
         events \in Seq(ToServer(rows, signed, Met)),
         UNCHANGED <<wallet, stored, page, ui, rows, signed>>, left' \in 0..MaxActs
  PROVE  Inv'
<1>1. BagToSet(tasks') = BagToSet(tasks) \cup BagToSet(Call(u))
  BY BagSets
<1>2. BagToSet(Call(u)) = IF u.on = None THEN {} ELSE {u}
  BY BagSets
<1>3. /\ BagToSet(tasks') \subseteq Calls(rows)
      /\ BagToSet(tasks') # {} => GetProvider(page) # None
  BY <1>1, <1>2 DEF Inv, TypeInv, PageInv, QueueInv
<1>4. PageInv' /\ WalletInv' /\ Met' = Met
  BY <1>3 DEF Inv, TypeInv, PageInv, WalletInv, Met
<1>5. toServer' \in Seq(ToServer(rows, signed, Met))
  BY ConcatProperties DEF Inv, TypeInv, QueueInv
<1> QED BY <1>3, <1>4, <1>5, BrowserFrame DEF Inv, TypeInv, RowsInv

LEMMA SignChallengeStep ==
  ASSUME Inv, SignChallenge
  PROVE  Inv'
<1> DEFINE m == Head(toBrowser)
           w == GetProvider(page)
           u == [Task("sign", w) EXCEPT !.id = m.id, !.account = m.account]
           events == IF w = None THEN <<[Msg("verify_error") EXCEPT !.id = m.id]>>
                                 ELSE <<>>
<1>1. /\ toBrowser # <<>> /\ m.event = "challenge" /\ toBrowser' = Tail(toBrowser)
      /\ tasks' = tasks (+) Call(u) /\ toServer' = toServer \o events
      /\ UNCHANGED <<wallet, stored, page, ui, rows, signed, left>>
  BY DEF SignChallenge, HookReceives, serverVars
<1>2. m \in Message /\ m.id \in DOMAIN rows /\ m.account = rows[m.id].address
  BY <1>1, HookFacts DEF Asked
<1>3. m.id \in Nat /\ m.account \in Accounts
  <2>1. rows[m.id] \in Row
    BY <1>2, LenProperties, ElementOfSeq DEF Inv, TypeInv, RowsInv
  <2> QED BY <1>2, <2>1 DEF Message, Row
<1>4. w \in Wallets \cup {None}
  BY Provider DEF Inv, TypeInv, PageInv
<1> HIDE DEF m
<1>5. w # None => u \in Calls(rows)
  BY <1>2, <1>3, <1>4, SignCall
<1>6. u.on = w
  BY DEF Task
<1>7. events \in Seq(ToServer(rows, signed, Met))
  <2> DEFINE e == [Msg("verify_error") EXCEPT !.id = m.id]
  <2>1. e \in ToServer(rows, signed, Met)
    BY <1>2, <1>3, SignMessages
  <2> HIDE DEF e
  <2>2. (IF w = None THEN <<e>> ELSE <<>>) \in Seq(ToServer(rows, signed, Met))
    BY <2>1
  <2> QED BY <2>2 DEF e
<1>8. toBrowser' \in Seq(ToBrowser(rows, Met)) /\ left' \in 0..MaxActs
  BY <1>1, HookFacts DEF Inv, TypeInv, WalletInv
<1> HIDE DEF u, events
<1> QED BY <1>1, <1>5, <1>6, <1>7, <1>8, HookFrame

LEMMA UseProviderStep ==
  ASSUME Inv, UseProvider
  PROVE  Inv'
<1> DEFINE w == Head(toBrowser).account
           p == [page EXCEPT !.selected = w]
           running == tasks (+) ConnectTasks(w)
<1>1. /\ toBrowser # <<>> /\ Head(toBrowser).event = "use_provider"
      /\ toBrowser' = Tail(toBrowser) /\ stored' = w
      /\ Notify(p, running, ConnectEvents(w))
      /\ UNCHANGED <<wallet, ui, rows, signed, left>>
  BY DEF UseProvider, HookReceives, serverVars
<1>2. w \in Met
  BY <1>1, HookFacts DEF Asked
<1>3. /\ page \in PageRow /\ IsInjective(page.announced)
      /\ page.announced \in Seq(Wallets)
      /\ BagToSet(tasks) \subseteq Calls(rows)
  BY DEF Inv, TypeInv, PageInv, QueueInv, PageRow
<1>4. w \in Wallets /\ w \in Range(page.announced)
  BY <1>2, <1>3, SeqRange DEF Met
<1> HIDE DEF w
<1>5. /\ p \in PageRow /\ p.announced = page.announced /\ p.selected = w
  BY <1>3, <1>4 DEF PageRow
<1> HIDE DEF p
<1>6. GetProvider(p) # None /\ Met = Range(p.announced)
      /\ p.selected \in Range(p.announced) \cup {None}
  BY <1>4, <1>5, Provider, Constants DEF Met
<1>7. BagToSet(running) \subseteq Calls(rows)
  <2>1. Task("connect", w) \in Calls(rows)
    BY <1>4, PlainCalls
  <2>2. BagToSet(running) = BagToSet(tasks) \cup BagToSet(Call(Task("connect", w)))
    BY BagSets DEF ConnectTasks
  <2>3. BagToSet(Call(Task("connect", w))) \subseteq {Task("connect", w)}
    BY BagSets
  <2> QED BY <1>3, <2>1, <2>2, <2>3
<1>8. ConnectEvents(w) \in Seq(ToServer(rows, signed, Range(p.announced)))
  BY PlainMessages DEF ConnectEvents
<1> HIDE DEF running
<1>9. /\ PageInv' /\ Met' = Met /\ BagToSet(tasks') \subseteq Calls(rows)
      /\ toServer' \in Seq(ToServer(rows, signed, Met))
  BY <1>1, <1>3, <1>5, <1>6, <1>7, <1>8, Notifies DEF Inv
<1>10. WalletInv' /\ toBrowser' \in Seq(ToBrowser(rows, Met))
  BY <1>1, <1>4, HookFacts DEF Inv, TypeInv, WalletInv
<1> QED BY <1>1, <1>9, <1>10, BrowserFrame DEF Inv, TypeInv, RowsInv

LEMMA RevokePermissionsStep ==
  ASSUME Inv, RevokePermissions
  PROVE  Inv'
<1> DEFINE w == GetProvider(page)
           u == Task("revoke", w)
<1>1. /\ toBrowser' = Tail(toBrowser) /\ toBrowser # <<>>
      /\ tasks' = tasks (+) Call(u) /\ UNCHANGED toServer
      /\ UNCHANGED <<wallet, stored, page, ui, rows, signed, left>>
  BY DEF RevokePermissions, HookReceives, serverVars
<1>2. w \in Wallets \cup {None}
  BY Provider DEF Inv, TypeInv, PageInv
<1>3. u.on = w /\ (w # None => u \in Calls(rows))
  BY <1>2, PlainCalls DEF Task
<1>4. toServer' = toServer \o <<>> /\ <<>> \in Seq(ToServer(rows, signed, Met))
  BY <1>1, ConcatEmptySeq DEF Inv, TypeInv, QueueInv
<1>5. toBrowser' \in Seq(ToBrowser(rows, Met)) /\ left' \in 0..MaxActs
  BY <1>1, HookFacts DEF Inv, TypeInv, WalletInv
<1> HIDE DEF u
<1> QED BY <1>1, <1>3, <1>4, <1>5, HookFrame

-----------------------------------------------------------------------------
(* The rows, the active one, and the card. *)

LEMMA RowFacts ==
  ASSUME NEW rs \in Seq(Row)
  PROVE  /\ DOMAIN rs = 1..Len(rs) /\ Len(rs) \in Nat
         /\ \A r \in DOMAIN rs :
              /\ rs[r] \in Row /\ r \in Nat /\ r # 0
              /\ rs[r].address \in Accounts /\ rs[r].stamp \in Nat
              /\ rs[r].revoked \in BOOLEAN /\ rs[r].expired \in BOOLEAN
<1>1. DOMAIN rs = 1..Len(rs) /\ Len(rs) \in Nat
  BY LenProperties
<1>2. \A r \in DOMAIN rs : rs[r] \in Row
  BY <1>1, ElementOfSeq
<1> QED BY <1>1, <1>2 DEF Row

(* Rows added, or a stamp changed, one at a time. *)
LEMMA NewestKept ==
  ASSUME NEW rs, NEW rt, NEW x, Newest(rs), DOMAIN rt \subseteq DOMAIN rs \cup {x},
         \A r \in DOMAIN rt \ {x} : rt[r].stamp = rs[r].stamp,
         \A r \in DOMAIN rt : rt[r].stamp \in Nat
  PROVE  Newest(rt)
<1> SUFFICES ASSUME NEW S \in SUBSET DOMAIN rt, S # {}
             PROVE  \E r \in S : \A q \in S : rt[q].stamp <= rt[r].stamp
  BY DEF Newest
<1>1. CASE S \ {x} = {}
  BY <1>1
<1>2. CASE S \ {x} # {}
  <2>1. S \ {x} \in SUBSET DOMAIN rs
    OBVIOUS
  <2>2. PICK r \in S \ {x} : \A q \in S \ {x} : rs[q].stamp <= rs[r].stamp
    BY <1>2, <2>1 DEF Newest
  <2>3. \A q \in S \ {x} : rt[q].stamp <= rt[r].stamp
    BY <2>2
  <2>4. CASE x \in S /\ rt[r].stamp <= rt[x].stamp
    <3>1. \A q \in S : rt[q].stamp \in Nat
      OBVIOUS
    <3>2. \A q \in S \ {x} : rt[q].stamp <= rt[x].stamp
      BY <2>2, <2>3, <2>4, <3>1
    <3>3. rt[x].stamp <= rt[x].stamp
      BY <2>4, <3>1
    <3> QED BY <2>4, <3>2, <3>3
  <2>5. CASE x \notin S \/ ~(rt[r].stamp <= rt[x].stamp)
    <3>1. \A q \in S : rt[q].stamp \in Nat
      OBVIOUS
    <3> QED BY <2>2, <2>3, <2>5, <3>1
  <2> QED BY <2>4, <2>5
<1> QED BY <1>1, <1>2

(* get_active_binding gives the newest binding. *)
LEMMA Active ==
  ASSUME NEW rs \in Seq(Row), Newest(rs)
  PROVE  /\ GetActiveBinding(rs) \in 0..Len(rs)
         /\ GetActiveBinding(rs) \in Bound(rs) =>
              \A q \in Bound(rs) : rs[q].stamp <= rs[GetActiveBinding(rs)].stamp
<1>1. DOMAIN rs = 1..Len(rs) /\ Len(rs) \in Nat
  BY RowFacts
<1>2. CASE Bound(rs) = {}
  BY <1>1, <1>2 DEF GetActiveBinding
<1>3. CASE Bound(rs) # {}
  <2>1. Bound(rs) \in SUBSET DOMAIN rs
    BY DEF Bound
  <2>2. \E r \in Bound(rs) : \A q \in Bound(rs) : rs[q].stamp <= rs[r].stamp
    BY <1>3, <2>1 DEF Newest
  <2>3. GetActiveBinding(rs) =
          CHOOSE r \in Bound(rs) : \A q \in Bound(rs) : rs[q].stamp <= rs[r].stamp
    BY <1>3 DEF GetActiveBinding
  <2>4. /\ GetActiveBinding(rs) \in Bound(rs)
        /\ \A q \in Bound(rs) : rs[q].stamp <= rs[GetActiveBinding(rs)].stamp
    BY <2>2, <2>3
  <2> QED BY <1>1, <2>1, <2>4
<1> QED BY <1>2, <1>3

(* The pill says connected only of a binding that the snapshot confirms.   *)
LEMMA Derived ==
  ASSUME NEW r, NEW rs, NEW s
  PROVE  /\ DeriveWalletState(r, rs, s) \in CardStates
         /\ DeriveWalletState(r, rs, s) = "connected" =>
              /\ r \in Bound(rs) /\ s.status = "exposed_account"
              /\ rs[r].address \in Range(s.accounts) /\ s.chain \in Supported
BY DEF DeriveWalletState, DeriveBrowserState, CardStates

LEMMA NextStampType ==
  ASSUME rows \in Seq(Row)
  PROVE  NextStamp \in Nat /\ NextStamp > 0
<1> DEFINE stamped == {r \in DOMAIN rows : rows[r].stamp > 0}
<1>1. DOMAIN rows = 1..Len(rows) /\ Len(rows) \in Nat
  BY RowFacts
<1>2. IsFiniteSet(1..Len(rows))
  BY <1>1, FS_Interval
<1>3. IsFiniteSet(stamped)
  BY <1>1, <1>2, FS_Subset
<1>4. Cardinality(stamped) \in Nat
  BY <1>3, FS_CardinalityType
<1> HIDE DEF stamped
<1>5. NextStamp = Cardinality(stamped) + 1
  BY DEF NextStamp, stamped
<1> QED BY <1>4, <1>5

(* Verifying stamps a row that was issued; revoking marks one. *)
LEMMA VerifiedRows ==
  ASSUME rows \in Seq(Row), Newest(rows), NEW r \in DOMAIN rows
  PROVE  /\ VerifyAndBind(r) \in Seq(Row) /\ Newest(VerifyAndBind(r))
         /\ DOMAIN VerifyAndBind(r) = DOMAIN rows
         /\ \A q \in DOMAIN rows : VerifyAndBind(r)[q].address = rows[q].address
         /\ \A q \in DOMAIN rows \ {r} : VerifyAndBind(r)[q] = rows[q]
<1> DEFINE new == NextStamp
           rt == [rows EXCEPT ![r].stamp = new]
<1>1. new \in Nat
  BY NextStampType
<1>2. \A q \in DOMAIN rows : rows[q] \in Row
  BY RowFacts
<1> HIDE DEF new
<1>3. /\ DOMAIN rt = DOMAIN rows /\ \A q \in DOMAIN rows \ {r} : rt[q] = rows[q]
      /\ rt[r] = [rows[r] EXCEPT !.stamp = new]
  OBVIOUS
<1>4. rt[r] \in Row /\ rt[r].address = rows[r].address
  BY <1>1, <1>2, <1>3 DEF Row
<1>5. rt \in Seq(Row)
  BY <1>2, <1>4, ExceptSeq
<1>6. Newest(rt)
  BY <1>3, <1>5, NewestKept, RowFacts
<1>7. VerifyAndBind(r) = rt
  BY DEF VerifyAndBind, new
<1> QED BY <1>3, <1>4, <1>5, <1>6, <1>7

LEMMA RevokedRows ==
  ASSUME rows \in Seq(Row), Newest(rows), NEW r
  PROVE  /\ RevokeBinding(r) \in Seq(Row) /\ Newest(RevokeBinding(r))
         /\ DOMAIN RevokeBinding(r) = DOMAIN rows
         /\ \A q \in DOMAIN rows :
              /\ RevokeBinding(r)[q].address = rows[q].address
              /\ RevokeBinding(r)[q].stamp = rows[q].stamp
<1>1. CASE r \notin Bound(rows)
  BY <1>1 DEF RevokeBinding
<1>2. CASE r \in Bound(rows)
  <2> DEFINE rt == [rows EXCEPT ![r].revoked = TRUE]
  <2>1. r \in DOMAIN rows /\ \A q \in DOMAIN rows : rows[q] \in Row
    BY <1>2, RowFacts DEF Bound
  <2>2. /\ DOMAIN rt = DOMAIN rows /\ \A q \in DOMAIN rows \ {r} : rt[q] = rows[q]
        /\ rt[r] = [rows[r] EXCEPT !.revoked = TRUE]
    BY <2>1
  <2>3. /\ rt[r] \in Row /\ rt[r].address = rows[r].address
        /\ rt[r].stamp = rows[r].stamp
    BY <2>1, <2>2 DEF Row
  <2>4. rt \in Seq(Row)
    BY <2>1, <2>3, ExceptSeq
  <2>5. Newest(rt)
    BY <2>2, <2>4, NewestKept, RowFacts
  <2>6. RevokeBinding(r) = rt
    BY <1>2 DEF RevokeBinding
  <2> QED BY <2>2, <2>3, <2>4, <2>5, <2>6
<1> QED BY <1>1, <1>2

-----------------------------------------------------------------------------
(* The user's clicks, and what happens inside a wallet. *)

LEMMA SpendKeeps ==
  ASSUME Inv, Spend
  PROVE  left' \in 0..MaxActs
BY Constants DEF Inv, TypeInv, WalletInv, Spend

LEMMA ClickStep ==
  ASSUME Inv, ClickConnect \/ PickWallet \/ ClickDisconnect
  PROVE  Inv'
<1>1. /\ UNCHANGED <<wallet, stored, page, toBrowser, ui, rows, signed>>
      /\ left' \in 0..MaxActs
  BY SpendKeeps DEF ClickConnect, PickWallet, ClickDisconnect, UserClicks,
     UserActs, serverVars
<1>2. /\ toServer \in Seq(ToServer(rows, signed, Met))
      /\ toBrowser \in Seq(ToBrowser(rows, Met))
      /\ BagToSet(tasks) \subseteq Calls(rows)
      /\ BagToSet(tasks) # {} => GetProvider(page) # None
      /\ signed \subseteq (1..Len(rows)) \X Accounts
      /\ GetProvider(page) \in Wallets \cup {None}
      /\ page.announced \in Seq(Wallets)
  BY Provider DEF Inv, TypeInv, QueueInv, PageInv, RowsInv, PageRow
<1>3. CASE ClickConnect
  <2> DEFINE w == GetProvider(page)
             u == Task("connect", w)
  <2>1. tasks' = tasks (+) Call(u) /\ toServer' = toServer \o ConnectEvents(w)
    BY <1>3 DEF ClickConnect, ConnectTasks
  <2>2. ConnectEvents(w) \in Seq(ToServer(rows, signed, Met))
    BY PlainMessages DEF ConnectEvents
  <2>3. u.on = w /\ (w # None => u \in Calls(rows))
    BY <1>2, PlainCalls DEF Task
  <2>4. toBrowser' \in Seq(ToBrowser(rows, Met))
    BY <1>1, <1>2
  <2> HIDE DEF u
  <2> QED BY <1>1, <2>1, <2>2, <2>3, <2>4, HookFrame
<1>4. CASE PickWallet \/ ClickDisconnect
  <2>1. \E m \in ToServer(rows, signed, Met) : toServer' = Append(toServer, m)
    <3>1. CASE PickWallet
      <4>1. PICK w \in Range(ui.providers) :
              toServer' = Append(toServer, [Msg("select_provider") EXCEPT
                                              !.account = w])
        BY <3>1 DEF PickWallet
      <4>2. w \in Wallets
        BY <1>2, SeqRange DEF Inv, TypeInv, UiInv, Met
      <4> QED BY <4>1, <4>2, PickMessage
    <3>2. CASE ClickDisconnect
      BY <3>2, PlainMessages DEF ClickDisconnect
    <3> QED BY <1>4, <3>1, <3>2
  <2>2. toServer' \in Seq(ToServer(rows, signed', Met)) /\ tasks' = tasks
    <3>1. PICK m \in ToServer(rows, signed, Met) : toServer' = Append(toServer, m)
      BY <2>1
    <3>2. toServer' \in Seq(ToServer(rows, signed, Met))
      BY <1>2, <3>1, AppendProperties
    <3> QED BY <1>1, <1>4, <3>2 DEF PickWallet, ClickDisconnect
  <2>3. WalletInv'
    BY <1>1 DEF Inv, TypeInv, WalletInv
  <2> QED BY <1>1, <1>2, <2>2, <2>3, TaskFrame
<1> QED BY <1>3, <1>4

LEMMA InsideStep ==
  ASSUME Inv, NEW w \in Wallets,
         AccountsChange(w) \/ ChainChanges(w) \/ SiteRemovedSilently(w)
  PROVE  Inv'
<1>1. /\ UNCHANGED <<stored, page, toBrowser, ui, rows, signed>>
      /\ left' \in 0..MaxActs
  BY SpendKeeps DEF AccountsChange, ChainChanges, SiteRemovedSilently, TaskStep,
     UserActs, serverVars
<1>2. /\ toServer \in Seq(ToServer(rows, signed, Met))
      /\ BagToSet(tasks) \subseteq Calls(rows)
      /\ BagToSet(tasks) # {} => GetProvider(page) # None
      /\ page.attached # None => GetProvider(page) # None
      /\ signed \subseteq (1..Len(rows)) \X Accounts
      /\ GetProvider(page) \in Wallets \cup {None}
      /\ wallet \in [Wallets -> [accounts : Exposures, chain : Chains]]
  BY Provider DEF Inv, TypeInv, QueueInv, PageInv, RowsInv, WalletInv
<1>3. CASE AccountsChange(w)
  <2>1. PICK e \in Exposures : Exposes(w, e, tasks)
    BY <1>3 DEF AccountsChange
  <2> QED BY <1>1, <1>2, <2>1, ExposesFrame
<1>4. CASE SiteRemovedSilently(w)
  <2>1. wallet' = [wallet EXCEPT ![w].accounts = <<>>]
        /\ UNCHANGED <<tasks, toServer>>
    BY <1>4 DEF SiteRemovedSilently
  <2>2. wallet' \in [Wallets -> [accounts : Exposures, chain : Chains]]
    BY <1>2, <2>1, Constants
  <2>3. WalletInv'
    BY <1>1, <2>2 DEF Inv, TypeInv, WalletInv
  <2>4. toServer' \in Seq(ToServer(rows, signed', Met))
    BY <1>1, <1>2, <2>1
  <2> QED BY <1>1, <1>2, <2>1, <2>3, <2>4, TaskFrame
<1>5. CASE ChainChanges(w)
  <2> DEFINE v == GetProvider(page)
             new == {Task("probe", v), Task("recheck", v)}
  <2>1. /\ \E c \in Chains : wallet' = [wallet EXCEPT ![w].chain = c]
        /\ tasks' = IF page.attached # w THEN tasks ELSE tasks (+) SetToBag(new)
        /\ UNCHANGED toServer
    BY <1>5 DEF ChainChanges
  <2>2. wallet' \in [Wallets -> [accounts : Exposures, chain : Chains]]
    <3>1. PICK c \in Chains : wallet' = [wallet EXCEPT ![w].chain = c]
      BY <2>1
    <3> QED BY <1>2, <3>1
  <2>3. WalletInv'
    BY <1>1, <2>2 DEF Inv, TypeInv, WalletInv
  <2>4. v # None => new \subseteq Calls(rows)
    BY <1>2, PlainCalls
  <2>5. page.attached = w => v # None
    BY <1>2, Constants
  <2> HIDE DEF new, v
  <2>6. /\ BagToSet(tasks') \subseteq Calls(rows)
        /\ BagToSet(tasks') # {} => GetProvider(page) # None
    <3>1. CASE page.attached # w
      BY <1>2, <2>1, <3>1
    <3>2. CASE page.attached = w
      <4>1. BagToSet(tasks') = BagToSet(tasks) \cup new
        BY <2>1, <3>2, BagSets
      <4> QED BY <1>2, <2>4, <2>5, <3>2, <4>1 DEF v
    <3> QED BY <3>1, <3>2
  <2>7. toServer' \in Seq(ToServer(rows, signed', Met))
    BY <1>1, <1>2, <2>1
  <2> QED BY <1>1, <1>2, <2>3, <2>6, <2>7, TaskFrame
<1> QED BY <1>3, <1>4, <1>5

-----------------------------------------------------------------------------
(* A fresh page, and time. *)

LEMMA FreshPage ==
  /\ EmptyPage \in PageRow /\ IsInjective(EmptyPage.announced)
  /\ EmptyPage.selected = None /\ EmptyPage.attached = None
  /\ Range(EmptyPage.announced) = {} /\ BagToSet(EmptyBag) = {}
<1>1. EmptyPage \in PageRow /\ EmptyPage.announced = <<>>
      /\ EmptyPage.selected = None /\ EmptyPage.attached = None
  BY DEF EmptyPage, PageRow
<1>2. IsInjective(<<>>) /\ Range(<<>>) = {}
  BY DEF IsInjective, Range
<1> QED BY <1>1, <1>2, BagSets

LEMMA MountedCard ==
  ASSUME NEW rs \in Seq(Row), Newest(rs)
  PROVE  /\ MountedUi(rs) \in UiRow /\ MountedUi(rs).binding \in 0..Len(rs)
         /\ Range(MountedUi(rs).providers) = {}
         /\ MountedUi(rs).wallet # "connected"
         /\ MountedUi(rs).binding = GetActiveBinding(rs)
<1> DEFINE b == GetActiveBinding(rs)
           c == DeriveWalletState(b, rs, NoSnapshot)
<1>1. b \in 0..Len(rs) /\ Len(rs) \in Nat
  BY Active, RowFacts
<1>2. NoSnapshot.status # "exposed_account" /\ NoSnapshot \in Snapshot
  BY Constants DEF NoSnapshot, Snapshot
<1>3. c \in CardStates /\ c # "connected"
  BY <1>2, Derived
<1>4. MountedUi(rs) = [wallet |-> c, binding |-> b, browser |-> NoSnapshot,
                       providers |-> <<>>]
  BY DEF MountedUi
<1> HIDE DEF b, c
<1>5. Range(<<>>) = {}
  BY DEF Range
<1> QED BY <1>1, <1>2, <1>3, <1>4, <1>5 DEF UiRow, b

LEMMA ReloadStep ==
  ASSUME Inv, Reload
  PROVE  Inv'
<1>1. /\ page' = EmptyPage /\ tasks' = EmptyBag
      /\ toServer' = <<>> /\ toBrowser' = <<>> /\ ui' = MountedUi(rows)
      /\ UNCHANGED <<wallet, stored, rows, signed>>
      /\ left' \in 0..MaxActs
  BY SpendKeeps DEF Reload, UserActs
<1>2. rows \in Seq(Row) /\ Newest(rows)
  BY DEF Inv, TypeInv, RowsInv, BindingInv, NewestExists
<1>3. PageInv' /\ QueueInv'
  BY <1>1, FreshPage DEF PageInv, QueueInv
<1>4. UiInv'
  BY <1>1, <1>2, MountedCard DEF UiInv
<1>5. WalletInv' /\ RowsInv'
  BY <1>1 DEF Inv, TypeInv, WalletInv, RowsInv
<1>6. NewestExists' /\ ProvenBinding' /\ PillIsBacked'
  BY <1>1, <1>2, MountedCard DEF NewestExists, ProvenBinding, PillIsBacked, Inv,
     BindingInv
<1>7. CardShowsActive'
  <2>1. rows' = rows /\ ui'.binding = GetActiveBinding(rows)
    BY <1>1, <1>2, MountedCard
  <2> QED BY <1>2, <2>1, Active DEF CardShowsActive
<1> QED BY <1>3, <1>4, <1>5, <1>6, <1>7 DEF Inv, TypeInv, BindingInv

LEMMA TimeStep ==
  ASSUME Inv, TimePasses
  PROVE  Inv'
<1>1. /\ rows' = [r \in DOMAIN rows |-> [rows[r] EXCEPT !.expired = TRUE]]
      /\ UNCHANGED <<wallet, stored, page, tasks, toServer, toBrowser, ui, signed>>
      /\ left' \in 0..MaxActs
  BY SpendKeeps DEF TimePasses, browserVars
<1>2. rows \in Seq(Row) /\ Newest(rows)
  BY DEF Inv, TypeInv, RowsInv, BindingInv, NewestExists
<1>3. /\ DOMAIN rows = 1..Len(rows) /\ Len(rows) \in Nat
      /\ \A r \in DOMAIN rows : rows[r] \in Row
  BY <1>2, RowFacts
<1>4. /\ DOMAIN rows' = DOMAIN rows
      /\ \A r \in DOMAIN rows :
           /\ rows'[r] \in Row /\ rows'[r].address = rows[r].address
           /\ rows'[r].stamp = rows[r].stamp
           /\ rows'[r].revoked = rows[r].revoked
  BY <1>1, <1>3 DEF Row
<1>5. rows' \in Seq(Row) /\ Len(rows') = Len(rows)
  <2>1. rows' = [r \in 1..Len(rows) |-> rows'[r]]
    BY <1>1, <1>3
  <2>2. rows' \in Seq(Row)
    BY <1>3, <1>4, <2>1, SeqDef
  <2> QED BY <1>3, <1>4, <2>2, RowFacts
<1>6. /\ Calls(rows) \subseteq Calls(rows')
      /\ toServer \in Seq(ToServer(rows', signed, Met))
      /\ toBrowser \in Seq(ToBrowser(rows', Met))
  BY <1>4, Grows DEF Inv, TypeInv, QueueInv
<1>7. PageInv' /\ QueueInv'
  BY <1>1, <1>6 DEF Inv, TypeInv, PageInv, QueueInv, Met
<1>8. WalletInv' /\ UiInv' /\ RowsInv'
  BY <1>1, <1>5 DEF Inv, TypeInv, WalletInv, UiInv, RowsInv, Met
<1>9. Newest(rows')
  BY <1>2, <1>4, <1>5, NewestKept, RowFacts
<1>10. Bound(rows') = Bound(rows)
  BY <1>4 DEF Bound
<1>11. ProvenBinding' /\ CardShowsActive' /\ PillIsBacked'
  BY <1>1, <1>4, <1>10 DEF Inv, BindingInv, ProvenBinding, CardShowsActive,
     PillIsBacked, Bound
<1> QED BY <1>7, <1>8, <1>9, <1>11 DEF Inv, TypeInv, BindingInv, NewestExists

-----------------------------------------------------------------------------
(* The page handles an event. *)

LEMMA ServerFacts ==
  ASSUME Inv, NEW names, Receives(names)
  PROVE  /\ toServer' \in Seq(ToServer(rows, signed, Met))
         /\ Head(toServer) \in Message /\ Told(Head(toServer), rows, signed, Met)
         /\ Head(toServer).event \in names
         /\ UNCHANGED <<wallet, stored, page, tasks, signed, left>>
         /\ Met' = Met
<1>1. /\ toServer # <<>> /\ Head(toServer).event \in names
      /\ toServer' = Tail(toServer)
      /\ UNCHANGED <<wallet, stored, page, tasks, signed, left>>
  BY DEF Receives, browserVars
<1>2. toServer \in Seq(ToServer(rows, signed, Met))
  BY DEF Inv, TypeInv, QueueInv
<1>3. /\ Head(toServer) \in ToServer(rows, signed, Met)
      /\ Tail(toServer) \in Seq(ToServer(rows, signed, Met))
  BY <1>1, <1>2
<1> QED BY <1>1, <1>3 DEF ToServer, Met

LEMMA PageFrame ==
  ASSUME Inv, NEW names, Receives(names),
         rows' \in Seq(Row), Newest(rows'), DOMAIN rows \subseteq DOMAIN rows',
         \A r \in DOMAIN rows : rows'[r].address = rows[r].address,
         toBrowser' \in Seq(ToBrowser(rows', Met)),
         ui' \in UiRow, ui'.binding \in 0..Len(rows'),
         Range(ui'.providers) \subseteq Met,
         ProvenBinding', CardShowsActive', PillIsBacked'
  PROVE  Inv'
<1>1. /\ toServer' \in Seq(ToServer(rows, signed, Met)) /\ Met' = Met
      /\ UNCHANGED <<wallet, stored, page, tasks, signed, left>>
  BY ServerFacts
<1>2. toServer' \in Seq(ToServer(rows', signed, Met)) /\ Calls(rows) \subseteq Calls(rows')
  BY <1>1, Grows
<1>3. PageInv' /\ QueueInv' /\ WalletInv'
  BY <1>1, <1>2 DEF Inv, TypeInv, PageInv, QueueInv, WalletInv
<1>4. RowsInv'
  <2>1. /\ DOMAIN rows = 1..Len(rows) /\ DOMAIN rows' = 1..Len(rows')
    BY RowFacts DEF Inv, TypeInv, RowsInv
  <2> QED BY <1>1, <2>1 DEF Inv, TypeInv, RowsInv
<1>5. UiInv'
  BY <1>1 DEF UiInv
<1> QED BY <1>3, <1>4, <1>5 DEF Inv, TypeInv, BindingInv, NewestExists

(* An event that touches no row and asks nothing. *)
LEMMA CardFrame ==
  ASSUME Inv, NEW names, Receives(names), UNCHANGED <<rows, toBrowser>>,
         ui' \in UiRow, ui'.binding \in {0, ui.binding},
         Range(ui'.providers) \subseteq Met, PillIsBacked'
  PROVE  Inv'
<1>1. /\ rows \in Seq(Row) /\ Newest(rows) /\ ui.binding \in 0..Len(rows)
      /\ toBrowser \in Seq(ToBrowser(rows, Met)) /\ signed' = signed
  BY ServerFacts DEF Inv, TypeInv, RowsInv, UiInv, QueueInv, BindingInv, NewestExists
<1>2. DOMAIN rows = 1..Len(rows) /\ Len(rows) \in Nat
  BY <1>1, RowFacts
<1>3. ui'.binding \in 0..Len(rows)
  BY <1>1, <1>2
<1>4. ProvenBinding' /\ CardShowsActive'
  BY <1>1, <1>2 DEF Inv, BindingInv, ProvenBinding, CardShowsActive, Bound
<1> QED BY <1>1, <1>3, <1>4, PageFrame

LEMMA CardFacts ==
  ASSUME Inv
  PROVE  /\ ui \in UiRow /\ Range(ui.providers) \subseteq Met
         /\ ui.binding \in 0..Len(rows) /\ rows \in Seq(Row) /\ Newest(rows)
         /\ toBrowser \in Seq(ToBrowser(rows, Met))
         /\ ProvenBinding /\ CardShowsActive /\ PillIsBacked
BY DEF Inv, TypeInv, UiInv, RowsInv, QueueInv, BindingInv, NewestExists

LEMMA PlainEventStep ==
  ASSUME Inv, ProvidersDiscovered \/ Connecting \/ WrongChain \/ GivesUp
  PROVE  Inv'
<1>1. ui \in UiRow /\ Range(ui.providers) \subseteq Met /\ PillIsBacked
  BY CardFacts
<1>2. CASE ProvidersDiscovered
  <2>1. Receives({"providers_discovered"}) /\ UNCHANGED <<rows, toBrowser>>
    BY <1>2 DEF ProvidersDiscovered, PushesNothing
  <2> DEFINE l == Head(toServer).list
  <2>2. l \in Seq(Wallets) /\ Range(l) \subseteq Met
    BY <2>1, ServerFacts DEF Told
  <2>3. ui' = [ui EXCEPT !.providers = l]
    BY <1>2 DEF ProvidersDiscovered
  <2> HIDE DEF l
  <2>4. /\ ui' \in UiRow /\ ui'.binding = ui.binding /\ ui'.providers = l
        /\ ui'.wallet = ui.wallet /\ ui'.browser = ui.browser
    BY <1>1, <2>2, <2>3 DEF UiRow
  <2>5. PillIsBacked'
    BY <1>1, <2>1, <2>4 DEF PillIsBacked, Bound
  <2> QED BY <2>1, <2>2, <2>4, <2>5, CardFrame
<1>3. CASE Connecting
  <2>1. Receives({"connecting"}) /\ UNCHANGED <<rows, toBrowser>>
        /\ ui' = [ui EXCEPT !.wallet = "connecting"]
    BY <1>3 DEF Connecting, PushesNothing
  <2>2. /\ ui' \in UiRow /\ ui'.binding = ui.binding
        /\ ui'.providers = ui.providers /\ ui'.wallet = "connecting"
    BY <1>1, <2>1 DEF UiRow, CardStates
  <2>3. PillIsBacked'
    BY <2>2 DEF PillIsBacked
  <2> QED BY <1>1, <2>1, <2>2, <2>3, CardFrame
<1>4. CASE WrongChain \/ GivesUp
  <2>1. PICK names : Receives(names)
    BY <1>4 DEF WrongChain, GivesUp
  <2>2. PICK c \in {"wrong_network", "disconnected"} :
          ui' = [ui EXCEPT !.wallet = c, !.binding = 0]
    BY <1>4 DEF WrongChain, GivesUp, ResetWallet
  <2>3. UNCHANGED <<rows, toBrowser>>
    BY <1>4 DEF WrongChain, GivesUp, PushesNothing
  <2>4. /\ ui' \in UiRow /\ ui'.binding = 0
        /\ ui'.providers = ui.providers /\ ui'.wallet # "connected"
    BY <1>1, <2>2 DEF UiRow, CardStates
  <2>5. PillIsBacked'
    BY <2>4 DEF PillIsBacked
  <2> QED BY <1>1, <2>1, <2>3, <2>4, <2>5, CardFrame
<1> QED BY <1>2, <1>3, <1>4

LEMMA BrowserStatusStep ==
  ASSUME Inv, BrowserStatus
  PROVE  Inv'
<1> DEFINE e == Head(toServer)
           s == [status |-> e.account, accounts |-> e.list, chain |-> e.chain]
           c == DeriveWalletState(ui.binding, rows, s)
<1>1. Receives({"browser_status"}) /\ UNCHANGED <<rows, toBrowser>>
      /\ ui' = [ui EXCEPT !.browser = s, !.wallet = c]
  BY DEF BrowserStatus, PushesNothing
<1>2. s \in Snapshot
  <2>1. e.account \in Status /\ e.list \in Exposures /\ e.chain \in Chains \cup {None}
    BY <1>1, ServerFacts DEF Told, Message
  <2> QED BY <2>1 DEF Snapshot, Status
<1>3. ui \in UiRow /\ Range(ui.providers) \subseteq Met
  BY CardFacts
<1> HIDE DEF e, s
<1>4. /\ c \in CardStates
      /\ c = "connected" =>
           /\ ui.binding \in Bound(rows)
           /\ rows[ui.binding].address \in Range(s.accounts)
           /\ s.chain \in Supported
  BY Derived
<1> HIDE DEF c
<1>5. /\ ui' \in UiRow /\ ui'.binding = ui.binding /\ ui'.providers = ui.providers
      /\ ui'.wallet = c /\ ui'.browser = s
  BY <1>1, <1>2, <1>3, <1>4 DEF UiRow
<1>6. PillIsBacked'
  BY <1>1, <1>4, <1>5 DEF PillIsBacked, Bound
<1> QED BY <1>1, <1>3, <1>5, <1>6, CardFrame

LEMMA SelectProviderStep ==
  ASSUME Inv, SelectProvider
  PROVE  Inv'
<1> DEFINE w == Head(toServer).account
           m == [Msg("use_provider") EXCEPT !.account = w]
<1>1. /\ Receives({"select_provider"}) /\ UNCHANGED <<ui, rows>>
      /\ IF w \in Range(ui.providers) THEN toBrowser' = Append(toBrowser, m)
                                      ELSE UNCHANGED toBrowser
  BY DEF SelectProvider, serverVars, Pushes, PushesNothing
<1>2. /\ Range(ui.providers) \subseteq Met /\ rows \in Seq(Row) /\ Newest(rows)
      /\ toBrowser \in Seq(ToBrowser(rows, Met)) /\ ui \in UiRow
      /\ ui.binding \in 0..Len(rows)
      /\ ProvenBinding /\ CardShowsActive /\ PillIsBacked
  BY CardFacts
<1>3. Met \subseteq Wallets
  BY SeqRange DEF Met, Inv, TypeInv, PageInv, PageRow
<1> HIDE DEF w
<1>4. w \in Range(ui.providers) => m \in ToBrowser(rows, Met)
  BY <1>2, <1>3, UseMessage
<1> HIDE DEF m
<1>5. toBrowser' \in Seq(ToBrowser(rows', Met))
  BY <1>1, <1>2, <1>4, AppendProperties
<1>6. signed' = signed
  BY <1>1, ServerFacts
<1>7. ProvenBinding' /\ CardShowsActive' /\ PillIsBacked'
  BY <1>1, <1>2, <1>6 DEF ProvenBinding, CardShowsActive, PillIsBacked, Bound
<1> QED BY <1>1, <1>2, <1>5, <1>7, PageFrame

LEMMA CardOf ==
  ASSUME Inv, NEW r, NEW rs \in Seq(Row), r \in 0..Len(rs)
  PROVE  /\ ApplyBinding(r, rs) \in UiRow /\ ApplyBinding(r, rs).binding = r
         /\ ApplyBinding(r, rs).providers = ui.providers
         /\ ApplyBinding(r, rs).wallet = "connected" =>
              /\ r \in Bound(rs)
              /\ rs[r].address \in Range(ApplyBinding(r, rs).browser.accounts)
              /\ ApplyBinding(r, rs).browser.chain \in Supported
<1> DEFINE c == DeriveWalletState(r, rs, ui.browser)
<1>1. ui \in UiRow /\ r \in Nat
  BY CardFacts, RowFacts
<1>2. /\ c \in CardStates
      /\ c = "connected" =>
           /\ r \in Bound(rs) /\ rs[r].address \in Range(ui.browser.accounts)
           /\ ui.browser.chain \in Supported
  BY Derived
<1>3. ApplyBinding(r, rs) = [ui EXCEPT !.wallet = c, !.binding = r]
  BY DEF ApplyBinding
<1> HIDE DEF c
<1> QED BY <1>1, <1>2, <1>3 DEF UiRow

LEMMA ConnectedStep ==
  ASSUME Inv, Connected
  PROVE  Inv'
<1> DEFINE a == Head(toServer).account
           id == Len(rows) + 1
           new == [address |-> a, stamp |-> 0, revoked |-> FALSE, expired |-> FALSE]
           rt == Append(rows, new)
           m == [Msg("challenge") EXCEPT !.id = id, !.account = a]
<1>1. /\ Receives({"connected"}) /\ rows' = rt /\ ui' = ApplyBinding(id, rt)
      /\ toBrowser' = Append(toBrowser, m)
  BY DEF Connected, IssueChallenge, Pushes
<1>2. a \in Accounts /\ signed' = signed
  BY <1>1, ServerFacts DEF Told
<1>3. /\ Range(ui.providers) \subseteq Met /\ rows \in Seq(Row) /\ Newest(rows)
      /\ toBrowser \in Seq(ToBrowser(rows, Met)) /\ ProvenBinding
  BY CardFacts
<1>4. DOMAIN rows = 1..Len(rows) /\ Len(rows) \in Nat
  BY <1>3, RowFacts
<1>5. /\ new \in Row /\ new.stamp = 0 /\ new.address = a
  BY <1>2 DEF Row
<1> HIDE DEF a, new
<1>6. /\ rt \in Seq(Row) /\ Len(rt) = Len(rows) + 1 /\ rt[id] = new
      /\ \A r \in 1..Len(rows) : rt[r] = rows[r]
  BY <1>3, <1>5, AppendProperties
<1> HIDE DEF rt
<1>7. DOMAIN rt = DOMAIN rows \cup {id} /\ id \in DOMAIN rt /\ id \in 0..Len(rt)
      /\ id \in Nat
  BY <1>4, <1>6, RowFacts
<1>8. Newest(rt)
  <2>1. \A r \in DOMAIN rt : rt[r].stamp \in Nat
    BY <1>6, RowFacts
  <2>2. \A r \in DOMAIN rt \ {id} : rt[r].stamp = rows[r].stamp
    BY <1>4, <1>6, <1>7
  <2> HIDE DEF id
  <2> QED BY <1>3, <1>7, <2>1, <2>2, NewestKept
<1>9. \A r \in DOMAIN rows : rt[r].address = rows[r].address
  BY <1>4, <1>6
<1>10. toBrowser' \in Seq(ToBrowser(rt, Met))
  <2>1. toBrowser \in Seq(ToBrowser(rt, Met))
    BY <1>3, <1>7, <1>9, Grows
  <2>2. m \in ToBrowser(rt, Met)
    <3> HIDE DEF id
    <3> QED BY <1>2, <1>5, <1>6, <1>7, ChallengeMessage
  <2> HIDE DEF m
  <2> QED BY <1>1, <2>1, <2>2, AppendProperties
<1>11. id \notin Bound(rt)
  BY <1>5, <1>6 DEF Bound
<1>12. /\ ui' \in UiRow /\ ui'.binding = id /\ ui'.providers = ui.providers
       /\ ui'.wallet # "connected"
  BY <1>1, <1>6, <1>7, <1>11, CardOf
<1>13. CardShowsActive' /\ PillIsBacked'
  BY <1>1, <1>11, <1>12 DEF CardShowsActive, PillIsBacked
<1>14. ProvenBinding'
  BY <1>1, <1>2, <1>3, <1>4, <1>5, <1>6, <1>7 DEF ProvenBinding
<1> HIDE DEF id, m
<1> QED BY <1>1, <1>3, <1>6, <1>7, <1>8, <1>9, <1>10, <1>12, <1>13, <1>14, PageFrame

LEMMA VerifyStep ==
  ASSUME Inv, Verify
  PROVE  Inv'
<1> DEFINE r == Head(toServer).id
           signer == Head(toServer).account
           rt == VerifyAndBind(r)
           b == GetActiveBinding(rt)
<1>1. Receives({"verify"}) /\ UNCHANGED toBrowser
  BY DEF Verify, PushesNothing
<1>2. /\ r \in DOMAIN rows /\ signed' = signed
      /\ signer \in Accounts => <<r, signer>> \in signed
  BY <1>1, ServerFacts DEF Told
<1>3. /\ Range(ui.providers) \subseteq Met /\ rows \in Seq(Row) /\ Newest(rows)
      /\ toBrowser \in Seq(ToBrowser(rows, Met)) /\ ui \in UiRow
      /\ ui.binding \in 0..Len(rows) /\ ProvenBinding
  BY CardFacts
<1>4. CASE Verifiable(r, signer)
  <2>1. rows' = rt /\ ui' = ApplyBinding(b, rt)
    BY <1>4 DEF Verify
  <2>8. <<r, rows[r].address>> \in signed
    <3>1. rows[r] \in Row
      BY <1>2, <1>3, ElementOfSeq, LenProperties
    <3> QED BY <1>2, <1>4, <3>1 DEF Verifiable, AwaitsSignature, Row
  <2> HIDE DEF r
  <2>2. /\ rt \in Seq(Row) /\ Newest(rt) /\ DOMAIN rt = DOMAIN rows
        /\ \A q \in DOMAIN rows : rt[q].address = rows[q].address
        /\ \A q \in DOMAIN rows \ {r} : rt[q] = rows[q]
    BY <1>2, <1>3, VerifiedRows
  <2> HIDE DEF rt
  <2>3. /\ b \in 0..Len(rt)
        /\ b \in Bound(rt) => \A q \in Bound(rt) : rt[q].stamp <= rt[b].stamp
    BY <2>2, Active
  <2> HIDE DEF b
  <2>4. /\ ui' \in UiRow /\ ui'.binding = b /\ ui'.providers = ui.providers
        /\ ui'.wallet = "connected" =>
             /\ b \in Bound(rt)
             /\ rt[b].address \in Range(ui'.browser.accounts)
             /\ ui'.browser.chain \in Supported
    BY <2>1, <2>2, <2>3, CardOf
  <2>5. CardShowsActive' /\ PillIsBacked'
    BY <2>1, <2>3, <2>4 DEF CardShowsActive, PillIsBacked
  <2>6. ProvenBinding'
    BY <1>2, <1>3, <2>1, <2>2, <2>8 DEF ProvenBinding
  <2>7. toBrowser' \in Seq(ToBrowser(rt, Met))
    BY <1>1, <1>3, <2>2, Grows
  <2> QED BY <1>1, <1>3, <2>1, <2>2, <2>3, <2>4, <2>5, <2>6, <2>7, PageFrame
<1>5. CASE ~Verifiable(r, signer)
  <2>1. ui' = [ui EXCEPT !.wallet = "disconnected", !.binding = 0]
        /\ UNCHANGED rows
    BY <1>5 DEF Verify, ResetWallet
  <2>2. /\ ui' \in UiRow /\ ui'.binding = 0 /\ ui'.providers = ui.providers
        /\ ui'.wallet # "connected"
    BY <1>3, <2>1 DEF UiRow, CardStates
  <2>3. PillIsBacked'
    BY <2>2 DEF PillIsBacked
  <2> QED BY <1>1, <1>3, <2>1, <2>2, <2>3, CardFrame
<1> QED BY <1>4, <1>5

LEMMA DisconnectStep ==
  ASSUME Inv, Disconnected \/ Disconnect
  PROVE  Inv'
<1> DEFINE rt == IF ui.binding = 0 THEN rows ELSE RevokeBinding(ui.binding)
<1>1. PICK names : Receives(names)
  BY DEF Disconnected, Disconnect
<1>2. /\ rows' = rt /\ ui' = [ui EXCEPT !.wallet = "disconnected", !.binding = 0]
      /\ toBrowser' = toBrowser \/ toBrowser' = Append(toBrowser, Msg("revoke_permissions"))
  BY DEF Disconnected, Disconnect, RevokeActiveBinding, ResetWallet, Pushes,
     PushesNothing
<1>3. /\ Range(ui.providers) \subseteq Met /\ rows \in Seq(Row) /\ Newest(rows)
      /\ toBrowser \in Seq(ToBrowser(rows, Met)) /\ ui \in UiRow
      /\ ProvenBinding /\ signed' = signed
  BY <1>1, CardFacts, ServerFacts
<1>4. /\ rt \in Seq(Row) /\ Newest(rt) /\ DOMAIN rt = DOMAIN rows
      /\ \A q \in DOMAIN rows :
           rt[q].address = rows[q].address /\ rt[q].stamp = rows[q].stamp
  BY <1>3, RevokedRows
<1> HIDE DEF rt
<1>5. /\ ui' \in UiRow /\ ui'.binding = 0 /\ ui'.providers = ui.providers
      /\ ui'.wallet # "connected"
  BY <1>2, <1>3 DEF UiRow, CardStates
<1>6. DOMAIN rt = 1..Len(rt) /\ Len(rt) \in Nat
  BY <1>4, RowFacts
<1>7. CardShowsActive' /\ PillIsBacked' /\ ui'.binding \in 0..Len(rt)
  BY <1>2, <1>5, <1>6 DEF CardShowsActive, PillIsBacked, Bound
<1>8. ProvenBinding'
  BY <1>2, <1>3, <1>4 DEF ProvenBinding
<1>9. toBrowser' \in Seq(ToBrowser(rt, Met))
  <2>1. toBrowser \in Seq(ToBrowser(rt, Met))
    BY <1>3, <1>4, Grows
  <2>2. Msg("revoke_permissions") \in ToBrowser(rt, Met)
    BY PlainMessages
  <2> QED BY <1>2, <2>1, <2>2, AppendProperties
<1> QED BY <1>1, <1>2, <1>3, <1>4, <1>5, <1>7, <1>8, <1>9, PageFrame

-----------------------------------------------------------------------------

LEMMA InitInv ==
  ASSUME Init
  PROVE  Inv
<1>1. /\ wallet \in [Wallets -> [accounts : Exposures, chain : Supported]]
      /\ stored = None /\ page = EmptyPage /\ tasks = EmptyBag
      /\ toServer = <<>> /\ toBrowser = <<>> /\ rows = <<>>
      /\ ui = MountedUi(<<>>) /\ signed = {} /\ left = MaxActs
  BY DEF Init
<1>2. WalletInv
  BY <1>1, Constants DEF WalletInv
<1>3. PageInv /\ QueueInv
  BY <1>1, FreshPage DEF PageInv, QueueInv
<1>4. rows \in Seq(Row) /\ Newest(rows) /\ Bound(rows) = {} /\ DOMAIN rows = {}
  BY <1>1 DEF Newest, Bound
<1>5. UiInv /\ PillIsBacked
  BY <1>1, <1>4, MountedCard DEF UiInv, PillIsBacked
<1>6. RowsInv /\ NewestExists /\ ProvenBinding /\ CardShowsActive
  BY <1>1, <1>4 DEF RowsInv, NewestExists, ProvenBinding, CardShowsActive
<1> QED BY <1>2, <1>3, <1>5, <1>6 DEF Inv, TypeInv, BindingInv

LEMMA NextInv ==
  ASSUME Inv, [Next]_vars
  PROVE  Inv'
<1>1. CASE Loads
  BY <1>1, MountStep, AnnounceStep DEF Loads
<1>2. CASE WalletAnswers
  <2>1. PICK t \in BagToSet(tasks) :
          \/ ProbeAccounts(t) \/ ProbeChain(t) \/ ProbePush(t)
          \/ ScanFinds(t) \/ ScanSkips(t)
          \/ ConnectApproved(t) \/ ConnectDeclined(t)
          \/ ChainRead(t) \/ Recheck(t)
          \/ Signs(t) \/ RefusesToSign(t) \/ RevokesPermissions(t)
    BY <1>2 DEF WalletAnswers
  <2> QED BY <2>1, ProbeStep, ScanFindsStep, ScanStep, ConnectStep, ChainReadStep,
             RecheckStep, SignStep, RevokeStep
<1>3. CASE WalletFails
  BY <1>3, ProbeStep, RecheckStep, ScanStep DEF WalletFails
<1>4. CASE PageHandles
  BY <1>4, PlainEventStep, SelectProviderStep, ConnectedStep, VerifyStep,
     DisconnectStep, BrowserStatusStep DEF PageHandles
<1>5. CASE HookHandles
  BY <1>5, SignChallengeStep, UseProviderStep, RevokePermissionsStep
  DEF HookHandles
<1>6. CASE User
  BY <1>6, ClickStep, ReloadStep, TimeStep DEF User
<1>7. CASE Inside
  BY <1>7, InsideStep DEF Inside
<1>8. CASE UNCHANGED vars
  BY <1>8 DEF vars, Inv, TypeInv, WalletInv, PageInv, QueueInv, UiInv, RowsInv,
     BindingInv, NewestExists, Newest, ProvenBinding, CardShowsActive,
     PillIsBacked, Bound, Met
<1> QED BY <1>1, <1>2, <1>3, <1>4, <1>5, <1>6, <1>7, <1>8 DEF Next

(* The inductive invariant: what the bag of calls and the two queues may   *)
(* hold, whatever order the wallets answer in (wallet_connect.js,          *)
(* agent_live.ex).                                                         *)
THEOREM Invariance == Spec => []Inv
<1>1. Init => Inv
  BY InitInv
<1>2. Inv /\ [Next]_vars => Inv'
  BY NextInv
<1> QED BY <1>1, <1>2, PTL DEF Spec

(* Every variable keeps its type: a call under way is one of the hook's    *)
(* functions and the card's binding is a row or none.                      *)
THEOREM TypeCorrect == Spec => []TypeOK
<1>1. Inv => TypeOK
  <2> SUFFICES ASSUME Inv PROVE TypeOK
    OBVIOUS
  <2>1. /\ page \in PageRow /\ IsInjective(page.announced)
        /\ page.selected \in Range(page.announced) \cup {None}
        /\ ui \in UiRow /\ ui.binding \in 0..Len(rows)
        /\ BagToSet(tasks) \subseteq Calls(rows)
    BY DEF Inv, TypeInv, PageInv, UiInv, QueueInv
  <2>2. Range(page.announced) \subseteq Wallets
    BY <2>1, SeqRange DEF PageRow
  <2>3. \A t \in BagToSet(tasks) : t.kind \in Kinds /\ t.on \in Wallets \cup {None}
    BY <2>1 DEF Calls, CallRow
  <2> QED BY <2>1, <2>2, <2>3
          DEF TypeOK, Inv, TypeInv, WalletInv, RowsInv, PageRow, UiRow
<1> QED BY <1>1, Invariance, PTL

(* A binding is verified only by a signature of its own address over its   *)
(* own challenge (verify_and_bind, wallet_bindings.ex:119-139).            *)
THEOREM ProvenByItsOwner == Spec => []ProvenBinding
<1>1. Inv => ProvenBinding
  BY DEF Inv, BindingInv
<1> QED BY <1>1, Invariance, PTL

(* A verified binding on the card is the workspace's active one            *)
(* (agent_live.ex:301).                                                    *)
THEOREM ActiveOnCard == Spec => []CardShowsActive
<1>1. Inv => CardShowsActive
  BY DEF Inv, BindingInv
<1> QED BY <1>1, Invariance, PTL

(* The pill says connected only of a bound account that a probe saw on     *)
(* Base Sepolia (agent_live.ex:1569-1594).                                 *)
THEOREM PillHonest == Spec => []PillIsBacked
<1>1. Inv => PillIsBacked
  BY DEF Inv, BindingInv
<1> QED BY <1>1, Invariance, PTL

-----------------------------------------------------------------------------
(* The documented life of a binding. *)

StateIn(rs, r) ==
  IF r \notin DOMAIN rs THEN "none"
  ELSE IF rs[r].revoked THEN "revoked"
  ELSE IF rs[r].stamp > 0 THEN "verified"
  ELSE IF rs[r].expired THEN "expired"
  ELSE "pending"

Watched(rs) == [r \in 1..MaxRows |-> StateIn(rs, r)]

(* One row changes, or one that is not watched. *)
LEMMA OneRowMoves ==
  ASSUME NEW rs, NEW rt, NEW x, NEW from, NEW to,
         \A r \in 1..MaxRows \ {x} : StateIn(rt, r) = StateIn(rs, r),
         StateIn(rs, x) = from, StateIn(rt, x) = to
  PROVE  \/ Watched(rt) = Watched(rs)
         \/ \E r \in 1..MaxRows : /\ Watched(rs)[r] = from
                                  /\ Watched(rt) = [Watched(rs) EXCEPT ![r] = to]
<1>1. CASE x \in 1..MaxRows
  <2>1. Watched(rt) = [Watched(rs) EXCEPT ![x] = to] /\ Watched(rs)[x] = from
    BY <1>1 DEF Watched
  <2> QED BY <1>1, <2>1
<1>2. CASE x \notin 1..MaxRows
  BY <1>2 DEF Watched
<1> QED BY <1>1, <1>2

Moved(rs, rt, from, to) ==
  \E r \in 1..MaxRows :
    Watched(rs)[r] = from /\ Watched(rt) = [Watched(rs) EXCEPT ![r] = to]

LEMMA IssueMoves ==
  ASSUME Inv, Connected
  PROVE  Watched(rows') = Watched(rows) \/ Moved(rows, rows', "none", "pending")
<1> DEFINE a == Head(toServer).account
           id == Len(rows) + 1
           new == [address |-> a, stamp |-> 0, revoked |-> FALSE, expired |-> FALSE]
           rt == Append(rows, new)
<1>1. rows' = rt
  BY DEF Connected, IssueChallenge
<1>2. rows \in Seq(Row) /\ DOMAIN rows = 1..Len(rows) /\ Len(rows) \in Nat
  BY CardFacts, RowFacts
<1>3. new \in Row
  BY ServerFacts DEF Row, Told, Connected
<1>4. new.stamp = 0 /\ ~new.revoked /\ ~new.expired
  OBVIOUS
<1> HIDE DEF new
<1>5. /\ rt \in Seq(Row) /\ Len(rt) = Len(rows) + 1 /\ rt[id] = new
      /\ \A r \in 1..Len(rows) : rt[r] = rows[r]
  BY <1>2, <1>3, AppendProperties
<1> HIDE DEF rt
<1>6. DOMAIN rt = DOMAIN rows \cup {id} /\ id \notin DOMAIN rows
  BY <1>2, <1>5, RowFacts
<1>7. \A r \in 1..MaxRows \ {id} : StateIn(rt, r) = StateIn(rows, r)
  BY <1>2, <1>5, <1>6 DEF StateIn
<1>8. StateIn(rows, id) = "none" /\ StateIn(rt, id) = "pending"
  BY <1>4, <1>5, <1>6 DEF StateIn
<1> HIDE DEF id
<1> QED BY <1>1, <1>7, <1>8, OneRowMoves DEF Moved

LEMMA VerifyMoves ==
  ASSUME Inv, Verify
  PROVE  Watched(rows') = Watched(rows) \/ Moved(rows, rows', "pending", "verified")
<1> DEFINE r == Head(toServer).id
           signer == Head(toServer).account
           n == NextStamp
           rt == [rows EXCEPT ![r].stamp = n]
<1>1. r \in DOMAIN rows
  BY ServerFacts DEF Verify, Told
<1>2. rows \in Seq(Row) /\ \A q \in DOMAIN rows : rows[q] \in Row
  BY CardFacts, RowFacts
<1>3. n \in Nat /\ n > 0
  BY <1>2, NextStampType
<1>4. CASE Verifiable(r, signer)
  <2>1. rows' = rt
    BY <1>4 DEF Verify, VerifyAndBind
  <2>2. rows[r].stamp = 0 /\ ~rows[r].revoked /\ ~rows[r].expired
    BY <1>4 DEF Verifiable, AwaitsSignature
  <2> HIDE DEF r, n
  <2>3. /\ DOMAIN rt = DOMAIN rows /\ \A q \in DOMAIN rows \ {r} : rt[q] = rows[q]
        /\ rt[r] = [rows[r] EXCEPT !.stamp = n]
    BY <1>1
  <2>4. rt[r].stamp = n /\ rt[r].revoked = rows[r].revoked
    BY <1>1, <1>2, <2>3 DEF Row
  <2> HIDE DEF rt
  <2>5. \A q \in 1..MaxRows \ {r} : StateIn(rt, q) = StateIn(rows, q)
    BY <2>3 DEF StateIn
  <2>6. StateIn(rows, r) = "pending" /\ StateIn(rt, r) = "verified"
    BY <1>1, <1>3, <2>2, <2>3, <2>4 DEF StateIn
  <2> QED BY <2>1, <2>5, <2>6, OneRowMoves DEF Moved
<1>5. CASE ~Verifiable(r, signer)
  BY <1>5 DEF Verify
<1> QED BY <1>4, <1>5

LEMMA RevokeMoves ==
  ASSUME Inv, Disconnected \/ Disconnect
  PROVE  Watched(rows') = Watched(rows) \/ Moved(rows, rows', "verified", "revoked")
<1> DEFINE r == ui.binding
           rt == [rows EXCEPT ![r].revoked = TRUE]
<1>1. rows \in Seq(Row) /\ \A q \in DOMAIN rows : rows[q] \in Row
  BY CardFacts, RowFacts
<1>2. rows' = rows \/ (r \in Bound(rows) /\ rows' = rt)
  BY DEF Disconnected, Disconnect, RevokeActiveBinding, RevokeBinding
<1>3. CASE r \in Bound(rows) /\ rows' = rt
  <2>1. r \in DOMAIN rows /\ rows[r].stamp > 0 /\ ~rows[r].revoked
    BY <1>3 DEF Bound
  <2> HIDE DEF r
  <2>2. /\ DOMAIN rt = DOMAIN rows /\ \A q \in DOMAIN rows \ {r} : rt[q] = rows[q]
        /\ rt[r] = [rows[r] EXCEPT !.revoked = TRUE]
    BY <2>1
  <2>3. rt[r].revoked
    BY <1>1, <2>1, <2>2 DEF Row
  <2>4. rows' = rt
    BY <1>3
  <2> HIDE DEF rt
  <2>5. \A q \in 1..MaxRows \ {r} : StateIn(rt, q) = StateIn(rows, q)
    BY <2>2 DEF StateIn
  <2>6. StateIn(rows, r) = "verified" /\ StateIn(rt, r) = "revoked"
    BY <2>1, <2>2, <2>3 DEF StateIn
  <2> QED BY <2>4, <2>5, <2>6, OneRowMoves DEF Moved
<1> QED BY <1>2, <1>3

LEMMA TimeExpires ==
  ASSUME Inv, TimePasses
  PROVE  Watched(rows') =
           [r \in 1..MaxRows |-> IF Watched(rows)[r] = "pending" THEN "expired"
                                 ELSE Watched(rows)[r]]
<1>1. rows' = [r \in DOMAIN rows |-> [rows[r] EXCEPT !.expired = TRUE]]
  BY DEF TimePasses
<1>2. \A r \in DOMAIN rows : rows[r] \in Row
  BY CardFacts, RowFacts
<1>3. /\ DOMAIN rows' = DOMAIN rows
      /\ \A r \in DOMAIN rows : /\ rows'[r].stamp = rows[r].stamp
                                /\ rows'[r].revoked = rows[r].revoked
                                /\ rows'[r].expired
  BY <1>1, <1>2 DEF Row
<1>4. \A r \in 1..MaxRows :
        StateIn(rows', r) = IF StateIn(rows, r) = "pending" THEN "expired"
                            ELSE StateIn(rows, r)
  BY <1>3 DEF StateIn
<1> QED BY <1>4 DEF Watched

LEMMA RowsMove ==
  ASSUME Inv, [Next]_vars
  PROVE  \/ UNCHANGED rows \/ Connected \/ Verify \/ Disconnected \/ Disconnect
         \/ TimePasses
BY DEF Next, vars, Loads, WalletAnswers, WalletFails, PageHandles, HookHandles,
   User, Inside, Mount, Announce, ProbeAccounts, ProbeChain, ProbePush, ProbeFails,
   ScanFinds, ScanSkips, ScanFails, ConnectApproved, ConnectDeclined, ChainRead,
   Recheck, RequestFails, Signs, RefusesToSign, RevokesPermissions,
   ProvidersDiscovered, SelectProvider, Connecting, WrongChain, GivesUp,
   BrowserStatus, SignChallenge, UseProvider, RevokePermissions, HookReceives,
   ClickConnect, PickWallet, ClickDisconnect, UserClicks, Reload, AccountsChange,
   ChainChanges, SiteRemovedSilently, TaskStep, serverVars

(* Each row lives the documented life of a binding: issued, verified or    *)
(* too old, revoked only once verified, and no way back                    *)
(* (wallet_binding.ex, wallet_bindings.ex:119-189).                        *)
THEOREM Implementation == Spec => ImplementsLifecycle
<1>1. Init => Lifecycle!Init
  <2> SUFFICES ASSUME Init PROVE Lifecycle!Init
    OBVIOUS
  <2>1. DOMAIN rows = {}
    BY DEF Init
  <2> QED BY <2>1 DEF Lifecycle!Init, StateOfRow
<1>2. Inv /\ [Next]_vars =>
        [Lifecycle!Next]_([r \in 1..MaxRows |-> StateOfRow(r)])
  <2> SUFFICES ASSUME Inv, [Next]_vars
               PROVE  Lifecycle!Next \/ Watched(rows') = Watched(rows)
    BY DEF Watched, StateIn, StateOfRow
  <2>1. /\ Watched(rows) = [r \in 1..MaxRows |-> StateOfRow(r)]
        /\ Watched(rows') = [r \in 1..MaxRows |-> StateOfRow(r)']
    BY DEF Watched, StateIn, StateOfRow
  <2>2. \A from, to : Moved(rows, rows', from, to) => Lifecycle!Moves(from, to)
    BY <2>1 DEF Moved, Lifecycle!Moves
  <2>3. TimePasses => Lifecycle!Expire
    BY <2>1, TimeExpires DEF Lifecycle!Expire
  <2> QED BY <2>2, <2>3, RowsMove, IssueMoves, VerifyMoves, RevokeMoves
          DEF Lifecycle!Next
<1> QED BY <1>1, <1>2, Invariance, PTL
        DEF Spec, ImplementsLifecycle, Lifecycle!Spec
=============================================================================
