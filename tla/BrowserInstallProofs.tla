------------------------- MODULE BrowserInstallProofs -------------------------
(* Theorems about BrowserInstall for any number of clicks, any exposures   *)
(* and however far the page is behind.                                     *)
EXTENDS BrowserInstall, SequenceTheorems, TLAPS

Addresses == {None} \cup UNION {Range(e) : e \in Exposures}

Reasons == {None, "user_rejected", "insufficient_funds", "chain_id_mismatch",
            "bundler_unavailable", "bundler_rejected", "unknown",
            "attestation_timeout", "userop_reverted"}

CallRow == [step : Steps, account : Addresses, reason : Reasons, named : BOOLEAN]

Names == {"install", "wrong_chain", "failed", "awaiting", "submitted", "confirmed"}

Events == [event : Names, click : Clicks]

Installs == {"idle", "awaiting", "submitted", "confirmed", "failed", "wrong_chain"}

UiRow == [install : Installs, delegation : {None, "pending", "active"},
          permission : {"not_installed", "installing", "active", "failed"}]

(* Steps of a call whose operation has not left the page. *)
Early == {"idle", "accounts", "chain", "envelope", "request", "balance", "build",
          "enable", "sign", "send"}

TypeInv ==
  /\ wallet \in [accounts : Exposures, chain : {"base_sepolia", "base"}]
  /\ binding \in {"verified", "revoked"} /\ paused \in BOOLEAN
  /\ call \in [Clicks -> CallRow]
  /\ op \in [Clicks -> {"none", "mempool", "landed", "reverted"}]
  /\ row \in [Clicks -> {"none", "pending", "active", "install_failed"}]
  /\ attested \subseteq Clicks
  /\ toServer \in Seq(Events)
  /\ ui \in UiRow
  /\ left \in 0..MaxActs

(* A call broadcasts once, and confirms only what landed. *)
OpInv ==
  \A c \in Clicks :
    /\ call[c].step \in Early => op[c] = "none"
    /\ call[c].step = "confirm" => op[c] = "landed"

(* The page's last news of a click is the end of it, or there is more to   *)
(* come: and so an install it shows under way is backed, whatever the      *)
(* delegation it has loaded.                                               *)
LastBacked ==
  toServer # <<>> =>
    LET e == toServer[Len(toServer)]
    IN  e.event \in {"install", "awaiting"} => e.click \in Under

ShownBacked == ui.install = "awaiting" => Under # {} \/ toServer # <<>>

Inv == TypeInv /\ OpInv /\ LastBacked /\ ShownBacked /\ AcceptedBeforeShown

-----------------------------------------------------------------------------
(* Lemmas about the steps of a call. *)

LEMMA Constants ==
  /\ \A e \in Exposures : e \in Seq(Range(e))
  /\ MaxActs \in Nat /\ MaxQueue \in Nat \ {0}
BY InstallAssumption

LEMMA RowOfCall ==
  ASSUME TypeInv, NEW c \in Clicks
  PROVE  /\ call[c] \in CallRow /\ DOMAIN call = Clicks
         /\ \A s \in Steps : [call[c] EXCEPT !.step = s] \in CallRow
         /\ \A s : [call[c] EXCEPT !.step = s].step = s
         /\ \A s : [call EXCEPT ![c].step = s]
                     = [call EXCEPT ![c] = [call[c] EXCEPT !.step = s]]
<1>1. call[c] \in CallRow /\ DOMAIN call = Clicks
  BY DEF TypeInv
<1>2. \A s \in Steps : [call[c] EXCEPT !.step = s] \in CallRow
  BY <1>1 DEF CallRow
<1>3. \A s : [call[c] EXCEPT !.step = s].step = s
  BY <1>1 DEF CallRow
<1>4. \A s : [call EXCEPT ![c].step = s]
               = [call EXCEPT ![c] = [call[c] EXCEPT !.step = s]]
  OBVIOUS
<1> QED BY <1>1, <1>2, <1>3, <1>4

LEMMA OverRow ==
  /\ [Idle EXCEPT !.step = "over"] \in CallRow
  /\ [Idle EXCEPT !.step = "over"].step = "over"
  /\ Idle \in CallRow /\ Idle.step = "idle"
<1>1. Idle \in CallRow /\ Idle.step = "idle"
  BY DEF Idle, CallRow, Steps, Addresses, Reasons
<1>2. "over" \in Steps
  BY DEF Steps
<1>3. [Idle EXCEPT !.step = "over"] \in CallRow
  BY <1>1, <1>2 DEF CallRow
<1>4. [Idle EXCEPT !.step = "over"].step = "over"
  BY DEF Idle
<1> QED BY <1>1, <1>3, <1>4

LEMMA ReportRow ==
  ASSUME NEW reason \in Reasons, NEW named \in BOOLEAN
  PROVE  /\ [Idle EXCEPT !.step = "report", !.reason = reason, !.named = named]
              \in CallRow
         /\ [Idle EXCEPT !.step = "report", !.reason = reason,
                         !.named = named].step = "report"
<1>1. Idle \in CallRow /\ "report" \in Steps
  BY OverRow DEF Steps
<1>2. [Idle EXCEPT !.step = "report", !.reason = reason, !.named = named]
        \in CallRow
  BY <1>1 DEF CallRow
<1>3. [Idle EXCEPT !.step = "report", !.reason = reason,
                   !.named = named].step = "report"
  BY DEF Idle
<1> QED BY <1>2, <1>3

(* What a call does to itself and to the queue: it goes on in silence, or  *)
(* with an event; or it is over, and says so.                              *)
Tells(c, u, names) ==
  /\ call' = [call EXCEPT ![c] = u]
  /\ \/ UNCHANGED toServer /\ u.step # "over"
     \/ \E name \in names : /\ toServer' = Append(toServer, Event(name, c))
                            /\ name \in {"install", "awaiting"} => u.step # "over"

LEMMA GoesTells ==
  ASSUME TypeInv, NEW c \in Clicks, NEW s \in Steps \ {"idle", "over"}, Goes(c, s)
  PROVE  \E u \in CallRow :
           /\ u.step = s /\ call' = [call EXCEPT ![c] = u]
           /\ UNCHANGED toServer => Tells(c, u, {})
           /\ \A name : Push(Event(name, c)) => Tells(c, u, {name})
<1> DEFINE u == [call[c] EXCEPT !.step = s]
<1>1. u \in CallRow /\ u.step = s /\ call' = [call EXCEPT ![c] = u]
  BY RowOfCall DEF Goes
<1> HIDE DEF u
<1> QED BY <1>1 DEF Tells, Push

LEMMA StopsTells ==
  ASSUME NEW c \in Clicks, NEW name \in Names \ {"install", "awaiting"},
         Stops(c, Event(name, c))
  PROVE  \E u \in CallRow : u.step = "over" /\ Tells(c, u, {name})
<1> DEFINE u == [Idle EXCEPT !.step = "over"]
<1>1. u \in CallRow /\ u.step = "over"
  BY OverRow
<1>2. call' = [call EXCEPT ![c] = u]
      /\ toServer' = Append(toServer, Event(name, c))
  BY DEF Stops, Push
<1> HIDE DEF u
<1> QED BY <1>1, <1>2 DEF Tells

LEMMA ReportsTells ==
  ASSUME NEW c \in Clicks, NEW reason \in Reasons, NEW named \in BOOLEAN,
         Reports(c, reason, named)
  PROVE  \E u \in CallRow : u.step = "report" /\ Tells(c, u, {})
<1> DEFINE u == [Idle EXCEPT !.step = "report", !.reason = reason, !.named = named]
<1>1. u \in CallRow /\ u.step = "report"
  BY ReportRow
<1>2. call' = [call EXCEPT ![c] = u] /\ UNCHANGED toServer
  BY DEF Reports
<1> HIDE DEF u
<1> QED BY <1>1, <1>2 DEF Tells

(* Such a step keeps the invariant if what it says and does is true.       *)
LEMMA CallFrame ==
  ASSUME Inv, NEW c \in Clicks, NEW u \in CallRow, NEW names \in SUBSET Names,
         Tells(c, u, names), u.step # "idle",
         UNCHANGED world,
         op' \in [Clicks -> {"none", "mempool", "landed", "reverted"}],
         row' \in [Clicks -> {"none", "pending", "active", "install_failed"}],
         \A d \in Clicks \ {c} : op'[d] = op[d],
         op[c] # "none" => op'[c] = op[c],
         u.step \in Early => op'[c] = "none",
         u.step = "confirm" => op'[c] = "landed",
         \A d \in Clicks : row[d] # "none" => row'[d] # "none",
         attested \subseteq attested', attested' \subseteq Clicks,
         "submitted" \in names => row'[c] # "none",
         "confirmed" \in names => c \in attested' /\ op'[c] = "landed"
  PROVE  Inv'
<1>1. /\ call \in [Clicks -> CallRow] /\ toServer \in Seq(Events)
      /\ call' = [call EXCEPT ![c] = u]
      /\ UNCHANGED <<wallet, binding, paused, ui, left>>
  BY DEF Inv, TypeInv, Tells, world
<1>2. /\ call' \in [Clicks -> CallRow] /\ call'[c] = u
      /\ \A d \in Clicks \ {c} : call'[d] = call[d]
  BY <1>1
<1>3. OpInv'
  BY <1>2 DEF Inv, OpInv
<1>4. /\ \A d \in Under : d # c => d \in Under'
      /\ u.step # "over" => c \in Under'
  BY <1>2 DEF Under
<1>5. \A i \in 1..Len(toServer) :
        /\ toServer[i].event = "submitted" => row'[toServer[i].click] # "none"
        /\ toServer[i].event = "confirmed" =>
             toServer[i].click \in attested' /\ op'[toServer[i].click] = "landed"
  <2> SUFFICES ASSUME NEW i \in 1..Len(toServer)
      PROVE  /\ toServer[i].event = "submitted" => row'[toServer[i].click] # "none"
             /\ toServer[i].event = "confirmed" =>
                  /\ toServer[i].click \in attested'
                  /\ op'[toServer[i].click] = "landed"
    OBVIOUS
  <2>1. i \in DOMAIN toServer /\ toServer[i].click \in Clicks
    <3>1. DOMAIN toServer = 1..Len(toServer)
      BY <1>1, LenProperties
    <3>2. toServer[i] \in Events
      BY <1>1, ElementOfSeq
    <3> QED BY <3>1, <3>2 DEF Events
  <2> QED BY <2>1 DEF Inv, AcceptedBeforeShown
<1>6. CASE UNCHANGED toServer /\ u.step # "over"
  <2>1. TypeInv'
    BY <1>1, <1>2, <1>6 DEF Inv, TypeInv
  <2>2. LastBacked'
    BY <1>4, <1>6 DEF Inv, LastBacked
  <2>3. ShownBacked'
    BY <1>1, <1>4, <1>6 DEF Inv, ShownBacked
  <2>4. AcceptedBeforeShown'
    BY <1>1, <1>5, <1>6, LenProperties DEF AcceptedBeforeShown
  <2> QED BY <1>3, <2>1, <2>2, <2>3, <2>4 DEF Inv
<1>7. CASE ~(UNCHANGED toServer /\ u.step # "over")
  <2>1. PICK name \in names :
          /\ toServer' = Append(toServer, Event(name, c))
          /\ name \in {"install", "awaiting"} => u.step # "over"
    BY <1>7 DEF Tells
  <2> DEFINE e == Event(name, c)
             n == Len(toServer) + 1
  <2>2. e \in Events /\ e.event = name /\ e.click = c
    BY DEF Event, Events
  <2>3. toServer' = Append(toServer, e)
    BY <2>1
  <2> HIDE DEF e
  <2>4. /\ toServer' \in Seq(Events) /\ Len(toServer') = n /\ Len(toServer) \in Nat
        /\ \A i \in 1..Len(toServer) : toServer'[i] = toServer[i]
        /\ toServer'[n] = e /\ DOMAIN toServer' = 1..n
    BY <1>1, <2>2, <2>3, AppendProperties, LenProperties
  <2>5. TypeInv'
    BY <1>1, <1>2, <2>4 DEF Inv, TypeInv
  <2>6. LastBacked'
    BY <1>4, <2>1, <2>2, <2>4 DEF LastBacked
  <2>7. ShownBacked'
    BY <2>4 DEF ShownBacked
  <2>8. AcceptedBeforeShown'
    <3>1. /\ name = "submitted" => row'[c] # "none"
          /\ name = "confirmed" => c \in attested' /\ op'[c] = "landed"
      OBVIOUS
    <3>2. \A i \in 1..n : i \in 1..Len(toServer) \/ i = n
      BY <2>4
    <3> HIDE DEF n
    <3> QED BY <1>5, <2>2, <2>4, <3>1, <3>2 DEF AcceptedBeforeShown
  <2> QED BY <1>3, <2>5, <2>6, <2>7, <2>8 DEF Inv
<1> QED BY <1>6, <1>7

LEMMA TypeFacts ==
  ASSUME Inv
  PROVE  /\ op \in [Clicks -> {"none", "mempool", "landed", "reverted"}]
         /\ row \in [Clicks -> {"none", "pending", "active", "install_failed"}]
         /\ attested \subseteq Clicks /\ call \in [Clicks -> CallRow]
         /\ ui \in UiRow /\ toServer \in Seq(Events) /\ TypeInv
         /\ \A c \in Clicks : /\ call[c].step \in Early => op[c] = "none"
                              /\ call[c].step = "confirm" => op[c] = "landed"
BY DEF Inv, TypeInv, OpInv

(* A step that neither broadcasts nor writes a row. *)
LEMMA QuietFrame ==
  ASSUME Inv, NEW c \in Clicks, NEW u \in CallRow,
         NEW names \in SUBSET (Names \ {"submitted", "confirmed"}),
         Tells(c, u, names), Quiet, u.step # "idle",
         u.step \in Early => call[c].step \in Early,
         u.step = "confirm" => op[c] = "landed"
  PROVE  Inv'
<1>1. UNCHANGED <<op, row, attested>> /\ UNCHANGED world
  BY DEF Quiet
<1>2. names \in SUBSET Names
  OBVIOUS
<1> QED BY <1>1, <1>2, TypeFacts, CallFrame

(* A step that is quiet but for the call and the queue, by how it ends.    *)
LEMMA QuietEnds ==
  ASSUME Inv, NEW c \in Clicks, Quiet,
         \/ Fails(c)
         \/ Stops(c, Event("wrong_chain", c))
         \/ \E reason \in Reasons, named \in BOOLEAN : Reports(c, reason, named)
         \/ \E s \in Steps \ {"idle", "over"} :
              /\ Goes(c, s)
              /\ UNCHANGED toServer \/ Push(Event("install", c))
                   \/ Push(Event("awaiting", c))
              /\ s \in Early => call[c].step \in Early
              /\ s = "confirm" => op[c] = "landed"
  PROVE  Inv'
<1>1. "over" \notin Early /\ "report" \notin Early
  BY DEF Early
<1>2. CASE Fails(c) \/ Stops(c, Event("wrong_chain", c))
  <2>1. PICK name \in {"failed", "wrong_chain"} : Stops(c, Event(name, c))
    BY <1>2 DEF Fails
  <2>2. PICK u \in CallRow : u.step = "over" /\ Tells(c, u, {name})
    BY <2>1, StopsTells DEF Names
  <2>3. {name} \in SUBSET (Names \ {"submitted", "confirmed"})
    BY DEF Names
  <2> QED BY <1>1, <2>2, <2>3, QuietFrame
<1>3. CASE \E reason \in Reasons, named \in BOOLEAN : Reports(c, reason, named)
  <2>1. PICK u \in CallRow : u.step = "report" /\ Tells(c, u, {})
    BY <1>3, ReportsTells
  <2> QED BY <1>1, <2>1, QuietFrame
<1>4. CASE \E s \in Steps \ {"idle", "over"} :
             /\ Goes(c, s)
             /\ UNCHANGED toServer \/ Push(Event("install", c))
                  \/ Push(Event("awaiting", c))
             /\ s \in Early => call[c].step \in Early
             /\ s = "confirm" => op[c] = "landed"
  <2>1. PICK s \in Steps \ {"idle", "over"} :
             /\ Goes(c, s)
             /\ UNCHANGED toServer \/ Push(Event("install", c))
                  \/ Push(Event("awaiting", c))
             /\ s \in Early => call[c].step \in Early
             /\ s = "confirm" => op[c] = "landed"
    BY <1>4
  <2>2. PICK u \in CallRow :
           /\ u.step = s
           /\ UNCHANGED toServer => Tells(c, u, {})
           /\ \A name : Push(Event(name, c)) => Tells(c, u, {name})
    BY <2>1, TypeFacts, GoesTells
  <2>3. PICK names \in {{}, {"install"}, {"awaiting"}} : Tells(c, u, names)
    BY <2>1, <2>2
  <2>4. names \in SUBSET (Names \ {"submitted", "confirmed"})
    BY DEF Names
  <2> QED BY <2>1, <2>2, <2>3, <2>4, QuietFrame
<1> QED BY <1>2, <1>3, <1>4

-----------------------------------------------------------------------------
(* The steps of a call. *)

LEMMA PreflightStep ==
  ASSUME Inv, NEW c \in Clicks,
         Click(c) \/ PreflightAccounts(c) \/ PreflightChain(c)
           \/ FetchInstallEnvelope(c) \/ PreflightBalance(c)
  PROVE  Inv'
<1>1. Quiet /\ call[c].step \in Early
  BY DEF Click, PreflightAccounts, PreflightChain, FetchInstallEnvelope,
     PreflightBalance, Early
<1>2. \/ Fails(c)
      \/ Stops(c, Event("wrong_chain", c))
      \/ Reports(c, "insufficient_funds", FALSE)
      \/ \E s \in {"accounts", "chain", "envelope", "request", "build"} :
           /\ Goes(c, s)
           /\ UNCHANGED toServer \/ Push(Event("install", c))
                \/ Push(Event("awaiting", c))
  BY DEF Click, PreflightAccounts, PreflightChain, FetchInstallEnvelope,
     PreflightBalance
<1>3. /\ "insufficient_funds" \in Reasons
      /\ \A s \in {"accounts", "chain", "envelope", "request", "build"} :
           s \in Steps \ {"idle", "over"} /\ s # "confirm"
  BY DEF Reasons, Steps
<1> QED BY <1>1, <1>2, <1>3, QuietEnds

LEMMA RequestStep ==
  ASSUME Inv, NEW c \in Clicks, RequestAccounts(c)
  PROVE  Inv'
<1>1. Quiet /\ call[c].step \in Early
  BY DEF RequestAccounts, Early
<1>2. CASE Fails(c)
  BY <1>1, <1>2, QuietEnds
<1>3. CASE ~Fails(c)
  <2> DEFINE a == Head(wallet.accounts)
             u == [call[c] EXCEPT !.step = "balance", !.account = a]
  <2>1. /\ wallet.accounts # <<>> /\ UNCHANGED toServer
        /\ call' = [call EXCEPT ![c].step = "balance", ![c].account = a]
    BY <1>3 DEF RequestAccounts
  <2>2. a \in Addresses
    <3>1. wallet.accounts \in Exposures
      BY DEF Inv, TypeInv
    <3>2. wallet.accounts \in Seq(Range(wallet.accounts))
      BY <3>1, Constants
    <3>3. a \in Range(wallet.accounts)
      BY <2>1, <3>2
    <3> QED BY <3>1, <3>3 DEF Addresses
  <2> HIDE DEF a
  <2>3. call[c] \in CallRow /\ "balance" \in Steps
    BY TypeFacts DEF Steps
  <2>4. u \in CallRow
    BY <2>2, <2>3 DEF CallRow
  <2>5. u.step = "balance"
    BY <2>3 DEF CallRow
  <2>6. call' = [call EXCEPT ![c] = u]
    BY <2>1, TypeFacts
  <2> HIDE DEF u
  <2>7. Tells(c, u, {})
    BY <2>1, <2>5, <2>6 DEF Tells
  <2> QED BY <1>1, <2>4, <2>5, <2>7, QuietFrame
<1> QED BY <1>2, <1>3

LEMMA BuildStep ==
  ASSUME Inv, NEW c \in Clicks,
         BuildAccount(c) \/ SignEnable(c) \/ SignSessionPortion(c)
           \/ WaitForReceipt(c)
  PROVE  Inv'
<1>1. Quiet
  BY DEF BuildAccount, SignEnable, SignSessionPortion, WaitForReceipt
<1>2. /\ \A e \in {"declined", "funds", "chain", "network", "refused", "other"} :
           classifySendError(e) \in Reasons
      /\ \A e \in {"network", "timeout"} : classifyReceiptError(e) \in Reasons
      /\ \A e : SignerError(e) \in {"network", "other"}
      /\ "userop_reverted" \in Reasons
  BY DEF classifySendError, classifyReceiptError, SignerError, Reasons
<1>3. CASE BuildAccount(c) \/ SignEnable(c) \/ SignSessionPortion(c)
  <2>1. call[c].step \in Early
    BY <1>3 DEF BuildAccount, SignEnable, SignSessionPortion, Early
  <2>2. \/ \E e \in {"declined", "chain", "network", "other"} :
             Reports(c, classifySendError(e), FALSE)
        \/ \E s \in {"enable", "sign", "send"} : Goes(c, s) /\ UNCHANGED toServer
    BY <1>2, <1>3 DEF BuildAccount, SignEnable, SignSessionPortion
  <2>3. \A s \in {"enable", "sign", "send"} :
          s \in Steps \ {"idle", "over"} /\ s # "confirm"
    BY DEF Steps
  <2> QED BY <1>1, <1>2, <2>1, <2>2, <2>3, QuietEnds
<1>4. CASE WaitForReceipt(c)
  <2>1. \/ op[c] = "landed" /\ Goes(c, "confirm") /\ UNCHANGED toServer
        \/ Reports(c, "userop_reverted", TRUE)
        \/ \E e \in {"network", "timeout"} :
             Reports(c, classifyReceiptError(e), TRUE)
    BY <1>4 DEF WaitForReceipt
  <2>2. "confirm" \in Steps \ {"idle", "over"} /\ "confirm" \notin Early
    BY DEF Steps, Early
  <2> QED BY <1>1, <1>2, <2>1, <2>2, QuietEnds
<1> QED BY <1>3, <1>4

LEMMA SendStep ==
  ASSUME Inv, NEW c \in Clicks, SendUserOperation(c)
  PROVE  Inv'
<1>1. /\ call[c].step = "send" /\ UNCHANGED <<row, attested>> /\ UNCHANGED world
      /\ UNCHANGED op \/ op' = [op EXCEPT ![c] = "mempool"]
  BY DEF SendUserOperation, Broadcasts
<1>2. op[c] = "none"
  BY <1>1, TypeFacts DEF Early
<1>3. /\ op' \in [Clicks -> {"none", "mempool", "landed", "reverted"}]
      /\ \A d \in Clicks \ {c} : op'[d] = op[d]
  BY <1>1, TypeFacts
<1>4. \E u \in CallRow : u.step \in {"report", "post"} /\ Tells(c, u, {})
  <2>1. \A e \in {"funds", "refused", "network"} : classifySendError(e) \in Reasons
    BY DEF classifySendError, Reasons
  <2>2. \/ \E e \in {"funds", "refused", "network"} :
             Reports(c, classifySendError(e), FALSE)
        \/ Goes(c, "post") /\ UNCHANGED toServer
    BY DEF SendUserOperation
  <2>3. "post" \in Steps \ {"idle", "over"}
    BY DEF Steps
  <2> QED BY <2>1, <2>2, <2>3, TypeFacts, ReportsTells, GoesTells
<1>5. PICK u \in CallRow : u.step \in {"report", "post"} /\ Tells(c, u, {})
  BY <1>4
<1>6. u.step \notin Early /\ u.step # "idle" /\ u.step # "confirm"
  BY <1>5 DEF Early
<1> QED BY <1>1, <1>2, <1>3, <1>5, <1>6, TypeFacts, CallFrame

LEMMA PostSubmittedStep ==
  ASSUME Inv, NEW c \in Clicks, PostSubmitted(c)
  PROVE  Inv'
<1>1. /\ UNCHANGED <<op, attested>> /\ UNCHANGED world
      /\ \/ Records(c) /\ Goes(c, "receipt") /\ Push(Event("submitted", c))
         \/ (Records(c) \/ UNCHANGED row) /\ Fails(c)
  BY DEF PostSubmitted
<1>2. /\ row' \in [Clicks -> {"none", "pending", "active", "install_failed"}]
      /\ \A d \in Clicks : row[d] # "none" => row'[d] # "none"
      /\ Records(c) => row'[c] # "none"
  BY <1>1, TypeFacts DEF Records
<1>3. CASE Records(c) /\ Goes(c, "receipt") /\ Push(Event("submitted", c))
  <2>1. "receipt" \in Steps \ {"idle", "over"} /\ "receipt" \notin Early
        /\ {"submitted"} \in SUBSET Names
    BY DEF Steps, Early, Names
  <2>2. PICK u \in CallRow : u.step = "receipt" /\ Tells(c, u, {"submitted"})
    BY <1>3, <2>1, TypeFacts, GoesTells
  <2> QED BY <1>1, <1>2, <1>3, <2>1, <2>2, TypeFacts, CallFrame
<1>4. CASE (Records(c) \/ UNCHANGED row) /\ Fails(c)
  <2>1. "over" \notin Early /\ {"failed"} \in SUBSET Names
    BY DEF Early, Names
  <2>2. PICK u \in CallRow : u.step = "over" /\ Tells(c, u, {"failed"})
    BY <1>4, StopsTells DEF Fails, Names
  <2> QED BY <1>1, <1>2, <2>1, <2>2, TypeFacts, CallFrame
<1> QED BY <1>1, <1>3, <1>4

LEMMA PostConfirmedStep ==
  ASSUME Inv, NEW c \in Clicks, PostConfirmed(c)
  PROVE  Inv'
<1>1. /\ call[c].step = "confirm" /\ UNCHANGED <<op, row>> /\ UNCHANGED world
      /\ \/ Attests(c) /\ Stops(c, Event("confirmed", c))
         \/ (Attests(c) \/ UNCHANGED attested) /\ Fails(c)
  BY DEF PostConfirmed
<1>2. /\ op[c] = "landed" /\ attested \subseteq attested'
      /\ attested' \subseteq Clicks /\ (Attests(c) => c \in attested')
  BY <1>1, TypeFacts DEF Attests
<1>3. \E name \in {"confirmed", "failed"} :
        /\ Stops(c, Event(name, c)) /\ (name = "confirmed" => c \in attested')
  BY <1>1, <1>2 DEF Fails
<1>4. PICK name \in {"confirmed", "failed"} :
        /\ Stops(c, Event(name, c)) /\ (name = "confirmed" => c \in attested')
  BY <1>3
<1>5. "over" \notin Early /\ {name} \in SUBSET Names
  BY DEF Early, Names
<1>6. PICK u \in CallRow : u.step = "over" /\ Tells(c, u, {name})
  BY <1>4, StopsTells DEF Names
<1> QED BY <1>1, <1>2, <1>4, <1>5, <1>6, TypeFacts, CallFrame

LEMMA PostFailureStep ==
  ASSUME Inv, NEW c \in Clicks, PostFailure(c)
  PROVE  Inv'
<1>1. /\ UNCHANGED <<op, attested>> /\ UNCHANGED world /\ Fails(c)
      /\ row' = [row EXCEPT ![c] = "install_failed"] \/ UNCHANGED row
  BY DEF PostFailure
<1>2. /\ row' \in [Clicks -> {"none", "pending", "active", "install_failed"}]
      /\ \A d \in Clicks : row[d] # "none" => row'[d] # "none"
  BY <1>1, TypeFacts
<1>3. "over" \notin Early /\ {"failed"} \in SUBSET Names
  BY DEF Early, Names
<1>4. PICK u \in CallRow : u.step = "over" /\ Tells(c, u, {"failed"})
  BY <1>1, StopsTells DEF Fails, Names
<1> QED BY <1>1, <1>2, <1>3, <1>4, TypeFacts, CallFrame

-----------------------------------------------------------------------------
(* The chain, the workers, the page and the user. *)

LEMMA Recomputed ==
  ASSUME NEW state \in Installs, NEW delegation \in {None, "pending", "active"}
  PROVE  /\ Recompute(state, delegation) \in UiRow
         /\ Recompute(state, delegation).install = state
BY DEF Recompute, PermissionState, UiRow, Installs

LEMMA Found ==
  ASSUME NEW rs
  PROVE  FindDelegation(rs) \in {None, "pending", "active"}
<1> DEFINE live == {c \in Clicks : rs[c] \in {"pending", "active"}}
<1>1. CASE live = {}
  BY <1>1 DEF FindDelegation
<1>2. CASE live # {}
  <2>1. (CHOOSE c \in live : TRUE) \in live
    BY <1>2
  <2> QED BY <1>2, <2>1 DEF FindDelegation
<1> QED BY <1>1, <1>2

LEMMA ChainStep ==
  ASSUME Inv, NEW c \in Clicks, Settle(c) \/ Workers(c)
  PROVE  Inv'
<1>1. /\ UNCHANGED <<call, attested, toServer, wallet, binding, paused, ui, left>>
      /\ op' \in [Clicks -> {"none", "mempool", "landed", "reverted"}]
      /\ row' \in [Clicks -> {"none", "pending", "active", "install_failed"}]
      /\ \A d \in Clicks : op[d] \in {"none", "landed"} => op'[d] = op[d]
      /\ \A d \in Clicks : row[d] # "none" => row'[d] # "none"
  BY TypeFacts DEF Settle, Workers, world
<1>2. TypeInv' /\ OpInv'
  BY <1>1 DEF Inv, TypeInv, OpInv
<1>3. LastBacked' /\ ShownBacked'
  BY <1>1 DEF Inv, LastBacked, ShownBacked, Under
<1>4. AcceptedBeforeShown'
  <2>1. \A i \in DOMAIN toServer : toServer[i].click \in Clicks
    <3>1. \A i \in DOMAIN toServer : toServer[i] \in Events
      BY TypeFacts, ElementOfSeq, LenProperties
    <3> QED BY <3>1 DEF Events
  <2> QED BY <1>1, <2>1 DEF Inv, AcceptedBeforeShown
<1> QED BY <1>2, <1>3, <1>4 DEF Inv

LEMMA HandleStep ==
  ASSUME Inv, Handle
  PROVE  Inv'
<1> DEFINE e == Head(toServer)
<1>1. /\ toServer # <<>> /\ ui' = Handled(e) /\ toServer' = Tail(toServer)
      /\ UNCHANGED <<wallet, binding, paused, call, op, row, attested, left>>
  BY DEF Handle
<1>2. /\ toServer \in Seq(Events) /\ Len(toServer) \in Nat /\ Len(toServer) > 0
      /\ DOMAIN toServer = 1..Len(toServer)
  BY <1>1, TypeFacts, LenProperties, EmptySeq
<1>3. e \in Events /\ e = toServer[1]
  BY <1>1, <1>2
<1>4. /\ toServer' \in Seq(Events) /\ Len(toServer') = Len(toServer) - 1
      /\ \A i \in 1..(Len(toServer) - 1) : toServer'[i] = toServer[i + 1]
  BY <1>1, <1>2, HeadTailProperties
<1> HIDE DEF e
<1>5. /\ ui' \in UiRow
      /\ ui'.install = "awaiting" => e.event \in {"install", "awaiting"}
  <2>1. ui.delegation \in {None, "pending", "active"} /\ e.event \in Names
    BY <1>3, TypeFacts DEF UiRow, Events
  <2>2. CASE e.event \in {"install", "awaiting"}
    <3>1. ui' = Recompute("awaiting", ui.delegation)
      BY <1>1, <2>2 DEF Handled
    <3> QED BY <2>1, <2>2, <3>1, Recomputed DEF Installs
  <2>3. CASE e.event = "wrong_chain"
    <3>1. ui' = Recompute("wrong_chain", ui.delegation)
      BY <1>1, <2>3 DEF Handled
    <3> QED BY <2>1, <3>1, Recomputed DEF Installs
  <2>4. CASE e.event \in {"submitted", "confirmed", "failed"}
    <3>1. ui' = Recompute(e.event, FindDelegation(row))
      BY <1>1, <2>4 DEF Handled
    <3> QED BY <2>4, <3>1, Recomputed, Found DEF Installs
  <2> QED BY <2>1, <2>2, <2>3, <2>4 DEF Names
<1>6. TypeInv' /\ OpInv'
  BY <1>1, <1>4, <1>5 DEF Inv, TypeInv, OpInv
<1>7. Under' = Under
  BY <1>1 DEF Under
<1>8. LastBacked'
  <2> SUFFICES ASSUME toServer' # <<>>
      PROVE  toServer'[Len(toServer')].event \in {"install", "awaiting"} =>
               toServer'[Len(toServer')].click \in Under'
    BY DEF LastBacked
  <2>1. Len(toServer') > 0
    BY <1>4, EmptySeq, LenProperties
  <2>2. toServer'[Len(toServer')] = toServer[Len(toServer)]
    BY <1>2, <1>4, <2>1
  <2> QED BY <1>1, <1>7, <2>2 DEF Inv, LastBacked
<1>9. ShownBacked'
  <2> SUFFICES ASSUME ui'.install = "awaiting", Len(toServer') = 0
               PROVE  Under' # {}
    BY DEF ShownBacked
  <2> DEFINE n == Len(toServer)
             m == Len(toServer')
  <2>1. n \in Nat /\ m = n - 1 /\ m = 0
    BY <1>2, <1>4
  <2> HIDE DEF n, m
  <2>2. n = 1
    BY <2>1
  <2>3. Len(toServer) = 1
    BY <2>2 DEF n
  <2>4. e.event \in {"install", "awaiting"} /\ e = toServer[Len(toServer)]
    BY <1>3, <1>5, <2>3
  <2> QED BY <1>1, <1>7, <2>4 DEF Inv, LastBacked
<1>10. AcceptedBeforeShown'
  <2>1. DOMAIN toServer' = 1..(Len(toServer) - 1)
    BY <1>4, LenProperties
  <2>2. \A i \in 1..(Len(toServer) - 1) : i + 1 \in DOMAIN toServer
    BY <1>2
  <2> QED BY <1>1, <1>4, <2>1, <2>2 DEF Inv, AcceptedBeforeShown
<1> QED BY <1>6, <1>8, <1>9, <1>10 DEF Inv

(* What leaves the calls and the queue alone. *)
LEMMA UserFrame ==
  ASSUME Inv, UNCHANGED <<call, op, row, attested, toServer>>,
         wallet' \in [accounts : Exposures, chain : {"base_sepolia", "base"}],
         binding' \in {"verified", "revoked"}, paused' \in BOOLEAN,
         left' \in 0..MaxActs, ui' \in UiRow, ui'.install \in {"idle", ui.install}
  PROVE  Inv'
<1>1. TypeInv' /\ OpInv'
  BY DEF Inv, TypeInv, OpInv
<1>2. LastBacked' /\ ShownBacked' /\ AcceptedBeforeShown'
  BY DEF Inv, LastBacked, ShownBacked, AcceptedBeforeShown, Under
<1> QED BY <1>1, <1>2 DEF Inv

LEMMA UserStep ==
  ASSUME Inv, Refresh \/ ChangeWallet \/ Disconnect \/ Pause
  PROVE  Inv'
<1>1. /\ wallet \in [accounts : Exposures, chain : {"base_sepolia", "base"}]
      /\ binding \in {"verified", "revoked"} /\ paused \in BOOLEAN
      /\ left \in 0..MaxActs /\ ui \in UiRow /\ MaxActs \in Nat
  BY Constants DEF Inv, TypeInv
<1>2. Act => left' \in 0..MaxActs /\ UNCHANGED <<op, row, attested>>
  BY <1>1 DEF Act
<1>3. CASE Refresh
  <2>1. ui' = Recompute(ui.install, FindDelegation(row)) /\ ui.install \in Installs
    BY <1>1, <1>3 DEF Refresh, UiRow
  <2>2. ui' \in UiRow /\ ui'.install = ui.install
    BY <2>1, Recomputed, Found
  <2> QED BY <1>1, <1>3, <2>2, UserFrame DEF Refresh
<1>4. CASE ChangeWallet
  BY <1>1, <1>2, <1>4, UserFrame DEF ChangeWallet
<1>5. CASE Disconnect
  <2>1. ui' = [ui EXCEPT !.install = "idle", !.permission = "not_installed"]
    BY <1>5 DEF Disconnect
  <2>2. ui' \in UiRow /\ ui'.install = "idle"
    BY <1>1, <2>1 DEF UiRow, Installs
  <2> QED BY <1>1, <1>2, <1>5, <2>2, UserFrame DEF Disconnect
<1>6. CASE Pause
  <2>1. paused' \in BOOLEAN
    BY <1>6 DEF Pause
  <2> QED BY <1>1, <1>2, <1>6, <2>1, UserFrame DEF Pause
<1> QED BY <1>3, <1>4, <1>5, <1>6

LEMMA ReloadStep ==
  ASSUME Inv, Reload
  PROVE  Inv'
<1> DEFINE gone == [Idle EXCEPT !.step = "over"]
<1>1. /\ call' = [c \in Clicks |-> IF call[c].step = "idle" THEN Idle ELSE gone]
      /\ toServer' = <<>> /\ ui' = Recompute("idle", FindDelegation(row))
      /\ UNCHANGED <<wallet, binding, paused, op, row, attested>>
      /\ left > 0 /\ left' = left - 1
  BY DEF Reload, Act
<1>2. /\ gone \in CallRow /\ gone.step = "over"
      /\ Idle \in CallRow /\ Idle.step = "idle"
  BY OverRow
<1> HIDE DEF gone
<1>3. /\ call' \in [Clicks -> CallRow]
      /\ \A c \in Clicks : /\ call'[c].step \in {"idle", "over"}
                           /\ call'[c].step = "idle" => call[c].step = "idle"
  BY <1>1, <1>2
<1>4. ui' \in UiRow /\ ui'.install = "idle"
  BY <1>1, Recomputed, Found DEF Installs
<1>5. left' \in 0..MaxActs
  BY <1>1, Constants DEF Inv, TypeInv
<1>6. TypeInv'
  BY <1>1, <1>3, <1>4, <1>5 DEF Inv, TypeInv
<1>7. OpInv'
  BY <1>1, <1>3, TypeFacts DEF OpInv, Early
<1>8. LastBacked' /\ ShownBacked' /\ AcceptedBeforeShown'
  BY <1>1, <1>4 DEF LastBacked, ShownBacked, AcceptedBeforeShown
<1> QED BY <1>6, <1>7, <1>8 DEF Inv

-----------------------------------------------------------------------------

LEMMA InitInv ==
  ASSUME Init
  PROVE  Inv
<1>1. /\ wallet = [accounts |-> <<Bound>>, chain |-> "base_sepolia"]
      /\ binding = "verified" /\ paused = FALSE
      /\ call = [c \in Clicks |-> Idle]
      /\ op = [c \in Clicks |-> "none"] /\ row = [c \in Clicks |-> "none"]
      /\ attested = {} /\ toServer = <<>> /\ left = MaxActs
      /\ ui = [install |-> "idle", delegation |-> None,
               permission |-> "not_installed"]
  BY DEF Init
<1>2. TypeInv
  <2>1. wallet \in [accounts : Exposures, chain : {"base_sepolia", "base"}]
    BY <1>1, InstallAssumption
  <2>2. call \in [Clicks -> CallRow]
    BY <1>1, OverRow
  <2>3. ui \in UiRow /\ toServer \in Seq(Events)
    BY <1>1 DEF UiRow, Installs
  <2>4. left \in 0..MaxActs
    BY <1>1, Constants
  <2> QED BY <1>1, <2>1, <2>2, <2>3, <2>4 DEF TypeInv
<1>3. OpInv
  BY <1>1, OverRow DEF OpInv
<1>4. LastBacked /\ ShownBacked /\ AcceptedBeforeShown
  BY <1>1 DEF LastBacked, ShownBacked, AcceptedBeforeShown
<1> QED BY <1>2, <1>3, <1>4 DEF Inv

LEMMA NextInv ==
  ASSUME Inv, [Next]_vars
  PROVE  Inv'
<1>1. ASSUME NEW c \in Clicks, Click(c) \/ Progress(c) \/ Settle(c) \/ Workers(c)
      PROVE  Inv'
  BY <1>1, PreflightStep, RequestStep, BuildStep, SendStep, PostSubmittedStep,
     PostConfirmedStep, PostFailureStep, ChainStep DEF Progress
<1>2. CASE Handle \/ Refresh \/ ChangeWallet \/ Disconnect \/ Pause \/ Reload
  BY <1>2, HandleStep, UserStep, ReloadStep
<1>3. CASE UNCHANGED vars
  BY <1>3 DEF vars, Inv, TypeInv, OpInv, LastBacked, ShownBacked,
     AcceptedBeforeShown, Under
<1> QED BY <1>1, <1>2, <1>3 DEF Next

(* The inductive invariant: an operation is sent once per click, a call    *)
(* that is over has said so, and what the queue says is true               *)
(* (session_permission_install.js:86-322).                                 *)
THEOREM Invariance == Spec => []Inv
<1>1. Init => Inv
  BY InitInv
<1>2. Inv /\ [Next]_vars => Inv'
  BY NextInv
<1> QED BY <1>1, <1>2, PTL DEF Spec

(* Every variable keeps its type; the page is in one of the states its     *)
(* card knows.                                                             *)
THEOREM TypeCorrect == Spec => []TypeOK
<1>1. Inv => TypeOK
  <2> SUFFICES ASSUME Inv PROVE TypeOK
    OBVIOUS
  <2>1. \A c \in Clicks : call[c].step \in Steps /\ call[c].named \in BOOLEAN
    BY TypeFacts DEF CallRow
  <2>2. \A i \in DOMAIN toServer : toServer[i].click \in Clicks
    <3>1. \A i \in DOMAIN toServer : toServer[i] \in Events
      BY TypeFacts, ElementOfSeq, LenProperties
    <3> QED BY <3>1 DEF Events
  <2> QED BY <2>1, <2>2 DEF Inv, TypeInv, TypeOK, UiRow, Installs
<1> QED BY <1>1, Invariance, PTL

(* The strict gates: "submitted" and "confirmed" reach the page only after *)
(* Phoenix has accepted them, however many clicks race                     *)
(* (session_permission_install.js:254-259 and 298-303).                    *)
THEOREM GatesHold == Spec => []AcceptedBeforeShown
<1>1. Inv => AcceptedBeforeShown
  BY DEF Inv
<1> QED BY <1>1, Invariance, PTL

(* While the card shows an install under way there is a call that will     *)
(* tell it more, or an event on its way.                                   *)
THEOREM WaitIsBacked == Spec => []AwaitingIsBacked
<1>1. Inv => AwaitingIsBacked
  BY DEF Inv, ShownBacked, AwaitingIsBacked
<1> QED BY <1>1, Invariance, PTL
=============================================================================
