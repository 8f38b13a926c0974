-------------------------- MODULE AdapterOpsProofs --------------------------
(* Theorems about AdapterOps for any plans and bodies, any number of       *)
(* posts, any fees and funds, and every bound on faults and on the clock.  *)
EXTENDS AdapterOps, FiniteSetTheorems, WellFoundedInduction, TLAPS

States == Running \cup {"unposted", "done", "lost"}
Early == {"unposted", "handling", "building", "estimating", "signed"}
Outcomes == {"confirmed", "reverted"}

Row == [pc : States, header : Headers \cup {None}, nonce : Nat,
        op : Op \cup {None}, report : Report \cup {None}, reply : Replies]
Inclusion == [op : Op, ok : BOOLEAN, moved : Nat]
Ledger == [ok : BOOLEAN, token : Nat, router : Nat, vault : Nat,
           shares : Nat]

TypeInv ==
  /\ body \in [Plans -> Bodies \cup {None}]
  /\ server \in Servers
  /\ req \in [Requests -> Row]
  /\ reports \subseteq Report
  /\ mempool \subseteq Op
  /\ landed \subseteq Inclusion /\ IsFiniteSet(landed)
  /\ ledger \in Ledger
  /\ now \in 0..Horizon
  /\ faults \in 0..MaxFaults

(* An operation that was included and is the one a report names.           *)
Backed(r, b, included) ==
  \E l \in included :
    /\ l.op = r.op
    /\ l.op.body = b
    /\ l.ok <=> r.kind = "confirmed"
    /\ l.ok => l.moved <= r.spent

KindsOf(rs, d) == {r.kind : r \in {x \in rs : x.request = d}}

(* What was told of a request agrees with how far its handler is: nothing  *)
(* before the operation is submitted, the broadcast while it waits, and    *)
(* one outcome at most.                                                    *)
ToldFits(row, kinds) ==
  /\ row.pc \in Early => kinds = {}
  /\ row.pc = "waiting" => kinds = {"broadcast"}
  /\ row.pc = "sending" =>
       /\ row.report.kind = "broadcast" => kinds = {}
       /\ row.report.kind \in Outcomes => kinds = {"broadcast"}
       /\ row.report.kind = "aborted" => kinds \subseteq {"broadcast"}
  /\ \A j, k \in kinds \ {"broadcast"} : j = k

(* The operation of a request was built from the body of its plan, and a   *)
(* report under way names it.                                              *)
OwnOp(d, row, b, included) ==
  /\ row.pc # "unposted" => b \in Bodies
  /\ row.pc \in {"signed", "waiting"} => row.op \in Op /\ row.op.body = b
  /\ row.pc = "sending" =>
       /\ row.report \in Report
       /\ row.report.request = d
       /\ row.report.kind = "broadcast" => row.op \in Op /\ row.op.body = b
       /\ row.report.kind \in Outcomes => Backed(row.report, b, included)

(* A request is answered when its handler ends, and only then.             *)
Answered(row) == row.pc = "done" <=> row.reply # "none"

RequestInv ==
  \A d \in Requests :
    /\ OwnOp(d, req[d], BodyOf(d), landed)
    /\ ToldFits(req[d], KindsOf(reports, d))
    /\ Answered(req[d])

(* The nonces of what was included are the account's earlier ones, and no  *)
(* operation moved more than its dispatch asked for.                       *)
ChainInv ==
  \A l \in landed :
    /\ l.op.nonce < NextNonce
    /\ l.ok => l.moved <= l.op.body.amount

Inv == TypeInv /\ RequestInv /\ ChainInv /\ ReportsOwnOp /\ SpendBounded

-----------------------------------------------------------------------------
(* The sum of what operations were asked for, one operation at a time. *)

Amount(l) == l.op.body.amount
Pick(s) == CHOOSE x \in s : TRUE

(* g is the function that MapThenSumSet defines over the subsets of S.     *)
Sums(g, S) ==
  g = [s \in SUBSET S |->
         IF s = {} THEN 0 ELSE Amount(Pick(s)) + g[s \ {Pick(s)}]]

(* g adds an operation's amount whenever it is new, in whatever order.     *)
Additive(g, S) ==
  /\ g \in [SUBSET S -> Nat]
  /\ g[{}] = 0
  /\ \A s \in SUBSET S : \A x \in S \ s :
        g[s \cup {x}] = g[s] + Amount(x)

(* Every nonempty set of naturals has a least member. *)
LEMMA LeastNumber ==
  ASSUME NEW T \in SUBSET Nat, T # {}
  PROVE  \E x \in T : \A y \in T : x <= y
<1> DEFINE R == OpToRel(<, Nat)
<1>1. IsWellFoundedOn(R, Nat)
  BY NatLessThanWellFounded
<1>2. \A x, y \in Nat : <<x, y>> \in R <=> x < y
  BY DEF OpToRel
<1> HIDE DEF R
<1>3. PICK x \in T : \A y \in T : ~ (<<y, x>> \in R)
  BY <1>1, WFMin, Zenon
<1>4. ASSUME NEW y \in T
      PROVE  x <= y
  <2>1. x \in Nat /\ y \in Nat
    OBVIOUS
  <2>2. ~ (y < x)
    BY <1>2, <1>3, <2>1
  <2> QED
    BY <2>1, <2>2
<1> QED
  BY <1>4

(* Every nonempty set of subsets of a finite set has a member that         *)
(* contains no other of them: induction over finite sets, said with a set  *)
(* instead of a predicate.                                                 *)
LEMMA SmallestSubset ==
  ASSUME NEW S, IsFiniteSet(S), NEW T \in SUBSET SUBSET S, T # {}
  PROVE  \E t \in T : \A u \in SUBSET t : u \in T => u = t
<1> DEFINE sizes == {Cardinality(t) : t \in T}
<1>1. \A t \in T : IsFiniteSet(t) /\ Cardinality(t) \in Nat
  BY FS_Subset, FS_CardinalityType
<1>2. sizes \in SUBSET Nat /\ sizes # {}
  BY <1>1
<1> HIDE DEF sizes
<1>5. PICK n \in sizes : \A m \in sizes : n <= m
  BY <1>2, LeastNumber
<1> USE DEF sizes
<1>3. PICK t \in T : Cardinality(t) = n
  BY <1>5
<1>4. ASSUME NEW u \in SUBSET t, u \in T
      PROVE  u = t
  <2>1. Cardinality(u) <= Cardinality(t)
    BY <1>1, <1>4, FS_Subset
  <2>2. n <= Cardinality(u)
    BY <1>5, <1>4
  <2>3. Cardinality(u) = Cardinality(t)
    BY <1>1, <1>3, <1>4, <2>1, <2>2
  <2> QED
    BY <1>1, <2>3, FS_Subset
<1> QED
  BY <1>4

(* The recursive function behind Asked. *)
LEMMA AskedIsSum ==
  ASSUME NEW S
  PROVE  Asked(S) = (CHOOSE g : Sums(g, S))[S]
BY DEF Asked, MapThenSumSet, MapThenFoldSet, Sums, Amount, Pick

(* A finite set of operations has an additive measure: a smallest subset   *)
(* without one would get it from the subset that lacks one operation.      *)
LEMMA AdditiveExists ==
  ASSUME NEW S, IsFiniteSet(S), \A l \in S : Amount(l) \in Nat
  PROVE  \E g : Additive(g, S)
<1> DEFINE bad == {s \in SUBSET S : ~ \E g : Additive(g, s)}
<1> SUFFICES ASSUME bad # {}
             PROVE  FALSE
  BY DEF Additive
<1>1. PICK t \in bad : \A u \in SUBSET t : u \in bad => u = t
  <2>1. bad \in SUBSET SUBSET S
    OBVIOUS
  <2> HIDE DEF bad
  <2> QED
    BY <2>1, SmallestSubset
<1>2. t # {}
  <2>1. Additive([s \in SUBSET {} |-> 0], {})
    BY DEF Additive
  <2> QED
    BY <2>1
<1>3. PICK y \in t : TRUE
  BY <1>2
<1>4. PICK g : Additive(g, t \ {y})
  BY <1>1, <1>3
<1> DEFINE h == [s \in SUBSET t |-> IF y \in s THEN g[s \ {y}] + Amount(y)
                                             ELSE g[s]]
<1>5. \A s \in SUBSET t : s \ {y} \in SUBSET (t \ {y})
  OBVIOUS
<1>6. Amount(y) \in Nat
  BY <1>3
<1>7. \A s \in SUBSET (t \ {y}) : g[s] \in Nat
  BY <1>4 DEF Additive
<1>8. h \in [SUBSET t -> Nat]
  <2>1. ASSUME NEW s \in SUBSET t
        PROVE  h[s] \in Nat
    <3>1. CASE y \in s
      <4>1. g[s \ {y}] \in Nat
        BY <1>5, <1>7
      <4> QED
        BY <3>1, <4>1, <1>6
    <3>2. CASE y \notin s
      <4>1. g[s] \in Nat
        BY <1>7, <3>2
      <4> QED
        BY <3>2, <4>1
    <3> QED
      BY <3>1, <3>2
  <2> QED
    BY <2>1
<1>9. h[{}] = 0
  BY <1>4 DEF Additive
<1>10. ASSUME NEW s \in SUBSET t, NEW x \in t \ s
       PROVE  h[s \cup {x}] = h[s] + Amount(x)
  <2>1. s \cup {x} \in SUBSET t
    OBVIOUS
  <2>2. CASE x = y
    <3>1. (s \cup {x}) \ {y} = s
      BY <2>2
    <3>2. h[s \cup {x}] = g[s] + Amount(y)
      BY <2>1, <2>2, <3>1
    <3> QED
      BY <2>2, <3>2
  <2>3. CASE x # y /\ y \notin s
    <3>1. h[s \cup {x}] = g[s \cup {x}] /\ h[s] = g[s]
      BY <2>1, <2>3
    <3>2. s \in SUBSET (t \ {y}) /\ x \in (t \ {y}) \ s
      BY <2>3
    <3> QED
      BY <1>4, <3>1, <3>2 DEF Additive
  <2>4. CASE x # y /\ y \in s
    <3> DEFINE r == s \ {y}
    <3>1. (s \cup {x}) \ {y} = r \cup {x}
      BY <2>4
    <3>2. h[s \cup {x}] = g[r \cup {x}] + Amount(y) /\ h[s] = g[r] + Amount(y)
      BY <2>1, <2>4, <3>1
    <3>3. r \in SUBSET (t \ {y}) /\ x \in (t \ {y}) \ r
      BY <2>4
    <3>4. g[r \cup {x}] = g[r] + Amount(x)
      BY <1>4, <3>3 DEF Additive
    <3>5. g[r] \in Nat /\ Amount(x) \in Nat
      BY <1>7, <3>3
    <3> HIDE DEF h, r
    <3> QED
      BY <1>6, <3>2, <3>4, <3>5
  <2> QED
    BY <2>2, <2>3, <2>4
<1>11. Additive(h, t)
  <2> HIDE DEF h
  <2> QED
    BY <1>8, <1>9, <1>10 DEF Additive
<1> QED
  BY <1>11

(* An additive measure satisfies the recursion of MapThenSumSet. *)
LEMMA AdditiveSums ==
  ASSUME NEW S, NEW U \in SUBSET S, NEW g, Additive(g, S),
         \A l \in S : Amount(l) \in Nat
  PROVE  Sums([s \in SUBSET U |-> g[s]], U)
<1> DEFINE h == [s \in SUBSET U |-> g[s]]
<1>1. ASSUME NEW s \in SUBSET U, s # {}
      PROVE  h[s] = Amount(Pick(s)) + h[s \ {Pick(s)}]
  <2> DEFINE x == Pick(s)
             r == s \ {x}
  <2>1. x \in s
    BY <1>1 DEF Pick
  <2>2. r \in SUBSET S /\ x \in S \ r /\ r \cup {x} = s
    BY <2>1
  <2>3. g[s] = g[r] + Amount(x)
    BY <2>2 DEF Additive
  <2>4. h[s] = g[s] /\ h[r] = g[r]
    OBVIOUS
  <2>5. g[r] \in Nat /\ Amount(x) \in Nat
    BY <2>2 DEF Additive
  <2> HIDE DEF h, r, x
  <2>6. h[s] = Amount(x) + h[r]
    BY <2>3, <2>4, <2>5
  <2> QED
    BY <2>6 DEF r, x
<1>2. h[{}] = 0
  BY DEF Additive
<1>3. h = [s \in SUBSET U |->
             IF s = {} THEN 0 ELSE Amount(Pick(s)) + h[s \ {Pick(s)}]]
  <2>1. \A s \in SUBSET U :
          h[s] = IF s = {} THEN 0 ELSE Amount(Pick(s)) + h[s \ {Pick(s)}]
    BY <1>1, <1>2
  <2>2. DOMAIN h = SUBSET U /\ h = [s \in SUBSET U |-> h[s]]
    OBVIOUS
  <2> HIDE DEF h
  <2> QED
    BY <2>1, <2>2
<1> QED
  BY <1>3 DEF Sums

(* The recursion has one solution over a finite set. *)
LEMMA SumsUnique ==
  ASSUME NEW S, IsFiniteSet(S), NEW g, NEW h, Sums(g, S), Sums(h, S)
  PROVE  g = h
<1> DEFINE bad == {s \in SUBSET S : g[s] # h[s]}
<1>1. ASSUME bad # {}
      PROVE  FALSE
  <2>1. PICK t \in bad : \A u \in SUBSET t : u \in bad => u = t
    <3>1. bad \in SUBSET SUBSET S
      OBVIOUS
    <3> HIDE DEF bad
    <3> QED
      BY <1>1, <3>1, SmallestSubset
  <2>2. t # {}
    BY DEF Sums
  <2>3. Pick(t) \in t
    BY <2>2 DEF Pick
  <2>4. g[t \ {Pick(t)}] = h[t \ {Pick(t)}]
    BY <2>1, <2>3
  <2> QED
    BY <2>2, <2>4 DEF Sums
<1>2. DOMAIN g = SUBSET S /\ DOMAIN h = SUBSET S
  BY DEF Sums
<1>3. g = [s \in SUBSET S |-> g[s]] /\ h = [s \in SUBSET S |-> h[s]]
  BY <1>2 DEF Sums
<1>4. \A s \in SUBSET S : g[s] = h[s]
  BY <1>1
<1> QED
  BY <1>3, <1>4

(* Asked is the additive measure. *)
LEMMA AskedOfMeasure ==
  ASSUME NEW S, IsFiniteSet(S), NEW U \in SUBSET S, NEW g, Additive(g, S),
         \A l \in S : Amount(l) \in Nat
  PROVE  Asked(U) = g[U]
<1> DEFINE h == [s \in SUBSET U |-> g[s]]
           c == CHOOSE f : Sums(f, U)
<1>1. Sums(h, U)
  BY AdditiveSums
<1>2. Sums(c, U)
  BY <1>1
<1>3. IsFiniteSet(U)
  BY FS_Subset
<1>4. c = h
  <2> HIDE DEF c, h
  <2> QED
    BY <1>1, <1>2, <1>3, SumsUnique
<1>5. Asked(U) = c[U]
  BY AskedIsSum
<1> QED
  BY <1>4, <1>5

(* One more operation adds what its dispatch asked for, whatever order     *)
(* MapThenSumSet takes them in.                                            *)
LEMMA AskedMore ==
  ASSUME NEW S, IsFiniteSet(S), NEW x, x \notin S,
         \A l \in S \cup {x} : Amount(l) \in Nat
  PROVE  /\ Asked(S) \in Nat
         /\ Asked(S \cup {x}) = Asked(S) + Amount(x)
<1> DEFINE all == S \cup {x}
<1>1. IsFiniteSet(all)
  BY FS_AddElement
<1>2. PICK g : Additive(g, all)
  BY <1>1, AdditiveExists
<1>3. Asked(S) = g[S] /\ Asked(all) = g[all]
  BY <1>1, <1>2, AskedOfMeasure
<1>4. g[all] = g[S] + Amount(x) /\ g[S] \in Nat
  BY <1>2 DEF Additive
<1> QED
  BY <1>3, <1>4

-----------------------------------------------------------------------------
(* What a batch does to the ledger. *)

(* The batch of one call. *)
LEMMA FoldOne ==
  ASSUME NEW l, NEW c
  PROVE  ExecuteBatch(l, <<c>>) = Effect(l, c)
<1> DEFINE Rec(g) == g = [s \in SUBSET {1} |->
                            IF s = {} THEN l
                            ELSE Effect(g[s \ {Max(s)}], <<c>>[Max(s)])]
           h == [s \in SUBSET {1} |-> IF s = {} THEN l ELSE Effect(l, c)]
           f == CHOOSE g : Rec(g)
<1>1. Max({1}) = 1
  BY DEF Max
<1>2. Rec(h)
  <2>1. \A s \in SUBSET {1} : s = {} \/ s = {1}
    OBVIOUS
  <2>2. ASSUME NEW s \in SUBSET {1}
        PROVE  h[s] = IF s = {} THEN l
                      ELSE Effect(h[s \ {Max(s)}], <<c>>[Max(s)])
    <3>1. CASE s = {1}
      <4>1. s \ {Max(s)} = {} /\ <<c>>[Max(s)] = c
        BY <1>1, <3>1
      <4> QED
        BY <3>1, <4>1
    <3> QED
      BY <2>1, <3>1
  <2>3. h = [s \in SUBSET {1} |-> h[s]]
    OBVIOUS
  <2> HIDE DEF h
  <2> QED
    BY <2>2, <2>3
<1>3. Rec(f)
  BY <1>2
<1>4. f[{}] = l
  BY <1>3
<1>5. f[{1}] = Effect(f[{1} \ {Max({1})}], <<c>>[Max({1})])
  BY <1>3
<1>6. f[{1}] = Effect(l, c)
  <2>1. {1} \ {Max({1})} = {} /\ <<c>>[Max({1})] = c
    BY <1>1
  <2> HIDE DEF f
  <2> QED
    BY <1>4, <1>5, <2>1
<1>7. ExecuteBatch(l, <<c>>) = f[DOMAIN <<c>>] /\ DOMAIN <<c>> = {1}
  BY DEF ExecuteBatch, FoldLeft, MapThenFoldSet
<1> QED
  BY <1>6, <1>7
(* The batch of two calls: the approval first. *)
LEMMA FoldTwo ==
  ASSUME NEW l, NEW c, NEW e
  PROVE  ExecuteBatch(l, <<c, e>>) = Effect(Effect(l, c), e)
<1> DEFINE Rec(g) == g = [s \in SUBSET {1, 2} |->
                            IF s = {} THEN l
                            ELSE Effect(g[s \ {Max(s)}], <<c, e>>[Max(s)])]
           h == [s \in SUBSET {1, 2} |->
                   IF s = {} THEN l
                   ELSE IF s = {1} THEN Effect(l, c)
                   ELSE IF s = {2} THEN Effect(l, e)
                   ELSE Effect(Effect(l, c), e)]
           f == CHOOSE g : Rec(g)
<1>1. Max({1}) = 1 /\ Max({2}) = 2 /\ Max({1, 2}) = 2
  BY DEF Max
<1>2. /\ {1} \ {1} = {} /\ {2} \ {2} = {} /\ {1, 2} \ {2} = {1}
      /\ <<c, e>>[1] = c /\ <<c, e>>[2] = e
  OBVIOUS
<1>3. \A s \in SUBSET {1, 2} : s = {} \/ s = {1} \/ s = {2} \/ s = {1, 2}
  OBVIOUS
<1>4. Rec(h)
  <2>1. /\ h[{}] = l /\ h[{1}] = Effect(l, c) /\ h[{2}] = Effect(l, e)
        /\ h[{1, 2}] = Effect(Effect(l, c), e)
    OBVIOUS
  <2>2. h = [s \in SUBSET {1, 2} |-> h[s]]
    OBVIOUS
  <2> HIDE DEF h
  <2>3. ASSUME NEW s \in SUBSET {1, 2}
        PROVE  h[s] = IF s = {} THEN l
                      ELSE Effect(h[s \ {Max(s)}], <<c, e>>[Max(s)])
    <3>1. CASE s = {}
      BY <2>1, <3>1
    <3>2. CASE s = {1}
      BY <1>1, <1>2, <2>1, <3>2
    <3>3. CASE s = {2}
      BY <1>1, <1>2, <2>1, <3>3
    <3>4. CASE s = {1, 2}
      BY <1>1, <1>2, <2>1, <3>4
    <3> QED
      BY <1>3, <3>1, <3>2, <3>3, <3>4
  <2> QED
    BY <2>2, <2>3
<1>5. Rec(f)
  BY <1>4
<1>6. /\ f[{}] = l
      /\ f[{1}] = Effect(f[{1} \ {Max({1})}], <<c, e>>[Max({1})])
      /\ f[{1, 2}] = Effect(f[{1, 2} \ {Max({1, 2})}], <<c, e>>[Max({1, 2})])
  BY <1>5
<1> HIDE DEF f
<1>7. f[{1, 2}] = Effect(Effect(l, c), e)
  BY <1>1, <1>2, <1>6
<1>8. /\ ExecuteBatch(l, <<c, e>>) = f[DOMAIN <<c, e>>]
      /\ DOMAIN <<c, e>> = {1, 2}
  BY DEF f, ExecuteBatch, FoldLeft, MapThenFoldSet
<1> QED
  BY <1>7, <1>8

(* The body of a dispatch. *)
LEMMA BodyTyped ==
  ASSUME NEW b \in Bodies
  PROVE  /\ b.action \in Actions
         /\ b.amount \in Nat
         /\ b.route.sells \in Nat
BY BodiesAssumption DEF Body, Route

(* What the calls do that take effect. *)
LEMMA Paid ==
  ASSUME NEW l \in Ledger, NEW n \in Nat,
         Effect(l, EncodeErc20Transfer(n)).ok
  PROVE  /\ l.ok /\ n <= l.token
         /\ Effect(l, EncodeErc20Transfer(n)) = [l EXCEPT !.token = l.token - n]
BY DEF Ledger, Effect, Fits, EncodeErc20Transfer

(* An approval that takes effect sets one allowance. *)
LEMMA Approved ==
  ASSUME NEW l \in Ledger, NEW n \in Nat, NEW spender \in {"router", "vault"},
         Effect(l, EncodeErc20Approve(spender, n)).ok
  PROVE  /\ l.ok
         /\ spender = "router" => Effect(l, EncodeErc20Approve(spender, n))
                                    = [l EXCEPT !.router = n]
         /\ spender = "vault" => Effect(l, EncodeErc20Approve(spender, n))
                                   = [l EXCEPT !.vault = n]
BY DEF Ledger, Effect, Fits, EncodeErc20Approve

(* A swap that takes effect pulls what its route sells. *)
LEMMA Swapped ==
  ASSUME NEW l \in Ledger, NEW route, route.sells \in Nat,
         Effect(l, RouterCall(route)).ok
  PROVE  /\ l.ok /\ route.sells <= l.token /\ route.sells <= l.router
         /\ Effect(l, RouterCall(route))
              = [l EXCEPT !.token = l.token - route.sells,
                          !.router = l.router - route.sells]
BY DEF Ledger, Effect, Fits, RouterCall

(* A deposit that takes effect pulls its amount and mints as much. *)
LEMMA Deposited ==
  ASSUME NEW l \in Ledger, NEW n \in Nat,
         Effect(l, EncodeErc4626Deposit(n)).ok
  PROVE  /\ l.ok /\ n <= l.token /\ n <= l.vault
         /\ Effect(l, EncodeErc4626Deposit(n))
              = [l EXCEPT !.token = l.token - n, !.vault = l.vault - n,
                          !.shares = l.shares + n]
BY DEF Ledger, Effect, Fits, EncodeErc4626Deposit

(* A failed call fails the batch. *)
LEMMA FailedStays ==
  ASSUME NEW l \in Ledger, NEW c, ~ l.ok
  PROVE  Effect(l, c) = [l EXCEPT !.ok = FALSE]
BY DEF Effect

(* The approve call takes effect if the whole batch does. *)
LEMMA ApprovedFirst ==
  ASSUME NEW l \in Ledger, NEW n \in Nat, NEW spender \in {"router", "vault"},
         NEW c, Effect(Effect(l, EncodeErc20Approve(spender, n)), c).ok
  PROVE  Effect(l, EncodeErc20Approve(spender, n)).ok
<1> DEFINE first == Effect(l, EncodeErc20Approve(spender, n))
<1>1. CASE ~ l.ok
  <2>1. first = [l EXCEPT !.ok = FALSE]
    BY <1>1, FailedStays
  <2>2. first \in Ledger /\ ~ first.ok
    BY <2>1 DEF Ledger
  <2> HIDE DEF first
  <2>3. Effect(first, c) = [first EXCEPT !.ok = FALSE]
    BY <2>2, FailedStays
  <2>4. ~ Effect(first, c).ok
    BY <2>2, <2>3 DEF Ledger
  <2> QED
    BY <2>4 DEF first
<1>2. CASE l.ok
  BY <1>2 DEF Ledger, Effect, Fits, EncodeErc20Approve
<1> QED
  BY <1>1, <1>2

(* A batch that takes effect moves no more than its dispatch asked for,    *)
(* and what it leaves the router and the vault to pull is paid for by what *)
(* it did not move.                                                        *)
LEMMA BatchBounded ==
  ASSUME NEW l \in Ledger, NEW b \in Bodies, NEW after,
         after = ExecuteBatch(l, CallsOf(b)), after.ok
  PROVE  /\ after \in Ledger
         /\ l.token - after.token \in Nat
         /\ l.token - after.token <= b.amount
         /\ l.token + after.router + after.vault
              <= after.token + l.router + l.vault + b.amount
<1> DEFINE n == b.amount
           k == b.route.sells
<1>1. n \in Nat /\ k \in Nat /\ b.action \in Actions
  BY BodyTyped
<1>2. /\ l.ok \in BOOLEAN /\ l.token \in Nat /\ l.router \in Nat
      /\ l.vault \in Nat /\ l.shares \in Nat
  BY DEF Ledger
<1>3. CASE b.action = "transfer"
  <2>1. CallsOf(b) = <<EncodeErc20Transfer(n)>>
    BY <1>3 DEF CallsOf, BuildTransferCallData
  <2>2. after = Effect(l, EncodeErc20Transfer(n))
    BY <2>1, FoldOne
  <2>3. n <= l.token /\ after = [l EXCEPT !.token = l.token - n]
    BY <1>1, <2>2, Paid
  <2>4. l.token - n \in Nat
    BY <1>1, <1>2, <2>3
  <2>5. /\ after \in Ledger /\ after.token = l.token - n
        /\ after.router = l.router /\ after.vault = l.vault
    BY <2>3, <2>4 DEF Ledger
  <2> HIDE DEF n, k
  <2>6. l.token - after.token = n
    BY <1>1, <1>2, <2>5
  <2>7. l.token + after.router + after.vault
          <= after.token + l.router + l.vault + n
    BY <1>1, <1>2, <2>4, <2>5
  <2> QED
    BY <1>1, <2>5, <2>6, <2>7 DEF n
<1>4. CASE b.action = "swap"
  <2> DEFINE first == Effect(l, EncodeErc20Approve("router", n))
  <2>1. CallsOf(b) = <<EncodeErc20Approve("router", n), RouterCall(b.route)>>
    BY <1>4 DEF CallsOf, BuildSwapBatchCallData
  <2>2. after = Effect(first, RouterCall(b.route))
    BY <2>1, FoldTwo
  <2>3. first.ok
    BY <1>1, <2>2, ApprovedFirst
  <2>4. first = [l EXCEPT !.router = n]
    BY <1>1, <2>3, Approved
  <2>5. /\ first \in Ledger /\ first.token = l.token /\ first.router = n
        /\ first.vault = l.vault
    BY <1>1, <2>4 DEF Ledger
  <2> HIDE DEF first
  <2>11. Effect(first, RouterCall(b.route)).ok
    BY <2>2
  <2>12. /\ b.route.sells <= first.token /\ b.route.sells <= first.router
        /\ Effect(first, RouterCall(b.route))
              = [first EXCEPT !.token = first.token - b.route.sells,
                                 !.router = first.router - b.route.sells]
    BY <1>1, <2>5, <2>11, Swapped, Zenon
  <2>6. /\ k <= first.token /\ k <= first.router
        /\ after = [first EXCEPT !.token = first.token - k,
                                 !.router = first.router - k]
    BY <2>2, <2>12
  <2>7. first.token - k \in Nat /\ first.router - k \in Nat
    BY <1>1, <1>2, <2>5, <2>6
  <2>8. /\ after \in Ledger /\ after.token = l.token - k
        /\ after.router = n - k /\ after.vault = l.vault
    BY <2>5, <2>6, <2>7 DEF Ledger
  <2> HIDE DEF n, k
  <2>9. l.token - after.token = k /\ k <= n
    BY <1>1, <1>2, <2>5, <2>6, <2>8
  <2>10. l.token + after.router + after.vault
          <= after.token + l.router + l.vault + n
    BY <1>1, <1>2, <2>5, <2>6, <2>8
  <2> QED
    BY <1>1, <2>8, <2>9, <2>10 DEF n
<1>5. CASE b.action = "morpho_deposit"
  <2> DEFINE first == Effect(l, EncodeErc20Approve("vault", n))
  <2>1. CallsOf(b) = <<EncodeErc20Approve("vault", n), EncodeErc4626Deposit(n)>>
    BY <1>5 DEF CallsOf, BuildMorphoDepositBatchCallData
  <2>2. after = Effect(first, EncodeErc4626Deposit(n))
    BY <2>1, FoldTwo
  <2>3. first.ok
    BY <1>1, <2>2, ApprovedFirst
  <2>4. first = [l EXCEPT !.vault = n]
    BY <1>1, <2>3, Approved
  <2>5. /\ first \in Ledger /\ first.token = l.token /\ first.vault = n
        /\ first.router = l.router /\ first.shares = l.shares
    BY <1>1, <2>4 DEF Ledger
  <2> HIDE DEF first
  <2>11. Effect(first, EncodeErc4626Deposit(n)).ok
    BY <2>2
  <2>12. /\ n <= first.token /\ n <= first.vault
        /\ Effect(first, EncodeErc4626Deposit(n))
              = [first EXCEPT !.token = first.token - n,
                                 !.vault = first.vault - n,
                                 !.shares = first.shares + n]
    BY <1>1, <2>5, <2>11, Deposited, Zenon
  <2>6. /\ n <= first.token /\ n <= first.vault
        /\ after = [first EXCEPT !.token = first.token - n,
                                 !.vault = first.vault - n,
                                 !.shares = first.shares + n]
    BY <2>2, <2>12
  <2>7. first.token - n \in Nat /\ first.vault - n \in Nat
        /\ first.shares + n \in Nat
    BY <1>1, <1>2, <2>5, <2>6
  <2>8. /\ after \in Ledger /\ after.token = l.token - n
        /\ after.vault = n - n /\ after.router = l.router
    BY <2>5, <2>6, <2>7 DEF Ledger
  <2> HIDE DEF n, k
  <2>9. l.token - after.token = n
    BY <1>1, <1>2, <2>8
  <2>10. l.token + after.router + after.vault
          <= after.token + l.router + l.vault + n
    BY <1>1, <1>2, <2>5, <2>6, <2>8
  <2> QED
    BY <1>1, <2>8, <2>9, <2>10 DEF n
<1> QED
  BY <1>1, <1>3, <1>4, <1>5 DEF Actions

-----------------------------------------------------------------------------
(* Rows and what was told of them. *)

(* The fields of a request's row. *)
LEMMA RowFields ==
  ASSUME TypeInv, NEW d \in Requests
  PROVE  /\ req[d] \in Row
         /\ req[d] = [pc |-> req[d].pc, header |-> req[d].header,
                      nonce |-> req[d].nonce, op |-> req[d].op,
                      report |-> req[d].report, reply |-> req[d].reply]
         /\ req[d].pc \in States /\ req[d].header \in Headers \cup {None}
         /\ req[d].nonce \in Nat /\ req[d].op \in Op \cup {None}
         /\ req[d].report \in Report \cup {None}
         /\ req[d].reply \in Replies
<1>1. req[d] \in Row
  BY DEF TypeInv
<1> HIDE DEF TypeInv
<1> QED
  BY <1>1 DEF Row

(* A handler that ends. *)
LEMMA FinishRow ==
  ASSUME TypeInv, NEW d \in Requests, NEW status \in Replies
  PROVE  /\ Finish(d, status) \in Row
         /\ Finish(d, status).pc = "done"
         /\ Finish(d, status).reply = status
BY RowFields DEF Finish, Row, States

Kinds == {"broadcast", "confirmed", "reverted", "aborted"}

(* A handler that goes on to send a callback. *)
LEMMA SendingRow ==
  ASSUME TypeInv, NEW d \in Requests, NEW kind \in Kinds,
         NEW reason \in Reasons, NEW spent \in Nat
  PROVE  LET row == Sending(d, kind, reason, spent)
         IN  /\ row \in Row
             /\ row.pc = "sending" /\ row.op = req[d].op
             /\ row.reply = req[d].reply
             /\ row.report \in Report
             /\ row.report.request = d /\ row.report.kind = kind
             /\ row.report.op = IF kind = "aborted" THEN None ELSE req[d].op
             /\ row.report.spent = spent
<1> DEFINE report == [request |-> d, kind |-> kind, reason |-> reason,
                      op |-> IF kind = "aborted" THEN None ELSE req[d].op,
                      spent |-> spent]
<1>1. report \in Report
  BY RowFields DEF Report, Kinds
<1>2. /\ report.request = d /\ report.kind = kind /\ report.spent = spent
      /\ report.op = IF kind = "aborted" THEN None ELSE req[d].op
  OBVIOUS
<1>3. Sending(d, kind, reason, spent)
        = [req[d] EXCEPT !.pc = "sending", !.report = report]
  BY DEF Sending
<1> HIDE DEF report
<1> QED
  BY <1>1, <1>2, <1>3, RowFields DEF Row, States, Running

(* One more report changes what was told of its own request only. *)
LEMMA KindsAdd ==
  ASSUME NEW rs, NEW r, NEW e
  PROVE  KindsOf(rs \cup {r}, e)
           = IF r.request = e THEN KindsOf(rs, e) \cup {r.kind}
                              ELSE KindsOf(rs, e)
BY DEF KindsOf

(* The step of one handler, which leaves the chain's history alone. *)
HandlerStep(d, row) ==
  /\ Step(d, row)
  /\ UNCHANGED <<landed, ledger>>
  /\ mempool' \subseteq Op
  /\ faults' \in 0..MaxFaults
  /\ \/ reports' = reports
     \/ req[d].pc = "sending" /\ reports' = reports \cup {req[d].report}

(* It keeps the invariant if the new row fits what will have been told. *)
LEMMA HandlerKeeps ==
  ASSUME Inv, NEW d \in Requests, NEW row \in Row, HandlerStep(d, row),
         OwnOp(d, row, BodyOf(d), landed),
         ToldFits(row, KindsOf(reports', d)), Answered(row)
  PROVE  Inv'
<1>1. TypeInv /\ RequestInv /\ ChainInv /\ ReportsOwnOp /\ SpendBounded
  BY DEF Inv
<1>2. /\ req' = [req EXCEPT ![d] = row] /\ body' = body /\ server' = server
      /\ now' = now /\ landed' = landed /\ ledger' = ledger
      /\ mempool' \subseteq Op /\ faults' \in 0..MaxFaults
  BY DEF HandlerStep, Step
<1>3. /\ req' \in [Requests -> Row] /\ req'[d] = row
      /\ \A e \in Requests : e # d => req'[e] = req[e]
  BY <1>1, <1>2 DEF TypeInv
<1>4. \/ reports' = reports
      \/ /\ reports' = reports \cup {req[d].report}
         /\ req[d].report \in Report /\ req[d].report.request = d
         /\ req[d].report.kind \in Outcomes
              => Backed(req[d].report, BodyOf(d), landed)
  BY <1>1 DEF HandlerStep, RequestInv, OwnOp
<1>5. \A e \in Requests : e # d => KindsOf(reports', e) = KindsOf(reports, e)
  <2> SUFFICES ASSUME NEW e \in Requests, e # d
               PROVE  KindsOf(reports', e) = KindsOf(reports, e)
    OBVIOUS
  <2>1. CASE reports' = reports
    BY <2>1
  <2>2. CASE /\ reports' = reports \cup {req[d].report}
             /\ req[d].report.request = d
    <3>1. KindsOf(reports \cup {req[d].report}, e)
            = IF req[d].report.request = e
                THEN KindsOf(reports, e) \cup {req[d].report.kind}
                ELSE KindsOf(reports, e)
      BY KindsAdd
    <3> QED
      BY <2>2, <3>1
  <2> QED
    BY <1>4, <2>1, <2>2
<1>6. TypeInv'
  BY <1>1, <1>2, <1>3, <1>4 DEF TypeInv
<1>7. RequestInv'
  <2> SUFFICES ASSUME NEW e \in Requests
               PROVE  /\ OwnOp(e, req'[e], BodyOf(e)', landed')
                      /\ ToldFits(req'[e], KindsOf(reports', e))
                      /\ Answered(req'[e])
    BY DEF RequestInv
  <2>1. BodyOf(e)' = BodyOf(e)
    BY <1>2 DEF BodyOf
  <2>2. CASE e = d
    BY <1>2, <1>3, <2>1, <2>2
  <2>3. CASE e # d
    BY <1>1, <1>2, <1>3, <1>5, <2>1, <2>3 DEF RequestInv
  <2> QED
    BY <2>2, <2>3
<1>8. ChainInv'
  BY <1>1, <1>2 DEF ChainInv, NextNonce
<1>9. ReportsOwnOp'
  <2> SUFFICES ASSUME NEW r \in reports', r.kind \in Outcomes
               PROVE  Backed(r, BodyOf(r.request)', landed')
    BY DEF ReportsOwnOp, Outcomes, Backed
  <2>1. BodyOf(r.request)' = BodyOf(r.request)
    BY <1>2 DEF BodyOf
  <2>2. CASE r \in reports
    BY <1>1, <1>2, <2>1, <2>2 DEF ReportsOwnOp, Outcomes, Backed
  <2>3. CASE r = req[d].report /\ r \notin reports
    BY <1>2, <1>4, <2>1, <2>3
  <2> QED
    BY <1>4, <2>2, <2>3
<1>10. SpendBounded'
  BY <1>1, <1>2 DEF SpendBounded
<1> QED
  BY <1>6, <1>7, <1>8, <1>9, <1>10 DEF Inv

(* A step that tells the control plane nothing. *)
Silent ==
  mempool' \subseteq Op /\ UNCHANGED <<reports, landed, ledger, faults>>

(* Such a step is a handler step. *)
LEMMA SilentStep ==
  ASSUME Inv, NEW d \in Requests, NEW row, Step(d, row), Silent
  PROVE  HandlerStep(d, row) /\ reports' = reports
BY DEF Inv, TypeInv, Silent, HandlerStep

(* A step that leaves the chain alone is silent. *)
LEMMA QuietIsSilent ==
  ASSUME Inv, UNCHANGED <<reports, chainVars, faults>>
  PROVE  Silent
BY DEF Inv, TypeInv, Silent, chainVars

(* A handler may end at any point before its callback. *)
LEMMA FinishKeeps ==
  ASSUME Inv, NEW d \in Requests, NEW status \in Replies \ {"none"},
         req[d].pc # "unposted", Step(d, Finish(d, status)), Silent
  PROVE  Inv'
<1> DEFINE row == Finish(d, status)
<1>1. row \in Row /\ row.pc = "done" /\ row.reply = status
  BY FinishRow DEF Inv
<1>2. HandlerStep(d, row) /\ reports' = reports
  BY SilentStep
<1> HIDE DEF row
<1>3. OwnOp(d, row, BodyOf(d), landed)
  BY <1>1 DEF Inv, RequestInv, OwnOp
<1>4. ToldFits(row, KindsOf(reports', d))
  BY <1>1, <1>2 DEF Inv, RequestInv, ToldFits, Early
<1>5. Answered(row)
  BY <1>1 DEF Answered
<1> QED
  BY <1>1, <1>2, <1>3, <1>4, <1>5, HandlerKeeps

(* A handler may abort before it has an outcome to report. *)
LEMMA AbortKeeps ==
  ASSUME Inv, NEW d \in Requests, NEW reason \in Reasons,
         req[d].pc \in (Early \ {"unposted"}) \cup {"waiting"},
         Step(d, Abort(d, reason)), Silent
  PROVE  Inv'
<1> DEFINE row == Abort(d, reason)
<1>1. /\ row \in Row /\ row.pc = "sending" /\ row.reply = req[d].reply
      /\ row.report \in Report /\ row.report.request = d
      /\ row.report.kind = "aborted"
  BY SendingRow DEF Inv, Abort, Kinds
<1>2. HandlerStep(d, row) /\ reports' = reports
  BY SilentStep
<1>3. /\ OwnOp(d, req[d], BodyOf(d), landed)
      /\ ToldFits(req[d], KindsOf(reports, d)) /\ Answered(req[d])
  BY DEF Inv, RequestInv
<1>4. req[d].pc \notin {"unposted", "done", "sending"}
  BY DEF Early
<1> HIDE DEF row
<1>5. OwnOp(d, row, BodyOf(d), landed)
  BY <1>1, <1>3, <1>4 DEF OwnOp, Outcomes
<1>6. ToldFits(row, KindsOf(reports', d))
  BY <1>1, <1>2, <1>3, <1>4 DEF ToldFits, Early, Outcomes
<1>7. Answered(row)
  BY <1>1, <1>3, <1>4 DEF Answered
<1> QED
  BY <1>1, <1>2, <1>5, <1>6, <1>7, HandlerKeeps

(* A row that only moves on, before anything is submitted. *)
LEMMA AdvanceKeeps ==
  ASSUME Inv, NEW d \in Requests, NEW row \in Row, Step(d, row), Silent,
         req[d].pc \in Early \ {"unposted"}, row.pc \in Early,
         row.reply = req[d].reply,
         row.pc = "signed" => row.op \in Op /\ row.op.body = BodyOf(d)
  PROVE  Inv'
<1>1. HandlerStep(d, row) /\ reports' = reports
  BY SilentStep
<1>2. /\ OwnOp(d, req[d], BodyOf(d), landed)
      /\ ToldFits(req[d], KindsOf(reports, d)) /\ Answered(req[d])
  BY DEF Inv, RequestInv
<1>3. OwnOp(d, row, BodyOf(d), landed)
  BY <1>2 DEF OwnOp, Early
<1>4. ToldFits(row, KindsOf(reports', d))
  BY <1>1, <1>2 DEF ToldFits, Early
<1>5. Answered(row)
  BY <1>2 DEF Answered, Early
<1> QED
  BY <1>1, <1>3, <1>4, <1>5, HandlerKeeps

-----------------------------------------------------------------------------
(* The steps of a handler. *)

(* The 401. *)
LEMMA RefuseCallerKeeps ==
  ASSUME Inv, NEW d \in Requests, RefuseCaller(d)
  PROVE  Inv'
BY FinishKeeps, QuietIsSilent DEF RefuseCaller, Replies

(* The row that goes on to build. *)
LEMMA BuildingRow ==
  ASSUME TypeInv, NEW d \in Requests
  PROVE  /\ Building(d) \in Row
         /\ Building(d).pc = "building" /\ Building(d).reply = req[d].reply
BY RowFields DEF Building, Row, States, Running

(* The step that goes on to build. *)
LEMMA BuildingKeeps ==
  ASSUME Inv, NEW d \in Requests, req[d].pc = "handling",
         Step(d, Building(d)), Silent
  PROVE  Inv'
<1>1. /\ Building(d) \in Row
      /\ Building(d).pc = "building" /\ Building(d).reply = req[d].reply
  BY BuildingRow DEF Inv
<1> QED
  BY <1>1, AdvanceKeeps DEF Early

(* The checks of a transfer. *)
LEMMA HandleTransferKeeps ==
  ASSUME Inv, NEW d \in Requests, HandleTransferDispatch(d)
  PROVE  Inv'
<1>1. req[d].pc = "handling" /\ Silent
  BY QuietIsSilent DEF HandleTransferDispatch, Handles
<1>2. \/ Step(d, Finish(d, "400")) \/ Step(d, Finish(d, "422"))
      \/ Step(d, Finish(d, "500")) \/ Step(d, Building(d))
  BY DEF HandleTransferDispatch, Checked
<1> QED
  BY <1>1, <1>2, FinishKeeps, BuildingKeeps DEF Replies

(* The checks of a swap. *)
LEMMA HandleSwapKeeps ==
  ASSUME Inv, NEW d \in Requests, HandleSwapDispatch(d)
  PROVE  Inv'
<1>1. req[d].pc = "handling" /\ Silent
  BY QuietIsSilent DEF HandleSwapDispatch, Handles
<1>2. \/ Step(d, Finish(d, "400")) \/ Step(d, Finish(d, "422"))
      \/ Step(d, Building(d))
      \/ Step(d, Abort(d, "clients")) \/ Step(d, Abort(d, "envelope"))
  BY DEF HandleSwapDispatch, Checked
<1> QED
  BY <1>1, <1>2, FinishKeeps, BuildingKeeps, AbortKeeps
  DEF Replies, Reasons, Early

(* The checks of a deposit. *)
LEMMA HandleMorphoDepositKeeps ==
  ASSUME Inv, NEW d \in Requests, HandleMorphoDepositDispatch(d)
  PROVE  Inv'
<1>1. req[d].pc = "handling" /\ Silent
  BY QuietIsSilent DEF HandleMorphoDepositDispatch, Handles
<1>2. \/ Step(d, Finish(d, "400")) \/ Step(d, Finish(d, "422"))
      \/ Step(d, Building(d)) \/ Step(d, Abort(d, "clients"))
  BY DEF HandleMorphoDepositDispatch, Checked
<1> QED
  BY <1>1, <1>2, FinishKeeps, BuildingKeeps, AbortKeeps
  DEF Replies, Reasons, Early

(* The nonce is read. *)
LEMMA ReadNonceKeeps ==
  ASSUME Inv, NEW d \in Requests, ReadNonce(d)
  PROVE  Inv'
<1> DEFINE row == [req[d] EXCEPT !.pc = "estimating", !.nonce = NextNonce]
<1>1. req[d].pc = "building" /\ Silent /\ Step(d, row)
  BY QuietIsSilent DEF ReadNonce
<1>2. NextNonce \in Nat
  BY FS_CardinalityType DEF NextNonce, Inv, TypeInv
<1>3. row \in Row /\ row.pc = "estimating" /\ row.reply = req[d].reply
  BY <1>2, RowFields DEF Inv, Row, States, Running
<1> HIDE DEF row
<1> QED
  BY <1>1, <1>3, AdvanceKeeps DEF Early

(* The operation is built from the body of the plan. *)
LEMMA SignUserOpKeeps ==
  ASSUME Inv, NEW d \in Requests, SignUserOp(d)
  PROVE  Inv'
<1>1. PICK f \in Fees :
        Step(d, [req[d] EXCEPT !.pc = "signed",
                   !.op = [body |-> BodyOf(d), chain |-> server.configured,
                           nonce |-> req[d].nonce, fee |-> f]])
  BY Zenon DEF SignUserOp
<1> DEFINE op == [body |-> BodyOf(d), chain |-> server.configured,
                  nonce |-> req[d].nonce, fee |-> f]
           row == [req[d] EXCEPT !.pc = "signed", !.op = op]
<1>2. req[d].pc = "estimating" /\ Silent /\ Step(d, row)
  BY <1>1, QuietIsSilent DEF SignUserOp
<1>3. BodyOf(d) \in Bodies
  BY <1>2 DEF Inv, RequestInv, OwnOp
<1>4. op \in Op /\ op.body = BodyOf(d)
  BY <1>3, RowFields DEF Inv, TypeInv, Servers, Op
<1> HIDE DEF op
<1>5. /\ row \in Row /\ row.pc = "signed" /\ row.reply = req[d].reply
      /\ row.op = op
  BY <1>4, RowFields DEF Inv, Row, States, Running
<1> HIDE DEF row
<1> QED
  BY <1>2, <1>4, <1>5, AdvanceKeeps DEF Early

(* Building fails. *)
LEMMA BuildFailsKeeps ==
  ASSUME Inv, NEW d \in Requests, BuildFails(d)
  PROVE  Inv'
BY AbortKeeps, QuietIsSilent DEF BuildFails, Reasons, Early

(* The wait for a receipt ends without one. *)
LEMMA GiveUpKeeps ==
  ASSUME Inv, NEW d \in Requests, GiveUp(d)
  PROVE  Inv'
BY AbortKeeps, QuietIsSilent DEF GiveUp, Reasons, Early

Broadcast(d, o) ==
  [Sending(d, "broadcast", "none", 0) EXCEPT !.op = o, !.report.op = o]

(* The broadcast names the operation that was built. *)
LEMMA BroadcastKeeps ==
  ASSUME Inv, NEW d \in Requests, NEW o, o = req[d].op,
         req[d].pc = "signed", Silent,
         Step(d, Broadcast(d, o))
  PROVE  Inv'
<1> DEFINE sent == Sending(d, "broadcast", "none", 0)
           row == [sent EXCEPT !.op = o, !.report.op = o]
<1>1. /\ sent \in Row /\ sent.pc = "sending" /\ sent.op = o
      /\ sent.reply = req[d].reply /\ sent.report \in Report
      /\ sent.report.request = d /\ sent.report.kind = "broadcast"
      /\ sent.report.op = o
  BY SendingRow DEF Inv, Kinds, Reasons
<1>2. HandlerStep(d, row) /\ reports' = reports
  BY SilentStep DEF Broadcast
<1> HIDE DEF sent
<1>3. /\ OwnOp(d, req[d], BodyOf(d), landed)
      /\ ToldFits(req[d], KindsOf(reports, d)) /\ Answered(req[d])
  BY DEF Inv, RequestInv
<1>4. o \in Op /\ o.body = BodyOf(d) /\ BodyOf(d) \in Bodies
  BY <1>3 DEF OwnOp
<1> DEFINE report == [sent.report EXCEPT !.op = o]
<1>5. report \in Report /\ report.request = d /\ report.kind = "broadcast"
  BY <1>1, <1>4 DEF Report
<1>6. row = [sent EXCEPT !.op = o, !.report = report]
  BY <1>1 DEF Row
<1> HIDE DEF report
<1>7. /\ row \in Row /\ row.pc = "sending" /\ row.op = o
      /\ row.reply = req[d].reply /\ row.report = report
  BY <1>1, <1>4, <1>5, <1>6 DEF Row
<1> HIDE DEF row
<1>8. OwnOp(d, row, BodyOf(d), landed)
  BY <1>4, <1>5, <1>7 DEF OwnOp, Outcomes
<1>9. ToldFits(row, KindsOf(reports', d))
  BY <1>2, <1>3, <1>5, <1>7 DEF ToldFits, Early, Outcomes
<1>10. Answered(row)
  BY <1>3, <1>7 DEF Answered
<1> QED
  BY <1>2, <1>7, <1>8, <1>9, <1>10, HandlerKeeps

(* The operation is submitted; what is tracked is the local hash. *)
LEMMA SubmitKeeps ==
  ASSUME Inv, NEW d \in Requests, Submit(d)
  PROVE  Inv'
<1>1. req[d].pc = "signed" /\ UNCHANGED <<reports, landed, ledger, faults>>
  BY Zenon DEF Submit
<1>2. req[d].op \in Op
  BY <1>1 DEF Inv, RequestInv, OwnOp
<1>3. Silent
  <2>1. mempool \subseteq Op
    BY DEF Inv, TypeInv
  <2>2. CASE BundlerTakes(req[d].op)
    BY <1>1, <1>2, <2>1, <2>2 DEF BundlerTakes, Silent
  <2>3. CASE UNCHANGED mempool
    BY <1>1, <2>1, <2>3 DEF Silent
  <2> QED
    BY <2>2, <2>3, Zenon DEF Submit
<1>4. CASE \E h \in KnownOps \cup {req[d].op} :
             \E o \in TrackedOp(req[d].op, h) : Step(d, Broadcast(d, o))
  <2>1. PICK h \in KnownOps \cup {req[d].op} :
          \E o \in TrackedOp(req[d].op, h) : Step(d, Broadcast(d, o))
    BY <1>4, Zenon
  <2>2. PICK o \in TrackedOp(req[d].op, h) : Step(d, Broadcast(d, o))
    BY <2>1, Zenon
  <2>3. o = req[d].op
    BY DEF TrackedOp
  <2> QED
    BY <1>1, <1>3, <2>2, <2>3, BroadcastKeeps
<1>5. CASE Step(d, Abort(d, "mismatch")) \/ Step(d, Abort(d, "rejected"))
  BY <1>1, <1>3, <1>5, AbortKeeps DEF Reasons, Early
<1> QED
  BY <1>4, <1>5, Zenon DEF Submit, Broadcast

(* An outcome is reported that a receipt of the request's own operation    *)
(* backs.                                                                  *)
LEMMA OutcomeKeeps ==
  ASSUME Inv, NEW d \in Requests, NEW kind \in Outcomes,
         NEW reason \in Reasons, NEW spent \in Nat, req[d].pc = "waiting",
         Step(d, Sending(d, kind, reason, spent)), Silent,
         NEW l \in ReceiptsOf(req[d].op),
         l.ok <=> kind = "confirmed", l.ok => l.moved <= spent
  PROVE  Inv'
<1> DEFINE row == Sending(d, kind, reason, spent)
<1>1. /\ row \in Row /\ row.pc = "sending" /\ row.op = req[d].op
      /\ row.reply = req[d].reply /\ row.report \in Report
      /\ row.report.request = d /\ row.report.kind = kind
      /\ row.report.op = req[d].op /\ row.report.spent = spent
  BY SendingRow DEF Inv, Kinds, Outcomes
<1>2. HandlerStep(d, row) /\ reports' = reports
  BY SilentStep
<1>3. /\ OwnOp(d, req[d], BodyOf(d), landed)
      /\ ToldFits(req[d], KindsOf(reports, d)) /\ Answered(req[d])
  BY DEF Inv, RequestInv
<1> HIDE DEF row
<1>4. l \in landed /\ l.op = req[d].op
  BY DEF ReceiptsOf
<1>5. Backed(row.report, BodyOf(d), landed)
  BY <1>1, <1>3, <1>4 DEF Backed, OwnOp
<1>6. OwnOp(d, row, BodyOf(d), landed)
  BY <1>1, <1>3, <1>5 DEF OwnOp, Outcomes
<1>7. ToldFits(row, KindsOf(reports', d))
  BY <1>1, <1>2, <1>3 DEF ToldFits, Early, Outcomes
<1>8. Answered(row)
  BY <1>1, <1>3 DEF Answered
<1> QED
  BY <1>1, <1>2, <1>6, <1>7, <1>8, HandlerKeeps

(* A success spends what the dispatch asked for, no less than moved. *)
LEMMA ReportSuccessKeeps ==
  ASSUME Inv, NEW d \in Requests, ReportSuccess(d)
  PROVE  Inv'
<1>1. /\ req[d].pc = "waiting" /\ Silent
      /\ Step(d, Sending(d, "confirmed", "none", BodyOf(d).amount))
  BY QuietIsSilent DEF ReportSuccess
<1>2. PICK l \in ReceiptsOf(req[d].op) : l.ok
  BY DEF ReportSuccess
<1>3. req[d].op.body = BodyOf(d) /\ BodyOf(d) \in Bodies
  BY <1>1 DEF Inv, RequestInv, OwnOp
<1>4. BodyOf(d).amount \in Nat
  BY <1>3, BodyTyped
<1>5. l.moved <= BodyOf(d).amount
  BY <1>2, <1>3 DEF Inv, ChainInv, ReceiptsOf
<1> QED
  BY <1>1, <1>2, <1>4, <1>5, OutcomeKeeps DEF Outcomes, Reasons

(* A revert spends nothing. *)
LEMMA ReportRevertKeeps ==
  ASSUME Inv, NEW d \in Requests, NEW reasons \in SUBSET ReceiptReasons,
         ReportRevert(d, reasons)
  PROVE  Inv'
<1>1. req[d].pc = "waiting" /\ Silent
  BY QuietIsSilent DEF ReportRevert
<1>2. PICK l \in ReceiptsOf(req[d].op) : ~ l.ok
  BY DEF ReportRevert
<1>3. PICK reason \in reasons : Step(d, Sending(d, "reverted", reason, 0))
  BY DEF ReportRevert
<1>4. reason \in Reasons
  BY DEF Reasons, ReceiptReasons
<1> QED
  BY <1>1, <1>2, <1>3, <1>4, OutcomeKeeps DEF Outcomes

(* What the control plane will have been told when a callback arrives. *)
LEMMA KindsTold ==
  ASSUME Inv, NEW d \in Requests, req[d].pc = "sending",
         reports' = reports \cup {req[d].report}
  PROVE  KindsOf(reports', d) = KindsOf(reports, d) \cup {req[d].report.kind}
<1>1. req[d].report.request = d
  BY DEF Inv, RequestInv, OwnOp
<1> DEFINE r == req[d].report
<1>2. reports' = reports \cup {r} /\ r.request = d
  BY <1>1
<1> HIDE DEF r
<1>3. KindsOf(reports', d) = KindsOf(reports, d) \cup {r.kind}
  BY <1>2 DEF KindsOf
<1> QED
  BY <1>3 DEF r

(* The handler ends with its callback, whether or not it arrived. *)
LEMMA CallbackEnds ==
  ASSUME Inv, NEW d \in Requests, NEW status \in Replies \ {"none"},
         req[d].pc = "sending", HandlerStep(d, Finish(d, status))
  PROVE  Inv'
<1> DEFINE row == Finish(d, status)
<1>1. row \in Row /\ row.pc = "done" /\ row.reply = status
  BY FinishRow DEF Inv
<1>2. /\ OwnOp(d, req[d], BodyOf(d), landed)
      /\ ToldFits(req[d], KindsOf(reports, d))
  BY DEF Inv, RequestInv
<1>3. HandlerStep(d, row)
  OBVIOUS
<1> HIDE DEF row
<1>4. OwnOp(d, row, BodyOf(d), landed)
  BY <1>1, <1>2 DEF OwnOp
<1>5. req[d].report.kind \in Kinds
  BY <1>2 DEF OwnOp, Report, Kinds
<1>6. \A j, k \in KindsOf(reports', d) \ {"broadcast"} : j = k
  <2>1. CASE reports' = reports
    BY <1>2, <2>1 DEF ToldFits
  <2>2. CASE reports' = reports \cup {req[d].report}
    <3>1. KindsOf(reports', d)
            = KindsOf(reports, d) \cup {req[d].report.kind}
      BY <2>2, KindsTold
    <3>2. KindsOf(reports, d) \subseteq {"broadcast"}
      BY <1>2, <1>5 DEF ToldFits, Kinds, Outcomes
    <3> QED
      BY <3>1, <3>2
  <2> QED
    BY <1>3, <2>1, <2>2 DEF HandlerStep
<1>7. ToldFits(row, KindsOf(reports', d))
  BY <1>1, <1>6 DEF ToldFits, Early
<1>8. Answered(row)
  BY <1>1 DEF Answered
<1> QED
  BY <1>1, <1>3, <1>4, <1>7, <1>8, HandlerKeeps

(* A callback arrives and the handler goes on or ends. *)
LEMMA CallbackDeliveredKeeps ==
  ASSUME Inv, NEW d \in Requests, CallbackDelivered(d)
  PROVE  Inv'
<1>1. /\ req[d].pc = "sending" /\ HandlerStep(d, AfterReport(d))
      /\ reports' = reports \cup {req[d].report}
  BY DEF CallbackDelivered, HandlerStep, chainVars, Inv, TypeInv
<1>2. /\ OwnOp(d, req[d], BodyOf(d), landed)
      /\ ToldFits(req[d], KindsOf(reports, d)) /\ Answered(req[d])
  BY DEF Inv, RequestInv
<1>3. req[d].report.kind \in Kinds
  BY <1>1, <1>2 DEF OwnOp, Report, Kinds
<1>4. CASE req[d].report.kind = "broadcast"
  <2> DEFINE row == [req[d] EXCEPT !.pc = "waiting"]
  <2>1. HandlerStep(d, row)
    BY <1>1, <1>4 DEF AfterReport
  <2>2. /\ row \in Row /\ row.pc = "waiting" /\ row.op = req[d].op
        /\ row.reply = req[d].reply
    BY RowFields DEF Inv, Row, States, Running
  <2> HIDE DEF row
  <2>3. OwnOp(d, row, BodyOf(d), landed)
    BY <1>1, <1>2, <1>4, <2>2 DEF OwnOp
  <2>4. KindsOf(reports', d) = {"broadcast"}
    BY <1>1, <1>2, <1>4, KindsTold DEF ToldFits
  <2>5. ToldFits(row, KindsOf(reports', d))
    BY <2>2, <2>4 DEF ToldFits, Early
  <2>6. Answered(row)
    BY <1>1, <1>2, <2>2 DEF Answered
  <2> QED
    BY <2>1, <2>2, <2>3, <2>5, <2>6, HandlerKeeps
<1>5. CASE req[d].report.kind # "broadcast"
  <2>1. AfterReport(d) = Finish(d, "202") \/ AfterReport(d) = Finish(d, "502")
    BY <1>3, <1>5 DEF AfterReport, Kinds
  <2> QED
    BY <1>1, <2>1, CallbackEnds DEF Replies
<1> QED
  BY <1>4, <1>5

(* A callback is refused or lost and the handler ends. *)
LEMMA CallbackFailsKeeps ==
  ASSUME Inv, NEW d \in Requests, CallbackFails(d)
  PROVE  Inv'
<1>1. faults' \in 0..MaxFaults
  BY AdapterBounds DEF CallbackFails, Inv, TypeInv
<1>2. req[d].pc = "sending" /\ HandlerStep(d, Finish(d, "502"))
  BY <1>1 DEF CallbackFails, HandlerStep, chainVars, Inv, TypeInv
<1> QED
  BY <1>2, CallbackEnds DEF Replies

(* Every step of a handler keeps the invariant. *)
LEMMA HandlerInv ==
  ASSUME Inv, NEW d \in Requests, Handler(d)
  PROVE  Inv'
<1>1. ReceiptReasons \in SUBSET ReceiptReasons
      /\ {"reverted"} \in SUBSET ReceiptReasons
  BY DEF ReceiptReasons
<1>2. CASE BuildAndSignUserOp(d)
  BY <1>2, ReadNonceKeeps, SignUserOpKeeps, BuildFailsKeeps
  DEF BuildAndSignUserOp
<1>3. \/ RefuseCaller(d) \/ HandleTransferDispatch(d)
      \/ HandleSwapDispatch(d) \/ HandleMorphoDepositDispatch(d)
      \/ BuildAndSignUserOp(d) \/ Submit(d) \/ ReportSuccess(d)
      \/ ReportRevert(d, ReceiptReasons) \/ ReportRevert(d, {"reverted"})
      \/ GiveUp(d) \/ CallbackDelivered(d) \/ CallbackFails(d)
  BY Zenon DEF Handler, TransferSends, TransferEnds, SwapSends, SwapEnds,
     MorphoDepositSends, MorphoDepositEnds
<1> QED
  BY <1>1, <1>2, <1>3, RefuseCallerKeeps, HandleTransferKeeps,
     HandleSwapKeeps, HandleMorphoDepositKeeps, SubmitKeeps,
     ReportSuccessKeeps, ReportRevertKeeps, GiveUpKeeps,
     CallbackDeliveredKeeps, CallbackFailsKeeps

-----------------------------------------------------------------------------
(* The steps of the world around. *)

(* The first post of a plan fixes its body, and no request that was posted *)
(* sees it change: None is no body.                                        *)
LEMMA PostKeeps ==
  ASSUME Inv, NEW d \in Requests, Post(d)
  PROVE  Inv'
<1>1. PICK h \in Headers :
        req' = [req EXCEPT ![d].pc = "handling", ![d].header = h]
  BY Zenon DEF Post
<1>2. /\ req[d].pc = "unposted" /\ server' = server /\ reports' = reports
      /\ mempool' = mempool /\ landed' = landed /\ ledger' = ledger
      /\ now' = now /\ faults' = faults
  BY DEF Post, chainVars
<1>3. TypeInv /\ RequestInv /\ ChainInv /\ ReportsOwnOp /\ SpendBounded
  BY DEF Inv
<1> DEFINE row == [req[d] EXCEPT !.pc = "handling", !.header = h]
<1>4. /\ row \in Row /\ row.pc = "handling" /\ row.reply = req[d].reply
  BY <1>3, RowFields DEF Row, States, Running
<1>5. req' = [req EXCEPT ![d] = row]
  BY <1>1, <1>3 DEF TypeInv
<1> HIDE DEF row
<1>6. /\ req' \in [Requests -> Row] /\ req'[d] = row
      /\ \A e \in Requests : e # d => req'[e] = req[e]
  BY <1>3, <1>4, <1>5 DEF TypeInv
<1>7. d[1] \in Plans
  BY DEF Requests
<1>8. /\ body' \in [Plans -> Bodies \cup {None}] /\ BodyOf(d)' \in Bodies
      /\ \A p \in Plans : body[p] # None => body'[p] = body[p]
  <2>1. CASE BodyOf(d) = None
    <3>1. PICK b \in Bodies : body' = [body EXCEPT ![d[1]] = b]
      BY <2>1 DEF Post
    <3> QED
      BY <1>3, <1>7, <2>1, <3>1 DEF TypeInv, BodyOf
  <2>2. CASE BodyOf(d) # None
    <3>1. body' = body
      BY <2>2 DEF Post
    <3> QED
      BY <1>3, <1>7, <2>2, <3>1 DEF TypeInv, BodyOf
  <2> QED
    BY <2>1, <2>2
<1>9. \A e \in Requests : BodyOf(e) \in Bodies => BodyOf(e)' = BodyOf(e)
  BY <1>8, NoneAssumption DEF BodyOf, Requests
<1>10. TypeInv'
  BY <1>2, <1>3, <1>6, <1>8 DEF TypeInv
<1>11. RequestInv'
  <2> SUFFICES ASSUME NEW e \in Requests
               PROVE  /\ OwnOp(e, req'[e], BodyOf(e)', landed')
                      /\ ToldFits(req'[e], KindsOf(reports', e))
                      /\ Answered(req'[e])
    BY DEF RequestInv
  <2>1. /\ OwnOp(e, req[e], BodyOf(e), landed)
        /\ ToldFits(req[e], KindsOf(reports, e)) /\ Answered(req[e])
    BY <1>3 DEF RequestInv
  <2>2. CASE e = d
    <3>1. OwnOp(d, row, BodyOf(d)', landed')
      BY <1>4, <1>8 DEF OwnOp
    <3>2. ToldFits(row, KindsOf(reports', d))
      BY <1>2, <1>4, <2>1, <2>2 DEF ToldFits, Early
    <3>3. Answered(row)
      BY <1>2, <1>4, <2>1, <2>2 DEF Answered
    <3> QED
      BY <1>6, <2>2, <3>1, <3>2, <3>3
  <2>3. CASE e # d
    <3>1. req'[e] = req[e]
      BY <1>6, <2>3
    <3>2. OwnOp(e, req[e], BodyOf(e)', landed)
      <4>1. CASE req[e].pc = "unposted"
        BY <4>1 DEF OwnOp
      <4>2. CASE req[e].pc # "unposted"
        BY <1>9, <2>1, <4>2 DEF OwnOp
      <4> QED
        BY <4>1, <4>2
    <3> QED
      BY <1>2, <2>1, <3>1, <3>2
  <2> QED
    BY <2>2, <2>3
<1>12. ChainInv'
  BY <1>2, <1>3 DEF ChainInv, NextNonce
<1>13. ReportsOwnOp'
  <2> SUFFICES ASSUME NEW r \in reports, r.kind \in Outcomes
               PROVE  Backed(r, BodyOf(r.request)', landed)
    BY <1>2 DEF ReportsOwnOp, Outcomes, Backed
  <2>1. Backed(r, BodyOf(r.request), landed)
    BY <1>3 DEF ReportsOwnOp, Outcomes, Backed
  <2>2. BodyOf(r.request) \in Bodies
    BY <1>3, <2>1 DEF TypeInv, Backed, Inclusion, Op
  <2>3. r.request \in Requests
    BY <1>3 DEF TypeInv, Report
  <2> QED
    BY <1>9, <2>1, <2>2, <2>3
<1>14. SpendBounded'
  BY <1>2, <1>3 DEF SpendBounded
<1> QED
  BY <1>10, <1>11, <1>12, <1>13, <1>14 DEF Inv

(* The process starts. *)
LEMMA StartServerKeeps ==
  ASSUME Inv, StartServer
  PROVE  Inv'
<1>1. /\ server' \in Servers /\ body' = body /\ req' = req
      /\ reports' = reports /\ mempool' = mempool /\ landed' = landed
      /\ ledger' = ledger /\ now' = now /\ faults' = faults
  BY DEF StartServer, Inv, TypeInv, Servers, chainVars
<1>2. TypeInv'
  BY <1>1 DEF Inv, TypeInv
<1>3. \A d : BodyOf(d)' = BodyOf(d)
  BY <1>1 DEF BodyOf
<1>4. RequestInv' /\ ChainInv'
  BY <1>1, <1>3 DEF Inv, RequestInv, ChainInv, NextNonce
<1>5. ReportsOwnOp' /\ SpendBounded'
  BY <1>1, <1>3 DEF Inv, ReportsOwnOp, SpendBounded
<1> QED
  BY <1>2, <1>4, <1>5 DEF Inv

(* Time passes. *)
LEMMA TickKeeps ==
  ASSUME Inv, Tick
  PROVE  Inv'
<1>1. /\ now' \in 0..Horizon /\ body' = body /\ req' = req
      /\ reports' = reports /\ mempool' = mempool /\ landed' = landed
      /\ ledger' = ledger /\ server' = server /\ faults' = faults
  BY AdapterBounds DEF Tick, Inv, TypeInv, chainVars
<1>2. TypeInv'
  BY <1>1 DEF Inv, TypeInv
<1>3. \A d : BodyOf(d)' = BodyOf(d)
  BY <1>1 DEF BodyOf
<1>4. RequestInv' /\ ChainInv'
  BY <1>1, <1>3 DEF Inv, RequestInv, ChainInv, NextNonce
<1>5. ReportsOwnOp' /\ SpendBounded'
  BY <1>1, <1>3 DEF Inv, ReportsOwnOp, SpendBounded
<1> QED
  BY <1>2, <1>4, <1>5 DEF Inv

(* The requests in memory are lost, unanswered. *)
LEMMA RestartKeeps ==
  ASSUME Inv, Restart
  PROVE  Inv'
<1>1. /\ faults' \in 0..MaxFaults /\ body' = body /\ now' = now
      /\ reports' = reports /\ mempool' = mempool /\ landed' = landed
      /\ ledger' = ledger /\ server' = server
  BY AdapterBounds DEF Restart, Inv, TypeInv, chainVars
<1>2. TypeInv /\ RequestInv /\ ChainInv /\ ReportsOwnOp /\ SpendBounded
  BY DEF Inv
<1> DEFINE gone(d) == [req[d] EXCEPT !.pc = "lost"]
<1>3. req' = [d \in Requests |-> IF req[d].pc \in Running THEN gone(d)
                                                          ELSE req[d]]
  BY DEF Restart
<1>4. \A d \in Requests : /\ gone(d) \in Row /\ gone(d).pc = "lost"
                          /\ gone(d).reply = req[d].reply
  <2> TAKE d \in Requests
  <2> QED
    BY <1>2, RowFields DEF Row, States
<1> HIDE DEF gone
<1>5. req' \in [Requests -> Row]
  BY <1>2, <1>3, <1>4 DEF TypeInv
<1>6. TypeInv'
  BY <1>1, <1>2, <1>5 DEF TypeInv
<1>7. \A d : BodyOf(d)' = BodyOf(d)
  BY <1>1 DEF BodyOf
<1>8. RequestInv'
  <2> SUFFICES ASSUME NEW d \in Requests
               PROVE  /\ OwnOp(d, req'[d], BodyOf(d), landed)
                      /\ ToldFits(req'[d], KindsOf(reports, d))
                      /\ Answered(req'[d])
    BY <1>1, <1>7 DEF RequestInv
  <2>1. /\ OwnOp(d, req[d], BodyOf(d), landed)
        /\ ToldFits(req[d], KindsOf(reports, d)) /\ Answered(req[d])
    BY <1>2 DEF RequestInv
  <2>2. CASE req[d].pc \in Running
    <3>1. req'[d] = gone(d) /\ gone(d).pc = "lost"
          /\ gone(d).reply = req[d].reply
      BY <1>3, <1>4, <2>2
    <3>2. OwnOp(d, gone(d), BodyOf(d), landed)
      BY <2>1, <2>2, <3>1 DEF OwnOp, Running
    <3>3. ToldFits(gone(d), KindsOf(reports, d))
      BY <2>1, <3>1 DEF ToldFits, Early
    <3>4. Answered(gone(d))
      BY <2>1, <2>2, <3>1 DEF Answered, Running
    <3> QED
      BY <3>1, <3>2, <3>3, <3>4
  <2>3. CASE req[d].pc \notin Running
    BY <1>3, <2>1, <2>3
  <2> QED
    BY <2>2, <2>3
<1>9. ChainInv'
  BY <1>1, <1>2 DEF ChainInv, NextNonce
<1>10. ReportsOwnOp' /\ SpendBounded'
  BY <1>1, <1>2, <1>7 DEF ReportsOwnOp, SpendBounded
<1> QED
  BY <1>6, <1>8, <1>9, <1>10 DEF Inv

(* One more inclusion, which is new because its nonce is. *)
LEMMA Included ==
  ASSUME Inv, NEW o \in Op, o.nonce = NextNonce, NEW l \in Inclusion,
         l.op = o, l.ok => l.moved <= o.body.amount,
         landed' = landed \cup {l}
  PROVE  /\ l \notin landed
         /\ landed' \subseteq Inclusion /\ IsFiniteSet(landed')
         /\ ChainInv'
<1>1. landed \subseteq Inclusion /\ IsFiniteSet(landed) /\ ChainInv
  BY DEF Inv, TypeInv
<1>2. NextNonce \in Nat
  BY <1>1, FS_CardinalityType DEF NextNonce
<1>3. l \notin landed
  BY <1>1, <1>2 DEF ChainInv
<1>4. IsFiniteSet(landed') /\ NextNonce' = NextNonce + 1
  BY <1>1, <1>3, FS_AddElement DEF NextNonce
<1>5. \A k \in landed : k.op.nonce \in Nat
  BY <1>1 DEF Inclusion, Op
<1>6. ChainInv'
  <2> SUFFICES ASSUME NEW k \in landed \cup {l}
               PROVE  /\ k.op.nonce < NextNonce + 1
                      /\ k.ok => k.moved <= k.op.body.amount
    BY <1>4 DEF ChainInv
  <2>1. CASE k \in landed
    BY <1>1, <1>2, <1>5, <2>1 DEF ChainInv
  <2>2. CASE k = l
    BY <1>2, <2>2
  <2> QED
    BY <2>1, <2>2
<1> QED
  BY <1>1, <1>3, <1>4, <1>6

(* What is not about the ledger survives an inclusion. *)
LEMMA IncludedKeeps ==
  ASSUME Inv, NEW o \in Op, Land(o), NEW l, landed' = landed \cup {l},
         landed' \subseteq Inclusion, IsFiniteSet(landed'), ChainInv',
         ledger' \in Ledger, SpendBounded'
  PROVE  Inv'
<1>1. /\ body' = body /\ server' = server /\ req' = req
      /\ reports' = reports /\ now' = now /\ faults' = faults
      /\ mempool' \subseteq mempool
  BY DEF Land
<1>2. TypeInv /\ RequestInv /\ ReportsOwnOp
  BY DEF Inv
<1>3. TypeInv'
  BY <1>1, <1>2 DEF TypeInv
<1>4. \A d : BodyOf(d)' = BodyOf(d)
  BY <1>1 DEF BodyOf
<1>5. \A r, b : Backed(r, b, landed) => Backed(r, b, landed')
  BY DEF Backed
<1>6. RequestInv'
  BY <1>1, <1>2, <1>4, <1>5 DEF RequestInv, OwnOp
<1>7. ReportsOwnOp'
  <2> SUFFICES ASSUME NEW r \in reports, r.kind \in Outcomes
               PROVE  Backed(r, BodyOf(r.request), landed')
    BY <1>1, <1>4 DEF ReportsOwnOp, Outcomes, Backed
  <2>1. Backed(r, BodyOf(r.request), landed)
    BY <1>2 DEF ReportsOwnOp, Outcomes, Backed
  <2> QED
    BY <1>5, <2>1
<1> QED
  BY <1>3, <1>6, <1>7 DEF Inv

Paying == {l \in landed : l.ok}

(* An operation is included: its batch takes effect, or nothing does. *)
LEMMA LandKeeps ==
  ASSUME Inv, NEW o \in mempool, Land(o)
  PROVE  Inv'
<1>1. /\ o \in Op /\ o.body \in Bodies /\ o.nonce = NextNonce
      /\ ledger \in Ledger
  BY DEF Inv, TypeInv, Op, Land
<1>2. /\ landed \subseteq Inclusion /\ IsFiniteSet(landed) /\ SpendBounded
  BY DEF Inv, TypeInv
<1>3. Paying \in SUBSET landed /\ IsFiniteSet(Paying)
  BY <1>2, FS_Subset DEF Paying
<1>4. \A k \in landed : Amount(k) \in Nat
  BY <1>2, BodyTyped DEF Amount, Inclusion, Op
<1> DEFINE after == ExecuteBatch(ledger, CallsOf(o.body))
           done == [op |-> o, ok |-> TRUE, moved |-> ledger.token - after.token]
           failed == [op |-> o, ok |-> FALSE, moved |-> 0]
<1>5. \/ after.ok /\ ledger' = after /\ landed' = landed \cup {done}
      \/ ledger' = ledger /\ landed' = landed \cup {failed}
  BY DEF Land
<1>6. CASE after.ok /\ ledger' = after /\ landed' = landed \cup {done}
  <2>1. /\ after \in Ledger
        /\ ledger.token - after.token \in Nat
        /\ ledger.token - after.token <= o.body.amount
        /\ ledger.token + after.router + after.vault
             <= after.token + ledger.router + ledger.vault + o.body.amount
    BY <1>1, <1>6, BatchBounded
  <2> HIDE DEF after
  <2>2. /\ done \in Inclusion /\ done.op = o /\ done.ok
        /\ done.moved <= o.body.amount
    BY <1>1, <2>1 DEF Inclusion
  <2> HIDE DEF done
  <2>3. /\ done \notin landed /\ landed' \subseteq Inclusion
        /\ IsFiniteSet(landed') /\ ChainInv'
    BY <1>1, <1>6, <2>2, Included
  <2>4. Paying' = Paying \cup {done}
    BY <1>6, <2>2 DEF Paying
  <2>5. Amount(done) = o.body.amount /\ o.body.amount \in Nat
    BY <1>1, <2>2, BodyTyped DEF Amount
  <2>6. \A k \in Paying \cup {done} : Amount(k) \in Nat
    BY <1>3, <1>4, <2>5
  <2>7. /\ Asked(Paying) \in Nat
        /\ Asked(Paying \cup {done}) = Asked(Paying) + o.body.amount
    BY <1>3, <2>3, <2>5, <2>6, AskedMore
  <2>8. SpendBounded'
    <3>1. Funds + ledger.router + ledger.vault <= ledger.token + Asked(Paying)
      BY <1>2 DEF SpendBounded, Paying
    <3>2. /\ Funds \in Nat /\ ledger.token \in Nat /\ ledger.router \in Nat
          /\ ledger.vault \in Nat /\ after.token \in Nat
          /\ after.router \in Nat /\ after.vault \in Nat
      BY <1>1, <2>1, AdapterBounds DEF Ledger
    <3>3. Funds + after.router + after.vault
            <= after.token + (Asked(Paying) + o.body.amount)
      BY <2>1, <2>5, <2>7, <3>1, <3>2
    <3>4. Funds + ledger'.router + ledger'.vault
            <= ledger'.token + Asked(Paying')
      BY <1>6, <2>4, <2>7, <3>3
    <3> QED
      BY <3>4 DEF SpendBounded, Paying
  <2> QED
    BY <1>1, <1>6, <2>1, <2>3, <2>8, IncludedKeeps
<1>7. CASE ledger' = ledger /\ landed' = landed \cup {failed}
  <2>1. failed \in Inclusion /\ failed.op = o /\ ~ failed.ok
    BY <1>1 DEF Inclusion
  <2> HIDE DEF failed
  <2>2. /\ landed' \subseteq Inclusion /\ IsFiniteSet(landed') /\ ChainInv'
    BY <1>1, <1>7, <2>1, Included
  <2>3. Paying' = Paying
    BY <1>7, <2>1 DEF Paying
  <2>4. SpendBounded'
    BY <1>2, <1>7, <2>3 DEF SpendBounded, Paying
  <2> QED
    BY <1>1, <1>7, <2>2, <2>4, IncludedKeeps
<1> QED
  BY <1>5, <1>6, <1>7

-----------------------------------------------------------------------------
(* The theorems. *)

(* The invariant holds at the start. *)
LEMMA Initially ==
  ASSUME Init
  PROVE  Inv
<1>1. Idle \in Row /\ Idle.pc = "unposted" /\ Idle.reply = "none"
  BY DEF Idle, Row, States, Replies
<1>2. \A d \in Requests : req[d] = Idle
  BY DEF Init
<1>3. ledger \in Ledger /\ ledger.token = Funds /\ ledger.router = 0
      /\ ledger.vault = 0
  BY AdapterBounds DEF Init, Ledger
<1>4. req \in [Requests -> Row]
  BY <1>1 DEF Init
<1>5. TypeInv
  BY <1>3, <1>4, FS_EmptySet, AdapterBounds DEF Init, TypeInv
<1>6. \A d : KindsOf(reports, d) = {}
  BY DEF Init, KindsOf
<1>7. RequestInv
  <2> SUFFICES ASSUME NEW d \in Requests
               PROVE  /\ OwnOp(d, Idle, BodyOf(d), landed)
                      /\ ToldFits(Idle, {}) /\ Answered(Idle)
    BY <1>2, <1>6 DEF RequestInv
  <2> QED
    BY <1>1 DEF OwnOp, ToldFits, Answered, Early
<1>8. ChainInv /\ ReportsOwnOp
  BY DEF Init, ChainInv, ReportsOwnOp
<1>9. SpendBounded
  <2>1. Paying = {}
    BY DEF Init, Paying
  <2>2. Asked({}) = 0
    <3>1. IsFiniteSet({})
      BY FS_EmptySet
    <3>2. PICK g : Additive(g, {})
      BY <3>1, AdditiveExists
    <3>3. Asked({}) = g[{}]
      BY <3>1, <3>2, AskedOfMeasure
    <3> QED
      BY <3>2, <3>3 DEF Additive
  <2> QED
    <3>1. Funds + ledger.router + ledger.vault <= ledger.token + Asked(Paying)
      BY <1>3, <2>1, <2>2, AdapterBounds
    <3> QED
      BY <3>1 DEF SpendBounded, Paying
<1> QED
  BY <1>5, <1>7, <1>8, <1>9 DEF Inv

(* Nothing changes. *)
LEMMA Stutter ==
  ASSUME Inv, UNCHANGED vars
  PROVE  Inv'
<1>1. /\ body' = body /\ server' = server /\ req' = req
      /\ reports' = reports /\ mempool' = mempool /\ landed' = landed
      /\ ledger' = ledger /\ now' = now /\ faults' = faults
  BY DEF vars
<1>2. \A d : BodyOf(d)' = BodyOf(d)
  BY <1>1 DEF BodyOf
<1> QED
  BY <1>1, <1>2
  DEF Inv, TypeInv, RequestInv, ChainInv, NextNonce, ReportsOwnOp,
      SpendBounded

(* Every step keeps the invariant. *)
LEMMA NextKeeps ==
  ASSUME Inv, [Next]_vars
  PROVE  Inv'
BY PostKeeps, HandlerInv, LandKeeps, StartServerKeeps, RestartKeeps,
   TickKeeps, Stutter
DEF Next

(* The inductive invariant holds in every reachable state. *)
THEOREM Invariance == Spec => []Inv
<1>1. Init => Inv
  BY Initially
<1>2. Inv /\ [Next]_vars => Inv'
  BY NextKeeps
<1> QED
  BY <1>1, <1>2, PTL DEF Spec

(* Every variable has its type: requests, callbacks, operations, the       *)
(* ledger.                                                                 *)
THEOREM TypeCorrect == Spec => []TypeOK
<1>1. Inv => TypeOK
  <2> SUFFICES ASSUME Inv
               PROVE  TypeOK
    OBVIOUS
  <2>1. TypeInv
    BY DEF Inv
  <2>2. \A d \in Requests :
          /\ req[d].pc \in Running \cup {"unposted", "done", "lost"}
          /\ req[d].header \in Headers \cup {None}
          /\ req[d].nonce \in Nat
          /\ req[d].op = None \/ req[d].op \in Op
          /\ req[d].report = None \/ req[d].report \in Report
          /\ req[d].reply \in Replies
    BY <2>1, RowFields DEF States
  <2>3. /\ \A r \in reports : r \in Report
        /\ \A o \in mempool : o \in Op
        /\ \A l \in landed : l.op \in Op /\ l.ok \in BOOLEAN /\ l.moved \in Nat
    BY <2>1 DEF TypeInv, Inclusion
  <2> QED
    BY <2>1, <2>2, <2>3 DEF TypeOK, TypeInv, Ledger
<1> QED
  BY <1>1, Invariance, PTL

(* The account never pays, and never lets the router and the vault pull,   *)
(* more than the plans asked for whose operation landed: the sum is over   *)
(* any number of operations.                                               *)
THEOREM NeverOverspends == Spec => []SpendBounded
<1>1. Inv => SpendBounded
  BY DEF Inv
<1> QED
  BY <1>1, Invariance, PTL

(* An outcome is told of an operation that carries the plan's own calls.   *)
THEOREM TruthOfItsOwn == Spec => []ReportsOwnOp
<1>1. Inv => ReportsOwnOp
  BY DEF Inv
<1> QED
  BY <1>1, Invariance, PTL

-----------------------------------------------------------------------------
(* AdapterOps implements DispatchReports. *)

ToldAs(kinds) ==
  IF kinds \subseteq {"broadcast"}
    THEN IF kinds = {} THEN "nothing" ELSE "broadcast"
    ELSE CHOOSE k \in kinds : k # "broadcast"

AnswerAs(row) ==
  CASE row.reply = "202" -> "accepted"
    [] row.reply = "none" /\ row.pc # "lost" -> "open"
    [] OTHER -> "failed"

(* The mapping reads the kinds told and the row of a request. *)
LEMMA ToldAsKinds ==
  ASSUME NEW d
  PROVE  Told(d) = ToldAs(KindsOf(reports, d)) /\ Answer(d) = AnswerAs(req[d])
BY DEF Told, ToldAs, KindsOf, Answer, AnswerAs

(* The same in the next state. *)
LEMMA ToldAsKindsNext ==
  ASSUME NEW d
  PROVE  /\ Told(d)' = ToldAs(KindsOf(reports', d))
         /\ Answer(d)' = AnswerAs(req'[d])
BY DEF Told, ToldAs, KindsOf, Answer, AnswerAs

(* What was told last, by the kinds told. *)
LEMMA ToldValues ==
  /\ ToldAs({}) = "nothing"
  /\ ToldAs({"broadcast"}) = "broadcast"
  /\ \A kinds, k : k \in kinds /\ k # "broadcast"
                   /\ (\A i, j \in kinds \ {"broadcast"} : i = j)
                     => ToldAs(kinds) = k
<1>1. ToldAs({}) = "nothing" /\ ToldAs({"broadcast"}) = "broadcast"
  BY DEF ToldAs
<1>2. ASSUME NEW kinds, NEW k \in kinds, k # "broadcast",
             \A i, j \in kinds \ {"broadcast"} : i = j
      PROVE  ToldAs(kinds) = k
  <2>1. ~ (kinds \subseteq {"broadcast"})
    BY <1>2
  <2>2. ToldAs(kinds) = CHOOSE i \in kinds : i # "broadcast"
    BY <2>1 DEF ToldAs
  <2>3. PICK i : i \in kinds /\ i # "broadcast" /\ ToldAs(kinds) = i
    BY <1>2, <2>2
  <2> QED
    BY <1>2, <2>3
<1> QED
  BY <1>1, <1>2

(* How a request was answered, by its row. *)
LEMMA AnswerValues ==
  ASSUME NEW row
  PROVE  /\ row.reply = "202" => AnswerAs(row) = "accepted"
         /\ row.reply = "none" /\ row.pc # "lost" => AnswerAs(row) = "open"
         /\ row.reply \in Replies \ {"none", "202"} => AnswerAs(row) = "failed"
         /\ row.reply = "none" /\ row.pc = "lost" => AnswerAs(row) = "failed"
         /\ AnswerAs(row) \in {"open", "accepted", "failed"}
BY DEF AnswerAs, Replies

(* Requests of which nothing new is told stay as they are, or fail.        *)
LEMMA FailOrStay ==
  ASSUME reports' = reports,
         \A e \in Requests :
           \/ AnswerAs(req'[e]) = AnswerAs(req[e])
           \/ AnswerAs(req[e]) = "open" /\ AnswerAs(req'[e]) = "failed"
  PROVE  Promise!ReportsNext
<1> DEFINE answer == [e \in Requests |-> Answer(e)]
           told == [e \in Requests |-> Told(e)]
<1>1. told' = told
  <2>1. \A e \in Requests : Told(e)' = Told(e)
    BY ToldAsKinds, ToldAsKindsNext
  <2> QED
    BY <2>1
<1>2. answer' = [e \in Requests |-> AnswerAs(req'[e])]
  BY ToldAsKindsNext
<1>3. answer = [e \in Requests |-> AnswerAs(req[e])]
  BY ToldAsKinds
<1>4. answer' \in [Requests -> {"open", "accepted", "failed"}]
  <2>1. \A e \in Requests : AnswerAs(req'[e]) \in {"open", "accepted", "failed"}
    BY AnswerValues
  <2> QED
    BY <1>2, <2>1
<1>5. \A e \in Requests :
        answer'[e] # answer[e] => answer[e] = "open" /\ answer'[e] = "failed"
  BY <1>2, <1>3
<1>6. Promise!FailSome
  BY <1>1, <1>4, <1>5 DEF Promise!FailSome
<1> QED
  BY <1>6 DEF Promise!ReportsNext

(* A handler's new row goes on, fails, or acknowledges its dispatch. *)
Goes(d, row) == row.pc \in Running /\ row.reply = req[d].reply
Fails(row) == row.pc = "done" /\ row.reply \in Replies \ {"none", "202"}
Acks(row) == row.pc = "done" /\ row.reply = "202"

SilentMove(d) ==
  /\ reports' = reports
  /\ req[d].pc \in Running
  /\ \E row : Step(d, row) /\ (Goes(d, row) \/ Fails(row))

TellingMove(d) ==
  /\ reports' = reports \cup {req[d].report}
  /\ req[d].pc = "sending"
  /\ \E row :
       /\ Step(d, row)
       /\ \/ Goes(d, row) /\ req[d].report.kind = "broadcast"
          \/ Fails(row)
          \/ Acks(row) /\ req[d].report.kind # "broadcast"

(* A running request is open. *)
LEMMA RunningIsOpen ==
  ASSUME Inv, NEW d \in Requests, req[d].pc \in Running
  PROVE  req[d].reply = "none" /\ AnswerAs(req[d]) = "open"
<1>1. req[d].reply = "none" /\ req[d].pc # "lost"
  BY DEF Inv, RequestInv, Answered, Running
<1> QED
  BY <1>1, AnswerValues

(* What a new row answers. *)
LEMMA MovedAnswers ==
  ASSUME Inv, NEW d \in Requests, req[d].pc \in Running,
         NEW row, Step(d, row)
  PROVE  /\ req'[d] = row
         /\ \A e \in Requests : e # d => req'[e] = req[e]
         /\ Goes(d, row) => AnswerAs(row) = "open"
         /\ Fails(row) => AnswerAs(row) = "failed"
         /\ Acks(row) => AnswerAs(row) = "accepted"
<1>1. req' = [req EXCEPT ![d] = row] /\ DOMAIN req = Requests
  BY DEF Step, Inv, TypeInv
<1>2. req[d].reply = "none"
  BY RunningIsOpen
<1>3. Goes(d, row) => row.reply = "none" /\ row.pc # "lost"
  BY <1>2 DEF Goes, Running
<1> QED
  BY <1>1, <1>3, AnswerValues DEF Fails, Acks

(* A silent move is a failure or a stutter of the promise. *)
LEMMA SilentImplements ==
  ASSUME Inv, NEW d \in Requests, SilentMove(d)
  PROVE  Promise!ReportsNext
<1>1. PICK row : Step(d, row) /\ (Goes(d, row) \/ Fails(row))
  BY DEF SilentMove
<1>2. AnswerAs(req[d]) = "open" /\ req[d].pc \in Running
  BY RunningIsOpen DEF SilentMove
<1>3. /\ AnswerAs(req'[d]) \in {"open", "failed"}
      /\ \A e \in Requests : e # d => req'[e] = req[e]
  BY <1>1, <1>2, MovedAnswers
<1>4. ASSUME NEW e \in Requests
      PROVE  \/ AnswerAs(req'[e]) = AnswerAs(req[e])
             \/ AnswerAs(req[e]) = "open" /\ AnswerAs(req'[e]) = "failed"
  BY <1>2, <1>3
<1> QED
  BY <1>4, FailOrStay DEF SilentMove

(* What is told of a request when its callback arrives. *)
LEMMA TellsKind ==
  ASSUME Inv, NEW d \in Requests, req[d].pc = "sending",
         reports' = reports \cup {req[d].report}
  PROVE  LET k == req[d].report.kind
         IN  /\ k \in Kinds
             /\ Told(d)' = k
             /\ k = "broadcast" => Told(d) = "nothing"
             /\ k \in Outcomes => Told(d) = "broadcast"
             /\ k = "aborted" => Told(d) \in {"nothing", "broadcast"}
             /\ \A e \in Requests : e # d => Told(e)' = Told(e)
<1> DEFINE k == req[d].report.kind
           old == KindsOf(reports, d)
<1>1. /\ OwnOp(d, req[d], BodyOf(d), landed) /\ ToldFits(req[d], old)
  BY DEF Inv, RequestInv
<1>2. k \in Kinds /\ req[d].report.request = d
  BY <1>1 DEF OwnOp, Report, Kinds
<1>3. KindsOf(reports', d) = old \cup {k}
  BY KindsTold
<1>4. /\ k = "broadcast" => old = {}
      /\ k \in Outcomes => old = {"broadcast"}
      /\ k = "aborted" => old \subseteq {"broadcast"}
  BY <1>1 DEF ToldFits
<1>5. Told(d) = ToldAs(old) /\ Told(d)' = ToldAs(old \cup {k})
  BY <1>3, ToldAsKinds, ToldAsKindsNext
<1>6. \A e \in Requests : e # d => Told(e)' = Told(e)
  <2> SUFFICES ASSUME NEW e \in Requests, e # d
               PROVE  Told(e)' = Told(e)
    OBVIOUS
  <2>1. KindsOf(reports', e) = KindsOf(reports, e)
    BY <1>2 DEF KindsOf
  <2> QED
    BY <2>1, ToldAsKinds, ToldAsKindsNext
<1> HIDE DEF k, old
<1>7. ToldAs(old \cup {k}) = k
  <2>1. CASE k = "broadcast"
    <3>1. old \cup {k} = {"broadcast"}
      BY <1>4, <2>1
    <3> QED
      BY <2>1, <3>1, ToldValues
  <2>2. CASE k # "broadcast"
    <3>1. old \subseteq {"broadcast"}
      BY <1>2, <1>4, <2>2 DEF Kinds, Outcomes
    <3>2. /\ k \in old \cup {k}
          /\ \A i, j \in (old \cup {k}) \ {"broadcast"} : i = j
      BY <3>1
    <3> QED
      BY <2>2, <3>2, ToldValues
  <2> QED
    BY <2>1, <2>2
<1>8. old \subseteq {"broadcast"} => ToldAs(old) \in {"nothing", "broadcast"}
  BY DEF ToldAs
<1> QED
  BY <1>2, <1>4, <1>5, <1>6, <1>7, <1>8, ToldValues DEF k

(* A callback that arrives is told, and answered as the promise allows. *)
LEMMA TellingImplements ==
  ASSUME Inv, NEW d \in Requests, TellingMove(d)
  PROVE  Promise!ReportsNext
<1> DEFINE k == req[d].report.kind
           told == [e \in Requests |-> Told(e)]
           answer == [e \in Requests |-> Answer(e)]
<1>1. PICK row :
        /\ Step(d, row)
        /\ \/ Goes(d, row) /\ k = "broadcast"
           \/ Fails(row)
           \/ Acks(row) /\ k # "broadcast"
  BY DEF TellingMove
<1>2. /\ req[d].pc \in Running /\ req[d].pc = "sending"
      /\ reports' = reports \cup {req[d].report}
  BY DEF TellingMove, Running
<1>3. /\ k \in Kinds /\ Told(d)' = k
      /\ k = "broadcast" => Told(d) = "nothing"
      /\ k \in Outcomes => Told(d) = "broadcast"
      /\ k = "aborted" => Told(d) \in {"nothing", "broadcast"}
      /\ \A e \in Requests : e # d => Told(e)' = Told(e)
  BY <1>2, TellsKind
<1>4. Answer(d) = "open"
  BY <1>2, RunningIsOpen, ToldAsKinds
<1>5. /\ Answer(d)' = AnswerAs(row)
      /\ \A e \in Requests : e # d => Answer(e)' = Answer(e)
  BY <1>1, <1>2, MovedAnswers, ToldAsKinds, ToldAsKindsNext
<1>6. \/ AnswerAs(row) = "open"
      \/ AnswerAs(row) = "failed"
      \/ AnswerAs(row) = "accepted" /\ k # "broadcast"
  BY <1>1, <1>2, MovedAnswers
<1> HIDE DEF k
<1>7. told' = [told EXCEPT ![d] = k]
  <2>1. told' = [e \in Requests |-> Told(e)']
    OBVIOUS
  <2> QED
    BY <1>3, <2>1
<1>8. \/ answer' = answer
      \/ answer' = [answer EXCEPT ![d] = "failed"]
      \/ k # "broadcast" /\ answer' = [answer EXCEPT ![d] = "accepted"]
  <2>1. answer' = [e \in Requests |-> Answer(e)']
    OBVIOUS
  <2>2. answer' = [answer EXCEPT ![d] = AnswerAs(row)]
    BY <1>5, <2>1
  <2>3. answer = [answer EXCEPT ![d] = "open"]
    BY <1>4
  <2> HIDE DEF answer
  <2> QED
    BY <1>6, <2>2, <2>3
<1>9. told[d] = Told(d) /\ answer[d] = "open"
  BY <1>4
<1>10. Promise!Tell(d, k)
  BY <1>3, <1>7, <1>9 DEF Promise!Tell, Kinds, Outcomes
<1>11. Promise!TellAndAnswer(d, k)
  BY <1>3, <1>8, <1>10
  DEF Promise!TellAndAnswer, Promise!Outcomes, Kinds
<1> QED
  BY <1>3, <1>11 DEF Promise!ReportsNext, Promise!Outcomes, Kinds

(* The rows of a handler that goes on and of one that fails. *)
LEMMA SilentRow ==
  ASSUME NEW d \in Requests, NEW row, req[d].pc \in Running,
         Step(d, row), reports' = reports, Goes(d, row) \/ Fails(row)
  PROVE  SilentMove(d)
BY DEF SilentMove

(* A refusal or a failure tells nothing. *)
LEMMA SilentFinish ==
  ASSUME Inv, NEW d \in Requests, NEW status \in Replies \ {"none", "202"},
         req[d].pc \in Running, Step(d, Finish(d, status)), reports' = reports
  PROVE  SilentMove(d)
<1>1. Finish(d, status).pc = "done" /\ Finish(d, status).reply = status
  BY FinishRow DEF Inv
<1>2. Fails(Finish(d, status))
  BY <1>1 DEF Fails
<1> QED
  BY <1>2, SilentRow

(* A report is prepared before it is sent. *)
LEMMA SilentSending ==
  ASSUME Inv, NEW d \in Requests, NEW kind \in Kinds,
         NEW reason \in Reasons, NEW spent \in Nat, req[d].pc \in Running,
         Step(d, Sending(d, kind, reason, spent)), reports' = reports
  PROVE  SilentMove(d)
<1> DEFINE row == Sending(d, kind, reason, spent)
<1>1. row.pc = "sending" /\ row.reply = req[d].reply
  BY SendingRow DEF Inv
<1> HIDE DEF row
<1>2. Goes(d, row)
  BY <1>1 DEF Goes, Running
<1> QED
  BY <1>2, SilentRow DEF row

(* So is an abort. *)
LEMMA SilentAbort ==
  ASSUME Inv, NEW d \in Requests, NEW reason \in Reasons,
         req[d].pc \in Running, Step(d, Abort(d, reason)), reports' = reports
  PROVE  SilentMove(d)
BY SilentSending DEF Abort, Kinds

(* Going on to build tells nothing. *)
LEMMA SilentBuilding ==
  ASSUME Inv, NEW d \in Requests, req[d].pc = "handling",
         Step(d, Building(d)), reports' = reports
  PROVE  SilentMove(d)
<1>1. Building(d).pc = "building" /\ Building(d).reply = req[d].reply
  BY BuildingRow DEF Inv
<1>2. Goes(d, Building(d)) /\ req[d].pc \in Running
  BY <1>1 DEF Goes, Running
<1> QED
  BY <1>2, SilentRow

(* The checks tell nothing; they refuse, abort or go on. *)
LEMMA HandledMoves ==
  ASSUME Inv, NEW d \in Requests,
         \/ RefuseCaller(d) \/ HandleTransferDispatch(d)
         \/ HandleSwapDispatch(d) \/ HandleMorphoDepositDispatch(d)
  PROVE  SilentMove(d)
<1>1. req[d].pc = "handling" /\ req[d].pc \in Running /\ reports' = reports
  BY DEF RefuseCaller, HandleTransferDispatch, HandleSwapDispatch,
         HandleMorphoDepositDispatch, Handles, Running
<1>2. \/ \E status \in {"400", "401", "422", "500"} : Step(d, Finish(d, status))
      \/ Step(d, Building(d))
      \/ \E reason \in {"clients", "envelope"} : Step(d, Abort(d, reason))
  <2>1. CASE RefuseCaller(d)
    BY <2>1 DEF RefuseCaller
  <2>2. CASE HandleTransferDispatch(d)
    BY <2>2 DEF HandleTransferDispatch, Checked
  <2>3. CASE HandleSwapDispatch(d)
    BY <2>3 DEF HandleSwapDispatch, Checked
  <2>4. CASE HandleMorphoDepositDispatch(d)
    BY <2>4 DEF HandleMorphoDepositDispatch, Checked
  <2> QED
    BY <2>1, <2>2, <2>3, <2>4
<1>3. /\ {"400", "401", "422", "500"} \subseteq Replies \ {"none", "202"}
      /\ {"clients", "envelope"} \subseteq Reasons
  BY DEF Replies, Reasons
<1> QED
  BY <1>1, <1>2, <1>3, SilentFinish, SilentBuilding, SilentAbort

(* Building and submitting tell nothing. *)
LEMMA SentMoves ==
  ASSUME Inv, NEW d \in Requests, BuildAndSignUserOp(d) \/ Submit(d)
  PROVE  SilentMove(d)
<1>1. CASE ReadNonce(d)
  <2> DEFINE row == [req[d] EXCEPT !.pc = "estimating", !.nonce = NextNonce]
  <2>1. Step(d, row) /\ reports' = reports /\ req[d].pc \in Running
    BY <1>1 DEF ReadNonce, Running
  <2>2. row.pc = "estimating" /\ row.reply = req[d].reply
    BY RowFields DEF Inv
  <2> HIDE DEF row
  <2>3. Goes(d, row)
    BY <2>2 DEF Goes, Running
  <2> QED
    BY <2>1, <2>3, SilentRow
<1>2. CASE SignUserOp(d)
  <2>1. PICK f \in Fees :
          Step(d, [req[d] EXCEPT !.pc = "signed",
                     !.op = [body |-> BodyOf(d), chain |-> server.configured,
                             nonce |-> req[d].nonce, fee |-> f]])
    BY <1>2, Zenon DEF SignUserOp
  <2> DEFINE op == [body |-> BodyOf(d), chain |-> server.configured,
                    nonce |-> req[d].nonce, fee |-> f]
             row == [req[d] EXCEPT !.pc = "signed", !.op = op]
  <2>2. Step(d, row) /\ reports' = reports /\ req[d].pc \in Running
    BY <1>2, <2>1 DEF SignUserOp, Running
  <2>3. row.pc = "signed" /\ row.reply = req[d].reply
    BY RowFields DEF Inv
  <2> HIDE DEF row
  <2>4. Goes(d, row)
    BY <2>3 DEF Goes, Running
  <2> QED
    BY <2>2, <2>4, SilentRow
<1>3. CASE BuildFails(d)
  BY <1>3, SilentAbort DEF BuildFails, Running, Reasons
<1>4. CASE Submit(d)
  <2>1. reports' = reports /\ req[d].pc \in Running
    BY <1>4, Zenon DEF Submit, Running
  <2>2. CASE \E h, o : Step(d, Broadcast(d, o))
    <3>1. PICK o : Step(d, Broadcast(d, o))
      BY <2>2, Zenon
    <3> DEFINE sent == Sending(d, "broadcast", "none", 0)
    <3>2. sent \in Row /\ sent.pc = "sending" /\ sent.reply = req[d].reply
      BY SendingRow DEF Inv, Kinds, Reasons
    <3>3. Broadcast(d, o) = [sent EXCEPT !.op = o, !.report.op = o]
      BY DEF Broadcast
    <3> HIDE DEF sent
    <3>4. /\ Broadcast(d, o).pc = "sending"
          /\ Broadcast(d, o).reply = req[d].reply
      BY <3>2, <3>3 DEF Row
    <3>5. Goes(d, Broadcast(d, o))
      BY <3>4 DEF Goes, Running
    <3> QED
      BY <2>1, <3>1, <3>5, SilentRow
  <2>3. CASE \E reason \in {"mismatch", "rejected"} : Step(d, Abort(d, reason))
    BY <2>1, <2>3, SilentAbort DEF Reasons
  <2> QED
    BY <1>4, <2>2, <2>3, Zenon DEF Submit, Broadcast
<1> QED
  BY <1>1, <1>2, <1>3, <1>4 DEF BuildAndSignUserOp

(* Nor does the end of the wait. *)
LEMMA EndedMoves ==
  ASSUME Inv, NEW d \in Requests,
         \/ ReportSuccess(d) \/ GiveUp(d)
         \/ \E reasons \in SUBSET ReceiptReasons : ReportRevert(d, reasons)
  PROVE  SilentMove(d)
<1>1. CASE ReportSuccess(d)
  <2>1. req[d].pc = "waiting" /\ reports' = reports
    BY <1>1 DEF ReportSuccess
  <2>2. BodyOf(d).amount \in Nat
    BY <2>1, BodyTyped DEF Inv, RequestInv, OwnOp
  <2> QED
    BY <1>1, <2>1, <2>2, SilentSending
    DEF ReportSuccess, Kinds, Reasons, Running
<1>2. CASE GiveUp(d)
  BY <1>2, SilentAbort DEF GiveUp, Reasons, Running
<1>3. ASSUME NEW reasons \in SUBSET ReceiptReasons, ReportRevert(d, reasons)
      PROVE  SilentMove(d)
  <2>1. PICK reason \in reasons : Step(d, Sending(d, "reverted", reason, 0))
    BY <1>3 DEF ReportRevert
  <2>2. /\ reason \in Reasons /\ req[d].pc \in Running /\ reports' = reports
        /\ "reverted" \in Kinds
    BY <1>3 DEF ReportRevert, ReceiptReasons, Reasons, Running, Kinds
  <2> QED
    BY <2>1, <2>2, SilentSending
<1> QED
  BY <1>1, <1>2, <1>3

(* A callback is told, or fails and is not. *)
LEMMA CallbackMoves ==
  ASSUME Inv, NEW d \in Requests, CallbackDelivered(d) \/ CallbackFails(d)
  PROVE  SilentMove(d) \/ TellingMove(d)
<1>1. req[d].pc = "sending" /\ req[d].pc \in Running
  BY DEF CallbackDelivered, CallbackFails, Running
<1>2. req[d].report.kind \in Kinds
  BY <1>1 DEF Inv, RequestInv, OwnOp, Report, Kinds
<1>3. /\ \A status \in Replies : /\ Finish(d, status).pc = "done"
                                 /\ Finish(d, status).reply = status
      /\ {"202", "502"} \subseteq Replies
  BY FinishRow DEF Inv, Replies
<1>4. Acks(Finish(d, "202")) /\ Fails(Finish(d, "502"))
  BY <1>3 DEF Acks, Fails
<1>5. CASE CallbackFails(d)
  BY <1>1, <1>4, <1>5 DEF CallbackFails, SilentMove, TellingMove
<1>6. CASE CallbackDelivered(d)
  <2>1. /\ Step(d, AfterReport(d))
        /\ reports' = reports \cup {req[d].report}
    BY <1>6 DEF CallbackDelivered
  <2>2. CASE req[d].report.kind = "broadcast"
    <3> DEFINE row == [req[d] EXCEPT !.pc = "waiting"]
    <3>1. Step(d, row)
      BY <2>1, <2>2 DEF AfterReport
    <3>2. row.pc = "waiting" /\ row.reply = req[d].reply
      BY RowFields DEF Inv
    <3> HIDE DEF row
    <3>3. Goes(d, row)
      BY <3>2 DEF Goes, Running
    <3> QED
      BY <1>1, <2>1, <2>2, <3>1, <3>3 DEF TellingMove
  <2>3. CASE req[d].report.kind # "broadcast"
    <3>1. AfterReport(d) \in {Finish(d, "202"), Finish(d, "502")}
      BY <1>2, <2>3 DEF AfterReport, Kinds
    <3> QED
      BY <1>1, <1>4, <2>1, <2>3, <3>1 DEF TellingMove
  <2> QED
    BY <2>2, <2>3
<1> QED
  BY <1>5, <1>6

(* Every step of a handler is a step of the promise. *)
LEMMA HandlerImplements ==
  ASSUME Inv, NEW d \in Requests, Handler(d)
  PROVE  Promise!ReportsNext
<1>1. ReceiptReasons \in SUBSET ReceiptReasons
      /\ {"reverted"} \in SUBSET ReceiptReasons
  BY DEF ReceiptReasons
<1>2. \/ RefuseCaller(d) \/ HandleTransferDispatch(d)
      \/ HandleSwapDispatch(d) \/ HandleMorphoDepositDispatch(d)
      \/ BuildAndSignUserOp(d) \/ Submit(d) \/ ReportSuccess(d)
      \/ ReportRevert(d, ReceiptReasons) \/ ReportRevert(d, {"reverted"})
      \/ GiveUp(d) \/ CallbackDelivered(d) \/ CallbackFails(d)
  BY Zenon DEF Handler, TransferSends, TransferEnds, SwapSends, SwapEnds,
     MorphoDepositSends, MorphoDepositEnds
<1>3. SilentMove(d) \/ TellingMove(d)
  BY <1>1, <1>2, HandledMoves, SentMoves, EndedMoves, CallbackMoves
<1> QED
  BY <1>3, SilentImplements, TellingImplements

(* A post opens nothing that was not open. *)
LEMMA PostImplements ==
  ASSUME Inv, NEW d \in Requests, Post(d)
  PROVE  Promise!ReportsNext
<1>1. PICK h \in Headers :
        req' = [req EXCEPT ![d].pc = "handling", ![d].header = h]
  BY Zenon DEF Post
<1>2. req[d].reply = "none" /\ req[d].pc = "unposted" /\ reports' = reports
  BY DEF Post, Inv, RequestInv, Answered
<1>3. /\ req'[d].reply = "none" /\ req'[d].pc = "handling"
      /\ \A e \in Requests : e # d => req'[e] = req[e]
  BY <1>1, <1>2, RowFields DEF Inv, TypeInv
<1>4. AnswerAs(req'[d]) = "open" /\ AnswerAs(req[d]) = "open"
  BY <1>2, <1>3, AnswerValues
<1>5. ASSUME NEW e \in Requests
      PROVE  AnswerAs(req'[e]) = AnswerAs(req[e])
  BY <1>3, <1>4
<1> QED
  BY <1>2, <1>5, FailOrStay

(* A restart fails what was open. *)
LEMMA RestartImplements ==
  ASSUME Inv, Restart
  PROVE  Promise!ReportsNext
<1>1. ASSUME NEW d \in Requests
      PROVE  \/ AnswerAs(req'[d]) = AnswerAs(req[d])
             \/ AnswerAs(req[d]) = "open" /\ AnswerAs(req'[d]) = "failed"
  <2>1. CASE req[d].pc \in Running
    <3>1. req'[d] = [req[d] EXCEPT !.pc = "lost"]
      BY <2>1 DEF Restart
    <3>2. AnswerAs(req[d]) = "open" /\ req[d].reply = "none"
      BY <2>1, RunningIsOpen
    <3>3. req'[d].pc = "lost" /\ req'[d].reply = "none"
      BY <3>1, <3>2, RowFields DEF Inv
    <3> QED
      BY <3>2, <3>3, AnswerValues
  <2>2. CASE req[d].pc \notin Running
    <3>1. req'[d] = req[d]
      BY <2>2 DEF Restart
    <3> QED
      BY <3>1
  <2> QED
    BY <2>1, <2>2
<1>2. reports' = reports
  BY DEF Restart
<1> QED
  BY <1>1, <1>2, FailOrStay

(* The adapter keeps its promise about every dispatch: broadcast first and *)
(* once, one outcome, and 202 only when the outcome has been told.         *)
THEOREM Implementation == Spec => ImplementsReports
<1>1. Init => Promise!ReportsInit
  <2> SUFFICES ASSUME Init, NEW d \in Requests
               PROVE  Told(d) = "nothing" /\ Answer(d) = "open"
    BY DEF Promise!ReportsInit
  <2>1. KindsOf(reports, d) = {} /\ req[d].reply = "none" /\ req[d].pc # "lost"
    BY DEF Init, KindsOf, Idle
  <2>2. Told(d) = ToldAs({}) /\ Answer(d) = AnswerAs(req[d])
    BY <2>1, ToldAsKinds
  <2>3. AnswerAs(req[d]) = "open"
    BY <2>1, AnswerValues
  <2> QED
    BY <2>2, <2>3, ToldValues
<1>2. Inv /\ [Next]_vars => [Promise!ReportsNext]_(Promise!reportVars)
  <2> SUFFICES ASSUME Inv, [Next]_vars
               PROVE  Promise!ReportsNext
    OBVIOUS
  <2>1. CASE reports' = reports /\ req' = req
    BY <2>1, FailOrStay
  <2>2. CASE \/ \E o \in mempool : Land(o)
             \/ StartServer \/ Tick \/ UNCHANGED vars
    BY <2>1, <2>2 DEF Land, StartServer, Tick, vars
  <2>3. CASE \E d \in Requests : Post(d) \/ Handler(d)
    BY <2>3, PostImplements, HandlerImplements
  <2>4. CASE Restart
    BY <2>4, RestartImplements
  <2> QED
    BY <2>2, <2>3, <2>4 DEF Next
<1> QED
  BY <1>1, <1>2, Invariance, PTL
  DEF Spec, ImplementsReports, Promise!ReportsSpec
=============================================================================
