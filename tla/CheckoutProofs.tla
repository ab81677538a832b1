---------------------------- MODULE CheckoutProofs ----------------------------
(***************************************************************************)
(* Proofs about Checkout, for any number of products, accounts, visits,    *)
(* taps and faults.                                                        *)
(*                                                                         *)
(* As long as no second tap races the first, the only activation of        *)
(* start() of a visit is the first one, and the invariant CheckoutInv      *)
(* follows it from the screen to the chain.  What is said of every         *)
(* activation, whether or not two of them race, has an invariant of its    *)
(* own, EveryRun, at the end.                                              *)
(***************************************************************************)
EXTENDS Checkout, FiniteSums, SequenceTheorems, TLAPS

\* The first activation of a visit.
tap == 1

Here == run[tap]

(***************************************************************************)
(* The inductive invariant.                                                *)
(***************************************************************************)
Before == {"allowance", "ask approve", "approve"}
Creating == {"ask create", "create"}
Funding == {"ask fund", "fund"}
Settling == {"snapshot", "finalize", "retry", "answer"}
Executing == Creating \cup Funding \cup Settling
Pcs == {"off", "preflight", "ended"} \cup Before \cup Executing

Statuses == {"pending", "creating", "funding", "success", "error", "canceled"}
Reasons == {"none", "no receipt", "cancelled", "canceled before funding",
            "rejected by the contract"}

Transactions ==
    [kind : {"approve", "create", "fund"}, run : {tap, NoRun}, order : Nat, visit : Nat,
     product : Products \cup {Nobody}, amount : Nat]

OrdersOfCheckout ==
    [product : Products, qty : Nat, status : {"Created", "Funded"}, visit : Nat]

\* No other activation than the first one has started.
RunTyped ==
    /\ run \in [Runs -> [pc : Pcs, at : Nat, order : Nat]]
    /\ \A r \in Runs \ {tap} : run[r] = Off

ScreenTyped ==
    /\ cart \in [Products -> Nat]
    /\ phase \in {"idle", "allowance", "executing"} \cup Terminal
    /\ status \in [Products -> Statuses] /\ failure \in [Products -> Reasons]
    /\ RunTyped

VisitTyped ==
    /\ wished \in [Products -> Nat] /\ token \in [Products -> Nat]
    /\ visits \in Nat /\ lost \in [Products \cup {Nobody} -> Nat]

ChainTyped ==
    /\ pool \in Seq(Transactions) /\ orders \in Seq(OrdersOfCheckout)
    /\ allowance \in Nat /\ balance \in Nat

Typed == ScreenTyped /\ VisitTyped /\ ChainTyped

\* What is in the cart, or locked in a token, was put there by its owner.
CartSound ==
    /\ \A p \in Products : cart[p] <= wished[p] /\ token[p] <= MaxUnits
    /\ Sum(wished) <= MaxUnits
    /\ connected \in {Nobody, owner} /\ addedBy \subseteq {owner, Nobody}

\* The status of the n-th product while the orders are made.
StatusWhile(here, n, groups) ==
    IF GroupOrder[n] \notin groups \/ n > here.at THEN "pending"
    ELSE IF n < here.at THEN "success"
    ELSE IF here.pc \in Creating THEN "creating" ELSE "funding"

StatusAt(n) == StatusWhile(Here, n, Groups)

\* The screen is where the run is, and before the last screen the locked units are
\* still in the cart.
PhaseSound ==
    /\ Here.pc \in {"off", "preflight"} => phase = "idle"
    /\ Here.pc \in Before => phase = "allowance"
    /\ Here.pc \in Executing => phase = "executing"
    /\ Here.pc = "ended" => phase \in Terminal

StatusSound ==
    /\ Here.pc \in {"off", "preflight"} \cup Before =>
          \A p \in Products : status[p] = "pending"
    /\ Here.pc \in Executing =>
          /\ Here.at \in DOMAIN GroupOrder /\ Group(tap) \in Groups
          /\ \A n \in DOMAIN GroupOrder : status[GroupOrder[n]] = StatusAt(n)
    /\ \A p \in Products : status[p] = "success" => p \in Groups
    /\ Here.pc # "ended" => \A p \in Products : failure[p] = "none"

PageSound ==
    /\ ~PageOpen => Here.pc = "off"
    /\ PageOpen /\ Here.pc # "ended" => \A p \in Products : token[p] <= cart[p]

ScreenSound == PhaseSound /\ StatusSound /\ PageSound

\* A transaction of the run is the one it waits for.
Own(tx) ==
    /\ tx.kind = Here.pc /\ tx.visit = visits
    /\ tx.kind = "approve" => tx.amount = Total
    /\ tx.kind # "approve" => tx.product = Group(tap) /\ tx.amount = token[Group(tap)]
    /\ tx.kind = "fund" => tx.order = Here.order

\* A payment of the visit that no run waits for is one the buyer was told of.
Warned(tx) == PageOpen /\ tx.visit = visits => OpenEnded(tx.product)

TransactionSound(tx) ==
    /\ tx.visit <= visits
    /\ tx.kind # "approve" => tx.product \in Products
    /\ tx.kind = "fund" =>
          /\ tx.order \in DOMAIN orders
          /\ orders[tx.order].product = tx.product /\ orders[tx.order].qty = tx.amount
          /\ orders[tx.order].visit = tx.visit
          /\ PageOpen /\ tx.visit = visits => tx.amount = token[tx.product]
    /\ tx.run = tap => Own(tx)
    /\ tx.run = NoRun /\ tx.kind = "fund" => Warned(tx)

PoolSound ==
    /\ \A n \in DOMAIN pool : TransactionSound(pool[n])
    /\ \A m, n \in DOMAIN pool : pool[m].run = tap /\ pool[n].run = tap => m = n

\* The order that the run is at.
OrderSound ==
    /\ \A n \in DOMAIN orders : orders[n].visit <= visits
    /\ Here.pc \in Funding \cup Settling =>
          /\ Here.order \in DOMAIN orders
          /\ orders[Here.order].product = Group(tap) /\ orders[Here.order].visit = visits
          /\ orders[Here.order].qty = token[Group(tap)]
    /\ Here.pc \in Settling => orders[Here.order].status = "Funded"

PaidNow ==
    {p \in Products : status[p] = "success" \/ (Here.pc \in Settling /\ p = Group(tap))}

\* The chain has the one order of each group that the run has paid, and no other.
PaidOnce(p) == \E n \in FundedNow(p) : FundedNow(p) = {n} /\ orders[n].qty = token[p]

BooksSound ==
    PageOpen => \A p \in Products :
        \/ OpenEnded(p)
        \/ p \in PaidNow /\ PaidOnce(p)
        \/ p \notin PaidNow /\ FundedNow(p) = {}

\* At most one payment of p, of the locked quantity, made or under way.
OnePayment(p) ==
    /\ \A m, n \in StillPaying(p) : m = n
    /\ \A m, n \in FundedNow(p) : m = n
    /\ StillPaying(p) = {} \/ FundedNow(p) = {}
    /\ \A n \in FundedNow(p) : orders[n].qty = token[p]

OpenSound ==
    PageOpen => \A p \in Products : OpenEnded(p) => status[p] = "error" /\ OnePayment(p)

\* Units that are paid and leave the cart when the run ends.
NotYetOut(p) == IF PageOpen /\ Here.pc # "ended" /\ p \in PaidNow THEN token[p] ELSE 0

\* The orders that a payment which no run waits for may still pay.
Orphaned ==
    {pool[n].order : n \in {m \in DOMAIN pool : pool[m].run = NoRun /\ pool[m].kind = "fund"}}

Charged(p) ==
    {n \in DOMAIN orders :
        orders[n].product = p /\ (orders[n].status = "Funded" \/ n \in Orphaned)}

Quantities == [n \in DOMAIN orders |-> orders[n].qty]

\* The units of p that are paid, or may be by a payment that no run waits for.
Owing(p) == SumFunctionOnSet(Quantities, Charged(p))

ChargedSound ==
    \A p \in Products : Owing(p) + cart[p] <= wished[p] + NotYetOut(p) + lost[p]

Settled == [p \in Products |-> IF FundedNow(p) # {} THEN token[p] ELSE 0]

NothingLost == \A p \in DOMAIN lost : lost[p] = 0

AllowanceSound ==
    NothingLost =>
        /\ \A n \in DOMAIN pool : pool[n].run = tap \/ pool[n].kind = "create"
        /\ Here.pc \in Executing => allowance >= Total - Sum(Settled)

CheckoutInv ==
    /\ Typed /\ CartSound /\ ScreenSound /\ PoolSound /\ OrderSound
    /\ BooksSound /\ OpenSound /\ ChargedSound /\ AllowanceSound
-------------------------------------------------------------------------------
(***************************************************************************)
(* The constants.                                                          *)
(***************************************************************************)
LEMMA TapFacts == tap \in Runs /\ tap # NoRun /\ NoRun \notin Runs
BY CheckoutAssumption DEF Runs, NoRun, tap

LEMMA GroupFacts ==
  /\ \A n \in DOMAIN GroupOrder : GroupOrder[n] \in Products /\ n \in Nat
  /\ \A p \in Products : \E n \in DOMAIN GroupOrder : p = GroupOrder[n]
  /\ \A m, n \in DOMAIN GroupOrder : GroupOrder[m] = GroupOrder[n] => m = n
<1>1. GroupOrder \in Seq(Products)
  BY CheckoutAssumption
<1>2. DOMAIN GroupOrder = 1..Len(GroupOrder) /\ Len(GroupOrder) \in Nat
  BY <1>1
<1>3. QED
  BY <1>2, CheckoutAssumption DEF Products

LEMMA ProductsFinite == IsFiniteSet(Products)
<1>1. GroupOrder \in Seq(Products)
  BY CheckoutAssumption
<1>2. DOMAIN GroupOrder = 1..Len(GroupOrder) /\ Len(GroupOrder) \in Nat
  BY <1>1
<1>3. IsFiniteSet(DOMAIN GroupOrder)
  BY <1>2, FS_Interval
<1>4. GroupOrder \in Surjection(DOMAIN GroupOrder, Products)
  BY <1>1, <1>2 DEF Surjection, Products
<1>5. QED
  BY <1>3, <1>4, FS_Surjection

\* A sum over the products.
LEMMA SumOfUnits ==
  ASSUME NEW f \in [Products -> Nat]
  PROVE  Sum(f) \in Nat /\ \A p \in Products : f[p] <= Sum(f)
<1>1. Sum(f) \in Nat
  BY ProductsFinite, SumNat DEF Sum
<1>2. \A p \in Products : f[p] <= Sum(f)
  BY ProductsFinite, SumTerm DEF Sum
<1>3. QED
  BY <1>1, <1>2
-------------------------------------------------------------------------------
(***************************************************************************)
(* The moves of the screen: what a step of the run does to it.             *)
(***************************************************************************)
PageKept ==
    UNCHANGED <<token, visits, connected, owner, addedBy, wished>>

\* The run has not ended yet.
Running == PageOpen /\ Here.pc # "ended"

\* The units of the cart stay, but those that are paid leave it when the run ends.
CartFollows ==
    /\ \A p \in Products : cart'[p] \in {0, cart[p]}
    /\ Here'.pc # "ended" => cart' = cart
    /\ Here'.pc = "ended" => \A p \in Products : status'[p] = "success" => cart'[p] = 0

ScreenMove == PageKept /\ ScreenTyped' /\ ScreenSound' /\ CartFollows

\* The sellers shown as paid.
Paying(st) == {p \in Products : st[p] = "success"}

LEMMA RunOf ==
  ASSUME ScreenTyped, NEW here \in [pc : Pcs, at : Nat, order : Nat],
         run' = [run EXCEPT ![tap] = here]
  PROVE  Here' = here /\ RunTyped'
BY TapFacts DEF ScreenTyped, RunTyped, Here

LEMMA GotoIs ==
  ASSUME ScreenTyped, NEW pc \in Pcs, Goto(tap, pc)
  PROVE  /\ Here' = [pc |-> pc, at |-> Here.at, order |-> Here.order]
         /\ RunTyped'
         /\ Group(tap)' = Group(tap)
<1> DEFINE here == [run[tap] EXCEPT !.pc = pc]
<1>1. run[tap] \in [pc : Pcs, at : Nat, order : Nat]
  BY TapFacts DEF ScreenTyped, RunTyped
<1>2. here = [pc |-> pc, at |-> Here.at, order |-> Here.order]
  BY <1>1 DEF Here
<1>3. here \in [pc : Pcs, at : Nat, order : Nat]
  BY <1>1
<1>4. run' = [run EXCEPT ![tap] = here]
  BY DEF Goto
<1> HIDE DEF here
<1>5. Here' = here /\ RunTyped'
  BY <1>3, <1>4, RunOf
<1>6. QED
  BY <1>2, <1>5 DEF Group, Here

LEMMA EndedIs ==
  ASSUME ScreenTyped, run' = [run EXCEPT ![tap] = [Off EXCEPT !.pc = "ended"]]
  PROVE  /\ Here' = [pc |-> "ended", at |-> 0, order |-> 0]
         /\ RunTyped'
<1>1. [Off EXCEPT !.pc = "ended"] = [pc |-> "ended", at |-> 0, order |-> 0]
  BY DEF Off
<1>2. [pc |-> "ended", at |-> 0, order |-> 0] \in [pc : Pcs, at : Nat, order : Nat]
  BY DEF Pcs
<1>3. QED
  BY <1>1, <1>2, RunOf

\* The run ends with finalizePhase.
LEMMA EndMove ==
  ASSUME Typed, Running, PageKept,
         NEW st \in [Products -> Statuses], \A p \in Products : st[p] = "success" => p \in Groups,
         End(tap, st), failure' \in [Products -> Reasons]
  PROVE  ScreenMove /\ Here'.pc = "ended" /\ status' = st
<1>0. ScreenTyped /\ VisitTyped
  BY DEF Typed
<1>1. status' = st /\ phase' \in Terminal
  BY DEF End, FinalPhase, Terminal
<1>2. /\ Here' = [pc |-> "ended", at |-> 0, order |-> 0]
      /\ RunTyped'
  BY <1>0, EndedIs DEF End
<1>3. \A p \in Products : st[p] = "success" => p \in PaidFor(st)
  BY DEF PaidFor
<1>4. cart' = Without(cart, PaidFor(st))
  BY DEF End
<1>5. cart' \in [Products -> Nat] /\ \A p \in Products : cart'[p] \in {0, cart[p]}
  BY <1>0, <1>4 DEF Without, ScreenTyped
<1>6. \A p \in Products : st[p] = "success" => cart'[p] = 0
  BY <1>3, <1>4 DEF Without
<1>7. ScreenTyped'
  BY <1>1, <1>2, <1>5 DEF ScreenTyped
<1>8. Groups' = Groups /\ PageOpen'
  BY DEF Groups, PageKept, PageOpen, Running
<1>9. PhaseSound' /\ StatusSound' /\ PageSound'
  BY <1>1, <1>2, <1>8 DEF PhaseSound, StatusSound, PageSound, Before, Executing, Creating,
     Funding, Settling
<1>10. CartFollows
  BY <1>1, <1>2, <1>5, <1>6 DEF CartFollows
<1>11. QED
  BY <1>1, <1>2, <1>7, <1>9, <1>10 DEF ScreenMove, ScreenSound

\* The outer catch, before the first order.
LEMMA FailMove ==
  ASSUME Typed, ScreenSound, Running, PageKept, Fail(tap),
         Here.pc \in {"preflight"} \cup Before
  PROVE  ScreenMove /\ Here'.pc = "ended" /\ status' = status
<1>0. ScreenTyped
  BY DEF Typed
<1>1. /\ Here' = [pc |-> "ended", at |-> 0, order |-> 0]
      /\ RunTyped'
  BY <1>0, EndedIs DEF Fail
<1>2. phase' \in Terminal /\ status' = status /\ failure' = failure /\ cart' = cart
  BY DEF Fail, Terminal
<1>3. ScreenTyped'
  BY <1>0, <1>1, <1>2 DEF ScreenTyped
<1>4. \A p \in Products : status[p] # "success"
  BY DEF ScreenSound, StatusSound
<1>5. PageOpen'
  BY DEF PageKept, PageOpen, Running
<1>6. PhaseSound' /\ StatusSound' /\ PageSound'
  BY <1>1, <1>2, <1>4, <1>5 DEF PhaseSound, StatusSound, PageSound, Before, Executing,
     Creating, Funding, Settling
<1>7. CartFollows
  BY <1>1, <1>2, <1>4 DEF CartFollows
<1>8. QED
  BY <1>1, <1>2, <1>3, <1>6, <1>7 DEF ScreenMove, ScreenSound

\* The sellers before number i are paid, the others pending.
StatusUpTo(st, i) ==
    \A n \in DOMAIN GroupOrder :
        st[GroupOrder[n]] = IF GroupOrder[n] \in Groups /\ n < i THEN "success" ELSE "pending"

LEMMA StatusWhileFacts ==
  ASSUME NEW here, NEW groups, NEW n \in Nat, here.at \in Nat
  PROVE  /\ GroupOrder[n] \notin groups \/ n > here.at =>
               StatusWhile(here, n, groups) = "pending"
         /\ GroupOrder[n] \in groups /\ n < here.at =>
               StatusWhile(here, n, groups) = "success"
         /\ GroupOrder[n] \in groups /\ n = here.at =>
               StatusWhile(here, n, groups)
                 = IF here.pc \in Creating THEN "creating" ELSE "funding"
BY DEF StatusWhile

LEMMA StatusWhilePending ==
  ASSUME NEW here, NEW groups, NEW n \in Nat, here.at \in Nat,
         GroupOrder[n] \notin groups \/ n > here.at
  PROVE  StatusWhile(here, n, groups) = "pending"
BY StatusWhileFacts

LEMMA StatusWhilePaid ==
  ASSUME NEW here, NEW groups, NEW n \in Nat, here.at \in Nat,
         GroupOrder[n] \in groups, n < here.at
  PROVE  StatusWhile(here, n, groups) = "success"
BY StatusWhileFacts

LEMMA StatusWhileFunding ==
  ASSUME NEW here, NEW groups, NEW n \in Nat, n = here.at, GroupOrder[n] \in groups,
         here.pc = "ask fund"
  PROVE  StatusWhile(here, n, groups) = "funding"
<1>1. ~(n > n) /\ ~(n < n)
  BY ONLY n \in Nat
<1>2. here.pc \notin Creating
  BY DEF Creating
<1>3. QED
  BY <1>1, <1>2, Zenon DEF StatusWhile

\* The loop goes on with the first seller from number i on, or ends.
LEMMA SellerMove ==
  ASSUME Typed, ScreenSound, Running, PageKept,
         NEW i \in Nat, NEW st \in [Products -> Statuses], StatusUpTo(st, i),
         i = 1 \/ phase = "executing", Seller(tap, i, st), UNCHANGED failure
  PROVE  /\ ScreenMove /\ Here'.pc \in {"ask create", "ended"}
         /\ Paying(status') = Paying(st)
<1>0. ScreenTyped /\ VisitTyped
  BY DEF Typed
<1>1. \A p \in Products : st[p] = "success" => p \in Groups
  BY GroupFacts DEF StatusUpTo
<1>2. failure' \in [Products -> Reasons]
  BY <1>0 DEF ScreenTyped
<1>3. CASE GroupsFrom(i) = {}
  <2>1. End(tap, st)
    BY <1>3 DEF Seller
  <2>2. QED
    BY <1>1, <1>2, <2>1, EndMove
<1>4. CASE GroupsFrom(i) # {} /\ cancelled
  <2> DEFINE ct == RemainingCanceled(st, i)
  <2>1. End(tap, ct)
    BY <1>4 DEF Seller
  <2>2. ct \in [Products -> Statuses] /\ Paying(ct) = Paying(st)
    BY DEF RemainingCanceled, Statuses, Paying
  <2>3. \A p \in Products : ct[p] = "success" => p \in Groups
    BY <1>1, <2>2 DEF Paying
  <2> HIDE DEF ct
  <2>4. QED
    BY <1>2, <2>1, <2>2, <2>3, EndMove
<1>5. CASE GroupsFrom(i) # {} /\ ~cancelled
  <2>1. PICK n \in GroupsFrom(i) :
            /\ \A m \in GroupsFrom(i) : n <= m
            /\ phase' = "executing"
            /\ status' = [st EXCEPT ![GroupOrder[n]] = "creating"]
            /\ run' = [run EXCEPT ![tap] = [pc |-> "ask create", at |-> n, order |-> 0]]
            /\ UNCHANGED <<cart, snapshot>>
    BY <1>5 DEF Seller
  <2>2. n \in DOMAIN GroupOrder /\ n \in Nat /\ i <= n /\ GroupOrder[n] \in Groups
    BY GroupFacts DEF GroupsFrom
  <2>3. [pc |-> "ask create", at |-> n, order |-> 0] \in [pc : Pcs, at : Nat, order : Nat]
    BY <2>2 DEF Pcs, Executing, Creating
  <2>4. /\ Here' = [pc |-> "ask create", at |-> n, order |-> 0]
        /\ RunTyped'
    BY <1>0, <2>1, <2>3, RunOf
  <2>5. status' \in [Products -> Statuses]
    BY <2>1 DEF Statuses
  <2>15. Here'.pc = "ask create" /\ Here'.at = n
    BY <2>4
  <2>16. Group(tap)' = GroupOrder[n]
    BY <2>15 DEF Group, Here
  <2>6. ScreenTyped'
    BY <1>0, <2>1, <2>4, <2>5 DEF ScreenTyped
  <2>7. Groups' = Groups /\ PageOpen' /\ token' = token
    BY DEF Groups, PageKept, PageOpen, Running
  <2>8. st[GroupOrder[n]] = "pending"
    BY <2>2 DEF StatusUpTo
  <2>9. ASSUME NEW m \in DOMAIN GroupOrder
        PROVE  status'[GroupOrder[m]] = StatusAt(m)'
    <3>0. StatusAt(m)' = StatusWhile(Here', m, Groups)
      BY <2>7 DEF StatusAt
    <3>1. GroupOrder[m] \in Products /\ GroupOrder[n] \in Products /\ m \in Nat
      BY <2>2, GroupFacts
    <3>2. CASE m = n
      <4>1. status'[GroupOrder[m]] = "creating"
        BY <2>1, <3>1, <3>2
      <4>2. StatusWhile(Here', m, Groups) = "creating"
        BY <2>2, <2>15, <3>2, StatusWhileFacts DEF Creating
      <4>3. QED
        BY <3>0, <4>1, <4>2
    <3>3. CASE m # n
      <4>1. status'[GroupOrder[m]] = st[GroupOrder[m]]
        BY <2>1, <2>2, <3>1, <3>3, GroupFacts
      <4>2. ASSUME GroupOrder[m] \in Groups, m < n
            PROVE  m < i
        <5>1. m \in GroupsFrom(i) => n <= m
          BY <2>1
        <5>2. m \notin GroupsFrom(i)
          BY <2>2, <3>1, <4>2, <5>1
        <5>3. QED
          BY <3>1, <4>2, <5>2 DEF GroupsFrom
      <4>3. st[GroupOrder[m]] = IF GroupOrder[m] \in Groups /\ m < i THEN "success" ELSE "pending"
        BY DEF StatusUpTo
      <4>4. /\ GroupOrder[m] \notin Groups \/ m > n =>
                     StatusWhile(Here', m, Groups) = "pending"
            /\ GroupOrder[m] \in Groups /\ m < n =>
                     StatusWhile(Here', m, Groups) = "success"
        BY <2>2, <2>15, <3>1, StatusWhileFacts
      <4>5. QED
        BY <2>2, <3>0, <3>1, <3>3, <4>1, <4>2, <4>3, <4>4
    <3>4. QED
      BY <3>2, <3>3
  <2>10. Paying(status') = Paying(st)
    BY <2>1, <2>8 DEF Paying
  <2>11. StatusSound'
    <3>1. Here'.pc = "ask create" /\ Here'.at = n /\ Group(tap)' = GroupOrder[n]
      BY <2>15, <2>16
    <3>2. \A p \in Products : status'[p] = "success" => p \in Groups'
      BY <1>1, <2>7, <2>10 DEF Paying
    <3>3. \A p \in Products : failure'[p] = "none"
      BY DEF ScreenSound, StatusSound, Running
    <3>4. QED
      BY <2>2, <2>7, <2>9, <3>1, <3>2, <3>3 DEF StatusSound, Before
  <2>12. PhaseSound' /\ PageSound'
    BY <2>1, <2>4, <2>7 DEF PhaseSound, PageSound, Before, ScreenSound, Running
  <2>13. CartFollows
    BY <1>0, <2>1, <2>4 DEF CartFollows, ScreenTyped
  <2>14. QED
    BY <2>4, <2>6, <2>10, <2>11, <2>12, <2>13 DEF ScreenMove, ScreenSound
<1>6. QED
  BY <1>3, <1>4, <1>5

\* Where the run is at while the orders are made.
LEMMA AtFacts ==
  ASSUME Typed, ScreenSound, Here.pc \in Executing
  PROVE  /\ Here.at \in DOMAIN GroupOrder /\ Here.at \in Nat
         /\ Group(tap) = GroupOrder[Here.at]
         /\ Group(tap) \in Groups /\ Group(tap) \in Products
         /\ status[Group(tap)] = IF Here.pc \in Creating THEN "creating" ELSE "funding"
         /\ StatusUpTo([status EXCEPT ![Group(tap)] = "success"], Here.at + 1)
<1>0. status \in [Products -> Statuses]
  BY DEF Typed, ScreenTyped
<1>1. /\ Here.at \in DOMAIN GroupOrder /\ Group(tap) \in Groups
      /\ \A n \in DOMAIN GroupOrder : status[GroupOrder[n]] = StatusAt(n)
  BY DEF ScreenSound, StatusSound
<1>2. Group(tap) = GroupOrder[Here.at]
  BY DEF Group, Here
<1>3. Here.at \in Nat /\ Group(tap) \in Products
  BY <1>1, <1>2, GroupFacts
<1>4. status[Group(tap)] = IF Here.pc \in Creating THEN "creating" ELSE "funding"
  BY <1>1, <1>2, <1>3 DEF StatusAt, StatusWhile
<1>5. ASSUME NEW n \in DOMAIN GroupOrder
      PROVE  [status EXCEPT ![Group(tap)] = "success"][GroupOrder[n]]
               = IF GroupOrder[n] \in Groups /\ n < Here.at + 1 THEN "success" ELSE "pending"
  <2>1. n \in Nat /\ GroupOrder[n] \in Products /\ (n # Here.at => GroupOrder[n] # Group(tap))
    BY <1>1, <1>2, GroupFacts
  <2>2. CASE n = Here.at
    BY <1>0, <1>1, <1>2, <1>3, <2>1, <2>2
  <2>3. CASE n # Here.at
    <3>1. status[GroupOrder[n]] = StatusAt(n)
      BY <1>1
    <3>2. QED
      BY <1>0, <1>3, <2>1, <2>3, <3>1 DEF StatusAt, StatusWhile
  <2>4. QED
    BY <2>2, <2>3
<1>6. QED
  BY <1>1, <1>2, <1>3, <1>4, <1>5 DEF StatusUpTo

\* The inner catch: the seller is in error, those after it are canceled.
LEMMA SellerFailsMove ==
  ASSUME Typed, ScreenSound, Running, PageKept,
         NEW why \in Reasons, Here.pc \in Creating \cup Funding, SellerFails(tap, why)
  PROVE  /\ ScreenMove /\ Here'.pc = "ended" /\ Paying(status') = Paying(status)
         /\ failure' = [failure EXCEPT ![Group(tap)] = why] /\ status'[Group(tap)] = "error"
<1> DEFINE st == [status EXCEPT ![Group(tap)] = "error"]
           ct == RemainingCanceled(st, run[tap].at + 1)
<1>0. ScreenTyped
  BY DEF Typed
<1>1. /\ Group(tap) \in Products
      /\ status[Group(tap)] = IF Here.pc \in Creating THEN "creating" ELSE "funding"
  BY AtFacts DEF Executing
<1>2. st \in [Products -> Statuses] /\ Paying(st) = Paying(status)
  BY <1>0, <1>1 DEF ScreenTyped, Statuses, Paying
<1> HIDE DEF st
<1>3. ct \in [Products -> Statuses] /\ Paying(ct) = Paying(st)
  BY <1>2 DEF RemainingCanceled, Statuses, Paying
<1>4. \A p \in Products : ct[p] = "success" => p \in Groups
  BY <1>2, <1>3 DEF Paying, ScreenSound, StatusSound
<1>5. End(tap, ct) /\ failure' = [failure EXCEPT ![Group(tap)] = why]
  BY DEF SellerFails, st
<1>6. failure' \in [Products -> Reasons]
  BY <1>0, <1>5 DEF ScreenTyped
<1>9. ct[Group(tap)] = "error"
  BY <1>0, <1>1 DEF RemainingCanceled, ScreenTyped, st
<1> HIDE DEF ct
<1>7. ScreenMove /\ Here'.pc = "ended" /\ status' = ct
  BY <1>3, <1>4, <1>5, <1>6, EndMove
<1>8. QED
  BY <1>2, <1>3, <1>5, <1>7, <1>9
-------------------------------------------------------------------------------
(***************************************************************************)
(* The steps of the run move the screen, and leave the sellers that are    *)
(* paid as they are.                                                       *)
(***************************************************************************)
Turn == Running /\ ScreenMove /\ PaidNow' = PaidNow

\* No wait for a receipt has failed.
Told == \A p \in Products : ~OpenEnded(p)

Idle == {"off", "preflight"} \cup Before

LEMMA RunningWhen ==
  ASSUME ScreenSound, Here.pc \notin {"off", "ended"}
  PROVE  Running
BY DEF ScreenSound, PageSound, Running

LEMMA PaidNowSame ==
  ASSUME Paying(status') = Paying(status),
         Here.pc \notin Settling, Here'.pc \notin Settling
  PROVE  PaidNow' = PaidNow
BY DEF PaidNow, Paying

LEMMA GotoMove ==
  ASSUME Typed, ScreenSound, Running, PageKept, NEW pc \in Pcs, Goto(tap, pc),
         UNCHANGED <<status, failure, cart>>,
         phase' \in {"idle", "allowance", "executing"},
         \/ Here.pc \in Idle /\ pc \in {"off", "preflight"} /\ phase' = "idle"
         \/ Here.pc \in Idle /\ pc \in Before /\ phase' = "allowance"
         \/ Here.pc \in Creating /\ pc \in Creating /\ UNCHANGED phase
         \/ Here.pc \in Funding \cup Settling /\ pc \in Funding \cup Settling /\ UNCHANGED phase
  PROVE  /\ ScreenMove /\ Here'.pc = pc /\ Here'.order = Here.order
         /\ Group(tap)' = Group(tap)
<1>0. ScreenTyped
  BY DEF Typed
<1>1. /\ Here' = [pc |-> pc, at |-> Here.at, order |-> Here.order]
      /\ RunTyped'
      /\ Group(tap)' = Group(tap)
  BY <1>0, GotoIs
<1>2. Here'.pc = pc /\ Here'.at = Here.at /\ Here'.order = Here.order
  BY <1>1
<1>3. ScreenTyped'
  BY <1>0, <1>1 DEF ScreenTyped
<1>4. Groups' = Groups /\ PageOpen' /\ token' = token
  BY DEF Groups, PageKept, PageOpen, Running
<1>5. PhaseSound'
  BY <1>2 DEF PhaseSound, ScreenSound, Idle, Before, Executing, Creating, Funding, Settling
<1>6. PageSound'
  BY <1>2, <1>4 DEF PageSound, ScreenSound, Running, Idle, Before, Creating, Funding, Settling
<1>7. ASSUME Here.pc \in Executing, NEW n \in DOMAIN GroupOrder
      PROVE  status'[GroupOrder[n]] = StatusAt(n)'
  <2>1. StatusAt(n)' = StatusWhile(Here', n, Groups)
    BY <1>4 DEF StatusAt
  <2>2. pc \in Creating <=> Here.pc \in Creating
    BY <1>7 DEF Idle, Before, Executing, Creating, Funding, Settling
  <2>3. StatusWhile(Here', n, Groups) = StatusWhile(Here, n, Groups)
    <3>1. n \in Nat /\ Here.at \in Nat
      BY <1>0, TapFacts, GroupFacts DEF ScreenTyped, RunTyped, Here
    <3>2. CASE GroupOrder[n] \notin Groups \/ n > Here.at
      BY <1>2, <3>1, <3>2, StatusWhileFacts
    <3>3. CASE GroupOrder[n] \in Groups /\ n < Here.at
      BY <1>2, <3>1, <3>3, StatusWhileFacts
    <3>4. CASE GroupOrder[n] \in Groups /\ n = Here.at
      <4>1. /\ StatusWhile(Here', n, Groups) =
                  IF Here'.pc \in Creating THEN "creating" ELSE "funding"
            /\ StatusWhile(Here, n, Groups) =
                  IF Here.pc \in Creating THEN "creating" ELSE "funding"
        BY <1>2, <3>1, <3>4, StatusWhileFacts
      <4>2. QED
        BY <1>2, <2>2, <4>1
    <3>5. QED
      BY <3>1, <3>2, <3>3, <3>4
  <2>4. QED
    BY <1>7, <2>1, <2>3 DEF StatusAt, ScreenSound, StatusSound
<1>8. StatusSound'
  <2>1. pc \in Executing => Here.pc \in Executing
    BY DEF Idle, Before, Executing, Creating, Funding, Settling
  <2>2. pc \in {"off", "preflight"} \cup Before => Here.pc \in {"off", "preflight"} \cup Before
    BY DEF Idle, Before, Executing, Creating, Funding, Settling
  <2>3. pc # "ended"
    BY DEF Before, Creating, Funding, Settling
  <2>4. /\ Here'.pc \in {"off", "preflight"} \cup Before =>
              \A p \in Products : status'[p] = "pending"
        /\ \A p \in Products : status'[p] = "success" => p \in Groups'
        /\ \A p \in Products : failure'[p] = "none"
    BY <1>2, <1>4, <2>2 DEF ScreenSound, StatusSound, Running
  <2>5. Here'.pc \in Executing =>
          /\ Here'.at \in DOMAIN GroupOrder /\ Group(tap)' \in Groups'
          /\ \A n \in DOMAIN GroupOrder : status'[GroupOrder[n]] = StatusAt(n)'
    BY <1>1, <1>2, <1>4, <1>7, <2>1 DEF ScreenSound, StatusSound
  <2>6. QED
    BY <2>4, <2>5 DEF StatusSound
<1>9. CartFollows
  BY <1>0, <1>2 DEF CartFollows, ScreenTyped, Before, Creating, Funding, Settling
<1>10. QED
  BY <1>1, <1>2, <1>3, <1>5, <1>6, <1>8, <1>9 DEF ScreenMove, ScreenSound

LEMMA StartTurn ==
  ASSUME Typed, ScreenSound, Start(tap)
  PROVE  Turn /\ Here.pc = "off" /\ Here'.pc = "preflight"
<1>1. Here.pc = "off" /\ Running /\ PageKept /\ Goto(tap, "preflight")
  BY DEF Start, PayEnabled, Here, Running, PageKept, pageRest, cartVars
<1>2. UNCHANGED <<status, failure, cart, phase>> /\ phase = "idle"
  BY DEF Start, PayEnabled, cartVars
<1>3. ScreenMove /\ Here'.pc = "preflight"
  BY <1>1, <1>2, GotoMove DEF Idle, Pcs
<1>4. PaidNow' = PaidNow
  BY <1>1, <1>2, <1>3, PaidNowSame DEF Settling
<1>5. QED
  BY <1>1, <1>3, <1>4 DEF Turn

LEMMA PreflightTurn ==
  ASSUME Typed, ScreenSound, Preflight(tap)
  PROVE  Turn /\ Here.pc = "preflight" /\ Here'.pc \in {"allowance", "ended"}
<1>1. Here.pc = "preflight" /\ PageKept
  BY DEF Preflight, Here, PageKept, cartRest
<1>2. Running
  BY <1>1, RunningWhen
<1>3. CASE phase' = "allowance" /\ Goto(tap, "allowance") /\ UNCHANGED <<status, failure, cart>>
  <2>1. ScreenMove /\ Here'.pc = "allowance"
    BY <1>1, <1>2, <1>3, GotoMove DEF Idle, Pcs, Before
  <2>2. PaidNow' = PaidNow
    BY <1>1, <1>3, <2>1, PaidNowSame DEF Settling
  <2>3. QED
    BY <1>1, <1>2, <2>1, <2>2 DEF Turn
<1>4. CASE Fail(tap)
  <2>1. ScreenMove /\ Here'.pc = "ended" /\ status' = status
    BY <1>1, <1>2, <1>4, FailMove
  <2>2. PaidNow' = PaidNow
    BY <1>1, <2>1, PaidNowSame DEF Settling
  <2>3. QED
    BY <1>1, <1>2, <2>1, <2>2 DEF Turn
<1>5. QED
  BY <1>3, <1>4 DEF Preflight

LEMMA PendingUpTo ==
  ASSUME Typed, ScreenSound, Here.pc \in Idle
  PROVE  StatusUpTo(status, 1)
<1>1. \A n \in DOMAIN GroupOrder : GroupOrder[n] \in Products /\ n >= 1
  BY GroupFacts, CheckoutAssumption
<1>2. QED
  BY <1>1, GroupFacts DEF StatusUpTo, ScreenSound, StatusSound, Idle

LEMMA ReadAllowanceTurn ==
  ASSUME Typed, ScreenSound, ReadAllowance(tap)
  PROVE  /\ Turn /\ Here.pc = "allowance"
         /\ Here'.pc \in {"ask approve", "ask create", "ended"}
         /\ Here'.pc = "ask create" => allowance >= Total
<1>1. Here.pc = "allowance" /\ PageKept
  BY DEF ReadAllowance, Here, PageKept, cartRest, pageRest
<1>2. Running
  BY <1>1, RunningWhen
<1>3. status \in [Products -> Statuses] /\ failure \in [Products -> Reasons]
  BY DEF Typed, ScreenTyped
<1>4. CASE End(tap, RemainingCanceled(status, 1)) /\ UNCHANGED failure
  <2> DEFINE ct == RemainingCanceled(status, 1)
  <2>1. ct \in [Products -> Statuses] /\ Paying(ct) = Paying(status)
    BY <1>3 DEF RemainingCanceled, Statuses, Paying
  <2>2. \A p \in Products : ct[p] = "success" => p \in Groups
    BY <2>1 DEF Paying, ScreenSound, StatusSound
  <2>3. End(tap, ct)
    BY <1>4
  <2> HIDE DEF ct
  <2>4. ScreenMove /\ Here'.pc = "ended" /\ status' = ct
    BY <1>1, <1>2, <1>3, <1>4, <2>1, <2>2, <2>3, EndMove
  <2>5. PaidNow' = PaidNow
    BY <1>1, <2>1, <2>4, PaidNowSame DEF Settling
  <2>6. QED
    BY <1>1, <1>2, <2>4, <2>5 DEF Turn
<1>5. CASE Goto(tap, "ask approve") /\ UNCHANGED <<phase, status, failure, cart>>
  <2>1. phase = "allowance"
    BY <1>1 DEF ScreenSound, PhaseSound, Before
  <2>2. ScreenMove /\ Here'.pc = "ask approve"
    BY <1>1, <1>2, <1>5, <2>1, GotoMove DEF Idle, Pcs, Before
  <2>3. PaidNow' = PaidNow
    BY <1>1, <1>5, <2>2, PaidNowSame DEF Settling
  <2>4. QED
    BY <1>1, <1>2, <2>2, <2>3 DEF Turn
<1>6. CASE allowance >= Total /\ Seller(tap, 1, status) /\ UNCHANGED failure
  <2>1. StatusUpTo(status, 1)
    BY <1>1, PendingUpTo DEF Idle, Before
  <2>2. ScreenMove /\ Here'.pc \in {"ask create", "ended"} /\ Paying(status') = Paying(status)
    BY <1>1, <1>2, <1>3, <1>6, <2>1, SellerMove
  <2>3. PaidNow' = PaidNow
    BY <1>1, <2>2, PaidNowSame DEF Settling
  <2>4. QED
    BY <1>1, <1>2, <1>6, <2>2, <2>3 DEF Turn
<1>7. CASE Fail(tap)
  <2>1. ScreenMove /\ Here'.pc = "ended" /\ status' = status
    BY <1>1, <1>2, <1>7, FailMove DEF Before
  <2>2. PaidNow' = PaidNow
    BY <1>1, <2>1, PaidNowSame DEF Settling
  <2>3. QED
    BY <1>1, <1>2, <2>1, <2>2 DEF Turn
<1>8. QED
  BY <1>4, <1>5, <1>6, <1>7 DEF ReadAllowance

\* The requests after the payment of the order.
LEMMA SettleTurn ==
  ASSUME Typed, ScreenSound, Here.pc \in Settling, PageKept, NEW pc \in Settling,
         Goto(tap, pc), UNCHANGED <<phase, status, failure, cart>>
  PROVE  /\ Turn /\ Here'.pc = pc /\ Here'.order = Here.order /\ Group(tap)' = Group(tap)
<1>1. Running
  BY RunningWhen DEF Settling
<1>2. phase = "executing"
  BY DEF ScreenSound, PhaseSound, Executing
<1>3. /\ ScreenMove /\ Here'.pc = pc /\ Here'.order = Here.order
      /\ Group(tap)' = Group(tap)
  BY <1>1, <1>2, GotoMove DEF Pcs, Executing
<1>4. PaidNow' = PaidNow
  BY <1>3 DEF PaidNow
<1>5. QED
  BY <1>1, <1>3, <1>4 DEF Turn

LEMMA NextSellerTurn ==
  ASSUME Typed, ScreenSound, Here.pc \in Settling, PageKept, UNCHANGED failure,
         NextSeller(tap)
  PROVE  Turn /\ Here'.pc \in {"ask create", "ended"}
<1> DEFINE st == [status EXCEPT ![Group(tap)] = "success"]
<1>1. Running /\ phase = "executing" /\ Here.pc \in Executing
  BY RunningWhen DEF Settling, ScreenSound, PhaseSound, Executing
<1>2. status \in [Products -> Statuses]
  BY DEF Typed, ScreenTyped
<1>3. /\ Here.at + 1 \in Nat /\ st \in [Products -> Statuses] /\ StatusUpTo(st, Here.at + 1)
      /\ Group(tap) \in Products
  BY <1>1, <1>2, AtFacts DEF Statuses
<1>4. Paying(st) = PaidNow
  BY <1>2, <1>3 DEF Paying, PaidNow
<1>5. Seller(tap, Here.at + 1, st)
  BY DEF NextSeller, Here
<1> HIDE DEF st
<1>6. ScreenMove /\ Here'.pc \in {"ask create", "ended"} /\ Paying(status') = Paying(st)
  BY <1>1, <1>3, <1>5, SellerMove
<1>7. PaidNow' = Paying(status')
  BY <1>6 DEF PaidNow, Paying, Settling
<1>8. QED
  BY <1>1, <1>4, <1>6, <1>7 DEF Turn

LEMMA SnapshotTurn ==
  ASSUME Typed, ScreenSound, SnapshotAddress(tap)
  PROVE  /\ Turn /\ Here.pc = "snapshot" /\ Here'.pc = "finalize" /\ UNCHANGED failure
         /\ Here'.order = Here.order /\ Group(tap)' = Group(tap)
<1>1. /\ Here.pc = "snapshot" /\ PageKept /\ Goto(tap, "finalize")
      /\ UNCHANGED <<phase, status, failure, cart>>
  BY DEF SnapshotAddress, Here, PageKept, cartVars, pageRest
<1>2. QED
  BY <1>1, SettleTurn DEF Settling

\* finalize_cart is asked, asked again or has answered.
LEMMA FinalizeTurn ==
  ASSUME Typed, ScreenSound, Here.pc \in Settling, UNCHANGED finalizeRest,
         \/ \E pc \in Settling : Goto(tap, pc) /\ UNCHANGED <<phase, status, cart>>
         \/ NextSeller(tap)
  PROVE  /\ Turn /\ UNCHANGED failure /\ Here'.pc \in Settling \cup {"ask create", "ended"}
         /\ Here'.pc \in Settling => Here'.order = Here.order /\ Group(tap)' = Group(tap)
<1>1. PageKept /\ UNCHANGED failure
  BY DEF finalizeRest, PageKept, cartRest, pageRest
<1>2. CASE \E pc \in Settling : Goto(tap, pc) /\ UNCHANGED <<phase, status, cart>>
  BY <1>1, <1>2, SettleTurn
<1>3. CASE NextSeller(tap)
  BY <1>1, <1>3, NextSellerTurn DEF Settling
<1>4. QED
  BY <1>2, <1>3

LEMMA ConfirmTurn ==
  ASSUME Typed, ScreenSound, run[tap].pc \in Asking, Goto(tap, WaitFor[run[tap].pc]),
         UNCHANGED <<phase, status, failure, cart>>, UNCHANGED <<pageRest, cartRest>>
  PROVE  /\ Turn /\ Here'.order = Here.order /\ Group(tap)' = Group(tap)
         /\ \/ Here.pc = "ask approve" /\ Here'.pc = "approve"
            \/ Here.pc = "ask create" /\ Here'.pc = "create"
            \/ Here.pc = "ask fund" /\ Here'.pc = "fund"
<1>1. Here.pc \in Asking /\ PageKept /\ Goto(tap, WaitFor[Here.pc])
  BY DEF Here, PageKept, cartRest, pageRest
<1>2. Running
  BY <1>1, RunningWhen DEF Asking
<1>3. /\ Here.pc = "ask approve" => WaitFor[Here.pc] = "approve"
      /\ Here.pc = "ask create" => WaitFor[Here.pc] = "create"
      /\ Here.pc = "ask fund" => WaitFor[Here.pc] = "fund"
  BY DEF WaitFor, Asking
<1>4. /\ Here.pc = "ask approve" => phase = "allowance"
      /\ Here.pc \in {"ask create", "ask fund"} => phase = "executing"
  BY DEF ScreenSound, PhaseSound, Before, Executing, Creating, Funding
<1>5. /\ ScreenMove /\ Here'.pc = WaitFor[Here.pc] /\ Here'.order = Here.order
      /\ Group(tap)' = Group(tap)
  <2>1. CASE Here.pc = "ask approve"
    BY <1>1, <1>2, <1>3, <1>4, <2>1, GotoMove DEF Pcs, Idle, Before
  <2>2. CASE Here.pc = "ask create"
    BY <1>1, <1>2, <1>3, <1>4, <2>2, GotoMove DEF Pcs, Executing, Creating
  <2>3. CASE Here.pc = "ask fund"
    BY <1>1, <1>2, <1>3, <1>4, <2>3, GotoMove DEF Pcs, Executing, Funding
  <2>4. QED
    BY <1>1, <2>1, <2>2, <2>3 DEF Asking
<1>6. PaidNow' = PaidNow
  BY <1>1, <1>3, <1>5, PaidNowSame DEF Settling, Asking
<1>7. QED
  BY <1>1, <1>2, <1>3, <1>5, <1>6 DEF Turn, Asking

\* The run ends before the payment of the seller it is at.
LEMMA StopTurn ==
  ASSUME Typed, ScreenSound, PageKept, NEW why \in Reasons,
         \/ Here.pc \in Before /\ Fail(tap)
         \/ Here.pc \in Creating \cup Funding /\ SellerFails(tap, why)
  PROVE  /\ Turn /\ Here'.pc = "ended"
         /\ Here.pc \in Before => UNCHANGED failure
         /\ Here.pc \in Creating \cup Funding =>
               /\ failure' = [failure EXCEPT ![Group(tap)] = why]
               /\ status'[Group(tap)] = "error"
         /\ why # "no receipt" => Told'
<1>2. Running /\ Told /\ failure \in [Products -> Reasons]
  BY RunningWhen DEF Before, Creating, Funding, ScreenSound, StatusSound, Told, OpenEnded,
     Typed, ScreenTyped
<1>3. CASE Here.pc \in Before /\ Fail(tap)
  <2>1. ScreenMove /\ Here'.pc = "ended" /\ status' = status
    BY <1>2, <1>3, FailMove
  <2>2. PaidNow' = PaidNow
    BY <1>3, <2>1, PaidNowSame DEF Settling, Before
  <2>4. UNCHANGED failure
    BY <1>3 DEF Fail
  <2>3. QED
    BY <1>2, <1>3, <2>1, <2>2, <2>4 DEF Turn, Told, OpenEnded, Before, Creating, Funding
<1>4. CASE Here.pc \in Creating \cup Funding /\ SellerFails(tap, why)
  <2>1. /\ ScreenMove /\ Here'.pc = "ended" /\ Paying(status') = Paying(status)
        /\ failure' = [failure EXCEPT ![Group(tap)] = why]
        /\ status'[Group(tap)] = "error"
    BY <1>2, <1>4, SellerFailsMove
  <2>2. PaidNow' = PaidNow
    BY <1>4, <2>1, PaidNowSame DEF Settling, Creating, Funding
  <2>4. why # "no receipt" => Told'
    BY <1>2, <2>1 DEF Told, OpenEnded
  <2>3. QED
    BY <1>2, <1>4, <2>1, <2>2, <2>4 DEF Turn, Before, Creating, Funding
<1>5. QED
  BY <1>3, <1>4
-------------------------------------------------------------------------------
(***************************************************************************)
(* The books: what the invariant says of the chain, of the units in the    *)
(* cart, of the allowance and of the pool, over a turn of the screen.      *)
(***************************************************************************)
\* New orders are not paid yet, and no other order changes.
Grown ==
    /\ orders' \in Seq(OrdersOfCheckout)
    /\ DOMAIN orders \subseteq DOMAIN orders'
    /\ \A n \in DOMAIN orders : orders'[n] = orders[n]
    /\ \A n \in DOMAIN orders' \ DOMAIN orders :
          orders'[n].status = "Created" /\ orders'[n].visit <= visits

\* Orders keep what they are for, and stay paid.
OrdersKept ==
    /\ DOMAIN orders \subseteq DOMAIN orders'
    /\ \A n \in DOMAIN orders :
          /\ orders'[n].product = orders[n].product /\ orders'[n].qty = orders[n].qty
          /\ orders'[n].visit = orders[n].visit
          /\ orders[n].status = "Funded" => orders'[n].status = "Funded"

LEMMA GrownKept ==
  ASSUME Grown PROVE OrdersKept
BY DEF Grown, OrdersKept

LEMMA OrdersAre ==
  ASSUME ChainTyped
  PROVE  /\ IsFiniteSet(DOMAIN orders) /\ \A n \in DOMAIN orders : orders[n] \in OrdersOfCheckout
         /\ \A n \in DOMAIN pool : pool[n] \in Transactions
<1>1. orders \in Seq(OrdersOfCheckout) /\ pool \in Seq(Transactions)
  BY DEF ChainTyped
<1>2. DOMAIN orders = 1..Len(orders) /\ Len(orders) \in Nat
  BY <1>1
<1>3. IsFiniteSet(DOMAIN orders)
  BY <1>2, FS_Interval
<1>4. QED
  BY <1>1, <1>3

\* The units of a set of orders.
LEMMA UnitsOf ==
  ASSUME orders \in Seq(OrdersOfCheckout), NEW S \in SUBSET (DOMAIN orders)
  PROVE  /\ IsFiniteSet(S) /\ \A n \in S : Quantities[n] \in Nat
         /\ SumFunctionOnSet(Quantities, S) \in Nat
<1>1. DOMAIN orders = 1..Len(orders) /\ Len(orders) \in Nat
  OBVIOUS
<1>2. \A n \in DOMAIN orders : orders[n] \in OrdersOfCheckout
  OBVIOUS
<1>3. IsFiniteSet(DOMAIN orders)
  BY <1>1, FS_Interval
<1>4. IsFiniteSet(S)
  BY <1>3, FS_Subset
<1>5. \A n \in S : Quantities[n] \in Nat
  BY <1>2 DEF Quantities, OrdersOfCheckout
<1>6. QED
  BY <1>4, <1>5, SumNat

LEMMA OwingNat ==
  ASSUME ChainTyped, NEW p \in Products
  PROVE  Charged(p) \in SUBSET (DOMAIN orders) /\ Owing(p) \in Nat
<1>1. Charged(p) \in SUBSET (DOMAIN orders) /\ orders \in Seq(OrdersOfCheckout)
  BY DEF Charged, ChainTyped
<1>2. QED
  BY <1>1, UnitsOf DEF Owing

\* What is charged later was charged before, or is the order n.
LEMMA OwingMost ==
  ASSUME ChainTyped, orders' \in Seq(OrdersOfCheckout), OrdersKept, NEW p \in Products,
         NEW n \in DOMAIN orders, Charged(p)' \subseteq Charged(p) \cup {n}
  PROVE  /\ Owing(p)' \in Nat /\ Owing(p)' <= Owing(p) + orders[n].qty
         /\ Charged(p)' \subseteq Charged(p) => Owing(p)' <= Owing(p)
<1> DEFINE S == Charged(p)
           T == Charged(p)'
           U == T \ {n}
<1>1. orders \in Seq(OrdersOfCheckout) /\ S \in SUBSET (DOMAIN orders)
  BY OwingNat DEF ChainTyped
<1>2. T \in SUBSET (DOMAIN orders) /\ U \in SUBSET S
  BY <1>1
<1>3. /\ IsFiniteSet(S) /\ IsFiniteSet(T) /\ IsFiniteSet(U)
      /\ \A m \in DOMAIN orders : Quantities[m] \in Nat
      /\ SumFunctionOnSet(Quantities, S) \in Nat /\ SumFunctionOnSet(Quantities, T) \in Nat
      /\ SumFunctionOnSet(Quantities, U) \in Nat
  BY <1>1, <1>2, UnitsOf
<1>4. \A m \in DOMAIN orders : Quantities'[m] = Quantities[m]
  BY DEF Quantities, OrdersKept
<1>5. Owing(p) = SumFunctionOnSet(Quantities, S) /\ Owing(p)' = SumFunctionOnSet(Quantities', T)
  BY DEF Owing
<1>6. Quantities[n] = orders[n].qty
  BY DEF Quantities
<1> HIDE DEF S, T
<1>7. Owing(p)' = SumFunctionOnSet(Quantities, T)
  BY <1>2, <1>3, <1>4, <1>5, SumEqual
<1>8. SumFunctionOnSet(Quantities, U) <= SumFunctionOnSet(Quantities, S)
  BY <1>1, <1>2, <1>3, SumOfPart
<1>9. CASE n \in T
  <2>1. SumFunctionOnSet(Quantities, T) = Quantities[n] + SumFunctionOnSet(Quantities, U)
    BY <1>2, <1>3, <1>9, SumSplit
  <2>2. T \subseteq S => SumFunctionOnSet(Quantities, T) <= SumFunctionOnSet(Quantities, S)
    BY <1>1, <1>3, SumOfPart
  <2>3. Quantities[n] \in Nat
    BY <1>3
  <2> HIDE DEF U
  <2>4. QED
    BY <1>3, <1>5, <1>6, <1>7, <1>8, <2>1, <2>2, <2>3 DEF S, T
<1>10. CASE n \notin T
  <2>1. U = T
    BY <1>10
  <2>2. Quantities[n] \in Nat
    BY <1>3
  <2>3. SumFunctionOnSet(Quantities, T) <= SumFunctionOnSet(Quantities, S)
    BY <1>8, <2>1
  <2> HIDE DEF U
  <2>4. QED
    BY <1>3, <1>5, <1>6, <1>7, <2>2, <2>3
<1>11. QED
  BY <1>9, <1>10

LEMMA OwingLess ==
  ASSUME ChainTyped, orders' \in Seq(OrdersOfCheckout), OrdersKept, NEW p \in Products,
         Charged(p)' \subseteq Charged(p)
  PROVE  Owing(p)' \in Nat /\ Owing(p)' <= Owing(p)
<1>1. CASE DOMAIN orders = {}
  <2>1. Charged(p) = {} /\ Charged(p)' = {}
    BY <1>1 DEF Charged
  <2>2. QED
    BY <2>1, SumEmpty DEF Owing
<1>2. CASE DOMAIN orders # {}
  BY <1>2, OwingMost
<1>3. QED
  BY <1>1, <1>2

LEMMA SameOrders ==
  ASSUME ChainTyped, orders' = orders, \A n \in DOMAIN orders : orders[n].visit <= visits
  PROVE  Grown
BY DEF ChainTyped, Grown

LEMMA GrownBooks ==
  ASSUME ChainTyped, Grown, NEW p \in Products
  PROVE  visits' = visits => FundedNow(p)' = FundedNow(p)
BY DEF FundedNow, Grown

\* Every order that is charged for exists.
LEMMA OrphanedExist ==
  ASSUME PoolSound
  PROVE  Orphaned \subseteq DOMAIN orders
<1> SUFFICES ASSUME NEW n \in DOMAIN pool, pool[n].run = NoRun, pool[n].kind = "fund"
             PROVE  pool[n].order \in DOMAIN orders
  BY DEF Orphaned
<1>1. QED
  BY DEF PoolSound, TransactionSound

\* New orders are not charged for.
LEMMA GrownOwing ==
  ASSUME ChainTyped, PoolSound, Grown, Orphaned' \subseteq Orphaned, NEW p \in Products
  PROVE  Charged(p)' \subseteq Charged(p) /\ Owing(p)' \in Nat /\ Owing(p)' <= Owing(p)
<1>1. Charged(p)' \subseteq Charged(p)
  <2>1. Orphaned \subseteq DOMAIN orders
    BY OrphanedExist
  <2>2. QED
    BY <2>1 DEF Charged, Grown
<1>2. OrdersKept /\ orders' \in Seq(OrdersOfCheckout)
  BY GrownKept DEF Grown
<1>3. QED
  BY <1>1, <1>2, OwingLess

LEMMA TurnCart ==
  ASSUME Typed, CartSound, ScreenMove, lost' \in [Products \cup {Nobody} -> Nat]
  PROVE  CartSound' /\ VisitTyped'
<1>1. \A p \in Products : cart'[p] <= cart[p] /\ cart'[p] \in Nat /\ cart[p] \in Nat
  BY DEF Typed, ScreenTyped, ScreenMove, CartFollows
<1>2. \A p \in Products : wished[p] \in Nat
  BY DEF Typed, VisitTyped
<1>3. Sum(wished)' = Sum(wished)
  BY DEF ScreenMove, PageKept
<1>4. QED
  BY <1>1, <1>2, <1>3 DEF CartSound, Typed, VisitTyped, ScreenMove, PageKept

\* Where no wait for a receipt has failed, the payments of p are those of the run.
LEMMA NoOtherPayment ==
  ASSUME CheckoutInv, Running, NEW p \in Products
  PROVE  /\ ~OpenEnded(p)
         /\ \A n \in StillPaying(p) : pool[n].run = tap /\ Own(pool[n])
         /\ \A m, n \in StillPaying(p) : m = n
<1>0. ChainTyped /\ PoolSound /\ PageOpen
  BY DEF CheckoutInv, Typed, Running
<1>1. ~OpenEnded(p)
  BY DEF CheckoutInv, ScreenSound, StatusSound, Running, OpenEnded
<1>2. ASSUME NEW n \in StillPaying(p) PROVE pool[n].run = tap /\ Own(pool[n])
  <2>1. /\ n \in DOMAIN pool /\ pool[n].visit = visits /\ pool[n].kind = "fund"
        /\ pool[n].product = p /\ pool[n] \in Transactions /\ TransactionSound(pool[n])
    BY <1>0, OrdersAre DEF StillPaying, PoolSound
  <2>2. pool[n].run # NoRun
    BY <1>0, <1>1, <2>1 DEF TransactionSound, Warned
  <2>3. QED
    BY <2>1, <2>2 DEF TransactionSound, Transactions
<1>3. QED
  BY <1>0, <1>1, <1>2 DEF PoolSound, StillPaying

\* The units that leave the cart when the run ends are those that are paid.
LEMMA TurnBooks ==
  ASSUME CheckoutInv, Turn, Grown, lost' \in [Products \cup {Nobody} -> Nat],
         \A p \in Products : Owing(p)' \in Nat /\ Owing(p)' - lost'[p] <= Owing(p) - lost[p]
  PROVE  BooksSound' /\ ChargedSound'
<1>0. /\ Typed /\ ScreenTyped /\ VisitTyped /\ ChainTyped /\ Running /\ PageOpen
      /\ token' = token /\ visits' = visits /\ wished' = wished
  BY DEF CheckoutInv, Typed, Turn, ScreenMove, PageKept, Running
<1>1. PageOpen' /\ PaidNow' = PaidNow /\ CartFollows /\ StatusSound'
  BY <1>0 DEF PageOpen, Turn, ScreenMove, ScreenSound
<1>2. \A p \in Products : ~OpenEnded(p)
  BY <1>0, NoOtherPayment
<1>3. ASSUME NEW p \in Products
      PROVE  \/ p \in PaidNow' /\ PaidOnce(p)'
             \/ p \notin PaidNow' /\ FundedNow(p)' = {}
  <2>1. FundedNow(p)' = FundedNow(p)
    BY <1>0, GrownBooks
  <2>2. CASE p \in PaidNow
    <3>1. PICK n \in FundedNow(p) : FundedNow(p) = {n} /\ orders[n].qty = token[p]
      BY <1>0, <1>2, <2>2 DEF CheckoutInv, BooksSound, PaidOnce
    <3>2. orders'[n] = orders[n]
      BY DEF Grown, FundedNow
    <3>3. PaidOnce(p)'
      BY <1>0, <2>1, <3>1, <3>2 DEF PaidOnce
    <3>4. QED
      BY <1>1, <2>2, <3>3
  <2>3. CASE p \notin PaidNow
    BY <1>0, <1>1, <1>2, <2>1, <2>3 DEF CheckoutInv, BooksSound
  <2>4. QED
    BY <2>2, <2>3
<1>4. BooksSound'
  BY <1>3 DEF BooksSound
<1>5. ASSUME NEW p \in Products
      PROVE  Owing(p)' + cart'[p] <= wished[p] + NotYetOut(p)' + lost'[p]
  <2>1. /\ Owing(p) \in Nat /\ Owing(p)' \in Nat /\ lost[p] \in Nat /\ lost'[p] \in Nat
        /\ Owing(p)' - lost'[p] <= Owing(p) - lost[p]
        /\ cart[p] \in Nat /\ wished[p] \in Nat /\ token[p] \in Nat
    BY <1>0, OwingNat DEF ScreenTyped, VisitTyped
  <2>2. Owing(p) + cart[p] <= wished[p] + NotYetOut(p) + lost[p]
    BY DEF CheckoutInv, ChargedSound
  <2>3. NotYetOut(p) = IF p \in PaidNow THEN token[p] ELSE 0
    BY <1>0 DEF NotYetOut, Running
  <2>4. NotYetOut(p)' = IF Here'.pc # "ended" /\ p \in PaidNow THEN token[p] ELSE 0
    BY <1>0, <1>1 DEF NotYetOut
  <2>5. CASE Here'.pc # "ended"
    BY <1>1, <2>1, <2>2, <2>3, <2>4, <2>5 DEF CartFollows
  <2>6. CASE Here'.pc = "ended" /\ p \in PaidNow
    <3>1. status'[p] = "success"
      BY <1>1, <2>6 DEF PaidNow, Settling
    <3>2. cart'[p] = 0
      BY <1>1, <2>6, <3>1 DEF CartFollows
    <3>3. token[p] <= cart[p]
      BY <1>0 DEF CheckoutInv, ScreenSound, PageSound, Running
    <3>4. QED
      BY <2>1, <2>2, <2>3, <2>4, <2>6, <3>2, <3>3
  <2>7. CASE Here'.pc = "ended" /\ p \notin PaidNow
    <3>1. cart'[p] \in {0, cart[p]}
      BY <1>1 DEF CartFollows
    <3>2. QED
      BY <2>1, <2>2, <2>3, <2>4, <2>7, <3>1
  <2>8. QED
    BY <2>5, <2>6, <2>7
<1>6. ChargedSound'
  BY <1>0, <1>5 DEF ChargedSound
<1>7. QED
  BY <1>4, <1>6

LEMMA ToldOpen ==
  ASSUME Told' PROVE OpenSound'
BY DEF Told, OpenSound

LEMMA SameTold ==
  ASSUME CheckoutInv, Running, UNCHANGED failure
  PROVE  Told'
BY NoOtherPayment DEF Told, OpenEnded

LEMMA SettledNat ==
  ASSUME Typed
  PROVE  /\ Settled \in [Products -> Nat] /\ Sum(Settled) \in Nat
         /\ Total \in Nat /\ allowance \in Nat
<1>1. Settled \in [Products -> Nat] /\ token \in [Products -> Nat]
  BY DEF Settled, Typed, VisitTyped
<1>2. QED
  BY <1>1, SumOfUnits DEF Total, Typed, ChainTyped

LEMMA TurnAllowance ==
  ASSUME CheckoutInv, Turn, Grown, allowance' \in Nat, UNCHANGED lost,
         NothingLost => \A n \in DOMAIN pool' : pool'[n].run = tap \/ pool'[n].kind = "create",
         Here'.pc \in Executing =>
             (Here.pc \in Executing /\ allowance' = allowance) \/ allowance' >= Total
  PROVE  AllowanceSound'
<1>0. Typed /\ ChainTyped /\ token' = token /\ visits' = visits /\ (NothingLost' => NothingLost)
  BY DEF CheckoutInv, Typed, Turn, ScreenMove, PageKept, NothingLost
<1>1. \A p \in Products : FundedNow(p)' = FundedNow(p)
  BY <1>0, GrownBooks
<1>2. Settled' = Settled
  BY <1>0, <1>1 DEF Settled
<1>3. Sum(Settled)' = Sum(Settled) /\ Total' = Total
  BY <1>0, <1>2 DEF Sum, Total
<1>4. CASE Here.pc \in Executing /\ allowance' = allowance
  BY <1>0, <1>3, <1>4 DEF CheckoutInv, AllowanceSound
<1>5. CASE allowance' >= Total
  BY <1>0, <1>3, <1>5, SettledNat DEF AllowanceSound
<1>6. CASE Here'.pc \notin Executing
  BY <1>0, <1>6 DEF AllowanceSound
<1>7. QED
  BY <1>4, <1>5, <1>6

LEMMA TurnOrder ==
  ASSUME CheckoutInv, Turn, Grown,
         Here'.pc \in Funding \cup Settling =>
             /\ Here.pc \in Funding \cup Settling
             /\ Here'.pc \in Settling => Here.pc \in Settling
             /\ Here'.order = Here.order /\ Group(tap)' = Group(tap)
  PROVE  OrderSound'
<1>0. ChainTyped /\ token' = token /\ visits' = visits /\ OrderSound
  BY DEF CheckoutInv, Typed, Turn, ScreenMove, PageKept
<1>1. \A n \in DOMAIN orders' : orders'[n].visit <= visits
  BY <1>0 DEF OrderSound, Grown
<1>2. ASSUME Here'.pc \in Funding \cup Settling
      PROVE  /\ Here'.order \in DOMAIN orders'
             /\ orders'[Here'.order].product = Group(tap)'
             /\ orders'[Here'.order].visit = visits
             /\ orders'[Here'.order].qty = token[Group(tap)']
             /\ Here'.pc \in Settling => orders'[Here'.order].status = "Funded"
  <2>1. /\ Here.order \in DOMAIN orders
        /\ orders[Here.order].product = Group(tap) /\ orders[Here.order].visit = visits
        /\ orders[Here.order].qty = token[Group(tap)]
        /\ Here'.pc \in Settling => orders[Here.order].status = "Funded"
    BY <1>0, <1>2 DEF OrderSound
  <2>2. Here.order \in DOMAIN orders' /\ orders'[Here.order] = orders[Here.order]
    BY <2>1 DEF Grown
  <2>3. QED
    BY <1>2, <2>1, <2>2
<1>3. QED
  BY <1>0, <1>1, <1>2 DEF OrderSound

\* A transaction that the run does not wait for.
LEMMA OthersTransaction ==
  ASSUME CheckoutInv, Running, PageKept, OrdersKept,
         NEW tx \in Transactions, tx.run # tap, TransactionSound(tx)
  PROVE  TransactionSound(tx)'
<1>0. token' = token /\ visits' = visits /\ PageOpen /\ PageOpen'
  BY DEF PageKept, Running, PageOpen
<1>1. tx.run = NoRun
  BY DEF Transactions
<1>2. tx.kind = "fund" =>
        /\ tx.order \in DOMAIN orders' /\ orders'[tx.order].visit = orders[tx.order].visit
        /\ orders'[tx.order].product = orders[tx.order].product
        /\ orders'[tx.order].qty = orders[tx.order].qty
  BY DEF TransactionSound, OrdersKept
<1>3. ASSUME tx.kind = "fund" PROVE tx.visit # visits
  <2>1. Warned(tx) /\ tx.product \in Products
    BY <1>1, <1>3 DEF TransactionSound
  <2>2. QED
    BY <1>0, <2>1, NoOtherPayment DEF Warned
<1>4. tx.kind = "fund" => Warned(tx)'
  BY <1>0, <1>3 DEF Warned
<1>5. QED
  BY <1>0, <1>1, <1>2, <1>4, TapFacts DEF TransactionSound

Awaiting == {"approve", "create", "fund"}

LEMMA NoOwnTransaction ==
  ASSUME PoolSound, Here.pc \notin Awaiting, ChainTyped, NEW n \in DOMAIN pool
  PROVE  pool[n].run # tap
<1>1. pool[n] \in Transactions
  BY OrdersAre
<1>2. pool[n].kind \in Awaiting
  BY <1>1 DEF Transactions, Awaiting
<1>3. QED
  BY <1>2 DEF PoolSound, TransactionSound, Own

LEMMA TurnPool ==
  ASSUME CheckoutInv, Running, PageKept, Grown, pool' = pool, Here.pc \notin Awaiting
  PROVE  PoolSound'
<1>0. ChainTyped /\ PoolSound
  BY DEF CheckoutInv, Typed
<1>1. \A n \in DOMAIN pool : pool[n].run # tap /\ pool[n] \in Transactions
  BY <1>0, NoOwnTransaction, OrdersAre
<1>4. OrdersKept
  BY GrownKept
<1>2. ASSUME NEW n \in DOMAIN pool PROVE TransactionSound(pool[n])'
  <2>1. TransactionSound(pool[n])
    BY <1>0 DEF PoolSound
  <2> DEFINE tx == pool[n]
  <2>2. tx \in Transactions /\ tx.run # tap /\ TransactionSound(tx)
    BY <1>1, <2>1
  <2>3. PICK t \in Transactions : t = tx
    BY <2>2
  <2>4. t.run # tap /\ TransactionSound(t)
    BY <2>2, <2>3
  <2>5. TransactionSound(t)'
    BY <1>4, <2>4, OthersTransaction
  <2>6. QED
    BY <2>3, <2>5
<1>3. QED
  BY <1>1, <1>2 DEF PoolSound
-------------------------------------------------------------------------------
(***************************************************************************)
(* The steps of the run keep the invariant.                                *)
(***************************************************************************)
LEMMA SameBooks ==
  ASSUME CheckoutInv, Turn, Grown, Orphaned' \subseteq Orphaned, UNCHANGED lost
  PROVE  CartSound' /\ VisitTyped' /\ BooksSound' /\ ChargedSound'
<1>0. /\ Typed /\ ChainTyped /\ CartSound /\ PoolSound /\ ScreenMove
      /\ lost \in [Products \cup {Nobody} -> Nat]
  BY DEF CheckoutInv, Typed, VisitTyped, Turn
<1>1. ASSUME NEW p \in Products
      PROVE  Owing(p)' \in Nat /\ Owing(p)' - lost'[p] <= Owing(p) - lost[p]
  <2>1. Owing(p)' \in Nat /\ Owing(p)' <= Owing(p) /\ Owing(p) \in Nat /\ lost[p] \in Nat
    BY <1>0, GrownOwing, OwingNat
  <2>2. lost'[p] = lost[p]
    OBVIOUS
  <2>3. QED
    BY ONLY <2>1, <2>2
<1>2. QED
  BY <1>0, <1>1, TurnCart, TurnBooks

\* A turn that waits for no transaction.
LEMMA IdleTurn ==
  ASSUME CheckoutInv, Turn, UNCHANGED chainVars, UNCHANGED lost, Told',
         Here.pc \notin Awaiting,
         Here'.pc \in Funding \cup Settling =>
             /\ Here.pc \in Funding \cup Settling
             /\ Here'.pc \in Settling => Here.pc \in Settling
             /\ Here'.order = Here.order /\ Group(tap)' = Group(tap),
         Here'.pc \in Executing => Here.pc \in Executing \/ allowance >= Total
  PROVE  CheckoutInv'
<1>0. Typed /\ ChainTyped /\ ScreenMove /\ Running /\ PageKept
  BY DEF CheckoutInv, Typed, Turn, ScreenMove
<1>1. UNCHANGED <<pool, orders, allowance, balance>>
  BY DEF chainVars
<1>2. Grown
  BY <1>0, <1>1, SameOrders DEF CheckoutInv, OrderSound
<1>3. CartSound' /\ VisitTyped' /\ BooksSound' /\ ChargedSound'
  BY <1>1, <1>2, SameBooks DEF Orphaned
<1>4. OpenSound'
  BY ToldOpen
<1>5. PoolSound'
  BY <1>0, <1>1, <1>2, TurnPool
<1>6. OrderSound'
  BY <1>2, TurnOrder
<1>7. AllowanceSound'
  <2>1. NothingLost => \A n \in DOMAIN pool' : pool'[n].run = tap \/ pool'[n].kind = "create"
    BY <1>1 DEF CheckoutInv, AllowanceSound
  <2>2. allowance' = allowance /\ allowance \in Nat
    BY <1>0, <1>1 DEF ChainTyped
  <2>3. QED
    BY <1>2, <2>1, <2>2, TurnAllowance
<1>8. ChainTyped' /\ ScreenTyped' /\ ScreenSound'
  BY <1>0, <1>1 DEF ChainTyped, ScreenMove
<1>9. QED
  BY <1>3, <1>4, <1>5, <1>6, <1>7, <1>8 DEF CheckoutInv, Typed

LEMMA StartInv ==
  ASSUME CheckoutInv, Start(tap)
  PROVE  CheckoutInv'
<1>1. Turn /\ Here.pc = "off" /\ Here'.pc = "preflight"
  BY StartTurn DEF CheckoutInv
<1>2. UNCHANGED chainVars /\ UNCHANGED <<lost, failure>>
  BY DEF Start, pageRest
<1>3. Told'
  BY <1>1, <1>2, SameTold DEF Turn
<1>4. QED
  BY <1>1, <1>2, <1>3, IdleTurn DEF Awaiting, Executing, Creating, Funding, Settling

LEMMA PreflightInv ==
  ASSUME CheckoutInv, Preflight(tap)
  PROVE  CheckoutInv'
<1>1. Turn /\ Here.pc = "preflight" /\ Here'.pc \in {"allowance", "ended"}
  BY PreflightTurn DEF CheckoutInv
<1>2. UNCHANGED chainVars /\ UNCHANGED <<lost, failure>>
  BY DEF Preflight, Fail
<1>3. Told'
  BY <1>1, <1>2, SameTold DEF Turn
<1>4. QED
  BY <1>1, <1>2, <1>3, IdleTurn DEF Awaiting, Executing, Creating, Funding, Settling

LEMMA ReadAllowanceInv ==
  ASSUME CheckoutInv, ReadAllowance(tap)
  PROVE  CheckoutInv'
<1>1. /\ Turn /\ Here.pc = "allowance"
      /\ Here'.pc \in {"ask approve", "ask create", "ended"}
      /\ Here'.pc = "ask create" => allowance >= Total
  BY ReadAllowanceTurn DEF CheckoutInv
<1>2. UNCHANGED chainVars /\ UNCHANGED <<lost, failure>>
  BY DEF ReadAllowance, Fail, pageRest
<1>3. Told'
  BY <1>1, <1>2, SameTold DEF Turn
<1>4. QED
  BY <1>1, <1>2, <1>3, IdleTurn DEF Awaiting, Executing, Creating, Funding, Settling

LEMMA SnapshotInv ==
  ASSUME CheckoutInv, SnapshotAddress(tap)
  PROVE  CheckoutInv'
<1>1. /\ Turn /\ Here.pc = "snapshot" /\ Here'.pc = "finalize" /\ UNCHANGED failure
      /\ Here'.order = Here.order /\ Group(tap)' = Group(tap)
  BY SnapshotTurn DEF CheckoutInv
<1>2. UNCHANGED chainVars /\ UNCHANGED lost
  BY DEF SnapshotAddress, pageRest
<1>3. Told'
  BY <1>1, SameTold DEF Turn
<1>4. QED
  BY <1>1, <1>2, <1>3, IdleTurn DEF Awaiting, Executing, Creating, Funding, Settling

\* finalize_cart is asked, or the run has its answer.
LEMMA SettleInv ==
  ASSUME CheckoutInv, Here.pc \in Settling, UNCHANGED finalizeRest,
         \/ \E pc \in Settling : Goto(tap, pc) /\ UNCHANGED <<phase, status, cart>>
         \/ NextSeller(tap)
  PROVE  CheckoutInv'
<1>1. /\ Turn /\ UNCHANGED failure /\ Here'.pc \in Settling \cup {"ask create", "ended"}
      /\ Here'.pc \in Settling => Here'.order = Here.order /\ Group(tap)' = Group(tap)
  BY FinalizeTurn DEF CheckoutInv
<1>2. UNCHANGED chainVars /\ UNCHANGED lost
  BY DEF finalizeRest, pageRest
<1>3. Told'
  BY <1>1, SameTold DEF Turn
<1>4. QED
  BY <1>1, <1>2, <1>3, IdleTurn DEF Awaiting, Executing, Creating, Funding, Settling

LEMMA FinalizeInv ==
  ASSUME CheckoutInv, Finalize(tap) \/ AnswerFails(tap)
  PROVE  CheckoutInv'
<1>1. Here.pc \in Settling /\ UNCHANGED finalizeRest
  BY DEF Finalize, AnswerFails, Here, Settling
<1>2. \/ \E pc \in Settling : Goto(tap, pc) /\ UNCHANGED <<phase, status, cart>>
      \/ NextSeller(tap)
  BY DEF Finalize, AnswerFails, AfterError, Settling
<1>3. QED
  BY <1>1, <1>2, SettleInv

LEMMA RejectInv ==
  ASSUME CheckoutInv, Here.pc \in Asking,
         UNCHANGED <<pageRest, cartRest>>, UNCHANGED chainVars,
         \/ Here.pc = "ask approve" /\ Fail(tap)
         \/ Here.pc # "ask approve" /\ SellerFails(tap, "cancelled")
  PROVE  CheckoutInv'
<1>1. Typed /\ ScreenSound /\ PageKept /\ UNCHANGED lost
  BY DEF CheckoutInv, PageKept, pageRest, cartRest
<1>2. \/ Here.pc \in Before /\ Fail(tap)
      \/ Here.pc \in Creating \cup Funding /\ SellerFails(tap, "cancelled")
  BY DEF Asking, Before, Creating, Funding
<1>3. "cancelled" \in Reasons /\ "cancelled" # "no receipt"
  BY DEF Reasons
<1>4. Turn /\ Here'.pc = "ended" /\ Told'
  BY <1>1, <1>2, <1>3, StopTurn
<1>5. QED
  BY <1>1, <1>4, IdleTurn DEF Asking, Awaiting, Executing, Creating, Funding, Settling

\* The transaction that the buyer confirms.
LEMMA OwnTransaction ==
  ASSUME CheckoutInv, run[tap].pc \in Asking
  PROVE  \E tx \in Transactions :
             /\ tx = Tx(tap) /\ tx.run = tap /\ tx.kind = WaitFor[Here.pc] /\ tx.visit = visits
             /\ tx.kind = "approve" => tx.amount = Total
             /\ tx.kind # "approve" => /\ tx.product = Group(tap) /\ tx.product \in Products
                                       /\ tx.amount = token[Group(tap)]
             /\ tx.order = Here.order
<1>1. Here.pc \in Asking /\ Here.order \in Nat
  BY TapFacts DEF CheckoutInv, Typed, ScreenTyped, RunTyped, Here
<1>2. /\ Here.pc = "ask approve" => WaitFor[Here.pc] = "approve"
      /\ Here.pc = "ask create" => WaitFor[Here.pc] = "create"
      /\ Here.pc = "ask fund" => WaitFor[Here.pc] = "fund"
  BY DEF WaitFor, Asking
<1>3. Total \in Nat /\ visits \in Nat /\ token \in [Products -> Nat]
  BY SettledNat DEF CheckoutInv, Typed, VisitTyped
<1>4. Here.pc # "ask approve" => Group(tap) \in Products
  BY <1>1, AtFacts DEF CheckoutInv, Asking, Executing, Creating, Funding
<1> DEFINE kind == WaitFor[Here.pc]
           product == IF kind = "approve" THEN Nobody ELSE Group(tap)
           amount == IF kind = "approve" THEN Approved ELSE token[Group(tap)]
<1>5. /\ kind \in {"approve", "create", "fund"} /\ product \in Products \cup {Nobody}
      /\ amount \in Nat
  BY <1>1, <1>2, <1>3, <1>4 DEF Asking, Approved
<1>6. Tx(tap) = [kind |-> kind, run |-> tap, order |-> Here.order, visit |-> visits,
                 product |-> product, amount |-> amount]
  BY DEF Tx, Here
<1>7. Tx(tap) \in Transactions
  BY <1>1, <1>3, <1>5, <1>6 DEF Transactions
<1>8. kind # "approve" => product \in Products
  BY <1>1, <1>2, <1>4 DEF Asking
<1>9. QED
  BY <1>6, <1>7, <1>8 DEF Approved

LEMMA ConfirmInv ==
  ASSUME CheckoutInv, run[tap].pc \in Asking, Goto(tap, WaitFor[run[tap].pc]),
         pool' = Append(pool, Tx(tap)), UNCHANGED <<allowance, balance, orders>>,
         UNCHANGED <<phase, status, failure, cart>>,
         UNCHANGED <<pageRest, cartRest>>
  PROVE  CheckoutInv'
<1>0. Typed /\ ScreenSound /\ ChainTyped /\ CartSound /\ PoolSound /\ OrderSound
  BY DEF CheckoutInv, Typed
<1>1. /\ Turn /\ Here'.order = Here.order /\ Group(tap)' = Group(tap)
      /\ \/ Here.pc = "ask approve" /\ Here'.pc = "approve"
         \/ Here.pc = "ask create" /\ Here'.pc = "create"
         \/ Here.pc = "ask fund" /\ Here'.pc = "fund"
  BY <1>0, ConfirmTurn
<1>2. Running /\ PageKept /\ ScreenMove
  BY <1>1 DEF Turn, ScreenMove
<1>3. Grown /\ OrdersKept
  BY <1>0, SameOrders, GrownKept DEF OrderSound
<1>4. PICK tx \in Transactions :
             /\ tx = Tx(tap) /\ tx.run = tap /\ tx.kind = WaitFor[Here.pc] /\ tx.visit = visits
             /\ tx.kind = "approve" => tx.amount = Total
             /\ tx.kind # "approve" => /\ tx.product = Group(tap) /\ tx.product \in Products
                                       /\ tx.amount = token[Group(tap)]
             /\ tx.order = Here.order
  BY OwnTransaction
<1>5. tx.kind = Here'.pc
  BY <1>1, <1>4 DEF WaitFor, Asking
<1>6. /\ token' = token /\ visits' = visits /\ Total' = Total
  BY <1>2 DEF PageKept, Total, Sum
<1>7. TransactionSound(tx)'
  <2>1. Own(tx)'
    BY <1>1, <1>4, <1>5, <1>6 DEF Own
  <2>2. ASSUME tx.kind = "fund"
        PROVE  /\ tx.order \in DOMAIN orders' /\ orders'[tx.order].product = tx.product
               /\ orders'[tx.order].qty = tx.amount /\ orders'[tx.order].visit = tx.visit
    <3>1. Here.pc \in Funding
      BY <1>1, <1>5, <2>2 DEF Funding
    <3>2. QED
      BY <1>0, <1>4, <2>2, <3>1 DEF OrderSound
  <2>3. visits \in Nat
    BY <1>0 DEF Typed, VisitTyped
  <2>4. tx.kind = "fund" => tx.amount = token'[tx.product]
    BY <1>4, <1>6
  <2>5. QED
    BY <1>4, <1>6, <2>1, <2>2, <2>3, <2>4, TapFacts DEF TransactionSound
<1>8. pool \in Seq(Transactions) /\ \A n \in DOMAIN pool : pool[n].run # tap
  BY <1>0, <1>1, NoOwnTransaction DEF ChainTyped, Awaiting
<1>9. /\ pool' \in Seq(Transactions)
      /\ \A n \in DOMAIN pool' : (n \in DOMAIN pool /\ pool'[n] = pool[n]) \/ pool'[n] = tx
      /\ \A m, n \in DOMAIN pool' : m \notin DOMAIN pool /\ n \notin DOMAIN pool => m = n
  BY <1>4, <1>8
<1>10. ASSUME NEW n \in DOMAIN pool'
       PROVE  TransactionSound(pool[n])'
  <2>1. CASE pool'[n] = tx
    BY <1>7, <2>1
  <2>2. CASE n \in DOMAIN pool /\ pool'[n] = pool[n]
    <3>1. TransactionSound(pool[n]) /\ pool[n] \in Transactions /\ pool[n].run # tap
      BY <1>0, <1>8, <2>2, OrdersAre DEF PoolSound
    <3>2. PICK t \in Transactions : t = pool[n]
      BY <3>1
    <3>3. t.run # tap /\ TransactionSound(t)
      BY <3>1, <3>2
    <3>4. TransactionSound(t)'
      BY <1>2, <1>3, <3>3, OthersTransaction
    <3>5. QED
      BY <2>2, <3>2, <3>4
  <2>3. QED
    BY <1>9, <2>1, <2>2
<1>11. \A m, n \in DOMAIN pool' : pool'[m].run = tap /\ pool'[n].run = tap => m = n
  <2>1. \A n \in DOMAIN pool' : pool'[n].run = tap => n \notin DOMAIN pool
    BY <1>8, <1>4
  <2>2. QED
    BY <1>9, <2>1
<1>12. PoolSound'
  BY <1>10, <1>11 DEF PoolSound
<1>13. Orphaned' \subseteq Orphaned
  <2> SUFFICES ASSUME NEW n \in DOMAIN pool', pool'[n].run = NoRun, pool'[n].kind = "fund"
               PROVE  pool'[n].order \in Orphaned
    BY DEF Orphaned
  <2>1. n \in DOMAIN pool /\ pool'[n] = pool[n]
    BY <1>4, <1>9, TapFacts
  <2>2. QED
    BY <2>1 DEF Orphaned
<1>14. CartSound' /\ VisitTyped' /\ BooksSound' /\ ChargedSound'
  BY <1>1, <1>3, <1>13, SameBooks DEF pageRest
<1>15. OrderSound' /\ OpenSound'
  BY <1>1, <1>2, <1>3, TurnOrder, SameTold, ToldOpen DEF Creating, Funding, Settling
<1>16. AllowanceSound'
  <2>1. NothingLost => \A n \in DOMAIN pool' : pool'[n].run = tap \/ pool'[n].kind = "create"
    BY <1>4, <1>9 DEF CheckoutInv, AllowanceSound
  <2>2. Here'.pc \in Executing => Here.pc \in Executing
    BY <1>1 DEF Executing, Creating, Funding, Settling
  <2>3. allowance' = allowance /\ allowance \in Nat /\ UNCHANGED lost
    BY <1>0 DEF ChainTyped, pageRest
  <2>4. QED
    BY <1>1, <1>3, <2>1, <2>2, <2>3, TurnAllowance
<1>17. ChainTyped' /\ ScreenTyped' /\ ScreenSound'
  BY <1>0, <1>2, <1>9 DEF ChainTyped, ScreenMove
<1>18. QED
  BY <1>12, <1>14, <1>15, <1>16, <1>17 DEF CheckoutInv, Typed

LEMMA WalletAnswersInv ==
  ASSUME CheckoutInv, WalletAnswers(tap)
  PROVE  CheckoutInv'
<1>1. CASE /\ pool' = Append(pool, Tx(tap)) /\ Goto(tap, WaitFor[run[tap].pc])
           /\ UNCHANGED <<phase, status, failure, cart, snapshot, faults>>
  BY <1>1, ConfirmInv DEF WalletAnswers
<1>2. CASE /\ Fault("rejection") /\ UNCHANGED pool
           /\ IF run[tap].pc = "ask approve" THEN Fail(tap) ELSE SellerFails(tap, "cancelled")
  <2>1. UNCHANGED chainVars
    BY <1>2 DEF WalletAnswers, chainVars
  <2>2. \/ Here.pc = "ask approve" /\ Fail(tap)
        \/ Here.pc # "ask approve" /\ SellerFails(tap, "cancelled")
    BY <1>2 DEF Here
  <2>3. Here.pc \in Asking /\ UNCHANGED <<pageRest, cartRest>>
    BY DEF WalletAnswers, Here
  <2>4. QED
    BY <2>1, <2>2, <2>3, RejectInv
<1>3. QED
  BY <1>1, <1>2 DEF WalletAnswers

\* The units, and the approval, whose end the page does not see.
LEMMA LostNow ==
  ASSUME CheckoutInv, WaitFails(tap), NEW g \in Products, Here.pc # "approve" => g = Group(tap)
  PROVE  /\ lost' \in [Products \cup {Nobody} -> Nat]
         /\ \A p \in Products : p # g => lost'[p] = lost[p]
         /\ lost'[g] = IF Here.pc = "fund" THEN lost[g] + token[g] ELSE lost[g]
         /\ Here.pc = "approve" => lost'[Nobody] = lost[Nobody] + 1
         /\ Here.pc = "create" => lost' = lost
<1>1. /\ lost \in [Products \cup {Nobody} -> Nat] /\ token[g] \in Nat
      /\ Nobody \notin Products
  BY CheckoutAssumption DEF CheckoutInv, Typed, VisitTyped
<1>2. Here.pc \in {"approve", "create", "fund"}
  BY DEF WaitFails, Here
<1>3. CASE Here.pc = "approve"
  <2>1. lost' = [lost EXCEPT ![Nobody] = @ + 1]
    BY <1>3 DEF WaitFails, Here
  <2>2. QED
    BY <1>1, <1>3, <2>1
<1>4. CASE Here.pc = "create"
  <2>1. lost' = lost
    BY <1>4 DEF WaitFails, Here
  <2>2. QED
    BY <1>1, <1>4, <2>1
<1>5. CASE Here.pc = "fund"
  <2>1. lost' = [lost EXCEPT ![g] = @ + token[g]]
    BY <1>5 DEF WaitFails, Here
  <2>2. QED
    BY <1>1, <1>5, <2>1
<1>6. QED
  BY <1>2, <1>3, <1>4, <1>5

\* The wait for the receipt fails: the transaction is one that nobody waits for.
LEMMA WaitFailsInv ==
  ASSUME CheckoutInv, WaitFails(tap)
  PROVE  CheckoutInv'
<1>0. Typed /\ ScreenSound /\ ChainTyped /\ VisitTyped /\ CartSound /\ PoolSound /\ OrderSound
  BY DEF CheckoutInv, Typed
<1>1. /\ Here.pc \in {"approve", "create", "fund"}
      /\ UNCHANGED <<token, visits, cartRest>>
      /\ UNCHANGED <<allowance, balance, orders>>
  BY DEF WaitFails, Here
<1>2. \/ Here.pc \in Before /\ Fail(tap)
      \/ Here.pc \in Creating \cup Funding /\ SellerFails(tap, "no receipt")
  <2>1. CASE Here.pc = "approve"
    BY <2>1 DEF WaitFails, Here, Before
  <2>2. CASE Here.pc # "approve"
    BY <1>1, <2>2 DEF WaitFails, Here, Creating, Funding, ToldOfWait
  <2>3. QED
    BY <2>1, <2>2
<1>3. /\ Turn /\ Here'.pc = "ended"
      /\ Here.pc \in Before => UNCHANGED failure
      /\ Here.pc \in Creating \cup Funding =>
            /\ failure' = [failure EXCEPT ![Group(tap)] = "no receipt"]
            /\ status'[Group(tap)] = "error"
  <2>1. PageKept /\ "no receipt" \in Reasons
    BY <1>1 DEF PageKept, cartRest, Reasons
  <2>2. QED
    BY <1>0, <1>2, <2>1, StopTurn
<1>4. Running /\ PageKept /\ ScreenMove /\ token' = token /\ visits' = visits
  BY <1>3 DEF Turn, ScreenMove, PageKept
<1>5. Grown /\ OrdersKept
  BY <1>0, <1>1, SameOrders, GrownKept DEF OrderSound
<1>6. pool' = [n \in DOMAIN pool |->
                  IF pool[n].run = tap THEN [pool[n] EXCEPT !.run = NoRun] ELSE pool[n]]
  BY DEF WaitFails
<1>7. ASSUME NEW n \in DOMAIN pool
      PROVE  pool'[n] \in Transactions /\ pool'[n].run # tap /\ TransactionSound(pool[n])'
  <2>1. pool[n] \in Transactions /\ TransactionSound(pool[n])
    BY <1>0, OrdersAre DEF PoolSound
  <2>2. CASE pool[n].run # tap
    <3>1. PICK t \in Transactions : t = pool[n]
      BY <2>1
    <3>2. t.run # tap /\ TransactionSound(t) /\ pool'[n] = t
      BY <1>6, <2>1, <2>2, <3>1
    <3>3. TransactionSound(t)'
      BY <1>4, <1>5, <3>2, OthersTransaction
    <3>4. QED
      BY <3>2, <3>3
  <2>3. CASE pool[n].run = tap
    <3>1. PICK t \in Transactions : t = pool'[n]
      BY <1>6, <2>1, <2>3 DEF Transactions
    <3>2. /\ t.run = NoRun /\ t.kind = pool[n].kind /\ t.order = pool[n].order
          /\ t.visit = pool[n].visit /\ t.product = pool[n].product
          /\ t.amount = pool[n].amount
      BY <1>6, <2>1, <2>3, <3>1 DEF Transactions
    <3>3. Own(pool[n])
      BY <2>1, <2>3 DEF TransactionSound
    <3>4. t.kind = "fund" => Warned(t)'
      <4>1. ASSUME t.kind = "fund"
            PROVE  failure'[t.product] = "no receipt" /\ t.visit = visits
        <5>1. Here.pc \in Funding /\ t.product = Group(tap) /\ t.visit = visits
          BY <3>2, <3>3, <4>1 DEF Own, Funding
        <5>2. Group(tap) \in Products
          BY <1>0, <5>1, AtFacts DEF Executing
        <5>3. failure \in [Products -> Reasons]
          BY <1>0 DEF Typed, ScreenTyped
        <5>4. QED
          BY <1>3, <5>1, <5>2, <5>3
      <4>2. PageOpen'
        BY <1>4 DEF Running, PageOpen
      <4>3. QED
        BY <1>4, <4>1, <4>2 DEF Warned, OpenEnded
    <3>5. TransactionSound(t)'
      <4>1. PageOpen
        BY <1>4 DEF Running
      <4>2. QED
        BY <1>1, <1>4, <2>1, <3>2, <3>4, <4>1, TapFacts DEF TransactionSound
    <3>6. QED
      BY <3>1, <3>2, <3>5, TapFacts
  <2>4. QED
    BY <2>2, <2>3
<1>8. DOMAIN pool' = DOMAIN pool
  BY <1>6
<1>9. PoolSound'
  BY <1>7, <1>8 DEF PoolSound
<1>10. pool' \in Seq(Transactions)
  <2>1. DOMAIN pool = 1..Len(pool) /\ Len(pool) \in Nat
    BY <1>0 DEF ChainTyped
  <2>2. pool' \in [1..Len(pool) -> Transactions]
    BY <1>6, <1>7, <2>1
  <2>3. QED
    BY <2>1, <2>2, SeqDef
<1>11. PICK g \in Products : Here.pc # "approve" => g = Group(tap) /\ g \in Groups
  <2>1. Here.pc # "approve" => Group(tap) \in Products /\ Group(tap) \in Groups
    BY <1>0, <1>1, AtFacts DEF Executing, Creating, Funding
  <2>2. Products # {}
    <3>1. token \in [Products -> Nat] /\ token # [p \in Products |-> 0]
      BY <1>0, <1>4 DEF VisitTyped, Running, PageOpen, NoPage, NoUnits
    <3>2. QED
      BY <3>1
  <2>3. QED
    BY <2>1, <2>2
<1>12. /\ lost' \in [Products \cup {Nobody} -> Nat]
       /\ \A p \in Products : p # g => lost'[p] = lost[p]
       /\ lost'[g] = IF Here.pc = "fund" THEN lost[g] + token[g] ELSE lost[g]
       /\ Here.pc = "approve" => lost'[Nobody] = lost[Nobody] + 1
       /\ Here.pc = "create" => lost' = lost
  BY <1>11, LostNow
<1>13. ASSUME NEW n \in DOMAIN pool, pool[n].run = tap
       PROVE  Own(pool[n])
  BY <1>0, <1>13 DEF PoolSound, TransactionSound
<1>14. ASSUME NEW n \in DOMAIN pool
       PROVE  /\ pool'[n].kind = pool[n].kind /\ pool'[n].order = pool[n].order
              /\ pool'[n].visit = pool[n].visit /\ pool'[n].product = pool[n].product
              /\ pool'[n].amount = pool[n].amount
  <2>1. pool[n] \in Transactions
    BY <1>0, OrdersAre
  <2>2. QED
    BY <1>6, <2>1 DEF Transactions
<1>15. Orphaned' \subseteq Orphaned \cup (IF Here.pc = "fund" THEN {Here.order} ELSE {})
  <2> SUFFICES ASSUME NEW n \in DOMAIN pool, pool'[n].run = NoRun, pool'[n].kind = "fund"
               PROVE  pool'[n].order \in Orphaned \/ (Here.pc = "fund" /\ pool'[n].order = Here.order)
    BY <1>8 DEF Orphaned
  <2>1. CASE pool[n].run = tap
    BY <1>13, <1>14, <2>1 DEF Own
  <2>2. CASE pool[n].run # tap
    BY <1>6, <1>14, <2>2 DEF Orphaned
  <2>3. QED
    BY <2>1, <2>2
<1>16. ASSUME NEW p \in Products
       PROVE  Owing(p)' \in Nat /\ Owing(p)' - lost'[p] <= Owing(p) - lost[p]
  <2>0. Owing(p) \in Nat /\ lost[p] \in Nat /\ token[g] \in Nat
    BY <1>0, OwingNat DEF VisitTyped
  <2>1. CASE Here.pc # "fund"
    <3>1. Owing(p)' \in Nat /\ Owing(p)' <= Owing(p)
      BY <1>0, <1>5, <1>15, <2>1, GrownOwing
    <3>2. lost'[p] = lost[p]
      BY <1>12, <2>1
    <3>3. QED
      BY ONLY <2>0, <3>1, <3>2
  <2>2. CASE Here.pc = "fund"
    <3>1. /\ Here.order \in DOMAIN orders /\ orders[Here.order].product = g
          /\ orders[Here.order].qty = token[g]
      BY <1>0, <1>11, <2>2 DEF OrderSound, Funding
    <3>2. PICK n \in DOMAIN orders : n = Here.order
      BY <3>1
    <3>3. Charged(p)' \subseteq Charged(p) \cup {n} /\ (p # g => Charged(p)' \subseteq Charged(p))
      BY <1>1, <1>15, <2>2, <3>1, <3>2 DEF Charged
    <3>4. orders' \in Seq(OrdersOfCheckout)
      BY <1>5 DEF Grown
    <3>5. /\ Owing(p)' \in Nat /\ Owing(p)' <= Owing(p) + orders[n].qty
          /\ Charged(p)' \subseteq Charged(p) => Owing(p)' <= Owing(p)
      BY <1>0, <1>5, <3>3, <3>4, OwingMost
    <3>6. CASE p = g
      BY <1>12, <2>0, <2>2, <3>1, <3>2, <3>5, <3>6
    <3>7. CASE p # g
      <4>1. lost'[p] = lost[p] /\ Owing(p)' <= Owing(p)
        BY <1>12, <3>3, <3>5, <3>7
      <4>2. QED
        BY ONLY <2>0, <3>5, <4>1
    <3>8. QED
      BY <3>6, <3>7
  <2>3. QED
    BY <2>1, <2>2
<1>17. CartSound' /\ VisitTyped' /\ BooksSound' /\ ChargedSound'
  <2>1. CartSound' /\ VisitTyped'
    BY <1>0, <1>4, <1>12, TurnCart
  <2>2. BooksSound' /\ ChargedSound'
    BY <1>3, <1>5, <1>12, <1>16, TurnBooks
  <2>3. QED
    BY <2>1, <2>2
<1>18. OrderSound'
  BY <1>3, <1>5, TurnOrder DEF Funding, Settling
<1>19. OpenSound'
  <2>1. CASE Here.pc \in Before
    BY <1>3, <1>4, <2>1, SameTold, ToldOpen
  <2>2. CASE Here.pc \in Creating \cup Funding
    <3>1. g = Group(tap) /\ Here.pc # "approve" /\ Here.pc \notin Settling
      BY <1>11, <2>2 DEF Creating, Funding, Settling
    <3>2. \A p \in Products : failure[p] # "no receipt" /\ (p # g => failure'[p] = failure[p])
      <4>1. \A p \in Products : failure[p] # "no receipt"
        BY <1>4, NoOtherPayment DEF OpenEnded
      <4>2. failure' = [failure EXCEPT ![g] = "no receipt"] /\ failure \in [Products -> Reasons]
        BY <1>0, <1>3, <2>2, <3>1 DEF Typed, ScreenTyped
      <4>3. QED
        BY <4>1, <4>2
    <3>3. status'[g] = "error"
      BY <1>3, <2>2, <3>1
    <3>4. StillPaying(g)' = StillPaying(g) /\ FundedNow(g)' = FundedNow(g)
      <4>1. FundedNow(g)' = FundedNow(g)
        BY <1>1 DEF FundedNow
      <4>2. StillPaying(g)' = StillPaying(g)
        BY <1>1, <1>8, <1>14 DEF StillPaying
      <4>3. QED
        BY <4>1, <4>2
    <3>5. \A m, n \in StillPaying(g) : m = n
      BY <1>4, NoOtherPayment
    <3>6. FundedNow(g) = {}
      <4>1. status[g] # "success"
        BY <1>0, <2>2, <3>1, AtFacts DEF Executing, Creating, Funding
      <4>2. g \notin PaidNow
        BY <3>1, <4>1 DEF PaidNow
      <4>3. QED
        BY <1>4, <3>2, <4>2 DEF CheckoutInv, BooksSound, OpenEnded, Running
    <3>7. OnePayment(g)'
      <4>1. FundedNow(g)' = {} /\ \A m, n \in StillPaying(g)' : m = n
        BY <3>4, <3>5, <3>6
      <4>2. QED
        BY <4>1 DEF OnePayment
    <3>8. QED
      BY <3>2, <3>3, <3>7 DEF OpenSound, OpenEnded
  <2>3. QED
    BY <1>2, <2>1, <2>2
<1>20. AllowanceSound'
  <2>1. CASE Here.pc = "approve"
    <3>1. Nobody \in DOMAIN lost' /\ lost[Nobody] \in Nat
      BY <1>0, <1>12 DEF VisitTyped
    <3>2. lost'[Nobody] # 0
      BY <1>12, <2>1, <3>1
    <3>3. QED
      BY <3>1, <3>2 DEF AllowanceSound, NothingLost
  <2>2. CASE Here.pc = "fund"
    <3>1. g \in DOMAIN lost' /\ lost[g] \in Nat /\ token[g] \in Nat /\ token[g] > 0
      BY <1>0, <1>11, <1>12, <2>2 DEF VisitTyped, Groups
    <3>2. lost'[g] # 0
      BY <1>12, <2>2, <3>1
    <3>3. QED
      BY <3>1, <3>2 DEF AllowanceSound, NothingLost
  <2>3. CASE Here.pc = "create"
    <3>1. NothingLost' = NothingLost
      BY <1>12, <2>3 DEF NothingLost
    <3>2. ASSUME NothingLost, NEW n \in DOMAIN pool PROVE pool'[n].kind = "create"
      <4>1. pool[n].run = tap \/ pool[n].kind = "create"
        BY <3>2 DEF CheckoutInv, AllowanceSound
      <4>2. QED
        BY <1>13, <1>14, <2>3, <4>1 DEF Own
    <3>3. QED
      BY <1>3, <1>8, <3>1, <3>2 DEF AllowanceSound, Executing, Creating, Funding, Settling
  <2>4. QED
    BY <1>1, <2>1, <2>2, <2>3
<1>21. ChainTyped' /\ ScreenTyped' /\ ScreenSound'
  BY <1>0, <1>1, <1>4, <1>10 DEF ChainTyped, ScreenMove
<1>22. QED
  BY <1>9, <1>17, <1>18, <1>19, <1>20, <1>21 DEF CheckoutInv, Typed
-------------------------------------------------------------------------------
(***************************************************************************)
(* A transaction is mined.                                                 *)
(***************************************************************************)
Mined(tx, ok) ==
    /\ Execution(tx, ok)
    /\ IF tx.run = NoRun THEN UNCHANGED <<phase, status, failure, cart, snapshot, run>>
       ELSE Receipt(tx.run, tx, ok)

MineRest == UNCHANGED <<pageRest, cartRest>>

LEMMA MineNextIs ==
  ASSUME MineNext
  PROVE  /\ pool # <<>> /\ pool' = Tail(pool) /\ MineRest
         /\ \/ Executes(Head(pool)) /\ Mined(Head(pool), TRUE)
            \/ Mined(Head(pool), FALSE)
<1> DEFINE tx == Head(pool)
<1>1. /\ pool # <<>> /\ pool' = Tail(pool) /\ MineRest
      /\ Mined(tx, Executes(tx)) \/ Mined(tx, FALSE)
  BY DEF MineNext, Mined, MineRest
<1>2. Executes(tx) = TRUE \/ Executes(tx) = FALSE
  BY DEF Executes
<1>3. Mined(tx, Executes(tx)) => (Executes(tx) /\ Mined(tx, TRUE)) \/ Mined(tx, FALSE)
  BY <1>2, Zenon
<1>4. QED
  BY <1>1, <1>3

LEMMA PoolHead ==
  ASSUME CheckoutInv, pool # <<>>, pool' = Tail(pool)
  PROVE  /\ pool' \in Seq(Transactions)
         /\ Head(pool) \in Transactions /\ TransactionSound(Head(pool))
         /\ 1 \in DOMAIN pool /\ Head(pool) = pool[1]
         /\ \A n \in DOMAIN pool' : /\ n + 1 \in DOMAIN pool /\ n # 0 /\ n \in Nat
                                    /\ pool'[n] = pool[n + 1]
<1>1. pool \in Seq(Transactions)
  BY DEF CheckoutInv, Typed, ChainTyped
<1>2. /\ pool' \in Seq(Transactions) /\ Head(pool) \in Transactions
      /\ 1 \in DOMAIN pool /\ Head(pool) = pool[1]
      /\ \A n \in DOMAIN pool' : /\ n + 1 \in DOMAIN pool /\ n # 0 /\ n \in Nat
                                 /\ pool'[n] = pool[n + 1]
  BY <1>1
<1>3. TransactionSound(Head(pool))
  <2>1. TransactionSound(pool[1])
    BY <1>2 DEF CheckoutInv, PoolSound
  <2>2. QED
    BY <1>2, <2>1
<1>4. QED
  BY <1>2, <1>3

LEMMA TailOrphaned ==
  ASSUME CheckoutInv, pool # <<>>, pool' = Tail(pool)
  PROVE  Orphaned' \subseteq Orphaned
<1> SUFFICES ASSUME NEW n \in DOMAIN pool', pool'[n].run = NoRun, pool'[n].kind = "fund"
             PROVE  pool'[n].order \in Orphaned
  BY DEF Orphaned
<1>1. n + 1 \in DOMAIN pool /\ pool'[n] = pool[n + 1]
  BY PoolHead
<1>2. QED
  BY <1>1 DEF Orphaned

\* The chain after a transaction: one that pays nothing, and one that pays its order.
LEMMA ExecutionGrows ==
  ASSUME CheckoutInv, NEW tx \in Transactions, TransactionSound(tx), NEW ok \in BOOLEAN,
         Execution(tx, ok), tx.kind # "fund" \/ ~ok
  PROVE  /\ Grown /\ OrdersKept /\ balance' = balance /\ allowance' \in Nat
         /\ tx.kind # "approve" \/ ~ok => allowance' = allowance
         /\ tx.kind = "approve" /\ ok => allowance' = tx.amount
         /\ tx.kind = "create" /\ ok =>
               /\ orders' = Append(orders, [product |-> tx.product, qty |-> tx.amount,
                                            status |-> "Created", visit |-> tx.visit])
<1>0. orders \in Seq(OrdersOfCheckout) /\ allowance \in Nat /\ ChainTyped
  BY DEF CheckoutInv, Typed, ChainTyped
<1>1. tx.kind \in {"approve", "create", "fund"} /\ tx.amount \in Nat /\ tx.visit \in Nat
  BY DEF Transactions
<1>2. /\ balance' = balance
      /\ tx.kind # "approve" \/ ~ok => allowance' = allowance
      /\ tx.kind = "approve" /\ ok => allowance' = tx.amount
  BY <1>1 DEF Execution
<1>3. tx.kind = "create" /\ ok =>
               /\ orders' = Append(orders, [product |-> tx.product, qty |-> tx.amount,
                                            status |-> "Created", visit |-> tx.visit])
  BY DEF Execution
<1>4. ~(tx.kind = "create" /\ ok) => orders' = orders
  BY <1>1 DEF Execution
<1>5. Grown
  <2>1. CASE tx.kind = "create" /\ ok
    <3> DEFINE order == [product |-> tx.product, qty |-> tx.amount,
                         status |-> "Created", visit |-> tx.visit]
    <3>1. tx.product \in Products /\ tx.visit <= visits
      BY <2>1 DEF TransactionSound
    <3>2. order \in OrdersOfCheckout
      BY <1>1, <3>1 DEF OrdersOfCheckout
    <3>3. order.status = "Created" /\ order.visit <= visits
      BY <3>1
    <3>4. orders' = Append(orders, order)
      BY <1>3, <2>1
    <3> HIDE DEF order
    <3>5. /\ orders' \in Seq(OrdersOfCheckout) /\ DOMAIN orders \subseteq DOMAIN orders'
          /\ \A n \in DOMAIN orders : orders'[n] = orders[n]
          /\ \A n \in DOMAIN orders' \ DOMAIN orders : orders'[n] = order
      BY <1>0, <3>2, <3>4
    <3>6. QED
      BY <3>3, <3>5 DEF Grown
  <2>2. CASE ~(tx.kind = "create" /\ ok)
    BY <1>0, <1>4, <2>2, SameOrders DEF CheckoutInv, OrderSound
  <2>3. QED
    BY <2>1, <2>2
<1>6. allowance' \in Nat
  BY <1>0, <1>1, <1>2
<1>7. QED
  BY <1>2, <1>3, <1>5, <1>6, GrownKept

LEMMA ExecutionPays ==
  ASSUME CheckoutInv, NEW tx \in Transactions, TransactionSound(tx), tx.kind = "fund",
         Executes(tx), Execution(tx, TRUE)
  PROVE  /\ ChainTyped /\ tx.order \in DOMAIN orders /\ tx.product \in Products
         /\ orders[tx.order].status = "Created"
         /\ orders' = [orders EXCEPT ![tx.order].status = "Funded"]
         /\ orders[tx.order].product = tx.product /\ orders[tx.order].qty = tx.amount
         /\ orders[tx.order].visit = tx.visit
         /\ allowance' \in Nat /\ balance' \in Nat /\ allowance' = allowance - tx.amount
<1>1. ChainTyped /\ allowance \in Nat /\ balance \in Nat /\ tx.amount \in Nat
  BY DEF CheckoutInv, Typed, ChainTyped, Transactions
<1>2. /\ orders[tx.order].status = "Created" /\ allowance >= tx.amount
      /\ balance >= tx.amount
  BY DEF Executes
<1>3. /\ allowance' = allowance - tx.amount /\ balance' = balance - tx.amount
      /\ orders' = [orders EXCEPT ![tx.order].status = "Funded"]
  BY DEF Execution
<1>4. QED
  BY <1>1, <1>2, <1>3 DEF TransactionSound

LEMMA PaymentBooks ==
  ASSUME ChainTyped, NEW n \in DOMAIN orders, orders[n].status = "Created",
         orders' = [orders EXCEPT ![n].status = "Funded"], visits' = visits,
         Orphaned' \subseteq Orphaned
  PROVE  /\ orders' \in Seq(OrdersOfCheckout) /\ OrdersKept /\ DOMAIN orders' = DOMAIN orders
         /\ orders'[n].status = "Funded"
         /\ \A p \in Products :
               /\ FundedNow(p)' = IF p = orders[n].product /\ orders[n].visit = visits
                                  THEN FundedNow(p) \cup {n} ELSE FundedNow(p)
               /\ Charged(p)' \subseteq Charged(p) \cup {n}
               /\ p # orders[n].product => Charged(p)' \subseteq Charged(p)
<1>0. orders \in Seq(OrdersOfCheckout)
  BY DEF ChainTyped
<1>1. PICK order \in OrdersOfCheckout : order = orders[n]
  BY OrdersAre
<1>2. PICK paid \in OrdersOfCheckout :
          /\ paid.product = order.product /\ paid.qty = order.qty
          /\ paid.status = "Funded" /\ paid.visit = order.visit
          /\ orders' = [orders EXCEPT ![n] = paid]
  <2> DEFINE it == [order EXCEPT !.status = "Funded"]
  <2>1. it \in OrdersOfCheckout
    BY DEF OrdersOfCheckout
  <2>2. /\ it.product = order.product /\ it.qty = order.qty
        /\ it.status = "Funded" /\ it.visit = order.visit
    BY DEF OrdersOfCheckout
  <2>3. orders' = [orders EXCEPT ![n] = it]
    BY <1>1
  <2> HIDE DEF it
  <2>4. QED
    BY <2>1, <2>2, <2>3
<1>3. /\ orders' \in Seq(OrdersOfCheckout) /\ DOMAIN orders' = DOMAIN orders
      /\ orders'[n] = paid /\ \A m \in DOMAIN orders : m # n => orders'[m] = orders[m]
  BY <1>0, <1>2
<1>4. OrdersKept /\ orders'[n].status = "Funded"
  BY <1>1, <1>2, <1>3 DEF OrdersKept
<1>5. ASSUME NEW p \in Products
      PROVE  FundedNow(p)' = IF p = order.product /\ order.visit = visits
                             THEN FundedNow(p) \cup {n} ELSE FundedNow(p)
  BY <1>1, <1>2, <1>3 DEF FundedNow
<1>6. ASSUME NEW p \in Products
      PROVE  /\ Charged(p)' \subseteq Charged(p) \cup {n}
             /\ p # order.product => Charged(p)' \subseteq Charged(p)
  BY <1>1, <1>2, <1>3 DEF Charged
<1>7. QED
  BY <1>1, <1>3, <1>4, <1>5, <1>6

\* A transaction that nobody waits for.
LEMMA NobodyPool ==
  ASSUME CheckoutInv, OrdersKept, pool # <<>>, pool' = Tail(pool),
         UNCHANGED <<token, visits, failure, run>>
  PROVE  PoolSound'
<1>1. Here' = Here /\ Group(tap)' = Group(tap) /\ Total' = Total /\ PageOpen' = PageOpen
  BY DEF Here, Group, Total, Sum, PageOpen
<1>2. ASSUME NEW tx \in Transactions, TransactionSound(tx)
      PROVE  TransactionSound(tx)'
  <2>1. tx.run = tap => Own(tx)'
    BY <1>1, <1>2 DEF TransactionSound, Own
  <2>2. tx.run = NoRun /\ tx.kind = "fund" => Warned(tx)'
    BY <1>1, <1>2 DEF TransactionSound, Warned, OpenEnded
  <2>3. tx.kind = "fund" =>
          /\ tx.order \in DOMAIN orders' /\ orders'[tx.order].visit = tx.visit
          /\ orders'[tx.order].product = tx.product /\ orders'[tx.order].qty = tx.amount
    BY <1>2 DEF TransactionSound, OrdersKept
  <2>4. QED
    BY <1>1, <1>2, <2>1, <2>2, <2>3 DEF TransactionSound
<1>3. ASSUME NEW n \in DOMAIN pool'
      PROVE  TransactionSound(pool[n])'
  <2>1. n + 1 \in DOMAIN pool /\ pool'[n] = pool[n + 1]
    BY PoolHead
  <2>2. PICK t \in Transactions : t = pool[n + 1] /\ TransactionSound(t)
    BY <2>1, OrdersAre DEF CheckoutInv, PoolSound, Typed
  <2>3. TransactionSound(t)'
    BY <1>2, <2>2
  <2>4. QED
    BY <2>1, <2>2, <2>3
<1>4. \A m, n \in DOMAIN pool' : pool'[m].run = tap /\ pool'[n].run = tap => m = n
  BY PoolHead DEF CheckoutInv, PoolSound
<1>5. QED
  BY <1>3, <1>4 DEF PoolSound

LEMMA NobodyOrder ==
  ASSUME CheckoutInv, OrdersKept, UNCHANGED <<token, visits, run>>,
         \A n \in DOMAIN orders' \ DOMAIN orders : orders'[n].visit <= visits
  PROVE  OrderSound'
<1>1. Here' = Here /\ Group(tap)' = Group(tap)
  BY DEF Here, Group
<1>2. \A n \in DOMAIN orders' : orders'[n].visit <= visits
  BY DEF CheckoutInv, OrderSound, OrdersKept
<1>3. QED
  BY <1>1, <1>2 DEF CheckoutInv, OrderSound, OrdersKept

\* A seller whose payments change is one that the buyer was told of.
LEMMA NobodyBooks ==
  ASSUME CheckoutInv, OrdersKept, orders' \in Seq(OrdersOfCheckout),
         UNCHANGED <<token, visits, lost, failure, run, status, cart, wished>>,
         \A p \in Products :
            /\ FundedNow(p)' = FundedNow(p) \/ OpenEnded(p) \/ ~PageOpen
            /\ PageOpen /\ OpenEnded(p) => OnePayment(p)'
            /\ Charged(p)' \subseteq Charged(p)
  PROVE  BooksSound' /\ OpenSound' /\ ChargedSound'
<1>0. Typed /\ ScreenTyped /\ VisitTyped /\ ChainTyped
  BY DEF CheckoutInv, Typed
<1>1. /\ Here' = Here /\ PageOpen' = PageOpen /\ PaidNow' = PaidNow
      /\ \A p : OpenEnded(p)' = OpenEnded(p)
  BY DEF Here, PageOpen, PaidNow, Group, OpenEnded
<1>2. ASSUME PageOpen, NEW p \in Products, ~OpenEnded(p)
      PROVE  \/ p \in PaidNow /\ PaidOnce(p)'
             \/ p \notin PaidNow /\ FundedNow(p)' = {}
  <2>1. FundedNow(p)' = FundedNow(p)
    BY <1>2
  <2>2. CASE p \in PaidNow
    <3>1. PICK n \in FundedNow(p) : FundedNow(p) = {n} /\ orders[n].qty = token[p]
      BY <1>2, <2>2 DEF CheckoutInv, BooksSound, PaidOnce
    <3>2. orders'[n].qty = orders[n].qty
      BY DEF OrdersKept, FundedNow
    <3>3. QED
      BY <2>1, <2>2, <3>1, <3>2 DEF PaidOnce
  <2>3. CASE p \notin PaidNow
    BY <1>2, <2>1, <2>3 DEF CheckoutInv, BooksSound
  <2>4. QED
    BY <2>2, <2>3
<1>3. BooksSound'
  BY <1>1, <1>2 DEF BooksSound
<1>4. OpenSound'
  BY <1>1 DEF CheckoutInv, OpenSound
<1>5. ASSUME NEW p \in Products
      PROVE  Owing(p)' + cart[p] <= wished[p] + NotYetOut(p)' + lost[p]
  <2>1. Owing(p)' \in Nat /\ Owing(p)' <= Owing(p)
    BY <1>0, OwingLess
  <2>2. NotYetOut(p)' = NotYetOut(p)
    BY <1>1 DEF NotYetOut
  <2>3. Owing(p) + cart[p] <= wished[p] + NotYetOut(p) + lost[p]
    BY DEF CheckoutInv, ChargedSound
  <2>4. /\ Owing(p) \in Nat /\ cart[p] \in Nat /\ wished[p] \in Nat /\ NotYetOut(p) \in Nat
        /\ lost[p] \in Nat
    BY <1>0, OwingNat DEF ScreenTyped, VisitTyped, NotYetOut
  <2>5. QED
    BY ONLY <2>1, <2>2, <2>3, <2>4
<1>6. ChargedSound'
  BY <1>5 DEF ChargedSound
<1>7. QED
  BY <1>3, <1>4, <1>6

\* The one payment of a seller whose wait failed is mined, or another transaction is.
LEMMA OnePaymentMined ==
  ASSUME CheckoutInv, PageOpen, NEW p \in Products, OpenEnded(p), OrdersKept,
         pool # <<>>, pool' = Tail(pool), UNCHANGED <<token, visits>>,
         \/ FundedNow(p)' = FundedNow(p)
         \/ /\ Head(pool).kind = "fund" /\ Head(pool).product = p /\ Head(pool).visit = visits
            /\ FundedNow(p)' = FundedNow(p) \cup {Head(pool).order}
  PROVE  OnePayment(p)'
<1>0. OnePayment(p)
  BY DEF CheckoutInv, OpenSound
<1>1. /\ 1 \in DOMAIN pool /\ Head(pool) = pool[1] /\ TransactionSound(Head(pool))
      /\ \A n \in DOMAIN pool' : /\ n + 1 \in DOMAIN pool /\ n # 0 /\ n \in Nat
                                 /\ pool'[n] = pool[n + 1]
  BY PoolHead
<1>2. \A n \in StillPaying(p)' : n \in Nat /\ n # 0 /\ n + 1 \in StillPaying(p)
  BY <1>1 DEF StillPaying
<1>3. \A m, n \in StillPaying(p)' : m = n
  <2> SUFFICES ASSUME NEW m \in StillPaying(p)', NEW n \in StillPaying(p)'
               PROVE  m = n
    OBVIOUS
  <2>1. m + 1 = n + 1 /\ m \in Nat /\ n \in Nat
    BY <1>0, <1>2 DEF OnePayment
  <2>2. QED
    BY ONLY <2>1
<1>4. \A n \in FundedNow(p) : n \in DOMAIN orders /\ orders'[n].qty = token[p]
  BY <1>0 DEF OnePayment, FundedNow, OrdersKept
<1>5. CASE FundedNow(p)' = FundedNow(p)
  <2>1. StillPaying(p)' = {} \/ FundedNow(p) = {}
    BY <1>0, <1>2 DEF OnePayment
  <2>2. \A m, n \in FundedNow(p)' : m = n
    BY <1>0, <1>5 DEF OnePayment
  <2>3. QED
    BY <1>3, <1>4, <1>5, <2>1, <2>2 DEF OnePayment
<1>6. CASE /\ Head(pool).kind = "fund" /\ Head(pool).product = p /\ Head(pool).visit = visits
           /\ FundedNow(p)' = FundedNow(p) \cup {Head(pool).order}
  <2> DEFINE n == Head(pool).order
  <2>1. 1 \in StillPaying(p)
    BY <1>1, <1>6 DEF StillPaying
  <2>2. FundedNow(p)' = {n}
    BY <1>0, <1>6, <2>1 DEF OnePayment
  <2>3. StillPaying(p)' = {}
    <3> SUFFICES ASSUME NEW m \in StillPaying(p)' PROVE FALSE
      OBVIOUS
    <3>1. m + 1 = 1 /\ m \in Nat /\ m # 0
      BY <1>0, <1>2, <2>1 DEF OnePayment
    <3>2. QED
      BY ONLY <3>1
  <2>4. orders'[n].qty = token[p]
    BY <1>1, <1>6 DEF TransactionSound, OrdersKept
  <2> HIDE DEF n
  <2>5. QED
    BY <2>2, <2>3, <2>4 DEF OnePayment
<1>7. QED
  BY <1>5, <1>6

LEMMA NobodyInv ==
  ASSUME CheckoutInv, MineRest, pool # <<>>, pool' = Tail(pool),
         Head(pool).run = NoRun,
         \/ Executes(Head(pool)) /\ Mined(Head(pool), TRUE)
         \/ Mined(Head(pool), FALSE)
  PROVE  CheckoutInv'
<1>0. Typed /\ ChainTyped /\ CartSound /\ ScreenSound /\ AllowanceSound /\ PoolSound
  BY DEF CheckoutInv, Typed
<1>1. PICK tx \in Transactions : tx = Head(pool) /\ TransactionSound(tx)
  BY PoolHead
<1>2. /\ UNCHANGED <<token, visits, lost, failure, run, status, cart, wished, phase>>
      /\ UNCHANGED <<connected, owner, addedBy>>
  BY DEF Mined, MineRest, pageRest, cartRest
<1>3. /\ ScreenTyped' /\ VisitTyped' /\ CartSound' /\ ScreenSound'
  <2>1. ScreenTyped' /\ VisitTyped'
    BY <1>0, <1>2 DEF Typed, ScreenTyped, RunTyped, VisitTyped
  <2>2. CartSound'
    BY <1>0, <1>2 DEF CartSound, Sum
  <2>3. /\ Here' = Here /\ Groups' = Groups /\ PageOpen' = PageOpen
        /\ Group(tap)' = Group(tap)
    BY <1>2 DEF Here, Groups, PageOpen, Group
  <2>4. \A n : StatusAt(n)' = StatusAt(n)
    BY <2>3 DEF StatusAt
  <2>5. PhaseSound' /\ PageSound'
    BY <1>0, <1>2, <2>3 DEF ScreenSound, PhaseSound, PageSound
  <2>6. StatusSound'
    BY <1>0, <1>2, <2>3, <2>4 DEF ScreenSound, StatusSound
  <2>7. QED
    BY <2>1, <2>2, <2>5, <2>6 DEF ScreenSound
<1>4. pool' \in Seq(Transactions) /\ Orphaned' \subseteq Orphaned
  BY PoolHead, TailOrphaned
<1>5. /\ OrdersKept /\ orders' \in Seq(OrdersOfCheckout)
      /\ allowance' \in Nat /\ balance' \in Nat
      /\ \A n \in DOMAIN orders' \ DOMAIN orders : orders'[n].visit <= visits
      /\ \A p \in Products :
            /\ \/ FundedNow(p)' = FundedNow(p)
               \/ /\ tx.kind = "fund" /\ tx.product = p /\ tx.visit = visits
                  /\ FundedNow(p)' = FundedNow(p) \cup {tx.order}
            /\ Charged(p)' \subseteq Charged(p)
      /\ tx.kind = "create" =>
            allowance' = allowance /\ \A p \in Products : FundedNow(p)' = FundedNow(p)
  <2>1. CASE tx.kind = "fund" /\ Executes(tx) /\ Mined(tx, TRUE)
    <3>1. Execution(tx, TRUE)
      BY <2>1 DEF Mined
    <3>2. /\ tx.order \in DOMAIN orders /\ tx.product \in Products
          /\ orders[tx.order].status = "Created"
          /\ orders' = [orders EXCEPT ![tx.order].status = "Funded"]
          /\ orders[tx.order].product = tx.product /\ orders[tx.order].visit = tx.visit
          /\ allowance' \in Nat /\ balance' \in Nat
      BY <1>1, <2>1, <3>1, ExecutionPays
    <3>3. PICK n \in DOMAIN orders : n = tx.order
      BY <3>2
    <3>4. /\ orders[n].status = "Created" /\ orders' = [orders EXCEPT ![n].status = "Funded"]
          /\ orders[n].product = tx.product /\ orders[n].visit = tx.visit
      BY <3>2, <3>3
    <3>5. /\ orders' \in Seq(OrdersOfCheckout) /\ OrdersKept /\ DOMAIN orders' = DOMAIN orders
          /\ \A p \in Products :
               /\ FundedNow(p)' = IF p = tx.product /\ tx.visit = visits
                                  THEN FundedNow(p) \cup {n} ELSE FundedNow(p)
               /\ Charged(p)' \subseteq Charged(p) \cup {n}
               /\ p # tx.product => Charged(p)' \subseteq Charged(p)
      BY <1>0, <1>2, <1>4, <3>4, PaymentBooks
    <3>6. n \in Charged(tx.product)
      <4>1. 1 \in DOMAIN pool /\ pool[1] = tx
        BY <1>1, PoolHead
      <4>2. n \in Orphaned
        BY <1>1, <2>1, <3>3, <4>1 DEF Orphaned
      <4>3. QED
        BY <3>4, <4>2 DEF Charged
    <3>7. \A p \in Products : Charged(p)' \subseteq Charged(p)
      BY <3>5, <3>6
    <3>8. QED
      BY <2>1, <3>2, <3>3, <3>5, <3>7
  <2>2. ASSUME NEW ok \in BOOLEAN, Mined(tx, ok), tx.kind # "fund" \/ ~ok
        PROVE  /\ OrdersKept /\ orders' \in Seq(OrdersOfCheckout)
               /\ allowance' \in Nat /\ balance' \in Nat
               /\ \A n \in DOMAIN orders' \ DOMAIN orders : orders'[n].visit <= visits
               /\ \A p \in Products : FundedNow(p)' = FundedNow(p)
                                      /\ Charged(p)' \subseteq Charged(p)
               /\ tx.kind = "create" => allowance' = allowance
    <3>1. /\ Grown /\ OrdersKept /\ balance' = balance /\ allowance' \in Nat
          /\ tx.kind = "create" => allowance' = allowance
      BY <1>1, <2>2, ExecutionGrows DEF Mined
    <3>2. \A p \in Products : FundedNow(p)' = FundedNow(p) /\ Charged(p)' \subseteq Charged(p)
      BY <1>0, <1>2, <1>4, <3>1, GrownBooks, GrownOwing
    <3>3. QED
      BY <1>0, <3>1, <3>2 DEF Grown, ChainTyped
  <2>3. QED
    BY <1>1, <2>1, <2>2
<1>6. PoolSound'
  BY <1>2, <1>5, NobodyPool
<1>7. OrderSound'
  BY <1>2, <1>5, NobodyOrder
<1>8. BooksSound' /\ OpenSound' /\ ChargedSound'
  <2>1. ASSUME NEW p \in Products
        PROVE  /\ FundedNow(p)' = FundedNow(p) \/ OpenEnded(p) \/ ~PageOpen
               /\ PageOpen /\ OpenEnded(p) => OnePayment(p)'
    <3>1. FundedNow(p)' = FundedNow(p) \/ OpenEnded(p) \/ ~PageOpen
      BY <1>1, <1>5 DEF TransactionSound, Warned
    <3>2. ASSUME PageOpen, OpenEnded(p) PROVE OnePayment(p)'
      BY <1>1, <1>2, <1>5, <3>2, OnePaymentMined
    <3>3. QED
      BY <3>1, <3>2
  <2>2. QED
    BY <1>2, <1>5, <2>1, NobodyBooks
<1>9. AllowanceSound'
  <2> SUFFICES ASSUME NothingLost
               PROVE  /\ \A n \in DOMAIN pool' : pool'[n].run = tap \/ pool'[n].kind = "create"
                      /\ Here'.pc \in Executing => allowance' >= Total' - Sum(Settled)'
    BY <1>2 DEF AllowanceSound, NothingLost
  <2>1. tx.kind = "create"
    <3>1. pool[1] = tx /\ 1 \in DOMAIN pool
      BY <1>1, PoolHead
    <3>2. QED
      BY <1>0, <1>1, <3>1, TapFacts DEF AllowanceSound
  <2>2. allowance' = allowance /\ Settled' = Settled
    BY <1>2, <1>5, <2>1 DEF Settled
  <2>3. Here' = Here /\ Total' = Total /\ Sum(Settled)' = Sum(Settled)
    BY <1>2, <2>2 DEF Here, Total, Sum
  <2>4. \A n \in DOMAIN pool' : pool'[n].run = tap \/ pool'[n].kind = "create"
    BY <1>0, PoolHead DEF AllowanceSound
  <2>5. QED
    BY <1>0, <2>2, <2>3, <2>4 DEF AllowanceSound
<1>10. QED
  BY <1>3, <1>4, <1>5, <1>6, <1>7, <1>8, <1>9 DEF CheckoutInv, Typed, ChainTyped

\* A transaction that the run waits for.
LEMMA OwnPool ==
  ASSUME CheckoutInv, Running, PageKept, OrdersKept,
         pool # <<>>, pool' = Tail(pool), Head(pool).run = tap
  PROVE  PoolSound' /\ \A n \in DOMAIN pool' : pool'[n].run # tap
<1>1. ASSUME NEW n \in DOMAIN pool'
      PROVE  pool'[n].run # tap /\ TransactionSound(pool[n])'
  <2>1. /\ n + 1 \in DOMAIN pool /\ pool'[n] = pool[n + 1] /\ n + 1 # 1
        /\ 1 \in DOMAIN pool /\ pool[1].run = tap
    BY PoolHead
  <2>2. pool[n + 1].run # tap
    BY <2>1 DEF CheckoutInv, PoolSound
  <2>3. PICK t \in Transactions : t = pool[n + 1] /\ TransactionSound(t)
    BY <2>1, OrdersAre DEF CheckoutInv, PoolSound, Typed
  <2>4. TransactionSound(t)'
    BY <2>2, <2>3, OthersTransaction
  <2>5. QED
    BY <2>1, <2>2, <2>3, <2>4
<1>2. QED
  BY <1>1 DEF PoolSound

\* What the receipt of a transaction that pays nothing does.
LEMMA OwnTurn ==
  ASSUME CheckoutInv, MineRest, pool # <<>>, pool' = Tail(pool),
         Head(pool).run = tap, Turn, Grown, OrderSound', Told',
         allowance' \in Nat, balance' \in Nat,
         Here'.pc \in Executing =>
             (Here.pc \in Executing /\ allowance' = allowance) \/ allowance' >= Total
  PROVE  CheckoutInv'
<1>0. /\ Typed /\ ChainTyped /\ ScreenMove /\ Running /\ PageKept /\ UNCHANGED lost
  BY DEF CheckoutInv, Typed, Turn, ScreenMove, MineRest, pageRest
<1>1. OrdersKept
  BY GrownKept
<1>2. CartSound' /\ VisitTyped' /\ BooksSound' /\ ChargedSound'
  BY <1>0, TailOrphaned, SameBooks
<1>3. PoolSound' /\ pool' \in Seq(Transactions) /\ OpenSound'
  BY <1>0, <1>1, OwnPool, PoolHead, ToldOpen
<1>4. AllowanceSound'
  <2>1. NothingLost => \A n \in DOMAIN pool' : pool'[n].run = tap \/ pool'[n].kind = "create"
    BY <1>0, PoolHead DEF CheckoutInv, AllowanceSound
  <2>2. QED
    BY <1>0, <2>1, TurnAllowance
<1>5. ChainTyped' /\ ScreenTyped' /\ ScreenSound'
  BY <1>0, <1>3 DEF ChainTyped, ScreenMove, Grown
<1>6. QED
  BY <1>2, <1>3, <1>4, <1>5 DEF CheckoutInv, Typed

LEMMA NextOrder ==
  ASSUME ChainTyped
  PROVE  Len(orders) \in Nat /\ Len(orders) + 1 \in Nat
BY DEF ChainTyped

LEMMA CreatedRun ==
  ASSUME Typed,
         run' = [run EXCEPT ![tap] =
                    [pc |-> "ask fund", at |-> @.at, order |-> Len(orders) + 1]]
  PROVE  \E here \in [pc : Pcs, at : Nat, order : Nat] :
             /\ here.pc = "ask fund" /\ here.at = Here.at /\ here.order = Len(orders) + 1
             /\ run' = [run EXCEPT ![tap] = here]
<1> DEFINE it == [pc |-> "ask fund", at |-> Here.at, order |-> Len(orders) + 1]
<1>1. ScreenTyped /\ ChainTyped
  BY ONLY Typed DEF Typed
<1>2. Here.at \in Nat
  BY ONLY <1>1, TapFacts DEF ScreenTyped, RunTyped, Here
<1>3. Len(orders) + 1 \in Nat
  BY ONLY <1>1, NextOrder
<1>4. it \in [pc : Pcs, at : Nat, order : Nat]
  BY ONLY <1>2, <1>3 DEF Pcs, Executing, Funding
<1>5. run' = [run EXCEPT ![tap] = it]
  BY Zenon DEF Here
<1>6. it.pc = "ask fund" /\ it.at = Here.at /\ it.order = Len(orders) + 1
  BY ONLY TRUE
<1> HIDE DEF it
<1>7. QED
  BY <1>4, <1>5, <1>6, Zenon

LEMMA CreatedTurn ==
  ASSUME Typed, ScreenSound, UNCHANGED <<pageRest, cartRest>>, Here.pc = "create",
         status' = [status EXCEPT ![Group(tap)] = "funding"],
         NEW here \in [pc : Pcs, at : Nat, order : Nat],
         here.pc = "ask fund", here.at = Here.at, run' = [run EXCEPT ![tap] = here],
         UNCHANGED <<phase, failure, cart, snapshot>>
  PROVE  /\ Turn /\ Here'.pc = "ask fund" /\ Here'.order = here.order
         /\ Group(tap)' = Group(tap)
<1>0. ScreenTyped /\ VisitTyped /\ PageKept /\ Running
  BY RunningWhen DEF Typed, PageKept, pageRest, cartRest
<1>2. Here' = here /\ RunTyped'
  BY <1>0, RunOf
<1>3. Here'.pc = "ask fund" /\ Here'.at = Here.at /\ Here'.order = here.order
  BY <1>2
<1>4. Group(tap)' = Group(tap)
  BY <1>3 DEF Group, Here
<1>5. /\ Here.at \in DOMAIN GroupOrder /\ Here.at \in Nat
      /\ Group(tap) = GroupOrder[Here.at] /\ Group(tap) \in Groups
      /\ Group(tap) \in Products /\ status[Group(tap)] = "creating"
  BY AtFacts DEF Executing, Creating
<1>6. /\ status' \in [Products -> Statuses] /\ Paying(status') = Paying(status)
  BY <1>0, <1>5 DEF ScreenTyped, Statuses, Paying
<1>7. ScreenTyped'
  BY <1>0, <1>2, <1>6 DEF ScreenTyped
<1>8. Groups' = Groups /\ PageOpen' /\ token' = token
  BY <1>0 DEF Groups, PageKept, PageOpen, Running
<1>9. PhaseSound' /\ PageSound'
  BY <1>0, <1>3, <1>8 DEF PhaseSound, PageSound, ScreenSound, Running, Before, Executing,
     Creating, Funding, Settling
<1>10. ASSUME NEW n \in DOMAIN GroupOrder
       PROVE  status'[GroupOrder[n]] = StatusAt(n)'
  <2>1. /\ n \in Nat /\ GroupOrder[n] \in Products
        /\ n # Here.at => GroupOrder[n] # Group(tap)
    BY <1>5, GroupFacts
  <2>2. StatusAt(n)' = StatusWhile(Here', n, Groups)
    BY <1>8 DEF StatusAt
  <2>3. status[GroupOrder[n]] = StatusWhile(Here, n, Groups)
    BY DEF ScreenSound, StatusSound, StatusAt, Executing, Creating
  <2>4. CASE n = Here.at
    <3>1. StatusWhile(Here', n, Groups) = "funding"
      BY <1>3, <1>5, <2>1, <2>4, StatusWhileFunding
    <3>2. status'[GroupOrder[n]] = "funding"
      BY <1>0, <1>5, <2>4 DEF ScreenTyped
    <3>3. QED
      BY <2>2, <3>1, <3>2
  <2>5. CASE n # Here.at
    <3>1. status'[GroupOrder[n]] = status[GroupOrder[n]]
      BY <1>0, <1>5, <2>1, <2>5 DEF ScreenTyped
    <3>2. CASE GroupOrder[n] \notin Groups \/ n > Here.at
      <4>1. StatusWhile(Here', n, Groups) = "pending"
        <5>1. Here'.at \in Nat /\ (GroupOrder[n] \notin Groups \/ n > Here'.at)
          BY <1>3, <1>5, <3>2
        <5>2. QED
          BY ONLY <2>1, <5>1, StatusWhilePending
      <4>2. StatusWhile(Here, n, Groups) = "pending"
        BY ONLY <1>5, <2>1, <3>2, StatusWhilePending
      <4>3. QED
        BY <2>2, <2>3, <3>1, <4>1, <4>2
    <3>3. CASE GroupOrder[n] \in Groups /\ n < Here.at
      <4>1. StatusWhile(Here', n, Groups) = "success"
        <5>1. Here'.at \in Nat /\ n < Here'.at
          BY <1>3, <1>5, <3>3
        <5>2. QED
          BY ONLY <2>1, <3>3, <5>1, StatusWhilePaid
      <4>2. StatusWhile(Here, n, Groups) = "success"
        BY ONLY <1>5, <2>1, <3>3, StatusWhilePaid
      <4>3. QED
        BY <2>2, <2>3, <3>1, <4>1, <4>2
    <3>4. n > Here.at \/ n < Here.at
      BY ONLY <1>5, <2>1, <2>5
    <3>5. QED
      BY <3>2, <3>3, <3>4, Zenon
  <2>6. QED
    BY <2>4, <2>5
<1>11. StatusSound'
  <2>1. \A p \in Products : status'[p] = "success" => p \in Groups'
    BY <1>6, <1>8 DEF Paying, ScreenSound, StatusSound
  <2>2. \A p \in Products : failure'[p] = "none"
    BY <1>0 DEF ScreenSound, StatusSound, Running
  <2>3. QED
    BY <1>3, <1>4, <1>5, <1>8, <1>10, <2>1, <2>2 DEF StatusSound, Before
<1>12. CartFollows
  BY <1>0, <1>3 DEF CartFollows, ScreenTyped
<1>13. PaidNow' = PaidNow
  BY <1>3, <1>6, PaidNowSame DEF Settling
<1>14. QED
  BY <1>0, <1>3, <1>4, <1>7, <1>9, <1>11, <1>12, <1>13 DEF Turn, ScreenMove, ScreenSound

LEMMA ApprovedInv ==
  ASSUME CheckoutInv, MineRest, pool # <<>>, pool' = Tail(pool),
         Head(pool).run = tap, Head(pool).kind = "approve", NEW ok \in BOOLEAN,
         Mined(Head(pool), ok)
  PROVE  CheckoutInv'
<1>1. PICK tx \in Transactions : tx = Head(pool) /\ TransactionSound(tx)
  BY PoolHead
<1>2. Here.pc = "approve" /\ tx.amount = Total /\ Own(tx)
  BY <1>1 DEF TransactionSound, Own
<1>3. /\ Typed /\ ScreenSound /\ UNCHANGED <<pageRest, cartRest>> /\ PageKept
      /\ balance \in Nat /\ Total \in Nat
  BY SettledNat DEF CheckoutInv, Typed, ChainTyped, MineRest, PageKept, pageRest, cartRest
<1>4. /\ Grown /\ balance' = balance /\ allowance' \in Nat
      /\ ok => allowance' = tx.amount
  BY <1>1, ExecutionGrows DEF Mined
<1>5. Receipt(tap, tx, ok)
  BY <1>1, TapFacts DEF Mined
<1>6. CASE ok
  <2>1. Seller(tap, 1, status) /\ UNCHANGED failure
    BY <1>1, <1>5, <1>6 DEF Receipt
  <2>2. StatusUpTo(status, 1) /\ Running /\ status \in [Products -> Statuses]
    BY <1>2, <1>3, PendingUpTo, RunningWhen DEF Idle, Before, Typed, ScreenTyped
  <2>3. ScreenMove /\ Here'.pc \in {"ask create", "ended"} /\ Paying(status') = Paying(status)
    BY <1>3, <2>1, <2>2, SellerMove
  <2>4. PaidNow' = PaidNow
    BY <1>2, <2>3, PaidNowSame DEF Settling
  <2>5. Turn
    BY <2>2, <2>3, <2>4 DEF Turn
  <2>6. OrderSound'
    BY <1>4, <2>3, <2>5, TurnOrder DEF Funding, Settling
  <2>7. allowance' >= Total
    BY <1>2, <1>3, <1>4, <1>6
  <2>8. Told'
    BY <2>1, <2>2, SameTold
  <2>9. QED
    BY <1>3, <1>4, <2>5, <2>6, <2>7, <2>8, OwnTurn
<1>7. CASE ~ok
  <2>1. Fail(tap)
    BY <1>1, <1>5, <1>7 DEF Receipt
  <2>2. Turn /\ Here'.pc = "ended" /\ UNCHANGED failure
    BY <1>2, <1>3, <2>1, StopTurn DEF Before, Reasons
  <2>3. OrderSound'
    BY <1>4, <2>2, TurnOrder DEF Funding, Settling
  <2>4. Told'
    BY <2>2, SameTold DEF Turn
  <2>5. QED
    BY <1>3, <1>4, <2>2, <2>3, <2>4, OwnTurn DEF Executing, Creating, Funding, Settling
<1>8. QED
  BY <1>6, <1>7

LEMMA CreatedInv ==
  ASSUME CheckoutInv, MineRest, pool # <<>>, pool' = Tail(pool),
         Head(pool).run = tap, Head(pool).kind = "create", NEW ok \in BOOLEAN,
         Mined(Head(pool), ok)
  PROVE  CheckoutInv'
<1>1. PICK tx \in Transactions : tx = Head(pool) /\ TransactionSound(tx)
  BY PoolHead
<1>2. /\ Here.pc = "create" /\ tx.product = Group(tap) /\ tx.amount = token[Group(tap)]
      /\ tx.visit = visits
  BY <1>1 DEF TransactionSound, Own
<1>3. /\ Typed /\ ScreenSound /\ UNCHANGED <<pageRest, cartRest>> /\ PageKept
      /\ balance \in Nat /\ orders \in Seq(OrdersOfCheckout)
  BY DEF CheckoutInv, Typed, ChainTyped, MineRest, PageKept, pageRest, cartRest
<1>4. /\ Grown /\ balance' = balance /\ allowance' \in Nat /\ allowance' = allowance
      /\ ok => orders' = Append(orders, [product |-> tx.product, qty |-> tx.amount,
                                         status |-> "Created", visit |-> tx.visit])
  BY <1>1, ExecutionGrows DEF Mined
<1>5. Receipt(tap, tx, ok)
  BY <1>1, TapFacts DEF Mined
<1>6. Here.pc \in Creating \cup Funding /\ Here.pc \in Executing
  BY <1>2 DEF Creating, Executing
<1>7. ASSUME NEW why \in Reasons, SellerFails(tap, why), why # "no receipt"
      PROVE  CheckoutInv'
  <2>1. Turn /\ Here'.pc = "ended" /\ Told'
    BY <1>3, <1>6, <1>7, StopTurn
  <2>2. OrderSound'
    BY <1>4, <2>1, TurnOrder DEF Funding, Settling
  <2>3. QED
    BY <1>3, <1>4, <1>6, <2>1, <2>2, OwnTurn
<1>8. CASE ok
  <2>1. Created(tap)
    BY <1>1, <1>5, <1>8 DEF Receipt
  <2>2. CASE SellerFails(tap, "canceled before funding")
    BY <1>7, <2>2 DEF Reasons
  <2>3. CASE /\ status' = [status EXCEPT ![Group(tap)] = "funding"]
             /\ UNCHANGED <<phase, failure, cart, snapshot>>
             /\ run' = [run EXCEPT ![tap] =
                    [pc |-> "ask fund", at |-> @.at, order |-> Len(orders) + 1]]
    <3>1. /\ Turn /\ Here'.pc = "ask fund" /\ Here'.order = Len(orders) + 1
          /\ Group(tap)' = Group(tap)
      <4>1. PICK here \in [pc : Pcs, at : Nat, order : Nat] :
                /\ here.pc = "ask fund" /\ here.at = Here.at /\ here.order = Len(orders) + 1
                /\ run' = [run EXCEPT ![tap] = here]
        BY ONLY <1>3, <2>3, CreatedRun
      <4>2. /\ status' = [status EXCEPT ![Group(tap)] = "funding"]
            /\ UNCHANGED <<phase, failure, cart, snapshot>>
        BY ONLY <2>3
      <4>3. QED
        BY ONLY <1>2, <1>3, <4>1, <4>2, CreatedTurn
    <3> DEFINE order == [product |-> tx.product, qty |-> tx.amount,
                         status |-> "Created", visit |-> tx.visit]
    <3>2. /\ Len(orders) + 1 \in DOMAIN orders' /\ orders'[Len(orders) + 1] = order
      <4>1. orders' = Append(orders, order)
        BY <1>4, <1>8
      <4> HIDE DEF order
      <4>2. QED
        BY <1>3, <4>1
    <3>3. \A n \in DOMAIN orders' : orders'[n].visit <= visits
      BY <1>4 DEF CheckoutInv, OrderSound, Grown
    <3>4. token' = token /\ visits' = visits
      BY <1>3 DEF PageKept
    <3>5. /\ orders'[Here'.order].product = Group(tap)' /\ orders'[Here'.order].visit = visits
          /\ orders'[Here'.order].qty = token[Group(tap)']
      <4>1. /\ order.product = Group(tap) /\ order.visit = visits
            /\ order.qty = token[Group(tap)]
        BY <1>2
      <4> HIDE DEF order
      <4>2. QED
        BY <3>1, <3>2, <4>1
    <3>6. OrderSound'
      BY <1>4, <3>1, <3>2, <3>3, <3>4, <3>5 DEF OrderSound, Settling, CheckoutInv, Grown
    <3> HIDE DEF order
    <3>7. Told'
      BY <2>3, <3>1, SameTold DEF Turn
    <3>8. QED
      BY <1>3, <1>4, <1>6, <3>1, <3>6, <3>7, OwnTurn
  <2>4. QED
    BY <2>1, <2>2, <2>3 DEF Created
<1>9. CASE ~ok
  <2>1. SellerFails(tap, "rejected by the contract")
    BY <1>1, <1>5, <1>9 DEF Receipt
  <2>2. QED
    BY <1>7, <2>1 DEF Reasons
<1>10. QED
  BY <1>8, <1>9

LEMMA UnpaidInv ==
  ASSUME CheckoutInv, MineRest, pool # <<>>, pool' = Tail(pool),
         Head(pool).run = tap, Head(pool).kind = "fund", Mined(Head(pool), FALSE)
  PROVE  CheckoutInv'
<1>1. PICK tx \in Transactions : tx = Head(pool) /\ TransactionSound(tx)
  BY PoolHead
<1>2. Here.pc = "fund"
  BY <1>1 DEF TransactionSound, Own
<1>3. Typed /\ ScreenSound /\ PageKept /\ balance \in Nat
  BY DEF CheckoutInv, Typed, ChainTyped, MineRest, PageKept, pageRest, cartRest
<1>4. /\ Grown /\ balance' = balance /\ allowance' \in Nat /\ allowance' = allowance
  BY <1>1, ExecutionGrows DEF Mined
<1>5. SellerFails(tap, "rejected by the contract")
  BY <1>1, TapFacts DEF Mined, Receipt, FundAccepted
<1>6. Here.pc \in Creating \cup Funding /\ Here.pc \in Executing
  BY <1>2 DEF Funding, Executing
<1>7. Turn /\ Here'.pc = "ended" /\ Told'
  BY <1>3, <1>5, <1>6, StopTurn DEF Reasons
<1>8. OrderSound'
  BY <1>4, <1>7, TurnOrder DEF Funding, Settling
<1>9. QED
  BY <1>3, <1>4, <1>6, <1>7, <1>8, OwnTurn

\* The payment of the seller the run is at.
LEMMA PaidBooks ==
  ASSUME CheckoutInv, Running, ScreenMove, OrdersKept, NEW g \in Products,
         PaidNow' = PaidNow \cup {g}, g \notin PaidNow, Here'.pc # "ended",
         NEW n \in DOMAIN orders, orders[n].qty = token[g],
         FundedNow(g)' = FundedNow(g) \cup {n}, UNCHANGED lost,
         \A p \in Products : p # g => FundedNow(p)' = FundedNow(p),
         \A p \in Products :
            Owing(p)' \in Nat /\ Owing(p)' <= Owing(p) + (IF p = g THEN token[g] ELSE 0)
  PROVE  BooksSound' /\ ChargedSound'
<1>0. /\ Typed /\ ScreenTyped /\ VisitTyped /\ ChainTyped /\ PageOpen
      /\ token' = token /\ visits' = visits /\ wished' = wished
      /\ CartFollows
  BY DEF CheckoutInv, Typed, ScreenMove, PageKept, Running
<1>1. PageOpen' /\ cart' = cart
  BY <1>0 DEF PageOpen, CartFollows
<1>2. \A p \in Products : ~OpenEnded(p)
  BY NoOtherPayment
<1>3. FundedNow(g) = {}
  BY <1>0, <1>2 DEF CheckoutInv, BooksSound
<1>4. PaidOnce(g)'
  <2>1. FundedNow(g)' = {n} /\ orders'[n].qty = token'[g]
    BY <1>0, <1>3 DEF OrdersKept
  <2>2. QED
    BY <2>1 DEF PaidOnce
<1>5. ASSUME NEW p \in Products, p # g
      PROVE  \/ p \in PaidNow' /\ PaidOnce(p)'
             \/ p \notin PaidNow' /\ FundedNow(p)' = {}
  <2>1. FundedNow(p)' = FundedNow(p) /\ (p \in PaidNow' <=> p \in PaidNow)
    BY <1>5
  <2>2. CASE p \in PaidNow
    <3>1. PICK m \in FundedNow(p) : FundedNow(p) = {m} /\ orders[m].qty = token[p]
      BY <1>0, <1>2, <2>2 DEF CheckoutInv, BooksSound, PaidOnce
    <3>2. orders'[m].qty = orders[m].qty
      BY DEF OrdersKept, FundedNow
    <3>3. PaidOnce(p)'
      BY <1>0, <2>1, <3>1, <3>2 DEF PaidOnce
    <3>4. QED
      BY <2>1, <2>2, <3>3
  <2>3. CASE p \notin PaidNow
    BY <1>0, <1>2, <2>1, <2>3 DEF CheckoutInv, BooksSound
  <2>4. QED
    BY <2>2, <2>3
<1>6. BooksSound'
  BY <1>4, <1>5 DEF BooksSound
<1>7. ASSUME NEW p \in Products
      PROVE  Owing(p)' + cart'[p] <= wished'[p] + NotYetOut(p)' + lost'[p]
  <2>1. /\ Owing(p) \in Nat /\ Owing(p)' \in Nat /\ cart[p] \in Nat /\ wished[p] \in Nat
        /\ token[p] \in Nat /\ lost[p] \in Nat
    BY <1>0, OwingNat DEF ScreenTyped, VisitTyped
  <2>2. Owing(p) + cart[p] <= wished[p] + NotYetOut(p) + lost[p]
    BY DEF CheckoutInv, ChargedSound
  <2>3. NotYetOut(p) = IF p \in PaidNow THEN token[p] ELSE 0
    BY DEF NotYetOut, Running
  <2>4. NotYetOut(p)' = IF p \in PaidNow' THEN token[p] ELSE 0
    BY <1>0, <1>1 DEF NotYetOut
  <2>5. cart'[p] = cart[p] /\ wished'[p] = wished[p] /\ lost'[p] = lost[p]
    BY <1>0, <1>1
  <2>6. CASE p = g
    <3>1. Owing(p)' <= Owing(p) + token[p] /\ NotYetOut(p) = 0 /\ NotYetOut(p)' = token[p]
      BY <2>3, <2>4, <2>6
    <3>2. QED
      BY ONLY <2>1, <2>2, <2>5, <3>1
  <2>7. CASE p # g
    <3>1. Owing(p)' <= Owing(p) + 0 /\ (p \in PaidNow' <=> p \in PaidNow)
      BY <2>7
    <3>2. NotYetOut(p)' = NotYetOut(p) /\ NotYetOut(p) \in Nat
      BY <2>1, <2>3, <2>4, <3>1
    <3>3. QED
      BY ONLY <2>1, <2>2, <2>5, <3>1, <3>2
  <2>8. QED
    BY <2>6, <2>7
<1>8. ChargedSound'
  BY <1>0, <1>7 DEF ChargedSound
<1>9. QED
  BY <1>6, <1>8

\* What the allowance loses, the orders still to be paid lose.
LEMMA PaidAllowance ==
  ASSUME CheckoutInv, Running, PageKept, UNCHANGED lost, NEW g \in Products,
         allowance' = allowance - token[g], Here.pc \in Executing,
         FundedNow(g) = {}, FundedNow(g)' # {},
         \A p \in Products : p # g => FundedNow(p)' = FundedNow(p),
         NothingLost => \A n \in DOMAIN pool' : pool'[n].run = tap \/ pool'[n].kind = "create"
  PROVE  AllowanceSound'
<1>0. /\ Typed /\ token' = token /\ token \in [Products -> Nat]
  BY DEF CheckoutInv, Typed, VisitTyped, PageKept
<1>1. /\ Settled[g] = 0 /\ Settled'[g] = token[g]
      /\ \A p \in Products \ {g} : Settled'[p] = Settled[p]
      /\ \A p \in Products : Settled'[p] \in Int /\ Settled[p] \in Int
  BY <1>0 DEF Settled
<1>2. Sum(Settled)' = SumFunctionOnSet(Settled', Products)
  BY DEF Sum
<1>3. SumFunctionOnSet(Settled', Products)
        = SumFunctionOnSet(Settled, Products) - SumFunctionOnSet(Settled, {g})
            + SumFunctionOnSet(Settled', {g})
  BY <1>1, ProductsFinite, SumChange
<1>4. SumFunctionOnSet(Settled, {g}) = 0 /\ SumFunctionOnSet(Settled', {g}) = token[g]
  BY <1>1, SumSingleton
<1>5. /\ Sum(Settled) \in Nat /\ Total \in Nat /\ allowance \in Nat /\ token[g] \in Nat
      /\ Total' = Total
  BY <1>0, SettledNat DEF Total, Sum
<1>6. Sum(Settled) = SumFunctionOnSet(Settled, Products)
  BY DEF Sum
<1>7. Sum(Settled)' = Sum(Settled) + token[g]
  BY ONLY <1>2, <1>3, <1>4, <1>5, <1>6
<1>8. NothingLost => allowance >= Total - Sum(Settled)
  BY DEF CheckoutInv, AllowanceSound
<1>9. allowance >= Total - Sum(Settled) => allowance' >= Total' - Sum(Settled)'
  BY ONLY <1>5, <1>7, allowance' = allowance - token[g]
<1>10. NothingLost' = NothingLost
  BY DEF NothingLost
<1>11. QED
  BY <1>8, <1>9, <1>10 DEF AllowanceSound

LEMMA PaidInv ==
  ASSUME CheckoutInv, MineRest, pool # <<>>, pool' = Tail(pool),
         Head(pool).run = tap, Head(pool).kind = "fund",
         Executes(Head(pool)), Mined(Head(pool), TRUE)
  PROVE  CheckoutInv'
<1>1. PICK tx \in Transactions : tx = Head(pool) /\ TransactionSound(tx)
  BY PoolHead
<1>0. PICK g \in Products : g = tx.product
  BY <1>1 DEF TransactionSound
<1>2. /\ Here.pc = "fund" /\ tx.product = g /\ tx.amount = token[g] /\ g = Group(tap)
      /\ tx.visit = visits /\ tx.order = Here.order
  BY <1>0, <1>1 DEF TransactionSound, Own
<1>3. /\ Typed /\ ScreenTyped /\ ScreenSound /\ CartSound /\ ChainTyped /\ PageKept
      /\ visits' = visits /\ token' = token
      /\ UNCHANGED lost /\ Orphaned' \subseteq Orphaned
  BY TailOrphaned DEF CheckoutInv, Typed, MineRest, PageKept, pageRest, cartRest
<1>4. Goto(tap, "snapshot") /\ UNCHANGED <<phase, status, failure, cart, snapshot>>
  BY <1>1, TapFacts DEF Mined, Receipt, FundAccepted
<1>5. Running
  BY <1>2, <1>3, RunningWhen
<1>6. /\ g \in Products /\ status[g] = "funding" /\ phase = "executing"
  BY <1>2, <1>3, AtFacts DEF Executing, Creating, Funding, ScreenSound, PhaseSound
<1>7. /\ ScreenMove /\ Here'.pc = "snapshot" /\ Here'.order = Here.order
      /\ Group(tap)' = g
  BY <1>2, <1>3, <1>4, <1>5, <1>6, GotoMove DEF Pcs, Executing, Funding, Settling
<1>8. PaidNow' = PaidNow \cup {g} /\ g \notin PaidNow
  BY <1>2, <1>4, <1>6, <1>7 DEF PaidNow, Settling
<1>9. Execution(tx, TRUE)
  BY <1>1 DEF Mined
<1>10. /\ Here.order \in DOMAIN orders /\ orders[Here.order].status = "Created"
       /\ orders' = [orders EXCEPT ![Here.order].status = "Funded"]
       /\ orders[Here.order].product = g /\ orders[Here.order].qty = token[g]
       /\ orders[Here.order].visit = visits
       /\ allowance' \in Nat /\ balance' \in Nat /\ allowance' = allowance - token[g]
  BY <1>1, <1>2, <1>9, ExecutionPays
<1>11. /\ orders' \in Seq(OrdersOfCheckout) /\ OrdersKept /\ DOMAIN orders' = DOMAIN orders
       /\ orders'[Here.order].status = "Funded"
       /\ FundedNow(g)' = FundedNow(g) \cup {Here.order}
       /\ \A p \in Products : p # g => FundedNow(p)' = FundedNow(p)
       /\ \A p \in Products :
             Owing(p)' \in Nat /\ Owing(p)' <= Owing(p) + (IF p = g THEN token[g] ELSE 0)
  <2>0. PICK n \in DOMAIN orders : n = Here.order
    BY <1>10
  <2>1. /\ orders[n].status = "Created" /\ orders' = [orders EXCEPT ![n].status = "Funded"]
        /\ orders[n].product = g /\ orders[n].qty = token[g] /\ orders[n].visit = visits
    BY <1>10, <2>0
  <2>2. /\ orders' \in Seq(OrdersOfCheckout) /\ OrdersKept /\ DOMAIN orders' = DOMAIN orders
        /\ orders'[n].status = "Funded"
        /\ \A p \in Products :
               /\ FundedNow(p)' = IF p = orders[n].product /\ orders[n].visit = visits
                                  THEN FundedNow(p) \cup {n} ELSE FundedNow(p)
               /\ Charged(p)' \subseteq Charged(p) \cup {n}
               /\ p # orders[n].product => Charged(p)' \subseteq Charged(p)
    BY <1>3, <2>1, PaymentBooks
  <2>3. ASSUME NEW p \in Products
        PROVE  Owing(p)' \in Nat /\ Owing(p)' <= Owing(p) + (IF p = g THEN token[g] ELSE 0)
    <3>1. /\ Charged(p)' \subseteq Charged(p) \cup {n}
          /\ p # g => Charged(p)' \subseteq Charged(p)
      BY <2>1, <2>2
    <3>2. /\ Owing(p)' \in Nat /\ Owing(p)' <= Owing(p) + orders[n].qty
          /\ Charged(p)' \subseteq Charged(p) => Owing(p)' <= Owing(p)
      BY <1>3, <2>2, <3>1, OwingMost
    <3>3. Owing(p) \in Nat
      BY <1>3, OwingNat
    <3>4. QED
      BY <2>1, <3>1, <3>2, <3>3
  <2>4. QED
    BY <1>6, <2>0, <2>1, <2>2, <2>3
<1>12. BooksSound' /\ ChargedSound' /\ OpenSound'
  <2>1. Here'.pc # "ended" /\ OpenSound'
    BY <1>4, <1>5, <1>7, SameTold, ToldOpen
  <2>2. PICK n \in DOMAIN orders : n = Here.order /\ orders[n].qty = token[g]
    BY <1>10
  <2>3. FundedNow(g)' = FundedNow(g) \cup {n}
    BY <1>11, <2>2
  <2>4. BooksSound' /\ ChargedSound'
    BY <1>3, <1>5, <1>6, <1>7, <1>8, <1>11, <2>1, <2>2, <2>3, PaidBooks
  <2>5. QED
    BY <2>1, <2>4
<1>13. CartSound' /\ VisitTyped'
  <2>1. lost' \in [Products \cup {Nobody} -> Nat]
    BY <1>3 DEF Typed, VisitTyped
  <2>2. QED
    BY <1>3, <1>7, <2>1, TurnCart
<1>14. /\ PoolSound' /\ pool' \in Seq(Transactions)
       /\ \A n \in DOMAIN pool' : n + 1 \in DOMAIN pool /\ pool'[n] = pool[n + 1]
  BY <1>3, <1>5, <1>11, OwnPool, PoolHead
<1>15. OrderSound'
  <2>1. \A n \in DOMAIN orders' : orders'[n].visit <= visits'
    BY <1>3, <1>11 DEF CheckoutInv, OrderSound, OrdersKept
  <2>2. /\ orders'[Here.order].product = g /\ orders'[Here.order].visit = visits'
        /\ orders'[Here.order].qty = token'[g]
    BY <1>3, <1>10, <1>11 DEF OrdersKept
  <2>3. QED
    BY <1>7, <1>10, <1>11, <2>1, <2>2 DEF OrderSound
<1>16. AllowanceSound'
  <2>1. NothingLost => \A n \in DOMAIN pool' : pool'[n].run = tap \/ pool'[n].kind = "create"
    BY <1>14 DEF CheckoutInv, AllowanceSound
  <2>2. FundedNow(g) = {}
    <3>1. ~OpenEnded(g) /\ PageOpen
      BY <1>5, <1>6, NoOtherPayment DEF Running
    <3>2. QED
      BY <1>6, <1>8, <3>1 DEF CheckoutInv, BooksSound
  <2>3. FundedNow(g)' # {} /\ Here.pc \in Executing
    BY <1>2, <1>11 DEF Executing, Funding
  <2>4. /\ allowance' = allowance - token[g] /\ g \in Products
        /\ \A p \in Products : p # g => FundedNow(p)' = FundedNow(p)
    BY <1>6, <1>10, <1>11
  <2>5. QED
    BY <1>3, <1>5, <2>1, <2>2, <2>3, <2>4, PaidAllowance
<1>17. ChainTyped' /\ ScreenTyped' /\ ScreenSound'
  BY <1>7, <1>10, <1>11, <1>14 DEF ChainTyped, ScreenMove
<1>18. QED
  BY <1>12, <1>13, <1>14, <1>15, <1>16, <1>17 DEF CheckoutInv, Typed

LEMMA MineNextInv ==
  ASSUME CheckoutInv, MineNext
  PROVE  CheckoutInv'
<1>1. /\ pool # <<>> /\ pool' = Tail(pool) /\ MineRest
      /\ \/ Executes(Head(pool)) /\ Mined(Head(pool), TRUE)
         \/ Mined(Head(pool), FALSE)
  BY MineNextIs
<1>2. PICK tx \in Transactions : tx = Head(pool)
  BY <1>1, PoolHead
<1>3. tx.run \in {tap, NoRun} /\ tx.kind \in {"approve", "create", "fund"}
  BY DEF Transactions
<1>4. CASE tx.run = NoRun
  BY <1>1, <1>2, <1>4, NobodyInv
<1>5. CASE tx.run = tap /\ tx.kind = "approve"
  BY <1>1, <1>2, <1>5, ApprovedInv
<1>6. CASE tx.run = tap /\ tx.kind = "create"
  BY <1>1, <1>2, <1>6, CreatedInv
<1>7. CASE tx.run = tap /\ tx.kind = "fund"
  BY <1>1, <1>2, <1>7, PaidInv, UnpaidInv
<1>8. QED
  BY <1>3, <1>4, <1>5, <1>6, <1>7
-------------------------------------------------------------------------------
(***************************************************************************)
(* The cart, and the page around the run.                                  *)
(***************************************************************************)
\* What the buttons of the cart may do to it.
CartChange ==
    /\ cart' \in [Products -> Nat] /\ wished' \in [Products -> Nat]
    /\ \A p \in Products :
          /\ PageOpen => cart[p] <= cart'[p]
          /\ wished'[p] - cart'[p] = wished[p] - cart[p]
    /\ Sum(wished)' <= MaxUnits
    /\ connected' \in {Nobody, owner'} /\ addedBy' \subseteq {owner', Nobody}

\* Nothing but the cart changes.
LEMMA CartInv ==
  ASSUME CheckoutInv, UNCHANGED <<pageVars, chainVars>>, CartChange
  PROVE  CheckoutInv'
<1>0. Typed /\ ScreenTyped /\ VisitTyped /\ ChainTyped
  BY DEF CheckoutInv, Typed
<1>1. UNCHANGED <<token, phase, status, failure, run, visits, lost, pool, allowance,
                  balance, orders>>
  BY DEF pageVars, chainVars
<1>2. \A p \in Products : /\ cart[p] \in Nat /\ cart'[p] \in Nat
                          /\ wished[p] \in Nat /\ wished'[p] \in Nat /\ token[p] \in Nat
  BY <1>0 DEF ScreenTyped, VisitTyped, CartChange
<1>3. /\ Here' = Here /\ PageOpen' = PageOpen /\ PaidNow' = PaidNow /\ Groups' = Groups
      /\ Total' = Total
  BY <1>1 DEF Here, PageOpen, PaidNow, Group, Groups, Total, Sum
<1>4. Typed'
  BY <1>0, <1>1 DEF Typed, ScreenTyped, RunTyped, VisitTyped, ChainTyped, CartChange
<1>5. CartSound'
  BY <1>1, <1>2 DEF CheckoutInv, CartSound, CartChange
<1>6. \A n : StatusAt(n)' = StatusAt(n)
  BY <1>3 DEF StatusAt
<1>7. StatusSound' /\ PhaseSound'
  BY <1>1, <1>3, <1>6 DEF CheckoutInv, ScreenSound, StatusSound, PhaseSound, Group
<1>8. PageSound'
  <2>1. ASSUME PageOpen, Here.pc # "ended", NEW p \in Products
        PROVE  token[p] <= cart'[p]
    <3>1. token[p] <= cart[p] /\ cart[p] <= cart'[p]
      BY <2>1 DEF CheckoutInv, ScreenSound, PageSound, CartChange
    <3>2. QED
      BY <1>2, <3>1
  <2>2. QED
    BY <1>1, <1>3, <2>1 DEF CheckoutInv, ScreenSound, PageSound
<1>9. PoolSound' /\ OrderSound'
  <2>1. \A tx : Own(tx)' = Own(tx) /\ Warned(tx)' = Warned(tx)
    BY <1>1, <1>3 DEF Own, Warned, OpenEnded, Group
  <2>2. \A tx : TransactionSound(tx)' = TransactionSound(tx)
    BY <1>1, <1>3, <2>1 DEF TransactionSound
  <2>3. QED
    BY <1>1, <1>3, <2>2 DEF CheckoutInv, PoolSound, OrderSound, Group
<1>10. \A p : /\ FundedNow(p)' = FundedNow(p) /\ StillPaying(p)' = StillPaying(p)
              /\ OpenEnded(p)' = OpenEnded(p)
              /\ NotYetOut(p)' = NotYetOut(p) /\ PaidOnce(p)' = PaidOnce(p)
              /\ OnePayment(p)' = OnePayment(p) /\ Owing(p)' = Owing(p)
  BY <1>1, <1>3 DEF FundedNow, StillPaying, OpenEnded, NotYetOut, PaidOnce, OnePayment,
     Owing, Charged, Orphaned, Quantities
<1>11. BooksSound' /\ OpenSound'
  BY <1>1, <1>3, <1>10 DEF CheckoutInv, BooksSound, OpenSound
<1>12. ChargedSound'
  <2>1. ASSUME NEW p \in Products
        PROVE  Owing(p) + cart'[p] <= wished'[p] + NotYetOut(p) + lost[p]
    <3>1. Owing(p) + cart[p] <= wished[p] + NotYetOut(p) + lost[p]
      BY DEF CheckoutInv, ChargedSound
    <3>2. Owing(p) \in Nat /\ NotYetOut(p) \in Nat /\ lost[p] \in Nat
      BY <1>0, <1>2, OwingNat DEF NotYetOut, VisitTyped
    <3>3. wished'[p] - cart'[p] = wished[p] - cart[p]
      BY DEF CartChange
    <3>4. QED
      BY ONLY <1>2, <3>1, <3>2, <3>3, p \in Products
  <2>2. QED
    BY <1>1, <1>10, <2>1 DEF ChargedSound
<1>13. AllowanceSound'
  <2>1. Settled' = Settled
    BY <1>1, <1>10 DEF Settled
  <2>2. QED
    BY <1>1, <1>3, <2>1 DEF CheckoutInv, AllowanceSound, NothingLost, Sum
<1>14. QED
  BY <1>4, <1>5, <1>7, <1>8, <1>9, <1>11, <1>12, <1>13 DEF CheckoutInv, ScreenSound

LEMMA WishedLess ==
  ASSUME wished \in [Products -> Nat], CartSound, wished' \in [Products -> Nat],
         \A p \in Products : wished'[p] <= wished[p]
  PROVE  Sum(wished)' <= MaxUnits
<1>1. wished \in [Products -> Nat]
  OBVIOUS
<1>2. Sum(wished)' = SumFunctionOnSet(wished', Products)
  BY DEF Sum
<1>3. SumFunctionOnSet(wished', Products) <= SumFunctionOnSet(wished, Products)
  BY <1>1, ProductsFinite, SumMonotone
<1>4. /\ SumFunctionOnSet(wished', Products) \in Nat /\ SumFunctionOnSet(wished, Products) \in Nat
      /\ MaxUnits \in Nat
  BY <1>1, ProductsFinite, SumNat, CheckoutAssumption
<1>5. SumFunctionOnSet(wished, Products) <= MaxUnits
  BY DEF CartSound, Sum
<1>6. QED
  BY ONLY <1>2, <1>3, <1>4, <1>5

LEMMA AddItemChange ==
  ASSUME cart \in [Products -> Nat], wished \in [Products -> Nat], CartSound,
         NEW p \in Products, AddItem(p)
  PROVE  CartChange /\ UNCHANGED <<pageVars, chainVars, backendVars, faults>>
<1>1. /\ cart \in [Products -> Nat] /\ wished \in [Products -> Nat] /\ CartSound
  OBVIOUS
<1>2. /\ cart' = [cart EXCEPT ![p] = @ + 1] /\ wished' = [wished EXCEPT ![p] = @ + 1]
      /\ addedBy' = addedBy \cup {connected} /\ owner' = owner /\ connected' = connected
      /\ Sum(wished) < MaxUnits
      /\ UNCHANGED <<pageVars, chainVars, backendVars, faults>>
  BY DEF AddItem
<1>3. /\ cart' \in [Products -> Nat] /\ wished' \in [Products -> Nat]
      /\ wished'[p] = wished[p] + 1
      /\ \A q \in Products \ {p} : wished'[q] = wished[q]
  BY <1>1, <1>2
<1>4. \A q \in Products : /\ cart[q] <= cart'[q]
                          /\ wished'[q] - cart'[q] = wished[q] - cart[q]
  BY <1>1, <1>2
<1>5. Sum(wished)' <= MaxUnits
  <2>1. SumFunctionOnSet(wished', Products)
          = SumFunctionOnSet(wished, Products) - SumFunctionOnSet(wished, {p})
              + SumFunctionOnSet(wished', {p})
    BY <1>1, <1>3, ProductsFinite, SumChange
  <2>2. SumFunctionOnSet(wished, {p}) = wished[p] /\ SumFunctionOnSet(wished', {p}) = wished'[p]
    BY <1>1, <1>3, SumSingleton
  <2>3. SumFunctionOnSet(wished, Products) \in Nat /\ MaxUnits \in Nat /\ wished[p] \in Nat
    BY <1>1, ProductsFinite, SumNat, CheckoutAssumption
  <2>4. /\ Sum(wished)' = SumFunctionOnSet(wished', Products)
        /\ SumFunctionOnSet(wished, Products) < MaxUnits
    BY <1>2 DEF Sum
  <2>5. QED
    BY ONLY <1>3, <2>1, <2>2, <2>3, <2>4
<1>6. connected' \in {Nobody, owner'} /\ addedBy' \subseteq {owner', Nobody}
  BY <1>1, <1>2 DEF CartSound
<1>7. QED
  BY <1>2, <1>3, <1>4, <1>5, <1>6 DEF CartChange

LEMMA RemoveItemsChange ==
  ASSUME cart \in [Products -> Nat], wished \in [Products -> Nat], CartSound,
         NEW products, RemoveItems(products)
  PROVE  CartChange /\ UNCHANGED <<pageVars, chainVars, backendVars, faults>>
<1>1. /\ cart \in [Products -> Nat] /\ wished \in [Products -> Nat] /\ CartSound
  OBVIOUS
<1>2. /\ cart' = Without(cart, products) /\ ~PageOpen
      /\ wished' = [p \in Products |-> wished[p] - cart[p] + cart'[p]]
      /\ addedBy' = addedBy /\ owner' = owner /\ connected' = connected
      /\ UNCHANGED <<pageVars, chainVars, backendVars, faults>>
  BY DEF RemoveItems
<1>3. cart' \in [Products -> Nat] /\ \A p \in Products : cart'[p] <= cart[p]
  BY <1>1, <1>2 DEF Without
<1>4. /\ wished' \in [Products -> Nat]
      /\ \A p \in Products : /\ wished'[p] <= wished[p]
                             /\ wished'[p] - cart'[p] = wished[p] - cart[p]
  BY <1>1, <1>2, <1>3 DEF CartSound
<1>5. Sum(wished)' <= MaxUnits
  BY <1>1, <1>4, WishedLess
<1>6. connected' \in {Nobody, owner'} /\ addedBy' \subseteq {owner', Nobody}
  BY <1>1, <1>2 DEF CartSound
<1>7. QED
  BY <1>2, <1>3, <1>4, <1>5, <1>6 DEF CartChange

LEMMA ConnectChange ==
  ASSUME cart \in [Products -> Nat], wished \in [Products -> Nat], CartSound,
         NEW account \in Accounts \cup {Nobody}, Connect(account)
  PROVE  CartChange /\ UNCHANGED <<pageVars, chainVars, backendVars, faults>>
<1>1. /\ cart \in [Products -> Nat] /\ wished \in [Products -> Nat] /\ CartSound
      /\ MaxUnits \in Nat
  BY CheckoutAssumption
<1>2. ~PageOpen /\ connected' = account /\ UNCHANGED <<pageVars, chainVars, backendVars, faults>>
  BY DEF Connect
<1>3. CASE account = Nobody \/ ~Stranger(account)
  <2>1. UNCHANGED <<cart, owner, addedBy, wished>>
    BY <1>3 DEF Connect
  <2>2. connected' \in {Nobody, owner'} /\ addedBy' \subseteq {owner', Nobody}
    BY <1>1, <1>2, <1>3, <2>1 DEF CartSound, Stranger
  <2>3. Sum(wished)' <= MaxUnits
    BY <1>1, <2>1 DEF CartSound, Sum
  <2>4. QED
    BY <1>1, <1>2, <2>1, <2>2, <2>3 DEF CartChange
<1>4. CASE ~(account = Nobody \/ ~Stranger(account))
  <2>1. /\ cart' = NoUnits /\ addedBy' = {} /\ owner' = account
        /\ wished' = [p \in Products |-> wished[p] - cart[p]]
    BY <1>4 DEF Connect
  <2>2. cart' \in [Products -> Nat] /\ \A p \in Products : cart'[p] = 0
    BY <2>1 DEF NoUnits
  <2>3. /\ wished' \in [Products -> Nat]
        /\ \A p \in Products : /\ wished'[p] <= wished[p]
                               /\ wished'[p] - cart'[p] = wished[p] - cart[p]
    BY <1>1, <2>1, <2>2 DEF CartSound
  <2>4. Sum(wished)' <= MaxUnits
    BY <1>1, <2>3, WishedLess
  <2>5. QED
    BY <1>2, <2>1, <2>2, <2>3, <2>4 DEF CartChange
<1>5. QED
  BY <1>3, <1>4

LEMMA CartChanges ==
  ASSUME cart \in [Products -> Nat], wished \in [Products -> Nat], CartSound,
         \/ \E p \in Products : AddItem(p)
         \/ \E products : RemoveItems(products)
         \/ \E account \in Accounts \cup {Nobody} : Connect(account)
  PROVE  CartChange /\ UNCHANGED <<pageVars, chainVars, backendVars, faults>>
BY AddItemChange, RemoveItemsChange, ConnectChange

LEMMA CartStepInv ==
  ASSUME CheckoutInv,
         \/ \E p \in Products : AddItem(p)
         \/ \E products : RemoveItems(products)
         \/ \E account \in Accounts \cup {Nobody} : Connect(account)
  PROVE  CheckoutInv'
<1>1. cart \in [Products -> Nat] /\ wished \in [Products -> Nat] /\ CartSound
  BY DEF CheckoutInv, Typed, ScreenTyped, VisitTyped
<1>2. QED
  BY <1>1, CartChanges, CartInv

\* No page: nothing is locked, and nothing of the run is left.
LEMMA NoPageFacts ==
  ASSUME CheckoutInv, ~PageOpen
  PROVE  /\ Here.pc = "off" /\ \A p \in Products : failure[p] = "none" /\ NotYetOut(p) = 0
         /\ \A n \in DOMAIN pool : pool[n].run = NoRun
<1>1. Here.pc = "off" /\ \A p \in Products : failure[p] = "none"
  BY DEF CheckoutInv, ScreenSound, PageSound, StatusSound
<1>2. \A p \in Products : NotYetOut(p) = 0
  BY DEF NotYetOut
<1>3. ASSUME NEW n \in DOMAIN pool PROVE pool[n].run = NoRun
  <2>1. PICK tx \in Transactions : tx = pool[n]
    BY OrdersAre DEF CheckoutInv, Typed
  <2>2. tx.run # tap
    BY <1>1, <2>1, NoOwnTransaction DEF CheckoutInv, Typed, Awaiting
  <2>3. QED
    BY <2>1, <2>2 DEF Transactions
<1>4. QED
  BY <1>1, <1>2, <1>3

\* The page is fresh, or gone.
Fresh ==
    /\ phase = "idle" /\ status = Pending /\ failure = [p \in Products |-> "none"]
    /\ run = [r \in Runs |-> Off]

LEMMA FreshFacts ==
  ASSUME Fresh', cart' \in [Products -> Nat]
  PROVE  /\ ScreenTyped' /\ PhaseSound' /\ StatusSound'
         /\ Here'.pc = "off" /\ PaidNow' = {} /\ \A p \in Products : failure'[p] = "none"
<1>1. Here' = Off
  BY TapFacts DEF Fresh, Here
<1>2. Here'.pc = "off" /\ Off \in [pc : Pcs, at : Nat, order : Nat]
  BY <1>1 DEF Off, Pcs
<1>3. \A p \in Products : status'[p] = "pending" /\ failure'[p] = "none"
  BY DEF Fresh, Pending
<1>4. ScreenTyped'
  BY <1>2 DEF ScreenTyped, RunTyped, Fresh, Pending, Statuses, Reasons
<1>5. PhaseSound'
  BY <1>2 DEF PhaseSound, Fresh, Before, Executing, Creating, Funding, Settling
<1>6. StatusSound'
  BY <1>2, <1>3 DEF StatusSound, Before, Executing, Creating, Funding, Settling
<1>7. PaidNow' = {}
  BY <1>2, <1>3 DEF PaidNow, Settling
<1>8. QED
  BY <1>2, <1>3, <1>4, <1>5, <1>6, <1>7

LEMMA OpenCheckoutInv ==
  ASSUME CheckoutInv, OpenCheckout
  PROVE  CheckoutInv'
<1>0. /\ Typed /\ ScreenTyped /\ VisitTyped /\ ChainTyped /\ CartSound
      /\ cart \in [Products -> Nat] /\ wished \in [Products -> Nat] /\ visits \in Nat
      /\ MaxUnits \in Nat
  BY CheckoutAssumption DEF CheckoutInv, Typed, ScreenTyped, VisitTyped
<1>1. /\ ~PageOpen /\ cart # NoUnits /\ token' = cart /\ visits' = visits + 1 /\ Fresh'
      /\ UNCHANGED <<lost, cart, wished, connected, owner, addedBy>>
      /\ UNCHANGED <<pool, allowance, balance, orders>>
  BY DEF OpenCheckout, Fresh, cartVars, chainVars
<1>2. /\ ScreenTyped' /\ PhaseSound' /\ StatusSound'
      /\ Here'.pc = "off" /\ PaidNow' = {} /\ \A p \in Products : failure'[p] = "none"
  BY <1>0, <1>1, FreshFacts
<1>3. PageOpen'
  BY <1>1 DEF PageOpen, NoPage, NoUnits
<1>4. Typed'
  BY <1>0, <1>1, <1>2 DEF Typed, VisitTyped, ChainTyped
<1>5. CartSound'
  <2>1. Sum(wished)' = Sum(wished) /\ Sum(wished) \in Nat
        /\ \A p \in Products : wished[p] <= Sum(wished)
    BY <1>0, <1>1, SumOfUnits DEF Sum
  <2>2. ASSUME NEW p \in Products PROVE cart'[p] <= wished'[p] /\ token'[p] <= MaxUnits
    <3>1. cart[p] <= wished[p] /\ Sum(wished) <= MaxUnits /\ wished[p] <= Sum(wished)
          /\ cart[p] \in Nat /\ wished[p] \in Nat
      BY <1>0, <2>1 DEF CartSound
    <3>2. cart[p] <= MaxUnits
      BY ONLY <1>0, <2>1, <3>1
    <3>3. QED
      BY <1>1, <3>1, <3>2
  <2>3. QED
    BY <1>0, <1>1, <2>1, <2>2 DEF CartSound
<1>6. ScreenSound'
  BY <1>0, <1>1, <1>2, <1>3 DEF ScreenSound, PageSound
<1>7. \A n \in DOMAIN orders : orders[n] \in OrdersOfCheckout /\ orders[n].visit \in Nat
                               /\ orders[n].visit <= visits
  BY <1>0, OrdersAre DEF CheckoutInv, OrderSound, OrdersOfCheckout
<1>8. OrderSound'
  <2>1. \A n \in DOMAIN orders' : orders'[n].visit <= visits'
    BY <1>0, <1>1, <1>7
  <2>2. QED
    BY <1>2, <2>1 DEF OrderSound, Funding, Settling
<1>9. PoolSound'
  <2>1. ASSUME NEW n \in DOMAIN pool PROVE TransactionSound(pool[n])' /\ pool[n].run # tap
    <3>1. PICK tx \in Transactions : tx = pool[n] /\ TransactionSound(tx)
      BY <1>0, OrdersAre DEF CheckoutInv, PoolSound
    <3>2. tx.run = NoRun /\ tx.visit \in Nat /\ tx.visit <= visits
      BY <1>1, <3>1, NoPageFacts DEF Transactions, TransactionSound
    <3>3. tx.visit <= visits' /\ tx.visit # visits'
      BY <1>0, <1>1, <3>2
    <3>4. Warned(tx)'
      BY <3>3 DEF Warned
    <3>5. TransactionSound(tx)'
      BY <1>1, <3>1, <3>2, <3>3, <3>4, TapFacts DEF TransactionSound
    <3>6. TransactionSound(pool[n])'
      BY <1>1, <3>1, <3>5
    <3>7. QED
      BY <3>1, <3>2, <3>6, TapFacts
  <2>2. QED
    BY <1>1, <2>1 DEF PoolSound
<1>10. ASSUME NEW p \in Products PROVE FundedNow(p)' = {} /\ Owing(p)' = Owing(p)
  <2>1. Owing(p)' = Owing(p)
    BY <1>1 DEF Owing, Charged, Orphaned, Quantities
  <2>2. \A n \in DOMAIN orders : orders'[n].visit # visits'
    BY <1>0, <1>1, <1>7
  <2>3. QED
    BY <1>1, <2>1, <2>2 DEF FundedNow
<1>11. BooksSound' /\ OpenSound'
  BY <1>2, <1>10 DEF BooksSound, OpenSound, OpenEnded
<1>12. ChargedSound'
  <2>1. ASSUME NEW p \in Products
        PROVE  Owing(p)' + cart'[p] <= wished'[p] + NotYetOut(p)' + lost'[p]
    <3>1. Owing(p) + cart[p] <= wished[p] + NotYetOut(p) + lost[p] /\ NotYetOut(p) = 0
      BY <1>1, NoPageFacts DEF CheckoutInv, ChargedSound
    <3>2. NotYetOut(p)' = 0
      BY <1>2 DEF NotYetOut
    <3>3. QED
      BY <1>1, <1>10, <3>1, <3>2
  <2>2. QED
    BY <1>1, <2>1 DEF ChargedSound
<1>13. AllowanceSound'
  BY <1>1, <1>2 DEF CheckoutInv, AllowanceSound, NothingLost, Executing, Creating,
     Funding, Settling
<1>14. QED
  BY <1>4, <1>5, <1>6, <1>8, <1>9, <1>11, <1>12, <1>13 DEF CheckoutInv

\* The page is gone: a payment that the run waited for has nobody to wait for it.
LEMMA ForgottenPool ==
  ASSUME CheckoutInv, Forgotten
  PROVE  /\ \A n \in DOMAIN pool :
              /\ pool'[n] \in Transactions /\ pool'[n].run = NoRun
              /\ pool'[n].kind = pool[n].kind /\ pool'[n].order = pool[n].order
              /\ pool'[n].visit = pool[n].visit /\ pool'[n].product = pool[n].product
              /\ pool'[n].amount = pool[n].amount
         /\ DOMAIN pool' = DOMAIN pool /\ pool' \in Seq(Transactions)
         /\ Orphaned' \subseteq Orphaned \cup (IF Here.pc = "fund" THEN {Here.order} ELSE {})
<1>0. ChainTyped /\ PoolSound
  BY DEF CheckoutInv, Typed
<1>1. pool' = [n \in DOMAIN pool |-> [pool[n] EXCEPT !.run = NoRun]]
  BY DEF Forgotten
<1>2. ASSUME NEW n \in DOMAIN pool
      PROVE  /\ pool'[n] \in Transactions /\ pool'[n].run = NoRun
             /\ pool'[n].kind = pool[n].kind /\ pool'[n].order = pool[n].order
             /\ pool'[n].visit = pool[n].visit /\ pool'[n].product = pool[n].product
             /\ pool'[n].amount = pool[n].amount
  <2>1. pool[n] \in Transactions
    BY <1>0, OrdersAre
  <2>2. QED
    BY <1>1, <2>1 DEF Transactions
<1>3. DOMAIN pool' = DOMAIN pool
  BY <1>1
<1>4. pool' \in Seq(Transactions)
  <2>1. DOMAIN pool = 1..Len(pool) /\ Len(pool) \in Nat
    BY <1>0 DEF ChainTyped
  <2>2. pool' \in [1..Len(pool) -> Transactions]
    BY <1>1, <1>2, <2>1
  <2>3. QED
    BY <2>1, <2>2, SeqDef
<1>5. Orphaned' \subseteq Orphaned \cup (IF Here.pc = "fund" THEN {Here.order} ELSE {})
  <2> SUFFICES ASSUME NEW n \in DOMAIN pool, pool[n].kind = "fund"
               PROVE  pool'[n].order \in Orphaned \/ (Here.pc = "fund" /\ pool'[n].order = Here.order)
    BY <1>2, <1>3 DEF Orphaned
  <2>1. CASE pool[n].run = tap
    <3>1. Own(pool[n])
      BY <1>0, <2>1 DEF PoolSound, TransactionSound
    <3>2. QED
      BY <1>2, <3>1 DEF Own
  <2>2. CASE pool[n].run # tap
    <3>1. pool[n].run = NoRun
      BY <1>0, <2>2, OrdersAre DEF Transactions
    <3>2. QED
      BY <1>2, <3>1 DEF Orphaned
  <2>3. QED
    BY <2>1, <2>2
<1>6. QED
  BY <1>2, <1>3, <1>4, <1>5

LEMMA ForgottenInv ==
  ASSUME CheckoutInv, PageOpen, Forgotten, lost' \in [Products \cup {Nobody} -> Nat],
         NothingLost' => \A n \in DOMAIN pool : pool[n].kind = "create",
         \A p \in Products :
             Owing(p)' \in Nat /\ Owing(p)' + NotYetOut(p) + lost[p] <= Owing(p) + lost'[p]
  PROVE  CheckoutInv'
<1>0. /\ Typed /\ ScreenTyped /\ VisitTyped /\ ChainTyped /\ CartSound
      /\ cart \in [Products -> Nat] /\ pool \in Seq(Transactions) /\ MaxUnits \in Nat
  BY CheckoutAssumption DEF CheckoutInv, Typed, ScreenTyped, VisitTyped, ChainTyped
<1>1. /\ token' = NoPage /\ Fresh'
      /\ pool' = [n \in DOMAIN pool |-> [pool[n] EXCEPT !.run = NoRun]]
      /\ UNCHANGED <<visits, cart, wished, connected, owner, addedBy>>
      /\ UNCHANGED <<allowance, balance, orders>>
  BY DEF Forgotten, Fresh, cartVars
<1>2. /\ ScreenTyped' /\ PhaseSound' /\ StatusSound'
      /\ Here'.pc = "off" /\ PaidNow' = {} /\ \A p \in Products : failure'[p] = "none"
  BY <1>0, <1>1, FreshFacts
<1>3. ~PageOpen' /\ token' \in [Products -> Nat] /\ \A p \in Products : token'[p] = 0
  BY <1>1 DEF PageOpen, NoPage, NoUnits
<1>4. \A n \in DOMAIN pool :
         /\ pool'[n] \in Transactions /\ pool'[n].run = NoRun
         /\ pool'[n].kind = pool[n].kind /\ pool'[n].order = pool[n].order
         /\ pool'[n].visit = pool[n].visit /\ pool'[n].product = pool[n].product
         /\ pool'[n].amount = pool[n].amount
  BY ForgottenPool
<1>5. pool' \in Seq(Transactions) /\ DOMAIN pool' = DOMAIN pool
  BY ForgottenPool
<1>6. Typed'
  BY <1>0, <1>1, <1>2, <1>3, <1>5 DEF CheckoutInv, Typed, VisitTyped, ChainTyped
<1>7. CartSound'
  <2>1. Sum(wished)' = Sum(wished)
    BY <1>1 DEF Sum
  <2>2. \A p \in Products : cart'[p] <= wished'[p] /\ token'[p] <= MaxUnits
    <3>1. \A p \in Products : cart[p] <= wished[p]
      BY <1>0 DEF CartSound
    <3>2. MaxUnits \in Nat /\ cart' = cart /\ wished' = wished
      BY <1>0, <1>1
    <3>3. QED
      BY ONLY <1>3, <3>1, <3>2
  <2>3. QED
    BY <1>0, <1>1, <2>1, <2>2 DEF CartSound
<1>8. ScreenSound'
  BY <1>2, <1>3 DEF ScreenSound, PageSound
<1>9. OrderSound'
  BY <1>1, <1>2 DEF CheckoutInv, OrderSound, Funding, Settling
<1>10. PoolSound'
  <2>1. ASSUME NEW n \in DOMAIN pool
        PROVE  TransactionSound(pool[n])' /\ pool'[n].run # tap
    <3>1. PICK tx \in Transactions : tx = pool[n] /\ TransactionSound(tx)
      BY <1>0, OrdersAre DEF CheckoutInv, PoolSound
    <3>2. PICK ty \in Transactions : ty = pool'[n]
      BY <1>4
    <3>3. /\ ty.run = NoRun /\ ty.kind = tx.kind /\ ty.visit = tx.visit
          /\ ty.product = tx.product /\ ty.order = tx.order /\ ty.amount = tx.amount
      BY <1>4, <3>1, <3>2
    <3>4. Warned(ty)'
      BY <1>3 DEF Warned
    <3>5. /\ ty.visit <= visits' /\ (ty.kind # "approve" => ty.product \in Products)
          /\ ty.kind = "fund" =>
               /\ ty.order \in DOMAIN orders'
               /\ orders'[ty.order].product = ty.product /\ orders'[ty.order].qty = ty.amount
               /\ orders'[ty.order].visit = ty.visit
      BY <1>1, <3>1, <3>3 DEF TransactionSound
    <3>6. TransactionSound(ty)'
      BY <1>3, <3>3, <3>4, <3>5, TapFacts DEF TransactionSound
    <3>7. TransactionSound(pool[n])'
      BY ONLY <3>2, <3>6
    <3>8. QED
      BY <1>4, <3>7, TapFacts
  <2>2. \A n \in DOMAIN pool' : TransactionSound(pool[n])' /\ pool'[n].run # tap
    BY <1>5, <2>1
  <2>3. QED
    BY <2>2 DEF PoolSound
<1>11. BooksSound' /\ OpenSound'
  BY <1>3 DEF BooksSound, OpenSound
<1>12. ChargedSound'
  <2>1. ASSUME NEW p \in Products
        PROVE  Owing(p)' + cart'[p] <= wished'[p] + NotYetOut(p)' + lost'[p]
    <3>1. Owing(p) + cart[p] <= wished[p] + NotYetOut(p) + lost[p]
      BY DEF CheckoutInv, ChargedSound
    <3>2. NotYetOut(p)' = 0 /\ cart'[p] = cart[p] /\ wished'[p] = wished[p]
      BY <1>1, <1>3 DEF NotYetOut
    <3>3. /\ Owing(p) \in Nat /\ Owing(p)' \in Nat /\ NotYetOut(p) \in Nat
          /\ lost[p] \in Nat /\ lost'[p] \in Nat /\ cart[p] \in Nat /\ wished[p] \in Nat
          /\ Owing(p)' + NotYetOut(p) + lost[p] <= Owing(p) + lost'[p]
      BY <1>0, OwingNat DEF VisitTyped, NotYetOut
    <3>4. QED
      BY ONLY <3>1, <3>2, <3>3
  <2>2. QED
    BY <2>1 DEF ChargedSound
<1>13. AllowanceSound'
  <2>1. NothingLost' => \A n \in DOMAIN pool' : pool'[n].kind = "create"
    BY <1>4, <1>5
  <2>2. QED
    BY <1>2, <2>1 DEF AllowanceSound, Executing, Creating, Funding, Settling
<1>14. QED
  BY <1>6, <1>7, <1>8, <1>9, <1>10, <1>11, <1>12, <1>13 DEF CheckoutInv

LEMMA LeavePageInv ==
  ASSUME CheckoutInv, LeavePage
  PROVE  CheckoutInv'
<1>0. Typed /\ ScreenTyped /\ VisitTyped /\ ChainTyped /\ ScreenSound /\ PoolSound /\ OrderSound
  BY DEF CheckoutInv, Typed
<1>1. PageOpen /\ ~Active /\ Forgotten /\ lost' = lost
  BY DEF LeavePage
<1>2. Here.pc \in {"off", "ended"}
  BY <1>0, <1>1, TapFacts DEF Active, Here
<1>3. \A n \in DOMAIN pool : pool[n].run # tap
  BY <1>0, <1>2, NoOwnTransaction DEF Awaiting
<1>4. NothingLost' => \A n \in DOMAIN pool : pool[n].kind = "create"
  BY <1>1, <1>3 DEF CheckoutInv, AllowanceSound, NothingLost
<1>5. ASSUME NEW p \in Products PROVE NotYetOut(p) = 0
  <2>1. CASE Here.pc = "ended"
    BY <2>1 DEF NotYetOut
  <2>2. CASE Here.pc = "off"
    <3>1. status[p] = "pending"
      BY <1>0, <2>2 DEF ScreenSound, StatusSound
    <3>2. p \notin PaidNow
      BY <2>2, <3>1 DEF PaidNow, Settling
    <3>3. QED
      BY <3>2 DEF NotYetOut
  <2>3. QED
    BY <1>2, <2>1, <2>2
<1>6. Grown /\ Orphaned' \subseteq Orphaned
  <2>1. UNCHANGED <<orders, visits>>
    BY <1>1 DEF Forgotten
  <2>2. QED
    BY <1>0, <1>1, <1>2, <2>1, SameOrders, ForgottenPool DEF OrderSound
<1>7. ASSUME NEW p \in Products
      PROVE  Owing(p)' \in Nat /\ Owing(p)' + NotYetOut(p) + lost[p] <= Owing(p) + lost'[p]
  <2>1. Owing(p)' \in Nat /\ Owing(p)' <= Owing(p) /\ Owing(p) \in Nat /\ lost[p] \in Nat
    BY <1>0, <1>6, GrownOwing, OwingNat DEF VisitTyped
  <2>2. NotYetOut(p) = 0 /\ lost'[p] = lost[p]
    BY <1>1, <1>5
  <2>3. QED
    BY ONLY <2>1, <2>2
<1>8. lost' \in [Products \cup {Nobody} -> Nat]
  BY <1>0, <1>1 DEF VisitTyped
<1>9. QED
  BY <1>1, <1>4, <1>7, <1>8, ForgottenInv

\* The page that dies loses what it has paid and what it is paying.
LEMMA CloseTabOwing ==
  ASSUME CheckoutInv, CloseTab, Running, NEW p \in Products,
         lost'[p] = lost[p] + Unbooked(p)
  PROVE  Owing(p)' \in Nat /\ Owing(p)' + NotYetOut(p) + lost[p] <= Owing(p) + lost'[p]
<1>0. /\ Typed /\ VisitTyped /\ ChainTyped /\ ScreenSound /\ PoolSound /\ OrderSound
      /\ PageOpen /\ Here.pc # "ended" /\ Forgotten /\ Nobody \notin Products
  BY CheckoutAssumption DEF CheckoutInv, Typed, Running, CloseTab
<1>1. UNCHANGED <<orders, visits>> /\ Grown /\ OrdersKept
  <2>1. UNCHANGED <<orders, visits>>
    BY <1>0 DEF Forgotten
  <2>2. QED
    BY <1>0, <2>1, SameOrders, GrownKept DEF OrderSound
<1>2. Orphaned' \subseteq Orphaned \cup (IF Here.pc = "fund" THEN {Here.order} ELSE {})
  BY <1>0, ForgottenPool
<1>3. /\ Owing(p) \in Nat /\ lost[p] \in Nat /\ token[p] \in Nat /\ NotYetOut(p) \in {0, token[p]}
      /\ Unbooked(p) \in {0, token[p]} /\ lost'[p] = lost[p] + Unbooked(p)
      /\ FundedNow(p) \cup StillPaying(p) # {} => Unbooked(p) = token[p]
  BY <1>0, OwingNat DEF VisitTyped, NotYetOut, Unbooked
<1>4. CASE Here.pc # "fund" \/ p # Group(tap)
  <2>1. Charged(p)' \subseteq Charged(p)
    <3>1. CASE Here.pc # "fund"
      BY <1>1, <1>2, <3>1 DEF Charged
    <3>2. CASE Here.pc = "fund" /\ p # Group(tap)
      <4>1. orders[Here.order].product # p
        BY <1>0, <3>2 DEF OrderSound, Funding
      <4>2. QED
        BY <1>1, <1>2, <3>2, <4>1 DEF Charged
    <3>3. QED
      BY <1>4, <3>1, <3>2
  <2>2. Owing(p)' \in Nat /\ Owing(p)' <= Owing(p)
    BY <1>0, <1>1, <2>1, OwingLess DEF Grown
  <2>3. NotYetOut(p) <= Unbooked(p)
    <3>1. CASE p \in PaidNow
      <4>1. FundedNow(p) # {}
        BY <1>0, <3>1, NoOtherPayment DEF CheckoutInv, BooksSound, PaidOnce
      <4>2. QED
        BY <1>3, <4>1
    <3>2. CASE p \notin PaidNow
      BY <1>3, <3>2 DEF NotYetOut
    <3>3. QED
      BY <3>1, <3>2
  <2>4. NotYetOut(p) \in Nat /\ Unbooked(p) \in Nat
    BY <1>3
  <2>5. QED
    BY ONLY <1>3, <2>2, <2>3, <2>4
<1>5. CASE Here.pc = "fund" /\ p = Group(tap)
  <2>1. /\ Here.order \in DOMAIN orders /\ orders[Here.order].product = p
        /\ orders[Here.order].qty = token[p]
    BY <1>0, <1>5 DEF OrderSound, Funding
  <2>2. PICK n \in DOMAIN orders : n = Here.order
    BY <2>1
  <2>3. Charged(p)' \subseteq Charged(p) \cup {n}
    BY <1>1, <1>2, <1>5, <2>2 DEF Charged
  <2>4. Owing(p)' \in Nat /\ Owing(p)' <= Owing(p) + token[p]
         /\ (Charged(p)' \subseteq Charged(p) => Owing(p)' <= Owing(p))
    BY <1>0, <1>1, <2>1, <2>2, <2>3, OwingMost DEF Grown
  <2>5. NotYetOut(p) = 0
    <3>1. status[p] # "success"
      BY <1>0, <1>5, AtFacts DEF Executing, Creating, Funding
    <3>2. QED
      BY <1>5, <3>1 DEF NotYetOut, PaidNow, Settling
  <2>6. CASE StillPaying(p) # {}
    <3>1. Unbooked(p) = token[p]
      BY <1>3, <2>6
    <3>2. QED
      BY ONLY <1>3, <2>4, <2>5, <3>1
  <2>7. CASE StillPaying(p) = {}
    <3>1. Orphaned' \subseteq Orphaned
      <4> SUFFICES ASSUME NEW m \in DOMAIN pool, pool[m].kind = "fund"
                   PROVE  pool[m].order \in Orphaned
        BY <1>0, ForgottenPool DEF Orphaned
      <4>1. pool[m] \in Transactions /\ TransactionSound(pool[m])
        BY <1>0, OrdersAre DEF PoolSound
      <4>2. pool[m].run # tap
        BY <1>5, <2>7, <4>1 DEF TransactionSound, Own, StillPaying
      <4>3. QED
        BY <4>1, <4>2 DEF Orphaned, Transactions
    <3>2. Owing(p)' <= Owing(p)
      BY <1>1, <2>4, <3>1 DEF Charged
    <3>3. Unbooked(p) \in Nat
      BY <1>3
    <3>4. QED
      BY ONLY <1>3, <2>4, <2>5, <3>2, <3>3
  <2>8. QED
    BY <2>6, <2>7
<1>6. QED
  BY <1>4, <1>5

LEMMA CloseTabInv ==
  ASSUME CheckoutInv, CloseTab
  PROVE  CheckoutInv'
<1>0. Typed /\ ScreenTyped /\ VisitTyped /\ ChainTyped /\ ScreenSound /\ PoolSound
  BY DEF CheckoutInv, Typed
<1>1. /\ PageOpen /\ Active /\ Forgotten
      /\ lost' = [p \in Products \cup {Nobody} |-> lost[p] + Unbooked(p)]
  BY DEF CloseTab
<1>2. Running
  <2>1. PICK r \in Runs : run[r].pc \notin {"off", "ended"}
    BY <1>1 DEF Active
  <2>2. r = tap
    BY <1>0, <2>1 DEF ScreenTyped, RunTyped, Off
  <2>3. QED
    BY <1>1, <2>1, <2>2 DEF Running, Here
<1>3. lost \in [Products \cup {Nobody} -> Nat] /\ token \in [Products -> Nat]
  BY <1>0 DEF VisitTyped
<1>4. \A p \in Products \cup {Nobody} : Unbooked(p) \in Nat
  BY <1>3, CheckoutAssumption DEF Unbooked
<1>5. /\ lost' \in [Products \cup {Nobody} -> Nat]
      /\ \A p \in Products \cup {Nobody} : lost'[p] = lost[p] + Unbooked(p)
  BY <1>1, <1>3, <1>4
<1>6. \A p \in Products :
         Owing(p)' \in Nat /\ Owing(p)' + NotYetOut(p) + lost[p] <= Owing(p) + lost'[p]
  BY <1>2, <1>5, CloseTabOwing
<1>7. ASSUME NothingLost', NEW n \in DOMAIN pool, pool[n].kind # "create"
      PROVE  FALSE
  <2>1. \A p \in Products \cup {Nobody} : lost[p] = 0 /\ Unbooked(p) = 0
    <3>1. \A p \in Products \cup {Nobody} : lost'[p] = 0
      BY <1>5, <1>7 DEF NothingLost
    <3>2. QED
      BY ONLY <1>3, <1>4, <1>5, <3>1
  <2>2. NothingLost
    BY <1>3, <2>1 DEF NothingLost
  <2>3. pool[n].run = tap /\ TransactionSound(pool[n]) /\ pool[n] \in Transactions
    BY <1>0, <1>7, <2>2, OrdersAre DEF CheckoutInv, AllowanceSound, PoolSound
  <2>4. CASE pool[n].kind = "approve"
    <3>1. Unbooked(Nobody) = 1
      BY <2>3, <2>4, TapFacts DEF Unbooked
    <3>2. QED
      BY <2>1, <3>1
  <2>5. CASE pool[n].kind = "fund"
    <3>1. Here.pc = "fund" /\ pool[n].product = Group(tap) /\ pool[n].visit = visits
      BY <2>3, <2>5 DEF TransactionSound, Own
    <3>2. Group(tap) \in Groups /\ Group(tap) \in Products
      BY <1>0, <3>1, AtFacts DEF Executing, Funding
    <3>3. n \in StillPaying(Group(tap))
      BY <2>5, <3>1 DEF StillPaying
    <3>4. Unbooked(Group(tap)) = token[Group(tap)]
      BY <3>2, <3>3, CheckoutAssumption DEF Unbooked
    <3>5. token[Group(tap)] > 0
      BY <3>2 DEF Groups
    <3>6. token[Group(tap)] = 0
      BY <2>1, <3>2, <3>4
    <3>7. QED
      BY ONLY <3>5, <3>6
  <2>6. QED
    BY <1>7, <2>3, <2>4, <2>5 DEF Transactions
<1>8. QED
  BY <1>1, <1>5, <1>6, <1>7, ForgottenInv

\* Nothing that the invariant speaks of changes.
LEMMA QuietInv ==
  ASSUME CheckoutInv, UNCHANGED cartVars,
         UNCHANGED <<token, phase, status, failure, run, visits, lost>>, UNCHANGED chainVars
  PROVE  CheckoutInv'
<1>0. Typed /\ ScreenTyped /\ VisitTyped /\ ChainTyped
  BY DEF CheckoutInv, Typed
<1>1. UNCHANGED <<cart, wished, owner, connected, addedBy>>
      /\ UNCHANGED <<pool, allowance, balance, orders>>
  BY DEF cartVars, chainVars
<1>2. /\ Here' = Here /\ PageOpen' = PageOpen /\ PaidNow' = PaidNow /\ Groups' = Groups
      /\ Total' = Total /\ Group(tap)' = Group(tap)
  BY DEF Here, PageOpen, PaidNow, Group, Groups, Total, Sum
<1>3. Typed'
  BY <1>0, <1>1 DEF Typed, ScreenTyped, RunTyped, VisitTyped, ChainTyped
<1>4. CartSound'
  BY <1>1 DEF CheckoutInv, CartSound, Sum
<1>5. \A n : StatusAt(n)' = StatusAt(n)
  BY <1>2 DEF StatusAt
<1>6. ScreenSound'
  BY <1>1, <1>2, <1>5 DEF CheckoutInv, ScreenSound, PhaseSound, StatusSound, PageSound
<1>7. PoolSound' /\ OrderSound'
  <2>1. \A tx : Own(tx)' = Own(tx) /\ Warned(tx)' = Warned(tx)
    BY <1>2 DEF Own, Warned, OpenEnded
  <2>2. \A tx : TransactionSound(tx)' = TransactionSound(tx)
    BY <1>1, <1>2, <2>1 DEF TransactionSound
  <2>3. QED
    BY <1>1, <1>2, <2>2 DEF CheckoutInv, PoolSound, OrderSound
<1>8. \A p : /\ FundedNow(p)' = FundedNow(p) /\ StillPaying(p)' = StillPaying(p)
             /\ OpenEnded(p)' = OpenEnded(p)
             /\ NotYetOut(p)' = NotYetOut(p) /\ PaidOnce(p)' = PaidOnce(p)
             /\ OnePayment(p)' = OnePayment(p) /\ Owing(p)' = Owing(p)
  BY <1>1, <1>2 DEF FundedNow, StillPaying, OpenEnded, NotYetOut, PaidOnce, OnePayment,
     Owing, Charged, Orphaned, Quantities
<1>9. BooksSound' /\ OpenSound' /\ ChargedSound'
  BY <1>1, <1>2, <1>8 DEF CheckoutInv, BooksSound, OpenSound, ChargedSound
<1>10. AllowanceSound'
  <2>1. Settled' = Settled
    BY <1>8 DEF Settled
  <2>2. Sum(Settled)' = Sum(Settled)
    BY <2>1 DEF Sum
  <2>3. QED
    BY <1>1, <1>2, <2>2 DEF CheckoutInv, AllowanceSound, NothingLost
<1>11. QED
  BY <1>3, <1>4, <1>6, <1>7, <1>9, <1>10 DEF CheckoutInv

\* The page's own buttons, the backend and the other buyers.
LEMMA PageInv ==
  ASSUME CheckoutInv,
         FillAddress \/ Cancel \/ Freeze \/ UNCHANGED vars \/ (\E n : Indexed(n))
           \/ (\E p : OthersBuy(p))
  PROVE  CheckoutInv'
<1>1. /\ UNCHANGED cartVars /\ UNCHANGED chainVars
      /\ UNCHANGED <<token, phase, status, failure, run, visits, lost>>
  BY DEF FillAddress, Cancel, Freeze, Indexed, OthersBuy, vars, pageVars
<1>2. QED
  BY <1>1, QuietInv

\* A request is carried out, whether or not the run still waits for its answer.
LEMMA CommitInv ==
  ASSUME CheckoutInv, NEW request \in serving, Commit(request)
  PROVE  CheckoutInv'
<1>0. \A r \in Runs : run[r].pc = "answer" => r = tap
  BY DEF CheckoutInv, Typed, ScreenTyped, RunTyped, Off
<1>1. UNCHANGED finalizeRest
  BY DEF Commit
<1>2. CASE \E r \in Runs : AwaitsAnswer(r, request.order)
  <2>1. AwaitsAnswer(tap, request.order) /\ NextSeller(tap)
    BY <1>0, <1>2 DEF Commit, AwaitsAnswer
  <2>2. Here.pc \in Settling
    BY <2>1 DEF AwaitsAnswer, Here, Settling
  <2>3. QED
    BY <1>1, <2>1, <2>2, SettleInv
<1>3. CASE ~\E r \in Runs : AwaitsAnswer(r, request.order)
  <2>1. UNCHANGED <<phase, status, cart, snapshot, run>>
    BY <1>3 DEF Commit
  <2>2. UNCHANGED cartVars /\ UNCHANGED chainVars
        /\ UNCHANGED <<token, phase, status, failure, run, visits, lost>>
    BY <1>1, <2>1 DEF finalizeRest, pageRest, cartRest, cartVars
  <2>3. QED
    BY <2>2, QuietInv
<1>4. QED
  BY <1>2, <1>3

LEMMA InitInv ==
  ASSUME Init
  PROVE  CheckoutInv
<1>1. /\ cart = NoUnits /\ wished = NoUnits /\ owner = Nobody /\ connected = Nobody
      /\ addedBy = {} /\ token = NoPage /\ run = [r \in Runs |-> Off] /\ visits = 0
      /\ pool = <<>> /\ orders = <<>> /\ allowance = 0 /\ balance = Balance0
      /\ lost = [p \in Products \cup {Nobody} |-> 0]
      /\ phase = "idle" /\ status = Pending /\ failure = [p \in Products |-> "none"]
  BY DEF Init
<1>2. /\ cart \in [Products -> Nat] /\ wished \in [Products -> Nat] /\ ~PageOpen
      /\ \A p \in Products : cart[p] = 0 /\ wished[p] = 0 /\ token[p] = 0
      /\ token \in [Products -> Nat]
      /\ Balance0 \in Nat /\ MaxUnits \in Nat
  BY <1>1, CheckoutAssumption DEF NoUnits, NoPage, PageOpen
<1>3. Here = Off
  BY <1>1, TapFacts DEF Here
<1>4. Here.pc = "off" /\ Off \in [pc : Pcs, at : Nat, order : Nat]
  BY <1>3 DEF Off, Pcs
<1>5. Typed
  <2>1. ScreenTyped
    BY <1>1, <1>2, <1>4 DEF ScreenTyped, RunTyped, Pending, Statuses, Reasons
  <2>2. VisitTyped /\ ChainTyped
    BY <1>1, <1>2 DEF VisitTyped, ChainTyped
  <2>3. QED
    BY <1>1, <1>2, <2>1, <2>2 DEF Typed
<1>6. CartSound
  <2>1. Sum(wished) = 0
    BY <1>2, ProductsFinite, SumZero DEF Sum
  <2>2. QED
    BY <1>1, <1>2, <2>1 DEF CartSound
<1>7. ScreenSound
  BY <1>1, <1>2, <1>4 DEF ScreenSound, PhaseSound, StatusSound, PageSound, Pending, Before,
     Executing, Creating, Funding, Settling
<1>8. DOMAIN pool = {} /\ DOMAIN orders = {}
  BY <1>1
<1>9. PoolSound /\ OrderSound /\ BooksSound /\ OpenSound
  BY <1>2, <1>4, <1>8 DEF PoolSound, OrderSound, BooksSound, OpenSound, Funding, Settling
<1>10. ChargedSound
  <2>1. \A p \in Products : Owing(p) = 0 /\ NotYetOut(p) = 0 /\ lost[p] = 0
    BY <1>1, <1>2, <1>8, SumEmpty DEF Owing, Charged, NotYetOut
  <2>2. \A p \in Products : Owing(p) + cart[p] <= wished[p] + NotYetOut(p) + lost[p]
    BY ONLY <1>2, <2>1
  <2>3. QED
    BY <2>2 DEF ChargedSound
<1>11. AllowanceSound
  BY <1>4, <1>8 DEF AllowanceSound, Executing, Creating, Funding, Settling
<1>12. QED
  BY <1>5, <1>6, <1>7, <1>9, <1>10, <1>11 DEF CheckoutInv

\* What has gone wrong is remembered.
LEMMA FaultsGrow ==
  ASSUME [Next]_vars
  PROVE  faults \subseteq faults'
<1>1. ASSUME NEW p \in Products, AddItem(p) \/ RemoveItems({p}) \/ OthersBuy(p)
      PROVE  faults \subseteq faults'
  BY <1>1 DEF AddItem, RemoveItems, OthersBuy, Fault
<1>2. CASE RemoveItems(Products) \/ \E a \in Accounts \cup {Nobody} : Connect(a)
  BY <1>2 DEF RemoveItems, Connect
<1>3. CASE OpenCheckout \/ FillAddress \/ Freeze \/ LeavePage \/ CloseTab \/ Cancel
  BY <1>3 DEF OpenCheckout, FillAddress, Freeze, LeavePage, CloseTab, Cancel, Fault
<1>4. ASSUME NEW r \in Runs, Start(r) \/ WalletAnswers(r)
      PROVE  faults \subseteq faults'
  BY <1>4 DEF Start, WalletAnswers, Fault
<1>5. ASSUME NEW r \in Runs, Preflight(r) \/ ReadAllowance(r) \/ WaitFails(r)
      PROVE  faults \subseteq faults'
  BY <1>5 DEF Preflight, ReadAllowance, WaitFails, Fault
<1>6. ASSUME NEW r \in Runs, SnapshotAddress(r) \/ Finalize(r) \/ AnswerFails(r)
      PROVE  faults \subseteq faults'
  BY <1>6 DEF SnapshotAddress, Finalize, AnswerFails, Fault
<1>7. ASSUME NEW request \in serving, Commit(request)
      PROVE  faults \subseteq faults'
  BY <1>7 DEF Commit
<1>8. CASE MineNext \/ UNCHANGED vars \/ \E n \in DOMAIN orders : Indexed(n)
  BY <1>8 DEF MineNext, Indexed, Fault, vars
<1>9. QED
  BY <1>1, <1>2, <1>3, <1>4, <1>5, <1>6, <1>7, <1>8 DEF Next, RunStep

\* A run that has not started waits for nothing.
LEMMA NoStepOff ==
  ASSUME NEW r \in Runs, run[r].pc = "off",
         \/ Preflight(r) \/ ReadAllowance(r) \/ WaitFails(r) \/ SnapshotAddress(r)
         \/ Finalize(r) \/ AnswerFails(r) \/ WalletAnswers(r)
  PROVE  FALSE
BY DEF Preflight, ReadAllowance, WaitFails, SnapshotAddress, Finalize, AnswerFails,
   WalletAnswers, Asking

LEMMA StepInv ==
  ASSUME Raced \/ CheckoutInv, [Next]_vars
  PROVE  (Raced \/ CheckoutInv)'
<1>1. Raced => Raced'
  BY FaultsGrow DEF Raced
<1>2. SUFFICES ASSUME CheckoutInv, ~Raced' PROVE CheckoutInv'
  BY <1>1
<1>3. ASSUME NEW p \in Products, AddItem(p) \/ RemoveItems({p}) \/ OthersBuy(p)
      PROVE  CheckoutInv'
  BY <1>2, <1>3, CartStepInv, PageInv
<1>4. CASE RemoveItems(Products)
  BY <1>2, <1>4, CartStepInv
<1>5. ASSUME NEW a \in Accounts \cup {Nobody}, Connect(a)
      PROVE  CheckoutInv'
  BY <1>2, <1>5, CartStepInv
<1>6. CASE OpenCheckout \/ FillAddress \/ Freeze \/ LeavePage \/ CloseTab \/ Cancel
  BY <1>2, <1>6, OpenCheckoutInv, PageInv, LeavePageInv, CloseTabInv
<1>7. ASSUME NEW r \in Runs, Start(r) \/ RunStep(r) \/ WalletAnswers(r)
      PROVE  CheckoutInv'
  <2>1. CASE \E request \in serving : AwaitsAnswer(r, request.order) /\ Commit(request)
    BY <1>2, <2>1, CommitInv
  <2>2. CASE r # tap /\ Start(r)
    BY <1>2, <2>2 DEF Start, Fault, Raced, tap
  <2>3. CASE r # tap /\ ~Start(r)
                /\ ~\E request \in serving : AwaitsAnswer(r, request.order) /\ Commit(request)
    <3>1. run[r].pc = "off"
      BY <1>2, <2>3 DEF CheckoutInv, Typed, ScreenTyped, RunTyped, Off
    <3>2. QED
      BY <1>7, <2>3, <3>1, NoStepOff DEF RunStep
  <2>4. CASE r = tap
    <3>1. Start(tap) \/ RunStep(tap) \/ WalletAnswers(tap)
      BY <1>7, <2>4
    <3>2. QED
      BY <1>2, <2>1, <2>4, <3>1, StartInv, PreflightInv, ReadAllowanceInv, WalletAnswersInv,
         WaitFailsInv, SnapshotInv, FinalizeInv DEF RunStep
  <2>5. QED
    BY <1>7, <2>1, <2>2, <2>3, <2>4 DEF RunStep
<1>8. ASSUME NEW request \in serving, Commit(request)
      PROVE  CheckoutInv'
  BY <1>2, <1>8, CommitInv
<1>9. CASE MineNext \/ UNCHANGED vars \/ \E n \in DOMAIN orders : Indexed(n)
  BY <1>2, <1>9, MineNextInv, PageInv
<1>10. QED
  BY <1>3, <1>4, <1>5, <1>6, <1>7, <1>8, <1>9 DEF Next
-------------------------------------------------------------------------------
(***************************************************************************)
(* Every activation of start(), whether or not two of them race: what the  *)
(* stock, the rows and the prompts of the wallet rest on.                  *)
(***************************************************************************)
RunRecords == [pc : Pcs, at : Nat, order : Nat]

WalletTransactions ==
    [kind : Awaiting, run : Runs \cup {NoRun}, order : Nat, visit : Nat,
     product : Products \cup {Nobody}, amount : Nat]

Requests == [order : Nat, product : Products, by : {"finalize", "retry"}, qty : Nat]

AllTyped ==
    /\ cart \in [Products -> Nat] /\ wished \in [Products -> Nat] /\ token \in [Products -> Nat]
    /\ phase \in {"idle", "allowance", "executing"} \cup Terminal
    /\ status \in [Products -> Statuses] /\ run \in [Runs -> RunRecords] /\ visits \in Nat
    /\ pool \in Seq(WalletTransactions) /\ orders \in Seq(OrdersOfCheckout)
    /\ allowance \in Nat /\ balance \in Nat
    /\ serving \subseteq Requests /\ stock \in [Products -> Nat]

\* The order an activation is at is an order of its own, which no request names before
\* the activation makes one.
RunSound(r) ==
    /\ ~PageOpen => run[r].pc = "off"
    /\ run[r].pc \in Executing => run[r].at \in DOMAIN GroupOrder
    /\ run[r].pc \in Funding \cup Settling =>
          /\ run[r].order \in DOMAIN orders
          /\ orders[run[r].order].product = Group(r)
          /\ orders[run[r].order].visit = visits
          /\ orders[run[r].order].qty = token[Group(r)]
    /\ run[r].pc \in Settling => orders[run[r].order].status = "Funded"
    /\ run[r].pc \in (Funding \cup Settling) \ {"answer"} =>
          \A request \in serving : request.order # run[r].order

Apart ==
    \A q, r \in Runs :
        /\ run[q].pc \in Funding \cup Settling /\ run[r].pc \in Funding \cup Settling
        /\ run[q].order = run[r].order
        => q = r

\* A transaction that an activation waits for is the one it asked for.
Awaited(tx) ==
    /\ tx.kind = run[tx.run].pc /\ tx.visit = visits
    /\ tx.kind # "approve" => tx.product = Group(tx.run) /\ tx.amount = token[Group(tx.run)]
    /\ tx.kind = "fund" => tx.order = run[tx.run].order

SentSound(tx) ==
    /\ tx.kind # "approve" => tx.product \in Products
    /\ tx.kind = "fund" => tx.order \in DOMAIN orders
    /\ tx.run # NoRun => Awaited(tx)

WalletSound ==
    /\ \A n \in DOMAIN pool : SentSound(pool[n])
    /\ \A m, n \in DOMAIN pool : pool[m].run # NoRun /\ pool[m].run = pool[n].run => m = n

\* A request that was let through names a paid order that is not stamped yet, and there
\* is one for an order at most.
ServingSound ==
    /\ \A request \in serving :
          /\ request.order \in DOMAIN orders /\ request.order \notin stamped
          /\ orders[request.order].status = "Funded"
          /\ orders[request.order].product = request.product
          /\ orders[request.order].qty = request.qty
    /\ \A one, other \in serving : one.order = other.order => one = other

Stamped(p) == {n \in stamped : orders[n].product = p}

StockSound ==
    /\ \A n \in stamped : n \in DOMAIN orders /\ orders[n].status = "Funded"
    /\ \A p \in Products :
          Stock0[p] <= stock[p] + SumFunctionOnSet(Quantities, Stamped(p))
                         + (IF "others" \in faults THEN 1 ELSE 0)

ShownSound == \A p \in Products : ShownPaid(p) => FundedNow(p) # {}

EveryRun ==
    /\ AllTyped /\ CartSound /\ \A r \in Runs : RunSound(r)
    /\ Apart /\ WalletSound /\ ServingSound /\ StockSound /\ ShownSound

LEMMA AllAre ==
  ASSUME AllTyped
  PROVE  /\ IsFiniteSet(DOMAIN orders) /\ \A n \in DOMAIN orders : orders[n] \in OrdersOfCheckout
         /\ \A n \in DOMAIN pool : pool[n] \in WalletTransactions
         /\ \A r \in Runs : run[r] \in RunRecords
<1>1. orders \in Seq(OrdersOfCheckout) /\ pool \in Seq(WalletTransactions)
  BY DEF AllTyped
<1>2. DOMAIN orders = 1..Len(orders) /\ Len(orders) \in Nat
  BY <1>1
<1>3. IsFiniteSet(DOMAIN orders)
  BY <1>2, FS_Interval
<1>4. QED
  BY <1>1, <1>3 DEF AllTyped

(***************************************************************************)
(* The moves of one activation.                                            *)
(***************************************************************************)
Move(r) ==
    /\ run' \in [Runs -> RunRecords] /\ \A q \in Runs \ {r} : run'[q] = run[q]
    /\ phase' \in {"idle", "allowance", "executing"} \cup Terminal
    /\ status' \in [Products -> Statuses] /\ cart' \in [Products -> Nat]
    /\ \A p \in Products : cart'[p] <= cart[p]
    /\ \A p \in Products :
          status'[p] = "success" =>
              status[p] = "success" \/ (run[r].pc \in Settling /\ p = Group(r))

\* A status that shows no seller as paid but those shown before and the one of r.
Truthful(r, st) ==
    /\ st \in [Products -> Statuses]
    /\ \A p \in Products :
          st[p] = "success" => status[p] = "success" \/ (run[r].pc \in Settling /\ p = Group(r))

LEMMA RunTo ==
  ASSUME AllTyped, NEW r \in Runs, NEW here \in RunRecords, run' = [run EXCEPT ![r] = here]
  PROVE  run' \in [Runs -> RunRecords] /\ run'[r] = here /\ \A q \in Runs \ {r} : run'[q] = run[q]
BY DEF AllTyped

LEMMA Ended ==
  ASSUME AllTyped, NEW r \in Runs, run' = [run EXCEPT ![r] = [Off EXCEPT !.pc = "ended"]]
  PROVE  /\ run' \in [Runs -> RunRecords] /\ run'[r].pc = "ended"
         /\ \A q \in Runs \ {r} : run'[q] = run[q]
<1> DEFINE here == [pc |-> "ended", at |-> 0, order |-> 0]
<1>1. [Off EXCEPT !.pc = "ended"] = here /\ here \in RunRecords /\ here.pc = "ended"
  BY DEF Off, Pcs, RunRecords
<1>2. run' = [run EXCEPT ![r] = here]
  BY <1>1
<1> HIDE DEF here
<1>3. QED
  BY <1>1, <1>2, RunTo

LEMMA EndMoves ==
  ASSUME AllTyped, NEW r \in Runs, NEW st, Truthful(r, st), End(r, st)
  PROVE  Move(r) /\ run'[r].pc = "ended"
<1>1. /\ run' \in [Runs -> RunRecords] /\ run'[r].pc = "ended"
      /\ \A q \in Runs \ {r} : run'[q] = run[q]
  BY Ended DEF End
<1>2. status' = st /\ phase' \in Terminal
  BY DEF End, FinalPhase, Terminal
<1>3. cart' \in [Products -> Nat] /\ \A p \in Products : cart'[p] <= cart[p]
  BY DEF End, Without, AllTyped
<1>4. QED
  BY <1>1, <1>2, <1>3 DEF Move, Truthful

LEMMA FailMoves ==
  ASSUME AllTyped, NEW r \in Runs, Fail(r)
  PROVE  Move(r) /\ run'[r].pc = "ended"
<1>1. /\ run' \in [Runs -> RunRecords] /\ run'[r].pc = "ended"
      /\ \A q \in Runs \ {r} : run'[q] = run[q]
  BY Ended DEF Fail
<1>2. /\ status' = status /\ cart' = cart /\ phase' \in Terminal
      /\ \A p \in Products : cart[p] \in Nat
  BY DEF Fail, Terminal, AllTyped
<1>3. QED
  BY <1>1, <1>2 DEF Move, AllTyped

LEMMA CanceledTruthful ==
  ASSUME NEW r, NEW st, NEW i, Truthful(r, st)
  PROVE  Truthful(r, RemainingCanceled(st, i))
BY DEF Truthful, RemainingCanceled, Statuses

LEMMA SellerFailsMoves ==
  ASSUME AllTyped, NEW r \in Runs, NEW why, SellerFails(r, why)
  PROVE  Move(r) /\ run'[r].pc = "ended"
<1> DEFINE st == [status EXCEPT ![Group(r)] = "error"]
<1>1. Truthful(r, st)
  BY DEF Truthful, AllTyped, Statuses
<1>2. End(r, RemainingCanceled(st, run[r].at + 1))
  BY DEF SellerFails
<1> HIDE DEF st
<1>3. QED
  BY <1>1, <1>2, CanceledTruthful, EndMoves

LEMMA SellerMoves ==
  ASSUME AllTyped, NEW r \in Runs, NEW i \in Nat, NEW st, Truthful(r, st), Seller(r, i, st)
  PROVE  /\ Move(r) /\ run'[r].pc \in {"ask create", "ended"}
         /\ run'[r].pc = "ask create" => run'[r].at \in DOMAIN GroupOrder /\ ~cancelled
<1>1. CASE GroupsFrom(i) = {}
  BY <1>1, EndMoves DEF Seller
<1>2. CASE GroupsFrom(i) # {} /\ cancelled
  <2>1. End(r, RemainingCanceled(st, i))
    BY <1>2 DEF Seller
  <2>2. QED
    BY <2>1, CanceledTruthful, EndMoves
<1>3. CASE GroupsFrom(i) # {} /\ ~cancelled
  <2>1. PICK n \in GroupsFrom(i) :
            /\ phase' = IF i = 1 THEN "executing" ELSE phase
            /\ status' = [st EXCEPT ![GroupOrder[n]] = "creating"]
            /\ run' = [run EXCEPT ![r] = [pc |-> "ask create", at |-> n, order |-> 0]]
            /\ UNCHANGED <<cart, snapshot>>
    BY <1>3 DEF Seller
  <2>2. n \in DOMAIN GroupOrder /\ n \in Nat
    BY GroupFacts DEF GroupsFrom
  <2> DEFINE here == [pc |-> "ask create", at |-> n, order |-> 0]
  <2>3. here \in RunRecords /\ here.pc = "ask create" /\ here.at = n
    BY <2>2 DEF RunRecords, Pcs, Executing, Creating
  <2> HIDE DEF here
  <2>4. run' \in [Runs -> RunRecords] /\ run'[r] = here /\ \A q \in Runs \ {r} : run'[q] = run[q]
    BY <2>1, <2>3, RunTo DEF here
  <2>5. /\ status' \in [Products -> Statuses]
        /\ \A p \in Products : status'[p] = "success" => st[p] = "success"
    BY <2>1 DEF Truthful, Statuses
  <2>6. cart' = cart /\ phase' \in {"idle", "allowance", "executing"} \cup Terminal
        /\ \A p \in Products : cart[p] \in Nat
    BY <2>1 DEF AllTyped
  <2>7. Move(r)
    BY <2>4, <2>5, <2>6 DEF Move, Truthful, AllTyped
  <2>8. QED
    BY <1>3, <2>2, <2>3, <2>4, <2>7
<1>4. QED
  BY <1>1, <1>2, <1>3

LEMMA NextSellerMoves ==
  ASSUME AllTyped, NEW r \in Runs, run[r].pc \in Settling, NextSeller(r)
  PROVE  /\ Move(r) /\ run'[r].pc \in {"ask create", "ended"}
         /\ run'[r].pc = "ask create" => run'[r].at \in DOMAIN GroupOrder /\ ~cancelled
<1> DEFINE st == [status EXCEPT ![Group(r)] = "success"]
<1>1. Truthful(r, st)
  BY DEF Truthful, AllTyped, Statuses
<1>2. run[r].at + 1 \in Nat
  BY AllAre DEF RunRecords
<1>3. Seller(r, run[r].at + 1, st)
  BY DEF NextSeller
<1> HIDE DEF st
<1>4. QED
  BY <1>1, <1>2, <1>3, SellerMoves

LEMMA GotoMoves ==
  ASSUME AllTyped, NEW r \in Runs, NEW pc \in Pcs, Goto(r, pc), UNCHANGED <<status, cart>>,
         phase' \in {"idle", "allowance", "executing"} \cup Terminal
  PROVE  Move(r) /\ run'[r].pc = pc /\ run'[r].at = run[r].at /\ run'[r].order = run[r].order
<1> DEFINE here == [run[r] EXCEPT !.pc = pc]
<1>1. /\ here \in RunRecords /\ here.pc = pc /\ here.at = run[r].at
      /\ here.order = run[r].order
  BY AllAre DEF RunRecords
<1>2. run' = [run EXCEPT ![r] = here]
  BY DEF Goto
<1> HIDE DEF here
<1>3. run' \in [Runs -> RunRecords] /\ run'[r] = here /\ \A q \in Runs \ {r} : run'[q] = run[q]
  BY <1>1, <1>2, RunTo
<1>4. \A p \in Products : cart[p] \in Nat
  BY DEF AllTyped
<1>5. QED
  BY <1>1, <1>3, <1>4 DEF Move, AllTyped

(***************************************************************************)
(* The steps of one activation.                                            *)
(***************************************************************************)
LEMMA ShownStays ==
  ASSUME EveryRun, NEW r \in Runs, Move(r), UNCHANGED visits, OrdersKept
  PROVE  ShownSound'
<1> SUFFICES ASSUME NEW p \in Products, status'[p] = "success"
             PROVE  FundedNow(p)' # {}
  BY DEF ShownSound, ShownPaid
<1>1. FundedNow(p) # {}
  <2>1. CASE status[p] = "success"
    BY <2>1 DEF EveryRun, ShownSound, ShownPaid
  <2>2. CASE run[r].pc \in Settling /\ p = Group(r)
    <3>1. RunSound(r)
      BY DEF EveryRun
    <3>2. run[r].order \in FundedNow(p)
      BY <2>2, <3>1 DEF RunSound, FundedNow
    <3>3. QED
      BY <3>2
  <2>3. QED
    BY <2>1, <2>2 DEF Move
<1>2. FundedNow(p) \subseteq FundedNow(p)'
  BY DEF OrdersKept, FundedNow
<1>3. QED
  BY <1>1, <1>2

\* The activations that do not take the step.
LEMMA RunStays ==
  ASSUME EveryRun, NEW q \in Runs, run'[q] = run[q], UNCHANGED <<token, visits>>, OrdersKept,
         \A request \in serving' \ serving :
             run[q].pc \in Funding \cup Settling => request.order # run[q].order
  PROVE  RunSound(q)'
<1>1. RunSound(q) /\ PageOpen' = PageOpen /\ Group(q)' = Group(q)
  BY DEF EveryRun, PageOpen, Group
<1>2. ASSUME run[q].pc \in (Funding \cup Settling) \ {"answer"}, NEW request \in serving'
      PROVE  request.order # run[q].order
  <2>1. CASE request \in serving
    BY <1>1, <1>2, <2>1 DEF RunSound
  <2>2. CASE request \notin serving
    BY <1>2, <2>2
  <2>3. QED
    BY <2>1, <2>2
<1>3. run[q].pc \in Funding \cup Settling =>
          /\ run[q].order \in DOMAIN orders'
          /\ orders'[run[q].order].product = Group(q)
          /\ orders'[run[q].order].visit = visits
          /\ orders'[run[q].order].qty = token[Group(q)]
  BY <1>1 DEF RunSound, OrdersKept
<1>4. run[q].pc \in Settling => orders'[run[q].order].status = "Funded"
  BY <1>1 DEF RunSound, OrdersKept
<1>5. QED
  BY <1>1, <1>2, <1>3, <1>4 DEF RunSound

LEMMA RunsStay ==
  ASSUME EveryRun, NEW r \in Runs, Move(r), UNCHANGED <<token, visits>>, OrdersKept,
         RunSound(r)',
         run'[r].pc \in Funding \cup Settling =>
             \/ run[r].pc \in Funding \cup Settling /\ run'[r].order = run[r].order
             \/ run'[r].order \notin DOMAIN orders,
         \A request \in serving' \ serving :
             run[r].pc \in Settling /\ request.order = run[r].order
  PROVE  (\A q \in Runs : RunSound(q)') /\ Apart'
<1>1. Apart /\ \A q \in Runs : RunSound(q)
  BY DEF EveryRun
<1>2. ASSUME NEW q \in Runs, q # r PROVE RunSound(q)' /\ run'[q] = run[q]
  <2>1. run'[q] = run[q]
    BY <1>2 DEF Move
  <2>2. \A request \in serving' \ serving :
            run[q].pc \in Funding \cup Settling => request.order # run[q].order
    BY <1>1, <1>2 DEF Apart
  <2>3. QED
    BY <2>1, <2>2, RunStays
<1>3. ASSUME NEW q \in Runs, q # r, run'[q].pc \in Funding \cup Settling,
             run'[r].pc \in Funding \cup Settling
      PROVE  run'[q].order # run'[r].order
  <2>1. run[q].order \in DOMAIN orders /\ run'[q] = run[q]
    BY <1>1, <1>2, <1>3 DEF RunSound
  <2>2. QED
    BY <1>1, <1>3, <2>1 DEF Apart
<1>4. Apart'
  <2> SUFFICES ASSUME NEW a \in Runs, NEW b \in Runs, run'[a].pc \in Funding \cup Settling,
                      run'[b].pc \in Funding \cup Settling, run'[a].order = run'[b].order
               PROVE  a = b
    BY DEF Apart
  <2>1. CASE a = r \/ b = r
    BY <1>3, <2>1
  <2>2. CASE a # r /\ b # r
    BY <1>1, <1>2, <2>2 DEF Apart
  <2>3. QED
    BY <2>1, <2>2
<1>5. QED
  BY <1>2, <1>4

\* A transaction that another activation waits for, or none.
LEMMA SentStays ==
  ASSUME AllTyped, NEW tx \in WalletTransactions, SentSound(tx), OrdersKept,
         UNCHANGED <<token, visits>>, tx.run # NoRun => run'[tx.run] = run[tx.run]
  PROVE  SentSound(tx)'
<1>1. tx.run # NoRun => Awaited(tx)'
  BY DEF SentSound, Awaited, Group
<1>2. QED
  BY <1>1 DEF SentSound, OrdersKept

LEMMA SentRun ==
  ASSUME AllTyped, NEW n \in DOMAIN pool, SentSound(pool[n]), NEW r \in Runs, pool[n].run = r
  PROVE  run[r].pc = pool[n].kind /\ run[r].pc \in Awaiting
<1>1. pool[n] \in WalletTransactions
  BY AllAre
<1>2. QED
  BY <1>1, TapFacts DEF SentSound, Awaited, WalletTransactions

LEMMA WalletStays ==
  ASSUME EveryRun, NEW r \in Runs, Move(r), run[r].pc \notin Awaiting,
         UNCHANGED <<pool, token, visits>>, OrdersKept
  PROVE  WalletSound'
<1>0. AllTyped /\ WalletSound
  BY DEF EveryRun
<1>1. ASSUME NEW n \in DOMAIN pool PROVE SentSound(pool[n])'
  <2>1. PICK tx \in WalletTransactions : tx = pool[n] /\ SentSound(tx)
    BY <1>0, AllAre DEF WalletSound
  <2>2. tx.run # r
    BY <1>0, <2>1, SentRun
  <2>3. tx.run # NoRun => run'[tx.run] = run[tx.run]
    BY <2>1, <2>2 DEF WalletTransactions, Move
  <2>4. SentSound(tx)'
    BY <1>0, <2>1, <2>3, SentStays
  <2>5. QED
    BY <2>1, <2>4
<1>2. QED
  BY <1>0, <1>1 DEF WalletSound

\* The orders grow, and the backend does nothing.
LEMMA StampedFacts ==
  ASSUME AllTyped, StockSound, NEW p \in Products
  PROVE  /\ IsFiniteSet(Stamped(p)) /\ Stamped(p) \subseteq DOMAIN orders
         /\ \A n \in Stamped(p) : Quantities[n] \in Nat
         /\ SumFunctionOnSet(Quantities, Stamped(p)) \in Nat
<1>1. Stamped(p) \in SUBSET (DOMAIN orders) /\ orders \in Seq(OrdersOfCheckout)
  BY DEF Stamped, StockSound, AllTyped
<1>2. QED
  BY <1>1, UnitsOf

LEMMA StockStays ==
  ASSUME EveryRun, UNCHANGED stamped, OrdersKept, faults \subseteq faults',
         stock' \in [Products -> Nat],
         \A p \in Products :
             \/ stock'[p] = stock[p]
             \/ stock[p] <= stock'[p] + 1 /\ "others" \in faults' \ faults
  PROVE  StockSound'
<1>0. AllTyped /\ StockSound /\ stock \in [Products -> Nat] /\ Stock0 \in [Products -> Nat]
  BY CheckoutAssumption DEF EveryRun, AllTyped
<1>1. ASSUME NEW p \in Products
      PROVE  SumFunctionOnSet(Quantities, Stamped(p))'
               = SumFunctionOnSet(Quantities, Stamped(p))
  <2>1. Stamped(p)' = Stamped(p)
    BY <1>0 DEF Stamped, OrdersKept, StockSound
  <2>2. \A n \in Stamped(p) : Quantities'[n] = Quantities[n]
    BY <1>0, StampedFacts DEF Quantities, OrdersKept
  <2>3. QED
    BY <1>0, <2>1, <2>2, StampedFacts, SumEqual
<1>2. \A n \in stamped' : n \in DOMAIN orders' /\ orders'[n].status = "Funded"
  BY <1>0 DEF StockSound, OrdersKept
<1>3. ASSUME NEW p \in Products
      PROVE  Stock0[p] <= stock'[p] + SumFunctionOnSet(Quantities, Stamped(p))'
                            + (IF "others" \in faults' THEN 1 ELSE 0)
  <2> DEFINE sum == SumFunctionOnSet(Quantities, Stamped(p))
  <2>1. /\ Stock0[p] <= stock[p] + sum + (IF "others" \in faults THEN 1 ELSE 0)
        /\ sum \in Nat /\ stock[p] \in Nat /\ stock'[p] \in Nat /\ Stock0[p] \in Nat
    BY <1>0, StampedFacts DEF StockSound
  <2>2. SumFunctionOnSet(Quantities, Stamped(p))' = sum
    BY <1>1
  <2> HIDE DEF sum
  <2>3. QED
    BY <2>1, <2>2
<1>4. QED
  BY <1>2, <1>3 DEF StockSound

LEMMA BackendStays ==
  ASSUME EveryRun, UNCHANGED <<serving, stamped, stock>>, OrdersKept, faults \subseteq faults'
  PROVE  ServingSound' /\ StockSound'
<1>1. ServingSound'
  BY DEF EveryRun, ServingSound, OrdersKept
<1>2. StockSound'
  BY StockStays DEF EveryRun, AllTyped
<1>3. QED
  BY <1>1, <1>2

LEMMA CartStays ==
  ASSUME EveryRun, NEW r \in Runs, Move(r), UNCHANGED <<token, cartRest>>
  PROVE  CartSound'
<1>1. \A p \in Products : cart'[p] <= cart[p] /\ cart'[p] \in Nat /\ cart[p] \in Nat
                          /\ wished[p] \in Nat
  BY DEF EveryRun, AllTyped, Move
<1>2. Sum(wished)' = Sum(wished) /\ UNCHANGED <<wished, owner, connected, addedBy>>
  BY DEF Sum, cartRest
<1>3. QED
  BY <1>1, <1>2 DEF EveryRun, CartSound

\* Where a step of r that touches no chain may take it.
Onward(r) ==
    /\ run'[r].pc \in Executing => run'[r].at \in DOMAIN GroupOrder
    /\ run'[r].pc \in Funding \cup Settling =>
          /\ run[r].pc \in Funding \cup Settling
          /\ run'[r].order = run[r].order /\ run'[r].at = run[r].at
    /\ run'[r].pc \in Settling => run[r].pc \in Settling
    /\ run'[r].pc \in (Funding \cup Settling) \ {"answer"} =>
          run[r].pc # "answer" /\ serving' = serving

LEMMA Onwards ==
  ASSUME EveryRun, NEW r \in Runs, PageOpen, Move(r), Onward(r), run[r].pc \notin Awaiting,
         UNCHANGED <<token, visits, cartRest>>, UNCHANGED chainVars,
         serving' \subseteq Requests, stock' \in [Products -> Nat], ServingSound', StockSound',
         \A request \in serving' \ serving :
             run[r].pc \in Settling /\ request.order = run[r].order
  PROVE  EveryRun'
<1>1. UNCHANGED <<pool, allowance, balance, orders>> /\ OrdersKept /\ PageOpen'
  BY DEF chainVars, OrdersKept, PageOpen
<1>2. AllTyped'
  BY <1>1 DEF EveryRun, AllTyped, Move, cartRest
<1>3. RunSound(r)'
  <2>1. RunSound(r)
    BY DEF EveryRun
  <2>2. CASE run'[r].pc \notin Funding \cup Settling
    BY <1>1, <2>2 DEF RunSound, Onward, Executing
  <2>3. CASE run'[r].pc \in Funding \cup Settling
    <3>1. /\ Group(r)' = Group(r) /\ run[r].pc \in Funding \cup Settling
          /\ run'[r].order = run[r].order
      BY <2>3 DEF Onward, Group
    <3>2. run'[r].pc \in Executing => run'[r].at \in DOMAIN GroupOrder
      BY DEF Onward
    <3>3. run'[r].pc # "answer" => \A request \in serving' : request.order # run'[r].order
      BY <2>1, <2>3, <3>1 DEF Onward, RunSound
    <3>4. run'[r].pc \in Settling => orders'[run'[r].order].status = "Funded"
      BY <1>1, <2>1, <3>1 DEF Onward, RunSound
    <3>5. QED
      BY <1>1, <2>1, <3>1, <3>2, <3>3, <3>4 DEF RunSound
  <2>4. QED
    BY <2>2, <2>3
<1>4. (\A q \in Runs : RunSound(q)') /\ Apart'
  BY <1>1, <1>3, RunsStay DEF Onward
<1>5. CartSound' /\ ShownSound' /\ WalletSound'
  BY <1>1, CartStays, ShownStays, WalletStays
<1>6. QED
  BY <1>2, <1>4, <1>5 DEF EveryRun

\* A step of r that leaves the chain and finalize_cart alone.
LEMMA QuietOnwards ==
  ASSUME EveryRun, NEW r \in Runs, PageOpen, Move(r), Onward(r), run[r].pc \notin Awaiting,
         UNCHANGED <<token, visits, cartRest>>, UNCHANGED chainVars,
         UNCHANGED <<serving, stamped, stock>>, faults \subseteq faults'
  PROVE  EveryRun'
<1>1. OrdersKept
  BY DEF chainVars, OrdersKept
<1>2. ServingSound' /\ StockSound'
  BY <1>1, BackendStays
<1>3. serving' \subseteq Requests /\ stock' \in [Products -> Nat]
  BY DEF EveryRun, AllTyped
<1>4. QED
  BY <1>2, <1>3, Onwards

LEMMA OnPage ==
  ASSUME EveryRun, NEW r \in Runs, run[r].pc # "off"
  PROVE  PageOpen
BY DEF EveryRun, RunSound

LEMMA Next0 ==
  ASSUME NEW r, run'[r].pc \in {"preflight", "ended", "ask create"} \cup Before,
         run'[r].pc = "ask create" => run'[r].at \in DOMAIN GroupOrder
  PROVE  Onward(r)
BY DEF Onward, Executing, Creating, Funding, Settling, Before

LEMMA EveryStart ==
  ASSUME EveryRun, NEW r \in Runs, Start(r)
  PROVE  EveryRun'
<1>1. /\ PageOpen /\ run[r].pc = "off" /\ Goto(r, "preflight")
      /\ UNCHANGED <<phase, status, cart>> /\ UNCHANGED <<token, visits, cartRest>>
      /\ UNCHANGED chainVars /\ UNCHANGED <<serving, stamped, stock>> /\ faults \subseteq faults'
  BY DEF Start, PayEnabled, Fault, pageRest, cartRest, cartVars, backendVars
<1>2. AllTyped /\ "preflight" \in Pcs
  BY DEF EveryRun, Pcs
<1>3. Move(r) /\ run'[r].pc = "preflight"
  <2>1. phase' \in {"idle", "allowance", "executing"} \cup Terminal
    BY <1>1, <1>2 DEF AllTyped
  <2>2. QED
    BY <1>1, <1>2, <2>1, GotoMoves
<1>4. QED
  BY <1>1, <1>3, Next0, QuietOnwards DEF Awaiting

LEMMA EveryPreflight ==
  ASSUME EveryRun, NEW r \in Runs, Preflight(r)
  PROVE  EveryRun'
<1>1. /\ run[r].pc = "preflight" /\ UNCHANGED <<token, visits, cartRest>>
      /\ UNCHANGED chainVars /\ UNCHANGED <<serving, stamped, stock>> /\ faults \subseteq faults'
      /\ \/ phase' = "allowance" /\ Goto(r, "allowance") /\ UNCHANGED <<status, cart>>
         \/ Fail(r)
  BY DEF Preflight, Fault, backendVars
<1>2. AllTyped /\ "allowance" \in Pcs
  BY DEF EveryRun, Pcs, Before
<1>3. Move(r) /\ run'[r].pc \in {"allowance", "ended"}
  BY <1>1, <1>2, GotoMoves, FailMoves
<1>4. PageOpen
  BY <1>1, OnPage
<1>5. Onward(r)
  BY <1>3, Next0 DEF Before
<1>6. QED
  BY <1>1, <1>3, <1>4, <1>5, QuietOnwards DEF Awaiting

\* What the read of the allowance leads to.
LEMMA ReadAllowanceMoves ==
  ASSUME AllTyped, NEW r \in Runs, ReadAllowance(r)
  PROVE  /\ Move(r) /\ run'[r].pc \in {"ask approve", "ask create", "ended"}
         /\ run'[r].pc = "ask create" => run'[r].at \in DOMAIN GroupOrder
         /\ run'[r].pc # "ended" => ~cancelled
<1>1. \/ End(r, RemainingCanceled(status, 1))
      \/ ~cancelled /\ Goto(r, "ask approve") /\ UNCHANGED <<phase, status, cart>>
      \/ Seller(r, 1, status)
      \/ Fail(r)
  BY DEF ReadAllowance
<1>2. Truthful(r, status) /\ "ask approve" \in Pcs
  BY DEF Truthful, AllTyped, Pcs, Before
<1>3. CASE End(r, RemainingCanceled(status, 1))
  BY <1>2, <1>3, CanceledTruthful, EndMoves
<1>4. CASE ~cancelled /\ Goto(r, "ask approve") /\ UNCHANGED <<phase, status, cart>>
  <2>1. phase' \in {"idle", "allowance", "executing"} \cup Terminal
    BY <1>4 DEF AllTyped
  <2>2. QED
    BY <1>2, <1>4, <2>1, GotoMoves
<1>5. CASE Seller(r, 1, status)
  BY <1>2, <1>5, SellerMoves
<1>6. CASE Fail(r)
  BY <1>6, FailMoves
<1>7. QED
  BY <1>1, <1>3, <1>4, <1>5, <1>6

LEMMA EveryReadAllowance ==
  ASSUME EveryRun, NEW r \in Runs, ReadAllowance(r)
  PROVE  EveryRun'
<1>1. /\ run[r].pc = "allowance" /\ UNCHANGED <<token, visits, cartRest>>
      /\ UNCHANGED chainVars /\ UNCHANGED <<serving, stamped, stock>> /\ faults \subseteq faults'
  BY DEF ReadAllowance, Fault, pageRest, backendVars
<1>2. /\ Move(r) /\ run'[r].pc \in {"ask approve", "ask create", "ended"}
      /\ run'[r].pc = "ask create" => run'[r].at \in DOMAIN GroupOrder
  BY ReadAllowanceMoves DEF EveryRun
<1>3. Onward(r)
  BY <1>2, Next0 DEF Before
<1>4. QED
  BY <1>1, <1>2, <1>3, OnPage, QuietOnwards DEF Awaiting

LEMMA EverySnapshot ==
  ASSUME EveryRun, NEW r \in Runs, SnapshotAddress(r)
  PROVE  EveryRun'
<1>1. /\ run[r].pc = "snapshot" /\ UNCHANGED <<token, visits, cartRest>>
      /\ UNCHANGED chainVars /\ UNCHANGED <<serving, stamped, stock>> /\ faults \subseteq faults'
      /\ Goto(r, "finalize") /\ UNCHANGED <<phase, status, cart>>
  BY DEF SnapshotAddress, Fault, pageRest, cartRest, cartVars
<1>2. AllTyped /\ "finalize" \in Pcs
  BY DEF EveryRun, Pcs, Executing, Settling
<1>3. /\ Move(r) /\ run'[r].pc = "finalize" /\ run'[r].at = run[r].at
      /\ run'[r].order = run[r].order
  <2>1. phase' \in {"idle", "allowance", "executing"} \cup Terminal
    BY <1>1, <1>2 DEF AllTyped
  <2>2. QED
    BY <1>1, <1>2, <2>1, GotoMoves
<1>4. RunSound(r)
  BY DEF EveryRun
<1>5. Onward(r)
  BY <1>1, <1>3, <1>4 DEF Onward, RunSound, Executing, Settling
<1>6. QED
  BY <1>1, <1>3, <1>5, OnPage, QuietOnwards DEF Awaiting

LEMMA EveryNextSeller ==
  ASSUME EveryRun, NEW r \in Runs, run[r].pc \in Settling, NextSeller(r),
         UNCHANGED finalizeRest, serving' \subseteq serving, stock' \in [Products -> Nat],
         ServingSound', StockSound'
  PROVE  EveryRun'
<1>1. /\ Move(r) /\ run'[r].pc \in {"ask create", "ended"}
      /\ run'[r].pc = "ask create" => run'[r].at \in DOMAIN GroupOrder
  BY NextSellerMoves DEF EveryRun
<1>2. Onward(r) /\ PageOpen /\ run[r].pc \notin Awaiting
  BY <1>1, Next0, OnPage DEF Settling, Awaiting
<1>3. UNCHANGED <<token, visits, cartRest>> /\ UNCHANGED chainVars
  BY DEF finalizeRest, pageRest
<1>4. serving' \subseteq Requests
  BY DEF EveryRun, AllTyped
<1>5. QED
  BY <1>1, <1>2, <1>3, <1>4, Onwards

LEMMA EveryRetry ==
  ASSUME EveryRun, NEW r \in Runs, run[r].pc = "finalize", Goto(r, "retry"),
         UNCHANGED <<phase, status, cart>>, UNCHANGED finalizeRest,
         UNCHANGED <<serving, stamped, stock>>, faults' = faults
  PROVE  EveryRun'
<1>1. AllTyped /\ "retry" \in Pcs /\ RunSound(r)
  BY DEF EveryRun, Pcs, Executing, Settling
<1>2. /\ Move(r) /\ run'[r].pc = "retry" /\ run'[r].at = run[r].at
      /\ run'[r].order = run[r].order
  <2>1. phase' \in {"idle", "allowance", "executing"} \cup Terminal
    BY <1>1 DEF AllTyped
  <2>2. QED
    BY <1>1, <2>1, GotoMoves
<1>3. Onward(r) /\ PageOpen /\ run[r].pc \notin Awaiting
  BY <1>1, <1>2, OnPage DEF Onward, RunSound, Executing, Settling, Awaiting
<1>4. UNCHANGED <<token, visits, cartRest>> /\ UNCHANGED chainVars
  BY DEF finalizeRest, pageRest
<1>5. QED
  BY <1>2, <1>3, <1>4, QuietOnwards

\* The request is let through: no other one names the order.
LEMMA EveryRequest ==
  ASSUME EveryRun, NEW r \in Runs, run[r].pc \in {"finalize", "retry"},
         run[r].order \notin stamped,
         serving' = serving \cup {[order |-> run[r].order, product |-> Group(r),
                                   by |-> run[r].pc, qty |-> token[Group(r)]]},
         Goto(r, "answer"), UNCHANGED <<phase, status, cart>>, UNCHANGED finalizeRest,
         UNCHANGED <<stamped, stock>>, faults' = faults
  PROVE  EveryRun'
<1> DEFINE new == [order |-> run[r].order, product |-> Group(r), by |-> run[r].pc,
                   qty |-> token[Group(r)]]
<1>1. AllTyped /\ "answer" \in Pcs /\ RunSound(r) /\ run[r] \in RunRecords
      /\ ServingSound /\ serving \subseteq Requests
  BY AllAre DEF EveryRun, AllTyped, Pcs, Executing, Settling
<1>2. /\ Move(r) /\ run'[r].pc = "answer" /\ run'[r].at = run[r].at
      /\ run'[r].order = run[r].order
  <2>1. phase' \in {"idle", "allowance", "executing"} \cup Terminal
    BY <1>1 DEF AllTyped
  <2>2. QED
    BY <1>1, <2>1, GotoMoves
<1>3. Onward(r) /\ PageOpen /\ run[r].pc \notin Awaiting /\ run[r].pc \in Settling
  BY <1>1, <1>2, OnPage DEF Onward, RunSound, Executing, Settling, Awaiting
<1>4. UNCHANGED <<token, visits, cartRest>> /\ UNCHANGED chainVars
  BY DEF finalizeRest, pageRest
<1>5. /\ run[r].order \in DOMAIN orders /\ orders[run[r].order].product = Group(r)
      /\ orders[run[r].order].qty = token[Group(r)]
      /\ orders[run[r].order].status = "Funded"
      /\ \A request \in serving : request.order # run[r].order
  BY <1>1, <1>3 DEF RunSound, Settling
<1>6. Group(r) \in Products /\ token[Group(r)] \in Nat
  BY <1>1, <1>5, AllAre DEF OrdersOfCheckout, AllTyped
<1>7. new \in Requests
  BY <1>1, <1>6 DEF Requests, RunRecords
<1>8. new.order = run[r].order /\ new.product = Group(r) /\ new.qty = token[Group(r)]
  OBVIOUS
<1>9. serving' = serving \cup {new}
  OBVIOUS
<1> HIDE DEF new
<1>10. ServingSound'
  <2>1. orders' = orders /\ stamped' = stamped
    BY <1>4 DEF chainVars
  <2>2. ASSUME NEW request \in serving'
        PROVE  /\ request.order \in DOMAIN orders /\ request.order \notin stamped
               /\ orders[request.order].status = "Funded"
               /\ orders[request.order].product = request.product
               /\ orders[request.order].qty = request.qty
    <3>1. CASE request \in serving
      BY <1>1, <3>1 DEF ServingSound
    <3>2. CASE request = new
      BY <1>5, <1>8, <3>2
    <3>3. QED
      BY <1>9, <3>1, <3>2
  <2>3. \A one, other \in serving' : one.order = other.order => one = other
    BY <1>1, <1>5, <1>8, <1>9 DEF ServingSound
  <2>4. QED
    BY <2>1, <2>2, <2>3 DEF ServingSound
<1>11. StockSound' /\ stock' \in [Products -> Nat]
  <2>1. OrdersKept
    BY <1>4 DEF OrdersKept, chainVars
  <2>2. QED
    BY <1>1, <2>1, StockStays DEF AllTyped
<1>12. serving' \subseteq Requests /\ \A request \in serving' \ serving : request.order = run[r].order
  BY <1>1, <1>7, <1>8, <1>9
<1>13. QED
  BY <1>2, <1>3, <1>4, <1>10, <1>11, <1>12, Onwards

LEMMA EveryFinalize ==
  ASSUME EveryRun, NEW r \in Runs, Finalize(r)
  PROVE  EveryRun'
<1>1. /\ run[r].pc \in {"finalize", "retry"} /\ UNCHANGED finalizeRest
      /\ UNCHANGED <<stamped, stock>> /\ faults \subseteq faults' /\ run[r].pc \in Settling
  BY DEF Finalize, Fault, Settling
<1>2. \/ NextSeller(r) /\ UNCHANGED serving
      \/ /\ run[r].pc = "finalize" /\ Goto(r, "retry") /\ UNCHANGED <<phase, status, cart>>
         /\ UNCHANGED serving /\ faults' = faults
      \/ /\ run[r].order \notin stamped
         /\ serving' = serving \cup {[order |-> run[r].order, product |-> Group(r),
                                      by |-> run[r].pc, qty |-> token[Group(r)]]}
         /\ Goto(r, "answer") /\ UNCHANGED <<phase, status, cart>> /\ faults' = faults
  BY DEF Finalize, AfterError
<1>3. CASE NextSeller(r) /\ UNCHANGED serving
  <2>1. OrdersKept
    BY <1>1 DEF finalizeRest, chainVars, OrdersKept
  <2>2. ServingSound' /\ StockSound' /\ stock' \in [Products -> Nat]
    BY <1>1, <1>3, <2>1, BackendStays DEF EveryRun, AllTyped
  <2>3. QED
    BY <1>1, <1>3, <2>2, EveryNextSeller
<1>4. QED
  BY <1>1, <1>2, <1>3, EveryRetry, EveryRequest

LEMMA EveryAnswerFails ==
  ASSUME EveryRun, NEW r \in Runs, AnswerFails(r)
  PROVE  EveryRun'
<1>1. /\ NextSeller(r) /\ UNCHANGED finalizeRest /\ UNCHANGED <<stamped, stock>>
      /\ serving' \subseteq serving /\ faults \subseteq faults' /\ run[r].pc \in Settling
  BY DEF AnswerFails, AfterError, Fault, Settling
<1>2. OrdersKept /\ orders' = orders
  BY <1>1 DEF finalizeRest, chainVars, OrdersKept
<1>3. ServingSound'
  BY <1>1, <1>2 DEF EveryRun, ServingSound
<1>4. StockSound' /\ stock' \in [Products -> Nat]
  BY <1>1, <1>2, StockStays DEF EveryRun, AllTyped
<1>5. QED
  BY <1>1, <1>3, <1>4, EveryNextSeller

\* The order of the request is paid, and takes its stock once.
LEMMA StockTaken ==
  ASSUME EveryRun, NEW request \in serving, UNCHANGED <<orders, faults>>,
         serving' = serving \ {request}, stamped' = stamped \cup {request.order},
         stock' = [stock EXCEPT ![request.product] = Taken(request.product, request.qty)]
  PROVE  ServingSound' /\ StockSound' /\ stock' \in [Products -> Nat]
<1> DEFINE g == request.product
           n == request.order
           qty == request.qty
<1>0. /\ AllTyped /\ StockSound /\ ServingSound /\ stock \in [Products -> Nat]
      /\ Stock0 \in [Products -> Nat] /\ g \in Products /\ qty \in Nat
  BY CheckoutAssumption DEF EveryRun, AllTyped, Requests
<1>1. /\ n \in DOMAIN orders /\ orders[n].status = "Funded" /\ orders[n].product = g
      /\ orders[n].qty = qty /\ n \notin stamped
  BY <1>0 DEF ServingSound
<1> HIDE DEF g, n, qty
<1>2. ServingSound'
  BY <1>0, <1>1 DEF ServingSound, n
<1>3. /\ stock' \in [Products -> Nat] /\ stock[g] <= stock'[g] + qty
      /\ \A p \in Products : p # g => stock'[p] = stock[p]
  BY <1>0 DEF Taken, g, qty
<1>4. \A m \in stamped' : m \in DOMAIN orders' /\ orders'[m].status = "Funded"
  BY <1>0, <1>1 DEF StockSound, n
<1>5. Quantities' = Quantities /\ Quantities[n] = qty
  BY <1>1 DEF Quantities
<1>6. ASSUME NEW p \in Products
      PROVE  Stock0[p] <= stock'[p] + SumFunctionOnSet(Quantities, Stamped(p))'
                            + (IF "others" \in faults' THEN 1 ELSE 0)
  <2> DEFINE sum == SumFunctionOnSet(Quantities, Stamped(p))
  <2>1. /\ Stock0[p] <= stock[p] + sum + (IF "others" \in faults THEN 1 ELSE 0)
        /\ sum \in Nat /\ stock[p] \in Nat /\ stock'[p] \in Nat /\ Stock0[p] \in Nat
    BY <1>0, <1>3, StampedFacts DEF StockSound
  <2>2. CASE p = g
    <3>1. Stamped(p)' = Stamped(p) \cup {n} /\ n \notin Stamped(p)
      BY <1>1, <2>2 DEF Stamped, n
    <3>2. IsFiniteSet(Stamped(p)') /\ \A m \in Stamped(p)' : Quantities[m] \in Int
      BY <1>0, <1>5, <3>1, StampedFacts, FS_AddElement
    <3>3. SumFunctionOnSet(Quantities, Stamped(p)')
            = Quantities[n] + SumFunctionOnSet(Quantities, Stamped(p)' \ {n})
      BY <3>1, <3>2, SumSplit
    <3>4. Stamped(p)' \ {n} = Stamped(p)
      BY <3>1
    <3>5. SumFunctionOnSet(Quantities, Stamped(p))' = qty + sum
      BY <1>5, <3>3, <3>4
    <3>6. stock[p] <= stock'[p] + qty
      BY <1>3, <2>2
    <3> HIDE DEF sum
    <3>7. QED
      BY <1>0, <2>1, <3>5, <3>6
  <2>3. CASE p # g
    <3>1. Stamped(p)' = Stamped(p)
      BY <1>1, <2>3 DEF Stamped, n
    <3>2. SumFunctionOnSet(Quantities, Stamped(p))' = sum /\ stock'[p] = stock[p]
      BY <1>3, <1>5, <2>3, <3>1
    <3> HIDE DEF sum
    <3>3. QED
      BY <2>1, <3>2
  <2>4. QED
    BY <2>2, <2>3
<1>7. QED
  BY <1>2, <1>3, <1>4, <1>6 DEF StockSound

\* No activation takes the step, and what the buyer sees stays.
LEMMA QuietEvery ==
  ASSUME EveryRun, UNCHANGED <<token, status, run, visits>>, UNCHANGED chainVars,
         serving' \subseteq serving, ServingSound', StockSound', CartSound',
         stock' \in [Products -> Nat],
         cart' \in [Products -> Nat], wished' \in [Products -> Nat],
         phase' = phase
  PROVE  EveryRun'
<1>1. UNCHANGED <<pool, allowance, balance, orders>> /\ OrdersKept
  BY DEF chainVars, OrdersKept
<1>2. AllTyped'
  BY <1>1 DEF EveryRun, AllTyped
<1>3. ASSUME NEW r \in Runs PROVE RunSound(r)'
  BY <1>1, RunStays
<1>4. Apart' /\ ShownSound'
  BY <1>1 DEF EveryRun, Apart, ShownSound, ShownPaid, FundedNow
<1>5. WalletSound'
  <2>1. \A tx : SentSound(tx)' = SentSound(tx)
    BY <1>1 DEF SentSound, Awaited, Group
  <2>2. QED
    BY <1>1, <2>1 DEF EveryRun, WalletSound
<1>6. QED
  BY <1>2, <1>3, <1>4, <1>5 DEF EveryRun

LEMMA EveryCommit ==
  ASSUME EveryRun, NEW request \in serving, Commit(request)
  PROVE  EveryRun'
<1>1. /\ serving' = serving \ {request} /\ UNCHANGED finalizeRest /\ UNCHANGED <<orders, faults>>
      /\ ServingSound' /\ StockSound' /\ stock' \in [Products -> Nat]
  <2>1. UNCHANGED finalizeRest /\ UNCHANGED <<orders, faults>>
    BY DEF Commit, finalizeRest, chainVars
  <2>2. QED
    BY <2>1, StockTaken DEF Commit
<1>2. ASSUME NEW r \in Runs, AwaitsAnswer(r, request.order), NextSeller(r)
      PROVE  EveryRun'
  <2>1. run[r].pc \in Settling
    BY <1>2 DEF AwaitsAnswer, Settling
  <2>2. QED
    BY <1>1, <1>2, <2>1, EveryNextSeller
<1>3. CASE UNCHANGED <<phase, status, cart, snapshot, run>>
  <2>1. UNCHANGED <<token, visits, wished, owner, connected, addedBy>> /\ UNCHANGED chainVars
    BY <1>1 DEF finalizeRest, pageRest, cartRest
  <2>2. CartSound' /\ cart' \in [Products -> Nat] /\ wished' \in [Products -> Nat]
    BY <1>3, <2>1 DEF EveryRun, AllTyped, CartSound, Sum
  <2>3. QED
    BY <1>1, <1>3, <2>1, <2>2, QuietEvery
<1>4. QED
  BY <1>2, <1>3 DEF Commit

\* What the wallet is asked for.
LEMMA TxIs ==
  ASSUME EveryRun, NEW r \in Runs, run[r].pc \in Asking
  PROVE  /\ Tx(r) \in WalletTransactions /\ Tx(r).run = r /\ Tx(r).kind = WaitFor[run[r].pc]
         /\ Tx(r).order = run[r].order /\ Tx(r).visit = visits
         /\ Tx(r).kind # "approve" =>
               Group(r) \in Products /\ Tx(r).product = Group(r) /\ Tx(r).amount = token[Group(r)]
         /\ WaitFor[run[r].pc] \in Awaiting
         /\ WaitFor[run[r].pc] = "fund" <=> run[r].pc = "ask fund"
         /\ WaitFor[run[r].pc] = "create" <=> run[r].pc = "ask create"
<1>0. AllTyped /\ RunSound(r) /\ run[r] \in RunRecords
  BY AllAre DEF EveryRun
<1>1. /\ WaitFor[run[r].pc] \in Awaiting
      /\ WaitFor[run[r].pc] = "fund" <=> run[r].pc = "ask fund"
      /\ WaitFor[run[r].pc] = "create" <=> run[r].pc = "ask create"
  BY DEF WaitFor, Asking, Awaiting
<1>2. WaitFor[run[r].pc] # "approve" => Group(r) \in Products
  BY <1>0, <1>1, GroupFacts DEF Awaiting, RunSound, Executing, Creating, Funding, Group
<1>3. Approved \in Nat /\ token \in [Products -> Nat]
  BY <1>0, SumOfUnits DEF AllTyped, Approved, Total
<1>4. visits \in Nat /\ run[r].order \in Nat
  BY <1>0 DEF AllTyped, RunRecords
<1> DEFINE kind == WaitFor[run[r].pc]
           product == IF kind = "approve" THEN Nobody ELSE Group(r)
           amount == IF kind = "approve" THEN Approved ELSE token[Group(r)]
<1>5. Tx(r) = [kind |-> kind, run |-> r, order |-> run[r].order, visit |-> visits,
               product |-> product, amount |-> amount]
  BY DEF Tx
<1>6. /\ product \in Products \cup {Nobody} /\ amount \in Nat
      /\ kind # "approve" => product = Group(r) /\ amount = token[Group(r)]
  BY <1>2, <1>3
<1>7. kind \in Awaiting
  BY <1>1
<1> HIDE DEF kind, product, amount
<1>8. Tx(r) \in WalletTransactions
  BY <1>4, <1>5, <1>6, <1>7 DEF WalletTransactions
<1>9. /\ Tx(r).run = r /\ Tx(r).kind = kind /\ Tx(r).order = run[r].order
      /\ Tx(r).visit = visits /\ Tx(r).product = product /\ Tx(r).amount = amount
  BY <1>5
<1>10. QED
  BY <1>1, <1>2, <1>6, <1>8, <1>9 DEF kind

\* The activation leaves its orders, requests and paid sellers as they are.
LEMMA EveryConfirm ==
  ASSUME EveryRun, NEW r \in Runs, run[r].pc \in Asking, pool' = Append(pool, Tx(r)),
         Goto(r, WaitFor[run[r].pc]), UNCHANGED <<phase, status, cart, token, visits, cartRest>>,
         UNCHANGED <<allowance, balance, orders>>, UNCHANGED <<serving, stamped, stock>>,
         faults' = faults
  PROVE  EveryRun'
<1>0. AllTyped /\ RunSound(r) /\ WalletSound /\ pool \in Seq(WalletTransactions)
  BY DEF EveryRun, AllTyped
<1> PICK pc \in Awaiting : pc = WaitFor[run[r].pc]
  BY TxIs
<1>1. PICK tx \in WalletTransactions :
      /\ tx = Tx(r) /\ tx.run = r /\ tx.kind = pc
      /\ tx.order = run[r].order /\ tx.visit = visits
      /\ tx.kind # "approve" =>
            Group(r) \in Products /\ tx.product = Group(r) /\ tx.amount = token[Group(r)]
      /\ pc \in Awaiting
      /\ pc = "fund" <=> run[r].pc = "ask fund"
      /\ pc = "create" <=> run[r].pc = "ask create"
  BY TxIs
<1>2. pool' = Append(pool, tx) /\ Goto(r, pc) /\ tx.run = r
  BY <1>1
<1>3. pc \in Pcs
  BY <1>1 DEF Awaiting, Pcs, Before, Executing, Creating, Funding
<1>4. /\ Move(r) /\ run'[r].pc = pc /\ run'[r].at = run[r].at /\ run'[r].order = run[r].order
  <2>1. phase' \in {"idle", "allowance", "executing"} \cup Terminal
    BY <1>0 DEF AllTyped
  <2>2. QED
    BY <1>0, <1>2, <1>3, <2>1, GotoMoves
<1>5. OrdersKept /\ orders' = orders /\ faults \subseteq faults'
  BY DEF OrdersKept
<1>6. Group(r)' = Group(r) /\ PageOpen' /\ PageOpen
  BY <1>4, OnPage DEF Group, PageOpen, Asking
<1>7. RunSound(r)'
  <2>1. pc \in Executing => run[r].pc \in Executing
    BY <1>1 DEF Awaiting, Executing, Creating, Funding, Settling
  <2>2. pc \in Funding \cup Settling => pc = "fund" /\ run[r].pc \in Funding /\ pc \notin Settling
    BY <1>1 DEF Awaiting, Funding, Settling
  <2>3. pc \in Settling => FALSE
    BY <1>1 DEF Awaiting, Settling
  <2>4. run[r].pc \in Funding => run[r].pc \in (Funding \cup Settling) \ {"answer"}
    BY DEF Funding
  <2>5. QED
    BY <1>0, <1>4, <1>5, <1>6, <2>1, <2>2, <2>3, <2>4 DEF RunSound
<1>8. (\A q \in Runs : RunSound(q)') /\ Apart'
  <2>1. pc \in Funding \cup Settling => run[r].pc \in Funding \cup Settling
    BY <1>1 DEF Awaiting, Funding, Settling
  <2>2. QED
    BY <1>4, <1>5, <1>7, <2>1, RunsStay
<1>9. WalletSound'
  <2>1. /\ DOMAIN pool' = 1..(Len(pool) + 1) /\ Len(pool) \in Nat /\ DOMAIN pool = 1..Len(pool)
        /\ pool'[Len(pool) + 1] = tx
        /\ \A n \in DOMAIN pool : pool'[n] = pool[n]
    BY ONLY <1>0, <1>2, tx \in WalletTransactions
  <2>2. ASSUME NEW n \in DOMAIN pool PROVE SentSound(pool[n])' /\ pool[n].run # r
    <3>1. PICK one \in WalletTransactions : one = pool[n] /\ SentSound(one)
      BY <1>0, AllAre DEF WalletSound
    <3>2. one.run # r
      BY <1>0, <3>1, SentRun DEF Asking, Awaiting
    <3>3. one.run # NoRun => run'[one.run] = run[one.run]
      BY <1>4, <3>2 DEF WalletTransactions, Move
    <3>4. SentSound(one)'
      BY <1>0, <1>5, <3>1, <3>3, SentStays
    <3>5. pool'[n] = one /\ pool[n].run # r
      BY <2>1, <3>1, <3>2
    <3>6. QED
      BY <3>4, <3>5
  <2>3. SentSound(tx)'
    <3>1. tx.kind = "fund" => tx.order \in DOMAIN orders
      BY <1>0, <1>1 DEF RunSound, Funding
    <3>2. Awaited(tx)'
      BY <1>1, <1>4, <1>6 DEF Awaited
    <3>3. QED
      BY <1>1, <1>5, <3>1, <3>2 DEF SentSound
  <2>4. \A n \in DOMAIN pool' : SentSound(pool[n])' /\ (n \in DOMAIN pool \/ n = Len(pool) + 1)
    BY <2>1, <2>2, <2>3
  <2>5. \A m, n \in DOMAIN pool' : pool'[m].run # NoRun /\ pool'[m].run = pool'[n].run => m = n
    BY ONLY <1>0, <1>2, <2>1, <2>2, <2>4 DEF WalletSound
  <2>6. QED
    BY <2>4, <2>5 DEF WalletSound
<1>10. AllTyped'
  <2>1. pool' \in Seq(WalletTransactions)
    BY ONLY <1>0, <1>2, tx \in WalletTransactions
  <2>2. QED
    BY <1>0, <1>4, <2>1 DEF AllTyped, Move, cartRest
<1>11. CartSound' /\ ShownSound' /\ ServingSound' /\ StockSound'
  BY <1>4, <1>5, CartStays, ShownStays, BackendStays
<1>12. QED
  BY <1>8, <1>9, <1>10, <1>11 DEF EveryRun

LEMMA EveryWalletAnswers ==
  ASSUME EveryRun, NEW r \in Runs, WalletAnswers(r)
  PROVE  EveryRun'
<1>1. /\ run[r].pc \in Asking /\ UNCHANGED <<token, visits, cartRest>>
      /\ UNCHANGED <<allowance, balance, orders>> /\ UNCHANGED <<serving, stamped, stock>>
      /\ faults \subseteq faults'
  BY DEF WalletAnswers, Fault, pageRest, backendVars
<1>2. \/ /\ pool' = Append(pool, Tx(r)) /\ Goto(r, WaitFor[run[r].pc])
         /\ UNCHANGED <<phase, status, cart>> /\ faults' = faults
      \/ /\ Fail(r) \/ SellerFails(r, "cancelled")
         /\ UNCHANGED pool
  BY DEF WalletAnswers
<1>3. CASE (Fail(r) \/ SellerFails(r, "cancelled")) /\ UNCHANGED pool
  <2>1. Move(r) /\ run'[r].pc = "ended"
    BY <1>3, FailMoves, SellerFailsMoves DEF EveryRun
  <2>2. Onward(r) /\ PageOpen /\ run[r].pc \notin Awaiting
    BY <1>1, <2>1, Next0, OnPage DEF Asking, Awaiting
  <2>3. UNCHANGED chainVars
    BY <1>1, <1>3 DEF chainVars
  <2>4. QED
    BY <1>1, <2>1, <2>2, <2>3, QuietOnwards
<1>4. QED
  BY <1>1, <1>2, <1>3, EveryConfirm

LEMMA EveryWaitFails ==
  ASSUME EveryRun, NEW r \in Runs, WaitFails(r)
  PROVE  EveryRun'
<1>0. AllTyped /\ WalletSound /\ pool \in Seq(WalletTransactions) /\ NoRun \notin Runs
  BY TapFacts DEF EveryRun, AllTyped
<1>1. /\ run[r].pc \in Awaiting /\ UNCHANGED <<token, visits, cartRest>>
      /\ UNCHANGED <<allowance, balance, orders>> /\ UNCHANGED <<serving, stamped, stock>>
      /\ faults' = faults
      /\ pool' = [n \in DOMAIN pool |->
                     IF pool[n].run = r THEN [pool[n] EXCEPT !.run = NoRun] ELSE pool[n]]
  BY DEF WaitFails, Awaiting, backendVars
<1>2. Move(r) /\ run'[r].pc = "ended"
  BY <1>0, FailMoves, SellerFailsMoves DEF WaitFails
<1>3. /\ OrdersKept /\ faults \subseteq faults' /\ UNCHANGED <<token, visits>>
      /\ PageOpen /\ PageOpen'
  BY <1>1, OnPage DEF OrdersKept, Awaiting, PageOpen
<1>4. RunSound(r)'
  BY <1>2, <1>3 DEF RunSound, Executing, Creating, Funding, Settling
<1>5. (\A q \in Runs : RunSound(q)') /\ Apart'
  BY <1>1, <1>2, <1>3, <1>4, RunsStay DEF Funding, Settling
<1>6. ASSUME NEW n \in DOMAIN pool
      PROVE  /\ pool'[n] \in WalletTransactions /\ SentSound(pool[n])'
             /\ pool'[n].run \in {NoRun, pool[n].run}
  <2>1. PICK one \in WalletTransactions : one = pool[n] /\ SentSound(one)
    BY <1>0, AllAre DEF WalletSound
  <2>2. CASE one.run = r
    <3>1. PICK it \in WalletTransactions :
              /\ it = pool'[n] /\ it.run = NoRun /\ it.kind = one.kind
              /\ it.product = one.product /\ it.order = one.order
      BY <1>1, <2>1, <2>2 DEF WalletTransactions
    <3>2. SentSound(it)'
      BY <1>1, <2>1, <3>1 DEF SentSound
    <3>3. QED
      BY <3>1, <3>2
  <2>3. CASE one.run # r
    <3>1. one.run # NoRun => run'[one.run] = run[one.run]
      BY <1>2, <2>3 DEF WalletTransactions, Move
    <3>2. SentSound(one)' /\ pool'[n] = one
      BY <1>0, <1>1, <1>3, <2>1, <2>3, <3>1, SentStays
    <3>3. QED
      BY <2>1, <3>2
  <2>4. QED
    BY <2>2, <2>3
<1>7. WalletSound'
  <2>1. DOMAIN pool' = DOMAIN pool
    BY <1>1
  <2>2. QED
    BY <1>0, <1>6, <2>1 DEF WalletSound
<1>8. AllTyped'
  <2>1. DOMAIN pool = 1..Len(pool) /\ Len(pool) \in Nat
    BY <1>0
  <2>2. pool' \in [1..Len(pool) -> WalletTransactions]
    BY <1>1, <1>6, <2>1
  <2>3. pool' \in Seq(WalletTransactions)
    BY <2>1, <2>2, SeqDef
  <2>4. QED
    BY <1>0, <1>1, <1>2, <2>3 DEF AllTyped, Move, cartRest
<1>9. CartSound' /\ ShownSound' /\ ServingSound' /\ StockSound'
  BY <1>1, <1>2, <1>3, CartStays, ShownStays, BackendStays
<1>10. QED
  BY <1>5, <1>7, <1>8, <1>9 DEF EveryRun

(***************************************************************************)
(* A transaction is mined.                                                 *)
(***************************************************************************)
LEMMA FirstInPool ==
  ASSUME AllTyped, pool # <<>>, pool' = Tail(pool)
  PROVE  /\ pool' \in Seq(WalletTransactions) /\ Head(pool) \in WalletTransactions
         /\ 1 \in DOMAIN pool /\ Head(pool) = pool[1]
         /\ \A n \in DOMAIN pool' : /\ n + 1 \in DOMAIN pool /\ n # 0 /\ n \in Nat
                                    /\ pool'[n] = pool[n + 1]
<1>1. pool \in Seq(WalletTransactions)
  BY DEF AllTyped
<1>2. QED
  BY <1>1

\* The chain after the first transaction of the pool.
LEMMA ChainFollows ==
  ASSUME AllTyped, NEW tx \in WalletTransactions, SentSound(tx), NEW ok \in BOOLEAN,
         Execution(tx, ok), ok => Executes(tx)
  PROVE  /\ orders' \in Seq(OrdersOfCheckout) /\ OrdersKept
         /\ allowance' \in Nat /\ balance' \in Nat
         /\ ok /\ tx.kind = "create" =>
               /\ Len(orders) + 1 \in DOMAIN orders' \ DOMAIN orders
               /\ orders'[Len(orders) + 1].product = tx.product
               /\ orders'[Len(orders) + 1].visit = tx.visit
               /\ orders'[Len(orders) + 1].qty = tx.amount
         /\ ok /\ tx.kind = "fund" => orders'[tx.order].status = "Funded"
<1>0. orders \in Seq(OrdersOfCheckout) /\ allowance \in Nat /\ balance \in Nat
  BY DEF AllTyped
<1>1. tx.kind \in {"approve", "create", "fund"} /\ tx.amount \in Nat /\ tx.visit \in Nat
  BY DEF WalletTransactions, Awaiting
<1>2. CASE ~ok \/ tx.kind = "approve"
  BY <1>0, <1>1, <1>2 DEF Execution, OrdersKept
<1>3. CASE ok /\ tx.kind = "create"
  <2> DEFINE order == [product |-> tx.product, qty |-> tx.amount,
                       status |-> "Created", visit |-> tx.visit]
  <2>1. order \in OrdersOfCheckout
    BY <1>1, <1>3 DEF OrdersOfCheckout, SentSound
  <2>2. order.product = tx.product /\ order.qty = tx.amount /\ order.visit = tx.visit
    OBVIOUS
  <2>3. orders' = Append(orders, order) /\ allowance' = allowance /\ balance' = balance
    BY <1>3 DEF Execution
  <2> HIDE DEF order
  <2>4. /\ orders' \in Seq(OrdersOfCheckout) /\ DOMAIN orders \subseteq DOMAIN orders'
        /\ \A n \in DOMAIN orders : orders'[n] = orders[n]
        /\ Len(orders) + 1 \in DOMAIN orders' \ DOMAIN orders
        /\ orders'[Len(orders) + 1] = order
    BY <1>0, <2>1, <2>3
  <2>5. QED
    BY <1>0, <1>3, <2>2, <2>3, <2>4 DEF OrdersKept
<1>4. CASE ok /\ tx.kind = "fund"
  <2>1. /\ allowance' = allowance - tx.amount /\ balance' = balance - tx.amount
        /\ orders' = [orders EXCEPT ![tx.order].status = "Funded"]
        /\ allowance >= tx.amount /\ balance >= tx.amount /\ tx.order \in DOMAIN orders
    BY <1>4 DEF Execution, Executes, SentSound
  <2>2. PICK order \in OrdersOfCheckout : order = orders[tx.order]
    BY <2>1, AllAre
  <2> DEFINE paid == [order EXCEPT !.status = "Funded"]
  <2>3. /\ paid \in OrdersOfCheckout /\ paid.product = order.product /\ paid.qty = order.qty
        /\ paid.status = "Funded" /\ paid.visit = order.visit
    BY DEF OrdersOfCheckout
  <2>4. orders' = [orders EXCEPT ![tx.order] = paid]
    BY <2>1, <2>2
  <2> HIDE DEF paid
  <2>5. /\ orders' \in Seq(OrdersOfCheckout) /\ DOMAIN orders' = DOMAIN orders
        /\ orders'[tx.order] = paid
        /\ \A n \in DOMAIN orders : n # tx.order => orders'[n] = orders[n]
    BY <1>0, <2>1, <2>3, <2>4
  <2>6. OrdersKept
    BY <2>2, <2>3, <2>5 DEF OrdersKept
  <2>7. allowance' \in Nat /\ balance' \in Nat
    BY <1>0, <1>1, <2>1
  <2>8. QED
    BY <1>4, <2>3, <2>5, <2>6, <2>7
<1>5. QED
  BY <1>1, <1>2, <1>3, <1>4

\* What is left in the pool.
LEMMA PoolRest ==
  ASSUME EveryRun, pool # <<>>, pool' = Tail(pool), OrdersKept, UNCHANGED <<token, visits>>,
         \A q \in Runs : q # Head(pool).run => run'[q] = run[q]
  PROVE  WalletSound'
<1>0. AllTyped /\ WalletSound
  BY DEF EveryRun
<1>1. /\ 1 \in DOMAIN pool /\ Head(pool) = pool[1]
      /\ \A n \in DOMAIN pool' : /\ n + 1 \in DOMAIN pool /\ n # 0 /\ n \in Nat
                                 /\ pool'[n] = pool[n + 1]
  BY <1>0, FirstInPool
<1>2. ASSUME NEW n \in DOMAIN pool' PROVE SentSound(pool[n])'
  <2>1. n + 1 \in DOMAIN pool /\ n + 1 # 1
    BY <1>1
  <2>2. PICK one \in WalletTransactions : one = pool[n + 1] /\ SentSound(one)
    BY <1>0, <2>1, AllAre DEF WalletSound
  <2>3. one.run # NoRun => one.run # Head(pool).run
    BY <1>0, <1>1, <2>1, <2>2 DEF WalletSound
  <2>4. one.run # NoRun => run'[one.run] = run[one.run]
    BY <2>3 DEF WalletTransactions
  <2>5. SentSound(one)'
    BY <1>0, <2>2, <2>4, SentStays
  <2>6. pool'[n] = one
    BY <1>1, <2>2
  <2>7. QED
    BY <2>5, <2>6
<1>3. ASSUME NEW m \in DOMAIN pool', NEW n \in DOMAIN pool', pool'[m].run # NoRun,
             pool'[m].run = pool'[n].run
      PROVE  m = n
  <2>1. m + 1 = n + 1
    BY <1>0, <1>1, <1>3 DEF WalletSound
  <2>2. QED
    BY <1>1, <2>1
<1>4. QED
  BY <1>2, <1>3 DEF WalletSound

\* The order that the receipt of a create names is the next one of the chain.
LEMMA CreatedMoves ==
  ASSUME AllTyped, NEW r \in Runs, Created(r)
  PROVE  /\ Move(r)
         /\ \/ run'[r].pc = "ended"
            \/ /\ run'[r].pc = "ask fund" /\ run'[r].at = run[r].at
               /\ run'[r].order = Len(orders) + 1 /\ ~cancelled
<1>1. CASE cancelled
  BY <1>1, SellerFailsMoves DEF Created, StopsBeforeFunding
<1>2. CASE ~cancelled
  <2> DEFINE here == [pc |-> "ask fund", at |-> run[r].at, order |-> Len(orders) + 1]
  <2>1. /\ status' = [status EXCEPT ![Group(r)] = "funding"]
        /\ UNCHANGED <<phase, failure, cart, snapshot>>
        /\ run' = [run EXCEPT ![r] =
                      [pc |-> "ask fund", at |-> @.at, order |-> Len(orders) + 1]]
    BY <1>2 DEF Created, StopsBeforeFunding
  <2>2. run[r].at \in Nat /\ Len(orders) + 1 \in Nat
    BY AllAre DEF RunRecords, AllTyped
  <2>3. here \in RunRecords
    BY <2>2 DEF RunRecords, Pcs, Executing, Funding
  <2>4. here.pc = "ask fund" /\ here.at = run[r].at /\ here.order = Len(orders) + 1
    BY ONLY TRUE
  <2>5. run' = [run EXCEPT ![r] = here]
    BY <2>1, Zenon
  <2> HIDE DEF here
  <2>6. run' \in [Runs -> RunRecords] /\ run'[r] = here /\ \A q \in Runs \ {r} : run'[q] = run[q]
    BY <2>3, <2>5, RunTo
  <2>7. /\ status' \in [Products -> Statuses]
        /\ \A p \in Products : status'[p] = "success" => status[p] = "success"
        /\ cart' = cart /\ \A p \in Products : cart[p] \in Nat
        /\ phase' \in {"idle", "allowance", "executing"} \cup Terminal
    BY <2>1 DEF AllTyped, Statuses
  <2>8. Move(r)
    BY <2>6, <2>7 DEF Move, AllTyped
  <2>9. QED
    BY <1>2, <2>4, <2>6, <2>8, Zenon
<1>3. QED
  BY <1>1, <1>2

LEMMA ReceiptMoves ==
  ASSUME AllTyped, NEW r \in Runs, NEW tx \in WalletTransactions, NEW ok \in BOOLEAN,
         Receipt(r, tx, ok)
  PROVE  /\ Move(r)
         /\ \/ run'[r].pc = "ended"
            \/ run'[r].pc = "ask create" /\ run'[r].at \in DOMAIN GroupOrder /\ ~cancelled
            \/ /\ run'[r].pc = "ask fund" /\ run'[r].at = run[r].at
               /\ run'[r].order = Len(orders) + 1 /\ ~cancelled
               /\ ok /\ tx.kind = "create"
            \/ /\ run'[r].pc = "snapshot" /\ run'[r].at = run[r].at
               /\ run'[r].order = run[r].order /\ ok /\ tx.kind = "fund"
<1>1. \/ Seller(r, 1, status)
      \/ Fail(r)
      \/ ok /\ tx.kind = "create" /\ Created(r)
      \/ SellerFails(r, "rejected by the contract")
      \/ ok /\ tx.kind = "fund" /\ Goto(r, "snapshot") /\ UNCHANGED <<phase, status, cart>>
  BY DEF Receipt, FundAccepted
<1>2. CASE Seller(r, 1, status)
  <2>1. Truthful(r, status)
    BY DEF Truthful, AllTyped
  <2>2. QED
    BY <1>2, <2>1, SellerMoves
<1>3. CASE Fail(r) \/ SellerFails(r, "rejected by the contract")
  BY <1>3, FailMoves, SellerFailsMoves
<1>4. CASE ok /\ tx.kind = "create" /\ Created(r)
  BY <1>4, CreatedMoves
<1>5. CASE ok /\ tx.kind = "fund" /\ Goto(r, "snapshot") /\ UNCHANGED <<phase, status, cart>>
  <2>1. phase' \in {"idle", "allowance", "executing"} \cup Terminal /\ "snapshot" \in Pcs
    BY <1>5 DEF AllTyped, Pcs, Executing, Settling
  <2>2. QED
    BY <1>5, <2>1, GotoMoves
<1>6. QED
  BY <1>1, <1>2, <1>3, <1>4, <1>5

\* The run that waits for the transaction goes on with its receipt.
LEMMA EveryReceipt ==
  ASSUME EveryRun, NEW tx \in WalletTransactions, tx.run # NoRun, SentSound(tx),
         NEW ok \in BOOLEAN, Receipt(tx.run, tx, ok), Execution(tx, ok), ok => Executes(tx),
         UNCHANGED <<token, visits, serving>>
  PROVE  Move(tx.run) /\ (\A q \in Runs : RunSound(q)') /\ Apart'
<1> DEFINE r == tx.run
<1>0. AllTyped /\ r \in Runs /\ run[r] \in RunRecords /\ RunSound(r) /\ ServingSound
  BY AllAre DEF EveryRun, WalletTransactions
<1>1. /\ Move(r)
      /\ \/ run'[r].pc = "ended"
         \/ run'[r].pc = "ask create" /\ run'[r].at \in DOMAIN GroupOrder
         \/ /\ run'[r].pc = "ask fund" /\ run'[r].at = run[r].at
            /\ run'[r].order = Len(orders) + 1 /\ ok /\ tx.kind = "create"
         \/ /\ run'[r].pc = "snapshot" /\ run'[r].at = run[r].at
            /\ run'[r].order = run[r].order /\ ok /\ tx.kind = "fund"
  BY <1>0, ReceiptMoves
<1>2. /\ tx.kind = run[r].pc /\ tx.visit = visits
      /\ tx.kind # "approve" => tx.product = Group(r) /\ tx.amount = token[Group(r)]
      /\ tx.kind = "fund" => tx.order = run[r].order
      /\ tx.kind \in Awaiting
  BY DEF SentSound, Awaited, WalletTransactions
<1>3. /\ OrdersKept
      /\ ok /\ tx.kind = "create" =>
            /\ Len(orders) + 1 \in DOMAIN orders' \ DOMAIN orders
            /\ orders'[Len(orders) + 1].product = tx.product
            /\ orders'[Len(orders) + 1].visit = tx.visit
            /\ orders'[Len(orders) + 1].qty = tx.amount
      /\ ok /\ tx.kind = "fund" => orders'[tx.order].status = "Funded"
  BY <1>0, ChainFollows
<1> HIDE DEF r
<1>4. PageOpen /\ PageOpen'
  BY <1>0, <1>2, OnPage DEF Awaiting, PageOpen
<1>5. RunSound(r)' /\ (run'[r].pc \in Funding \cup Settling =>
                         \/ run[r].pc \in Funding \cup Settling /\ run'[r].order = run[r].order
                         \/ run'[r].order \notin DOMAIN orders)
  <2>1. CASE run'[r].pc = "ended" \/ (run'[r].pc = "ask create" /\ run'[r].at \in DOMAIN GroupOrder)
    BY <1>4, <2>1 DEF RunSound, Executing, Creating, Funding, Settling
  <2>2. CASE /\ run'[r].pc = "ask fund" /\ run'[r].at = run[r].at
             /\ run'[r].order = Len(orders) + 1 /\ ok /\ tx.kind = "create"
    <3>1. /\ run[r].at \in DOMAIN GroupOrder /\ Group(r)' = Group(r)
          /\ run'[r].pc \in Funding /\ run'[r].pc \notin Settling
      BY <1>0, <1>2, <2>2 DEF RunSound, Executing, Creating, Funding, Settling, Group
    <3>2. \A request \in serving : request.order # run'[r].order
      BY <1>0, <1>3, <2>2 DEF ServingSound
    <3>3. run'[r].order \in DOMAIN orders' \ DOMAIN orders
      BY <1>3, <2>2
    <3>4. /\ orders'[run'[r].order].product = Group(r) /\ orders'[run'[r].order].visit = visits
          /\ orders'[run'[r].order].qty = token[Group(r)]
      BY <1>2, <1>3, <2>2
    <3>5. QED
      BY <1>4, <2>2, <3>1, <3>2, <3>3, <3>4 DEF RunSound
  <2>3. CASE /\ run'[r].pc = "snapshot" /\ run'[r].at = run[r].at
             /\ run'[r].order = run[r].order /\ ok /\ tx.kind = "fund"
    <3>1. /\ run[r].pc = "fund" /\ run[r].pc \in Funding /\ run[r].pc \in Executing
          /\ Group(r)' = Group(r)
      BY <1>2, <2>3 DEF Executing, Funding, Group
    <3>2. orders'[run[r].order].status = "Funded"
      BY <1>2, <1>3, <2>3
    <3>3. QED
      BY <1>0, <1>3, <1>4, <2>3, <3>1, <3>2 DEF RunSound, OrdersKept
  <2>4. QED
    BY <1>1, <2>1, <2>2, <2>3
<1>6. (\A q \in Runs : RunSound(q)') /\ Apart'
  BY <1>0, <1>1, <1>3, <1>5, RunsStay
<1>7. QED
  BY <1>1, <1>6 DEF r

LEMMA EveryMined ==
  ASSUME EveryRun, pool # <<>>, pool' = Tail(pool), MineRest, NEW ok \in BOOLEAN,
         Mined(Head(pool), ok), ok => Executes(Head(pool)),
         UNCHANGED <<serving, stamped, stock>>, faults \subseteq faults'
  PROVE  EveryRun'
<1>0. AllTyped /\ WalletSound
  BY DEF EveryRun
<1>1. UNCHANGED <<token, visits, cartRest>>
  BY DEF MineRest, pageRest
<1>2. PICK tx \in WalletTransactions : tx = Head(pool) /\ SentSound(tx)
  BY <1>0, FirstInPool DEF WalletSound
<1>3. Mined(tx, ok) /\ Execution(tx, ok) /\ (ok => Executes(tx))
  BY <1>2 DEF Mined
<1>4. /\ orders' \in Seq(OrdersOfCheckout) /\ OrdersKept /\ allowance' \in Nat /\ balance' \in Nat
      /\ pool' \in Seq(WalletTransactions)
  BY <1>0, <1>2, <1>3, ChainFollows, FirstInPool
<1>5. ServingSound' /\ StockSound'
  BY <1>4, BackendStays
<1>6. CASE tx.run = NoRun
  <2>1. UNCHANGED <<phase, status, cart, run>>
    BY <1>3, <1>6 DEF Mined
  <2>2. AllTyped'
    BY <1>0, <1>1, <1>4, <2>1 DEF AllTyped, cartRest
  <2>3. \A r \in Runs : RunSound(r)'
    BY <1>1, <1>4, <2>1, RunStays
  <2>4. Apart'
    BY <2>1 DEF EveryRun, Apart
  <2>5. CartSound'
    BY <1>1, <2>1 DEF EveryRun, CartSound, Sum, cartRest
  <2>6. ShownSound'
    <3>1. \A p : FundedNow(p) \subseteq FundedNow(p)'
      BY <1>1, <1>4 DEF OrdersKept, FundedNow
    <3>2. QED
      BY <2>1, <3>1 DEF EveryRun, ShownSound, ShownPaid
  <2>7. WalletSound'
    BY <1>1, <1>4, <2>1, PoolRest
  <2>8. QED
    BY <1>5, <2>2, <2>3, <2>4, <2>5, <2>6, <2>7 DEF EveryRun
<1>7. CASE tx.run # NoRun
  <2>1. Receipt(tx.run, tx, ok) /\ tx.run \in Runs
    BY <1>3, <1>7 DEF Mined, WalletTransactions
  <2>2. Move(tx.run) /\ (\A q \in Runs : RunSound(q)') /\ Apart'
    BY <1>1, <1>2, <1>3, <1>7, <2>1, EveryReceipt
  <2>3. CartSound' /\ ShownSound'
    BY <1>1, <1>4, <2>1, <2>2, CartStays, ShownStays
  <2>4. WalletSound'
    BY <1>1, <1>2, <1>4, <2>2, PoolRest DEF Move
  <2>5. AllTyped'
    BY <1>0, <1>1, <1>4, <2>2 DEF AllTyped, Move, cartRest
  <2>6. QED
    BY <1>5, <2>2, <2>3, <2>4, <2>5 DEF EveryRun
<1>8. QED
  BY <1>6, <1>7

LEMMA EveryMineNext ==
  ASSUME EveryRun, MineNext
  PROVE  EveryRun'
<1>1. /\ pool # <<>> /\ pool' = Tail(pool) /\ MineRest
      /\ \/ Executes(Head(pool)) /\ Mined(Head(pool), TRUE)
         \/ Mined(Head(pool), FALSE)
  BY MineNextIs
<1>2. UNCHANGED <<serving, stamped, stock>> /\ faults \subseteq faults'
  BY DEF MineNext, backendVars, Fault
<1>3. QED
  BY <1>1, <1>2, EveryMined

(***************************************************************************)
(* The page around the activations, and everybody else.                    *)
(***************************************************************************)
\* The page is fresh, or gone: no activation is left of it.
LEMMA FreshEvery ==
  ASSUME EveryRun, Fresh', UNCHANGED <<cart, wished, owner, connected, addedBy>>,
         UNCHANGED <<allowance, balance, orders>>, UNCHANGED backendVars, faults \subseteq faults',
         token' \in [Products -> Nat], visits' \in Nat, \A p \in Products : token'[p] <= MaxUnits,
         pool' \in Seq(WalletTransactions), DOMAIN pool' = DOMAIN pool,
         \A n \in DOMAIN pool :
             /\ pool'[n].run = NoRun /\ pool'[n].kind = pool[n].kind
             /\ pool'[n].product = pool[n].product /\ pool'[n].order = pool[n].order
  PROVE  EveryRun'
<1>0. AllTyped /\ CartSound /\ WalletSound
  BY DEF EveryRun
<1>1. run' = [r \in Runs |-> Off] /\ \A r \in Runs : run'[r].pc = "off"
  BY DEF Fresh, Off
<1>2. Off \in RunRecords
  BY DEF Off, RunRecords, Pcs
<1>3. status' \in [Products -> Statuses] /\ \A p \in Products : status'[p] # "success"
  BY DEF Fresh, Pending, Statuses
<1>4. phase' = "idle" /\ run' \in [Runs -> RunRecords]
  BY <1>1, <1>2 DEF Fresh
<1>5. UNCHANGED <<serving, stamped, stock>> /\ OrdersKept
  BY DEF backendVars, OrdersKept
<1>6. AllTyped'
  BY <1>0, <1>3, <1>4, <1>5 DEF AllTyped
<1>7. CartSound'
  BY <1>0 DEF CartSound, Sum
<1>8. (\A r \in Runs : RunSound(r)') /\ Apart'
  BY <1>1 DEF RunSound, Apart, Executing, Creating, Funding, Settling
<1>9. WalletSound'
  <2>1. ASSUME NEW n \in DOMAIN pool PROVE SentSound(pool[n])'
    BY <1>0 DEF WalletSound, SentSound
  <2>2. QED
    BY <2>1 DEF WalletSound
<1>10. ServingSound' /\ StockSound'
  BY <1>5, BackendStays
<1>11. ShownSound'
  BY <1>3 DEF ShownSound, ShownPaid
<1>12. QED
  BY <1>6, <1>7, <1>8, <1>9, <1>10, <1>11 DEF EveryRun

LEMMA EveryOpenCheckout ==
  ASSUME EveryRun, OpenCheckout
  PROVE  EveryRun'
<1>0. /\ AllTyped /\ CartSound /\ WalletSound /\ pool \in Seq(WalletTransactions)
      /\ cart \in [Products -> Nat] /\ wished \in [Products -> Nat] /\ visits \in Nat
      /\ MaxUnits \in Nat
  BY CheckoutAssumption DEF EveryRun, AllTyped
<1>1. /\ ~PageOpen /\ token' = cart /\ visits' = visits + 1 /\ Fresh'
      /\ UNCHANGED <<cart, wished, owner, connected, addedBy>>
      /\ UNCHANGED <<pool, allowance, balance, orders>> /\ UNCHANGED backendVars
      /\ faults' = faults
  BY DEF OpenCheckout, Fresh, cartVars, chainVars
<1>2. ASSUME NEW p \in Products PROVE token'[p] <= MaxUnits
  <2>1. /\ cart[p] <= wished[p] /\ Sum(wished) <= MaxUnits /\ wished[p] <= Sum(wished)
        /\ Sum(wished) \in Nat /\ cart[p] \in Nat /\ wished[p] \in Nat
    BY <1>0, SumOfUnits DEF CartSound
  <2>2. cart[p] <= MaxUnits
    BY ONLY <1>0, <2>1
  <2>3. QED
    BY <1>1, <2>2
<1>3. ASSUME NEW n \in DOMAIN pool PROVE pool[n].run = NoRun
  <2>1. SUFFICES ASSUME pool[n].run \in Runs PROVE FALSE
    BY <1>0, AllAre DEF WalletTransactions
  <2>2. PICK r \in Runs : pool[n].run = r
    BY <2>1
  <2>3. run[r].pc \in Awaiting
    BY <1>0, <2>2, SentRun DEF WalletSound
  <2>4. run[r].pc = "off"
    BY <1>1 DEF EveryRun, RunSound
  <2>5. QED
    BY <2>3, <2>4 DEF Awaiting
<1>4. token' \in [Products -> Nat] /\ visits' \in Nat
  BY <1>0, <1>1
<1>5. QED
  BY <1>0, <1>1, <1>2, <1>3, <1>4, FreshEvery

LEMMA EveryForgotten ==
  ASSUME EveryRun, LeavePage \/ CloseTab
  PROVE  EveryRun'
<1>0. /\ AllTyped /\ pool \in Seq(WalletTransactions) /\ token \in [Products -> Nat]
      /\ visits \in Nat /\ MaxUnits \in Nat
  BY CheckoutAssumption DEF EveryRun, AllTyped
<1>1. Forgotten /\ faults \subseteq faults'
  BY DEF LeavePage, CloseTab, Fault
<1>2. /\ token' = NoPage /\ visits' = visits /\ Fresh'
      /\ UNCHANGED <<cart, wished, owner, connected, addedBy>>
      /\ UNCHANGED <<allowance, balance, orders>> /\ UNCHANGED backendVars
      /\ pool' = [n \in DOMAIN pool |-> [pool[n] EXCEPT !.run = NoRun]]
  BY <1>1 DEF Forgotten, Fresh, cartVars
<1>3. token' \in [Products -> Nat] /\ \A p \in Products : token'[p] <= MaxUnits
  BY <1>0, <1>2 DEF NoPage, NoUnits
<1>4. ASSUME NEW n \in DOMAIN pool
      PROVE  /\ pool'[n] \in WalletTransactions /\ pool'[n].run = NoRun
             /\ pool'[n].kind = pool[n].kind
             /\ pool'[n].product = pool[n].product /\ pool'[n].order = pool[n].order
  <2>1. pool[n] \in WalletTransactions
    BY <1>0, AllAre
  <2>2. QED
    BY <1>2, <2>1 DEF WalletTransactions
<1>5. pool' \in Seq(WalletTransactions) /\ DOMAIN pool' = DOMAIN pool
  <2>1. DOMAIN pool = 1..Len(pool) /\ Len(pool) \in Nat
    BY <1>0
  <2>2. pool' \in [1..Len(pool) -> WalletTransactions]
    BY <1>2, <1>4, <2>1
  <2>3. QED
    BY <1>2, <2>1, <2>2, SeqDef
<1>6. QED
  BY <1>0, <1>1, <1>2, <1>3, <1>4, <1>5, FreshEvery

LEMMA EveryCart ==
  ASSUME EveryRun,
         \/ \E p \in Products : AddItem(p)
         \/ \E products : RemoveItems(products)
         \/ \E account \in Accounts \cup {Nobody} : Connect(account)
  PROVE  EveryRun'
<1>0. AllTyped /\ CartSound /\ cart \in [Products -> Nat] /\ wished \in [Products -> Nat]
  BY DEF EveryRun, AllTyped
<1>1. CartChange /\ UNCHANGED <<pageVars, chainVars, backendVars, faults>>
  BY <1>0, CartChanges
<1>2. /\ UNCHANGED <<token, status, run, visits, phase>> /\ UNCHANGED chainVars
      /\ UNCHANGED <<serving, stamped, stock>> /\ UNCHANGED orders /\ faults' = faults
  BY <1>1 DEF pageVars, chainVars, backendVars
<1>3. ServingSound' /\ StockSound'
  BY <1>2, BackendStays DEF OrdersKept
<1>4. cart' \in [Products -> Nat] /\ wished' \in [Products -> Nat]
  BY <1>1 DEF CartChange
<1>5. CartSound'
  <2>1. ASSUME NEW p \in Products PROVE cart'[p] <= wished'[p]
    <3>1. /\ wished'[p] - cart'[p] = wished[p] - cart[p] /\ cart[p] <= wished[p]
          /\ {cart[p], wished[p], cart'[p], wished'[p]} \subseteq Nat
      BY <1>0, <1>1, <1>4 DEF CartChange, CartSound
    <3>2. QED
      BY ONLY <3>1
  <2>2. QED
    BY <1>0, <1>1, <1>2, <2>1 DEF CartSound, CartChange
<1>6. QED
  BY <1>0, <1>2, <1>3, <1>4, <1>5, QuietEvery DEF AllTyped

LEMMA EveryQuiet ==
  ASSUME EveryRun,
         FillAddress \/ Cancel \/ Freeze \/ UNCHANGED vars \/ (\E n : Indexed(n))
           \/ (\E p \in Products : OthersBuy(p))
  PROVE  EveryRun'
<1>0. AllTyped /\ CartSound /\ stock \in [Products -> Nat]
  BY DEF EveryRun, AllTyped
<1>1. /\ UNCHANGED cartVars /\ UNCHANGED chainVars
      /\ UNCHANGED <<token, phase, status, run, visits>> /\ UNCHANGED <<serving, stamped>>
      /\ faults \subseteq faults'
  BY DEF FillAddress, Cancel, Freeze, Indexed, OthersBuy, vars, pageVars, backendVars, Fault
<1>2. /\ stock' \in [Products -> Nat]
      /\ \A p \in Products :
             \/ stock'[p] = stock[p]
             \/ stock[p] <= stock'[p] + 1 /\ "others" \in faults' \ faults
  <2>1. ASSUME NEW p \in Products, OthersBuy(p)
        PROVE  /\ stock' = [stock EXCEPT ![p] = @ - 1] /\ stock[p] > 0
               /\ "others" \in faults' \ faults
    BY <2>1 DEF OthersBuy, Fault
  <2>2. CASE \E p \in Products : OthersBuy(p)
    BY <1>0, <2>1, <2>2
  <2>3. CASE ~\E p \in Products : OthersBuy(p)
    <3>1. stock' = stock
      BY <2>3 DEF FillAddress, Cancel, Freeze, Indexed, vars, backendVars
    <3>2. QED
      BY <1>0, <3>1
  <2>4. QED
    BY <2>2, <2>3
<1>3. OrdersKept /\ UNCHANGED <<cart, wished, owner, connected, addedBy>>
  BY <1>1 DEF chainVars, OrdersKept, cartVars
<1>4. ServingSound' /\ StockSound'
  BY <1>1, <1>2, <1>3, StockStays DEF EveryRun, ServingSound, chainVars
<1>5. CartSound'
  BY <1>0, <1>1, <1>3 DEF CartSound, Sum
<1>6. QED
  BY <1>0, <1>1, <1>2, <1>3, <1>4, <1>5, QuietEvery DEF AllTyped

LEMMA EveryInit ==
  ASSUME Init
  PROVE  EveryRun
<1>1. CheckoutInv
  BY InitInv
<1>2. /\ run = [r \in Runs |-> Off] /\ visits = 0 /\ pool = <<>> /\ orders = <<>>
      /\ status = Pending /\ serving = {} /\ stamped = {} /\ stock = Stock0
  BY DEF Init
<1>3. Off \in RunRecords /\ Off.pc = "off"
  BY DEF Off, RunRecords, Pcs
<1>4. AllTyped
  <2>1. /\ ScreenTyped /\ VisitTyped /\ allowance \in Nat /\ balance \in Nat
        /\ phase \in {"idle", "allowance", "executing"} \cup Terminal
    BY <1>1 DEF CheckoutInv, Typed, ChainTyped, ScreenTyped
  <2>2. run \in [Runs -> RunRecords] /\ stock \in [Products -> Nat]
    BY <1>2, <1>3, CheckoutAssumption
  <2>3. pool \in Seq(WalletTransactions) /\ orders \in Seq(OrdersOfCheckout)
    BY <1>2
  <2>4. QED
    BY <1>2, <2>1, <2>2, <2>3 DEF AllTyped, ScreenTyped, VisitTyped
<1>5. (\A r \in Runs : RunSound(r)) /\ Apart
  BY <1>2, <1>3 DEF RunSound, Apart, Executing, Creating, Funding, Settling
<1>6. WalletSound /\ ServingSound /\ ShownSound
  BY <1>2 DEF WalletSound, ServingSound, ShownSound, ShownPaid, Pending
<1>7. StockSound
  <2>1. \A p \in Products : SumFunctionOnSet(Quantities, Stamped(p)) = 0 /\ Stock0[p] \in Nat
    BY <1>2, SumEmpty, CheckoutAssumption DEF Stamped
  <2>2. QED
    BY <1>2, <2>1 DEF StockSound
<1>8. QED
  BY <1>1, <1>4, <1>5, <1>6, <1>7 DEF EveryRun, CheckoutInv

LEMMA EveryStep ==
  ASSUME EveryRun, [Next]_vars
  PROVE  EveryRun'
<1>1. ASSUME NEW p \in Products, AddItem(p) \/ RemoveItems({p}) \/ OthersBuy(p)
      PROVE  EveryRun'
  BY <1>1, EveryCart, EveryQuiet
<1>2. CASE RemoveItems(Products)
  BY <1>2, EveryCart
<1>3. ASSUME NEW a \in Accounts \cup {Nobody}, Connect(a)
      PROVE  EveryRun'
  BY <1>3, EveryCart
<1>4. CASE OpenCheckout \/ FillAddress \/ Freeze \/ LeavePage \/ CloseTab \/ Cancel
  BY <1>4, EveryOpenCheckout, EveryQuiet, EveryForgotten
<1>5. ASSUME NEW r \in Runs, Start(r) \/ RunStep(r) \/ WalletAnswers(r)
      PROVE  EveryRun'
  BY <1>5, EveryStart, EveryPreflight, EveryReadAllowance, EveryWaitFails, EverySnapshot,
     EveryFinalize, EveryAnswerFails, EveryCommit, EveryWalletAnswers DEF RunStep
<1>6. ASSUME NEW request \in serving, Commit(request)
      PROVE  EveryRun'
  BY <1>6, EveryCommit
<1>7. CASE MineNext \/ UNCHANGED vars \/ \E n \in DOMAIN orders : Indexed(n)
  BY <1>7, EveryMineNext, EveryQuiet
<1>8. QED
  BY <1>1, <1>2, <1>3, <1>4, <1>5, <1>6, <1>7 DEF Next

(***************************************************************************)
(* The prompts of the wallet.                                              *)
(***************************************************************************)
\* A step of an activation asks for nothing.
Unasking(r) ==
    (\A q \in Runs \ {r} : run'[q] = run[q]) /\ run'[r].pc \notin Asking

LEMMA UnaskingSteps ==
  ASSUME EveryRun, cancelled, cancelled', NEW r \in Runs,
         \/ Start(r) \/ Preflight(r) \/ ReadAllowance(r) \/ WalletAnswers(r) \/ WaitFails(r)
         \/ SnapshotAddress(r) \/ Finalize(r) \/ AnswerFails(r)
  PROVE  Unasking(r)
<1>0. AllTyped
  BY DEF EveryRun
<1>1. ASSUME NEW pc \in Pcs \ Asking, Goto(r, pc)
      PROVE  Unasking(r)
  <2>1. run[r] \in RunRecords /\ run' = [run EXCEPT ![r] = [run[r] EXCEPT !.pc = pc]]
    BY <1>0, <1>1, AllAre DEF Goto
  <2>2. [run[r] EXCEPT !.pc = pc] \in RunRecords /\ [run[r] EXCEPT !.pc = pc].pc = pc
    BY <2>1 DEF RunRecords
  <2>3. QED
    BY <1>0, <1>1, <2>1, <2>2, RunTo DEF Unasking
<1>2. ASSUME Move(r), run'[r].pc = "ended"
      PROVE  Unasking(r)
  BY <1>2 DEF Unasking, Move, Asking
<1>3. CASE Fail(r) \/ \E why : SellerFails(r, why)
  BY <1>0, <1>2, <1>3, FailMoves, SellerFailsMoves
<1>4. CASE run[r].pc \in Settling /\ NextSeller(r)
  BY <1>0, <1>2, <1>4, NextSellerMoves
<1>5. {"preflight", "finalize", "retry", "answer"} \cup Awaiting \subseteq Pcs \ Asking
  BY DEF Pcs, Asking, Awaiting, Before, Executing, Creating, Funding, Settling
<1>6. CASE Start(r)
  BY <1>1, <1>5, <1>6 DEF Start
<1>7. CASE Preflight(r)
  <2>1. Fail(r)
    BY <1>7 DEF Preflight
  <2>2. QED
    BY <1>3, <2>1
<1>8. CASE ReadAllowance(r)
  BY <1>0, <1>2, <1>8, ReadAllowanceMoves
<1>9. CASE WalletAnswers(r)
  <2>1. run[r].pc \in Asking
        /\ (Goto(r, WaitFor[run[r].pc]) \/ Fail(r) \/ SellerFails(r, "cancelled"))
    BY <1>9 DEF WalletAnswers
  <2>2. WaitFor[run[r].pc] \in Awaiting
    BY <2>1, TxIs
  <2>3. QED
    BY <1>1, <1>3, <1>5, <2>1, <2>2
<1>10. CASE WaitFails(r)
  BY <1>3, <1>10 DEF WaitFails
<1>11. CASE SnapshotAddress(r)
  BY <1>1, <1>5, <1>11 DEF SnapshotAddress
<1>12. CASE Finalize(r)
  <2>1. run[r].pc \in Settling /\ (NextSeller(r) \/ Goto(r, "retry") \/ Goto(r, "answer"))
    BY <1>12 DEF Finalize, AfterError, Settling
  <2>2. QED
    BY <1>1, <1>4, <1>5, <2>1
<1>13. CASE AnswerFails(r)
  BY <1>4, <1>13 DEF AnswerFails, AfterError, Settling
<1>14. QED
  BY <1>6, <1>7, <1>8, <1>9, <1>10, <1>11, <1>12, <1>13

LEMMA UnaskingReceipt ==
  ASSUME EveryRun, cancelled, MineNext
  PROVE  UNCHANGED run \/ \E r \in Runs : Unasking(r)
<1>0. AllTyped
  BY DEF EveryRun
<1>1. PICK tx \in WalletTransactions : tx = Head(pool)
  BY <1>0, MineNextIs, FirstInPool
<1>2. Mined(tx, TRUE) \/ Mined(tx, FALSE)
  BY <1>1, MineNextIs
<1>3. CASE tx.run = NoRun
  BY <1>2, <1>3 DEF Mined
<1>4. CASE tx.run # NoRun
  <2>1. PICK ok \in BOOLEAN : Receipt(tx.run, tx, ok)
    BY <1>2, <1>4 DEF Mined
  <2>2. tx.run \in Runs
    BY <1>4 DEF WalletTransactions
  <2>3. Move(tx.run) /\ run'[tx.run].pc \in {"ended", "snapshot"}
    BY <1>0, <2>1, <2>2, ReceiptMoves
  <2>4. Unasking(tx.run)
    BY <2>3 DEF Unasking, Move, Asking
  <2>5. QED
    BY <2>2, <2>4
<1>5. QED
  BY <1>3, <1>4

LEMMA UnaskingAnswer ==
  ASSUME EveryRun, cancelled, NEW request \in serving, Commit(request)
  PROVE  UNCHANGED run \/ \E r \in Runs : Unasking(r)
<1>0. AllTyped
  BY DEF EveryRun
<1>1. ASSUME NEW r \in Runs, AwaitsAnswer(r, request.order), NextSeller(r)
      PROVE  Unasking(r)
  <2>1. Move(r) /\ run'[r].pc = "ended"
    BY <1>0, <1>1, NextSellerMoves DEF AwaitsAnswer, Settling
  <2>2. QED
    BY <2>1 DEF Unasking, Move, Asking
<1>2. QED
  BY <1>1 DEF Commit

\* After "Cancel remaining" no prompt follows but one that is open.
LEMMA CancelStep ==
  ASSUME EveryRun, [Next]_vars, cancelled, cancelled', NEW r \in Runs,
         run'[r].pc \in Asking
  PROVE  run'[r].pc = run[r].pc
<1>1. UNCHANGED run \/ \E q \in Runs : Unasking(q)
  <2>1. ASSUME NEW p \in Products, AddItem(p) \/ RemoveItems({p}) \/ OthersBuy(p)
        PROVE  UNCHANGED run
    BY <2>1 DEF AddItem, RemoveItems, OthersBuy, pageVars
  <2>2. CASE RemoveItems(Products) \/ \E a \in Accounts \cup {Nobody} : Connect(a)
    BY <2>2 DEF RemoveItems, Connect, pageVars
  <2>3. CASE OpenCheckout \/ LeavePage \/ CloseTab
    <3>1. cancelled' = FALSE
      BY <2>3 DEF OpenCheckout, LeavePage, CloseTab, Forgotten
    <3>2. QED
      BY <3>1
  <2>4. CASE FillAddress \/ Freeze \/ Cancel
    BY <2>4 DEF FillAddress, Freeze, Cancel, pageVars
  <2>5. ASSUME NEW q \in Runs, Start(q) \/ RunStep(q) \/ WalletAnswers(q)
        PROVE  UNCHANGED run \/ \E s \in Runs : Unasking(s)
    BY <2>5, UnaskingSteps, UnaskingAnswer DEF RunStep
  <2>6. ASSUME NEW request \in serving, Commit(request)
        PROVE  UNCHANGED run \/ \E s \in Runs : Unasking(s)
    BY <2>6, UnaskingAnswer
  <2>7. CASE MineNext
    BY <2>7, UnaskingReceipt
  <2>8. CASE UNCHANGED vars \/ \E n \in DOMAIN orders : Indexed(n)
    BY <2>8 DEF vars, Indexed, pageVars
  <2>9. QED
    BY <2>1, <2>2, <2>3, <2>4, <2>5, <2>6, <2>7, <2>8 DEF Next
<1>2. QED
  BY <1>1 DEF Unasking
-------------------------------------------------------------------------------
(***************************************************************************)
(* The theorems.                                                           *)
(***************************************************************************)
\* However often Pay is tapped, every activation of start() has an order of its own and
\* waits for transactions of its own, a request that finalize_cart let through names a
\* paid order that is not stamped, and the stock pays for no order twice; and as long as
\* no two activations race, the screen, the cart, the wallet's transactions and the chain
\* stay in step: the invariants from which the properties of checkout follow.
THEOREM CheckoutInvariant ==
  Spec => [](EveryRun /\ (Raced \/ CheckoutInv))
<1> DEFINE Both == EveryRun /\ (Raced \/ CheckoutInv)
<1>1. Init => Both
  BY InitInv, EveryInit
<1>2. Both /\ [Next]_vars => Both'
  BY StepInv, EveryStep
<1>3. QED
  BY <1>1, <1>2, PTL DEF Spec

LEMMA PaidIsSum ==
  ASSUME AllTyped, NEW p \in Products
  PROVE  /\ Funded(p) \in SUBSET (DOMAIN orders) /\ IsFiniteSet(Funded(p)) /\ Paid(p) \in Nat
         /\ \A n \in Funded(p) : Quantities[n] \in Nat
         /\ Paid(p) = SumFunctionOnSet(Quantities, Funded(p))
<1>1. Funded(p) \in SUBSET (DOMAIN orders) /\ orders \in Seq(OrdersOfCheckout)
  BY DEF Funded, AllTyped
<1>2. Paid(p) = SumFunctionOnSet(Quantities, Funded(p))
  BY DEF Paid, Quantities
<1>3. QED
  BY <1>1, <1>2, UnitsOf

LEMMA StockFollows == EveryRun => StockOnlyForPaid
<1> SUFFICES ASSUME EveryRun, NEW p \in Products
             PROVE  stock[p] >= Stock0[p] - Paid(p) - (IF "others" \in faults THEN 1 ELSE 0)
  BY DEF StockOnlyForPaid
<1>0. AllTyped /\ StockSound /\ stock[p] \in Nat /\ Stock0[p] \in Nat
  BY CheckoutAssumption DEF EveryRun, AllTyped
<1>1. /\ IsFiniteSet(Funded(p)) /\ Paid(p) \in Nat
      /\ \A n \in Funded(p) : Quantities[n] \in Nat
      /\ Paid(p) = SumFunctionOnSet(Quantities, Funded(p))
  BY <1>0, PaidIsSum
<1>2. Stamped(p) \in SUBSET Funded(p) /\ SumFunctionOnSet(Quantities, Stamped(p)) \in Nat
  BY <1>0, StampedFacts DEF Stamped, Funded, StockSound
<1>3. SumFunctionOnSet(Quantities, Stamped(p)) <= Paid(p)
  BY <1>1, <1>2, SumOfPart
<1>4. Stock0[p] <= stock[p] + SumFunctionOnSet(Quantities, Stamped(p))
                     + (IF "others" \in faults THEN 1 ELSE 0)
  BY <1>0 DEF StockSound
<1>5. QED
  BY <1>0, <1>1, <1>2, <1>3, <1>4

\* Stock is taken only for orders that are paid, and once for each: between the check of
\* finalize_cart and its commit no other request for the order is let through, whatever
\* answer is lost, however late the row of the indexer is and however often Pay is tapped
\* (cart.py, useSequentialCheckout).
THEOREM StockTheorem ==
  Spec => []StockOnlyForPaid
BY CheckoutInvariant, StockFollows, PTL

LEMMA ChargedFollows == EveryRun /\ (Raced \/ CheckoutInv) => ChargedOncePerUnit
<1> SUFFICES ASSUME EveryRun, CheckoutInv, NEW p \in Products
             PROVE  Paid(p) <= wished[p] + lost[p]
  BY DEF ChargedOncePerUnit
<1>0. AllTyped /\ Typed /\ ChainTyped /\ VisitTyped
  BY DEF EveryRun, CheckoutInv, Typed
<1>1. /\ cart[p] \in Nat /\ wished[p] \in Nat /\ token[p] \in Nat /\ lost[p] \in Nat
  BY <1>0 DEF AllTyped, VisitTyped
<1>2. Owing(p) + cart[p] <= wished[p] + NotYetOut(p) + lost[p]
  BY DEF CheckoutInv, ChargedSound
<1>3. NotYetOut(p) <= cart[p] /\ NotYetOut(p) \in Nat
  <2>1. CASE PageOpen /\ Here.pc # "ended" /\ p \in PaidNow
    <3>1. token[p] <= cart[p]
      BY <2>1 DEF CheckoutInv, ScreenSound, PageSound
    <3>2. NotYetOut(p) = token[p]
      BY <2>1 DEF NotYetOut
    <3>3. QED
      BY ONLY <1>1, <3>1, <3>2
  <2>2. CASE ~(PageOpen /\ Here.pc # "ended" /\ p \in PaidNow)
    <3>1. NotYetOut(p) = 0
      BY <2>2 DEF NotYetOut
    <3>2. QED
      BY ONLY <1>1, <3>1
  <2>3. QED
    BY <2>1, <2>2
<1>4. Paid(p) <= Owing(p) /\ Paid(p) \in Nat /\ Owing(p) \in Nat
  <2>1. Paid(p) \in Nat /\ Paid(p) = SumFunctionOnSet(Quantities, Funded(p))
    BY <1>0, PaidIsSum
  <2>2. /\ Charged(p) \in SUBSET (DOMAIN orders) /\ Owing(p) \in Nat
        /\ IsFiniteSet(Charged(p)) /\ \A n \in Charged(p) : Quantities[n] \in Nat
    BY <1>0, OwingNat, UnitsOf DEF AllTyped
  <2>3. Funded(p) \in SUBSET Charged(p)
    BY DEF Funded, Charged
  <2>4. QED
    BY <2>1, <2>2, <2>3, SumOfPart DEF Owing
<1>5. QED
  BY ONLY <1>1, <1>2, <1>3, <1>4

\* Over all the checkouts of the device a unit put in the cart is paid at most once, and
\* once more at most for each whose payment no page saw the end of, whether its wait
\* failed by the timeout or by the RPC, or the page died (useSequentialCheckout,
\* CheckoutFlow); unless a second tap raced the first.
THEOREM ChargedOnceTheorem ==
  Spec => []ChargedOncePerUnit
BY CheckoutInvariant, ChargedFollows, PTL

LEMMA AtMostOne ==
  ASSUME NEW S, \A m, n \in S : m = n
  PROVE  Cardinality(S) \in {0, 1} /\ (S = {} => Cardinality(S) = 0)
<1>1. CASE S = {}
  BY <1>1, FS_EmptySet
<1>2. ASSUME NEW x \in S PROVE Cardinality(S) = 1
  <2>1. S = {x}
    BY <1>2
  <2>2. QED
    BY <2>1, FS_Singleton
<1>3. QED
  BY <1>1, <1>2

LEMMA LastScreenFollows == EveryRun /\ (Raced \/ CheckoutInv) => LastScreenIsTrue
<1> SUFFICES
      ASSUME CheckoutInv, PageOpen, phase \in Terminal, NEW p \in Groups
      PROVE  LET payments == Cardinality(FundedNow(p)) + Cardinality(StillPaying(p))
             IN  /\ CASE status[p] = "success" -> payments = 1 /\ StillPaying(p) = {}
                      [] status[p] = "error" /\ OpenEnded(p) -> payments <= 1
                      [] OTHER -> payments = 0
                 /\ \A n \in FundedNow(p) : orders[n].qty = token[p]
                 /\ \A n \in StillPaying(p) : pool[n].amount = token[p]
  BY DEF LastScreenIsTrue
<1> DEFINE funded == Cardinality(FundedNow(p))
           paying == Cardinality(StillPaying(p))
<1>0. Typed /\ ScreenTyped /\ ChainTyped /\ ScreenSound /\ p \in Products
  BY DEF CheckoutInv, Typed, Groups
<1>1. Here.pc = "ended"
  <2>1. Here.pc \in Pcs
    BY <1>0, TapFacts DEF ScreenTyped, RunTyped, Here
  <2>2. QED
    BY <1>0, <2>1 DEF Pcs, ScreenSound, PhaseSound, Terminal
<1>2. p \in PaidNow <=> status[p] = "success"
  BY <1>0, <1>1 DEF PaidNow, Settling
<1>3. \A n \in StillPaying(p) : pool[n].amount = token[p] /\ OpenEnded(p)
  <2> SUFFICES ASSUME NEW n \in StillPaying(p)
               PROVE  pool[n].amount = token[p] /\ OpenEnded(p)
    OBVIOUS
  <2>1. PICK tx \in Transactions : tx = pool[n] /\ TransactionSound(tx)
    BY <1>0, OrdersAre DEF CheckoutInv, PoolSound, StillPaying
  <2>2. tx.visit = visits /\ tx.kind = "fund" /\ tx.product = p
    BY <2>1 DEF StillPaying
  <2>3. tx.run = NoRun
    <3>1. n \in DOMAIN pool
      BY DEF StillPaying
    <3>2. QED
      BY <1>0, <1>1, <2>1, <3>1, NoOwnTransaction DEF CheckoutInv, Awaiting, Transactions
  <2>4. QED
    BY <2>1, <2>2, <2>3 DEF TransactionSound, Warned
<1>4. CASE OpenEnded(p)
  <2>1. status[p] = "error" /\ OnePayment(p)
    BY <1>0, <1>4 DEF CheckoutInv, OpenSound
  <2>2. funded \in {0, 1} /\ paying \in {0, 1} /\ (funded = 0 \/ paying = 0)
    BY <2>1, AtMostOne DEF OnePayment
  <2>3. funded + paying <= 1
    BY ONLY <2>2
  <2>4. QED
    BY <1>3, <1>4, <2>1, <2>3 DEF OnePayment
<1>5. CASE ~OpenEnded(p)
  <2>1. StillPaying(p) = {} /\ paying = 0
    BY <1>3, <1>5, AtMostOne
  <2>2. CASE p \in PaidNow
    <3>1. PICK n \in FundedNow(p) : FundedNow(p) = {n} /\ orders[n].qty = token[p]
      BY <1>0, <1>5, <2>2 DEF CheckoutInv, BooksSound, PaidOnce
    <3>2. funded = 1
      BY <3>1, FS_Singleton
    <3>3. funded + paying = 1
      BY ONLY <2>1, <3>2
    <3>4. QED
      BY <1>2, <2>1, <2>2, <3>1, <3>3
  <2>3. CASE p \notin PaidNow
    <3>1. FundedNow(p) = {} /\ funded = 0
      BY <1>0, <1>5, <2>3, FS_EmptySet DEF CheckoutInv, BooksSound
    <3>2. funded + paying = 0
      BY ONLY <2>1, <3>1
    <3>3. QED
      BY <1>2, <1>5, <2>1, <2>3, <3>1, <3>2
  <2>4. QED
    BY <2>2, <2>3
<1>6. QED
  BY <1>4, <1>5

\* What the last screen of a checkout tells is so: a seller shown as paid has exactly one
\* funded order of the locked quantity, one shown as failed or canceled has none and will
\* get none, and one whose wait failed, by the timeout or by the RPC, gets one at most
\* (useSequentialCheckout, CheckoutSuccessView); unless a second tap raced the first.
THEOREM LastScreenTheorem ==
  Spec => []LastScreenIsTrue
BY CheckoutInvariant, LastScreenFollows, PTL

LEMMA PageFollows == EveryRun /\ (Raced \/ CheckoutInv) => PageIsHonest
<1> SUFFICES ASSUME EveryRun, Raced \/ CheckoutInv PROVE PageIsHonest
  OBVIOUS
<1>0. AllTyped /\ CartSound
  BY DEF EveryRun
<1>1. TypeOK
  <2>1. ASSUME NEW p \in Products
        PROVE  cart[p] \in 0..MaxUnits /\ token[p] \in 0..MaxUnits
    <3>1. /\ wished \in [Products -> Nat] /\ cart[p] \in Nat /\ token[p] \in Nat
          /\ MaxUnits \in Nat
      BY <1>0, CheckoutAssumption DEF AllTyped
    <3>2. /\ wished[p] <= Sum(wished) /\ Sum(wished) <= MaxUnits /\ cart[p] <= wished[p]
          /\ token[p] <= MaxUnits /\ wished[p] \in Nat /\ Sum(wished) \in Nat
      BY <1>0, <3>1, SumOfUnits DEF CartSound
    <3>3. QED
      BY ONLY <3>1, <3>2
  <2>2. \A r \in Runs : run[r].pc \in Pcs
    BY <1>0, AllAre DEF RunRecords
  <2>3. QED
    BY <1>0, <2>1, <2>2 DEF TypeOK, AllTyped, Statuses, Pcs, Before, Executing, Creating,
       Funding, Settling, Asking
<1>2. ASSUME PageOpen, phase \in {"allowance", "executing"}, Steps.approve = "done", ~Raced,
             \A p \in DOMAIN lost : lost[p] = 0
      PROVE  allowance >= Total - Sum(Settled)
  <2>1. CheckoutInv /\ NothingLost /\ Typed /\ ScreenTyped /\ ScreenSound
    BY <1>2 DEF NothingLost, CheckoutInv, Typed
  <2>2. Here.pc \in Before \cup Executing
    <3>1. Here.pc \in Pcs
      BY <2>1, TapFacts DEF ScreenTyped, RunTyped, Here
    <3>2. QED
      BY <1>2, <2>1, <3>1 DEF Pcs, ScreenSound, PhaseSound, Terminal
  <2>3. phase # "allowance"
    BY <1>2 DEF Steps
  <2>4. Here.pc \in Executing
    BY <2>1, <2>2, <2>3 DEF ScreenSound, PhaseSound
  <2>5. QED
    BY <2>1, <2>4 DEF CheckoutInv, AllowanceSound
<1>3. ProgressIsTrue
  <2>1. \A p \in Groups : ShownPaid(p) => FundedNow(p) # {}
    BY DEF EveryRun, ShownSound, Groups
  <2>2. QED
    BY <1>2, <2>1 DEF ProgressIsTrue, Total, Settled
<1>4. CartIsPrivate
  BY <1>0 DEF CartIsPrivate, CartSound
<1>5. QED
  BY <1>1, <1>3, <1>4 DEF PageIsHonest

\* The progress shown on the way never runs ahead of the chain: a seller shown as paid is,
\* and once the approval is shown as done the allowance covers what is still to be paid,
\* unless an earlier page left a transaction behind or two activations race; and nobody
\* sees the cart of another account of the device.
THEOREM PageTheorem ==
  Spec => []PageIsHonest
BY CheckoutInvariant, PageFollows, PTL

\* After "Cancel remaining" the wallet is asked for nothing more, by any activation:
\* whatever goes on to the next prompt looks at cancelRef first (ReadAllowance, Seller,
\* Created).
THEOREM CancelTheorem ==
  Spec => CancelAsksNothingMore
<1>1. EveryRun /\ [Next]_vars =>
          [cancelled /\ cancelled' =>
              \A r \in Runs : run'[r].pc \in Asking => UNCHANGED run[r].pc]_vars
  BY CancelStep
<1>2. Spec => []EveryRun
  BY CheckoutInvariant, PTL
<1>3. QED
  BY <1>1, <1>2, PTL DEF Spec, CancelAsksNothingMore
===============================================================================
