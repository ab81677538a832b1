------------------------------- MODULE Checkout -------------------------------
(***************************************************************************)
(* A buyer's device, from the cart to the paid orders: lib/cart-store.ts,  *)
(* lib/checkout.ts, components/CheckoutFlow.tsx and                        *)
(* hooks/useSequentialCheckout.ts, with the cart routes of the backend     *)
(* (routers/cart.py), the buyer's wallet, and the pool of the chain.       *)
(*                                                                         *)
(* The cart is kept in localStorage.  Checking out locks it in a token,    *)
(* opens the checkout page on the token and runs the hook: approve once,   *)
(* then create and fund one order per seller.  A run is one activation of  *)
(* start(); between two awaits it is one step.  Every product has a seller *)
(* of its own and costs one unit of USDT, so that the group of a seller    *)
(* is a product and a quantity.                                            *)
(***************************************************************************)
EXTENDS Integers, Sequences, FiniteSets, Functions, FiniteSetsExt

CONSTANTS
    Accounts,
    GroupOrder,    \* the products, as a sequence
    Stock0,        \* stock of each product at the start
    Balance0,      \* USDT of the wallet
    MaxTaps,       \* bound on the activations of start() in one visit of the page
    MaxUnits,      \* bound on the units put in the cart in a behaviour
    MaxVisits,     \* bound on the visits of the checkout page
    MaxFaults      \* bound on the faults of a behaviour

Products == {GroupOrder[n] : n \in DOMAIN GroupOrder}
Nobody == "nobody"

\* The activations of start(), in the order in which they pass its first guard.
Runs == 1..MaxTaps
NoRun == 0

ASSUME CheckoutAssumption ==
    /\ Nobody \notin Accounts \cup Products
    /\ MaxTaps \in Nat \ {0}
    /\ GroupOrder \in Seq(Products)
    /\ \A m, n \in DOMAIN GroupOrder : GroupOrder[m] = GroupOrder[n] => m = n
    /\ Stock0 \in [Products -> Nat] /\ {Balance0, MaxUnits} \subseteq Nat

VARIABLES
    cart,        \* useCartStore.items: units of each product
    snapshot,    \* stockSnapshot of each product in the cart
    owner,       \* useCartStore.ownerAddress
    connected,   \* the wallet account the page sees
    addedBy,     \* history: who put the items in the cart
    wished,      \* history: units put in the cart and not taken out again
    token,       \* the units the token of the open checkout page locks
    phase,       \* CheckoutState.phase
    status,      \* CheckoutState.sellers: status of each seller
    failure,     \* what the buyer is told of a seller in status error
    address,     \* whether the delivery form is complete
    started,     \* startedRef
    cancelled,   \* cancelRef
    run,         \* where each activation of start() is
    visits,      \* visits of the checkout page so far
    lost,        \* history: units of the payments (and, at Nobody, of the approvals)
                 \* whose end no page saw
    pool,        \* the wallet's transactions, in the order of their nonces
    allowance,   \* USDT the escrow may take
    balance,
    orders,      \* on the chain: [product, qty, status, visit]
    rows,        \* the orders whose row the indexer has inserted
    addressed,   \* the orders whose row has a delivery address
    stamped,     \* the orders whose row has product_ids
    serving,     \* the requests finalize_cart has let through and not committed yet
    stock,       \* Product.stock
    faults

cartVars == <<cart, snapshot, owner, connected, addedBy, wished>>
pageVars == <<token, phase, status, failure, address, started, cancelled, run, visits, lost>>
chainVars == <<pool, allowance, balance, orders>>
backendVars == <<rows, addressed, stamped, serving, stock>>
vars == <<cartVars, pageVars, chainVars, backendVars, faults>>

NoUnits == [p \in Products |-> 0]
NoPage == NoUnits
Off == [pc |-> "off", at |-> 0, order |-> 0]
Pending == [p \in Products |-> "pending"]

Init ==
    /\ cart = NoUnits /\ wished = NoUnits /\ snapshot = NoUnits
    /\ owner = Nobody /\ connected = Nobody /\ addedBy = {}
    /\ token = NoPage /\ phase = "idle"
    /\ status = Pending /\ failure = [p \in Products |-> "none"]
    /\ address = FALSE /\ started = FALSE /\ cancelled = FALSE
    /\ run = [r \in Runs |-> Off]
    /\ visits = 0 /\ lost = [p \in Products \cup {Nobody} |-> 0]
    /\ pool = <<>> /\ allowance = 0 /\ balance = Balance0 /\ orders = <<>>
    /\ rows = {} /\ addressed = {} /\ stamped = {} /\ serving = {} /\ stock = Stock0
    /\ faults = {}

\* Every kind of fault happens at most once, and MaxFaults kinds in a behaviour.
Fault(kind) ==
    /\ kind \notin faults /\ Cardinality(faults) < MaxFaults
    /\ faults' = faults \cup {kind}

Sum(units) == SumFunctionOnSet(units, Products)

PageOpen == token # NoPage
-------------------------------------------------------------------------------
(***************************************************************************)
(* The cart.                                                               *)
(***************************************************************************)
\* What the buttons of an item let the buyer have: the stock on display when it was
\* first put in the cart, or the stock on display now.
MostUnits(p) == IF cart[p] > 0 THEN snapshot[p] ELSE stock[p]

\* addItem and updateQty: one unit more.
AddItem(p) ==
    /\ Sum(wished) < MaxUnits
    /\ cart[p] < MostUnits(p)
    /\ cart' = [cart EXCEPT ![p] = @ + 1]
    /\ snapshot' = [snapshot EXCEPT ![p] = MostUnits(p)]
    /\ wished' = [wished EXCEPT ![p] = @ + 1]
    /\ addedBy' = addedBy \cup {connected}
    /\ UNCHANGED <<owner, connected, pageVars, chainVars, backendVars, faults>>

Without(units, products) == [p \in Products |-> IF p \in products THEN 0 ELSE units[p]]

\* removeItem, updateQty down to 0, and clearCart.  Bound: while a checkout is open the
\* buyer adds to the cart but takes nothing out of it.
RemoveItems(products) ==
    /\ ~PageOpen /\ \E p \in products : cart[p] > 0
    /\ cart' = Without(cart, products) /\ snapshot' = Without(snapshot, products)
    /\ wished' = [p \in Products |-> wished[p] - cart[p] + cart'[p]]
    /\ UNCHANGED <<owner, connected, addedBy, pageVars, chainVars, backendVars, faults>>

\* Mutant: only a cart that has no owner yet is emptied.
StrangerOfNobody(account) == owner = Nobody

\* reconcileOwner: a cart of another account, or of nobody, is emptied.
Stranger(account) == owner # account

\* Bound: the account changes only while no checkout is open.
Connect(account) ==
    /\ ~PageOpen /\ pool = <<>> /\ serving = {} /\ account # connected
    /\ connected' = account
    /\ IF account = Nobody \/ ~Stranger(account)
       THEN UNCHANGED <<cart, snapshot, owner, addedBy, wished>>
       ELSE /\ cart' = NoUnits /\ snapshot' = NoUnits /\ addedBy' = {} /\ owner' = account
            /\ wished' = [p \in Products |-> wished[p] - cart[p]]
    /\ UNCHANGED <<pageVars, chainVars, backendVars, faults>>
-------------------------------------------------------------------------------
(***************************************************************************)
(* The page.                                                               *)
(***************************************************************************)
InStock == \A p \in Products : cart[p] <= stock[p]

\* handleCheckout and create_cart_token: the cart is locked in a token, and the page
\* opens on it.  Bound: not after a race.
OpenCheckout ==
    /\ ~PageOpen /\ cart # NoUnits /\ connected # Nobody
    /\ visits < MaxVisits /\ "raced" \notin faults
    /\ "frozen" \notin faults
    /\ InStock
    /\ token' = cart /\ visits' = visits + 1
    /\ phase' = "idle" /\ status' = Pending /\ failure' = [p \in Products |-> "none"]
    /\ address' = FALSE /\ started' = FALSE /\ cancelled' = FALSE /\ run' = [r \in Runs |-> Off]
    /\ UNCHANGED <<lost, cartVars, chainVars, backendVars, faults>>

\* ORDERS_FROZEN, of the backend and of the build.
Freeze ==
    /\ Fault("frozen")
    /\ UNCHANGED <<cartVars, pageVars, chainVars, backendVars>>

\* The delivery form, which starts with what the session last delivered to.
FillAddress ==
    /\ PageOpen /\ phase = "idle" /\ ~address /\ address' = TRUE
    /\ UNCHANGED <<token, phase, status, failure, started, cancelled, run, visits, lost,
                   cartVars, chainVars, backendVars, faults>>

Terminal == {"success", "partial", "canceled", "error"}
InProgress == phase \in {"allowance", "executing"} \/ \E r \in Runs : run[r].pc = "preflight"
Active == \E r \in Runs : run[r].pc \notin {"off", "ended"}

Forgotten ==
    /\ token' = NoPage
    /\ phase' = "idle" /\ status' = Pending /\ failure' = [p \in Products |-> "none"]
    /\ address' = FALSE /\ started' = FALSE /\ cancelled' = FALSE /\ run' = [r \in Runs |-> Off]
    /\ pool' = [n \in DOMAIN pool |-> [pool[n] EXCEPT !.run = NoRun]]
    /\ UNCHANGED <<visits, allowance, balance, orders, cartVars, backendVars>>

\* The buyer leaves the page before or after the run.
LeavePage ==
    /\ PageOpen /\ ~Active
    /\ Forgotten /\ UNCHANGED <<lost, faults>>

FundedNow(p) ==
    {n \in DOMAIN orders :
        orders[n].product = p /\ orders[n].status = "Funded" /\ orders[n].visit = visits}

\* The payments of p of this visit that are not mined yet.
StillPaying(p) ==
    {n \in DOMAIN pool :
        pool[n].visit = visits /\ pool[n].kind = "fund" /\ pool[n].product = p}

\* What the page would still have booked: the units it has paid, or is paying, and an
\* approval under way.
Unbooked(p) ==
    IF p = Nobody
    THEN IF \E n \in DOMAIN pool : pool[n].run # NoRun /\ pool[n].kind = "approve" THEN 1 ELSE 0
    ELSE IF FundedNow(p) \cup StillPaying(p) # {} THEN token[p] ELSE 0

\* The page dies in the middle of a run.
CloseTab ==
    /\ PageOpen /\ Active /\ Fault("closed")
    /\ lost' = [p \in Products \cup {Nobody} |-> lost[p] + Unbooked(p)]
    /\ Forgotten
-------------------------------------------------------------------------------
(***************************************************************************)
(* The hook.                                                               *)
(***************************************************************************)
\* The groups of the token, in the order of GroupOrder.
Groups == {p \in Products : token[p] > 0}
GroupsFrom(n) == {m \in DOMAIN GroupOrder : n <= m /\ GroupOrder[m] \in Groups}
Total == Sum(token)

\* finalizePhase
FinalPhase(st) ==
    LET With(s) == {p \in Groups : st[p] = s}
    IN  IF With("success") = Groups THEN "success"
        ELSE IF With("success") # {} THEN "partial"
        ELSE IF With("error") # {} THEN "error"
        ELSE IF With("canceled") # {} THEN "canceled"
        ELSE "error"

\* markRemainingCanceled
RemainingCanceled(st, from) ==
    [p \in Products |->
        IF st[p] = "pending" /\ \E n \in GroupsFrom(from) : GroupOrder[n] = p
        THEN "canceled" ELSE st[p]]

\* Mutant: a partial checkout leaves the cart alone.
PaidForAll(st) == IF FinalPhase(st) = "success" THEN Products ELSE {}

\* The cleanup effect of CheckoutFlow.
PaidFor(st) ==
    IF FinalPhase(st) = "success" THEN Products
    ELSE {p \in Groups : st[p] = "success"}

\* The run ends with finalizePhase.
End(r, st) ==
    /\ status' = st /\ phase' = FinalPhase(st)
    /\ cart' = Without(cart, PaidFor(st)) /\ snapshot' = Without(snapshot, PaidFor(st))
    /\ run' = [run EXCEPT ![r] = [Off EXCEPT !.pc = "ended"]]

\* The outer catch: phase error, the sellers as they are.
Fail(r) ==
    /\ phase' = "error"
    /\ run' = [run EXCEPT ![r] = [Off EXCEPT !.pc = "ended"]]
    /\ UNCHANGED <<status, failure, cart, snapshot>>

Goto(r, pc) == run' = [run EXCEPT ![r].pc = pc]

\* The loop goes on with the first seller from number i on.
Seller(r, i, st) ==
    IF GroupsFrom(i) = {} THEN End(r, st)
    ELSE IF cancelled THEN End(r, RemainingCanceled(st, i))
    ELSE \E n \in GroupsFrom(i) :
            /\ \A m \in GroupsFrom(i) : n <= m
            /\ phase' = IF i = 1 THEN "executing" ELSE phase
            /\ status' = [st EXCEPT ![GroupOrder[n]] = "creating"]
            /\ run' = [run EXCEPT ![r] = [pc |-> "ask create", at |-> n, order |-> 0]]
            /\ UNCHANGED <<cart, snapshot>>

\* The product whose order the run is at.
Group(r) == GroupOrder[run[r].at]

\* Mutant: returns from the run instead of leaving the loop.
SellerFailsForGood(r, why) ==
    /\ status' = RemainingCanceled([status EXCEPT ![Group(r)] = "error"], run[r].at + 1)
    /\ failure' = [failure EXCEPT ![Group(r)] = why]
    /\ run' = [run EXCEPT ![r] = [Off EXCEPT !.pc = "ended"]]
    /\ UNCHANGED <<phase, cart, snapshot>>

\* The inner catch: the seller is in error, those after it are canceled.
SellerFails(r, why) ==
    /\ End(r, RemainingCanceled([status EXCEPT ![Group(r)] = "error"], run[r].at + 1))
    /\ failure' = [failure EXCEPT ![Group(r)] = why]

\* Mutant: the buyer's own cancellation lets the created order be funded.
StopsBeforeFundingNever == FALSE

StopsBeforeFunding == cancelled

pageRest == <<token, address, started, cancelled, visits, lost>>
cartRest == <<owner, connected, addedBy, wished>>

\* The Pay button of the idle screen, with the balance gate.
PayEnabled ==
    /\ PageOpen /\ phase = "idle" /\ connected # Nobody
    /\ address /\ balance >= Total /\ "frozen" \notin faults

\* start() passes its first guard, which a second tap passes too while the first waits
\* for the wallet: startedRef is set after that.
\* Bound: a second tap races the first on the first visit, for one unit, and once.
Start(r) ==
    /\ PayEnabled /\ ~started
    /\ run[r].pc = "off" /\ \A earlier \in 1..(r - 1) : run[earlier].pc # "off"
    /\ Goto(r, "preflight")
    /\ IF r = 1 THEN UNCHANGED faults ELSE Total = 1 /\ visits = 1 /\ Fault("raced")
    /\ UNCHANGED <<phase, status, failure, pageRest, cartVars, chainVars, backendVars>>

\* The wallet client and its chain have been awaited; only now the ref is set.
Preflight(r) ==
    /\ run[r].pc = "preflight"
    /\ \/ /\ started' = TRUE /\ cancelled' = FALSE
          /\ phase' = "allowance" /\ Goto(r, "allowance")
          /\ UNCHANGED <<status, failure, cart, snapshot, faults>>
       \/ Fault("preflight") /\ Fail(r) /\ UNCHANGED <<started, cancelled>>
    /\ UNCHANGED <<token, address, visits, lost, cartRest, chainVars, backendVars>>

\* The allowance has been read.
ReadAllowance(r) ==
    /\ run[r].pc = "allowance"
    /\ \/ /\ allowance < Total
          /\ IF cancelled THEN End(r, RemainingCanceled(status, 1))
             ELSE Goto(r, "ask approve") /\ UNCHANGED <<phase, status, cart, snapshot>>
          /\ UNCHANGED <<failure, faults>>
       \/ allowance >= Total /\ Seller(r, 1, status) /\ UNCHANGED <<failure, faults>>
       \/ Fault("read") /\ Fail(r)
    /\ UNCHANGED <<pageRest, cartRest, chainVars, backendVars>>

Asking == {"ask approve", "ask create", "ask fund"}
WaitFor == [pc \in Asking |->
    CASE pc = "ask approve" -> "approve" [] pc = "ask create" -> "create"
      [] pc = "ask fund" -> "fund"]

\* Mutant: approves what the first seller is owed.
ApprovedFirst == token[GroupOrder[Min(GroupsFrom(1))]]

Approved == Total

Tx(r) ==
    LET kind == WaitFor[run[r].pc]
    IN  [kind |-> kind, run |-> r, order |-> run[r].order, visit |-> visits,
         product |-> IF kind = "approve" THEN Nobody ELSE Group(r),
         amount |-> IF kind = "approve" THEN Approved ELSE token[Group(r)]]

\* The buyer confirms or rejects in the wallet.
WalletAnswers(r) ==
    /\ run[r].pc \in Asking
    /\ \/ /\ pool' = Append(pool, Tx(r))
          /\ Goto(r, WaitFor[run[r].pc])
          /\ UNCHANGED <<phase, status, failure, cart, snapshot, faults>>
       \/ /\ Fault("rejection")
          /\ IF run[r].pc = "ask approve" THEN Fail(r) ELSE SellerFails(r, "cancelled")
          /\ UNCHANGED pool
    /\ UNCHANGED <<pageRest, cartRest, allowance, balance, orders, backendVars>>

\* Mutant: told like a revert.
ToldLikeRevert == "rejected by the contract"

\* What classifyError makes of a wait that fails without a receipt: the message of the
\* timeout or of the RPC, which are told apart from every other.  External: that no text of
\* the RPC's own has one of the words classifyError looks for, "rejected" or "denied" say.
ToldOfWait == "no receipt"

\* The wait for the receipt fails, at the latest after TX_TIMEOUT_MS and at any time by
\* an error of the RPC: the run goes on as after any error, although the transaction
\* may still be mined.
WaitFails(r) ==
    /\ run[r].pc \in {"approve", "create", "fund"}
    /\ IF run[r].pc = "approve" THEN Fail(r) ELSE SellerFails(r, ToldOfWait)
    /\ lost' = CASE run[r].pc = "approve" -> [lost EXCEPT ![Nobody] = @ + 1]
                 [] run[r].pc = "create" -> lost
                 [] run[r].pc = "fund" -> [lost EXCEPT ![Group(r)] = @ + token[Group(r)]]
    /\ pool' = [n \in DOMAIN pool |->
                   IF pool[n].run = r THEN [pool[n] EXCEPT !.run = NoRun] ELSE pool[n]]
    /\ UNCHANGED <<token, address, started, cancelled, visits,
                   cartRest, allowance, balance, orders, backendVars, faults>>

\* The order has been created and its id read from the receipt.
Created(r) ==
    IF StopsBeforeFunding THEN SellerFails(r, "canceled before funding")
    ELSE /\ status' = [status EXCEPT ![Group(r)] = "funding"]
         /\ run' = [run EXCEPT ![r] =
                      [pc |-> "ask fund", at |-> @.at, order |-> Len(orders) + 1]]
         /\ UNCHANGED <<phase, failure, cart, snapshot>>

\* Mutant: the status of the funding receipt is not looked at.
FundAcceptedAlways(ok) == TRUE

FundAccepted(ok) == ok

\* The receipt of tx arrives; a reverted one is an error.
Receipt(r, tx, ok) ==
    \/ tx.kind = "approve" /\ ok /\ Seller(r, 1, status) /\ UNCHANGED failure
    \/ tx.kind = "approve" /\ ~ok /\ Fail(r)
    \/ tx.kind = "create" /\ ok /\ Created(r)
    \/ tx.kind = "create" /\ ~ok /\ SellerFails(r, "rejected by the contract")
    \/ /\ tx.kind = "fund" /\ FundAccepted(ok)
       /\ Goto(r, "snapshot") /\ UNCHANGED <<phase, status, failure, cart, snapshot>>
    \/ tx.kind = "fund" /\ ~FundAccepted(ok) /\ SellerFails(r, "rejected by the contract")

\* The delivery address is put on the order's row.  The request is repeated while the
\* row is not there; after the last attempt, or an error, the order stays without.
SnapshotAddress(r) ==
    /\ run[r].pc = "snapshot" /\ Goto(r, "finalize")
    /\ \/ run[r].order \in rows /\ addressed' = addressed \cup {run[r].order} /\ UNCHANGED faults
       \/ run[r].order \notin rows /\ UNCHANGED <<addressed, faults>>
       \/ Fault("request") /\ UNCHANGED addressed
    /\ UNCHANGED <<phase, status, failure, pageRest, cartVars, chainVars, rows, stamped, serving, stock>>

\* finalize_cart: the stock of the order is taken if there is enough left.
\* Mutant: it is taken without looking.
TakenBlindly(p, qty) == stock[p] - qty

Taken(p, qty) == IF stock[p] >= qty THEN stock[p] - qty ELSE stock[p]

\* The loop goes on after the order of the seller is paid.
NextSeller(r) == Seller(r, run[r].at + 1, [status EXCEPT ![Group(r)] = "success"])

\* Mutant: a failed request is repeated as well.
RetriedAfterError(r) == Goto(r, "retry") /\ UNCHANGED <<phase, status, cart, snapshot>>

\* A failed request is only logged.
AfterError(r) == NextSeller(r)

finalizeRest == <<failure, pageRest, cartRest, chainVars, rows, addressed>>

\* finalize_cart reads the row of the order.  It is not there: the request is made once
\* more, and then the order stays unstamped.  It is stamped: nothing is left to do.
\* Else the request is let through; it is carried out later.
Finalize(r) ==
    LET n == run[r].order
    IN  /\ run[r].pc \in {"finalize", "retry"}
        /\ \/ /\ n \notin rows /\ UNCHANGED <<serving, faults>>
              /\ IF run[r].pc = "retry" THEN NextSeller(r)
                 ELSE Goto(r, "retry") /\ UNCHANGED <<phase, status, cart, snapshot>>
           \/ n \in stamped /\ NextSeller(r) /\ UNCHANGED <<serving, faults>>
           \/ /\ n \in rows \ stamped
              /\ serving' = serving \cup {[order |-> n, product |-> Group(r), by |-> run[r].pc,
                                          qty |-> token[Group(r)]]}
              /\ Goto(r, "answer") /\ UNCHANGED <<phase, status, cart, snapshot, faults>>
           \/ Fault("request") /\ AfterError(r) /\ UNCHANGED serving
        /\ UNCHANGED <<finalizeRest, stamped, stock>>

\* The run whose request for order n is under way.
AwaitsAnswer(r, n) == run[r].pc = "answer" /\ run[r].order = n

\* finalize_cart takes the stock, stamps the row and commits; whoever still waits for
\* the answer gets it.
Commit(request) ==
    /\ request \in serving /\ serving' = serving \ {request}
    /\ stock' = [stock EXCEPT ![request.product] = Taken(request.product, request.qty)]
    /\ stamped' = stamped \cup {request.order}
    /\ IF \E r \in Runs : AwaitsAnswer(r, request.order)
       THEN \E r \in Runs : AwaitsAnswer(r, request.order) /\ NextSeller(r)
       ELSE UNCHANGED <<phase, status, cart, snapshot, run>>
    /\ UNCHANGED <<finalizeRest, faults>>

\* The answer is an error: the request was given up before its commit, or only its
\* answer is lost and it is still carried out.
AnswerFails(r) ==
    /\ run[r].pc = "answer" /\ Fault("request") /\ AfterError(r)
    /\ serving' \in {serving, {request \in serving : request.order # run[r].order}}
    /\ UNCHANGED <<finalizeRest, stamped, stock>>

\* "Cancel remaining"
Cancel ==
    /\ phase \in {"allowance", "executing"} /\ ~cancelled
    /\ cancelled' = TRUE
    /\ UNCHANGED <<token, phase, status, failure, address, started, run, visits, lost,
                   cartVars, chainVars, backendVars, faults>>
-------------------------------------------------------------------------------
(***************************************************************************)
(* The chain, the indexer and the other buyers.                            *)
(***************************************************************************)
Executes(tx) ==
    IF tx.kind = "fund"
    THEN orders[tx.order].status = "Created" /\ allowance >= tx.amount /\ balance >= tx.amount
    ELSE TRUE

Execution(tx, ok) ==
    /\ allowance' = IF ~ok \/ tx.kind = "create" THEN allowance
                    ELSE IF tx.kind = "approve" THEN tx.amount ELSE allowance - tx.amount
    /\ balance' = IF ok /\ tx.kind = "fund" THEN balance - tx.amount ELSE balance
    /\ orders' = IF ~ok \/ tx.kind = "approve" THEN orders
                 ELSE IF tx.kind = "create"
                 THEN Append(orders, [product |-> tx.product, qty |-> tx.amount,
                                      status |-> "Created", visit |-> tx.visit])
                 ELSE [orders EXCEPT ![tx.order].status = "Funded"]

\* The wallet's transactions are mined in the order of their nonces.  Any of them may
\* revert, and whoever still waits for it gets the receipt.
MineNext ==
    /\ pool # <<>>
    /\ LET tx == Head(pool)
       IN  /\ pool' = Tail(pool)
           /\ \/ /\ Execution(tx, Executes(tx)) /\ UNCHANGED faults
                 /\ IF tx.run = NoRun THEN UNCHANGED <<phase, status, failure, cart, snapshot, run>>
                    ELSE Receipt(tx.run, tx, Executes(tx))
              \/ /\ Fault("revert") /\ Execution(tx, FALSE)
                 /\ IF tx.run = NoRun THEN UNCHANGED <<phase, status, failure, cart, snapshot, run>>
                    ELSE Receipt(tx.run, tx, FALSE)
    /\ UNCHANGED <<pageRest, cartRest, backendVars>>

\* Bound: a row is inserted while a run asks for it, when somebody sees the difference.
Indexed(n) ==
    /\ \E r \in Runs : run[r].order = n /\ run[r].pc \in {"snapshot", "finalize", "retry"}
    /\ n \notin rows /\ rows' = rows \cup {n}
    /\ UNCHANGED <<cartVars, pageVars, chainVars, addressed, stamped, serving, stock, faults>>

\* Another buyer's order is finalized, or the seller counts less.
OthersBuy(p) ==
    /\ stock[p] > 0 /\ Fault("others")
    /\ stock' = [stock EXCEPT ![p] = @ - 1]
    /\ UNCHANGED <<cartVars, pageVars, chainVars, rows, addressed, stamped, serving>>

\* The awaits of a run that end by themselves: a request is answered or fails, and the
\* wait for a receipt has a timeout.
RunStep(r) ==
    \/ Preflight(r) \/ ReadAllowance(r) \/ WaitFails(r) \/ SnapshotAddress(r)
    \/ Finalize(r) \/ AnswerFails(r)
    \/ \E request \in serving : AwaitsAnswer(r, request.order) /\ Commit(request)

Next ==
    \/ \E p \in Products : AddItem(p) \/ RemoveItems({p}) \/ OthersBuy(p)
    \/ RemoveItems(Products)
    \/ \E a \in Accounts \cup {Nobody} : Connect(a)
    \/ OpenCheckout \/ FillAddress \/ Freeze \/ LeavePage \/ CloseTab \/ Cancel
    \/ \E r \in Runs : Start(r) \/ RunStep(r) \/ WalletAnswers(r)
    \/ \E request \in serving : Commit(request)
    \/ MineNext \/ \E n \in DOMAIN orders : Indexed(n)

\* Neither the answer of the wallet nor the mining of a transaction is assumed.
Fairness == \A r \in Runs : WF_vars(RunStep(r))

Spec == Init /\ [][Next]_vars /\ Fairness
-------------------------------------------------------------------------------
(***************************************************************************)
(* Properties.                                                             *)
(***************************************************************************)
TypeOK ==
    /\ \A p \in Products : cart[p] \in 0..MaxUnits /\ token[p] \in 0..MaxUnits
    /\ phase \in {"idle", "allowance", "executing"} \cup Terminal
    /\ \A p \in Products :
          status[p] \in {"pending", "creating", "funding", "success", "error", "canceled"}
    /\ \A r \in Runs : run[r].pc \in {"off", "preflight", "allowance", "approve", "create",
                                      "fund", "snapshot", "finalize",
                                      "retry", "answer", "ended"} \cup Asking
    /\ allowance \in Nat /\ balance \in Nat /\ \A p \in Products : stock[p] \in Nat

\* A second activation of start() passed its first guard before the first one set the
\* ref.  The comment of startedRef says that start() is idempotent within one visit;
\* these are the behaviours in which it is not, and each activation orders and pays for
\* itself.  What is said of a screen or of a charge is said of all the others.
Raced == "raced" \in faults

Funded(p) == {n \in DOMAIN orders : orders[n].product = p /\ orders[n].status = "Funded"}

Paid(p) == SumFunctionOnSet([n \in DOMAIN orders |-> orders[n].qty], Funded(p))

\* CheckoutSellerStatus shows why a payment has no known end; its link is on screen.
OpenEnded(p) == failure[p] = "no receipt"

\* What the last screen of a checkout tells is so.  A seller shown as paid has exactly
\* one funded order of the locked quantity and no payment under way; one shown as
\* canceled, rejected or reverted has no funded order and no payment under way; and one
\* whose wait failed, which the screen says and never as a revert, has at most one of
\* the two, of the locked quantity.
LastScreenIsTrue ==
    PageOpen /\ phase \in Terminal /\ ~Raced =>
        \A p \in Groups :
            LET payments == Cardinality(FundedNow(p)) + Cardinality(StillPaying(p))
            IN  /\ CASE status[p] = "success" -> payments = 1 /\ StillPaying(p) = {}
                     [] status[p] = "error" /\ OpenEnded(p) -> payments <= 1
                     [] OTHER -> payments = 0
                /\ \A n \in FundedNow(p) : orders[n].qty = token[p]
                /\ \A n \in StillPaying(p) : pool[n].amount = token[p]

\* After "Cancel remaining" the wallet is asked for nothing more: a create or a fund
\* whose prompt is open may still be confirmed, but no other prompt follows.
CancelAsksNothingMore ==
    [][cancelled /\ cancelled' =>
          \A r \in Runs : run'[r].pc \in Asking => UNCHANGED run[r].pc]_vars

\* Over all checkouts of the device a unit put in the cart is paid at most once, and
\* once more at most for every unit whose payment no page saw the end of: because its
\* wait failed, or because the page died before it took the paid units out of the cart.
ChargedOncePerUnit == ~Raced => \A p \in Products : Paid(p) <= wished[p] + lost[p]

\* The dots of CheckoutProgressStepper.
Steps ==
    [approve |-> IF phase = "allowance" THEN "current" ELSE "done",
     pay     |-> CASE phase = "allowance" -> "pending" [] phase = "executing" -> "current"
                   [] OTHER -> "done",
     done    |-> IF phase \in {"success", "partial"} THEN "done" ELSE "pending"]

\* What CheckoutSellerStatus calls an order that is paid.
ShownPaid(p) == status[p] = "success"

\* The progress shown never runs ahead of the chain.  Once the approval is shown as
\* done the allowance covers every order still to be funded, so none is short of it,
\* unless an earlier page left a transaction behind; and a seller shown as paid is.
ProgressIsTrue ==
    PageOpen /\ phase \in {"allowance", "executing"} =>
        /\ \A p \in Groups : ShownPaid(p) => FundedNow(p) # {}
        /\ Steps.approve = "done" /\ ~Raced /\ (\A p \in DOMAIN lost : lost[p] = 0) =>
              allowance >= Sum(token) - Sum([p \in Products |-> IF FundedNow(p) # {} THEN token[p] ELSE 0])

\* Stock is taken only for orders that are paid, and once for each, whatever answer of
\* finalize_cart is lost and however often Pay is tapped.
StockOnlyForPaid ==
    \A p \in Products : stock[p] >= Stock0[p] - Paid(p) - (IF "others" \in faults THEN 1 ELSE 0)

\* A connected account never sees the items another account put in the cart of the
\* same device.
CartIsPrivate == connected # Nobody => addedBy \subseteq {connected, Nobody}

\* A checkout in progress reaches a last screen, whatever is rejected, reverted or
\* cancelled on the way and whether or not its transactions are mined; only the buyer
\* can hold it up, by never answering the wallet.
CheckoutEnds ==
    [](InProgress => <>(~InProgress \/ [](\E r \in Runs : run[r].pc \in Asking)))

\* What the page shows on the way is so: its progress, and whose cart it is.
PageIsHonest == TypeOK /\ ProgressIsTrue /\ CartIsPrivate

\* A run ends, and a cancelled one without asking for more.
RunsEnd == CancelAsksNothingMore /\ CheckoutEnds
===============================================================================
