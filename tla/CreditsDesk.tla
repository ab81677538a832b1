------------------------------ MODULE CreditsDesk ------------------------------
(***************************************************************************)
(* A seller's credits: the dialog that buys a pack (BuyCreditsDialog.tsx,  *)
(* useBuyCredits.ts, EtaloCredits.sol), the balance on display and its     *)
(* reconciliation (useCreditsBalance.ts, CreditsChip.tsx,                  *)
(* CreditsBalance.tsx), the images that spend credits (MarketingTab.tsx),  *)
(* and the ledger of the backend (credit_service.py, marketing.py, the     *)
(* handler of CreditsPurchased), whose routes are asynchronous: between    *)
(* two awaits another request runs.                                        *)
(*                                                                         *)
(* The ledger is the count of its rows by source.  "here" is the page of   *)
(* the model, "there" another device of the same seller.                   *)
(***************************************************************************)
EXTENDS Integers, Sequences, FiniteSets

CONSTANTS
    Bonus,         \* WELCOME_BONUS_CREDITS
    Pack,          \* credits of a purchase
    Budgets,       \* bounds on the purchases signed and the images asked for
    MaxPackTxs,    \* bound on the wallet's transactions waiting to be mined
    Ticks          \* RECONCILE_MAX_ATTEMPTS

ASSUME CreditsDeskAssumption ==
    /\ {Bonus, Pack, Ticks} \subseteq Nat \ {0} /\ MaxPackTxs \in Nat /\ Budgets \subseteq [packs : Nat, images : Nat]

Devices == {"here", "there"}
Unknown == -100     \* no balance in the cache

VARIABLES
    packAllowed,   \* the allowance covers a pack
    packPool,      \* the wallet's transactions not yet mined: function, and whether awaited
    receipt,       \* of the transaction the hook waits for: "none", "success" or "reverted"
    packs,         \* purchases on the chain
    ledger,        \* rows by source: welcome_bonus, purchase, image_consumption
    granting,      \* requests that have found no row and will insert the bonus
    dialog,        \* "closed", or the phase of the hook behind the open dialog
    told,          \* purchases the page has called confirmed
    cache,         \* the balance on display
    answer,        \* the balance a query under way brings back
    reconciling,   \* the reconciliations under way: the balance each waits for, its ticks left
    image,         \* where each device's request for an image is
    budget,        \* the purchases and the images left to ask for
    chosen         \* a product and a template are chosen in the tab

ledgerVars == <<packs, ledger, granting>>
poolVars == <<packAllowed, packPool, receipt>>
balanceVars == <<cache, answer, reconciling>>
imageVars == <<image, budget, chosen>>
dialogVars == <<dialog, told>>
creditsVars == <<ledgerVars, poolVars, balanceVars, imageVars, dialogVars>>

CreditsInit ==
    /\ packAllowed = FALSE /\ packPool = <<>> /\ receipt = "none" /\ packs = 0
    /\ ledger = [bonus |-> 0, packs |-> 0, spent |-> 0] /\ granting = 0
    /\ dialog = "closed" /\ told = 0
    /\ cache = Unknown /\ answer = Unknown /\ reconciling = {}
    /\ image = [d \in Devices |-> "off"] /\ budget \in Budgets /\ chosen = FALSE
-------------------------------------------------------------------------------
(***************************************************************************)
(* The ledger.                                                             *)
(***************************************************************************)
\* get_balance.
Balance == Bonus * ledger.bonus + Pack * ledger.packs - ledger.spent

NoRows == ledger = [bonus |-> 0, packs |-> 0, spent |-> 0]

\* grant_welcome_bonus_if_first: any request of the seller, of either device, and between
\* its two awaits the other's.
FindsNoRow ==
    /\ NoRows /\ granting < Cardinality(Devices) /\ granting' = granting + 1
    /\ UNCHANGED <<packs, ledger, poolVars, balanceVars, imageVars, dialogVars>>

GrantsBonus ==
    /\ granting > 0 /\ granting' = granting - 1 /\ ledger' = [ledger EXCEPT !.bonus = @ + 1]
    /\ UNCHANGED <<packs, poolVars, balanceVars, imageVars, dialogVars>>

\* Mutant: a seller has one row of a source, so that a second purchase is taken for the first.
UnmirroredFirst == packs > 0 /\ ledger.packs = 0

\* handle_credits_purchased, once per transaction.
Unmirrored == ledger.packs < packs

MirrorsPack ==
    /\ Unmirrored /\ ledger' = [ledger EXCEPT !.packs = @ + 1]
    /\ UNCHANGED <<packs, granting, poolVars, balanceVars, imageVars, dialogVars>>
-------------------------------------------------------------------------------
(***************************************************************************)
(* Buying a pack.                                                          *)
(***************************************************************************)
Signing == {"approving", "purchasing"}
AwaitingReceipt == {"awaitingApproveReceipt", "awaitingPurchaseReceipt"}

\* The dialog moves on to a phase of the hook.
Phase(ph) == dialog' = ph /\ UNCHANGED <<ledgerVars, image, chosen>>

OpenDialog ==
    /\ dialog = "closed" /\ Phase("idle") /\ UNCHANGED <<budget, told, poolVars, balanceVars>>

\* handleBuy.  Bound: Budgets.
Buy ==
    /\ dialog \in {"idle", "canceled"} /\ budget.packs > 0
    /\ Phase("checkingAllowance") /\ UNCHANGED <<budget, told, poolVars, balanceVars>>

ReadsPackAllowance ==
    /\ dialog = "checkingAllowance" /\ Phase(IF packAllowed THEN "purchasing" ELSE "approving")
    /\ UNCHANGED <<budget, told, poolVars, balanceVars>>

\* A purchase without an allowance does not pass its estimation.
PackEstimated == dialog = "purchasing" => packAllowed

SignsPack ==
    /\ dialog \in Signing /\ PackEstimated /\ Len(packPool) < MaxPackTxs
    /\ packPool' = Append(packPool, [fn |-> dialog, awaited |-> TRUE]) /\ receipt' = "none"
    /\ budget' = [budget EXCEPT !.packs = @ - (IF dialog = "purchasing" THEN 1 ELSE 0)]
    /\ Phase(IF dialog = "approving" THEN "awaitingApproveReceipt" ELSE "awaitingPurchaseReceipt")
    /\ UNCHANGED <<told, packAllowed, balanceVars>>

RejectsPack ==
    /\ dialog \in Signing /\ Phase("canceled") /\ UNCHANGED <<budget, told, poolVars, balanceVars>>

\* The head of the pool is mined; a purchase takes the allowance.
MinesPack ==
    LET tx == Head(packPool)
        ok == tx.fn = "purchasing" => packAllowed
    IN  /\ packPool # <<>> /\ packPool' = Tail(packPool)
        /\ packAllowed' = (tx.fn = "approving")
        /\ packs' = packs + (IF tx.fn = "purchasing" /\ ok THEN 1 ELSE 0)
        /\ receipt' = IF ~tx.awaited THEN receipt ELSE IF ok THEN "success" ELSE "reverted"
        /\ UNCHANGED <<ledger, granting, balanceVars, imageVars, dialogVars>>

\* A read or an estimation fails, the receipt is 120 s late or says reverted: an error, and
\* nobody waits any more for what is in the pool.
BuyFails ==
    /\ \/ dialog \in {"checkingAllowance"} \cup AwaitingReceipt /\ receipt # "success"
       \/ dialog = "purchasing" /\ ~PackEstimated
    /\ packPool' = [i \in DOMAIN packPool |-> [packPool[i] EXCEPT !.awaited = FALSE]]
    /\ receipt' = "none" /\ Phase("error")
    /\ UNCHANGED <<budget, told, packAllowed, balanceVars>>

ApproveReceipt ==
    /\ dialog = "awaitingApproveReceipt" /\ receipt = "success"
    /\ receipt' = "none" /\ Phase("purchasing")
    /\ UNCHANGED <<budget, told, packAllowed, packPool, balanceVars>>

\* Mutant: a receipt that does not come is taken for a success.
PurchaseUnawaited == receipt # "reverted"

PurchaseReceipt == receipt = "success"

Optimistic == (IF cache = Unknown THEN 0 ELSE cache) + Pack

\* The effect of "success": the balance on display grows at once, and a reconciliation begins.
Purchased ==
    /\ dialog = "awaitingPurchaseReceipt" /\ PurchaseReceipt
    /\ receipt' = "none" /\ Phase("success") /\ told' = told + 1
    /\ cache' = Optimistic
    /\ reconciling' = reconciling \cup {[target |-> Optimistic, left |-> Ticks]}
    /\ UNCHANGED <<budget, packAllowed, packPool, answer>>

Retry == dialog = "error" /\ Phase("idle") /\ UNCHANGED <<budget, told, poolVars, balanceVars>>

\* Cancel, Close and Done; there is no closing in flight.
Close ==
    /\ dialog \in {"idle", "canceled", "error", "success"}
    /\ Phase("closed") /\ UNCHANGED <<budget, told, poolVars, balanceVars>>

BuyStep ==
    ReadsPackAllowance \/ SignsPack \/ RejectsPack \/ BuyFails \/ ApproveReceipt \/ Purchased
-------------------------------------------------------------------------------
(***************************************************************************)
(* The balance on display.                                                 *)
(***************************************************************************)
\* GET /sellers/me/credits/balance: the query goes out when it is mounted, every 30 s, when
\* the window regains the focus, and when an image, a refusal or the Done of the marketing
\* tab has invalidated it.  The route grants the bonus before it reads.
BalanceRead ==
    /\ answer = Unknown /\ ~NoRows /\ answer' = Balance
    /\ UNCHANGED <<cache, reconciling, ledgerVars, poolVars, imageVars, dialogVars>>

BalanceArrives ==
    /\ answer # Unknown /\ cache' = answer /\ answer' = Unknown
    /\ UNCHANGED <<reconciling, ledgerVars, poolVars, imageVars, dialogVars>>

LaterTick(p) ==
    (reconciling \ {p}) \cup (IF p.left = 1 THEN {} ELSE {[p EXCEPT !.left = @ - 1]})

\* A tick of a reconciliation adopts the balance when it has caught up, or at the last one.
Tick(p) ==
    /\ ~NoRows
    /\ IF Balance >= p.target \/ p.left = 1
       THEN cache' = Balance /\ reconciling' = reconciling \ {p}
       ELSE cache' = cache /\ reconciling' = LaterTick(p)
    /\ UNCHANGED <<answer, ledgerVars, poolVars, imageVars, dialogVars>>

\* A tick whose request fails keeps the balance shown; the last one gives up.
TickFails(p) ==
    /\ reconciling' = LaterTick(p)
    /\ UNCHANGED <<cache, answer, ledgerVars, poolVars, imageVars, dialogVars>>
-------------------------------------------------------------------------------
(***************************************************************************)
(* Spending a credit.                                                      *)
(***************************************************************************)
\* ProductPicker and TemplateSelector.
Choose ==
    /\ ~chosen /\ chosen' = TRUE
    /\ UNCHANGED <<image, budget, ledgerVars, poolVars, balanceVars, dialogVars>>

\* canGenerate, of the page of the model.
CanGenerate == chosen /\ cache >= 1

\* handleGenerate: one request of a device at a time.  Bound: Budgets.
AsksImage(d) ==
    /\ image[d] = "off" /\ budget.images > 0
    /\ budget' = [budget EXCEPT !.images = @ - 1]
    /\ d = "here" => CanGenerate
    /\ image' = [image EXCEPT ![d] = "asked"]
    /\ UNCHANGED <<chosen, ledgerVars, poolVars, balanceVars, dialogVars>>

\* The request of d goes on to its next await, or ends without an image ("off").
Proceeds(d, at) ==
    /\ image' = [image EXCEPT ![d] = at]
    /\ UNCHANGED <<budget, chosen, ledgerVars, poolVars, balanceVars, dialogVars>>

\* The pre-flight gate, before the image is rendered: 402 when there is no credit.
CreditPreflight(d) ==
    /\ image[d] = "asked" /\ ~NoRows
    /\ Proceeds(d, IF Balance < 1 THEN "off" ELSE "rendering")

RenderFails(d) == image[d] = "rendering" /\ Proceeds(d, "off")

\* consume_credits reads the balance again; too little of it rolls the image back ...
ReadsCredit(d) ==
    image[d] = "rendering" /\ Proceeds(d, IF Balance < 1 THEN "off" ELSE "consuming")

\* ... otherwise the image and the row of its credit are committed together.
Consumes(d) ==
    /\ image[d] = "consuming" /\ image' = [image EXCEPT ![d] = "off"]
    /\ ledger' = [ledger EXCEPT !.spent = @ + 1]
    /\ UNCHANGED <<packs, granting, budget, chosen, balanceVars, poolVars, dialogVars>>

ImageStep(d) == CreditPreflight(d) \/ RenderFails(d) \/ ReadsCredit(d) \/ Consumes(d)
-------------------------------------------------------------------------------
CreditsNext ==
    \/ FindsNoRow \/ GrantsBonus \/ MirrorsPack \/ MinesPack
    \/ OpenDialog \/ Buy \/ BuyStep \/ Retry \/ Close
    \/ BalanceRead \/ BalanceArrives \/ Choose
    \/ \E p \in reconciling : Tick(p) \/ TickFails(p)
    \/ \E d \in Devices : AsksImage(d) \/ ImageStep(d)

\* Blocks are mined, the indexer polls, requests settle, and the query polls every 30 s.
CreditsFairness ==
    /\ WF_creditsVars(MinesPack) /\ WF_creditsVars(MirrorsPack) /\ WF_creditsVars(GrantsBonus)
    /\ WF_creditsVars(BalanceRead) /\ WF_creditsVars(BalanceArrives)
    /\ WF_creditsVars(\E p \in reconciling : Tick(p) \/ TickFails(p))
    /\ \A d \in Devices : WF_creditsVars(ImageStep(d))
-------------------------------------------------------------------------------
(***************************************************************************)
(* Properties.                                                             *)
(***************************************************************************)
\* What the page has called a confirmed purchase is on the chain, and the ledger holds no
\* purchase twice, whatever was lost, late or retried on the way.
CreditsCounted ==
    /\ told <= packs /\ ledger.packs <= packs

\* consume_credits checks the balance and writes its row at two awaits, though its docstring
\* says "atomically": requests that race for the last credit overdraw the ledger by no more than their number
\* but one: the balance read again before the row is written stops all later ones.
OverdrawnByRacesOnly == Balance >= 1 - Cardinality(Devices)

\* Every purchase reaches the ledger, and the balance on display, optimistic for a while,
\* comes to be the ledger's.
BalanceSettles == <>[](ledger.packs = packs /\ cache \in {Balance, Unknown})
===============================================================================
