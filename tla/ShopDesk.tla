------------------------------- MODULE ShopDesk -------------------------------
(***************************************************************************)
(* Opening a shop: the gates of the seller's dashboard                     *)
(* (SellerDashboardInner.tsx), the form it shows a wallet without a shop   *)
(* (CreateShopForm.tsx), the payment of the creation fee                   *)
(* (useBoutiqueCreationFee.ts, EtaloBoutiqueBilling.sol), and the          *)
(* onboarding route behind its gate (onboarding.py, boutique_billing.py).  *)
(*                                                                         *)
(* onSubmit and onPayAndCreate are asynchronous: an activation of one of   *)
(* them is a run, one step between two awaits.  A run holds the wallet and *)
(* the handle it started with, and goes on when its form is gone, with     *)
(* nothing left to tell; what it still does is hand a created shop to the  *)
(* dashboard.  A reload of the page ends every run, not the transactions.  *)
(***************************************************************************)
EXTENDS Integers, Sequences, FiniteSets

CONSTANTS
    Wallets,
    Shopkeepers,  \* the wallets that have a shop to begin with
    NoWallet,
    ShopRuns,     \* the runs that may be under way at once
    FeeTries,     \* creations tried after a payment: the delays 0, 4, 8, 12 and 20 s
    MaxFeeTxs     \* bound on the transactions waiting to be mined

ASSUME ShopDeskAssumption ==
    /\ Shopkeepers \subseteq Wallets /\ NoWallet \notin Wallets
    /\ ShopRuns \subseteq Nat \ {0} /\ FeeTries \in Nat \ {0} /\ MaxFeeTxs \in Nat

VARIABLES
    enforced,     \* the free window is over: FEES_ENFORCED_FROM has passed
    feePaid,      \* EtaloBoutiqueBilling.creationPaid
    allowed,      \* the wallets whose allowance covers the fee
    feePool,      \* the transactions not yet mined: function, wallet, the run that waits
    mirrored,     \* the wallets with a row in boutique_billing
    taken,        \* a stranger holds the handle the seller would like
    shops,        \* the wallets with a SellerProfile
    conn,         \* "off", "on", or "blink": connected, its address not known for a moment
    wallet,       \* useAccount().address, the last one known
    profile,      \* whose profile the dashboard holds
    profileError, profileLoading,
    profileAsked, \* GET /sellers/me is on its way, its effect not cleaned up
    form,         \* the state of the mounted form
    shopRun,      \* where each run is
    reloading     \* a reload of the page is scheduled

feeVars == <<enforced, feePaid, allowed, feePool, mirrored, taken, shops>>
dashVars == <<conn, wallet, profile, profileError, profileLoading, profileAsked>>
shopVars == <<feeVars, dashVars, form, shopRun, reloading>>

\* `fee' tells a form that has been asked for the fee; `run' is its own run, 0 when none.
NewForm == [fee |-> FALSE, phase |-> "idle", handle |-> "wish", rejected |-> FALSE, run |-> 0]
NoRun == [at |-> "off", wallet |-> NoWallet, handle |-> "wish", try |-> 0, got |-> "nothing"]

ShopInit ==
    /\ enforced \in BOOLEAN /\ feePaid = {} /\ allowed = {} /\ feePool = <<>>
    /\ mirrored = {} /\ taken = FALSE /\ shops = Shopkeepers
    /\ conn = "off" /\ wallet = NoWallet /\ profile = NoWallet
    /\ profileError = "none" /\ profileLoading = FALSE /\ profileAsked = FALSE
    /\ form = NewForm /\ shopRun = [r \in ShopRuns |-> NoRun] /\ reloading = FALSE
-------------------------------------------------------------------------------
(***************************************************************************)
(* The dashboard.                                                          *)
(***************************************************************************)
\* The render gates, in their order.
Screen ==
    CASE conn = "off" \/ (conn = "blink" /\ profile = NoWallet) -> "connect"
      [] profileLoading -> "skeleton"
      [] profileError = "not_found" -> "form"
      [] profileError = "fetch_failed" \/ profile = NoWallet -> "retry"
      [] OTHER -> "dashboard"

\* The form keeps its state while it stays on the screen.
FormKept == IF Screen = "form" /\ Screen' = "form" THEN form ELSE NewForm

\* The effect of an address: the profile is fetched, that of the last address kept till then.
Connects(w) ==
    /\ conn # "on" \/ wallet # w
    /\ conn' = "on" /\ wallet' = w /\ profileLoading' = TRUE /\ profileAsked' = TRUE
    /\ UNCHANGED <<feeVars, profile, profileError, shopRun, reloading>>
    /\ form' = FormKept

Disconnects ==
    /\ conn # "off" /\ conn' = "off" /\ profileLoading' = FALSE /\ profileAsked' = FALSE
    /\ UNCHANGED <<feeVars, wallet, profile, profileError, shopRun, reloading>>
    /\ form' = FormKept

\* The connector loses the address for a moment: the fetch is cancelled, the rest is kept.
AddressBlinks ==
    /\ conn = "on" /\ conn' = "blink" /\ profileAsked' = FALSE
    /\ UNCHANGED <<feeVars, wallet, profile, profileError, profileLoading, shopRun, reloading>>
    /\ form' = FormKept

ProfileSettles ==
    /\ profileAsked /\ profileAsked' = FALSE /\ profileLoading' = FALSE
    /\ UNCHANGED <<feeVars, conn, wallet, shopRun, reloading>>

ProfileArrives ==
    /\ ProfileSettles
    /\ IF wallet \in shops THEN profile' = wallet /\ profileError' = "none"
                          ELSE profileError' = "not_found" /\ UNCHANGED profile
    /\ form' = FormKept

ProfileFails ==
    /\ ProfileSettles /\ profileError' = "fetch_failed" /\ UNCHANGED profile
    /\ form' = FormKept

\* After 10 s the skeleton gives way to Retry; a later answer still counts.
WatchdogFires ==
    /\ profileAsked /\ profileLoading
    /\ profileError' = "fetch_failed" /\ profileLoading' = FALSE
    /\ UNCHANGED <<feeVars, conn, wallet, profile, profileAsked, shopRun, reloading>>
    /\ form' = FormKept

\* window.location.reload, by the seller, by Retry, or 1.2 s after "already has a shop".
Reload ==
    /\ conn' = "off" /\ profile' = NoWallet /\ wallet' = NoWallet
    /\ profileError' = "none" /\ profileLoading' = FALSE /\ profileAsked' = FALSE
    /\ form' = NewForm /\ shopRun' = [r \in ShopRuns |-> NoRun] /\ reloading' = FALSE
    /\ feePool' = [i \in DOMAIN feePool |-> [feePool[i] EXCEPT !.run = 0]]
    /\ UNCHANGED <<enforced, feePaid, allowed, mirrored, taken, shops>>
-------------------------------------------------------------------------------
(***************************************************************************)
(* The form.                                                               *)
(***************************************************************************)
Ended(r) == [shopRun EXCEPT ![r] = NoRun]
Stands(r, at) == [shopRun EXCEPT ![r].at = at, ![r].got = "nothing"]

\* What a run tells its form, if the form is still there.
Tells(r, told) == IF form.run = r THEN told ELSE form

\* The fields are disabled while a creation is submitted, not while one is paid for.  The
\* seller types the handle wished for first, and settles for another.
EditHandle ==
    /\ Screen = "form" /\ form.handle = "wish"
    /\ form.run # 0 => shopRun[form.run].try > 0
    /\ form' = [form EXCEPT !.handle = "other", !.rejected = FALSE]
    /\ UNCHANGED <<feeVars, dashVars, shopRun, reloading>>

Starts(r, at, try) ==
    /\ Screen = "form" /\ form.run = 0 /\ shopRun[r] = NoRun
    /\ shopRun' = [shopRun EXCEPT ![r] = [NoRun EXCEPT !.at = at, !.wallet = wallet,
                                                       !.handle = form.handle, !.try = try]]
    /\ form' = [form EXCEPT !.run = r, !.rejected = FALSE, !.phase = "idle"]
    /\ UNCHANGED <<feeVars, dashVars, reloading>>

\* onSubmit: the button is there until the backend has asked for the fee.
Submit(r) == ~form.fee /\ Starts(r, "create", 0)

\* busyFee: a payment that succeeded keeps the button busy, whatever became of the creation.
PayOffered == form.fee /\ form.run = 0 /\ form.phase # "success"

\* onPayAndCreate: reset, then pay().
Pay(r) == PayOffered /\ Starts(r, "checkingAllowance", 1)

ReadsAllowance(r) ==
    /\ shopRun[r].at = "checkingAllowance"
    /\ shopRun' = Stands(r, IF shopRun[r].wallet \in allowed THEN "paying" ELSE "approving")
    /\ UNCHANGED <<feeVars, dashVars, form, reloading>>

\* What the estimation of a transaction accepts: payCreationFee is once per wallet.
Estimated(r) ==
    shopRun[r].at = "paying" => shopRun[r].wallet \in allowed \ feePaid

Signs(r) ==
    /\ shopRun[r].at \in {"approving", "paying"} /\ Estimated(r) /\ Len(feePool) < MaxFeeTxs
    /\ feePool' = Append(feePool, [fn |-> shopRun[r].at, wallet |-> shopRun[r].wallet, run |-> r])
    /\ shopRun' = Stands(r, IF shopRun[r].at = "approving" THEN "awaitingApproveReceipt"
                                                           ELSE "awaitingPayReceipt")
    /\ UNCHANGED <<enforced, feePaid, allowed, mirrored, taken, shops, dashVars, form, reloading>>

Rejects(r) ==
    /\ shopRun[r].at \in {"approving", "paying"}
    /\ shopRun' = Ended(r) /\ form' = Tells(r, [form EXCEPT !.run = 0, !.phase = "canceled"])
    /\ UNCHANGED <<feeVars, dashVars, reloading>>

Awaiting(r) == shopRun[r].at \in {"awaitingApproveReceipt", "awaitingPayReceipt"}

\* pay() throws: a read or an estimation fails, the receipt is late or says reverted.  The
\* transaction nobody waits for any more stays in the pool.
PayFails(r) ==
    /\ \/ shopRun[r].at = "checkingAllowance"
       \/ shopRun[r].at \in {"approving", "paying"} /\ ~Estimated(r)
       \/ Awaiting(r) /\ shopRun[r].got # "success"
    /\ shopRun' = Ended(r) /\ form' = Tells(r, [form EXCEPT !.run = 0, !.phase = "error"])
    /\ feePool' = [i \in DOMAIN feePool |->
                     IF feePool[i].run = r THEN [feePool[i] EXCEPT !.run = 0] ELSE feePool[i]]
    /\ UNCHANGED <<enforced, feePaid, allowed, mirrored, taken, shops, dashVars, reloading>>

\* Mutant: a receipt that does not come is taken for a success.
ReceiptUnawaited(r) == shopRun[r].got # "reverted"

ReceiptIsGood(r) == shopRun[r].got = "success"

FeeReceipt(r) ==
    /\ Awaiting(r) /\ ReceiptIsGood(r)
    /\ shopRun' = Stands(r, IF shopRun[r].at = "awaitingApproveReceipt" THEN "paying" ELSE "create")
    /\ form' = IF shopRun[r].at = "awaitingPayReceipt"
               THEN Tells(r, [form EXCEPT !.phase = "success"]) ELSE form
    /\ UNCHANGED <<feeVars, dashVars, reloading>>
-------------------------------------------------------------------------------
(***************************************************************************)
(* POST /onboarding/complete, and what the form makes of its answer.       *)
(***************************************************************************)
GateOpen(w) == enforced => w \in mirrored

HandleTaken(r) == shopRun[r].handle = "wish" /\ taken

\* Tried again after a payment until the delays are used up; then "please refresh".
FeeRequired(r) ==
    /\ shopRun[r].at = "create" /\ ~GateOpen(shopRun[r].wallet)
    /\ IF shopRun[r].try \in 1 .. FeeTries - 1
       THEN shopRun' = [shopRun EXCEPT ![r].try = @ + 1] /\ form' = form
       ELSE shopRun' = Ended(r) /\ form' = Tells(r, [form EXCEPT !.run = 0, !.fee = TRUE])
    /\ UNCHANGED <<feeVars, dashVars, reloading>>

Refuses(r) ==
    /\ shopRun[r].at = "create" /\ GateOpen(shopRun[r].wallet) /\ HandleTaken(r)
    /\ shopRun' = Ended(r) /\ form' = Tells(r, [form EXCEPT !.run = 0, !.rejected = TRUE])
    /\ UNCHANGED <<feeVars, dashVars, reloading>>

HasShop(r) ==
    /\ shopRun[r].at = "create" /\ GateOpen(shopRun[r].wallet) /\ ~HandleTaken(r)
    /\ shopRun[r].wallet \in shops /\ reloading' = TRUE
    /\ shopRun' = Ended(r) /\ form' = Tells(r, [form EXCEPT !.run = 0])
    /\ UNCHANGED <<feeVars, dashVars>>

\* The shop is created, and handed to whatever the dashboard shows by now.
Creates(r) ==
    /\ shopRun[r].at = "create" /\ GateOpen(shopRun[r].wallet) /\ ~HandleTaken(r)
    /\ shopRun[r].wallet \notin shops /\ shops' = shops \cup {shopRun[r].wallet}
    /\ shopRun' = Ended(r) /\ profile' = shopRun[r].wallet /\ profileError' = "none"
    /\ UNCHANGED <<enforced, feePaid, allowed, feePool, mirrored, taken, conn, wallet,
                   profileLoading, profileAsked, reloading>>
    /\ form' = FormKept

\* The request fails, before the shop is created or, with its answer lost, after.
CreateFails(r) ==
    /\ shopRun[r].at = "create"
    /\ \/ UNCHANGED shops
       \/ /\ GateOpen(shopRun[r].wallet) /\ ~HandleTaken(r)
          /\ shops' = shops \cup {shopRun[r].wallet}
    /\ shopRun' = Ended(r) /\ form' = Tells(r, [form EXCEPT !.run = 0])
    /\ UNCHANGED <<enforced, feePaid, allowed, feePool, mirrored, taken, dashVars, reloading>>
-------------------------------------------------------------------------------
(***************************************************************************)
(* The chain, its mirror, and the others.                                  *)
(***************************************************************************)
MinesFee ==
    LET tx == Head(feePool)
        ok == tx.fn = "paying" => tx.wallet \in allowed \ feePaid
    IN  /\ feePool # <<>> /\ feePool' = Tail(feePool)
        /\ IF tx.fn = "approving"
           THEN allowed' = allowed \cup {tx.wallet} /\ UNCHANGED feePaid
           ELSE IF ok THEN feePaid' = feePaid \cup {tx.wallet} /\ allowed' = allowed \ {tx.wallet}
                      ELSE UNCHANGED <<feePaid, allowed>>
        /\ shopRun' = IF tx.run = 0 THEN shopRun
                      ELSE [shopRun EXCEPT ![tx.run].got = IF ok THEN "success" ELSE "reverted"]
        /\ UNCHANGED <<enforced, mirrored, taken, shops, dashVars, form, reloading>>

\* Mutant: the row is written under another spelling of the address.
FeeRowMisspelt(w) == {}

FeeRow(w) == {w}

MirrorsFee(w) ==
    /\ w \in feePaid \ mirrored /\ mirrored' = mirrored \cup FeeRow(w)
    /\ UNCHANGED <<enforced, feePaid, allowed, feePool, taken, shops, dashVars, form, shopRun, reloading>>

WindowElapses ==
    /\ ~enforced /\ enforced' = TRUE
    /\ UNCHANGED <<feePaid, allowed, feePool, mirrored, taken, shops, dashVars, form, shopRun, reloading>>

StrangerTakesHandle ==
    /\ ~taken /\ taken' = TRUE
    /\ UNCHANGED <<enforced, feePaid, allowed, feePool, mirrored, shops, dashVars, form, shopRun, reloading>>

ShopRunStep(r) ==
    \/ ReadsAllowance(r) \/ Signs(r) \/ Rejects(r) \/ PayFails(r) \/ FeeReceipt(r)
    \/ FeeRequired(r) \/ Refuses(r) \/ HasShop(r) \/ Creates(r) \/ CreateFails(r)

ShopNext ==
    \/ \E w \in Wallets : Connects(w) \/ MirrorsFee(w)
    \/ Disconnects \/ AddressBlinks \/ ProfileArrives \/ ProfileFails \/ WatchdogFires \/ Reload
    \/ EditHandle
    \/ \E r \in ShopRuns : Submit(r) \/ Pay(r) \/ ShopRunStep(r)
    \/ MinesFee \/ WindowElapses \/ StrangerTakesHandle
-------------------------------------------------------------------------------
(***************************************************************************)
(* What the page leaves the seller to do: the seller connects, again after *)
(* a reload, submits what can be submitted, tries another handle when one  *)
(* is taken, and reloads a page that offers nothing else or has failed to  *)
(* load.  The runs and the watchdog are the page's; an address that blinks *)
(* returns, and a request does not fail forever.                           *)
(***************************************************************************)
NothingOffered ==
    \/ Screen = "retry" \/ reloading
    \/ Screen = "form" /\ form.fee /\ form.run = 0

SellerConnects == conn # "on" /\ \E w \in Wallets : Connects(w)

SellerGoesOn ==
    \/ NothingOffered /\ Reload
    \/ form.rejected /\ ~form.fee /\ EditHandle

\* What loses the form although it offers something, or the run its form.
SellerLeaves == Disconnects \/ AddressBlinks \/ (~NothingOffered /\ Reload)

ShopFairness ==
    /\ \A r \in ShopRuns : WF_shopVars(ShopRunStep(r))
    /\ WF_shopVars(MinesFee) /\ \A w \in Wallets : WF_shopVars(MirrorsFee(w))
    /\ \A r \in ShopRuns : SF_shopVars(Creates(r) \/ HasShop(r)) /\ SF_shopVars(Refuses(r))
    /\ WF_shopVars(SellerConnects) /\ SF_shopVars(ProfileArrives) /\ WF_shopVars(WatchdogFires)
    /\ SF_shopVars(SellerGoesOn) /\ WF_shopVars(~form.rejected /\ \E r \in ShopRuns : Submit(r))

-------------------------------------------------------------------------------
(***************************************************************************)
(* Properties.                                                             *)
(***************************************************************************)
\* A payment the form calls done has been made: the shop is asked for again only when the
\* fee is on the chain, although a payment nobody waited for may have been mined before.
PaymentsReported ==
    \A r \in ShopRuns : shopRun[r].at = "create" /\ shopRun[r].try > 0 => shopRun[r].wallet \in feePaid

\* A wallet that has paid the fee gets its shop, whatever was lost, late, or told wrongly in
\* between, unless the seller leaves the page for ever and again: once the retries after a
\* payment are used up, a reload and a plain submission are enough.
PaidShopOpens ==
    []<><<SellerLeaves>>_shopVars \/ \A w \in Wallets : (w \in feePaid) ~> (w \in shops)
===============================================================================
