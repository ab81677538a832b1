------------------------------ MODULE OrderDesk ------------------------------
(***************************************************************************)
(* One order on the screens of its two parties: the buyer's page           *)
(* /orders/[id] (lib/orders/state.ts, BuyerOrderActions, its three buttons *)
(* and hooks/useTxWriteHook.ts) and the Orders tab of the seller           *)
(* (OrdersTab.tsx, MarkGroupShippedDialog, RequestEarlyReleaseDialog,      *)
(* lib/sellerOrderHelpers.ts).                                             *)
(*                                                                         *)
(* The contract is OrderLifecycle; whatever the keepers, the arbiters and  *)
(* the parties' other devices do is one of its steps.  A screen shows the  *)
(* mirror as of its last fetch, and a fetch finds the mirror either where  *)
(* the last one did or caught up with the chain.  A behaviour follows one  *)
(* desk, chosen at the start.                                              *)
(***************************************************************************)
EXTENDS OrderLifecycle, Integers, Sequences, FiniteSets, FiniteSetsExt

CONSTANTS
    order,       \* the order on the screen
    ItemOrder,   \* its items, by item_index
    MaxCalls     \* bound on the transactions a desk has under way at once

Buttons == {"confirm", "claim", "dispute"}
Dialogs == {"ship", "early"}

ASSUME DeskAssumption ==
    /\ order \in Orders /\ OrderOf \in [Items -> Orders] /\ MaxCalls \in Nat
    /\ ItemOrder \in Seq(ItemsIn(order))
    /\ ItemsIn(order) = {ItemOrder[k] : k \in DOMAIN ItemOrder}

VARIABLES
    paused,      \* the escrow is paused
    desk,        \* whose screen this is
    mirror,      \* the mirror as of the latest fetch
    calls,       \* the transactions under way: [do, target, at]
    wallet,      \* useMinipay, as the buyer's page sees it
    loaded,      \* the buyer's query has data
    phase,       \* TxWriteState.phase of each of the buyer's buttons
    shown,       \* the seller's query has data
    syncing,     \* order \in optimisticallyShipped
    dialog       \* shipTarget or earlyReleaseTarget, where its dialog is, the call it waits for

buyerVars == <<wallet, loaded, phase>>
sellerVars == <<shown, syncing, dialog>>
chainVars == <<lifecycleVars, paused>>
vars == <<chainVars, desk, mirror, calls, buyerVars, sellerVars>>

Snapshot == [status |-> orderStatus[order], item |-> [i \in ItemsIn(order) |-> itemStatus[i]]]
NoRow == [status |-> "None", item |-> [i \in ItemsIn(order) |-> "Pending"]]
Slots == 1 .. MaxCalls
NoCall == [do |-> "none", target |-> order, at |-> "free"]
NoDialog == [kind |-> "none", at |-> "closed", call |-> 0]

Init ==
    /\ LifecycleInit /\ paused = FALSE
    /\ desk \in {"buyer", "seller"}
    /\ mirror = NoRow /\ calls = [k \in Slots |-> NoCall]
    /\ wallet = "connecting" /\ loaded = FALSE /\ phase = [b \in Buttons |-> "idle"]
    /\ shown = FALSE
    /\ syncing = FALSE /\ dialog = NoDialog

Fresh == mirror = Snapshot

\* The first item, in the order of the page, that is in S.
FirstOf(S) == LET k == CHOOSE k \in DOMAIN ItemOrder :
                         /\ ItemOrder[k] \in S
                         /\ \A l \in 1 .. k - 1 : ItemOrder[l] \notin S
              IN  ItemOrder[k]
-------------------------------------------------------------------------------
(***************************************************************************)
(* The contract, and what it makes of a call of a desk.                    *)
(***************************************************************************)
\* whenNotPaused gates every call of the two screens but the dispute contract's.
Gated(do) == paused /\ do # "dispute"

Accepts(do, target) ==
    /\ ~Gated(do)
    /\ CASE do = "confirm" -> itemStatus[target] = "Shipped"
         [] do = "claim"   -> /\ orderStatus[order] = "Funded" /\ refundTimer[order] = "due"
                              /\ \A i \in ItemsIn(order) : itemStatus[i] # "Disputed"
         [] do = "dispute" -> Funded(order) /\ itemStatus[target] \notin Done \cup {"Disputed"}
         [] do = "ship"    -> /\ orderStatus[order] \in {"Funded", "PartiallyShipped"}
                              /\ \A i \in ItemsIn(order) : itemStatus[i] = "Pending"

Effect(do, target) ==
    CASE do = "confirm" -> Confirm(order, {target})
      [] do = "claim"   -> AutoRefund(order)
      [] do = "dispute" -> Dispute(target)
      [] do = "ship"    -> Ship(order, ItemsIn(order)) /\ orderStatus'[order] = "AllShipped"

\* Everything else that happens on the chain, the transactions nobody waits for any more
\* included.  A pause leaves the dispute contract, the forced refund and the clocks.
Others ==
    /\ LifecycleNext /\ UNCHANGED <<paused, desk, mirror, calls, buyerVars, sellerVars>>
    /\ paused => \/ TimePasses \/ ForceRefund(order)
                 \/ \E i \in ItemsIn(order) : Dispute(i) \/ \E s \in Done : Resolve(i, s)

\* The owner pauses the escrow, or the pause runs out.  Bound: it matters, and happens,
\* while the order is paid and open.
Pause ==
    /\ Funded(order) /\ orderStatus[order] \notin Closed
    /\ paused' = ~paused
    /\ UNCHANGED <<lifecycleVars, desk, mirror, calls, buyerVars, sellerVars>>

\* A request for early release only moves a timer, earlier than which it may run out in
\* any case; it reverts in a pause, and where the group had one already.
Mine(k) ==
    /\ calls[k].at = "pool" /\ UNCHANGED paused
    /\ IF calls[k].do = "early"
       THEN /\ UNCHANGED lifecycleVars
            /\ \/ ~paused /\ calls' = [calls EXCEPT ![k].at = "took"]
               \/ calls' = [calls EXCEPT ![k].at = "reverted"]
       ELSE IF Accepts(calls[k].do, calls[k].target)
       THEN Effect(calls[k].do, calls[k].target) /\ calls' = [calls EXCEPT ![k].at = "took"]
       ELSE UNCHANGED lifecycleVars /\ calls' = [calls EXCEPT ![k].at = "reverted"]
    /\ UNCHANGED <<desk, mirror, buyerVars, sellerVars>>

\* Bound: at most MaxCalls calls are under way, all of one button.
Ask(do, target) ==
    /\ \E k \in Slots : calls[k] = NoCall
    /\ \A k \in Slots : calls[k].do \in {"none", do}
    /\ calls' = [calls EXCEPT ![Min({k \in Slots : calls[k] = NoCall})] =
                    [do |-> do, target |-> target, at |-> "resolving"]]
-------------------------------------------------------------------------------
(***************************************************************************)
(* The buyer's page.                                                       *)
(***************************************************************************)
Terminal == {"Completed", "Refunded", "Cancelled"}

\* Mutant: an order partly delivered is taken to be at its end.
TransientShort == {"Funded", "PartiallyShipped", "AllShipped", "Disputed"}

Transient == {"Funded", "PartiallyShipped", "AllShipped", "PartiallyDelivered", "Disputed"}
HasItem(row, statuses) == {i \in ItemsIn(order) : row.item[i] \in statuses}

\* Mutant: whatever is not settled may be confirmed.
ConfirmableUnshipped(row) ==
    IF row.status \in Terminal THEN {} ELSE HasItem(row, {"Pending", "Shipped", "Arrived"})

\* getEligibleActions, for the buyer.  Its canCancel and canTriggerAutoRelease are left
\* out: no button asks for them.  The client's clock agrees with the chain's.
Confirmable(row) == IF row.status \in Terminal THEN {} ELSE HasItem(row, {"Shipped", "Arrived"})
Disputable(row) ==
    IF row.status \in Terminal \cup {"None", "Created"} THEN {}
    ELSE HasItem(row, {"Pending", "Shipped", "Arrived", "Delivered"})
Claimable(row) ==
    row.status = "Funded" /\ refundTimer[order] = "due" /\ HasItem(row, {"Disputed"}) = {}

\* BuyerOrderActions: the item each button is about, the order itself for a claim.
Targets(b, row) ==
    CASE b = "confirm" -> Confirmable(row)
      [] b = "dispute" -> Disputable(row)
      [] b = "claim"   -> IF Claimable(row) THEN {order} ELSE {}
Surface == IF wallet # "on" THEN wallet ELSE IF loaded THEN "order" ELSE "loading"
Offered(b, row) == Surface = "order" /\ Targets(b, row) # {}
Target(b, row) == IF b = "claim" THEN order ELSE FirstOf(Targets(b, row))

\* A button that is no longer offered is unmounted, and its hook with it.
Mounted(b) == b \in Buttons /\ loaded' /\ Targets(b, mirror') # {}
Unmount ==
    /\ phase' = [b \in Buttons |-> IF Mounted(b) THEN phase[b] ELSE "idle"]
    /\ calls' = [k \in Slots |-> IF Mounted(calls[k].do) THEN calls[k] ELSE NoCall]

\* A connection may still come after the eight seconds that show Retry.
Connect(w) ==
    /\ desk = "buyer" /\ wallet \in {"connecting", "failed"} \ {w}
    /\ wallet' = w
    /\ UNCHANGED <<chainVars, desk, mirror, calls, loaded, phase, sellerVars>>

RetryConnect ==
    /\ desk = "buyer" /\ wallet = "failed"
    /\ wallet' = "connecting"
    /\ UNCHANGED <<chainVars, desk, mirror, calls, loaded, phase, sellerVars>>

\* What a fetch finds.
Fetched == mirror' \in {mirror, Snapshot}

\* The query's first fetch and the polls: useBuyerOrderDetail polls while the status it
\* shows is transient.
OpenPage ==
    /\ desk = "buyer" /\ wallet = "on" /\ ~loaded
    /\ Fetched /\ mirror'.status # "None"
    /\ loaded' = TRUE
    /\ UNCHANGED <<chainVars, desk, calls, wallet, phase, sellerVars>>

PollPage ==
    /\ desk = "buyer" /\ loaded /\ mirror.status \in Transient
    /\ Fetched
    /\ UNCHANGED <<loaded, wallet>>
    /\ Unmount
    /\ UNCHANGED <<chainVars, desk, sellerVars>>

\* The focus comes back, or the page is opened again.
RefetchPage ==
    /\ desk = "buyer" /\ loaded
    /\ Fetched
    /\ UNCHANGED <<loaded, wallet>>
    /\ Unmount
    /\ UNCHANGED <<chainVars, desk, sellerVars>>

\* ConfirmDeliveryButton and ClaimRefundButton hold inFlight from the click until run()
\* returns; the form of OpenDisputeButton is there in the phases idle and error only.
InFlight(b) == b # "dispute" /\ \E k \in Slots : calls[k].do = b
MayPress(b) == phase[b] \in {"idle", "error"} /\ ~InFlight(b)

Press(b) ==
    /\ desk = "buyer" /\ Offered(b, mirror) /\ MayPress(b)
    /\ Ask(b, Target(b, mirror))
    /\ phase' = [phase EXCEPT ![b] = IF b = "dispute" THEN @ ELSE "idle"]
    /\ UNCHANGED <<chainVars, desk, mirror, wallet, loaded, sellerVars>>

\* The dispute dialog is closed: reset() puts its hook back to idle.
CloseDispute ==
    /\ desk = "buyer" /\ loaded /\ phase["dispute"] # "idle"
    /\ phase' = [phase EXCEPT !["dispute"] = "idle"]
    /\ UNCHANGED <<chainVars, desk, mirror, calls, wallet, loaded, sellerVars>>

\* run(): the wallet client resolves, the wallet signs and sends; either may fail.
Progress(k, from, call, p) ==
    /\ desk = "buyer" /\ calls[k].at = from
    /\ calls' = [calls EXCEPT ![k] = call]
    /\ phase' = [phase EXCEPT ![calls[k].do] = p]
    /\ UNCHANGED <<chainVars, desk, mirror, wallet, loaded, sellerVars>>

Resolved(k) == Progress(k, "resolving", [calls[k] EXCEPT !.at = "asked"], "preparing")
Sent(k) == Progress(k, "asked", [calls[k] EXCEPT !.at = "pool"], "confirming")
Refused(k) == \E from \in {"resolving", "asked"} : Progress(k, from, NoCall, "error")

\* A mined transaction ends in success, whatever the receipt's status; the queries it
\* invalidates are fetched first.
Success(k) == "success"
Receipt(k) ==
    /\ desk = "buyer" /\ calls[k].at \in {"took", "reverted"}
    /\ Fetched
    /\ UNCHANGED <<loaded, wallet>>
    /\ phase' = [b \in Buttons |-> IF ~Mounted(b) THEN "idle"
                                   ELSE IF b = calls[k].do THEN Success(k) ELSE phase[b]]
    /\ calls' = [l \in Slots |-> IF l # k /\ Mounted(calls[l].do) THEN calls[l] ELSE NoCall]
    /\ UNCHANGED <<chainVars, desk, sellerVars>>

\* Mutant: waitForTransactionReceipt is given no timeout and polls for ever.
ReceiptTimeoutNever(k) == FALSE /\ UNCHANGED vars

ReceiptTimeout(k) == Progress(k, "pool", NoCall, "error")
-------------------------------------------------------------------------------
(***************************************************************************)
(* The seller's Orders tab.                                                *)
(***************************************************************************)
Shippable == {"Funded", "PartiallyShipped"}
Present == shown /\ mirror.status # "None"

\* Mutant: the optimistic id is never dropped.
StillSyncingForever(s) == s

\* The effect that drops the optimistic id once the rows no longer show it shippable.
StillSyncing(s) == s /\ (shown' => mirror'.status \in Shippable)

\* The first fetch, the polls, and the burst after a success.
FetchList ==
    /\ desk = "seller" /\ Fetched
    /\ shown' = TRUE
    /\ syncing' = StillSyncing(syncing)
    /\ UNCHANGED <<chainVars, desk, calls, buyerVars, dialog>>

\* Mutant: the window is taken to start with the first shipment.
DeadlineOnceShipping ==
    IF ~Present \/ mirror.status # "PartiallyShipped" THEN "none"
    ELSE IF refundTimer[order] = "due" THEN "expired" ELSE "running"

\* deadlineInfo: "expired" once the seller's window is over.
Deadline ==
    IF ~Present \/ mirror.status \notin Shippable THEN "none"
    ELSE IF refundTimer[order] = "due" THEN "expired" ELSE "running"

\* _earliest_auto_release and payoutEtaInfo: the items the row promises a payout of.
PayoutEta == {i \in ItemsIn(order) : Present /\ mirror.item[i] \in {"Shipped", "Arrived"}}

CanShip == Present /\ mirror.status \in Shippable /\ ~syncing
CanHasten == PayoutEta # {} /\ \A i \in PayoutEta : releaseTimer[i] # "due"

\* A dialog asks for the ids of all items, or for the first shipped group not hastened
\* yet; a dialog that gets none can only be closed.
OpenDialog(kind) ==
    /\ desk = "seller" /\ dialog = NoDialog
    /\ IF kind = "ship" THEN CanShip ELSE CanHasten
    /\ dialog' = [kind |-> kind, at |-> "ready", call |-> 0]
    /\ UNCHANGED <<chainVars, desk, mirror, calls, buyerVars, shown, syncing>>

ConfirmDialog ==
    /\ dialog.at = "ready"
    /\ Ask(dialog.kind, order)
    /\ dialog' = [dialog EXCEPT !.at = "busy", !.call = Min({k \in Slots : calls[k] = NoCall})]
    /\ UNCHANGED <<chainVars, desk, mirror, buyerVars, shown, syncing>>

\* Escape and the backdrop close a dialog at any time; its promise goes on without it.
CloseDialog ==
    /\ dialog # NoDialog
    /\ dialog' = NoDialog
    /\ UNCHANGED <<chainVars, desk, mirror, calls, buyerVars, shown, syncing>>

\* Mutant: an error leaves the dialog submitting.
IdleNever(k) == dialog

\* finally: setSubmitting(false), in the dialog that asked.
Idle(k) == IF dialog.call = k THEN [dialog EXCEPT !.at = "ready", !.call = 0] ELSE dialog

SellerSigns(k) ==
    /\ desk = "seller" /\ calls[k].at = "resolving"
    /\ calls' = [calls EXCEPT ![k].at = "pool"]
    /\ UNCHANGED <<chainVars, desk, mirror, buyerVars, sellerVars>>

\* The wallet refuses, or 120 seconds pass without a receipt.
SellerGivesUp(k) ==
    /\ desk = "seller" /\ calls[k].at \in {"resolving", "pool"}
    /\ calls' = [calls EXCEPT ![k] = NoCall]
    /\ dialog' = Idle(k)
    /\ UNCHANGED <<chainVars, desk, mirror, buyerVars, shown, syncing>>

\* Mutant: as in useTxWriteHook, a receipt is a success.
DialogSucceedsAlways(k) == TRUE

\* Both dialogs look at the receipt's status before they call it a success.
DialogSucceeds(k) == calls[k].at = "took"

\* onSuccess, then onOpenChange(false): that closes whichever dialog of the kind is open.
SellerReceipt(k) ==
    /\ desk = "seller" /\ calls[k].at \in {"took", "reverted"}
    /\ calls' = [calls EXCEPT ![k] = NoCall]
    /\ UNCHANGED <<mirror, shown>>
    /\ IF DialogSucceeds(k)
       THEN /\ dialog' = IF dialog.kind = calls[k].do THEN NoDialog ELSE dialog
            /\ syncing' = StillSyncing(syncing \/ calls[k].do = "ship")
       ELSE /\ dialog' = Idle(k) /\ UNCHANGED syncing
    /\ UNCHANGED <<chainVars, desk, buyerVars>>
-------------------------------------------------------------------------------
Next ==
    \/ Others \/ Pause \/ RetryConnect \/ OpenPage \/ PollPage \/ RefetchPage \/ CloseDispute
    \/ \E w \in {"on", "failed"} : Connect(w)
    \/ \E b \in Buttons : Press(b)
    \/ \E kind \in Dialogs : OpenDialog(kind)
    \/ FetchList \/ ConfirmDialog \/ CloseDialog
    \/ \E k \in Slots :
          \/ Mine(k) \/ Resolved(k) \/ Sent(k) \/ Refused(k) \/ Receipt(k) \/ ReceiptTimeout(k)
          \/ SellerSigns(k) \/ SellerGivesUp(k) \/ SellerReceipt(k)

\* The polls go on while the page is open and the indexer catches up with the chain;
\* a receipt, or the 120 seconds, comes.  The wallet and the user owe nothing.
Fairness ==
    /\ WF_vars((PollPage \/ FetchList) /\ mirror' = Snapshot)
    /\ \A k \in Slots : WF_vars(Receipt(k) \/ ReceiptTimeout(k))

Spec == Init /\ [][Next]_vars /\ Fairness
-------------------------------------------------------------------------------
\* Phases, calls and dialogs are of their kinds, and a dialog waits for a call of its own.
TypeOK ==
    /\ phase \in [Buttons -> {"idle", "preparing", "confirming", "success", "error"}]
    /\ \A k \in Slots :
          calls[k].at \in {"free", "resolving", "asked", "pool", "took", "reverted"}
    /\ dialog.at \in {"closed", "ready", "busy"}
    /\ dialog.at = "busy" => calls[dialog.call].do = dialog.kind

\* A page that shows the chain as it is offers a button exactly when the contract would
\* accept what it asks for, except that no screen knows of a pause.
OffersAreTakeable ==
    desk = "buyer" /\ loaded /\ Fresh =>
        \A b \in Buttons :
            IF Offered(b, mirror) THEN Gated(b) \/ Accepts(b, Target(b, mirror))
            ELSE \A t \in IF b = "claim" THEN {order} ELSE ItemsIn(order) : ~Accepts(b, t)

\* A list that shows the chain as it is offers the seller to ship whenever the contract
\* would accept that; and what it offers fails in a pause, or because the dialog asks for
\* all items of the order, when one of them has been shipped or disputed already.
ShippingIsTakeable ==
    desk = "seller" /\ shown /\ Fresh =>
        /\ Accepts("ship", order) => CanShip
        /\ CanShip => \/ Gated("ship") \/ Accepts("ship", order)
                      \/ \E i \in ItemsIn(order) : mirror.item[i] # "Pending"

\* "Shipped - syncing on-chain" is only said of an order that has been shipped.
ShippedNoteIsTrue == syncing => orderStatus[order] \notin Shippable \cup {"None", "Created"}

\* A list that shows the chain as it is warns of every refund anyone may trigger.
NoSilentRefund ==
    desk = "seller" /\ shown /\ Fresh /\ Accepts("claim", order) => Deadline = "expired"

\* A page opened on a paid order still shows it open although it has closed.
PageBehind ==
    /\ desk = "buyer" /\ loaded
    /\ orderStatus[order] \in Closed /\ mirror.status \notin Closed \cup {"Created"}

\* What an up-to-date screen offers or announces is what the contract would accept.
OffersMatchContract == TypeOK /\ OffersAreTakeable /\ ShippingIsTakeable /\ NoSilentRefund

\* A screen stays neither behind the chain, nor in "Confirming on-chain", nor in the
\* optimistic "shipped": each gives way to the outcome.
Behind == PageBehind \/ syncing \/ \E b \in Buttons : phase[b] = "confirming"
ScreensMoveOn == [](Behind => <>~Behind)
===============================================================================
