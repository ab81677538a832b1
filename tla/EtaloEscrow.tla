----------------------------- MODULE EtaloEscrow -----------------------------
(***************************************************************************)
(* EtaloEscrow.sol: custody of the buyers' USDT from fundOrder to the      *)
(* release to the seller, the refund to the buyer or the settlement of a   *)
(* dispute, with the shipment timers, the caps and the emergency pause.    *)
(*                                                                         *)
(* The actions create, fund, ship and close the orders of EtaloOrders in   *)
(* every order and at every time.  An action is one transaction sent by    *)
(* the party its guards name; a call by anyone else reverts, which is no   *)
(* step.                                                                   *)
(*                                                                         *)
(* createOrderWithItems requires !isCrossBorder, so no order of this       *)
(* version is cross-border: the staged 20/70/10 branches and the Arrived   *)
(* and Delivered statuses are unreachable and are not modelled.            *)
(***************************************************************************)
EXTENDS EtaloClock, EtaloOrders, EtaloCommission

CONSTANTS
    COMMISSION_INTRA_BPS, COMMISSION_TOP_SELLER_BPS,
    AUTO_RELEASE_INTRA, AUTO_RELEASE_TOP_SELLER, EARLY_RELEASE_WINDOW,
    AUTO_REFUND_INACTIVE_INTRA, FORCE_REFUND_INACTIVITY_THRESHOLD,
    MAX_TVL_USDT, MAX_ORDER_USDT, MAX_SELLER_WEEKLY_VOLUME,
    MAX_BUYER_ESCROW_USDT, WEEK,
    EMERGENCY_PAUSE_MAX, EMERGENCY_PAUSE_COOLDOWN,
    MAX_ITEMS_PER_GROUP, MAX_ITEMS_PER_ORDER,
    MaxGroups               \* bound on the shipment groups of a behaviour

ASSUME AmountsAssumption ==
    /\ PriceOf \in [Items -> Nat]
    /\ COMMISSION_INTRA_BPS \in 0..BPS_DENOMINATOR
    /\ COMMISSION_TOP_SELLER_BPS \in 0..BPS_DENOMINATOR
    /\ MAX_TVL_USDT \in Nat /\ MAX_ORDER_USDT \in Nat
    /\ MAX_SELLER_WEEKLY_VOLUME \in Nat /\ MAX_BUYER_ESCROW_USDT \in Nat
    /\ MAX_ITEMS_PER_GROUP \in Nat /\ MAX_ITEMS_PER_ORDER \in Nat
    /\ MaxGroups \in Nat

ASSUME TimersAssumption ==
    /\ EARLY_RELEASE_WINDOW \in Nat \ {0}
    /\ AUTO_RELEASE_TOP_SELLER \in Nat /\ EARLY_RELEASE_WINDOW <= AUTO_RELEASE_TOP_SELLER
    /\ AUTO_RELEASE_INTRA \in Nat /\ AUTO_RELEASE_TOP_SELLER <= AUTO_RELEASE_INTRA
    /\ AUTO_REFUND_INACTIVE_INTRA \in Nat /\ FORCE_REFUND_INACTIVITY_THRESHOLD \in Nat
    /\ EMERGENCY_PAUSE_MAX \in Nat /\ EMERGENCY_PAUSE_COOLDOWN \in Nat /\ WEEK \in Nat
    \* the chain was not started with the unix epoch
    /\ Genesis > WEEK /\ Genesis > EMERGENCY_PAUSE_COOLDOWN

VARIABLES
    orderStatus,          \* Order.globalStatus; "None" until the id is used
    fundedAt,             \* Order.fundedAt
    itemsShippedCount,    \* _itemsShippedCount
    itemStatus,           \* Item.status
    itemCommission,       \* Item.itemCommission
    shipmentGroupId,      \* Item.shipmentGroupId
    releasedAmount,       \* Item.releasedAmount: net paid to the seller
    refundedAmount,       \* USDT of the item transferred back to the buyer
    commissionPaid,       \* USDT of the item transferred to commissionTreasury
    nextGroupId,          \* _nextGroupId
    shippedAt,            \* ShipmentGroup.shippedAt
    finalReleaseAfter,    \* ShipmentGroup.finalReleaseAfter
    earlyReleaseRequested,\* the groups whose flag is set
    totalEscrowedAmount,
    buyerActiveEscrow,
    sellerWeeklyVolume,
    sellerWeekStartTimestamp,
    pausedUntil,
    lastPauseEndedAt,
    legalHoldRegistry,    \* the orders with a registered document
    disputeSet,           \* dispute # address(0)
    treasurySet           \* commissionTreasury # address(0)

orderVars == <<orderStatus, fundedAt, itemsShippedCount>>
itemVars  == <<itemStatus, itemCommission, shipmentGroupId>>
paidVars  == <<releasedAmount, refundedAmount, commissionPaid>>
groupVars == <<nextGroupId, shippedAt, finalReleaseAfter, earlyReleaseRequested>>
tvlVars   == <<totalEscrowedAmount, buyerActiveEscrow>>
weekVars  == <<sellerWeeklyVolume, sellerWeekStartTimestamp>>
pauseVars == <<pausedUntil, lastPauseEndedAt>>
adminVars == <<legalHoldRegistry, disputeSet, treasurySet>>

escrowVars == <<orderVars, itemVars, paidVars, groupVars, tvlVars, weekVars,
                pauseVars, adminVars>>
vars == <<now, escrowVars>>

GroupIds == 1..MaxGroups

OrderStatus == {"None", "Created", "Funded", "PartiallyShipped", "AllShipped",
                "PartiallyDelivered", "Completed", "Refunded", "Cancelled"}
ClosedOrderStatus == {"Completed", "Refunded", "Cancelled"}
ItemStatus == {"Pending", "Shipped", "Released", "Disputed", "Refunded"}
TerminalItemStatus == {"Released", "Refunded"}

TypeOK ==
    /\ now \in Nat /\ Genesis <= now
    /\ orderStatus \in [Orders -> OrderStatus]
    /\ fundedAt \in [Orders -> Nat]
    /\ itemsShippedCount \in [Orders -> Nat]
    /\ itemStatus \in [Items -> ItemStatus]
    /\ itemCommission \in [Items -> Nat]
    /\ shipmentGroupId \in [Items -> 0..MaxGroups]
    /\ releasedAmount \in [Items -> Nat]
    /\ refundedAmount \in [Items -> Nat]
    /\ commissionPaid \in [Items -> Nat]
    /\ nextGroupId \in 0..MaxGroups
    /\ shippedAt \in [GroupIds -> Nat]
    /\ finalReleaseAfter \in [GroupIds -> Nat]
    /\ earlyReleaseRequested \subseteq GroupIds
    /\ totalEscrowedAmount \in Nat
    /\ buyerActiveEscrow \in [Buyers -> Nat]
    /\ sellerWeeklyVolume \in [Sellers -> Nat]
    /\ sellerWeekStartTimestamp \in [Sellers -> Nat]
    /\ pausedUntil \in Nat
    /\ lastPauseEndedAt \in Nat
    /\ legalHoldRegistry \subseteq Orders
    /\ disputeSet \in BOOLEAN
    /\ treasurySet \in BOOLEAN

\* The state the constructor leaves: no treasury and no dispute contract yet.
Init ==
    /\ ClockInit
    /\ orderStatus = [o \in Orders |-> "None"]
    /\ fundedAt = [o \in Orders |-> 0]
    /\ itemsShippedCount = [o \in Orders |-> 0]
    /\ itemStatus = [i \in Items |-> "Pending"]
    /\ itemCommission = [i \in Items |-> 0]
    /\ shipmentGroupId = [i \in Items |-> 0]
    /\ releasedAmount = [i \in Items |-> 0]
    /\ refundedAmount = [i \in Items |-> 0]
    /\ commissionPaid = [i \in Items |-> 0]
    /\ nextGroupId = 0
    /\ shippedAt = [g \in GroupIds |-> 0]
    /\ finalReleaseAfter = [g \in GroupIds |-> 0]
    /\ earlyReleaseRequested = {}
    /\ totalEscrowedAmount = 0
    /\ buyerActiveEscrow = [b \in Buyers |-> 0]
    /\ sellerWeeklyVolume = [s \in Sellers |-> 0]
    /\ sellerWeekStartTimestamp = [s \in Sellers |-> 0]
    /\ pausedUntil = 0
    /\ lastPauseEndedAt = 0
    /\ legalHoldRegistry = {}
    /\ disputeSet = FALSE
    /\ treasurySet = FALSE
-------------------------------------------------------------------------------
(***************************************************************************)
(* Modifiers and internal helpers.                                         *)
(***************************************************************************)
\* Mutant: the pause is already over at its last instant.
WhenNotPausedInclusive == now >= pausedUntil

WhenNotPaused == now > pausedUntil

Terminal(i) == itemStatus[i] \in TerminalItemStatus

GroupItems(g) == {i \in Items : shipmentGroupId[i] = g}

\* Mutant: a refunded item can be disputed again.
OpenForDisputeUnlessReleased(i) == itemStatus[i] \notin {"Released", "Disputed"}

\* Mutant: a disputed item is still open to the timer.
OpenForDisputeOnce(i) == ~Terminal(i)

\* An item that markItemDisputed may freeze and a timer may release.
OpenForDispute(i) == ~Terminal(i) /\ itemStatus[i] # "Disputed"

\* Mutant: the commission is not withheld from what the seller is owed.
NetOfGross(i) == PriceOf[i]

\* itemNet: what the seller is owed of an item that is released in full.
NetOf(i) == PriceOf[i] - itemCommission[i]

\* What the escrow still holds of an item (itemPrice - releasedAmount).
RemainingInEscrow(i) == PriceOf[i] - releasedAmount[i]

\* Mutant: the subtraction is not floored.
SaturatingSubUnfloored(counter, amount) == counter - amount

SaturatingSub(counter, amount) == IF counter > amount THEN counter - amount ELSE 0

AddEscrow(buyer, amount) ==
    /\ totalEscrowedAmount' = totalEscrowedAmount + amount
    /\ buyerActiveEscrow' = [buyerActiveEscrow EXCEPT ![buyer] = @ + amount]

\* Mutant: only the global counter moves.
SubEscrowGlobalOnly(buyer, amount) ==
    /\ amount \in 0..totalEscrowedAmount
    /\ totalEscrowedAmount' = totalEscrowedAmount - amount
    /\ buyerActiveEscrow' = buyerActiveEscrow

\* The global counter is a checked subtraction, the buyer's one saturates.
SubEscrow(buyer, amount) ==
    /\ amount \in 0..totalEscrowedAmount
    /\ totalEscrowedAmount' = totalEscrowedAmount - amount
    /\ buyerActiveEscrow' = [buyerActiveEscrow EXCEPT ![buyer] = SaturatingSub(@, amount)]

\* The window rolls when more than a week has passed since it opened.
UpdateSellerWeeklyVolume(seller, amount) ==
    LET rolled == now > sellerWeekStartTimestamp[seller] + WEEK
        volume == IF rolled THEN 0 ELSE sellerWeeklyVolume[seller]
    IN  /\ volume + amount \in 0..MAX_SELLER_WEEKLY_VOLUME
        /\ sellerWeeklyVolume' = [sellerWeeklyVolume EXCEPT ![seller] = volume + amount]
        /\ sellerWeekStartTimestamp' = IF rolled
               THEN [sellerWeekStartTimestamp EXCEPT ![seller] = now]
               ELSE sellerWeekStartTimestamp

\* Saturating, and blind to the window in which the amount was recorded.
ReleaseSellerWeeklyVolume(seller, amount) ==
    /\ amount \in Uint
    /\ sellerWeeklyVolume' = [sellerWeeklyVolume EXCEPT ![seller] = SaturatingSub(@, amount)]
    /\ UNCHANGED sellerWeekStartTimestamp

IntraAutoReleaseDuration(isTopSeller) ==
    IF isTopSeller THEN AUTO_RELEASE_TOP_SELLER ELSE AUTO_RELEASE_INTRA

\* Mutant: an order whose items are all closed counts as Completed.
ComputeNewOrderStatusNoRefunded(o, status) ==
    LET closed == {i \in ItemsOf(o) : status[i] \in TerminalItemStatus}
    IN  CASE orderStatus[o] \in ClosedOrderStatus -> orderStatus[o]
          [] closed = ItemsOf(o) -> "Completed"
          [] closed # {} -> "PartiallyDelivered"
          [] OTHER -> orderStatus[o]

\* Mutant: the order does not leave its status before all its items are closed.
ComputeNewOrderStatusNoPartial(o, status) ==
    LET closed   == {i \in ItemsOf(o) : status[i] \in TerminalItemStatus}
        refunded == {i \in ItemsOf(o) : status[i] = "Refunded"}
    IN  CASE orderStatus[o] \in ClosedOrderStatus -> orderStatus[o]
          [] refunded = ItemsOf(o) -> "Refunded"
          [] closed = ItemsOf(o) -> "Completed"
          [] OTHER -> orderStatus[o]

\* _computeNewOrderStatus, given the statuses the transaction leaves the items in.
ComputeNewOrderStatus(o, status) ==
    LET closed   == {i \in ItemsOf(o) : status[i] \in TerminalItemStatus}
        refunded == {i \in ItemsOf(o) : status[i] = "Refunded"}
    IN  IF orderStatus[o] \in ClosedOrderStatus THEN orderStatus[o]
        ELSE IF closed = ItemsOf(o)
             THEN IF refunded = ItemsOf(o) THEN "Refunded" ELSE "Completed"
        ELSE IF closed # {} THEN "PartiallyDelivered"
        ELSE orderStatus[o]

(***************************************************************************)
(* _releaseItemFully on each item of R, items of order o released by one   *)
(* transaction: the net goes to the seller, the commission to the          *)
(* treasury, and the order's status follows.                               *)
(***************************************************************************)
ReleaseItemsFully(o, R) ==
    LET payout == [i \in R |-> (NetOf(i) - releasedAmount[i]) + itemCommission[i]]
    IN  /\ \A i \in R : /\ NetOf(i) \in Uint
                        /\ NetOf(i) - releasedAmount[i] \in Uint
                        /\ itemCommission[i] > 0 => treasurySet
        /\ itemStatus' = [i \in Items |-> IF i \in R THEN "Released" ELSE itemStatus[i]]
        /\ releasedAmount' = [i \in Items |-> IF i \in R THEN NetOf(i)
                                                         ELSE releasedAmount[i]]
        /\ commissionPaid' = [i \in Items |-> IF i \in R
                                  THEN commissionPaid[i] + itemCommission[i]
                                  ELSE commissionPaid[i]]
        /\ SubEscrow(BuyerOf[o], SumFunctionOnSet(payout, R))
        /\ orderStatus' = [orderStatus EXCEPT ![o] = ComputeNewOrderStatus(o, itemStatus')]
        /\ UNCHANGED <<now, fundedAt, itemsShippedCount, itemCommission, shipmentGroupId,
                       refundedAmount, groupVars, weekVars, pauseVars, adminVars>>

(***************************************************************************)
(* The items of S go back to the buyer, refund[i] for item i, and the order *)
(* is Refunded: the common part of the two order-wide refunds.             *)
(***************************************************************************)
RefundItems(o, S, refund) ==
    /\ itemStatus' = [i \in Items |-> IF i \in S THEN "Refunded" ELSE itemStatus[i]]
    /\ refundedAmount' = [i \in Items |-> IF i \in S THEN refundedAmount[i] + refund[i]
                                                     ELSE refundedAmount[i]]
    /\ orderStatus' = [orderStatus EXCEPT ![o] = "Refunded"]
    /\ SubEscrow(BuyerOf[o], SumFunctionOnSet(refund, S))
    /\ UNCHANGED <<now, fundedAt, itemsShippedCount, itemCommission, shipmentGroupId,
                   releasedAmount, commissionPaid, groupVars, pauseVars, adminVars>>
-------------------------------------------------------------------------------
(***************************************************************************)
(* Entry points of the buyer, the seller and anyone.  `isTopSeller' is     *)
(* what the reputation contract answers at the moment of the call.         *)
(***************************************************************************)
CreateOrderWithItems(o, isTopSeller) ==
    LET bps   == IF isTopSeller THEN COMMISSION_TOP_SELLER_BPS ELSE COMMISSION_INTRA_BPS
        split == SplitCommission(ItemsOf(o), PriceOf, LastItemOf[o],
                                 CalculateCommission(TotalAmount(o), bps))
    IN  /\ WhenNotPaused
        /\ orderStatus[o] = "None"
        /\ SellerOf[o] # BuyerOf[o]
        /\ Cardinality(ItemsOf(o)) \in 1..MAX_ITEMS_PER_ORDER
        /\ \A i \in ItemsOf(o) : PriceOf[i] > 0 /\ split[i] \in Uint
        /\ TotalAmount(o) <= MAX_ORDER_USDT
        /\ orderStatus' = [orderStatus EXCEPT ![o] = "Created"]
        /\ itemCommission' = [i \in Items |-> IF i \in ItemsOf(o) THEN split[i]
                                              ELSE itemCommission[i]]
        /\ UNCHANGED <<now, fundedAt, itemsShippedCount, itemStatus, shipmentGroupId,
                       paidVars, groupVars, tvlVars, weekVars, pauseVars, adminVars>>

FundOrder(o) ==
    /\ WhenNotPaused
    /\ orderStatus[o] = "Created"
    /\ totalEscrowedAmount + TotalAmount(o) <= MAX_TVL_USDT
    /\ buyerActiveEscrow[BuyerOf[o]] + TotalAmount(o) <= MAX_BUYER_ESCROW_USDT
    /\ AddEscrow(BuyerOf[o], TotalAmount(o))
    /\ orderStatus' = [orderStatus EXCEPT ![o] = "Funded"]
    /\ fundedAt' = [fundedAt EXCEPT ![o] = now]
    /\ UNCHANGED <<now, itemsShippedCount, itemVars, paidVars, groupVars, weekVars,
                   pauseVars, adminVars>>

CancelOrder(o) ==
    /\ WhenNotPaused
    /\ orderStatus[o] = "Created"
    /\ orderStatus' = [orderStatus EXCEPT ![o] = "Cancelled"]
    /\ UNCHANGED <<now, fundedAt, itemsShippedCount, itemVars, paidVars, groupVars,
                   tvlVars, weekVars, pauseVars, adminVars>>

\* Mutant: the counter is read before it is incremented.
FreshGroupIdPostIncrement == nextGroupId

FreshGroupId == nextGroupId + 1

(***************************************************************************)
(* `itemIds' is the calldata array.  Its entries are validated before any  *)
(* of them is changed, so an id may occur twice: the value and the count   *)
(* are those of the array, the items shipped those of its range.           *)
(***************************************************************************)
ShipItemsGrouped(o, itemIds, isTopSeller) ==
    LET shipped      == Range(itemIds)
        groupId      == FreshGroupId
        shippedValue == SumFunction([k \in DOMAIN itemIds |-> PriceOf[itemIds[k]]])
        shippedSoFar == itemsShippedCount[o] + Cardinality(DOMAIN itemIds)
    IN  /\ WhenNotPaused
        /\ orderStatus[o] \in {"Funded", "PartiallyShipped"}
        /\ Cardinality(DOMAIN itemIds) \in 1..MAX_ITEMS_PER_GROUP
        /\ \A i \in shipped : OrderOf[i] = o /\ itemStatus[i] = "Pending"
        /\ UpdateSellerWeeklyVolume(SellerOf[o], shippedValue)
        /\ nextGroupId < MaxGroups
        /\ nextGroupId' = groupId
        /\ shippedAt' = [shippedAt EXCEPT ![groupId] = now]
        /\ finalReleaseAfter' = [finalReleaseAfter EXCEPT
                                    ![groupId] = now + IntraAutoReleaseDuration(isTopSeller)]
        /\ itemStatus' = [i \in Items |-> IF i \in shipped THEN "Shipped" ELSE itemStatus[i]]
        /\ shipmentGroupId' = [i \in Items |-> IF i \in shipped THEN groupId
                                               ELSE shipmentGroupId[i]]
        /\ itemsShippedCount' = [itemsShippedCount EXCEPT ![o] = shippedSoFar]
        /\ orderStatus' = [orderStatus EXCEPT
                              ![o] = IF shippedSoFar = Cardinality(ItemsOf(o))
                                     THEN "AllShipped" ELSE "PartiallyShipped"]
        /\ UNCHANGED <<now, fundedAt, itemCommission, paidVars, earlyReleaseRequested,
                       tvlVars, pauseVars, adminVars>>

\* Mutant: the proof of delivery releases the group at once.
ShortenedReleaseAtOnce(g) == now

\* Mutant: the new deadline replaces the old one even when it is later.
ShortenedReleaseUnchecked(g) == now + EARLY_RELEASE_WINDOW

\* Shorten, never extend.
ShortenedRelease(g) ==
    LET shortened == now + EARLY_RELEASE_WINDOW
    IN  IF shortened < finalReleaseAfter[g] THEN shortened ELSE finalReleaseAfter[g]

RequestEarlyRelease(g) ==
    /\ WhenNotPaused
    /\ g <= nextGroupId
    /\ finalReleaseAfter[g] # 0
    /\ g \notin earlyReleaseRequested
    /\ finalReleaseAfter' = [finalReleaseAfter EXCEPT ![g] = ShortenedRelease(g)]
    /\ earlyReleaseRequested' = earlyReleaseRequested \cup {g}
    /\ UNCHANGED <<now, orderVars, itemVars, paidVars, nextGroupId, shippedAt, tvlVars,
                   weekVars, pauseVars, adminVars>>

ConfirmItemDelivery(i) ==
    /\ WhenNotPaused
    /\ itemStatus[i] = "Shipped"
    /\ ReleaseItemsFully(OrderOf[i], {i})

\* Items of the group that are closed or disputed by now are skipped.
ConfirmGroupDelivery(g) ==
    LET confirmable == {i \in GroupItems(g) : itemStatus[i] = "Shipped"}
    IN  /\ WhenNotPaused
        /\ \E i \in confirmable : ReleaseItemsFully(OrderOf[i], confirmable)

TriggerAutoReleaseForItem(i) ==
    LET releaseAt == finalReleaseAfter[shipmentGroupId[i]]
    IN  /\ WhenNotPaused
        /\ OpenForDispute(i)
        /\ shipmentGroupId[i] # 0
        /\ releaseAt > 0 /\ now >= releaseAt
        /\ ReleaseItemsFully(OrderOf[i], {i})

\* Mutant: an open dispute does not stop the refund.
NoOpenDisputeIgnored(o) == TRUE

\* ADR-031: an open dispute blocks the inactivity refund.
NoOpenDispute(o) == \A i \in ItemsOf(o) : itemStatus[i] # "Disputed"

TriggerAutoRefundIfInactive(o) ==
    /\ WhenNotPaused
    /\ orderStatus[o] = "Funded"
    /\ now > fundedAt[o] + AUTO_REFUND_INACTIVE_INTRA
    /\ NoOpenDispute(o)
    /\ RefundItems(o, ItemsOf(o), PriceOf)
    /\ UNCHANGED weekVars
-------------------------------------------------------------------------------
(***************************************************************************)
(* Entry points of the dispute contract.                                   *)
(***************************************************************************)
MarkItemDisputed(i) ==
    /\ disputeSet
    /\ fundedAt[OrderOf[i]] > 0
    /\ OpenForDispute(i)
    /\ itemStatus' = [itemStatus EXCEPT ![i] = "Disputed"]
    /\ UNCHANGED <<now, orderVars, itemCommission, shipmentGroupId, paidVars, groupVars,
                   tvlVars, weekVars, pauseVars, adminVars>>

\* Mutant: the weekly counter is credited for items that were never shipped.
CountsTowardWeeklyVolumeAlways(i) == TRUE

\* Only items that were shipped were counted at ship time.
CountsTowardWeeklyVolume(i) == shipmentGroupId[i] # 0

ResolveItemDispute(i, refundAmount) ==
    LET o                    == OrderOf[i]
        remainingAfterRefund == RemainingInEscrow(i) - refundAmount
        commissionShare      == ProRata(remainingAfterRefund, itemCommission[i], PriceOf[i])
        netShare             == remainingAfterRefund - commissionShare
    IN  /\ disputeSet
        /\ fundedAt[o] > 0
        /\ itemStatus[i] = "Disputed"
        /\ refundAmount \in 0..RemainingInEscrow(i)
        /\ commissionShare \in Uint /\ netShare \in Uint
        /\ commissionShare > 0 => treasurySet
        /\ itemStatus' = [itemStatus EXCEPT
                             ![i] = IF refundAmount = PriceOf[i] THEN "Refunded" ELSE "Released"]
        /\ releasedAmount' = [releasedAmount EXCEPT ![i] = @ + netShare]
        /\ refundedAmount' = [refundedAmount EXCEPT ![i] = @ + refundAmount]
        /\ commissionPaid' = [commissionPaid EXCEPT ![i] = @ + commissionShare]
        /\ SubEscrow(BuyerOf[o], RemainingInEscrow(i))
        /\ IF refundAmount > 0 /\ CountsTowardWeeklyVolume(i)
           THEN ReleaseSellerWeeklyVolume(SellerOf[o], refundAmount)
           ELSE UNCHANGED weekVars
        /\ orderStatus' = [orderStatus EXCEPT ![o] = ComputeNewOrderStatus(o, itemStatus')]
        /\ UNCHANGED <<now, fundedAt, itemsShippedCount, itemCommission, shipmentGroupId,
                       groupVars, pauseVars, adminVars>>
-------------------------------------------------------------------------------
(***************************************************************************)
(* Entry points of the owner.                                              *)
(***************************************************************************)
ForceRefund(o) ==
    LET open          == {i \in ItemsOf(o) : ~Terminal(i)}
        remaining     == [i \in Items |-> RemainingInEscrow(i)]
        shippedRefund == SumFunctionOnSet(remaining, {i \in open : CountsTowardWeeklyVolume(i)})
    IN  /\ orderStatus[o] \in {"Funded", "PartiallyShipped", "AllShipped",
                               "PartiallyDelivered"}
        /\ ~disputeSet
        /\ fundedAt[o] > 0
        /\ now > fundedAt[o] + FORCE_REFUND_INACTIVITY_THRESHOLD
        /\ o \in legalHoldRegistry
        /\ RefundItems(o, open, remaining)
        /\ ReleaseSellerWeeklyVolume(SellerOf[o], shippedRefund)

RegisterLegalHold(o) ==
    /\ orderStatus[o] # "None"
    /\ legalHoldRegistry' = legalHoldRegistry \cup {o}
    /\ UNCHANGED <<now, orderVars, itemVars, paidVars, groupVars, tvlVars, weekVars,
                   pauseVars, disputeSet, treasurySet>>

ClearLegalHold(o) ==
    /\ orderStatus[o] # "None"
    /\ legalHoldRegistry' = legalHoldRegistry \ {o}
    /\ UNCHANGED <<now, orderVars, itemVars, paidVars, groupVars, tvlVars, weekVars,
                   pauseVars, disputeSet, treasurySet>>

EmergencyPause ==
    /\ now > pausedUntil
    /\ now > lastPauseEndedAt + EMERGENCY_PAUSE_COOLDOWN
    /\ pausedUntil' = now + EMERGENCY_PAUSE_MAX
    /\ lastPauseEndedAt' = now + EMERGENCY_PAUSE_MAX
    /\ UNCHANGED <<now, orderVars, itemVars, paidVars, groupVars, tvlVars, weekVars,
                   adminVars>>

\* The zero address is accepted: it disables the dispute entry points.
SetDisputeContract(isSet) ==
    /\ disputeSet' = isSet
    /\ UNCHANGED <<now, orderVars, itemVars, paidVars, groupVars, tvlVars, weekVars,
                   pauseVars, legalHoldRegistry, treasurySet>>

SetCommissionTreasury ==
    /\ treasurySet' = TRUE
    /\ UNCHANGED <<now, orderVars, itemVars, paidVars, groupVars, tvlVars, weekVars,
                   pauseVars, legalHoldRegistry, disputeSet>>

Advance ==
    /\ Tick
    /\ UNCHANGED escrowVars
-------------------------------------------------------------------------------
\* What the parties, the keepers and the owner may send about an order.
OrderEntryPoint(o) ==
    \/ \E isTopSeller \in BOOLEAN : CreateOrderWithItems(o, isTopSeller)
    \/ FundOrder(o)
    \/ CancelOrder(o)
    \/ \E n \in 1..MAX_ITEMS_PER_GROUP : \E itemIds \in [1..n -> ItemsOf(o)] :
          \E isTopSeller \in BOOLEAN : ShipItemsGrouped(o, itemIds, isTopSeller)
    \/ TriggerAutoRefundIfInactive(o)
    \/ ForceRefund(o)
    \/ RegisterLegalHold(o)
    \/ ClearLegalHold(o)

\* What the owner may send about the contract.
OwnerEntryPoint ==
    \/ EmergencyPause
    \/ \E isSet \in BOOLEAN : SetDisputeContract(isSet)
    \/ SetCommissionTreasury

EntryPoint ==
    \/ \E o \in Orders : OrderEntryPoint(o)
    \/ \E g \in GroupIds : RequestEarlyRelease(g) \/ ConfirmGroupDelivery(g)
    \/ \E i \in Items : ConfirmItemDelivery(i) \/ TriggerAutoReleaseForItem(i)
    \/ OwnerEntryPoint

\* What the dispute contract may call.
DisputeHook ==
    \E i \in Items :
        \/ MarkItemDisputed(i)
        \/ \E refundAmount \in 0..PriceOf[i] : ResolveItemDispute(i, refundAmount)

Next == EntryPoint \/ DisputeHook \/ Advance

Spec == Init /\ [][Next]_vars
-------------------------------------------------------------------------------
(***************************************************************************)
(* Properties.                                                             *)
(***************************************************************************)
Funded(i) == fundedAt[OrderOf[i]] > 0

Held(i) == IF Funded(i) /\ ~Terminal(i) THEN RemainingInEscrow(i) ELSE 0

\* The two escrow counters, moved by every funding, release, refund and
\* settlement, are always the sum of what the items still have in escrow: they
\* never drift apart and the saturation of _subEscrow never hides a difference.
EscrowAccounting ==
    LET held == [i \in Items |-> Held(i)]
    IN  /\ totalEscrowedAmount = SumFunction(held)
        /\ \A b \in Buyers :
              buyerActiveEscrow[b] =
                  SumFunctionOnSet(held, {i \in Items : BuyerOf[OrderOf[i]] = b})

\* Nothing is paid out of an open item, and a closed item has been paid out
\* exactly once: seller, treasury and buyer together received its price, whatever
\* the sequence of confirmations, timers, disputes and refunds that closed it.
PaidExactlyOnce ==
    \A i \in Items :
        IF Terminal(i)
        THEN releasedAmount[i] + commissionPaid[i] + refundedAmount[i] = PriceOf[i]
        ELSE releasedAmount[i] = 0 /\ commissionPaid[i] = 0 /\ refundedAmount[i] = 0

\* A Funded order has not been touched: no item of it was shipped or closed.
\* triggerAutoRefundIfInactive relies on it when it refunds the whole
\* totalAmount and flips every item to Refunded.
FundedMeansUntouched ==
    \A i \in Items : orderStatus[OrderOf[i]] = "Funded" =>
        itemStatus[i] \in {"Pending", "Disputed"} /\ shipmentGroupId[i] = 0

\* The order's status and its items' agree: a funded order is closed exactly when
\* all its items are, and a Completed one has paid the seller for an item.
OrderClosedWithItems ==
    \A o \in Orders :
        /\ fundedAt[o] > 0 =>
              (orderStatus[o] \in ClosedOrderStatus <=> \A i \in ItemsOf(o) : Terminal(i))
        /\ orderStatus[o] = "Completed" =>
              \E i \in ItemsOf(o) : itemStatus[i] = "Released"

\* After the shipment, the buyer has at least the 48 h of the early release window
\* before the timer of the group can release an item, however the seller combines
\* the Top Seller timer and requestEarlyRelease.
BuyerHasDisputeWindow ==
    \A i \in Items : shipmentGroupId[i] # 0 =>
        finalReleaseAfter[shipmentGroupId[i]]
            >= shippedAt[shipmentGroupId[i]] + EARLY_RELEASE_WINDOW

\* No release or settlement can revert on the contract's own bookkeeping: the
\* commission fits in the price and what leaves is still counted as escrowed.
\* Otherwise the item's USDT would stay locked.
ExitNeverRevertsOnAccounting ==
    \A i \in Items : Funded(i) /\ ~Terminal(i) =>
        /\ itemCommission[i] <= PriceOf[i] - releasedAmount[i]
        /\ RemainingInEscrow(i) <= totalEscrowedAmount

\* A closed item never changes again, and neither does a closed order.
SettledIsFinal ==
    [][/\ \A i \in Items : Terminal(i) =>
             UNCHANGED <<itemStatus[i], releasedAmount[i], refundedAmount[i], commissionPaid[i]>>
       /\ \A o \in Orders : orderStatus[o] \in ClosedOrderStatus =>
             UNCHANGED orderStatus[o]]_vars

\* The release timer of a group is only ever brought forward.
ReleaseNeverPostponed ==
    [][\A g \in GroupIds : finalReleaseAfter[g] > 0 =>
          finalReleaseAfter'[g] <= finalReleaseAfter[g]]_vars

\* Within a window a seller's volume counter only goes down when an item that had
\* been shipped is refunded: refunds of items that were never counted give no
\* credit (the ADR-057 re-audit of triggerAutoRefundIfInactive, forceRefund and
\* resolveItemDispute).
WeeklyCreditNeedsShippedRefund ==
    [][\A s \in Sellers :
          /\ sellerWeeklyVolume'[s] < sellerWeeklyVolume[s]
          /\ sellerWeekStartTimestamp'[s] = sellerWeekStartTimestamp[s]
          => \E i \in Items : /\ SellerOf[OrderOf[i]] = s
                              /\ shipmentGroupId[i] # 0
                              /\ refundedAmount'[i] > refundedAmount[i]]_vars

\* Before the funding an order has no shipped, disputed or closed item, and
\* fundedAt tells the funded orders from the others.
UnfundedMeansFresh ==
    \A o \in Orders :
        IF orderStatus[o] \in {"None", "Created", "Cancelled"}
        THEN /\ fundedAt[o] = 0
             /\ \A i \in ItemsOf(o) : itemStatus[i] = "Pending" /\ shipmentGroupId[i] = 0
        ELSE fundedAt[o] > 0

\* Group ids are handed out in order and never to two orders, and no group was
\* shipped in the future.
GroupsHandedOut ==
    /\ \A g \in GroupIds : shippedAt[g] <= now
    /\ \A i \in Items :
          /\ shipmentGroupId[i] <= nextGroupId
          /\ itemStatus[i] = "Shipped" => shipmentGroupId[i] # 0
          /\ \A j \in Items : shipmentGroupId[i] = shipmentGroupId[j] /\ shipmentGroupId[i] # 0
                             => OrderOf[i] = OrderOf[j]

\* The inductive invariant of the proofs: the safety invariants above need to know
\* that unfunded orders are fresh and that a group belongs to one order.
IInv ==
    /\ TypeOK
    /\ PaidExactlyOnce
    /\ FundedMeansUntouched
    /\ OrderClosedWithItems
    /\ UnfundedMeansFresh
    /\ GroupsHandedOut
    /\ BuyerHasDisputeWindow

\* The escrow implements the abstract custody of each item's USDT.
Custody == INSTANCE ItemCustody WITH
    Price      <- PriceOf,
    custody    <- [i \in Items |-> IF ~Funded(i) THEN "outside"
                                   ELSE IF Terminal(i) THEN "settled" ELSE "held"],
    toSeller   <- releasedAmount,
    toTreasury <- commissionPaid,
    toBuyer    <- refundedAmount

\* Every transaction of the escrow takes whole items in, pays whole items out, or
\* moves no USDT.
ImplementsCustody == Custody!Spec

\* The part of the escrow the off-chain programs see: statuses, and whether the
\* timers that anyone may trigger have run out.
Lifecycle == INSTANCE OrderLifecycle WITH
    releaseTimer <- [i \in Items |->
        IF shipmentGroupId[i] = 0 THEN "none"
        ELSE IF now >= finalReleaseAfter[shipmentGroupId[i]] THEN "due" ELSE "running"],
    refundTimer  <- [o \in Orders |->
        IF fundedAt[o] = 0 THEN "none"
        ELSE IF now > fundedAt[o] + AUTO_REFUND_INACTIVE_INTRA THEN "due" ELSE "running"]

\* Every transaction moves the statuses and the timers in a way the keepers, the
\* indexer, the checkout and the screens are modelled to expect; in particular a timer
\* that ran out never runs again, and a released item does not come back.
ImplementsLifecycle == Lifecycle!LifecycleSpec

\* While the contract is paused an open item can only be disputed, settled by the
\* dispute contract or refunded by the owner under a legal hold.
PauseFreezesItems ==
    [][now <= pausedUntil =>
          \A i \in Items : itemStatus'[i] # itemStatus[i] =>
              \/ disputeSet /\ (itemStatus'[i] = "Disputed" \/ itemStatus[i] = "Disputed")
              \/ ~disputeSet /\ OrderOf[i] \in legalHoldRegistry]_vars
===============================================================================
