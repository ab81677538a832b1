-------------------------- MODULE EtaloProtocolProofs --------------------------
(***************************************************************************)
(* Proofs about the contracts, for every set of orders and items, every    *)
(* price and every value of the durations, caps and commission rates that  *)
(* the named assumptions of the modules allow.                             *)
(*                                                                         *)
(* First EtaloEscrow on its own: its invariant, what a step may do to an   *)
(* item and to an order, and its books: the counters of what is in escrow, *)
(* the commissions of an order's items and the sellers' weekly volumes.    *)
(* Then the stake of a seller (EtaloStake).  Then EtaloProtocol: what is   *)
(* proved of the escrow and of the stake carries over to the protocol, the *)
(* contracts agree on what is in dispute, a vote follows its ballots, a    *)
(* verdict has its authority and is what the escrow pays, every open       *)
(* dispute freezes its seller once, and the stake stays for the verdict.   *)
(***************************************************************************)
EXTENDS EtaloProtocol, FiniteSums, TLAPS

USE DEF OrderStatus, ClosedOrderStatus, ItemStatus, TerminalItemStatus, Terminal,
        ItemsOf, GroupIds, Uint

\* The items of an order, and what they cost.
LEMMA OrderItems == ASSUME NEW o PROVE ItemsOf(o) \in SUBSET Items /\ IsFiniteSet(ItemsOf(o))
<1>1. ItemsOf(o) \in SUBSET Items
  OBVIOUS
<1>2. QED
  BY <1>1, FinitenessAssumption, FS_Subset

LEMMA TotalAmountType == ASSUME NEW o PROVE TotalAmount(o) \in Nat
BY OrderItems, AmountsAssumption, SumNat DEF TotalAmount

LEMMA InitIInv == Init => IInv
<1> SUFFICES ASSUME Init PROVE IInv
  OBVIOUS
<1> USE PartiesAssumption DEF Init
<1>1. TypeOK
  <2>1. disputeSet \in BOOLEAN /\ treasurySet \in BOOLEAN
    OBVIOUS
  <2>2. QED
    BY <2>1, AmountsAssumption, ClockAssumption DEF TypeOK, ClockInit
<1>2. PaidExactlyOnce
  BY DEF PaidExactlyOnce
<1>3. FundedMeansUntouched
  BY DEF FundedMeansUntouched
<1>4. OrderClosedWithItems
  BY DEF OrderClosedWithItems
<1>5. UnfundedMeansFresh
  BY DEF UnfundedMeansFresh
<1>6. GroupsHandedOut /\ BuyerHasDisputeWindow
  BY ClockAssumption DEF GroupsHandedOut, BuyerHasDisputeWindow, ClockInit
<1>7. QED
  BY <1>1, <1>2, <1>3, <1>4, <1>5, <1>6 DEF IInv

(***************************************************************************)
(* The conjuncts of IInv but TypeOK read only these variables: a step that *)
(* leaves them alone preserves them.                                       *)
(***************************************************************************)
LEMMA Frame ==
  ASSUME IInv, TypeOK',
         UNCHANGED <<orderStatus, fundedAt, itemStatus, shipmentGroupId, paidVars, groupVars>>,
         now' >= now
  PROVE  IInv'
<1>1. GroupsHandedOut'
  <2>1. \A g \in GroupIds : shippedAt'[g] <= now'
    <3>1. /\ shippedAt' = shippedAt
          /\ now \in Nat /\ now' \in Nat /\ now <= now'
          /\ \A g \in GroupIds : shippedAt[g] \in Nat /\ shippedAt[g] <= now
      BY DEF TypeOK, IInv, GroupsHandedOut, groupVars
    <3>2. QED
      BY <3>1
  <2>2. QED
    BY <2>1 DEF IInv, GroupsHandedOut, groupVars
<1>2. PaidExactlyOnce' /\ FundedMeansUntouched' /\ OrderClosedWithItems'
      /\ UnfundedMeansFresh' /\ BuyerHasDisputeWindow'
  BY DEF IInv, PaidExactlyOnce, FundedMeansUntouched, OrderClosedWithItems,
         UnfundedMeansFresh, BuyerHasDisputeWindow, paidVars, groupVars
<1>3. QED
  BY <1>1, <1>2 DEF IInv

LEMMA AdminPreservesIInv ==
  ASSUME IInv,
         \/ \E o \in Orders : RegisterLegalHold(o) \/ ClearLegalHold(o)
         \/ EmergencyPause \/ SetCommissionTreasury \/ Advance
         \/ \E isSet \in BOOLEAN : SetDisputeContract(isSet)
  PROVE  IInv'
<1> USE DEF RegisterLegalHold, ClearLegalHold, EmergencyPause, SetCommissionTreasury,
            Advance, SetDisputeContract
<1> USE DEF escrowVars, orderVars, itemVars, paidVars, groupVars, tvlVars, weekVars,
            pauseVars, adminVars
<1>1. TypeOK'
  <2>1. disputeSet' \in BOOLEAN /\ treasurySet' \in BOOLEAN
    BY Zenon DEF IInv, TypeOK
  <2>2. pausedUntil' \in Nat /\ lastPauseEndedAt' \in Nat /\ now' \in Nat /\ Genesis <= now'
    BY TimersAssumption, ClockAssumption DEF IInv, TypeOK, Tick
  <2>3. legalHoldRegistry' \subseteq Orders
    BY DEF IInv, TypeOK
  <2>4. QED
    BY <2>1, <2>2, <2>3 DEF IInv, TypeOK
<1>2. UNCHANGED <<orderStatus, fundedAt, itemStatus, shipmentGroupId, paidVars, groupVars>>
  OBVIOUS
<1>3. now' >= now
  BY DEF IInv, TypeOK, Tick
<1>4. QED
  BY <1>1, <1>2, <1>3, Frame

(***************************************************************************)
(* The orders: creation, cancellation and funding.                         *)
(***************************************************************************)
LEMMA CreatePreservesIInv ==
  ASSUME IInv, NEW o \in Orders, NEW isTopSeller \in BOOLEAN,
         CreateOrderWithItems(o, isTopSeller)
  PROVE  IInv'
<1> DEFINE bps == IF isTopSeller THEN COMMISSION_TOP_SELLER_BPS ELSE COMMISSION_INTRA_BPS
           split == SplitCommission(ItemsOf(o), PriceOf, LastItemOf[o],
                                    CalculateCommission(TotalAmount(o), bps))
<1> USE DEF orderVars, itemVars, paidVars, groupVars, tvlVars, weekVars, pauseVars, adminVars
<1>1. /\ \A i \in ItemsOf(o) : split[i] \in Uint
      /\ itemCommission' = [i \in Items |-> IF i \in ItemsOf(o) THEN split[i]
                                            ELSE itemCommission[i]]
      /\ orderStatus[o] = "None"
      /\ orderStatus' = [orderStatus EXCEPT ![o] = "Created"]
      /\ UNCHANGED <<now, fundedAt, itemsShippedCount, itemStatus, shipmentGroupId, paidVars,
                     groupVars, tvlVars, weekVars, pauseVars, adminVars>>
  BY DEF CreateOrderWithItems
<1> HIDE DEF split
<1>2. TypeOK'
  <2>1. disputeSet' \in BOOLEAN /\ treasurySet' \in BOOLEAN
    BY <1>1, Zenon DEF IInv, TypeOK
  <2>2. itemCommission' \in [Items -> Nat] /\ orderStatus' \in [Orders -> OrderStatus]
    BY <1>1, ClockAssumption DEF IInv, TypeOK
  <2>3. QED
    BY <1>1, <2>1, <2>2 DEF IInv, TypeOK
<1>3. PaidExactlyOnce' /\ FundedMeansUntouched' /\ UnfundedMeansFresh'
  <2>1. PaidExactlyOnce'
    BY <1>1 DEF IInv, PaidExactlyOnce
  <2>2. FundedMeansUntouched'
    BY <1>1, PartiesAssumption DEF IInv, TypeOK, FundedMeansUntouched
  <2>3. UnfundedMeansFresh'
    BY <1>1 DEF IInv, TypeOK, UnfundedMeansFresh
  <2>4. QED
    BY <2>1, <2>2, <2>3
<1>4. OrderClosedWithItems'
  BY <1>1 DEF IInv, TypeOK, OrderClosedWithItems, UnfundedMeansFresh
<1>5. GroupsHandedOut' /\ BuyerHasDisputeWindow'
  BY <1>1 DEF IInv, GroupsHandedOut, BuyerHasDisputeWindow
<1>6. QED
  BY <1>2, <1>3, <1>4, <1>5 DEF IInv

LEMMA CancelPreservesIInv ==
  ASSUME IInv, NEW o \in Orders, CancelOrder(o)
  PROVE  IInv'
<1> USE DEF orderVars, itemVars, paidVars, groupVars, tvlVars, weekVars, pauseVars, adminVars
<1>1. TypeOK'
  <2>1. disputeSet' \in BOOLEAN /\ treasurySet' \in BOOLEAN
    BY Zenon DEF IInv, TypeOK, CancelOrder
  <2>2. QED
    BY <2>1 DEF IInv, TypeOK, CancelOrder
<1>2. PaidExactlyOnce' /\ FundedMeansUntouched' /\ UnfundedMeansFresh'
  <2>1. PaidExactlyOnce'
    BY DEF IInv, PaidExactlyOnce, CancelOrder
  <2>2. FundedMeansUntouched'
    BY PartiesAssumption DEF IInv, TypeOK, FundedMeansUntouched, CancelOrder
  <2>3. UnfundedMeansFresh'
    BY DEF IInv, TypeOK, UnfundedMeansFresh, CancelOrder
  <2>4. QED
    BY <2>1, <2>2, <2>3
<1>3. OrderClosedWithItems'
  BY DEF IInv, TypeOK, OrderClosedWithItems, UnfundedMeansFresh, CancelOrder
<1>4. GroupsHandedOut' /\ BuyerHasDisputeWindow'
  BY DEF IInv, GroupsHandedOut, BuyerHasDisputeWindow, CancelOrder
<1>5. QED
  BY <1>1, <1>2, <1>3, <1>4 DEF IInv

\* Funding needs an item of the order that is still Pending: the order is open.
LEMMA FundPreservesIInv ==
  ASSUME IInv, NEW o \in Orders, FundOrder(o)
  PROVE  IInv'
<1> USE DEF orderVars, itemVars, paidVars, groupVars, tvlVars, weekVars, pauseVars, adminVars
<1>1. now \in Nat \ {0}
  BY ClockAssumption DEF IInv, TypeOK
<1>2. TypeOK'
  <2>1. disputeSet' \in BOOLEAN /\ treasurySet' \in BOOLEAN
    BY Zenon DEF IInv, TypeOK, FundOrder
  <2>2. totalEscrowedAmount' \in Nat /\ buyerActiveEscrow' \in [Buyers -> Nat]
    <3>1. TotalAmount(o) \in Nat /\ BuyerOf[o] \in Buyers
      BY TotalAmountType, PartiesAssumption
    <3>2. QED
      BY <3>1 DEF IInv, TypeOK, FundOrder, AddEscrow
  <2>3. QED
    BY <2>1, <2>2, <1>1 DEF IInv, TypeOK, FundOrder
<1>3. LastItemOf[o] \in ItemsOf(o) /\ itemStatus[LastItemOf[o]] = "Pending"
  BY PartiesAssumption DEF IInv, UnfundedMeansFresh, FundOrder
<1> DEFINE others == Orders \ {o}
<1>4. /\ orderStatus'[o] = "Funded" /\ fundedAt'[o] = now /\ orderStatus[o] = "Created"
      /\ \A p \in others : orderStatus'[p] = orderStatus[p] /\ fundedAt'[p] = fundedAt[p]
      /\ UNCHANGED <<itemStatus, shipmentGroupId, releasedAmount, commissionPaid, refundedAmount>>
  BY DEF IInv, TypeOK, FundOrder
<1>5. OrderClosedWithItems'
  BY <1>1, <1>3, <1>4 DEF IInv, OrderClosedWithItems
<1>6. UnfundedMeansFresh'
  BY <1>1, <1>4 DEF IInv, UnfundedMeansFresh
<1>7. FundedMeansUntouched'
  BY <1>4, PartiesAssumption DEF IInv, FundedMeansUntouched, UnfundedMeansFresh
<1>8. PaidExactlyOnce'
  BY <1>4 DEF IInv, PaidExactlyOnce
<1>9. GroupsHandedOut' /\ BuyerHasDisputeWindow'
  BY DEF IInv, GroupsHandedOut, BuyerHasDisputeWindow, FundOrder
<1>10. QED
  BY <1>2, <1>5, <1>6, <1>7, <1>8, <1>9 DEF IInv

(***************************************************************************)
(* What closes items: releases, settlements and refunds.  They all close   *)
(* items of one funded order, pay them out and recompute the order.        *)
(***************************************************************************)
LEMMA SettlePreservesIInv ==
  ASSUME IInv, TypeOK',
         NEW o \in Orders, NEW R \in SUBSET ItemsOf(o),
         fundedAt[o] > 0,
         \A i \in R : /\ itemStatus'[i] \in TerminalItemStatus
                      /\ releasedAmount'[i] + commissionPaid'[i] + refundedAmount'[i] = PriceOf[i],
         \A i \in Items \ R : UNCHANGED <<itemStatus[i], releasedAmount[i], commissionPaid[i],
                                          refundedAmount[i]>>,
         \A p \in Orders \ {o} : UNCHANGED orderStatus[p],
         orderStatus'[o] \in {"PartiallyDelivered", "Completed", "Refunded"},
         orderStatus'[o] \in ClosedOrderStatus <=> \A i \in ItemsOf(o) : Terminal(i)',
         orderStatus'[o] = "Completed" => \E i \in ItemsOf(o) : itemStatus'[i] = "Released",
         UNCHANGED <<now, fundedAt, shipmentGroupId, groupVars>>
  PROVE  IInv'
<1>1. PaidExactlyOnce'
  BY DEF IInv, PaidExactlyOnce
<1>2. FundedMeansUntouched'
  BY PartiesAssumption DEF IInv, FundedMeansUntouched
<1>3. OrderClosedWithItems'
  BY DEF IInv, OrderClosedWithItems
<1>4. UnfundedMeansFresh'
  BY DEF IInv, UnfundedMeansFresh
<1>5. GroupsHandedOut' /\ BuyerHasDisputeWindow'
  BY DEF IInv, GroupsHandedOut, BuyerHasDisputeWindow, groupVars
<1>6. QED
  BY <1>1, <1>2, <1>3, <1>4, <1>5 DEF IInv

\* The status _computeNewOrderStatus gives an open order that has a closed item.
LEMMA NewOrderStatus ==
  ASSUME NEW o \in Orders, NEW status, orderStatus[o] \notin ClosedOrderStatus,
         NEW j \in ItemsOf(o), status[j] \in TerminalItemStatus
  PROVE  LET new == ComputeNewOrderStatus(o, status)
         IN  /\ new \in {"PartiallyDelivered", "Completed", "Refunded"}
             /\ new \in ClosedOrderStatus
                   <=> \A i \in ItemsOf(o) : status[i] \in TerminalItemStatus
             /\ new = "Completed" => \E i \in ItemsOf(o) : status[i] = "Released"
<1> DEFINE closed == {i \in ItemsOf(o) : status[i] \in TerminalItemStatus}
           refunded == {i \in ItemsOf(o) : status[i] = "Refunded"}
<1>1. closed # {}
  OBVIOUS
<1>2. CASE closed # ItemsOf(o)
  BY <1>1, <1>2 DEF ComputeNewOrderStatus
<1>3. CASE closed = ItemsOf(o) /\ refunded = ItemsOf(o)
  BY <1>3 DEF ComputeNewOrderStatus
<1>4. CASE closed = ItemsOf(o) /\ refunded # ItemsOf(o)
  BY <1>4 DEF ComputeNewOrderStatus
<1>5. QED
  BY <1>2, <1>3, <1>4

LEMMA SubEscrowType ==
  ASSUME TypeOK, NEW buyer \in Buyers, NEW amount, SubEscrow(buyer, amount)
  PROVE  totalEscrowedAmount' \in Nat /\ buyerActiveEscrow' \in [Buyers -> Nat]
BY DEF TypeOK, SubEscrow, SaturatingSub

\* An open item of a group belongs to a funded order that is open.
LEMMA OpenItemOpenOrder ==
  ASSUME IInv, NEW i \in Items, ~Terminal(i),
         fundedAt[OrderOf[i]] > 0 \/ shipmentGroupId[i] # 0
  PROVE  /\ OrderOf[i] \in Orders /\ i \in ItemsOf(OrderOf[i])
         /\ fundedAt[OrderOf[i]] > 0
         /\ orderStatus[OrderOf[i]] \notin ClosedOrderStatus
BY PartiesAssumption DEF IInv, OrderClosedWithItems, UnfundedMeansFresh

LEMMA ReleasePreservesIInv ==
  ASSUME IInv, NEW o \in Orders, NEW R \in SUBSET ItemsOf(o), NEW j \in R,
         \A i \in R : ~Terminal(i) /\ shipmentGroupId[i] # 0,
         ReleaseItemsFully(o, R)
  PROVE  IInv'
<1> DEFINE payout == [i \in R |-> (NetOf(i) - releasedAmount[i]) + itemCommission[i]]
           amount == SumFunctionOnSet(payout, R)
<1>1. /\ \A i \in R : NetOf(i) \in Uint
      /\ itemStatus' = [i \in Items |-> IF i \in R THEN "Released" ELSE itemStatus[i]]
      /\ releasedAmount' = [i \in Items |-> IF i \in R THEN NetOf(i) ELSE releasedAmount[i]]
      /\ commissionPaid' = [i \in Items |-> IF i \in R THEN commissionPaid[i] + itemCommission[i]
                                                        ELSE commissionPaid[i]]
      /\ SubEscrow(BuyerOf[o], amount)
      /\ orderStatus' = [orderStatus EXCEPT ![o] = ComputeNewOrderStatus(o, itemStatus')]
      /\ UNCHANGED <<now, fundedAt, itemsShippedCount, itemCommission, shipmentGroupId,
                     refundedAmount, groupVars, weekVars, pauseVars, adminVars>>
  BY DEF ReleaseItemsFully
<1> HIDE DEF amount
<1>2. orderStatus[o] \notin ClosedOrderStatus /\ fundedAt[o] > 0
  BY OpenItemOpenOrder
<1>3. j \in ItemsOf(o) /\ itemStatus'[j] \in TerminalItemStatus
  BY <1>1
<1> DEFINE new == ComputeNewOrderStatus(o, itemStatus')
<1>4. /\ new \in {"PartiallyDelivered", "Completed", "Refunded"}
      /\ new \in ClosedOrderStatus <=> \A i \in ItemsOf(o) : itemStatus'[i] \in TerminalItemStatus
      /\ new = "Completed" => \E i \in ItemsOf(o) : itemStatus'[i] = "Released"
  BY <1>2, <1>3, NewOrderStatus
<1> HIDE DEF new
<1>5. orderStatus'[o] = new /\ \A p \in Orders \ {o} : orderStatus'[p] = orderStatus[p]
  BY <1>1 DEF IInv, TypeOK, new
<1>6. TypeOK'
  <2>1. disputeSet' \in BOOLEAN /\ treasurySet' \in BOOLEAN
    BY <1>1, Zenon DEF IInv, TypeOK, adminVars
  <2>2. totalEscrowedAmount' \in Nat /\ buyerActiveEscrow' \in [Buyers -> Nat]
    BY <1>1, SubEscrowType, PartiesAssumption DEF IInv
  <2>3. orderStatus' \in [Orders -> OrderStatus] /\ itemStatus' \in [Items -> ItemStatus]
    BY <1>1, <1>4 DEF IInv, TypeOK, new
  <2>4. releasedAmount' \in [Items -> Nat] /\ commissionPaid' \in [Items -> Nat]
    <3>1. \A i \in R : i \in Items /\ NetOf(i) \in Nat
      BY <1>1, ClockAssumption
    <3>2. /\ releasedAmount \in [Items -> Nat] /\ commissionPaid \in [Items -> Nat]
          /\ itemCommission \in [Items -> Nat]
      BY DEF IInv, TypeOK
    <3>3. releasedAmount' \in [Items -> Nat]
      BY <1>1, <3>1, <3>2
    <3>4. commissionPaid' \in [Items -> Nat]
      BY <1>1, <3>2
    <3>5. QED
      BY <3>3, <3>4
  <2>5. QED
    BY <1>1, <2>1, <2>2, <2>3, <2>4
       DEF IInv, TypeOK, groupVars, weekVars, pauseVars, adminVars
<1>7. \A i \in R : /\ itemStatus'[i] \in TerminalItemStatus
                   /\ releasedAmount'[i] + commissionPaid'[i] + refundedAmount'[i] = PriceOf[i]
  <2> SUFFICES ASSUME NEW i \in R
               PROVE  /\ itemStatus'[i] \in TerminalItemStatus
                      /\ releasedAmount'[i] + commissionPaid'[i] + refundedAmount'[i] = PriceOf[i]
    OBVIOUS
  <2>1. i \in Items /\ ~Terminal(i)
    OBVIOUS
  <2>2. commissionPaid[i] = 0 /\ refundedAmount[i] = 0
    BY <2>1 DEF IInv, PaidExactlyOnce
  <2>3. /\ itemStatus'[i] = "Released" /\ releasedAmount'[i] = PriceOf[i] - itemCommission[i]
        /\ commissionPaid'[i] = itemCommission[i] /\ refundedAmount'[i] = 0
    BY <1>1, <2>1, <2>2 DEF NetOf, IInv, TypeOK
  <2>4. PriceOf[i] \in Nat /\ itemCommission[i] \in Nat
    BY <2>1, AmountsAssumption DEF IInv, TypeOK
  <2>5. QED
    BY <2>3, <2>4
<1>8. \A i \in Items \ R : UNCHANGED <<itemStatus[i], releasedAmount[i], commissionPaid[i],
                                      refundedAmount[i]>>
  BY <1>1
<1>9. QED
  BY <1>1, <1>2, <1>4, <1>5, <1>6, <1>7, <1>8, SettlePreservesIInv

LEMMA DeliveryPreservesIInv ==
  ASSUME IInv,
         \/ \E i \in Items : ConfirmItemDelivery(i) \/ TriggerAutoReleaseForItem(i)
         \/ \E g \in GroupIds : ConfirmGroupDelivery(g)
  PROVE  IInv'
<1>1. ASSUME NEW i \in Items, ConfirmItemDelivery(i) \/ TriggerAutoReleaseForItem(i)
      PROVE  IInv'
  <2>1. ~Terminal(i) /\ shipmentGroupId[i] # 0 /\ ReleaseItemsFully(OrderOf[i], {i})
    BY <1>1 DEF ConfirmItemDelivery, TriggerAutoReleaseForItem, OpenForDispute, IInv,
               GroupsHandedOut
  <2>2. OrderOf[i] \in Orders /\ {i} \in SUBSET ItemsOf(OrderOf[i])
    BY PartiesAssumption
  <2>3. QED
    BY <2>1, <2>2, ReleasePreservesIInv
<1>2. ASSUME NEW g \in GroupIds, ConfirmGroupDelivery(g)
      PROVE  IInv'
  <2> DEFINE confirmable == {i \in GroupItems(g) : itemStatus[i] = "Shipped"}
  <2>1. PICK j \in confirmable : ReleaseItemsFully(OrderOf[j], confirmable)
    BY <1>2 DEF ConfirmGroupDelivery
  <2>2. \A i \in confirmable : ~Terminal(i) /\ shipmentGroupId[i] # 0
    BY AmountsAssumption DEF GroupItems
  <2>3. OrderOf[j] \in Orders /\ confirmable \in SUBSET ItemsOf(OrderOf[j])
    BY <2>2, PartiesAssumption DEF GroupItems, IInv, GroupsHandedOut
  <2>4. QED
    BY <2>1, <2>2, <2>3, ReleasePreservesIInv
<1>3. QED
  BY <1>1, <1>2

LEMMA ReleaseVolumeType ==
  ASSUME TypeOK, NEW seller \in Sellers, NEW amount,
         ReleaseSellerWeeklyVolume(seller, amount)
  PROVE  /\ sellerWeeklyVolume' \in [Sellers -> Nat]
         /\ sellerWeekStartTimestamp' \in [Sellers -> Nat]
BY ClockAssumption DEF TypeOK, ReleaseSellerWeeklyVolume, SaturatingSub

LEMMA ResolvePreservesIInv ==
  ASSUME IInv, NEW i \in Items, NEW refundAmount \in 0..PriceOf[i],
         ResolveItemDispute(i, refundAmount)
  PROVE  IInv'
<1> DEFINE o == OrderOf[i]
           left == RemainingInEscrow(i) - refundAmount
           commissionShare == ProRata(left, itemCommission[i], PriceOf[i])
           netShare == left - commissionShare
<1>1. /\ itemStatus[i] = "Disputed" /\ fundedAt[o] > 0
      /\ commissionShare \in Uint /\ netShare \in Uint
      /\ itemStatus' = [itemStatus EXCEPT
                           ![i] = IF refundAmount = PriceOf[i] THEN "Refunded" ELSE "Released"]
      /\ releasedAmount' = [releasedAmount EXCEPT ![i] = @ + netShare]
      /\ refundedAmount' = [refundedAmount EXCEPT ![i] = @ + refundAmount]
      /\ commissionPaid' = [commissionPaid EXCEPT ![i] = @ + commissionShare]
      /\ SubEscrow(BuyerOf[o], RemainingInEscrow(i))
      /\ \/ ReleaseSellerWeeklyVolume(SellerOf[o], refundAmount)
         \/ UNCHANGED weekVars
      /\ orderStatus' = [orderStatus EXCEPT ![o] = ComputeNewOrderStatus(o, itemStatus')]
      /\ UNCHANGED <<now, fundedAt, itemsShippedCount, itemCommission, shipmentGroupId,
                     groupVars, pauseVars, adminVars>>
  BY DEF ResolveItemDispute
<1> HIDE DEF commissionShare
<1>2. /\ releasedAmount[i] = 0 /\ commissionPaid[i] = 0 /\ refundedAmount[i] = 0
      /\ refundAmount \in Nat /\ PriceOf[i] \in Nat
      /\ commissionShare \in Nat /\ netShare \in Nat
      /\ netShare + commissionShare = PriceOf[i] - refundAmount
  <2>1. releasedAmount[i] = 0 /\ commissionPaid[i] = 0 /\ refundedAmount[i] = 0
    BY <1>1 DEF IInv, PaidExactlyOnce
  <2>2. refundAmount \in Nat /\ PriceOf[i] \in Nat
    BY AmountsAssumption
  <2>3. QED
    BY <1>1, <2>1, <2>2, ClockAssumption DEF RemainingInEscrow
<1>3. o \in Orders /\ i \in ItemsOf(o) /\ orderStatus[o] \notin ClosedOrderStatus
  BY <1>1, OpenItemOpenOrder
<1>4. itemStatus'[i] \in TerminalItemStatus
  BY <1>1 DEF IInv, TypeOK
<1> DEFINE new == ComputeNewOrderStatus(o, itemStatus')
<1>5. /\ new \in {"PartiallyDelivered", "Completed", "Refunded"}
      /\ new \in ClosedOrderStatus <=> \A k \in ItemsOf(o) : itemStatus'[k] \in TerminalItemStatus
      /\ new = "Completed" => \E k \in ItemsOf(o) : itemStatus'[k] = "Released"
  BY <1>3, <1>4, NewOrderStatus
<1> HIDE DEF new
<1>6. orderStatus'[o] = new /\ \A p \in Orders \ {o} : orderStatus'[p] = orderStatus[p]
  BY <1>1, <1>3 DEF IInv, TypeOK, new
<1>7. TypeOK'
  <2>1. disputeSet' \in BOOLEAN /\ treasurySet' \in BOOLEAN
    BY <1>1, Zenon DEF IInv, TypeOK, adminVars
  <2>2. totalEscrowedAmount' \in Nat /\ buyerActiveEscrow' \in [Buyers -> Nat]
    BY <1>1, <1>3, SubEscrowType, PartiesAssumption DEF IInv
  <2>3. orderStatus' \in [Orders -> OrderStatus] /\ itemStatus' \in [Items -> ItemStatus]
    BY <1>1, <1>3, <1>5 DEF IInv, TypeOK, new
  <2>4. /\ releasedAmount' \in [Items -> Nat] /\ commissionPaid' \in [Items -> Nat]
        /\ refundedAmount' \in [Items -> Nat]
    <3> HIDE DEF netShare
    <3>1. releasedAmount' \in [Items -> Nat]
      BY <1>1, <1>2 DEF IInv, TypeOK
    <3>2. commissionPaid' \in [Items -> Nat]
      BY <1>1, <1>2 DEF IInv, TypeOK
    <3>3. refundedAmount' \in [Items -> Nat]
      BY <1>1, <1>2 DEF IInv, TypeOK
    <3>4. QED
      BY <3>1, <3>2, <3>3
  <2>5. /\ sellerWeeklyVolume' \in [Sellers -> Nat]
        /\ sellerWeekStartTimestamp' \in [Sellers -> Nat]
    BY <1>1, <1>3, ReleaseVolumeType, PartiesAssumption DEF IInv, TypeOK, weekVars
  <2>6. QED
    BY <1>1, <2>1, <2>2, <2>3, <2>4, <2>5 DEF IInv, TypeOK, groupVars, pauseVars, adminVars
<1>8. releasedAmount'[i] + commissionPaid'[i] + refundedAmount'[i] = PriceOf[i]
  <2>1. /\ releasedAmount'[i] = netShare
        /\ commissionPaid'[i] = commissionShare /\ refundedAmount'[i] = refundAmount
    <3> HIDE DEF netShare
    <3>1. QED
      BY <1>1, <1>2 DEF IInv, TypeOK
  <2>2. QED
    BY <2>1, <1>2
<1>9. \A k \in Items \ {i} : UNCHANGED <<itemStatus[k], releasedAmount[k], commissionPaid[k],
                                        refundedAmount[k]>>
  BY <1>1 DEF IInv, TypeOK
<1>10. \A k \in {i} : /\ itemStatus'[k] \in TerminalItemStatus
                     /\ releasedAmount'[k] + commissionPaid'[k] + refundedAmount'[k] = PriceOf[k]
  BY <1>4, <1>8
<1>11. {i} \in SUBSET ItemsOf(o)
  BY <1>3
<1>12. fundedAt[o] > 0 /\ UNCHANGED <<now, fundedAt, shipmentGroupId, groupVars>>
  BY <1>1
<1> HIDE DEF o
<1>13. QED
  BY <1>3, <1>5, <1>6, <1>7, <1>9, <1>10, <1>11, <1>12, SettlePreservesIInv

\* The two order-wide refunds pay back exactly what the open items still hold.
LEMMA RefundPreservesIInv ==
  ASSUME IInv, NEW o \in Orders, NEW S \in SUBSET ItemsOf(o), NEW refund,
         fundedAt[o] > 0,
         \A i \in S : ~Terminal(i) /\ refund[i] = PriceOf[i],
         \A i \in ItemsOf(o) \ S : Terminal(i),
         RefundItems(o, S, refund),
         /\ sellerWeeklyVolume' \in [Sellers -> Nat]
         /\ sellerWeekStartTimestamp' \in [Sellers -> Nat]
  PROVE  IInv'
<1>1. /\ itemStatus' = [i \in Items |-> IF i \in S THEN "Refunded" ELSE itemStatus[i]]
      /\ refundedAmount' = [i \in Items |-> IF i \in S THEN refundedAmount[i] + refund[i]
                                                       ELSE refundedAmount[i]]
      /\ orderStatus' = [orderStatus EXCEPT ![o] = "Refunded"]
      /\ UNCHANGED <<now, fundedAt, itemsShippedCount, itemCommission, shipmentGroupId,
                     releasedAmount, commissionPaid, groupVars, pauseVars, adminVars>>
  BY DEF RefundItems
<1>2. TypeOK'
  <2>1. disputeSet' \in BOOLEAN /\ treasurySet' \in BOOLEAN
    BY <1>1, Zenon DEF IInv, TypeOK, adminVars
  <2>2. totalEscrowedAmount' \in Nat /\ buyerActiveEscrow' \in [Buyers -> Nat]
    BY SubEscrowType, PartiesAssumption DEF IInv, RefundItems
  <2>3. refundedAmount' \in [Items -> Nat]
    BY <1>1, AmountsAssumption DEF IInv, TypeOK
  <2>4. orderStatus' \in [Orders -> OrderStatus] /\ itemStatus' \in [Items -> ItemStatus]
    BY <1>1 DEF IInv, TypeOK
  <2>5. QED
    BY <1>1, <2>1, <2>2, <2>3, <2>4 DEF IInv, TypeOK, groupVars, pauseVars, adminVars
<1>3. \A i \in S : /\ itemStatus'[i] \in TerminalItemStatus
                   /\ releasedAmount'[i] + commissionPaid'[i] + refundedAmount'[i] = PriceOf[i]
  <2>1. \A i \in S : /\ i \in Items /\ PriceOf[i] \in Nat
                     /\ releasedAmount[i] = 0 /\ commissionPaid[i] = 0 /\ refundedAmount[i] = 0
    BY AmountsAssumption DEF IInv, PaidExactlyOnce
  <2>2. QED
    BY <1>1, <2>1
<1>4. \A i \in Items \ S : UNCHANGED <<itemStatus[i], releasedAmount[i], commissionPaid[i],
                                      refundedAmount[i]>>
  BY <1>1
<1>5. orderStatus'[o] = "Refunded" /\ \A p \in Orders \ {o} : orderStatus'[p] = orderStatus[p]
  BY <1>1 DEF IInv, TypeOK
<1>6. \A i \in ItemsOf(o) : Terminal(i)'
  BY <1>1
<1>7. QED
  BY <1>1, <1>2, <1>3, <1>4, <1>5, <1>6, SettlePreservesIInv

LEMMA RefundsPreserveIInv ==
  ASSUME IInv, NEW o \in Orders, TriggerAutoRefundIfInactive(o) \/ ForceRefund(o)
  PROVE  IInv'
<1>1. CASE TriggerAutoRefundIfInactive(o)
  <2>1. /\ orderStatus[o] = "Funded" /\ RefundItems(o, ItemsOf(o), PriceOf)
        /\ UNCHANGED weekVars
    BY <1>1 DEF TriggerAutoRefundIfInactive
  <2>2. fundedAt[o] > 0 /\ \A i \in ItemsOf(o) : ~Terminal(i) /\ PriceOf[i] = PriceOf[i]
    BY <2>1 DEF IInv, UnfundedMeansFresh, FundedMeansUntouched
  <2>3. /\ sellerWeeklyVolume' \in [Sellers -> Nat]
        /\ sellerWeekStartTimestamp' \in [Sellers -> Nat]
    BY <2>1 DEF IInv, TypeOK, weekVars
  <2>4. QED
    BY <2>1, <2>2, <2>3, RefundPreservesIInv
<1>2. CASE ForceRefund(o)
  <2> DEFINE open      == {i \in ItemsOf(o) : ~Terminal(i)}
             remaining == [i \in Items |-> RemainingInEscrow(i)]
  <2>1. /\ fundedAt[o] > 0 /\ RefundItems(o, open, remaining)
        /\ \E amount : ReleaseSellerWeeklyVolume(SellerOf[o], amount)
    BY <1>2 DEF ForceRefund
  <2>2. \A i \in open : ~Terminal(i) /\ remaining[i] = PriceOf[i]
    BY AmountsAssumption DEF IInv, PaidExactlyOnce, RemainingInEscrow
  <2>3. /\ sellerWeeklyVolume' \in [Sellers -> Nat]
        /\ sellerWeekStartTimestamp' \in [Sellers -> Nat]
    BY <2>1, ReleaseVolumeType, PartiesAssumption DEF IInv
  <2>4. open \in SUBSET ItemsOf(o) /\ \A i \in ItemsOf(o) \ open : Terminal(i)
    OBVIOUS
  <2> HIDE DEF open, remaining
  <2>5. QED
    BY <2>1, <2>2, <2>3, <2>4, RefundPreservesIInv
<1>3. QED
  BY <1>1, <1>2

(***************************************************************************)
(* A dispute freezes an open item of an open order.                        *)
(***************************************************************************)
LEMMA MarkPreservesIInv ==
  ASSUME IInv, NEW i \in Items, MarkItemDisputed(i)
  PROVE  IInv'
<1>1. /\ ~Terminal(i) /\ fundedAt[OrderOf[i]] > 0
      /\ itemStatus' = [itemStatus EXCEPT ![i] = "Disputed"]
      /\ UNCHANGED <<now, orderVars, itemCommission, shipmentGroupId, paidVars, groupVars,
                     tvlVars, weekVars, pauseVars, adminVars>>
  BY DEF MarkItemDisputed, OpenForDispute
<1>2. OrderOf[i] \in Orders /\ orderStatus[OrderOf[i]] \notin ClosedOrderStatus
  BY <1>1, OpenItemOpenOrder
<1>3. /\ itemStatus'[i] = "Disputed"
      /\ \A k \in Items \ {i} : itemStatus'[k] = itemStatus[k]
      /\ itemStatus' \in [Items -> ItemStatus]
  BY <1>1 DEF IInv, TypeOK
<1>4. TypeOK'
  <2>1. disputeSet' \in BOOLEAN /\ treasurySet' \in BOOLEAN
    BY <1>1, Zenon DEF IInv, TypeOK, adminVars
  <2>2. QED
    BY <1>1, <1>3, <2>1 DEF IInv, TypeOK, orderVars, paidVars, groupVars, tvlVars, weekVars,
                          pauseVars, adminVars
<1>5. PaidExactlyOnce'
  BY <1>1, <1>3 DEF IInv, PaidExactlyOnce, paidVars
<1>6. FundedMeansUntouched' /\ UnfundedMeansFresh'
  BY <1>1, <1>3 DEF IInv, FundedMeansUntouched, UnfundedMeansFresh, orderVars
<1>7. OrderClosedWithItems'
  BY <1>1, <1>2, <1>3 DEF IInv, OrderClosedWithItems, orderVars
<1>8. GroupsHandedOut' /\ BuyerHasDisputeWindow'
  BY <1>1, <1>3 DEF IInv, GroupsHandedOut, BuyerHasDisputeWindow, groupVars
<1>9. QED
  BY <1>4, <1>5, <1>6, <1>7, <1>8 DEF IInv

(***************************************************************************)
(* The shipment groups and their timers.                                   *)
(***************************************************************************)
LEMMA EarlyReleasePreservesIInv ==
  ASSUME IInv, NEW g \in GroupIds, RequestEarlyRelease(g)
  PROVE  IInv'
<1>1. /\ finalReleaseAfter' = [finalReleaseAfter EXCEPT ![g] = ShortenedRelease(g)]
      /\ earlyReleaseRequested' = earlyReleaseRequested \cup {g}
      /\ UNCHANGED <<now, orderVars, itemVars, paidVars, nextGroupId, shippedAt, tvlVars,
                     weekVars, pauseVars, adminVars>>
  BY DEF RequestEarlyRelease
<1>2. /\ ShortenedRelease(g) \in Nat
      /\ \/ ShortenedRelease(g) = finalReleaseAfter[g]
         \/ ShortenedRelease(g) = now + EARLY_RELEASE_WINDOW
  <2>1. finalReleaseAfter[g] \in Nat
    BY DEF IInv, TypeOK
  <2>2. now \in Nat
    BY DEF IInv, TypeOK
  <2>3. EARLY_RELEASE_WINDOW \in Nat
    BY TimersAssumption
  <2>4. QED
    BY <2>1, <2>2, <2>3 DEF ShortenedRelease
<1>3. TypeOK'
  <2>1. disputeSet' \in BOOLEAN /\ treasurySet' \in BOOLEAN
    BY <1>1, Zenon DEF IInv, TypeOK, adminVars
  <2>2. finalReleaseAfter' \in [GroupIds -> Nat]
    BY <1>1, <1>2 DEF IInv, TypeOK
  <2>3. earlyReleaseRequested' \subseteq GroupIds
    BY <1>1 DEF IInv, TypeOK
  <2>4. QED
    BY <1>1, <2>1, <2>2, <2>3 DEF IInv, TypeOK, orderVars, itemVars, paidVars, tvlVars, weekVars,
                          pauseVars, adminVars
<1>4. BuyerHasDisputeWindow'
  <2>1. shippedAt[g] \in Nat /\ shippedAt[g] <= now /\ now \in Nat
    BY DEF IInv, TypeOK, GroupsHandedOut
  <2>2. now + EARLY_RELEASE_WINDOW >= shippedAt[g] + EARLY_RELEASE_WINDOW
    BY <2>1, TimersAssumption
  <2>3. ASSUME NEW i \in Items, shipmentGroupId[i] # 0
        PROVE  finalReleaseAfter'[shipmentGroupId[i]]
                  >= shippedAt[shipmentGroupId[i]] + EARLY_RELEASE_WINDOW
    BY <1>1, <1>2, <2>2, <2>3 DEF IInv, TypeOK, BuyerHasDisputeWindow
  <2>4. QED
    BY <1>1, <2>3 DEF BuyerHasDisputeWindow, itemVars
<1>5. PaidExactlyOnce' /\ FundedMeansUntouched' /\ OrderClosedWithItems' /\ UnfundedMeansFresh'
  BY <1>1 DEF IInv, PaidExactlyOnce, FundedMeansUntouched, OrderClosedWithItems,
              UnfundedMeansFresh, orderVars, itemVars, paidVars
<1>6. GroupsHandedOut'
  BY <1>1 DEF IInv, GroupsHandedOut, itemVars
<1>7. QED
  BY <1>3, <1>4, <1>5, <1>6 DEF IInv

LEMMA WeeklyVolumeType ==
  ASSUME TypeOK, NEW seller \in Sellers, NEW amount, UpdateSellerWeeklyVolume(seller, amount)
  PROVE  /\ sellerWeeklyVolume' \in [Sellers -> Nat]
         /\ sellerWeekStartTimestamp' \in [Sellers -> Nat]
BY AmountsAssumption DEF TypeOK, UpdateSellerWeeklyVolume

LEMMA ShipPreservesIInv ==
  ASSUME IInv, NEW o \in Orders, NEW n \in 1..MAX_ITEMS_PER_GROUP,
         NEW itemIds \in [1..n -> ItemsOf(o)], NEW isTopSeller \in BOOLEAN,
         ShipItemsGrouped(o, itemIds, isTopSeller)
  PROVE  IInv'
<1> DEFINE shipped      == Range(itemIds)
           groupId      == nextGroupId + 1
           shippedSoFar == itemsShippedCount[o] + Cardinality(DOMAIN itemIds)
           release      == now + IntraAutoReleaseDuration(isTopSeller)
<1>1. /\ orderStatus[o] \in {"Funded", "PartiallyShipped"}
      /\ Cardinality(DOMAIN itemIds) \in 1..MAX_ITEMS_PER_GROUP
      /\ \A i \in shipped : OrderOf[i] = o /\ itemStatus[i] = "Pending"
      /\ \E amount : UpdateSellerWeeklyVolume(SellerOf[o], amount)
      /\ nextGroupId < MaxGroups /\ nextGroupId' = groupId
      /\ shippedAt' = [shippedAt EXCEPT ![groupId] = now]
      /\ finalReleaseAfter' = [finalReleaseAfter EXCEPT ![groupId] = release]
      /\ itemStatus' = [i \in Items |-> IF i \in shipped THEN "Shipped" ELSE itemStatus[i]]
      /\ shipmentGroupId' = [i \in Items |-> IF i \in shipped THEN groupId
                                             ELSE shipmentGroupId[i]]
      /\ itemsShippedCount' = [itemsShippedCount EXCEPT ![o] = shippedSoFar]
      /\ orderStatus' = [orderStatus EXCEPT
                            ![o] = IF shippedSoFar = Cardinality(ItemsOf(o))
                                   THEN "AllShipped" ELSE "PartiallyShipped"]
      /\ UNCHANGED <<now, fundedAt, itemCommission, paidVars, earlyReleaseRequested,
                     tvlVars, pauseVars, adminVars>>
  BY DEF ShipItemsGrouped, FreshGroupId
<1>2. itemIds[1] \in shipped /\ shipped \subseteq ItemsOf(o)
  BY AmountsAssumption DEF Range
<1> HIDE DEF shipped
<1>3. /\ release \in Nat /\ release >= now + EARLY_RELEASE_WINDOW
      /\ nextGroupId \in Nat /\ groupId \in GroupIds /\ groupId > nextGroupId
      /\ Cardinality(DOMAIN itemIds) \in Nat
  <2>1. IntraAutoReleaseDuration(isTopSeller) \in Nat
        /\ IntraAutoReleaseDuration(isTopSeller) >= EARLY_RELEASE_WINDOW
    BY TimersAssumption DEF IntraAutoReleaseDuration
  <2>2. now \in Nat /\ nextGroupId \in 0..MaxGroups /\ MaxGroups \in Nat
    BY AmountsAssumption DEF IInv, TypeOK
  <2>3. release \in Nat /\ release >= now + EARLY_RELEASE_WINDOW
    BY <2>1, <2>2, TimersAssumption
  <2>4. nextGroupId \in Nat /\ groupId \in GroupIds /\ groupId > nextGroupId
    BY <1>1, <2>2
  <2>5. Cardinality(DOMAIN itemIds) \in Nat
    BY <1>1, AmountsAssumption
  <2>6. QED
    BY <2>3, <2>4, <2>5
<1> HIDE DEF release, groupId
<1>4. fundedAt[o] > 0
  BY <1>1 DEF IInv, UnfundedMeansFresh
<1>5. /\ orderStatus'[o] \in {"PartiallyShipped", "AllShipped"}
      /\ \A p \in Orders \ {o} : orderStatus'[p] = orderStatus[p]
      /\ orderStatus' \in [Orders -> OrderStatus]
  BY <1>1 DEF IInv, TypeOK
<1>6. TypeOK'
  <2>1. disputeSet' \in BOOLEAN /\ treasurySet' \in BOOLEAN
    BY <1>1, Zenon DEF IInv, TypeOK, adminVars
  <2>2. itemsShippedCount' \in [Orders -> Nat]
    BY <1>1, <1>3 DEF IInv, TypeOK
  <2>3. itemStatus' \in [Items -> ItemStatus] /\ shipmentGroupId' \in [Items -> 0..MaxGroups]
    <3>1. groupId \in 0..MaxGroups
      BY <1>3
    <3>2. QED
      BY <1>1, <3>1 DEF IInv, TypeOK
  <2>4. /\ nextGroupId' \in 0..MaxGroups /\ shippedAt' \in [GroupIds -> Nat]
        /\ finalReleaseAfter' \in [GroupIds -> Nat]
    <3>1. nextGroupId' \in 0..MaxGroups
      BY <1>1, <1>3
    <3>2. now \in Nat /\ shippedAt \in [GroupIds -> Nat] /\ finalReleaseAfter \in [GroupIds -> Nat]
      BY DEF IInv, TypeOK
    <3>3. QED
      BY <1>1, <1>3, <3>1, <3>2
  <2>5. /\ sellerWeeklyVolume' \in [Sellers -> Nat]
        /\ sellerWeekStartTimestamp' \in [Sellers -> Nat]
    BY <1>1, WeeklyVolumeType, PartiesAssumption DEF IInv
  <2>6. QED
    BY <1>1, <1>5, <2>1, <2>2, <2>3, <2>4, <2>5
       DEF IInv, TypeOK, paidVars, tvlVars, pauseVars, adminVars
<1>7. PaidExactlyOnce'
  BY <1>1 DEF IInv, PaidExactlyOnce, paidVars
<1>8. FundedMeansUntouched' /\ UnfundedMeansFresh'
  BY <1>1, <1>2, <1>4, <1>5, PartiesAssumption
     DEF IInv, FundedMeansUntouched, UnfundedMeansFresh
<1>9. OrderClosedWithItems'
  BY <1>1, <1>2, <1>5, PartiesAssumption DEF IInv, OrderClosedWithItems
<1>10. GroupsHandedOut'
  <2>1. \A g \in GroupIds : shippedAt'[g] <= now'
    BY <1>1, <1>3 DEF IInv, TypeOK, GroupsHandedOut
  <2>2. \A i \in Items : shipmentGroupId'[i] = IF i \in shipped THEN groupId
                                                 ELSE shipmentGroupId[i]
    BY <1>1
  <2>3. \A i \in Items : shipmentGroupId[i] \in 0..nextGroupId
    BY DEF IInv, TypeOK, GroupsHandedOut
  <2>4. \A i \in Items : /\ shipmentGroupId'[i] <= nextGroupId'
                         /\ itemStatus'[i] = "Shipped" => shipmentGroupId'[i] # 0
    <3>1. \A i \in Items : itemStatus[i] = "Shipped" => shipmentGroupId[i] # 0
      BY DEF IInv, GroupsHandedOut
    <3>2. nextGroupId' = groupId /\ groupId # 0
      BY <1>1, <1>3
    <3>3. QED
      BY <1>1, <1>3, <2>2, <2>3, <3>1, <3>2
  <2>5. \A i, j \in Items : shipmentGroupId'[i] = shipmentGroupId'[j] /\ shipmentGroupId'[i] # 0
                             => OrderOf[i] = OrderOf[j]
    <3>1. \A i, j \in Items : shipmentGroupId[i] = shipmentGroupId[j] /\ shipmentGroupId[i] # 0
                               => OrderOf[i] = OrderOf[j]
      BY DEF IInv, GroupsHandedOut
    <3>2. \A i \in shipped : OrderOf[i] = o
      BY <1>1
    <3>3. \A i \in Items : shipmentGroupId[i] # groupId
      BY <1>3, <2>3
    <3>4. QED
      BY <2>2, <3>1, <3>2, <3>3
  <2>6. QED
    BY <2>1, <2>4, <2>5 DEF GroupsHandedOut
<1>11. BuyerHasDisputeWindow'
  <2>1. /\ shippedAt'[groupId] = now /\ finalReleaseAfter'[groupId] = release
        /\ \A g \in GroupIds \ {groupId} : /\ shippedAt'[g] = shippedAt[g]
                                           /\ finalReleaseAfter'[g] = finalReleaseAfter[g]
    BY <1>1, <1>3 DEF IInv, TypeOK
  <2>2. \A i \in Items : shipmentGroupId[i] \in 0..nextGroupId
    BY DEF IInv, TypeOK, GroupsHandedOut
  <2>3. ASSUME NEW i \in Items, shipmentGroupId'[i] # 0
        PROVE  finalReleaseAfter'[shipmentGroupId'[i]]
                  >= shippedAt'[shipmentGroupId'[i]] + EARLY_RELEASE_WINDOW
    <3>1. CASE i \in shipped
      BY <1>1, <1>3, <2>1, <3>1
    <3>2. CASE i \notin shipped
      <4>1. /\ shipmentGroupId'[i] = shipmentGroupId[i]
            /\ shipmentGroupId[i] \in GroupIds \ {groupId}
        <5>1. shipmentGroupId'[i] = shipmentGroupId[i]
          BY <1>1, <3>2
        <5>2. shipmentGroupId[i] \in 0..MaxGroups
          BY DEF IInv, TypeOK
        <5>3. QED
          BY <1>3, <2>2, <2>3, <5>1, <5>2
      <4>2. QED
        BY <2>1, <2>3, <4>1 DEF IInv, BuyerHasDisputeWindow
    <3>3. QED
      BY <3>1, <3>2
  <2>4. QED
    BY <2>3 DEF BuyerHasDisputeWindow
<1>12. QED
  BY <1>6, <1>7, <1>8, <1>9, <1>10, <1>11 DEF IInv

(***************************************************************************)
(* The inductive invariant.                                                *)
(***************************************************************************)
LEMMA NextPreservesIInv == IInv /\ [Next]_vars => IInv'
<1> SUFFICES ASSUME IInv, [Next]_vars PROVE IInv'
  OBVIOUS
<1>1. ASSUME NEW o \in Orders, OrderEntryPoint(o) PROVE IInv'
  <2>1. ASSUME NEW isTopSeller \in BOOLEAN, CreateOrderWithItems(o, isTopSeller) PROVE IInv'
    BY <2>1, CreatePreservesIInv
  <2>2. CASE FundOrder(o)
    BY <2>2, FundPreservesIInv
  <2>3. CASE CancelOrder(o)
    BY <2>3, CancelPreservesIInv
  <2>4. ASSUME NEW n \in 1..MAX_ITEMS_PER_GROUP, NEW itemIds \in [1..n -> ItemsOf(o)],
               NEW isTopSeller \in BOOLEAN, ShipItemsGrouped(o, itemIds, isTopSeller)
        PROVE  IInv'
    BY <2>4, ShipPreservesIInv
  <2>5. CASE TriggerAutoRefundIfInactive(o) \/ ForceRefund(o)
    BY <2>5, RefundsPreserveIInv
  <2>6. CASE RegisterLegalHold(o) \/ ClearLegalHold(o)
    BY <2>6, AdminPreservesIInv
  <2>7. QED
    BY <1>1, <2>1, <2>2, <2>3, <2>4, <2>5, <2>6 DEF OrderEntryPoint
<1>2. ASSUME NEW g \in GroupIds, RequestEarlyRelease(g) \/ ConfirmGroupDelivery(g) PROVE IInv'
  BY <1>2, EarlyReleasePreservesIInv, DeliveryPreservesIInv
<1>3. ASSUME NEW i \in Items, ConfirmItemDelivery(i) \/ TriggerAutoReleaseForItem(i) PROVE IInv'
  BY <1>3, DeliveryPreservesIInv
<1>4. CASE OwnerEntryPoint
  BY <1>4, AdminPreservesIInv DEF OwnerEntryPoint
<1>5. CASE DisputeHook
  BY <1>5, MarkPreservesIInv, ResolvePreservesIInv DEF DisputeHook
<1>6. CASE Advance
  BY <1>6, AdminPreservesIInv
<1>7. CASE UNCHANGED vars
  <2>1. TypeOK'
    <3>1. disputeSet' \in BOOLEAN /\ treasurySet' \in BOOLEAN
      BY <1>7, Zenon DEF IInv, TypeOK, vars, escrowVars, adminVars
    <3>2. QED
      BY <1>7, <3>1 DEF IInv, TypeOK, vars, escrowVars, orderVars, itemVars, paidVars,
                        groupVars, tvlVars, weekVars, pauseVars, adminVars
  <2>2. UNCHANGED <<orderStatus, fundedAt, itemStatus, shipmentGroupId, paidVars, groupVars>>
        /\ now' >= now
    BY <1>7 DEF IInv, TypeOK, vars, escrowVars, orderVars, itemVars, paidVars, groupVars
  <2>3. QED
    BY <2>1, <2>2, Frame
<1>8. QED
  BY <1>1, <1>2, <1>3, <1>4, <1>5, <1>6, <1>7 DEF Next, EntryPoint

\* Every reachable state of the escrow satisfies the inductive invariant.
THEOREM EscrowInvariant == Spec => []IInv
<1>1. Init => IInv
  BY InitIInv
<1>2. IInv /\ [Next]_vars => IInv'
  BY NextPreservesIInv
<1>3. QED
  BY <1>1, <1>2, PTL DEF Spec

\* Every variable of the escrow keeps its type: no checked subtraction, timer or
\* counter of the contract can leave its range.
THEOREM EscrowTypeCorrect == Spec => []TypeOK
<1>1. IInv => TypeOK
  BY DEF IInv
<1>2. QED
  BY <1>1, EscrowInvariant, PTL

\* An item is paid out exactly once, whichever of the confirmations, timers,
\* disputes and refunds of the contract closes it.
THEOREM EscrowPaysExactlyOnce == Spec => []PaidExactlyOnce
<1>1. IInv => PaidExactlyOnce
  BY DEF IInv
<1>2. QED
  BY <1>1, EscrowInvariant, PTL

\* triggerAutoRefundIfInactive may refund the whole order: nothing of a Funded
\* order has been shipped or closed.
THEOREM EscrowFundedUntouched == Spec => []FundedMeansUntouched
<1>1. IInv => FundedMeansUntouched
  BY DEF IInv
<1>2. QED
  BY <1>1, EscrowInvariant, PTL

\* The status of an order and those of its items never disagree on whether the
\* order is closed.
THEOREM EscrowOrderFollowsItems == Spec => []OrderClosedWithItems
<1>1. IInv => OrderClosedWithItems
  BY DEF IInv
<1>2. QED
  BY <1>1, EscrowInvariant, PTL

\* Whatever the seller does, the buyer keeps the early release window to dispute.
THEOREM EscrowDisputeWindow == Spec => []BuyerHasDisputeWindow
<1>1. IInv => BuyerHasDisputeWindow
  BY DEF IInv
<1>2. QED
  BY <1>1, EscrowInvariant, PTL
-------------------------------------------------------------------------------
ItemUntouched(i) ==
    UNCHANGED <<itemStatus[i], releasedAmount[i], refundedAmount[i], commissionPaid[i]>>

ItemShipped(i) ==
    /\ now > pausedUntil
    /\ itemStatus[i] = "Pending" /\ itemStatus'[i] = "Shipped"

ItemClosed(i) ==
    /\ now > pausedUntil
    /\ OpenForDispute(i) /\ itemStatus'[i] \in TerminalItemStatus

ItemForceRefunded(i) ==
    /\ ~disputeSet /\ OrderOf[i] \in legalHoldRegistry
    /\ ~Terminal(i)
    /\ itemStatus'[i] = "Refunded" /\ orderStatus'[OrderOf[i]] = "Refunded"
    /\ ForceRefund(OrderOf[i])

\* What a step of anyone but the dispute contract does to an item.
ItemEffect(i) ==
    ItemUntouched(i) \/ ItemShipped(i) \/ ItemClosed(i) \/ ItemForceRefunded(i)

(***************************************************************************)
(* The effect of each entry point on an item.                              *)
(***************************************************************************)
LEMMA ReleaseEffect ==
  ASSUME NEW o, NEW R, \A j \in R : OpenForDispute(j), now > pausedUntil,
         TypeOK, ReleaseItemsFully(o, R), NEW i \in Items
  PROVE  ItemEffect(i)
<1>1. CASE i \in R
  BY <1>1 DEF ReleaseItemsFully, ItemEffect, ItemClosed
<1>2. CASE i \notin R
  BY <1>2 DEF ReleaseItemsFully, ItemEffect, ItemUntouched
<1>3. QED
  BY <1>1, <1>2

LEMMA OrderEntryPointEffect ==
  ASSUME IInv, NEW o \in Orders, OrderEntryPoint(o), NEW i \in Items
  PROVE  ItemEffect(i)
<1> USE DEF ItemEffect, ItemUntouched, ItemShipped, ItemClosed, ItemForceRefunded, paidVars,
            itemVars, WhenNotPaused
<1>1. ASSUME NEW isTopSeller \in BOOLEAN, CreateOrderWithItems(o, isTopSeller)
      PROVE  ItemEffect(i)
  BY <1>1 DEF CreateOrderWithItems
<1>2. CASE FundOrder(o) \/ CancelOrder(o) \/ RegisterLegalHold(o) \/ ClearLegalHold(o)
  BY <1>2 DEF FundOrder, CancelOrder, RegisterLegalHold, ClearLegalHold
<1>3. ASSUME NEW n \in 1..MAX_ITEMS_PER_GROUP, NEW itemIds \in [1..n -> ItemsOf(o)],
             NEW isTopSeller \in BOOLEAN, ShipItemsGrouped(o, itemIds, isTopSeller)
      PROVE  ItemEffect(i)
  BY <1>3 DEF ShipItemsGrouped
<1>4. CASE TriggerAutoRefundIfInactive(o)
  <2>1. CASE i \in ItemsOf(o)
    <3>1. OpenForDispute(i)
      BY <1>4, <2>1 DEF TriggerAutoRefundIfInactive, NoOpenDispute, OpenForDispute, IInv,
                        FundedMeansUntouched
    <3>2. QED
      BY <1>4, <2>1, <3>1 DEF TriggerAutoRefundIfInactive, RefundItems
  <2>2. CASE i \notin ItemsOf(o)
    BY <1>4, <2>2 DEF TriggerAutoRefundIfInactive, RefundItems
  <2>3. QED
    BY <2>1, <2>2
<1>5. CASE ForceRefund(o)
  <2> DEFINE open == {j \in ItemsOf(o) : ~Terminal(j)}
             remaining == [j \in Items |-> RemainingInEscrow(j)]
  <2>1. /\ ~disputeSet /\ o \in legalHoldRegistry
        /\ RefundItems(o, open, remaining)
    BY <1>5 DEF ForceRefund
  <2>2. CASE i \in open
    <3>1. itemStatus'[i] = "Refunded" /\ OrderOf[i] = o /\ orderStatus'[o] = "Refunded"
      BY <2>1, <2>2 DEF RefundItems, IInv, TypeOK
    <3>2. ForceRefund(OrderOf[i])
      BY <1>5, <3>1
    <3>3. QED
      BY <2>1, <2>2, <3>1, <3>2
  <2>3. CASE i \notin open
    BY <2>1, <2>3 DEF RefundItems
  <2>4. QED
    BY <2>2, <2>3
<1>6. QED
  BY <1>1, <1>2, <1>3, <1>4, <1>5 DEF OrderEntryPoint

LEMMA EntryPointEffect ==
  ASSUME IInv, EntryPoint, NEW i \in Items
  PROVE  ItemEffect(i)
<1>1. ASSUME NEW g \in GroupIds, RequestEarlyRelease(g) PROVE ItemEffect(i)
  BY <1>1 DEF RequestEarlyRelease, itemVars, paidVars, ItemEffect, ItemUntouched
<1>2. ASSUME NEW g \in GroupIds, ConfirmGroupDelivery(g) PROVE ItemEffect(i)
  <2>1. now > pausedUntil
    BY <1>2 DEF ConfirmGroupDelivery, WhenNotPaused
  <2>2. PICK j \in Items : ReleaseItemsFully(OrderOf[j],
                               {k \in GroupItems(g) : itemStatus[k] = "Shipped"})
    BY <1>2 DEF ConfirmGroupDelivery, GroupItems
  <2>3. \A k \in {k \in GroupItems(g) : itemStatus[k] = "Shipped"} : OpenForDispute(k)
    BY DEF OpenForDispute
  <2>4. QED
    BY <2>1, <2>2, <2>3, ReleaseEffect DEF IInv
<1>3. ASSUME NEW j \in Items, ConfirmItemDelivery(j) \/ TriggerAutoReleaseForItem(j)
      PROVE  ItemEffect(i)
  <2>1. now > pausedUntil /\ OpenForDispute(j) /\ ReleaseItemsFully(OrderOf[j], {j})
    BY <1>3 DEF ConfirmItemDelivery, TriggerAutoReleaseForItem, WhenNotPaused, OpenForDispute
  <2>2. \A k \in {j} : OpenForDispute(k)
    BY <2>1
  <2>3. QED
    BY <2>1, <2>2, ReleaseEffect DEF IInv
<1>4. CASE OwnerEntryPoint
  BY <1>4 DEF OwnerEntryPoint, EmergencyPause, SetDisputeContract, SetCommissionTreasury,
              itemVars, paidVars, ItemEffect, ItemUntouched
<1>5. QED
  BY <1>1, <1>2, <1>3, <1>4, OrderEntryPointEffect DEF EntryPoint

(***************************************************************************)
(* The effect of the dispute contract's calls.                             *)
(***************************************************************************)
LEMMA MarkEffect ==
  ASSUME TypeOK, NEW j \in Items, MarkItemDisputed(j)
  PROVE  /\ disputeSet /\ OpenForDispute(j) /\ itemStatus'[j] = "Disputed"
         /\ \A i \in Items \ {j} : ItemUntouched(i)
         /\ orderStatus' = orderStatus
BY DEF TypeOK, MarkItemDisputed, ItemUntouched, paidVars, orderVars

LEMMA ResolveEffect ==
  ASSUME TypeOK, NEW j \in Items, NEW refundAmount, ResolveItemDispute(j, refundAmount)
  PROVE  /\ disputeSet /\ itemStatus[j] = "Disputed" /\ itemStatus'[j] \in TerminalItemStatus
         /\ \A i \in Items \ {j} : ItemUntouched(i)
         /\ orderStatus' = [orderStatus EXCEPT
                               ![OrderOf[j]] = ComputeNewOrderStatus(OrderOf[j], itemStatus')]
<1> DEFINE share == ProRata(RemainingInEscrow(j) - refundAmount, itemCommission[j], PriceOf[j])
           net == RemainingInEscrow(j) - refundAmount - share
<1>1. /\ disputeSet /\ itemStatus[j] = "Disputed"
      /\ itemStatus' = [itemStatus EXCEPT
                          ![j] = IF refundAmount = PriceOf[j] THEN "Refunded" ELSE "Released"]
      /\ releasedAmount' = [releasedAmount EXCEPT ![j] = @ + net]
      /\ refundedAmount' = [refundedAmount EXCEPT ![j] = @ + refundAmount]
      /\ commissionPaid' = [commissionPaid EXCEPT ![j] = @ + share]
      /\ orderStatus' = [orderStatus EXCEPT
                            ![OrderOf[j]] = ComputeNewOrderStatus(OrderOf[j], itemStatus')]
  BY DEF ResolveItemDispute
<1> HIDE DEF share, net
<1>2. QED
  BY <1>1 DEF TypeOK, ItemUntouched

(***************************************************************************)
(* A closed order keeps its status.                                        *)
(***************************************************************************)
LEMMA ClosedOrderStays ==
  ASSUME NEW o, NEW status, orderStatus[o] \in ClosedOrderStatus
  PROVE  ComputeNewOrderStatus(o, status) = orderStatus[o]
BY DEF ComputeNewOrderStatus

OrderSettled(o) == orderStatus[o] \in ClosedOrderStatus => UNCHANGED orderStatus[o]

LEMMA RecomputedOrderSettled ==
  ASSUME TypeOK, NEW p \in Orders, NEW o, NEW status,
         orderStatus' = [orderStatus EXCEPT ![o] = ComputeNewOrderStatus(o, status)]
  PROVE  OrderSettled(p)
BY ClosedOrderStays DEF TypeOK, OrderSettled

LEMMA NextSettlesOrders ==
  ASSUME IInv, Next, NEW p \in Orders
  PROVE  OrderSettled(p)
<1>1. ASSUME NEW o \in Orders, OrderEntryPoint(o) PROVE OrderSettled(p)
  <2>1. ASSUME NEW isTopSeller \in BOOLEAN, CreateOrderWithItems(o, isTopSeller)
        PROVE  OrderSettled(p)
    BY <2>1 DEF CreateOrderWithItems, OrderSettled, IInv, TypeOK
  <2>2. CASE FundOrder(o) \/ CancelOrder(o) \/ RegisterLegalHold(o) \/ ClearLegalHold(o)
    BY <2>2 DEF FundOrder, CancelOrder, RegisterLegalHold, ClearLegalHold, orderVars,
                OrderSettled, IInv, TypeOK
  <2>3. ASSUME NEW n \in 1..MAX_ITEMS_PER_GROUP, NEW itemIds \in [1..n -> ItemsOf(o)],
               NEW isTopSeller \in BOOLEAN, ShipItemsGrouped(o, itemIds, isTopSeller)
        PROVE  OrderSettled(p)
    BY <2>3 DEF ShipItemsGrouped, OrderSettled, IInv, TypeOK
  <2>4. CASE TriggerAutoRefundIfInactive(o)
    BY <2>4 DEF TriggerAutoRefundIfInactive, RefundItems, OrderSettled, IInv, TypeOK
  <2>5. CASE ForceRefund(o)
    BY <2>5 DEF ForceRefund, RefundItems, OrderSettled, IInv, TypeOK
  <2>6. QED
    BY <1>1, <2>1, <2>2, <2>3, <2>4, <2>5 DEF OrderEntryPoint
<1>2. ASSUME NEW o, NEW R, ReleaseItemsFully(o, R) PROVE OrderSettled(p)
  BY <1>2, RecomputedOrderSettled DEF ReleaseItemsFully, IInv
<1>3. ASSUME NEW g \in GroupIds, RequestEarlyRelease(g) \/ ConfirmGroupDelivery(g)
      PROVE  OrderSettled(p)
  BY <1>2, <1>3 DEF RequestEarlyRelease, ConfirmGroupDelivery, orderVars, OrderSettled
<1>4. ASSUME NEW i \in Items, ConfirmItemDelivery(i) \/ TriggerAutoReleaseForItem(i)
      PROVE  OrderSettled(p)
  BY <1>2, <1>4 DEF ConfirmItemDelivery, TriggerAutoReleaseForItem
<1>5. CASE OwnerEntryPoint
  BY <1>5 DEF OwnerEntryPoint, EmergencyPause, SetDisputeContract, SetCommissionTreasury,
              orderVars, OrderSettled
<1>6. CASE DisputeHook
  <2>1. ASSUME NEW i \in Items, MarkItemDisputed(i) PROVE OrderSettled(p)
    BY <2>1, MarkEffect DEF OrderSettled, IInv
  <2>2. ASSUME NEW i \in Items, NEW refundAmount \in 0..PriceOf[i],
               ResolveItemDispute(i, refundAmount)
        PROVE  OrderSettled(p)
    BY <2>2, ResolveEffect, RecomputedOrderSettled DEF IInv
  <2>3. QED
    BY <1>6, <2>1, <2>2 DEF DisputeHook
<1>7. CASE Advance
  BY <1>7 DEF Advance, escrowVars, orderVars, OrderSettled
<1>8. QED
  BY <1>1, <1>3, <1>4, <1>5, <1>6, <1>7 DEF Next, EntryPoint

LEMMA NextItemSettled ==
  ASSUME IInv, Next, NEW i \in Items, Terminal(i)
  PROVE  ItemUntouched(i)
<1>1. CASE EntryPoint
  <2>1. ItemEffect(i)
    BY <1>1, EntryPointEffect
  <2>2. QED
    BY <2>1 DEF ItemEffect, ItemShipped, ItemClosed, ItemForceRefunded, OpenForDispute
<1>2. CASE DisputeHook
  <2>1. PICK j \in Items : MarkItemDisputed(j)
                           \/ \E refundAmount \in 0..PriceOf[j] : ResolveItemDispute(j, refundAmount)
    BY <1>2 DEF DisputeHook
  <2>2. i # j
    BY <2>1, MarkEffect, ResolveEffect DEF OpenForDispute, IInv
  <2>3. QED
    BY <2>1, <2>2, MarkEffect, ResolveEffect DEF IInv
<1>3. CASE Advance
  BY <1>3 DEF Advance, escrowVars, itemVars, paidVars, ItemUntouched
<1>4. QED
  BY <1>1, <1>2, <1>3 DEF Next

\* Nothing the parties, the keepers, the owner or the dispute contract send changes an
\* item that was settled or an order that was closed.
THEOREM EscrowSettledIsFinal == Spec => SettledIsFinal
<1>1. IInv /\ [Next]_vars
      => [/\ \A i \in Items : Terminal(i) => ItemUntouched(i)
          /\ \A o \in Orders : OrderSettled(o)]_vars
  BY NextItemSettled, NextSettlesOrders
<1>2. QED
  BY <1>1, EscrowInvariant, PTL DEF Spec, SettledIsFinal, ItemUntouched, OrderSettled

\* While the contract is paused only the dispute contract, and the owner under a legal
\* hold, still move an item.
THEOREM EscrowPauseFreezesItems == Spec => PauseFreezesItems
<1> DEFINE Frozen(i) == itemStatus'[i] # itemStatus[i] =>
               \/ disputeSet /\ (itemStatus'[i] = "Disputed" \/ itemStatus[i] = "Disputed")
               \/ ~disputeSet /\ OrderOf[i] \in legalHoldRegistry
<1>1. IInv /\ [Next]_vars => [now <= pausedUntil => \A i \in Items : Frozen(i)]_vars
  <2> SUFFICES ASSUME IInv, Next, now <= pausedUntil, NEW i \in Items PROVE Frozen(i)
    OBVIOUS
  <2>1. CASE EntryPoint
    <3>1. ~(now > pausedUntil)
      BY DEF IInv, TypeOK
    <3>2. ItemEffect(i)
      BY <2>1, EntryPointEffect
    <3>3. QED
      BY <3>1, <3>2 DEF ItemEffect, ItemUntouched, ItemShipped, ItemClosed, ItemForceRefunded
  <2>2. CASE DisputeHook
    <3>1. PICK j \in Items :
            MarkItemDisputed(j)
            \/ \E refundAmount \in 0..PriceOf[j] : ResolveItemDispute(j, refundAmount)
      BY <2>2 DEF DisputeHook
    <3>2. QED
      BY <3>1, MarkEffect, ResolveEffect DEF IInv, ItemUntouched
  <2>3. CASE Advance
    BY <2>3 DEF Advance, escrowVars, itemVars
  <2>4. QED
    BY <2>1, <2>2, <2>3 DEF Next
<1>2. QED
  BY <1>1, EscrowInvariant, PTL DEF Spec, PauseFreezesItems

(***************************************************************************)
(* The release timers: a shipment starts the timer of a group that had     *)
(* none, and only requestEarlyRelease changes one that runs.               *)
(***************************************************************************)
UnusedGroupsHaveNoTimer ==
    \A g \in GroupIds : g > nextGroupId => finalReleaseAfter[g] = 0

TimersKept == \A g \in GroupIds : finalReleaseAfter[g] > 0 =>
                  finalReleaseAfter'[g] <= finalReleaseAfter[g]

LEMMA SameTimers ==
  ASSUME IInv, UnusedGroupsHaveNoTimer, UNCHANGED groupVars
  PROVE  UnusedGroupsHaveNoTimer' /\ TimersKept
<1>1. nextGroupId' = nextGroupId /\ finalReleaseAfter' = finalReleaseAfter
  BY DEF groupVars
<1>2. \A g \in GroupIds : finalReleaseAfter[g] \in Nat
  BY DEF IInv, TypeOK
<1>3. QED
  BY <1>1, <1>2 DEF UnusedGroupsHaveNoTimer, TimersKept

LEMMA NextKeepsTimers ==
  ASSUME IInv, UnusedGroupsHaveNoTimer, Next
  PROVE  UnusedGroupsHaveNoTimer' /\ TimersKept
<1>1. ASSUME NEW o \in Orders, OrderEntryPoint(o)
      PROVE  UnusedGroupsHaveNoTimer' /\ TimersKept
  <2>1. ASSUME NEW isTopSeller \in BOOLEAN, CreateOrderWithItems(o, isTopSeller)
        PROVE  UNCHANGED groupVars
    BY <2>1 DEF CreateOrderWithItems
  <2>2. ASSUME NEW n \in 1..MAX_ITEMS_PER_GROUP, NEW itemIds \in [1..n -> ItemsOf(o)],
               NEW isTopSeller \in BOOLEAN, ShipItemsGrouped(o, itemIds, isTopSeller)
        PROVE  UnusedGroupsHaveNoTimer' /\ TimersKept
    <3> DEFINE releaseAt == now + IntraAutoReleaseDuration(isTopSeller)
    <3>1. /\ nextGroupId < MaxGroups /\ nextGroupId' = nextGroupId + 1
          /\ finalReleaseAfter' = [finalReleaseAfter EXCEPT ![nextGroupId + 1] = releaseAt]
      BY <2>2 DEF ShipItemsGrouped, FreshGroupId
    <3>2. /\ nextGroupId \in Nat /\ finalReleaseAfter \in [GroupIds -> Nat]
          /\ nextGroupId + 1 \in GroupIds
          /\ finalReleaseAfter[nextGroupId + 1] = 0
      <4>1. nextGroupId \in 0..MaxGroups /\ finalReleaseAfter \in [GroupIds -> Nat]
        BY DEF IInv, TypeOK
      <4>2. nextGroupId \in Nat /\ nextGroupId + 1 \in GroupIds
            /\ nextGroupId + 1 > nextGroupId
        BY <3>1, <4>1, AmountsAssumption
      <4>3. QED
        BY <4>1, <4>2 DEF UnusedGroupsHaveNoTimer
    <3> HIDE DEF releaseAt
    <3>3. QED
      BY <3>1, <3>2 DEF UnusedGroupsHaveNoTimer, TimersKept
  <2>3. CASE ~\E n \in 1..MAX_ITEMS_PER_GROUP : \E itemIds \in [1..n -> ItemsOf(o)] :
                \E isTopSeller \in BOOLEAN : ShipItemsGrouped(o, itemIds, isTopSeller)
    BY <1>1, <2>1, <2>3, SameTimers
       DEF OrderEntryPoint, FundOrder, CancelOrder, RegisterLegalHold, ClearLegalHold,
           TriggerAutoRefundIfInactive, ForceRefund, RefundItems
  <2>4. QED
    BY <2>2, <2>3
<1>2. ASSUME NEW g \in GroupIds, RequestEarlyRelease(g)
      PROVE  UnusedGroupsHaveNoTimer' /\ TimersKept
  <2>1. /\ g <= nextGroupId /\ nextGroupId' = nextGroupId
        /\ finalReleaseAfter' = [finalReleaseAfter EXCEPT ![g] = ShortenedRelease(g)]
    BY <1>2 DEF RequestEarlyRelease
  <2>2. ShortenedRelease(g) \in Nat /\ ShortenedRelease(g) <= finalReleaseAfter[g]
    <3>1. now \in Nat /\ finalReleaseAfter[g] \in Nat
      BY DEF IInv, TypeOK
    <3>2. now + EARLY_RELEASE_WINDOW \in Nat
      BY <3>1, TimersAssumption
    <3>3. QED
      BY <3>1, <3>2 DEF ShortenedRelease
  <2>3. nextGroupId \in Nat /\ finalReleaseAfter \in [GroupIds -> Nat]
    BY AmountsAssumption DEF IInv, TypeOK
  <2>4. QED
    BY <2>1, <2>2, <2>3, AmountsAssumption DEF UnusedGroupsHaveNoTimer, TimersKept
<1>3. ASSUME NEW g \in GroupIds, ConfirmGroupDelivery(g)
      PROVE  UnusedGroupsHaveNoTimer' /\ TimersKept
  BY <1>3, SameTimers DEF ConfirmGroupDelivery, ReleaseItemsFully
<1>4. ASSUME NEW i \in Items, ConfirmItemDelivery(i) \/ TriggerAutoReleaseForItem(i)
      PROVE  UnusedGroupsHaveNoTimer' /\ TimersKept
  BY <1>4, SameTimers DEF ConfirmItemDelivery, TriggerAutoReleaseForItem, ReleaseItemsFully
<1>5. CASE OwnerEntryPoint
  BY <1>5, SameTimers
     DEF OwnerEntryPoint, EmergencyPause, SetDisputeContract, SetCommissionTreasury
<1>6. CASE DisputeHook
  BY <1>6, SameTimers DEF DisputeHook, MarkItemDisputed, ResolveItemDispute
<1>7. CASE Advance
  BY <1>7, SameTimers DEF Advance, escrowVars
<1>8. QED
  BY <1>1, <1>2, <1>3, <1>4, <1>5, <1>6, <1>7 DEF Next, EntryPoint

\* No shipment, early-release request or later order postpones the release of a group.
THEOREM EscrowReleaseNeverPostponed == Spec => ReleaseNeverPostponed
<1>1. Init => UnusedGroupsHaveNoTimer
  BY DEF Init, UnusedGroupsHaveNoTimer
<1>2. IInv /\ UnusedGroupsHaveNoTimer /\ [Next]_vars
      => UnusedGroupsHaveNoTimer' /\ [TimersKept]_vars
  BY NextKeepsTimers, SameTimers DEF vars, escrowVars
<1>3. QED
  BY <1>1, <1>2, EscrowInvariant, PTL DEF Spec, ReleaseNeverPostponed, TimersKept

(***************************************************************************)
(* The refinement of ItemCustody.  A funding is a Deposit of its order's   *)
(* items; any other step is the Settle of the items it closes, of which    *)
(* the invariant says that they were paid out in full.                     *)
(***************************************************************************)
Stage(i) == IF ~Funded(i) THEN "outside" ELSE IF Terminal(i) THEN "settled" ELSE "held"

LEMMA FundedOnlyByFundOrder ==
  ASSUME Next
  PROVE  fundedAt' = fundedAt \/ \E o \in Orders : FundOrder(o)
<1>1. ASSUME NEW o \in Orders, OrderEntryPoint(o), ~FundOrder(o) PROVE fundedAt' = fundedAt
  BY <1>1 DEF OrderEntryPoint, CreateOrderWithItems, CancelOrder, ShipItemsGrouped,
              TriggerAutoRefundIfInactive, ForceRefund, RefundItems, RegisterLegalHold,
              ClearLegalHold, orderVars
<1>2. ASSUME NEW g \in GroupIds, RequestEarlyRelease(g) \/ ConfirmGroupDelivery(g)
      PROVE  fundedAt' = fundedAt
  BY <1>2 DEF RequestEarlyRelease, ConfirmGroupDelivery, ReleaseItemsFully, orderVars
<1>3. ASSUME NEW i \in Items, ConfirmItemDelivery(i) \/ TriggerAutoReleaseForItem(i)
      PROVE  fundedAt' = fundedAt
  BY <1>3 DEF ConfirmItemDelivery, TriggerAutoReleaseForItem, ReleaseItemsFully
<1>4. CASE OwnerEntryPoint \/ DisputeHook \/ Advance
  BY <1>4 DEF OwnerEntryPoint, EmergencyPause, SetDisputeContract, SetCommissionTreasury,
              DisputeHook, MarkItemDisputed, ResolveItemDispute, Advance, escrowVars, orderVars
<1>5. QED
  BY <1>1, <1>2, <1>3, <1>4 DEF Next, EntryPoint

LEMMA CustodyInit == Init => Custody!Init
BY PartiesAssumption DEF Init, Custody!Init, Funded

LEMMA FundDeposits ==
  ASSUME IInv, NEW o \in Orders, FundOrder(o)
  PROVE  Custody!Next
<1>1. /\ orderStatus[o] = "Created"
      /\ fundedAt' = [fundedAt EXCEPT ![o] = now]
      /\ UNCHANGED <<itemVars, paidVars>>
  BY DEF FundOrder
<1>2. \A i \in ItemsOf(o) : Stage(i) = "outside" /\ Stage(i)' = "held"
  <2> SUFFICES ASSUME NEW i \in ItemsOf(o) PROVE Stage(i) = "outside" /\ Stage(i)' = "held"
    OBVIOUS
  <2>1. fundedAt[o] = 0 /\ itemStatus[i] = "Pending"
    BY <1>1 DEF IInv, UnfundedMeansFresh
  <2>2. fundedAt'[o] > 0
    BY <1>1, ClockAssumption DEF IInv, TypeOK
  <2>3. itemStatus' = itemStatus
    BY <1>1 DEF itemVars
  <2>4. QED
    BY <2>1, <2>2, <2>3 DEF Stage, Funded
<1>3. \A i \in Items \ ItemsOf(o) : Stage(i)' = Stage(i)
  BY <1>1, PartiesAssumption DEF IInv, TypeOK, Stage, Funded, itemVars
<1>4. Custody!Deposit(ItemsOf(o))
  BY <1>1, <1>2, <1>3 DEF Custody!Deposit, Stage, paidVars
<1>5. QED
  BY <1>4 DEF Custody!Next

LEMMA OtherStepsSettle ==
  ASSUME IInv, IInv', Next, fundedAt' = fundedAt
  PROVE  Custody!Next
<1>0. PICK S \in SUBSET Items : \A i \in Items : i \in S <=> ~Terminal(i) /\ Terminal(i)'
  <2>1. {i \in Items : ~Terminal(i) /\ Terminal(i)'} \in SUBSET Items
    OBVIOUS
  <2>2. QED
    BY <2>1
<1>1. \A i \in Items : Terminal(i) => ItemUntouched(i) /\ Terminal(i)'
  BY NextItemSettled DEF ItemUntouched
<1>2. \A i \in Items : Terminal(i)' => fundedAt[OrderOf[i]] > 0
  <2> SUFFICES ASSUME NEW i \in Items, Terminal(i)' PROVE fundedAt[OrderOf[i]] > 0
    OBVIOUS
  <2>1. OrderOf[i] \in Orders /\ i \in ItemsOf(OrderOf[i])
    BY PartiesAssumption
  <2>2. QED
    BY <2>1 DEF IInv, UnfundedMeansFresh
<1>3. \A i \in S : Stage(i) = "held" /\ Stage(i)' = "settled"
  BY <1>0, <1>2 DEF Stage, Funded
<1>4. \A i \in Items \ S : Stage(i)' = Stage(i)
  BY <1>0, <1>1 DEF Stage, Funded
<1>5. \A i \in S :
         /\ releasedAmount'[i] >= 0 /\ commissionPaid'[i] >= 0 /\ refundedAmount'[i] >= 0
         /\ releasedAmount'[i] + commissionPaid'[i] + refundedAmount'[i] = PriceOf[i]
  BY <1>0 DEF IInv, TypeOK, PaidExactlyOnce
<1>6. \A i \in Items \ S :
         /\ releasedAmount'[i] = releasedAmount[i]
         /\ commissionPaid'[i] = commissionPaid[i]
         /\ refundedAmount'[i] = refundedAmount[i]
  <2> SUFFICES ASSUME NEW i \in Items \ S
               PROVE  /\ releasedAmount'[i] = releasedAmount[i]
                      /\ commissionPaid'[i] = commissionPaid[i]
                      /\ refundedAmount'[i] = refundedAmount[i]
    OBVIOUS
  <2>1. CASE Terminal(i)
    BY <1>1, <2>1 DEF ItemUntouched
  <2>2. CASE ~Terminal(i) /\ ~Terminal(i)'
    BY <2>2 DEF IInv, PaidExactlyOnce
  <2>3. QED
    BY <1>0, <2>1, <2>2
<1>7. Custody!Settle(S)
  BY <1>3, <1>4, <1>5, <1>6 DEF Custody!Settle, Stage
<1>8. QED
  BY <1>7 DEF Custody!Next

\* The escrow implements the custody of each item's USDT: whatever is sent to it, in
\* whatever order, the money of an item comes in once and leaves once, whole.
THEOREM EscrowImplementsCustody == Spec => ImplementsCustody
<1>1. Init => Custody!Init
  BY CustodyInit
<1>2. IInv /\ IInv' /\ [Next]_vars => [Custody!Next]_Custody!custodyVars
  <2>1. CASE UNCHANGED vars
    BY <2>1 DEF vars, escrowVars, orderVars, itemVars, paidVars, Custody!custodyVars, Funded
  <2>2. ASSUME IInv, IInv', Next PROVE Custody!Next
    BY <2>2, FundedOnlyByFundOrder, FundDeposits, OtherStepsSettle
  <2>3. QED
    BY <2>1, <2>2
<1>3. QED
  BY <1>1, <1>2, EscrowInvariant, PTL DEF Spec, ImplementsCustody, Custody!Spec

(***************************************************************************)
(* The refinement of OrderLifecycle.  Each entry point that moves a status *)
(* is the step of the same name; the others, requestEarlyRelease included, *)
(* leave every status and both timers as they were.                        *)
(***************************************************************************)
ReleaseTimers ==
    [i \in Items |->
        IF shipmentGroupId[i] = 0 THEN "none"
        ELSE IF now >= finalReleaseAfter[shipmentGroupId[i]] THEN "due" ELSE "running"]

RefundTimers ==
    [o \in Orders |->
        IF fundedAt[o] = 0 THEN "none"
        ELSE IF now > fundedAt[o] + AUTO_REFUND_INACTIVE_INTRA THEN "due" ELSE "running"]

\* What the off-chain programs see.
seenVars == <<orderStatus, itemStatus, ReleaseTimers, RefundTimers>>

LEMMA SameTimersSeen ==
  ASSUME UNCHANGED <<now, shipmentGroupId, finalReleaseAfter>>
  PROVE  UNCHANGED ReleaseTimers
BY DEF ReleaseTimers

LEMMA SameDeadlinesSeen ==
  ASSUME UNCHANGED <<now, fundedAt>>
  PROVE  UNCHANGED RefundTimers
BY DEF RefundTimers

\* _computeNewOrderStatus is the abstract rule.
LEMMA SameStatusRule ==
  ASSUME NEW o, NEW status
  PROVE  Lifecycle!StatusAfter(o, status) = ComputeNewOrderStatus(o, status)
BY DEF Lifecycle!StatusAfter, Lifecycle!ItemsIn, Lifecycle!Closed, Lifecycle!Done,
       ComputeNewOrderStatus

LEMMA LifecycleFunded ==
  ASSUME IInv, NEW o \in Orders, fundedAt[o] > 0
  PROVE  Lifecycle!Funded(o)
BY DEF Lifecycle!Funded, IInv, TypeOK

\* The transactions that close the items of R.
LEMMA ReleaseSettles ==
  ASSUME NEW o \in Orders, NEW R, ReleaseItemsFully(o, R)
  PROVE  Lifecycle!Settle(o, R, "Released")
<1>1. /\ itemStatus' = [i \in Items |-> IF i \in R THEN "Released" ELSE itemStatus[i]]
      /\ orderStatus' = [orderStatus EXCEPT ![o] = ComputeNewOrderStatus(o, itemStatus')]
      /\ UNCHANGED <<now, fundedAt, shipmentGroupId, finalReleaseAfter>>
  BY DEF ReleaseItemsFully, groupVars
<1>2. UNCHANGED ReleaseTimers /\ UNCHANGED RefundTimers
  BY <1>1, SameTimersSeen, SameDeadlinesSeen
<1>3. QED
  BY <1>1, <1>2, SameStatusRule DEF Lifecycle!Settle, ReleaseTimers, RefundTimers

LEMMA DeliverySteps ==
  ASSUME IInv,
         \/ \E i \in Items : ConfirmItemDelivery(i) \/ TriggerAutoReleaseForItem(i)
         \/ \E g \in GroupIds : ConfirmGroupDelivery(g)
  PROVE  Lifecycle!LifecycleNext
<1>1. ASSUME NEW i \in Items, ConfirmItemDelivery(i) PROVE Lifecycle!LifecycleNext
  <2>1. OrderOf[i] \in Orders /\ {i} \in SUBSET Lifecycle!ItemsIn(OrderOf[i])
    BY PartiesAssumption DEF Lifecycle!ItemsIn
  <2>2. Lifecycle!Confirm(OrderOf[i], {i})
    BY <1>1, <2>1, ReleaseSettles
       DEF ConfirmItemDelivery, Lifecycle!Confirm, Lifecycle!ItemsIn
  <2>3. QED
    BY <2>1, <2>2 DEF Lifecycle!LifecycleNext
<1>2. ASSUME NEW i \in Items, TriggerAutoReleaseForItem(i) PROVE Lifecycle!LifecycleNext
  <2>1. OrderOf[i] \in Orders
    BY PartiesAssumption
  <2>2. ReleaseTimers[i] = "due"
    BY <1>2 DEF TriggerAutoReleaseForItem, ReleaseTimers
  <2>3. Lifecycle!AutoRelease(i)
    BY <1>2, <2>1, <2>2, ReleaseSettles
       DEF TriggerAutoReleaseForItem, OpenForDispute, Lifecycle!AutoRelease, Lifecycle!Done,
           ReleaseTimers
  <2>4. QED
    BY <2>3 DEF Lifecycle!LifecycleNext
<1>3. ASSUME NEW g \in GroupIds, ConfirmGroupDelivery(g) PROVE Lifecycle!LifecycleNext
  <2> DEFINE R == {i \in GroupItems(g) : itemStatus[i] = "Shipped"}
  <2>1. PICK j \in R : ReleaseItemsFully(OrderOf[j], R)
    BY <1>3 DEF ConfirmGroupDelivery
  <2>2. \A i \in R : i \in Items /\ OrderOf[i] = OrderOf[j]
    BY DEF GroupItems, IInv, GroupsHandedOut
  <2>3. OrderOf[j] \in Orders /\ R \in SUBSET Lifecycle!ItemsIn(OrderOf[j])
    BY <2>2, PartiesAssumption DEF Lifecycle!ItemsIn
  <2>4. R # {} /\ R \subseteq {i \in Lifecycle!ItemsIn(OrderOf[j]) : itemStatus[i] = "Shipped"}
    BY <2>3
  <2> HIDE DEF R
  <2>5. Lifecycle!Confirm(OrderOf[j], R)
    BY <2>1, <2>3, <2>4, ReleaseSettles DEF Lifecycle!Confirm
  <2>6. QED
    BY <2>3, <2>5 DEF Lifecycle!LifecycleNext
<1>4. QED
  BY <1>1, <1>2, <1>3

LEMMA DisputeSteps ==
  ASSUME IInv, DisputeHook
  PROVE  Lifecycle!LifecycleNext
<1>1. ASSUME NEW i \in Items, MarkItemDisputed(i) PROVE Lifecycle!LifecycleNext
  <2>1. /\ fundedAt[OrderOf[i]] > 0 /\ OpenForDispute(i) /\ OrderOf[i] \in Orders
        /\ itemStatus' = [itemStatus EXCEPT ![i] = "Disputed"]
        /\ orderStatus' = orderStatus
        /\ UNCHANGED <<now, fundedAt, shipmentGroupId, finalReleaseAfter>>
    BY <1>1, PartiesAssumption DEF MarkItemDisputed, orderVars, groupVars
  <2>2. UNCHANGED ReleaseTimers /\ UNCHANGED RefundTimers
    BY <2>1, SameTimersSeen, SameDeadlinesSeen
  <2>3. Lifecycle!Dispute(i)
    BY <2>1, <2>2, LifecycleFunded
       DEF OpenForDispute, Lifecycle!Dispute, Lifecycle!Done, ReleaseTimers, RefundTimers
  <2>4. QED
    BY <2>3 DEF Lifecycle!LifecycleNext
<1>2. ASSUME NEW i \in Items, NEW refundAmount, ResolveItemDispute(i, refundAmount)
      PROVE  Lifecycle!LifecycleNext
  <2> DEFINE s == IF refundAmount = PriceOf[i] THEN "Refunded" ELSE "Released"
  <2>1. /\ itemStatus[i] = "Disputed" /\ s \in Lifecycle!Done
        /\ itemStatus' = [itemStatus EXCEPT ![i] = s]
        /\ orderStatus' = [orderStatus EXCEPT
                              ![OrderOf[i]] = ComputeNewOrderStatus(OrderOf[i], itemStatus')]
        /\ UNCHANGED <<now, fundedAt, shipmentGroupId, finalReleaseAfter>>
    BY <1>2 DEF ResolveItemDispute, groupVars, Lifecycle!Done
  <2> HIDE DEF s
  <2>2. UNCHANGED ReleaseTimers /\ UNCHANGED RefundTimers
    BY <2>1, SameTimersSeen, SameDeadlinesSeen
  <2>3. itemStatus' = [k \in Items |-> IF k \in {i} THEN s ELSE itemStatus[k]]
    BY <2>1 DEF IInv, TypeOK
  <2>4. Lifecycle!Resolve(i, s)
    BY <2>1, <2>2, <2>3, SameStatusRule
       DEF Lifecycle!Resolve, Lifecycle!Settle, ReleaseTimers, RefundTimers
  <2>5. QED
    BY <2>1, <2>4 DEF Lifecycle!LifecycleNext
<1>3. QED
  BY <1>1, <1>2 DEF DisputeHook

LEMMA RefundSteps ==
  ASSUME IInv, NEW o \in Orders, TriggerAutoRefundIfInactive(o) \/ ForceRefund(o)
  PROVE  Lifecycle!LifecycleNext
<1>1. CASE TriggerAutoRefundIfInactive(o)
  <2>1. /\ orderStatus[o] = "Funded"
        /\ now > fundedAt[o] + AUTO_REFUND_INACTIVE_INTRA
        /\ \A i \in ItemsOf(o) : itemStatus[i] # "Disputed"
        /\ itemStatus' = [i \in Items |-> IF i \in ItemsOf(o) THEN "Refunded" ELSE itemStatus[i]]
        /\ orderStatus' = [orderStatus EXCEPT ![o] = "Refunded"]
        /\ UNCHANGED <<now, fundedAt, shipmentGroupId, finalReleaseAfter>>
    BY <1>1 DEF TriggerAutoRefundIfInactive, NoOpenDispute, RefundItems, groupVars
  <2>2. UNCHANGED ReleaseTimers /\ UNCHANGED RefundTimers
    BY <2>1, SameTimersSeen, SameDeadlinesSeen
  <2>3. RefundTimers[o] = "due"
    BY <2>1 DEF RefundTimers, IInv, UnfundedMeansFresh
  <2>4. \A i \in ItemsOf(o) : itemStatus'[i] = "Refunded"
    BY <2>1
  <2>5. Lifecycle!StatusAfter(o, itemStatus') = "Refunded"
    BY <2>1, <2>4 DEF Lifecycle!StatusAfter, Lifecycle!ItemsIn, Lifecycle!Closed,
                      Lifecycle!Done
  <2>6. Lifecycle!AutoRefund(o)
    BY <2>1, <2>2, <2>3, <2>5 DEF Lifecycle!AutoRefund, Lifecycle!Settle, Lifecycle!ItemsIn,
                                  ReleaseTimers, RefundTimers
  <2>7. QED
    BY <2>6 DEF Lifecycle!LifecycleNext
<1>2. CASE ForceRefund(o)
  <2>1. /\ fundedAt[o] > 0 /\ orderStatus[o] \notin ClosedOrderStatus
        /\ itemStatus' = [i \in Items |-> IF i \in {k \in ItemsOf(o) : ~Terminal(k)}
                                          THEN "Refunded" ELSE itemStatus[i]]
        /\ orderStatus' = [orderStatus EXCEPT ![o] = "Refunded"]
        /\ UNCHANGED <<now, fundedAt, shipmentGroupId, finalReleaseAfter>>
    BY <1>2 DEF ForceRefund, RefundItems, groupVars
  <2>2. UNCHANGED ReleaseTimers /\ UNCHANGED RefundTimers
    BY <2>1, SameTimersSeen, SameDeadlinesSeen
  <2>3. Lifecycle!ForceRefund(o)
    BY <2>1, <2>2, LifecycleFunded
       DEF Lifecycle!ForceRefund, Lifecycle!ItemsIn, Lifecycle!Closed, Lifecycle!Done,
           ReleaseTimers, RefundTimers
  <2>4. QED
    BY <2>3 DEF Lifecycle!LifecycleNext
<1>3. QED
  BY <1>1, <1>2

LEMMA OpeningSteps ==
  ASSUME IInv, NEW o \in Orders,
         \/ \E isTopSeller \in BOOLEAN : CreateOrderWithItems(o, isTopSeller)
         \/ FundOrder(o) \/ CancelOrder(o)
  PROVE  Lifecycle!LifecycleNext
<1>1. ASSUME NEW isTopSeller \in BOOLEAN, CreateOrderWithItems(o, isTopSeller)
      PROVE  Lifecycle!Create(o)
  <2>1. /\ orderStatus[o] = "None" /\ orderStatus' = [orderStatus EXCEPT ![o] = "Created"]
        /\ UNCHANGED <<now, itemStatus, fundedAt, shipmentGroupId, finalReleaseAfter>>
    BY <1>1 DEF CreateOrderWithItems, groupVars
  <2>2. QED
    BY <2>1, SameTimersSeen, SameDeadlinesSeen
       DEF Lifecycle!Create, ReleaseTimers, RefundTimers
<1>2. CASE CancelOrder(o)
  <2>1. /\ orderStatus[o] = "Created"
        /\ orderStatus' = [orderStatus EXCEPT ![o] = "Cancelled"]
        /\ UNCHANGED <<now, itemStatus, fundedAt, shipmentGroupId, finalReleaseAfter>>
    BY <1>2 DEF CancelOrder, itemVars, groupVars
  <2>2. Lifecycle!Cancel(o)
    BY <2>1, SameTimersSeen, SameDeadlinesSeen
       DEF Lifecycle!Cancel, ReleaseTimers, RefundTimers
  <2>3. QED
    BY <2>2 DEF Lifecycle!LifecycleNext
<1>3. CASE FundOrder(o)
  <2>1. /\ orderStatus[o] = "Created"
        /\ orderStatus' = [orderStatus EXCEPT ![o] = "Funded"]
        /\ fundedAt' = [fundedAt EXCEPT ![o] = now]
        /\ UNCHANGED <<now, itemStatus, shipmentGroupId, finalReleaseAfter>>
    BY <1>3 DEF FundOrder, itemVars, groupVars
  <2>2. UNCHANGED ReleaseTimers
    BY <2>1, SameTimersSeen
  <2>3. RefundTimers' = [RefundTimers EXCEPT ![o] = "running"]
    <3>1. /\ now \in Nat /\ now # 0 /\ AUTO_REFUND_INACTIVE_INTRA \in Nat
          /\ fundedAt \in [Orders -> Nat]
      BY ClockAssumption, TimersAssumption DEF IInv, TypeOK
    <3>2. RefundTimers'[o] = "running"
      BY <2>1, <3>1 DEF RefundTimers
    <3>3. \A p \in Orders \ {o} : RefundTimers'[p] = RefundTimers[p]
      BY <2>1, <3>1 DEF RefundTimers
    <3>4. QED
      BY <3>2, <3>3 DEF RefundTimers
  <2>4. Lifecycle!Fund(o)
    BY <2>1, <2>2, <2>3 DEF Lifecycle!Fund, ReleaseTimers, RefundTimers
  <2>5. QED
    BY <2>4 DEF Lifecycle!LifecycleNext
<1>4. QED
  BY <1>1, <1>2, <1>3 DEF Lifecycle!LifecycleNext

LEMMA ShipSteps ==
  ASSUME IInv, NEW o \in Orders, NEW n \in 1..MAX_ITEMS_PER_GROUP,
         NEW itemIds \in [1..n -> ItemsOf(o)], NEW isTopSeller \in BOOLEAN,
         ShipItemsGrouped(o, itemIds, isTopSeller)
  PROVE  Lifecycle!LifecycleNext
<1> DEFINE shipped == Range(itemIds)
           groupId == nextGroupId + 1
           releaseAt == now + IntraAutoReleaseDuration(isTopSeller)
<1>1. /\ orderStatus[o] \in {"Funded", "PartiallyShipped"}
      /\ \A i \in shipped : OrderOf[i] = o /\ itemStatus[i] = "Pending"
      /\ nextGroupId < MaxGroups
      /\ finalReleaseAfter' = [finalReleaseAfter EXCEPT ![groupId] = releaseAt]
      /\ itemStatus' = [i \in Items |-> IF i \in shipped THEN "Shipped" ELSE itemStatus[i]]
      /\ shipmentGroupId' = [i \in Items |-> IF i \in shipped THEN groupId
                                             ELSE shipmentGroupId[i]]
      /\ \E s \in {"PartiallyShipped", "AllShipped"} :
            orderStatus' = [orderStatus EXCEPT ![o] = s]
      /\ UNCHANGED <<now, fundedAt>>
  BY DEF ShipItemsGrouped, FreshGroupId
<1>2. /\ shipped # {} /\ shipped \in SUBSET Lifecycle!ItemsIn(o)
      /\ shipped \subseteq {i \in Lifecycle!ItemsIn(o) : itemStatus[i] = "Pending"}
  <2>1. n \in Nat /\ 1 \in 1..n
    BY AmountsAssumption
  <2>2. itemIds[1] \in shipped
    BY <2>1 DEF Range
  <2>3. shipped \in SUBSET ItemsOf(o)
    BY DEF Range
  <2>4. QED
    BY <1>1, <2>2, <2>3 DEF Lifecycle!ItemsIn
<1>3. /\ now \in Nat /\ nextGroupId \in Nat /\ finalReleaseAfter \in [GroupIds -> Nat]
      /\ groupId \in GroupIds /\ releaseAt \in Nat /\ releaseAt > now /\ groupId # 0
      /\ \A i \in Items : shipmentGroupId[i] \in 0..MaxGroups /\ shipmentGroupId[i] # groupId
  <2>1. /\ now \in Nat /\ nextGroupId \in 0..MaxGroups /\ MaxGroups \in Nat
        /\ finalReleaseAfter \in [GroupIds -> Nat]
        /\ \A i \in Items : shipmentGroupId[i] \in 0..MaxGroups
                            /\ shipmentGroupId[i] <= nextGroupId
    BY AmountsAssumption DEF IInv, TypeOK, GroupsHandedOut
  <2>2. IntraAutoReleaseDuration(isTopSeller) \in Nat \ {0}
    BY TimersAssumption DEF IntraAutoReleaseDuration
  <2>3. QED
    BY <1>1, <2>1, <2>2
<1> HIDE DEF shipped, groupId, releaseAt
<1>4. ReleaseTimers' = [i \in Items |-> IF i \in shipped THEN "running" ELSE ReleaseTimers[i]]
  <2>1. ASSUME NEW i \in Items, i \in shipped PROVE ReleaseTimers'[i] = "running"
    <3>1. shipmentGroupId'[i] = groupId /\ finalReleaseAfter'[groupId] = releaseAt /\ now' = now
      BY <1>1, <1>3, <2>1
    <3>2. QED
      BY <1>3, <3>1 DEF ReleaseTimers
  <2>2. ASSUME NEW i \in Items, i \notin shipped PROVE ReleaseTimers'[i] = ReleaseTimers[i]
    <3>1. shipmentGroupId'[i] = shipmentGroupId[i] /\ now' = now
      BY <1>1, <2>2
    <3>2. shipmentGroupId[i] # 0
          => finalReleaseAfter'[shipmentGroupId[i]] = finalReleaseAfter[shipmentGroupId[i]]
      BY <1>1, <1>3
    <3>3. QED
      BY <3>1, <3>2 DEF ReleaseTimers
  <2>3. QED
    BY <2>1, <2>2 DEF ReleaseTimers
<1>5. UNCHANGED RefundTimers
  BY <1>1, SameDeadlinesSeen
<1>6. Lifecycle!Ship(o, shipped)
  BY <1>1, <1>2, <1>4, <1>5 DEF Lifecycle!Ship, ReleaseTimers, RefundTimers
<1>7. QED
  BY <1>2, <1>6 DEF Lifecycle!LifecycleNext

\* The early release is not seen: a timer that runs still runs, one that is due stays so.
LEMMA EarlyReleaseUnseen ==
  ASSUME IInv, NEW g \in GroupIds, RequestEarlyRelease(g)
  PROVE  UNCHANGED seenVars
<1>1. /\ finalReleaseAfter' = [finalReleaseAfter EXCEPT ![g] = ShortenedRelease(g)]
      /\ UNCHANGED <<now, orderStatus, fundedAt, itemStatus, shipmentGroupId>>
  BY DEF RequestEarlyRelease, orderVars, itemVars
<1>2. /\ now \in Nat /\ finalReleaseAfter \in [GroupIds -> Nat]
      /\ EARLY_RELEASE_WINDOW \in Nat /\ EARLY_RELEASE_WINDOW > 0
      /\ \A i \in Items : shipmentGroupId[i] # 0 => shipmentGroupId[i] \in GroupIds
  <2>1. /\ now \in Nat /\ finalReleaseAfter \in [GroupIds -> Nat]
        /\ shipmentGroupId \in [Items -> 0..MaxGroups]
    BY DEF IInv, TypeOK
  <2>2. QED
    BY <2>1, TimersAssumption, AmountsAssumption
<1>3. /\ finalReleaseAfter'[g] \in Nat
      /\ now >= finalReleaseAfter'[g] <=> now >= finalReleaseAfter[g]
  BY <1>1, <1>2 DEF ShortenedRelease
<1>4. \A h \in GroupIds : now' >= finalReleaseAfter'[h] <=> now >= finalReleaseAfter[h]
  BY <1>1, <1>2, <1>3
<1>5. ASSUME NEW i \in Items PROVE ReleaseTimers'[i] = ReleaseTimers[i]
  BY <1>1, <1>2, <1>4 DEF ReleaseTimers
<1>6. UNCHANGED ReleaseTimers
  BY <1>5 DEF ReleaseTimers
<1>7. QED
  BY <1>1, <1>6, SameDeadlinesSeen DEF seenVars

LEMMA TimeSteps ==
  ASSUME IInv, Advance
  PROVE  Lifecycle!LifecycleNext
<1> DEFINE released == {i \in Items : ReleaseTimers[i] = "running" /\ ReleaseTimers'[i] = "due"}
           refunded == {o \in Orders : RefundTimers[o] = "running" /\ RefundTimers'[o] = "due"}
<1>1. /\ now \in Nat /\ now' \in Nat /\ now' >= now
      /\ UNCHANGED <<orderStatus, fundedAt, itemStatus, shipmentGroupId, finalReleaseAfter>>
      /\ finalReleaseAfter \in [GroupIds -> Nat] /\ fundedAt \in [Orders -> Nat]
      /\ AUTO_REFUND_INACTIVE_INTRA \in Nat
      /\ \A i \in Items : shipmentGroupId[i] # 0 => shipmentGroupId[i] \in GroupIds
  BY TimersAssumption, AmountsAssumption
     DEF Advance, Tick, escrowVars, orderVars, itemVars, groupVars, IInv, TypeOK
<1>2. ReleaseTimers' = [i \in Items |-> IF i \in released THEN "due" ELSE ReleaseTimers[i]]
  <2>1. ASSUME NEW i \in Items
        PROVE  ReleaseTimers'[i] = IF i \in released THEN "due" ELSE ReleaseTimers[i]
    <3>1. CASE shipmentGroupId[i] = 0
      BY <1>1, <3>1 DEF ReleaseTimers
    <3>2. CASE shipmentGroupId[i] # 0
      <4>1. /\ finalReleaseAfter[shipmentGroupId[i]] \in Nat
            /\ finalReleaseAfter'[shipmentGroupId'[i]] = finalReleaseAfter[shipmentGroupId[i]]
        BY <1>1, <3>2
      <4>2. QED
        BY <1>1, <3>2, <4>1 DEF ReleaseTimers
    <3>3. QED
      BY <3>1, <3>2
  <2> HIDE DEF released
  <2>2. QED
    BY <2>1 DEF ReleaseTimers
<1>3. RefundTimers' = [o \in Orders |-> IF o \in refunded THEN "due" ELSE RefundTimers[o]]
  <2>1. ASSUME NEW o \in Orders
        PROVE  RefundTimers'[o] = IF o \in refunded THEN "due" ELSE RefundTimers[o]
    <3>1. fundedAt[o] \in Nat /\ fundedAt'[o] = fundedAt[o]
      BY <1>1
    <3>2. QED
      BY <1>1, <3>1 DEF RefundTimers
  <2> HIDE DEF refunded
  <2>2. QED
    BY <2>1 DEF RefundTimers
<1>4. /\ released \in SUBSET {i \in Items : ReleaseTimers[i] = "running"}
      /\ refunded \in SUBSET {o \in Orders : RefundTimers[o] = "running"}
  OBVIOUS
<1> HIDE DEF released, refunded
<1>5. Lifecycle!TimePasses
  BY <1>1, <1>2, <1>3, <1>4 DEF Lifecycle!TimePasses, ReleaseTimers, RefundTimers
<1>6. QED
  BY <1>5 DEF Lifecycle!LifecycleNext

LEMMA NextIsLifecycleStep ==
  ASSUME IInv, Next
  PROVE  Lifecycle!LifecycleNext \/ UNCHANGED seenVars
<1>1. ASSUME UNCHANGED <<now, orderStatus, fundedAt, itemStatus, shipmentGroupId,
                         finalReleaseAfter>>
      PROVE  UNCHANGED seenVars
  BY <1>1, SameTimersSeen, SameDeadlinesSeen DEF seenVars
<1>2. ASSUME NEW o \in Orders, OrderEntryPoint(o)
      PROVE  Lifecycle!LifecycleNext \/ UNCHANGED seenVars
  <2>1. ASSUME RegisterLegalHold(o) \/ ClearLegalHold(o) PROVE UNCHANGED seenVars
    BY <1>1, <2>1 DEF RegisterLegalHold, ClearLegalHold, orderVars, itemVars, groupVars
  <2>2. QED
    BY <1>2, <2>1, OpeningSteps, ShipSteps, RefundSteps DEF OrderEntryPoint
<1>3. ASSUME OwnerEntryPoint PROVE UNCHANGED seenVars
  BY <1>1, <1>3 DEF OwnerEntryPoint, EmergencyPause, SetDisputeContract,
                    SetCommissionTreasury, orderVars, itemVars, groupVars
<1>4. QED
  BY <1>2, <1>3, DeliverySteps, DisputeSteps, EarlyReleaseUnseen, TimeSteps
     DEF Next, EntryPoint

\* The escrow implements what the off-chain programs are modelled to expect of it: the
\* statuses of orders and items move as OrderLifecycle lets them, and a timer that anyone
\* may trigger, once due, stays due.
THEOREM EscrowImplementsLifecycle == Spec => ImplementsLifecycle
<1>1. Init => Lifecycle!LifecycleInit
  BY DEF Init, Lifecycle!LifecycleInit
<1>2. IInv /\ [Next]_vars => [Lifecycle!LifecycleNext]_Lifecycle!lifecycleVars
  <2>1. UNCHANGED seenVars => UNCHANGED Lifecycle!lifecycleVars
    BY DEF seenVars, Lifecycle!lifecycleVars, ReleaseTimers, RefundTimers
  <2>2. UNCHANGED vars => UNCHANGED seenVars
    BY SameTimersSeen, SameDeadlinesSeen
       DEF vars, escrowVars, orderVars, itemVars, groupVars, seenVars
  <2>3. QED
    BY <2>1, <2>2, NextIsLifecycleStep
<1>3. QED
  BY <1>1, <1>2, EscrowInvariant, PTL DEF Spec, ImplementsLifecycle, Lifecycle!LifecycleSpec
-------------------------------------------------------------------------------
(***************************************************************************)
(* The counters of the escrow.  BooksBalance is EscrowAccounting over the  *)
(* named function HeldOf.                                                  *)
(***************************************************************************)
HeldOf == [i \in Items |-> Held(i)]

BoughtBy(b) == {i \in Items : BuyerOf[OrderOf[i]] = b}

BooksBalance ==
    /\ totalEscrowedAmount = SumFunctionOnSet(HeldOf, Items)
    /\ \A b \in Buyers : buyerActiveEscrow[b] = SumFunctionOnSet(HeldOf, BoughtBy(b))

\* What the escrow holds of an item is its price, or nothing.
LEMMA HeldIsPrice ==
  ASSUME IInv, NEW i \in Items
  PROVE  /\ HeldOf[i] = Held(i)
         /\ Held(i) = IF Funded(i) /\ ~Terminal(i) THEN PriceOf[i] ELSE 0
         /\ PriceOf[i] \in Nat
         /\ ~Terminal(i) => RemainingInEscrow(i) = PriceOf[i]
<1>1. PriceOf[i] \in Nat
  BY AmountsAssumption
<1>2. ~Terminal(i) => RemainingInEscrow(i) = PriceOf[i]
  BY <1>1 DEF IInv, PaidExactlyOnce, RemainingInEscrow
<1>3. QED
  BY <1>1, <1>2 DEF HeldOf, Held

LEMMA HeldType ==
  ASSUME IInv
  PROVE  /\ \A i \in Items : HeldOf[i] \in Nat
         /\ \A S \in SUBSET Items : IsFiniteSet(S) /\ SumFunctionOnSet(HeldOf, S) \in Nat
<1>1. \A i \in Items : HeldOf[i] \in Nat
  BY HeldIsPrice
<1>2. ASSUME NEW S \in SUBSET Items
      PROVE  IsFiniteSet(S) /\ SumFunctionOnSet(HeldOf, S) \in Nat
  <2>1. IsFiniteSet(S)
    BY FinitenessAssumption, FS_Subset
  <2>2. QED
    BY <1>1, <2>1, SumNat
<1>3. QED
  BY <1>1, <1>2

\* A step that changes what is held of items R of one order, and moves both counters
\* by the difference, keeps the books balanced.
LEMMA BooksMove ==
  ASSUME IInv, IInv', BooksBalance, NEW o \in Orders, NEW R \in SUBSET ItemsOf(o),
         \A i \in Items \ R : Held(i)' = Held(i),
         NEW before, before = SumFunctionOnSet(HeldOf, R),
         NEW after, after = SumFunctionOnSet(HeldOf', R),
         totalEscrowedAmount' = totalEscrowedAmount - before + after,
         buyerActiveEscrow' = [buyerActiveEscrow EXCEPT ![BuyerOf[o]] = @ - before + after]
  PROVE  BooksBalance'
<1>1. /\ \A i \in Items : HeldOf[i] \in Int /\ HeldOf'[i] \in Int
      /\ \A i \in Items \ R : HeldOf'[i] = HeldOf[i]
  <2>1. \A i \in Items : HeldOf[i] \in Nat
    BY HeldType
  <2>2. \A i \in Items : HeldOf'[i] \in Nat
    <3> SUFFICES ASSUME NEW i \in Items PROVE HeldOf'[i] \in Nat
      OBVIOUS
    <3>1. PriceOf[i] \in Nat
      BY AmountsAssumption
    <3>2. (~Terminal(i) => RemainingInEscrow(i) = PriceOf[i])'
      BY <3>1 DEF IInv, PaidExactlyOnce, RemainingInEscrow
    <3>3. QED
      BY <3>1, <3>2 DEF HeldOf, Held
  <2>3. \A i \in Items \ R : HeldOf'[i] = HeldOf[i]
    BY DEF HeldOf
  <2>4. QED
    BY <2>1, <2>2, <2>3
<1>2. BuyerOf[o] \in Buyers /\ R \in SUBSET BoughtBy(BuyerOf[o]) /\ R \in SUBSET Items
  <2>1. BuyerOf[o] \in Buyers /\ R \in SUBSET Items
    BY PartiesAssumption
  <2>2. \A i \in R : i \in Items /\ OrderOf[i] = o
    OBVIOUS
  <2>3. QED
    BY <2>1, <2>2 DEF BoughtBy
<1>3. totalEscrowedAmount' = SumFunctionOnSet(HeldOf', Items)
  <2>1. SumFunctionOnSet(HeldOf', Items) = SumFunctionOnSet(HeldOf, Items) - before + after
    BY <1>1, <1>2, FinitenessAssumption, SumChange
  <2>2. QED
    BY <2>1 DEF BooksBalance
<1>4. ASSUME NEW b \in Buyers
      PROVE  buyerActiveEscrow'[b] = SumFunctionOnSet(HeldOf', BoughtBy(b))
  <2>1. IsFiniteSet(BoughtBy(b)) /\ BoughtBy(b) \in SUBSET Items
    BY HeldType DEF BoughtBy
  <2>2. buyerActiveEscrow[b] = SumFunctionOnSet(HeldOf, BoughtBy(b))
    BY DEF BooksBalance
  <2>3. buyerActiveEscrow \in [Buyers -> Nat]
    BY DEF IInv, TypeOK
  <2>4. CASE b = BuyerOf[o]
    <3>1. SumFunctionOnSet(HeldOf', BoughtBy(b))
            = SumFunctionOnSet(HeldOf, BoughtBy(b)) - before + after
      BY <1>1, <1>2, <2>1, <2>4, SumChange
    <3>2. QED
      BY <2>2, <2>3, <2>4, <3>1
  <2>5. CASE b # BuyerOf[o]
    <3>1. \A i \in BoughtBy(b) : HeldOf'[i] = HeldOf[i]
      BY <1>1, <1>2, <2>1, <2>5 DEF BoughtBy
    <3>2. SumFunctionOnSet(HeldOf', BoughtBy(b)) = SumFunctionOnSet(HeldOf, BoughtBy(b))
      BY <2>1, <3>1, SumEqual
    <3>3. QED
      BY <2>2, <2>3, <2>5, <3>2
  <2>6. QED
    BY <2>4, <2>5
<1>5. QED
  BY <1>3, <1>4 DEF BooksBalance, BoughtBy

\* A step that leaves every item where it was.
LEMMA BooksStay ==
  ASSUME BooksBalance, UNCHANGED tvlVars, \A i \in Items : Held(i)' = Held(i)
  PROVE  BooksBalance'
<1>1. HeldOf' = HeldOf
  BY DEF HeldOf
<1>2. QED
  BY <1>1 DEF BooksBalance, BoughtBy, tvlVars

\* A transaction that closes items R of one order and takes what was held of them from
\* the counters.  The buyer's counter is at least that high, so it never saturates.
LEMMA BooksClose ==
  ASSUME IInv, IInv', BooksBalance, NEW o \in Orders, NEW R \in SUBSET ItemsOf(o),
         \A i \in R : Terminal(i)', \A i \in Items \ R : Held(i)' = Held(i),
         NEW amount, amount = SumFunctionOnSet(HeldOf, R), SubEscrow(BuyerOf[o], amount)
  PROVE  BooksBalance'
<1>1. /\ amount \in Nat /\ BuyerOf[o] \in Buyers
      /\ totalEscrowedAmount \in Nat /\ buyerActiveEscrow \in [Buyers -> Nat]
  BY HeldType, PartiesAssumption DEF IInv, TypeOK
<1>2. SumFunctionOnSet(HeldOf', R) = 0
  <2>1. IsFiniteSet(R)
    BY HeldType
  <2>2. \A i \in R : HeldOf'[i] = 0
    BY DEF HeldOf, Held
  <2>3. QED
    BY <2>1, <2>2, SumZero
<1>3. amount <= buyerActiveEscrow[BuyerOf[o]]
  <2> DEFINE B == BoughtBy(BuyerOf[o])
  <2>1. B \in SUBSET Items /\ R \in SUBSET B
    BY DEF BoughtBy
  <2>2. IsFiniteSet(B) /\ \A i \in B : HeldOf[i] \in Int
    BY <2>1, HeldType
  <2>3. /\ SumFunctionOnSet(HeldOf, B) = amount + SumFunctionOnSet(HeldOf, B \ R)
        /\ SumFunctionOnSet(HeldOf, B \ R) \in Nat
    BY <2>1, <2>2, SumUnion, HeldType
  <2>4. buyerActiveEscrow[BuyerOf[o]] = SumFunctionOnSet(HeldOf, B)
    BY <1>1 DEF BooksBalance
  <2>5. QED
    BY ONLY <1>1, <2>3, <2>4
<1>4. /\ totalEscrowedAmount' = totalEscrowedAmount - amount + 0
      /\ buyerActiveEscrow' = [buyerActiveEscrow EXCEPT ![BuyerOf[o]] = @ - amount + 0]
  <2>1. SaturatingSub(buyerActiveEscrow[BuyerOf[o]], amount)
          = buyerActiveEscrow[BuyerOf[o]] - amount + 0
    BY <1>1, <1>3 DEF SaturatingSub
  <2>2. QED
    BY <1>1, <2>1 DEF SubEscrow
<1>5. QED
  BY <1>2, <1>4, BooksMove

LEMMA ReleaseBalances ==
  ASSUME IInv, IInv', BooksBalance, NEW o \in Orders, NEW R \in SUBSET ItemsOf(o),
         \A i \in R : ~Terminal(i) /\ fundedAt[o] > 0, ReleaseItemsFully(o, R)
  PROVE  BooksBalance'
<1> DEFINE payout == [i \in R |-> (NetOf(i) - releasedAmount[i]) + itemCommission[i]]
<1>1. /\ itemStatus' = [i \in Items |-> IF i \in R THEN "Released" ELSE itemStatus[i]]
      /\ releasedAmount' = [i \in Items |-> IF i \in R THEN NetOf(i) ELSE releasedAmount[i]]
      /\ SubEscrow(BuyerOf[o], SumFunctionOnSet(payout, R))
      /\ fundedAt' = fundedAt
  BY DEF ReleaseItemsFully
<1>2. SumFunctionOnSet(payout, R) = SumFunctionOnSet(HeldOf, R)
  <2>1. ASSUME NEW i \in R PROVE payout[i] = HeldOf[i]
    <3>1. /\ HeldOf[i] = PriceOf[i] /\ releasedAmount[i] = 0 /\ PriceOf[i] \in Nat
          /\ itemCommission[i] \in Nat
      BY HeldIsPrice DEF Funded, IInv, PaidExactlyOnce, TypeOK
    <3>2. QED
      BY <3>1 DEF NetOf
  <2>2. IsFiniteSet(R)
    BY HeldType
  <2> HIDE DEF payout
  <2>3. QED
    BY <2>1, <2>2, SumEqual
<1>3. /\ \A i \in R : Terminal(i)'
      /\ \A i \in Items \ R : Held(i)' = Held(i)
  BY <1>1 DEF Held, Funded, RemainingInEscrow
<1> HIDE DEF payout
<1>4. QED
  BY <1>1, <1>2, <1>3, BooksClose

LEMMA RefundBalances ==
  ASSUME IInv, IInv', BooksBalance, NEW o \in Orders, NEW R \in SUBSET ItemsOf(o), NEW refund,
         \A i \in R : ~Terminal(i) /\ fundedAt[o] > 0 /\ refund[i] = PriceOf[i],
         RefundItems(o, R, refund)
  PROVE  BooksBalance'
<1>1. /\ itemStatus' = [i \in Items |-> IF i \in R THEN "Refunded" ELSE itemStatus[i]]
      /\ SubEscrow(BuyerOf[o], SumFunctionOnSet(refund, R))
      /\ UNCHANGED <<fundedAt, releasedAmount>>
  BY DEF RefundItems
<1>2. SumFunctionOnSet(refund, R) = SumFunctionOnSet(HeldOf, R)
  <2>1. \A i \in R : refund[i] = HeldOf[i]
    BY HeldIsPrice DEF Funded
  <2>2. IsFiniteSet(R)
    BY HeldType
  <2>3. QED
    BY <2>1, <2>2, SumEqual
<1>3. /\ \A i \in R : Terminal(i)'
      /\ \A i \in Items \ R : Held(i)' = Held(i)
  BY <1>1 DEF Held, Funded, RemainingInEscrow
<1>4. QED
  BY <1>1, <1>2, <1>3, BooksClose

LEMMA FundBalances ==
  ASSUME IInv, IInv', BooksBalance, NEW o \in Orders, FundOrder(o)
  PROVE  BooksBalance'
<1>1. /\ orderStatus[o] = "Created"
      /\ AddEscrow(BuyerOf[o], TotalAmount(o))
      /\ fundedAt' = [fundedAt EXCEPT ![o] = now]
      /\ UNCHANGED <<itemVars, paidVars>>
  BY DEF FundOrder
<1>2. ItemsOf(o) \in SUBSET ItemsOf(o) /\ IsFiniteSet(ItemsOf(o))
  BY OrderItems
<1>3. ASSUME NEW i \in ItemsOf(o) PROVE HeldOf[i] = 0 /\ HeldOf'[i] = PriceOf[i]
  <2>1. fundedAt[o] = 0 /\ itemStatus[i] = "Pending"
    BY <1>1 DEF IInv, UnfundedMeansFresh
  <2>2. fundedAt'[o] > 0
    <3>1. now > 0 /\ DOMAIN fundedAt = Orders
      BY ClockAssumption DEF IInv, TypeOK
    <3>2. QED
      BY <1>1, <3>1
  <2>3. itemStatus' = itemStatus /\ releasedAmount' = releasedAmount
    BY <1>1 DEF itemVars, paidVars
  <2>4. RemainingInEscrow(i) = PriceOf[i]
    BY <2>1, HeldIsPrice
  <2>5. QED
    BY <2>1, <2>2, <2>3, <2>4 DEF HeldOf, Held, Funded, RemainingInEscrow
<1>4. SumFunctionOnSet(HeldOf, ItemsOf(o)) = 0
  BY <1>2, <1>3, SumZero
<1>5. SumFunctionOnSet(HeldOf', ItemsOf(o)) = TotalAmount(o)
  BY <1>2, <1>3, SumEqual DEF TotalAmount
<1>6. \A i \in Items \ ItemsOf(o) : Held(i)' = Held(i)
  BY <1>1, PartiesAssumption DEF IInv, TypeOK, Held, Funded, RemainingInEscrow, itemVars, paidVars
<1>7. /\ totalEscrowedAmount' = totalEscrowedAmount - 0 + TotalAmount(o)
      /\ buyerActiveEscrow' = [buyerActiveEscrow EXCEPT ![BuyerOf[o]] = @ - 0 + TotalAmount(o)]
  <2>1. /\ totalEscrowedAmount \in Nat /\ buyerActiveEscrow[BuyerOf[o]] \in Nat
        /\ TotalAmount(o) \in Nat
    BY PartiesAssumption, TotalAmountType DEF IInv, TypeOK
  <2> DEFINE total == TotalAmount(o)
  <2> HIDE DEF total
  <2>2. /\ totalEscrowedAmount' = totalEscrowedAmount + total
        /\ buyerActiveEscrow' = [buyerActiveEscrow EXCEPT
                                    ![BuyerOf[o]] = buyerActiveEscrow[BuyerOf[o]] + total]
    BY <1>1 DEF AddEscrow, total
  <2>3. /\ totalEscrowedAmount + total = totalEscrowedAmount - 0 + total
        /\ buyerActiveEscrow[BuyerOf[o]] + total = buyerActiveEscrow[BuyerOf[o]] - 0 + total
    BY <2>1 DEF total
  <2>4. QED
    BY <2>2, <2>3 DEF total
<1>8. QED
  BY <1>2, <1>4, <1>5, <1>6, <1>7, BooksMove

LEMMA ResolveBalances ==
  ASSUME IInv, IInv', BooksBalance, NEW i \in Items, NEW refundAmount,
         ResolveItemDispute(i, refundAmount)
  PROVE  BooksBalance'
<1>1. /\ itemStatus[i] = "Disputed" /\ fundedAt[OrderOf[i]] > 0
      /\ fundedAt' = fundedAt
      /\ SubEscrow(BuyerOf[OrderOf[i]], RemainingInEscrow(i))
  BY DEF ResolveItemDispute
<1>2. Terminal(i)' /\ \A j \in Items \ {i} : ItemUntouched(j)
  BY ResolveEffect DEF IInv
<1>3. OrderOf[i] \in Orders /\ {i} \in SUBSET ItemsOf(OrderOf[i])
  BY PartiesAssumption
<1>4. SumFunctionOnSet(HeldOf, {i}) = RemainingInEscrow(i)
  <2>1. HeldOf[i] = RemainingInEscrow(i) /\ HeldOf[i] \in Int
    BY <1>1, HeldIsPrice DEF Funded
  <2>2. QED
    BY <2>1, SumSingleton
<1>5. \A j \in Items \ {i} : Held(j)' = Held(j)
  BY <1>1, <1>2 DEF ItemUntouched, Held, Funded, RemainingInEscrow
<1>6. QED
  BY <1>1, <1>2, <1>3, <1>4, <1>5, BooksClose

LEMMA NextBalances ==
  ASSUME IInv, IInv', BooksBalance, Next
  PROVE  BooksBalance'
<1>1. ASSUME UNCHANGED <<tvlVars, fundedAt, itemStatus, releasedAmount>> PROVE BooksBalance'
  BY <1>1, BooksStay DEF Held, Funded, RemainingInEscrow
<1>2. ASSUME NEW o \in Orders, OrderEntryPoint(o) PROVE BooksBalance'
  <2>1. CASE FundOrder(o)
    BY <2>1, FundBalances
  <2>2. ASSUME NEW n \in 1..MAX_ITEMS_PER_GROUP, NEW itemIds \in [1..n -> ItemsOf(o)],
               NEW isTopSeller \in BOOLEAN, ShipItemsGrouped(o, itemIds, isTopSeller)
        PROVE  BooksBalance'
    <3>1. /\ UNCHANGED <<tvlVars, fundedAt, releasedAmount>>
          /\ \A i \in Range(itemIds) : itemStatus[i] = "Pending"
          /\ itemStatus' = [i \in Items |-> IF i \in Range(itemIds) THEN "Shipped"
                                             ELSE itemStatus[i]]
      BY <2>2 DEF ShipItemsGrouped, paidVars
    <3>2. \A i \in Items : Terminal(i)' = Terminal(i)
      BY <3>1
    <3>3. QED
      BY <3>1, <3>2, BooksStay DEF Held, Funded, RemainingInEscrow
  <2>3. CASE TriggerAutoRefundIfInactive(o)
    <3>1. orderStatus[o] = "Funded" /\ RefundItems(o, ItemsOf(o), PriceOf)
      BY <2>3 DEF TriggerAutoRefundIfInactive
    <3>2. \A i \in ItemsOf(o) : ~Terminal(i) /\ fundedAt[o] > 0
      BY <3>1 DEF IInv, FundedMeansUntouched, UnfundedMeansFresh
    <3>3. ItemsOf(o) \in SUBSET ItemsOf(o)
      OBVIOUS
    <3>4. QED
      BY <3>1, <3>2, <3>3, RefundBalances
  <2>4. CASE ForceRefund(o)
    <3> DEFINE open == {i \in ItemsOf(o) : ~Terminal(i)}
               remaining == [i \in Items |-> RemainingInEscrow(i)]
    <3>1. fundedAt[o] > 0 /\ RefundItems(o, open, remaining)
      BY <2>4 DEF ForceRefund
    <3>2. \A i \in open : ~Terminal(i) /\ remaining[i] = PriceOf[i]
      BY HeldIsPrice
    <3>3. open \in SUBSET ItemsOf(o)
      OBVIOUS
    <3> HIDE DEF open, remaining
    <3>4. QED
      BY <3>1, <3>2, <3>3, RefundBalances
  <2>5. QED
    BY <1>1, <1>2, <2>1, <2>2, <2>3, <2>4
       DEF OrderEntryPoint, CreateOrderWithItems, CancelOrder, RegisterLegalHold,
           ClearLegalHold, itemVars, orderVars, paidVars
<1>3. ASSUME NEW i \in Items, ConfirmItemDelivery(i) \/ TriggerAutoReleaseForItem(i)
      PROVE  BooksBalance'
  <2>1. ReleaseItemsFully(OrderOf[i], {i}) /\ ~Terminal(i)
    BY <1>3 DEF ConfirmItemDelivery, TriggerAutoReleaseForItem, OpenForDispute
  <2>2. itemStatus[i] = "Shipped" \/ shipmentGroupId[i] # 0
    BY <1>3 DEF ConfirmItemDelivery, TriggerAutoReleaseForItem
  <2>3. OrderOf[i] \in Orders /\ {i} \in SUBSET ItemsOf(OrderOf[i])
        /\ fundedAt[OrderOf[i]] > 0
    BY <2>2, PartiesAssumption DEF IInv, UnfundedMeansFresh
  <2>4. QED
    BY <2>1, <2>3, ReleaseBalances
<1>4. ASSUME NEW g \in GroupIds, ConfirmGroupDelivery(g) PROVE BooksBalance'
  <2> DEFINE R == {i \in GroupItems(g) : itemStatus[i] = "Shipped"}
  <2>1. PICK j \in R : ReleaseItemsFully(OrderOf[j], R)
    BY <1>4 DEF ConfirmGroupDelivery
  <2>2. \A i \in R : OrderOf[i] = OrderOf[j]
    BY DEF GroupItems, IInv, GroupsHandedOut
  <2>3. OrderOf[j] \in Orders /\ R \in SUBSET ItemsOf(OrderOf[j])
        /\ fundedAt[OrderOf[j]] > 0
    BY <2>2, PartiesAssumption DEF GroupItems, IInv, UnfundedMeansFresh
  <2>4. \A i \in R : ~Terminal(i)
    OBVIOUS
  <2> HIDE DEF R
  <2>5. QED
    BY <2>1, <2>3, <2>4, ReleaseBalances
<1>5. ASSUME NEW i \in Items, MarkItemDisputed(i) PROVE BooksBalance'
  <2>1. UNCHANGED <<tvlVars, fundedAt, releasedAmount>>
    BY <1>5 DEF MarkItemDisputed, orderVars, paidVars
  <2>2. \A j \in Items : Terminal(j)' = Terminal(j)
    BY <1>5, MarkEffect DEF IInv, OpenForDispute, ItemUntouched
  <2>3. QED
    BY <2>1, <2>2, BooksStay DEF Held, Funded, RemainingInEscrow
<1>6. QED
  BY <1>1, <1>2, <1>3, <1>4, <1>5, ResolveBalances
     DEF Next, EntryPoint, OwnerEntryPoint, DisputeHook, RequestEarlyRelease, EmergencyPause,
         SetDisputeContract, SetCommissionTreasury, Advance, escrowVars, itemVars, orderVars,
         paidVars

LEMMA InitBalances == Init => BooksBalance
<1> SUFFICES ASSUME Init PROVE BooksBalance
  OBVIOUS
<1>1. \A i \in Items : HeldOf[i] = 0
  BY PartiesAssumption DEF Init, HeldOf, Held, Funded
<1>2. ASSUME NEW S \in SUBSET Items PROVE SumFunctionOnSet(HeldOf, S) = 0
  <2>1. IsFiniteSet(S)
    BY FinitenessAssumption, FS_Subset
  <2>2. QED
    BY <1>1, <2>1, SumZero
<1>3. \A b \in Buyers : BoughtBy(b) \in SUBSET Items
  BY DEF BoughtBy
<1>4. QED
  BY <1>2, <1>3 DEF Init, BooksBalance

\* Every transaction moves what is held and the counters by the same amounts.
THEOREM EscrowBooksBalance == Spec => []BooksBalance
<1>1. IInv /\ IInv' /\ BooksBalance /\ [Next]_vars => BooksBalance'
  <2>1. ASSUME UNCHANGED vars, BooksBalance PROVE BooksBalance'
    BY <2>1, BooksStay DEF vars, escrowVars, orderVars, itemVars, paidVars, Held, Funded,
                           RemainingInEscrow
  <2>2. QED
    BY <2>1, NextBalances
<1>2. QED
  BY <1>1, InitBalances, EscrowInvariant, PTL DEF Spec

\* For any number of orders, items and buyers, totalEscrowedAmount and every buyer's
\* counter are exactly the sum of what the items still have in escrow.
THEOREM EscrowAccountingExact == Spec => []EscrowAccounting
<1>1. BooksBalance => EscrowAccounting
  BY DEF BooksBalance, EscrowAccounting, HeldOf, BoughtBy, SumFunction
<1>2. QED
  BY <1>1, EscrowBooksBalance, PTL
-------------------------------------------------------------------------------
(***************************************************************************)
(* No exit reverts.  Only createOrderWithItems writes an item's commission, *)
(* and the split it writes is sound.                                       *)
(***************************************************************************)
CommissionFits == \A i \in Items : itemCommission[i] <= PriceOf[i]

LEMMA CreateFits ==
  ASSUME CommissionFits, NEW o \in Orders, NEW isTopSeller \in BOOLEAN,
         CreateOrderWithItems(o, isTopSeller)
  PROVE  CommissionFits'
<1> DEFINE bps == IF isTopSeller THEN COMMISSION_TOP_SELLER_BPS ELSE COMMISSION_INTRA_BPS
           commission == CalculateCommission(TotalAmount(o), bps)
           split == SplitCommission(ItemsOf(o), PriceOf, LastItemOf[o], commission)
<1>1. /\ \A i \in ItemsOf(o) : PriceOf[i] > 0
      /\ itemCommission' = [i \in Items |-> IF i \in ItemsOf(o) THEN split[i]
                                            ELSE itemCommission[i]]
  BY DEF CreateOrderWithItems
<1>2. commission \in 0..TotalAmount(o)
  <2>1. bps \in 0..BPS_DENOMINATOR
    BY AmountsAssumption
  <2> HIDE DEF bps
  <2>2. QED
    BY <2>1, TotalAmountType, CommissionOfOrder
<1> HIDE DEF commission
<1>3. \A i \in ItemsOf(o) : PriceOf[i] \in Nat \ {0}
  BY <1>1, AmountsAssumption
<1>4. LastItemOf[o] \in ItemsOf(o) /\ IsFiniteSet(ItemsOf(o))
  BY PartiesAssumption, OrderItems
<1>5. SoundSplit(ItemsOf(o), PriceOf, split, commission)
  BY <1>2, <1>3, <1>4, CommissionSplitSound DEF TotalAmount
<1>6. \A i \in ItemsOf(o) : split[i] <= PriceOf[i]
  BY <1>3, <1>5 DEF SoundSplit, CommissionWithinPrice
<1> HIDE DEF split
<1>7. QED
  BY <1>1, <1>6 DEF CommissionFits

LEMMA NextFits ==
  ASSUME CommissionFits, [Next]_vars
  PROVE  CommissionFits'
<1>1. ASSUME UNCHANGED itemCommission PROVE CommissionFits'
  BY <1>1 DEF CommissionFits
<1>2. ASSUME NEW o \in Orders, OrderEntryPoint(o) PROVE CommissionFits'
  BY <1>1, <1>2, CreateFits
     DEF OrderEntryPoint, FundOrder, CancelOrder, ShipItemsGrouped, RefundItems,
         TriggerAutoRefundIfInactive, ForceRefund, RegisterLegalHold, ClearLegalHold, itemVars
<1>3. ASSUME OwnerEntryPoint PROVE UNCHANGED itemCommission
  BY <1>3 DEF OwnerEntryPoint, EmergencyPause, SetDisputeContract, SetCommissionTreasury, itemVars
<1>4. ASSUME DisputeHook PROVE UNCHANGED itemCommission
  BY <1>4 DEF DisputeHook, MarkItemDisputed, ResolveItemDispute, itemVars
<1>5. ASSUME NEW g \in GroupIds, RequestEarlyRelease(g) \/ ConfirmGroupDelivery(g)
      PROVE  UNCHANGED itemCommission
  BY <1>5 DEF RequestEarlyRelease, ConfirmGroupDelivery, ReleaseItemsFully, itemVars
<1>6. ASSUME NEW i \in Items, ConfirmItemDelivery(i) \/ TriggerAutoReleaseForItem(i)
      PROVE  UNCHANGED itemCommission
  BY <1>6 DEF ConfirmItemDelivery, TriggerAutoReleaseForItem, ReleaseItemsFully
<1>7. Advance \/ UNCHANGED vars => UNCHANGED itemCommission
  BY DEF Advance, vars, escrowVars, itemVars
<1>8. QED
  BY <1>1, <1>2, <1>3, <1>4, <1>5, <1>6, <1>7 DEF Next, EntryPoint

\* The commission of an item is never more than its price, at any rate up to 100 %, so
\* itemPrice - itemCommission never underflows; and the counter covers every open item.
THEOREM EscrowExitNeverReverts == Spec => []ExitNeverRevertsOnAccounting
<1>1. Init => CommissionFits
  BY AmountsAssumption DEF Init, CommissionFits
<1>2. CommissionFits /\ [Next]_vars => CommissionFits'
  BY NextFits
<1>3. IInv /\ BooksBalance /\ CommissionFits => ExitNeverRevertsOnAccounting
  <2> SUFFICES ASSUME IInv, BooksBalance, CommissionFits,
                      NEW i \in Items, Funded(i), ~Terminal(i)
               PROVE  /\ itemCommission[i] <= PriceOf[i] - releasedAmount[i]
                      /\ RemainingInEscrow(i) <= totalEscrowedAmount
    BY DEF ExitNeverRevertsOnAccounting
  <2>1. /\ HeldOf[i] = PriceOf[i] /\ RemainingInEscrow(i) = PriceOf[i]
        /\ releasedAmount[i] = 0 /\ PriceOf[i] \in Nat
    BY HeldIsPrice DEF IInv, PaidExactlyOnce
  <2>2. HeldOf[i] <= totalEscrowedAmount
    <3>1. \A j \in Items : HeldOf[j] \in Nat
      BY HeldType
    <3>2. HeldOf[i] <= SumFunctionOnSet(HeldOf, Items)
      BY <3>1, FinitenessAssumption, SumTerm
    <3>3. QED
      BY <3>2 DEF BooksBalance
  <2>3. QED
    BY <2>1, <2>2 DEF CommissionFits
<1>4. QED
  BY <1>1, <1>2, <1>3, EscrowInvariant, EscrowBooksBalance, PTL DEF Spec
-------------------------------------------------------------------------------
(***************************************************************************)
(* The sellers' weekly volumes.                                            *)
(***************************************************************************)
Credited(s) ==
    /\ sellerWeeklyVolume'[s] < sellerWeeklyVolume[s]
    /\ sellerWeekStartTimestamp'[s] = sellerWeekStartTimestamp[s]

ShippedRefund(s) ==
    \E i \in Items : /\ SellerOf[OrderOf[i]] = s
                     /\ shipmentGroupId[i] # 0
                     /\ refundedAmount'[i] > refundedAmount[i]

LEMMA SameVolumes ==
  ASSUME IInv, UNCHANGED weekVars, NEW s \in Sellers
  PROVE  ~Credited(s)
<1>1. sellerWeeklyVolume[s] \in Nat /\ sellerWeeklyVolume' = sellerWeeklyVolume
  BY DEF IInv, TypeOK, weekVars
<1>2. QED
  BY <1>1 DEF Credited

\* A credit is for the seller named, and of a positive amount.
LEMMA CreditOfVolume ==
  ASSUME IInv, NEW seller, NEW amount, ReleaseSellerWeeklyVolume(seller, amount),
         NEW s \in Sellers, Credited(s)
  PROVE  s = seller /\ amount \in Nat /\ amount # 0
<1>1. /\ sellerWeeklyVolume \in [Sellers -> Nat] /\ amount \in Nat
      /\ sellerWeeklyVolume' = [sellerWeeklyVolume EXCEPT ![seller] = SaturatingSub(@, amount)]
  BY DEF IInv, TypeOK, ReleaseSellerWeeklyVolume
<1>2. SaturatingSub(sellerWeeklyVolume[s], 0) = sellerWeeklyVolume[s]
  BY <1>1 DEF SaturatingSub
<1>3. sellerWeeklyVolume'[s] # sellerWeeklyVolume[s]
  BY <1>1 DEF Credited
<1>4. QED
  BY <1>1, <1>2, <1>3

\* A shipment opens a new window or adds to the volume of the open one.
LEMMA ShipGivesNoCredit ==
  ASSUME IInv, NEW o \in Orders, NEW n \in 1..MAX_ITEMS_PER_GROUP,
         NEW itemIds \in [1..n -> ItemsOf(o)], NEW isTopSeller \in BOOLEAN,
         ShipItemsGrouped(o, itemIds, isTopSeller), NEW s \in Sellers
  PROVE  ~Credited(s)
<1> DEFINE seller == SellerOf[o]
           value == [k \in DOMAIN itemIds |-> PriceOf[itemIds[k]]]
           amount == SumFunction(value)
           rolled == now > sellerWeekStartTimestamp[seller] + WEEK
           volume == IF rolled THEN 0 ELSE sellerWeeklyVolume[seller]
<1>1. amount \in Nat
  <2>1. DOMAIN value = 1..n /\ IsFiniteSet(1..n)
    BY FS_Interval, AmountsAssumption
  <2>2. \A k \in 1..n : value[k] \in Nat
    BY AmountsAssumption
  <2> HIDE DEF value
  <2>3. QED
    BY <2>1, <2>2, SumNat DEF SumFunction
<1>2. /\ sellerWeeklyVolume' = [sellerWeeklyVolume EXCEPT ![seller] = volume + amount]
      /\ sellerWeekStartTimestamp' = IF rolled
               THEN [sellerWeekStartTimestamp EXCEPT ![seller] = now]
               ELSE sellerWeekStartTimestamp
  BY DEF ShipItemsGrouped, UpdateSellerWeeklyVolume
<1>3. /\ sellerWeeklyVolume \in [Sellers -> Nat] /\ sellerWeekStartTimestamp \in [Sellers -> Nat]
      /\ now \in Nat /\ WEEK \in Nat
  BY TimersAssumption DEF IInv, TypeOK
<1> HIDE DEF amount, seller
<1>4. CASE s # seller
  BY <1>2, <1>3, <1>4 DEF Credited
<1>5. CASE s = seller /\ rolled
  <2>1. sellerWeekStartTimestamp'[s] = now /\ now # sellerWeekStartTimestamp[s]
    BY <1>2, <1>3, <1>5
  <2>2. QED
    BY <2>1 DEF Credited
<1>6. CASE s = seller /\ ~rolled
  <2>1. sellerWeeklyVolume'[s] = sellerWeeklyVolume[s] + amount
    BY <1>2, <1>3, <1>6
  <2>2. QED
    BY <1>1, <1>3, <2>1 DEF Credited
<1>7. QED
  BY <1>4, <1>5, <1>6

LEMMA ForceRefundCredit ==
  ASSUME IInv, NEW o \in Orders, ForceRefund(o), NEW s \in Sellers, Credited(s)
  PROVE  ShippedRefund(s)
<1> DEFINE open == {i \in ItemsOf(o) : ~Terminal(i)}
           remaining == [i \in Items |-> RemainingInEscrow(i)]
           shipped == {i \in open : CountsTowardWeeklyVolume(i)}
<1>1. /\ RefundItems(o, open, remaining)
      /\ ReleaseSellerWeeklyVolume(SellerOf[o], SumFunctionOnSet(remaining, shipped))
  BY DEF ForceRefund
<1>2. s = SellerOf[o] /\ SumFunctionOnSet(remaining, shipped) # 0
  BY <1>1, CreditOfVolume
<1>3. shipped \in SUBSET ItemsOf(o) /\ IsFiniteSet(shipped)
  <2>1. shipped \in SUBSET ItemsOf(o)
    OBVIOUS
  <2>2. QED
    BY <2>1, OrderItems, FS_Subset
<1>4. PICK i \in shipped : remaining[i] # 0
  <2> HIDE DEF remaining, shipped
  <2>1. QED
    BY <1>2, <1>3, SumZero
<1>5. /\ i \in Items /\ SellerOf[OrderOf[i]] = s /\ shipmentGroupId[i] # 0
      /\ remaining[i] = PriceOf[i] /\ PriceOf[i] \in Nat
  BY <1>2, HeldIsPrice DEF CountsTowardWeeklyVolume
<1>6. refundedAmount'[i] = refundedAmount[i] + remaining[i]
  BY <1>1 DEF RefundItems
<1>7. refundedAmount'[i] > refundedAmount[i]
  <2>1. refundedAmount[i] \in Nat /\ remaining[i] \in Nat
    BY <1>5 DEF IInv, TypeOK
  <2> HIDE DEF remaining
  <2>2. QED
    BY <1>4, <1>6, <2>1
<1>8. QED
  BY <1>5, <1>7 DEF ShippedRefund

LEMMA ResolveCredit ==
  ASSUME IInv, NEW j \in Items, NEW refundAmount \in 0..PriceOf[j],
         ResolveItemDispute(j, refundAmount), NEW s \in Sellers, Credited(s)
  PROVE  ShippedRefund(s)
<1>1. /\ refundedAmount' = [refundedAmount EXCEPT ![j] = @ + refundAmount]
      /\ IF refundAmount > 0 /\ CountsTowardWeeklyVolume(j)
         THEN ReleaseSellerWeeklyVolume(SellerOf[OrderOf[j]], refundAmount)
         ELSE UNCHANGED weekVars
  BY DEF ResolveItemDispute
<1>2. refundAmount > 0 /\ CountsTowardWeeklyVolume(j) /\ s = SellerOf[OrderOf[j]]
  BY <1>1, SameVolumes, CreditOfVolume
<1>3. refundedAmount'[j] > refundedAmount[j]
  <2>1. refundedAmount \in [Items -> Nat] /\ PriceOf[j] \in Nat
    BY AmountsAssumption DEF IInv, TypeOK
  <2>2. refundedAmount'[j] = refundedAmount[j] + refundAmount
    BY <1>1, <2>1
  <2>3. QED
    BY <1>2, <2>1, <2>2
<1>4. QED
  BY <1>2, <1>3 DEF ShippedRefund, CountsTowardWeeklyVolume

LEMMA NextCredits ==
  ASSUME IInv, Next, NEW s \in Sellers, Credited(s)
  PROVE  ShippedRefund(s)
<1>1. ~UNCHANGED weekVars
  BY SameVolumes
<1>2. ASSUME NEW o \in Orders, OrderEntryPoint(o) PROVE ShippedRefund(s)
  BY <1>1, <1>2, ShipGivesNoCredit, ForceRefundCredit
     DEF OrderEntryPoint, CreateOrderWithItems, FundOrder, CancelOrder,
         TriggerAutoRefundIfInactive, RegisterLegalHold, ClearLegalHold
<1>3. ASSUME NEW i \in Items, NEW refundAmount \in 0..PriceOf[i],
             ResolveItemDispute(i, refundAmount)
      PROVE  ShippedRefund(s)
  BY <1>3, ResolveCredit
<1>4. QED
  BY <1>1, <1>2, <1>3
     DEF Next, EntryPoint, OwnerEntryPoint, DisputeHook, RequestEarlyRelease, EmergencyPause,
         ConfirmItemDelivery, ConfirmGroupDelivery, TriggerAutoReleaseForItem,
         ReleaseItemsFully, MarkItemDisputed, SetDisputeContract, SetCommissionTreasury,
         Advance, escrowVars

\* Within a window, only the refund of an item that had been shipped lowers a seller's
\* volume, whatever the orders, the prices and the calldata of the shipments.
THEOREM EscrowWeeklyCredit == Spec => WeeklyCreditNeedsShippedRefund
<1>1. IInv /\ [Next]_vars => [\A s \in Sellers : Credited(s) => ShippedRefund(s)]_vars
  BY NextCredits
<1>2. QED
  BY <1>1, EscrowInvariant, PTL
     DEF Spec, WeeklyCreditNeedsShippedRefund, Credited, ShippedRefund

HIDE DEF OrderStatus, ClosedOrderStatus, ItemStatus, TerminalItemStatus, Terminal,
         ItemsOf, GroupIds, Uint
-------------------------------------------------------------------------------
(***************************************************************************)
(* The stake, on its own.                                                  *)
(***************************************************************************)
USE DEF None, Starter, Established, TopSeller, StakeTier, WithdrawalState, NoWithdrawal

\* The inductive invariant: the freezes only make sense for typed withdrawals and a
\* clock that has started.
StakeInv ==
    /\ now \in Nat /\ Genesis <= now
    /\ StakeTypeOK
    /\ FreezeConsistent

\* The amount of a tier, and the tier an amount supports.
LEMMA TierAmountType == \A tier \in StakeTier : TierAmount(tier) \in Nat
BY StakeAssumption DEF TierAmount

LEMMA SupportedTierCovered ==
  ASSUME NEW amount \in Nat
  PROVE  SupportedTier(amount) \in StakeTier /\ TierAmount(SupportedTier(amount)) <= amount
BY StakeAssumption DEF SupportedTier, TierAmount

LEMMA InitStakeInv == StandaloneInit => StakeInv
<1> SUFFICES ASSUME ClockInit, StakeInit PROVE StakeInv
  BY DEF StandaloneInit
<1>1. NoWithdrawal \in WithdrawalState /\ ~NoWithdrawal.active
  OBVIOUS
<1>2. StakeTypeOK /\ FreezeConsistent
  BY <1>1 DEF StakeInit, StakeTypeOK, FreezeConsistent
<1>3. QED
  BY <1>2, ClockAssumption DEF StakeInv, ClockInit

(***************************************************************************)
(* The steps of a seller: deposits, upgrades and top-ups leave the         *)
(* withdrawals alone.                                                      *)
(***************************************************************************)
LEMMA DepositsPreserve ==
  ASSUME StakeInv, NEW s \in Sellers, now' = now,
         \/ \E tier \in StakeTier, eligible \in BOOLEAN :
               DepositStake(s, tier, eligible) \/ UpgradeTier(s, tier, eligible)
         \/ \E amount \in 1..TIER_3_STAKE : TopUpStake(s, amount)
  PROVE  StakeInv'
<1>1. StakeTypeOK'
  <2>1. ASSUME NEW tier \in StakeTier, NEW eligible \in BOOLEAN,
               DepositStake(s, tier, eligible)
        PROVE  StakeTypeOK'
    BY <2>1, TierAmountType DEF DepositStake, TransferIn, StakeInv, StakeTypeOK
  <2>2. ASSUME NEW tier \in StakeTier, NEW eligible \in BOOLEAN,
               UpgradeTier(s, tier, eligible)
        PROVE  StakeTypeOK'
    <3>1. UpgradeDelta(s, tier) \in Nat
      BY TierAmountType DEF UpgradeDelta, StakeInv, StakeTypeOK
    <3>2. QED
      BY <2>2, <3>1 DEF UpgradeTier, TransferIn, StakeInv, StakeTypeOK
  <2>3. ASSUME NEW amount \in 1..TIER_3_STAKE, TopUpStake(s, amount)
        PROVE  StakeTypeOK'
    BY <2>3 DEF TopUpStake, TransferIn, StakeInv, StakeTypeOK
  <2>4. QED
    BY <2>1, <2>2, <2>3
<1>2. UNCHANGED <<freezeCount, withdrawals>>
  BY DEF DepositStake, UpgradeTier, TopUpStake
<1>3. QED
  BY <1>1, <1>2 DEF StakeInv, FreezeConsistent

\* A withdrawal starts frozen or running, as the seller's disputes are.
LEMMA InitiatePreserves ==
  ASSUME StakeInv, NEW s \in Sellers, now' = now, NEW newTier \in StakeTier,
         InitiateWithdrawal(s, newTier)
  PROVE  StakeInv'
<1> DEFINE frozen == freezeCount[s] > 0
           w == [amount          |-> WithdrawnAmount(s, newTier),
                 targetTier      |-> newTier,
                 unlockAt        |-> IF frozen THEN 0 ELSE now + WITHDRAWAL_COOLDOWN,
                 frozenRemaining |-> IF frozen THEN WITHDRAWAL_COOLDOWN ELSE 0,
                 active          |-> TRUE]
<1>1. /\ withdrawals' = [withdrawals EXCEPT ![s] = w]
      /\ UNCHANGED <<stakes, tiers, activeSales, freezeCount, usdt>>
  BY DEF InitiateWithdrawal
<1>2. w \in WithdrawalState
  <2>1. WithdrawnAmount(s, newTier) \in Nat
    BY TierAmountType DEF InitiateWithdrawal, WithdrawnAmount, StakeInv, StakeTypeOK
  <2>2. QED
    BY <2>1, StakeAssumption DEF StakeInv
<1>3. /\ frozen  => w.unlockAt = 0 /\ w.frozenRemaining = WITHDRAWAL_COOLDOWN
      /\ ~frozen => w.unlockAt = now + WITHDRAWAL_COOLDOWN /\ w.frozenRemaining = 0
  OBVIOUS
<1> HIDE DEF w
<1>4. StakeTypeOK'
  BY <1>1, <1>2 DEF StakeInv, StakeTypeOK
<1>5. FreezeConsistent'
  BY <1>1, <1>3, StakeAssumption, ClockAssumption
     DEF StakeInv, StakeTypeOK, FreezeConsistent
<1>6. QED
  BY <1>4, <1>5 DEF StakeInv

\* A withdrawal that is executed or cancelled is gone.
LEMMA WithdrawalEndsPreserves ==
  ASSUME StakeInv, NEW s \in Sellers, now' = now,
         ExecuteWithdrawal(s) \/ CancelWithdrawal(s)
  PROVE  StakeInv'
<1>1. /\ withdrawals' = [withdrawals EXCEPT ![s] = NoWithdrawal]
      /\ UNCHANGED <<activeSales, freezeCount>>
  BY DEF ExecuteWithdrawal, CancelWithdrawal
<1>2. NoWithdrawal \in WithdrawalState /\ ~NoWithdrawal.active
  OBVIOUS
<1>3. stakes' \in [Sellers -> Nat] /\ tiers' \in [Sellers -> StakeTier] /\ usdt' \in Nat
  <2>1. CASE CancelWithdrawal(s)
    BY <2>1 DEF CancelWithdrawal, StakeInv, StakeTypeOK
  <2>2. CASE ExecuteWithdrawal(s)
    <3>1. withdrawals[s].targetTier \in StakeTier /\ withdrawals[s].amount \in Nat
      BY DEF StakeInv, StakeTypeOK
    <3>2. QED
      BY <2>2, <3>1 DEF ExecuteWithdrawal, TransferOut, StakeInv, StakeTypeOK
  <2>3. QED
    BY <2>1, <2>2
<1>4. StakeTypeOK'
  BY <1>1, <1>2, <1>3 DEF StakeInv, StakeTypeOK
<1>5. FreezeConsistent'
  BY <1>1, <1>2 DEF StakeInv, StakeTypeOK, FreezeConsistent
<1>6. QED
  BY <1>4, <1>5 DEF StakeInv

(***************************************************************************)
(* The disputes: the first freeze captures what is left of the cooldown,   *)
(* the last resolution starts it again.                                    *)
(***************************************************************************)
LEMMA CooldownUpdated ==
  ASSUME NEW w \in WithdrawalState, NEW unlock \in Nat, NEW remaining \in Nat
  PROVE  /\ [w EXCEPT !.unlockAt = unlock, !.frozenRemaining = remaining] \in WithdrawalState
         /\ [w EXCEPT !.unlockAt = unlock, !.frozenRemaining = remaining].unlockAt = unlock
         /\ [w EXCEPT !.unlockAt = unlock, !.frozenRemaining = remaining].frozenRemaining
                = remaining
         /\ [w EXCEPT !.unlockAt = unlock, !.frozenRemaining = remaining].active = w.active
  OBVIOUS

LEMMA PausePreserves ==
  ASSUME StakeInv, NEW s \in Sellers, now' = now, PauseWithdrawal(s)
  PROVE  StakeInv'
<1> DEFINE w == withdrawals[s]
           left == CooldownLeft(w.unlockAt)
           frozen == [w EXCEPT !.unlockAt = 0, !.frozenRemaining = left]
<1>1. /\ freezeCount' = [freezeCount EXCEPT ![s] = @ + 1]
      /\ UNCHANGED <<stakes, tiers, activeSales, usdt>>
  BY DEF PauseWithdrawal
<1>2. w \in WithdrawalState /\ freezeCount[s] \in Nat /\ freezeCount'[s] > 0
  BY <1>1 DEF StakeInv, StakeTypeOK
<1>3. CASE w.active /\ FirstFreeze(s)
  <2>1. withdrawals' = [withdrawals EXCEPT ![s] = frozen]
    BY <1>3 DEF PauseWithdrawal, StakeInv, StakeTypeOK
  <2>2. w.unlockAt \in Nat /\ w.unlockAt <= now + WITHDRAWAL_COOLDOWN
    BY <1>2, <1>3, StakeAssumption, ClockAssumption
       DEF FirstFreeze, FreezeConsistent, StakeInv
  <2>3. CooldownLeft(w.unlockAt) \in 0..WITHDRAWAL_COOLDOWN
    BY <2>2, StakeAssumption DEF CooldownLeft, StakeInv
  <2>4. /\ frozen \in WithdrawalState
        /\ frozen.unlockAt = 0 /\ frozen.frozenRemaining <= WITHDRAWAL_COOLDOWN
    <3>1. left \in Nat /\ left <= WITHDRAWAL_COOLDOWN
      BY <2>3, StakeAssumption
    <3> HIDE DEF left
    <3>2. QED
      BY <1>2, <3>1, CooldownUpdated
  <2> HIDE DEF frozen
  <2>5. StakeTypeOK'
    BY <1>1, <2>1, <2>4 DEF StakeInv, StakeTypeOK
  <2>6. FreezeConsistent'
    BY <1>1, <1>2, <2>1, <2>4 DEF StakeInv, StakeTypeOK, FreezeConsistent
  <2>7. QED
    BY <2>5, <2>6 DEF StakeInv
<1>4. CASE ~(w.active /\ FirstFreeze(s))
  <2>1. withdrawals' = withdrawals
    BY <1>4 DEF PauseWithdrawal
  <2>2. w.active => freezeCount[s] > 0
    BY <1>2, <1>4 DEF FirstFreeze
  <2>3. StakeTypeOK'
    BY <1>1, <2>1 DEF StakeInv, StakeTypeOK
  <2>4. FreezeConsistent'
    BY <1>1, <1>2, <2>1, <2>2 DEF StakeInv, StakeTypeOK, FreezeConsistent
  <2>5. QED
    BY <2>3, <2>4 DEF StakeInv
<1>5. QED
  BY <1>3, <1>4

LEMMA ResumePreserves ==
  ASSUME StakeInv, NEW s \in Sellers, now' = now, NEW amount \in Nat,
         ResumeAndSlash(s, amount)
  PROVE  StakeInv'
<1> DEFINE w == withdrawals[s]
           running == [w EXCEPT !.unlockAt = now + w.frozenRemaining, !.frozenRemaining = 0]
<1>1. /\ freezeCount[s] > 0
      /\ freezeCount' = [freezeCount EXCEPT ![s] = @ - 1]
      /\ withdrawals' = Resumed(s)
      /\ activeSales' = activeSales
  BY DEF ResumeAndSlash
<1>2. w \in WithdrawalState /\ freezeCount[s] \in Nat /\ freezeCount'[s] = freezeCount[s] - 1
      /\ freezeCount' \in [Sellers -> Nat]
  BY <1>1 DEF StakeInv, StakeTypeOK
<1>3. stakes' \in [Sellers -> Nat] /\ tiers' \in [Sellers -> StakeTier] /\ usdt' \in Nat
  <2>1. CASE amount > 0
    <3>1. /\ amount \in 0..stakes[s] /\ amount \in 0..usdt
          /\ stakes' = [stakes EXCEPT ![s] = @ - amount]
          /\ tiers' = [tiers EXCEPT ![s] = SupportedTier(stakes[s] - amount)]
          /\ usdt' = usdt - amount
      BY <2>1 DEF ResumeAndSlash, Slashed, TransferOut
    <3>2. stakes[s] - amount \in Nat /\ usdt - amount \in Nat
      BY <3>1 DEF StakeInv, StakeTypeOK
    <3>3. SupportedTier(stakes[s] - amount) \in StakeTier
      BY <3>2, SupportedTierCovered
    <3>4. QED
      BY <3>1, <3>2, <3>3 DEF StakeInv, StakeTypeOK
  <2>2. CASE ~(amount > 0)
    BY <2>2 DEF ResumeAndSlash, StakeInv, StakeTypeOK
  <2>3. QED
    BY <2>1, <2>2
<1>4. CASE w.active /\ LastFreeze(s)
  <2>1. withdrawals' = [withdrawals EXCEPT ![s] = running]
    BY <1>1, <1>4 DEF Resumed, StakeInv, StakeTypeOK
  <2>2. w.frozenRemaining \in Nat /\ w.frozenRemaining <= WITHDRAWAL_COOLDOWN
    BY <1>2, <1>4 DEF LastFreeze, FreezeConsistent, StakeInv
  <2>3. /\ running \in WithdrawalState
        /\ running.frozenRemaining = 0
        /\ running.unlockAt \in Genesis..(now + WITHDRAWAL_COOLDOWN)
    <3>1. /\ now + w.frozenRemaining \in Nat
          /\ now + w.frozenRemaining \in Genesis..(now + WITHDRAWAL_COOLDOWN)
      BY <2>2, StakeAssumption, ClockAssumption DEF StakeInv
    <3>2. QED
      BY <1>2, <3>1, CooldownUpdated
  <2> HIDE DEF running
  <2>4. StakeTypeOK'
    BY <1>1, <1>2, <1>3, <2>1, <2>3 DEF StakeInv, StakeTypeOK
  <2>5. FreezeConsistent'
    BY <1>1, <1>2, <1>4, <2>1, <2>3 DEF StakeInv, StakeTypeOK, FreezeConsistent, LastFreeze
  <2>6. QED
    BY <2>4, <2>5 DEF StakeInv
<1>5. CASE ~(w.active /\ LastFreeze(s))
  <2>1. withdrawals' = withdrawals
    BY <1>1, <1>5 DEF Resumed
  <2>2. w.active => freezeCount'[s] > 0
    BY <1>1, <1>2, <1>5 DEF LastFreeze
  <2>3. StakeTypeOK'
    BY <1>1, <1>2, <1>3, <2>1 DEF StakeInv, StakeTypeOK
  <2>4. FreezeConsistent'
    BY <1>1, <1>2, <2>1, <2>2 DEF StakeInv, StakeTypeOK, FreezeConsistent
  <2>5. QED
    BY <2>3, <2>4 DEF StakeInv
<1>6. QED
  BY <1>4, <1>5

\* The escrow's counter of active sales and the clock.
LEMMA ActiveSalesPreserve ==
  ASSUME StakeInv, NEW s \in Sellers, now' = now,
         IncrementActiveSales(s) \/ DecrementActiveSales(s)
  PROVE  StakeInv'
<1>1. /\ activeSales' \in [Sellers -> Nat]
      /\ UNCHANGED <<stakes, tiers, freezeCount, withdrawals, usdt>>
  BY DEF IncrementActiveSales, DecrementActiveSales, StakeInv, StakeTypeOK
<1>2. QED
  BY <1>1 DEF StakeInv, StakeTypeOK, FreezeConsistent

LEMMA TickPreserves ==
  ASSUME StakeInv, now' \in {now, now + 1}, UNCHANGED stakeVars
  PROVE  StakeInv'
<1>1. now' \in Nat /\ now <= now' /\ Genesis <= now'
  BY ClockAssumption DEF StakeInv
<1>2. StakeTypeOK'
  BY DEF stakeVars, StakeInv, StakeTypeOK
<1>3. FreezeConsistent'
  BY <1>1, StakeAssumption, ClockAssumption DEF stakeVars, StakeInv, StakeTypeOK, FreezeConsistent
<1>4. QED
  BY <1>1, <1>2, <1>3 DEF StakeInv

LEMMA NextPreservesStakeInv == StakeInv /\ [StakeNext]_<<now, stakeVars>> => StakeInv'
<1> SUFFICES ASSUME StakeInv, [StakeNext]_<<now, stakeVars>> PROVE StakeInv'
  OBVIOUS
<1>1. ASSUME NEW s \in Sellers, StakeStep(s), now' = now PROVE StakeInv'
  <2>1. CASE SellerStep(s)
    BY <1>1, <2>1, DepositsPreserve, InitiatePreserves, WithdrawalEndsPreserves DEF SellerStep
  <2>2. CASE PauseWithdrawal(s)
    BY <1>1, <2>2, PausePreserves
  <2>3. ASSUME NEW amount \in 0..stakes[s], ResumeAndSlash(s, amount) PROVE StakeInv'
    BY <1>1, <2>3, ResumePreserves
  <2>4. CASE IncrementActiveSales(s) \/ DecrementActiveSales(s)
    BY <1>1, <2>4, ActiveSalesPreserve
  <2>5. QED
    BY <1>1, <2>1, <2>2, <2>3, <2>4 DEF StakeStep
<1>2. CASE Tick /\ UNCHANGED stakeVars
  BY <1>2, TickPreserves DEF Tick
<1>3. CASE UNCHANGED <<now, stakeVars>>
  BY <1>3, TickPreserves
<1>4. QED
  BY <1>1, <1>2, <1>3 DEF StakeNext

\* Every reachable state of the stake contract satisfies the inductive invariant.
THEOREM StakeInvariant == StakeSpec => []StakeInv
<1>1. StandaloneInit => StakeInv
  BY InitStakeInv
<1>2. StakeInv /\ [StakeNext]_<<now, stakeVars>> => StakeInv'
  BY NextPreservesStakeInv
<1>3. QED
  BY <1>1, <1>2, PTL DEF StakeSpec

\* Every variable of the stake contract keeps its type.
THEOREM StakeTypeCorrect == StakeSpec => []StakeTypeOK
<1>1. StakeInv => StakeTypeOK
  BY DEF StakeInv
<1>2. QED
  BY <1>1, StakeInvariant, PTL

\* Whatever the order in which disputes freeze and thaw a withdrawal, it is either
\* frozen with its cooldown captured or running with an unlock time.
THEOREM StakeFreezesConsistent == StakeSpec => []FreezeConsistent
<1>1. StakeInv => FreezeConsistent
  BY DEF StakeInv
<1>2. QED
  BY <1>1, StakeInvariant, PTL

(***************************************************************************)
(* The steps of one seller do not touch the others.                        *)
(***************************************************************************)
LEMMA OthersUntouched ==
  ASSUME StakeTypeOK, NEW s \in Sellers, NEW t \in Sellers \ {s}, StakeStep(s)
  PROVE  UNCHANGED <<stakes[t], tiers[t], freezeCount[t], withdrawals[t]>>
<1>1. CASE SellerStep(s)
  BY <1>1 DEF SellerStep, DepositStake, UpgradeTier, TopUpStake, InitiateWithdrawal,
              ExecuteWithdrawal, CancelWithdrawal, StakeTypeOK
<1>2. CASE PauseWithdrawal(s)
  BY <1>2 DEF PauseWithdrawal, StakeTypeOK
<1>3. ASSUME NEW amount \in 0..stakes[s], ResumeAndSlash(s, amount)
      PROVE  UNCHANGED <<stakes[t], tiers[t], freezeCount[t], withdrawals[t]>>
  BY <1>3 DEF ResumeAndSlash, Resumed, Slashed, StakeTypeOK
<1>4. CASE IncrementActiveSales(s) \/ DecrementActiveSales(s)
  BY <1>4 DEF IncrementActiveSales, DecrementActiveSales
<1>5. QED
  BY <1>1, <1>2, <1>3, <1>4 DEF StakeStep

(***************************************************************************)
(* The cooldown of a seller: CooldownRunsOnlyUnfrozen for one seller.      *)
(***************************************************************************)
CooldownKept(s) ==
    withdrawals[s].active =>
        IF withdrawals'[s].active
        THEN \/ RemainingCooldown(s)' = RemainingCooldown(s)
             \/ /\ RemainingCooldown(s)' < RemainingCooldown(s)
                /\ freezeCount[s] = 0 /\ now' > now
        ELSE stakes'[s] < stakes[s] =>
             RemainingCooldown(s) = 0 /\ freezeCount[s] = 0

LEMMA UntouchedCooldownKept ==
  ASSUME NEW s \in Sellers, UNCHANGED <<now, freezeCount[s], withdrawals[s]>>
  PROVE  CooldownKept(s)
BY DEF CooldownKept, RemainingCooldown

LEMMA StepKeepsCooldown ==
  ASSUME StakeInv, NEW s \in Sellers, StakeStep(s), now' = now
  PROVE  CooldownKept(s)
<1> DEFINE w == withdrawals[s]
<1>1. /\ w \in WithdrawalState /\ freezeCount[s] \in Nat /\ stakes[s] \in Nat
      /\ now \in Nat
  BY DEF StakeInv, StakeTypeOK
<1>2. CASE SellerStep(s)
  <2>1. CASE UNCHANGED <<freezeCount, withdrawals>>
    BY <2>1, UntouchedCooldownKept
  <2>2. CASE \E newTier \in StakeTier : InitiateWithdrawal(s, newTier)
    BY <2>2 DEF InitiateWithdrawal, CooldownKept
  <2>3. CASE ExecuteWithdrawal(s)
    <3>1. /\ freezeCount[s] = 0 /\ now >= w.unlockAt
          /\ withdrawals' = [withdrawals EXCEPT ![s] = NoWithdrawal]
      BY <2>3 DEF ExecuteWithdrawal
    <3>2. ~withdrawals'[s].active
      BY <3>1 DEF StakeInv, StakeTypeOK
    <3>3. RemainingCooldown(s) = 0
      BY <1>1, <3>1 DEF RemainingCooldown
    <3>4. QED
      BY <3>1, <3>2, <3>3 DEF CooldownKept
  <2>4. CASE CancelWithdrawal(s)
    <3>1. ~withdrawals'[s].active /\ stakes' = stakes
      BY <2>4 DEF CancelWithdrawal, StakeInv, StakeTypeOK
    <3>2. QED
      BY <1>1, <3>1 DEF CooldownKept
  <2>5. QED
    BY <1>2, <2>1, <2>2, <2>3, <2>4
       DEF SellerStep, DepositStake, UpgradeTier, TopUpStake
<1>3. CASE PauseWithdrawal(s)
  <2>1. freezeCount'[s] = freezeCount[s] + 1
    BY <1>3 DEF PauseWithdrawal, StakeInv, StakeTypeOK
  <2>2. CASE w.active /\ FirstFreeze(s)
    <3>1. withdrawals'[s].frozenRemaining = CooldownLeft(w.unlockAt) /\ withdrawals'[s].active
      BY <1>1, <1>3, <2>2 DEF PauseWithdrawal, StakeInv, StakeTypeOK
    <3>2. RemainingCooldown(s)' = CooldownLeft(w.unlockAt)
      BY <1>1, <2>1, <3>1 DEF RemainingCooldown
    <3>3. RemainingCooldown(s) = CooldownLeft(w.unlockAt)
      BY <1>1, <2>2 DEF RemainingCooldown, CooldownLeft, FirstFreeze
    <3>4. QED
      BY <3>1, <3>2, <3>3 DEF CooldownKept
  <2>3. CASE w.active /\ ~FirstFreeze(s)
    <3>1. withdrawals' = withdrawals /\ freezeCount[s] > 0 /\ freezeCount'[s] > 0
      BY <1>1, <1>3, <2>1, <2>3 DEF PauseWithdrawal, FirstFreeze
    <3>2. RemainingCooldown(s)' = RemainingCooldown(s)
      BY <3>1 DEF RemainingCooldown
    <3>3. QED
      BY <2>3, <3>1, <3>2 DEF CooldownKept
  <2>4. QED
    BY <2>2, <2>3 DEF CooldownKept
<1>4. ASSUME NEW amount \in 0..stakes[s], ResumeAndSlash(s, amount)
      PROVE  CooldownKept(s)
  <2>1. /\ freezeCount[s] > 0 /\ freezeCount'[s] = freezeCount[s] - 1
        /\ withdrawals' = Resumed(s)
    BY <1>4 DEF ResumeAndSlash, StakeInv, StakeTypeOK
  <2>2. CASE w.active /\ LastFreeze(s)
    <3>1. /\ withdrawals'[s].unlockAt = now + w.frozenRemaining
          /\ withdrawals'[s].active
      BY <1>1, <2>1, <2>2 DEF Resumed, StakeInv, StakeTypeOK
    <3>2. freezeCount'[s] = 0 /\ w.frozenRemaining \in Nat
      BY <1>1, <2>1, <2>2 DEF LastFreeze
    <3>3. RemainingCooldown(s)' = w.frozenRemaining
      BY <1>1, <1>4, <3>1, <3>2 DEF RemainingCooldown
    <3>4. RemainingCooldown(s) = w.frozenRemaining
      BY <2>1 DEF RemainingCooldown
    <3>5. QED
      BY <3>1, <3>3, <3>4 DEF CooldownKept
  <2>3. CASE w.active /\ ~LastFreeze(s)
    <3>1. withdrawals' = withdrawals /\ freezeCount'[s] > 0
      BY <1>1, <2>1, <2>3 DEF Resumed, LastFreeze
    <3>2. RemainingCooldown(s)' = RemainingCooldown(s)
      BY <2>1, <3>1 DEF RemainingCooldown
    <3>3. QED
      BY <2>3, <3>1, <3>2 DEF CooldownKept
  <2>4. QED
    BY <2>2, <2>3 DEF CooldownKept
<1>5. CASE IncrementActiveSales(s) \/ DecrementActiveSales(s)
  BY <1>5, UntouchedCooldownKept DEF IncrementActiveSales, DecrementActiveSales
<1>6. QED
  BY <1>2, <1>3, <1>4, <1>5 DEF StakeStep

LEMMA TickKeepsCooldown ==
  ASSUME StakeInv, NEW s \in Sellers, Tick, UNCHANGED stakeVars
  PROVE  CooldownKept(s)
<1>1. /\ freezeCount[s] \in Nat /\ now \in Nat /\ now' = now + 1
      /\ withdrawals[s].unlockAt \in Nat
      /\ UNCHANGED <<freezeCount, withdrawals>>
  BY DEF StakeInv, StakeTypeOK, Tick, stakeVars
<1>2. CASE freezeCount[s] > 0
  BY <1>1, <1>2 DEF CooldownKept, RemainingCooldown
<1>3. CASE freezeCount[s] = 0
  BY <1>1, <1>3 DEF CooldownKept, RemainingCooldown
<1>4. QED
  BY <1>1, <1>2, <1>3

\* No dispute shortens or lengthens the cooldown of a withdrawal, however many there
\* are and in whatever order they open and end.
THEOREM StakeCooldownExact == StakeSpec => CooldownRunsOnlyUnfrozen
<1>1. StakeInv /\ [StakeNext]_<<now, stakeVars>>
      => [\A s \in Sellers : CooldownKept(s)]_<<now, stakeVars>>
  <2> SUFFICES ASSUME StakeInv, StakeNext, NEW s \in Sellers PROVE CooldownKept(s)
    OBVIOUS
  <2>1. ASSUME NEW t \in Sellers, StakeStep(t), now' = now PROVE CooldownKept(s)
    <3>1. CASE t = s
      BY <2>1, <3>1, StepKeepsCooldown
    <3>2. CASE t # s
      BY <2>1, <3>2, OthersUntouched, UntouchedCooldownKept DEF StakeInv
    <3>3. QED
      BY <3>1, <3>2
  <2>2. CASE Tick /\ UNCHANGED stakeVars
    BY <2>2, TickKeepsCooldown
  <2>3. QED
    BY <2>1, <2>2 DEF StakeNext
<1>2. QED
  BY <1>1, StakeInvariant, PTL DEF StakeSpec, CooldownRunsOnlyUnfrozen, CooldownKept

(***************************************************************************)
(* The cover of a tier.                                                    *)
(***************************************************************************)
UncoveredLate(s) ==
    Covered(s) /\ ~Covered(s)' =>
        /\ withdrawals[s].active /\ ~withdrawals'[s].active
        /\ withdrawals[s].amount > WithdrawnAmount(s, withdrawals[s].targetTier)

LEMMA UntouchedUncoveredLate ==
  ASSUME NEW s \in Sellers, UNCHANGED <<stakes[s], tiers[s]>>
  PROVE  UncoveredLate(s)
BY DEF UncoveredLate, Covered

LEMMA StepUncoversLate ==
  ASSUME StakeInv, NEW s \in Sellers, StakeStep(s)
  PROVE  UncoveredLate(s)
<1>1. /\ stakes[s] \in Nat /\ tiers[s] \in StakeTier
      /\ withdrawals[s] \in WithdrawalState
      /\ TierAmount(tiers[s]) \in Nat
  BY TierAmountType DEF StakeInv, StakeTypeOK
<1>2. ASSUME NEW tier \in StakeTier, NEW eligible \in BOOLEAN, DepositStake(s, tier, eligible)
      PROVE  UncoveredLate(s)
  <2>1. stakes'[s] = TierAmount(tier) /\ tiers'[s] = tier
    BY <1>2 DEF DepositStake, StakeInv, StakeTypeOK
  <2>2. QED
    BY <2>1, TierAmountType DEF UncoveredLate, Covered
<1>3. ASSUME NEW tier \in StakeTier, NEW eligible \in BOOLEAN, UpgradeTier(s, tier, eligible)
      PROVE  UncoveredLate(s)
  <2>1. stakes'[s] = stakes[s] + UpgradeDelta(s, tier) /\ tiers'[s] = tier
    BY <1>3 DEF UpgradeTier, StakeInv, StakeTypeOK
  <2>2. stakes'[s] >= TierAmount(tier)
    BY <1>1, <2>1, TierAmountType DEF UpgradeDelta
  <2>3. QED
    BY <2>1, <2>2 DEF UncoveredLate, Covered
<1>4. ASSUME NEW amount \in 1..TIER_3_STAKE, TopUpStake(s, amount)
      PROVE  UncoveredLate(s)
  <2>1. stakes'[s] = stakes[s] + amount /\ tiers'[s] = tiers[s]
    BY <1>4 DEF TopUpStake, StakeInv, StakeTypeOK
  <2>2. QED
    BY <1>1, <2>1 DEF UncoveredLate, Covered
<1>5. CASE ExecuteWithdrawal(s)
  <2> DEFINE w == withdrawals[s]
  <2>1. /\ w.active /\ ~withdrawals'[s].active
        /\ stakes'[s] = stakes[s] - w.amount /\ tiers'[s] = w.targetTier
    BY <1>5 DEF ExecuteWithdrawal, StakeInv, StakeTypeOK
  <2>2. w.amount \in Nat /\ TierAmount(w.targetTier) \in Nat
    BY <1>1, TierAmountType
  <2>3. CASE ~Covered(s)'
    <3>1. ~(stakes[s] - w.amount >= TierAmount(w.targetTier))
      BY <2>1, <2>3 DEF Covered
    <3>2. w.amount > stakes[s] - TierAmount(w.targetTier)
      BY <1>1, <2>2, <3>1
    <3>3. QED
      BY <2>1, <3>2 DEF UncoveredLate, WithdrawnAmount
  <2>4. QED
    BY <2>3 DEF UncoveredLate
<1>6. ASSUME NEW amount \in 0..stakes[s], ResumeAndSlash(s, amount)
      PROVE  UncoveredLate(s)
  <2>1. CASE amount > 0
    <3>1. /\ amount \in 0..stakes[s]
          /\ stakes'[s] = stakes[s] - amount
          /\ tiers'[s] = SupportedTier(stakes[s] - amount)
      BY <1>6, <2>1 DEF ResumeAndSlash, Slashed, StakeInv, StakeTypeOK
    <3>2. stakes[s] - amount \in Nat
      BY <1>1, <3>1
    <3>3. /\ TierAmount(SupportedTier(stakes[s] - amount)) <= stakes[s] - amount
          /\ TierAmount(SupportedTier(stakes[s] - amount)) \in Nat
      BY <3>2, SupportedTierCovered, TierAmountType
    <3>4. Covered(s)'
      BY <3>1, <3>2, <3>3 DEF Covered
    <3>5. QED
      BY <3>4 DEF UncoveredLate
  <2>2. CASE ~(amount > 0)
    BY <1>6, <2>2, UntouchedUncoveredLate DEF ResumeAndSlash
  <2>3. QED
    BY <2>1, <2>2
<1>7. CASE UNCHANGED <<stakes, tiers>>
  BY <1>7, UntouchedUncoveredLate
<1>8. QED
  BY <1>2, <1>3, <1>4, <1>5, <1>6, <1>7
     DEF StakeStep, SellerStep, InitiateWithdrawal, CancelWithdrawal, PauseWithdrawal,
         IncrementActiveSales, DecrementActiveSales

\* A tier loses the stake behind it in one way only: the execution of a withdrawal
\* whose amount was fixed when the stake was higher.
THEOREM StakeUncoveredOnlyLate == StakeSpec => OnlyLateWithdrawalUncovers
<1>1. StakeInv /\ [StakeNext]_<<now, stakeVars>>
      => [\A s \in Sellers : UncoveredLate(s)]_<<now, stakeVars>>
  <2> SUFFICES ASSUME StakeInv, StakeNext, NEW s \in Sellers PROVE UncoveredLate(s)
    OBVIOUS
  <2>1. ASSUME NEW t \in Sellers, StakeStep(t) PROVE UncoveredLate(s)
    <3>1. CASE t = s
      BY <2>1, <3>1, StepUncoversLate
    <3>2. CASE t # s
      BY <2>1, <3>2, OthersUntouched, UntouchedUncoveredLate DEF StakeInv
    <3>3. QED
      BY <3>1, <3>2
  <2>2. CASE Tick /\ UNCHANGED stakeVars
    BY <2>2, UntouchedUncoveredLate DEF stakeVars
  <2>3. QED
    BY <2>1, <2>2 DEF StakeNext
<1>2. QED
  BY <1>1, StakeInvariant, PTL DEF StakeSpec, OnlyLateWithdrawalUncovers, UncoveredLate

(***************************************************************************)
(* The balance: what a step takes from it, or less, it takes from one      *)
(* stake on record.                                                        *)
(***************************************************************************)
LEMMA StakesSum ==
  ASSUME StakeTypeOK
  PROVE  SumFunction(stakes) = SumFunctionOnSet(stakes, Sellers)
BY DEF StakeTypeOK, SumFunction

\* The balance moves at least as much as the stake that is replaced.
LEMMA OneStakeMoves ==
  ASSUME StakeTypeOK, Solvent, NEW s \in Sellers, NEW v \in Nat,
         stakes' = [stakes EXCEPT ![s] = v], usdt' \in Int,
         usdt' - usdt >= v - stakes[s]
  PROVE  Solvent'
<1>1. stakes \in [Sellers -> Nat] /\ stakes' \in [Sellers -> Nat] /\ usdt \in Nat
  BY DEF StakeTypeOK
<1>2. SumFunction(stakes)' = SumFunctionOnSet(stakes', Sellers)
  BY <1>1 DEF SumFunction
<1>3. SumFunctionOnSet(stakes', Sellers)
        = SumFunctionOnSet(stakes, Sellers) - SumFunctionOnSet(stakes, {s})
          + SumFunctionOnSet(stakes', {s})
  <2>1. /\ {s} \in SUBSET Sellers
        /\ \A t \in Sellers : stakes[t] \in Int /\ stakes'[t] \in Int
        /\ \A t \in Sellers \ {s} : stakes'[t] = stakes[t]
    BY <1>1
  <2>2. QED
    BY ONLY <2>1, FinitenessAssumption, SumChange
<1>4. SumFunctionOnSet(stakes, {s}) = stakes[s] /\ SumFunctionOnSet(stakes', {s}) = v
  <2>1. stakes[s] \in Int /\ stakes'[s] \in Int /\ stakes'[s] = v
    BY <1>1
  <2>2. QED
    BY <2>1, SumSingleton
<1>5. SumFunctionOnSet(stakes, Sellers) \in Int /\ stakes[s] \in Nat
  BY <1>1, FinitenessAssumption, SumInt
<1>6. usdt >= SumFunctionOnSet(stakes, Sellers)
  BY StakesSum DEF Solvent
<1>7. usdt' >= SumFunctionOnSet(stakes', Sellers)
  BY <1>1, <1>3, <1>4, <1>5, <1>6
<1>8. QED
  BY <1>2, <1>7 DEF Solvent

LEMMA StepKeepsSolvent ==
  ASSUME StakeTypeOK, Solvent, NEW s \in Sellers, StakeStep(s)
  PROVE  Solvent'
<1>1. stakes[s] \in Nat /\ usdt \in Nat
  BY DEF StakeTypeOK
<1>2. ASSUME NEW tier \in StakeTier, NEW eligible \in BOOLEAN, DepositStake(s, tier, eligible)
      PROVE  Solvent'
  <2>1. /\ stakes' = [stakes EXCEPT ![s] = TierAmount(tier)]
        /\ usdt' = usdt + TierAmount(tier)
    BY <1>2 DEF DepositStake, TransferIn
  <2>2. /\ TierAmount(tier) \in Nat /\ usdt' \in Int
        /\ usdt' - usdt >= TierAmount(tier) - stakes[s]
    BY <1>1, <2>1, TierAmountType
  <2>3. QED
    BY <2>1, <2>2, OneStakeMoves
<1>3. ASSUME NEW tier \in StakeTier, NEW eligible \in BOOLEAN, UpgradeTier(s, tier, eligible)
      PROVE  Solvent'
  <2>1. UpgradeDelta(s, tier) \in Nat
    BY <1>1, TierAmountType DEF UpgradeDelta
  <2>2. /\ stakes' = [stakes EXCEPT ![s] = stakes[s] + UpgradeDelta(s, tier)]
        /\ usdt' = usdt + UpgradeDelta(s, tier)
    BY <1>3 DEF UpgradeTier, TransferIn
  <2>3. /\ stakes[s] + UpgradeDelta(s, tier) \in Nat /\ usdt' \in Int
        /\ usdt' - usdt >= (stakes[s] + UpgradeDelta(s, tier)) - stakes[s]
    BY <1>1, <2>1, <2>2
  <2>4. QED
    BY <2>2, <2>3, OneStakeMoves
<1>4. ASSUME NEW amount \in 1..TIER_3_STAKE, TopUpStake(s, amount)
      PROVE  Solvent'
  <2>1. /\ stakes' = [stakes EXCEPT ![s] = stakes[s] + amount]
        /\ usdt' = usdt + amount
    BY <1>4 DEF TopUpStake, TransferIn
  <2>2. /\ stakes[s] + amount \in Nat /\ usdt' \in Int
        /\ usdt' - usdt >= (stakes[s] + amount) - stakes[s]
    BY <1>1, <2>1
  <2>3. QED
    BY <2>1, <2>2, OneStakeMoves
<1>5. ASSUME NEW amount \in 0..stakes[s], amount <= usdt,
             stakes' = [stakes EXCEPT ![s] = stakes[s] - amount], usdt' = usdt - amount
      PROVE  Solvent'
  <2>1. /\ stakes[s] - amount \in Nat /\ usdt' \in Int
        /\ usdt' - usdt >= (stakes[s] - amount) - stakes[s]
    BY <1>1, <1>5
  <2>2. QED
    BY <1>5, <2>1, OneStakeMoves
<1>6. CASE \/ ExecuteWithdrawal(s)
           \/ \E amount \in 0..stakes[s] : ResumeAndSlash(s, amount) /\ amount > 0
  BY <1>1, <1>5, <1>6 DEF ExecuteWithdrawal, ResumeAndSlash, Slashed, TransferOut
<1>7. CASE UNCHANGED <<stakes, usdt>>
  BY <1>7 DEF Solvent
<1>8. QED
  BY <1>2, <1>3, <1>4, <1>5, <1>6, <1>7
     DEF StakeStep, SellerStep, InitiateWithdrawal, CancelWithdrawal, PauseWithdrawal,
         ResumeAndSlash, IncrementActiveSales, DecrementActiveSales

\* For any number of sellers, the contract holds at least the stakes on record, through
\* every sequence of deposits, upgrades, withdrawals, freezes and slashes.
THEOREM StakeSolvent == StakeSpec => []Solvent
<1>1. StandaloneInit => Solvent
  <2> SUFFICES ASSUME StakeInit PROVE Solvent
    BY DEF StandaloneInit
  <2>1. SumFunctionOnSet(stakes, Sellers) = 0
    BY FinitenessAssumption, SumZero DEF StakeInit
  <2>2. QED
    BY <2>1 DEF StakeInit, Solvent, SumFunction
<1>2. StakeInv /\ Solvent /\ [StakeNext]_<<now, stakeVars>> => Solvent'
  <2>1. ASSUME UNCHANGED stakeVars, Solvent PROVE Solvent'
    BY <2>1 DEF Solvent, stakeVars
  <2>2. QED
    BY <2>1, StepKeepsSolvent DEF StakeNext, StakeInv
<1>3. QED
  BY <1>1, <1>2, StakeInvariant, PTL DEF StakeSpec

HIDE DEF None, Starter, Established, TopSeller, StakeTier, WithdrawalState, NoWithdrawal
-------------------------------------------------------------------------------
(***************************************************************************)
(* The contracts together.                                                 *)
(***************************************************************************)
USE DEF TerminalItemStatus, Terminal

LEMMA ApplyResolutionResolves ==
  ASSUME IInv, NEW i \in Items, NEW refund, NEW slash, ApplyResolution(i, refund, slash)
  PROVE  refund \in 0..PriceOf[i] /\ ResolveItemDispute(i, refund)
<1>1. ResolveItemDispute(i, refund) /\ refund \in 0..RemainingInEscrow(i)
  BY DEF ApplyResolution, ResolveItemDispute
<1>2. PriceOf[i] \in Nat /\ releasedAmount[i] \in Nat
  BY AmountsAssumption DEF IInv, TypeOK
<1>3. QED
  BY <1>1, <1>2 DEF RemainingInEscrow

(***************************************************************************)
(* What a step does to the items and to the levels of their disputes.      *)
(***************************************************************************)
Opens(i) ==
    /\ level[i] = "None" /\ MarkItemDisputed(i)
    /\ level' = [level EXCEPT ![i] = "N1"]

Resolves(i) ==
    /\ DisputeOpen(i)
    /\ \E refund \in 0..PriceOf[i] : ResolveItemDispute(i, refund)
    /\ level' = [level EXCEPT ![i] = "Resolved"]

Escalates(i) ==
    /\ DisputeOpen(i) /\ UNCHANGED vars
    /\ \E next \in {"N2", "N3"} : level' = [level EXCEPT ![i] = next]

LEMMA DisputeNextKind ==
  ASSUME IInv, DisputeNext
  PROVE  \/ \E i \in Items : Opens(i) \/ Resolves(i) \/ Escalates(i)
         \/ UNCHANGED vars /\ level' = level
<1> DEFINE Kind == \/ \E i \in Items : Opens(i) \/ Resolves(i) \/ Escalates(i)
                   \/ UNCHANGED vars /\ level' = level
<1> SUFFICES Kind
  OBVIOUS
<1>1. ASSUME NEW i \in Items, OpenDispute(i) PROVE Kind
  BY <1>1 DEF OpenDispute, Opens
<1>2. ASSUME NEW i \in Items, NEW caller, EscalateToMediation(i, caller) PROVE Kind
  BY <1>2 DEF EscalateToMediation, Escalates, DisputeOpen
<1>3. ASSUME NEW i \in Items, NEW caller, EscalateToVoting(i, caller) PROVE Kind
  BY <1>3 DEF EscalateToVoting, Escalates, DisputeOpen
<1>4. ASSUME NEW i \in Items, NEW refund, NEW slash, ApplyResolution(i, refund, slash),
             DisputeOpen(i)
      PROVE  Kind
  <2>1. refund \in 0..PriceOf[i] /\ ResolveItemDispute(i, refund)
    BY <1>4, ApplyResolutionResolves
  <2>2. QED
    BY <1>4, <2>1 DEF ApplyResolution, Resolves
<1>5. ASSUME NEW i \in Items, NEW refund, NEW byBuyer, ResolveN1Amicable(i, byBuyer, refund)
      PROVE  Kind
  <2>1. CASE ProposalsMatch(buyerProposal'[i], sellerProposal'[i])
    BY <1>4, <1>5, <2>1 DEF ResolveN1Amicable, DisputeOpen
  <2>2. CASE ~ProposalsMatch(buyerProposal'[i], sellerProposal'[i])
    BY <1>5, <2>2 DEF ResolveN1Amicable
  <2>3. QED
    BY <2>1, <2>2
<1>6. ASSUME NEW i \in Items, NEW refund, NEW slash, ResolveN2Mediation(i, refund, slash)
      PROVE  Kind
  BY <1>4, <1>6 DEF ResolveN2Mediation, DisputeOpen
<1>7. ASSUME NEW i \in Items, NEW med, AssignN2Mediator(i, med) PROVE Kind
  BY <1>7 DEF AssignN2Mediator
<1>8. ASSUME NEW i \in Items, NEW voter, NEW favorBuyer, CastBallot(i, voter, favorBuyer)
      PROVE  Kind
  BY <1>8 DEF CastBallot, disputeVars
<1>9. ASSUME NEW i \in Items, FinalizeAndResolve(i) PROVE Kind
  BY <1>4, <1>9 DEF FinalizeAndResolve, DisputeOpen
<1>10. ASSUME NEW i \in Items, AdminForceCloseN3IfNoQuorum(i) PROVE Kind
  BY <1>4, <1>10 DEF AdminForceCloseN3IfNoQuorum, DisputeOpen
<1>11. ASSUME NEW i \in Items, DisputeStep(i) PROVE Kind
  <2> HIDE DEF Kind
  <2>1. QED
    BY <1>1, <1>2, <1>3, <1>5, <1>6, <1>7, <1>8, <1>9, <1>10, <1>11 DEF DisputeStep
<1>12. ASSUME NEW med, NEW approved, ApproveMediator(med, approved) PROVE Kind
  BY <1>12 DEF ApproveMediator
<1>13. ASSUME NEW contract, NEW isSet, SetContract(contract, isSet) PROVE Kind
  BY <1>13 DEF SetContract
<1> HIDE DEF Kind
<1>14. QED
  BY <1>11, <1>12, <1>13 DEF DisputeNext

(***************************************************************************)
(* Every transaction of the protocol is a transaction of the escrow, or    *)
(* leaves it alone.                                                        *)
(***************************************************************************)
LEMMA ProtocolStepIsEscrowStep == IInv /\ [ProtocolNext]_protocolVars => [Next]_vars
<1> SUFFICES ASSUME IInv, [ProtocolNext]_protocolVars PROVE [Next]_vars
  OBVIOUS
<1>1. CASE EntryPoint \/ Advance
  BY <1>1 DEF Next
<1>2. CASE DisputeNext
  BY <1>2, DisputeNextKind DEF Next, DisputeHook, Opens, Resolves, Escalates
<1>3. CASE UNCHANGED vars
  BY <1>3
<1>4. QED
  BY <1>1, <1>2, <1>3 DEF ProtocolNext, protocolVars

\* The escrow's inductive invariant, and with it every safety property proved of the
\* escrow, holds of the whole protocol.
THEOREM ProtocolEscrowInvariant == ProtocolSpec => []IInv
<1>1. ProtocolInit => IInv
  BY InitIInv DEF ProtocolInit
<1>2. IInv /\ [ProtocolNext]_protocolVars => IInv'
  BY ProtocolStepIsEscrowStep, NextPreservesIInv
<1>3. QED
  BY <1>1, <1>2, PTL DEF ProtocolSpec

\* The protocol implements the escrow with its free dispute contract: what the
\* dispute, voting and stake contracts send is something EtaloEscrow allows.
THEOREM ProtocolImplementsEscrow == ProtocolSpec => Spec
<1>1. ProtocolInit => Init
  BY DEF ProtocolInit
<1>2. IInv /\ [ProtocolNext]_protocolVars => [Next]_vars
  BY ProtocolStepIsEscrowStep
<1>3. QED
  BY <1>1, <1>2, ProtocolEscrowInvariant, PTL DEF ProtocolSpec, Spec

\* So the escrow keeps its promises under real disputes: its books balance, every item is paid
\* out once, a weekly volume is only taken back by a refund of what was shipped, and the
\* escrow implements the custody of an item and the life of an order.
THEOREM ProtocolKeepsEscrowPromises ==
  ProtocolSpec => /\ [](EscrowAccounting /\ PaidExactlyOnce)
                  /\ WeeklyCreditNeedsShippedRefund
                  /\ ImplementsCustody /\ ImplementsLifecycle
<1>1. ProtocolSpec => [](EscrowAccounting /\ PaidExactlyOnce)
  BY ProtocolImplementsEscrow, EscrowAccountingExact, EscrowPaysExactlyOnce, PTL
<1>2. ProtocolSpec => WeeklyCreditNeedsShippedRefund
  BY ProtocolImplementsEscrow, EscrowWeeklyCredit
<1>3. ProtocolSpec => ImplementsCustody /\ ImplementsLifecycle
  BY ProtocolImplementsEscrow, EscrowImplementsCustody, EscrowImplementsLifecycle
<1>4. QED
  BY <1>1, <1>2, <1>3

(***************************************************************************)
(* The escrow's and the dispute contract's views of an item.               *)
(***************************************************************************)
\* What a forced refund leaves of an item whose dispute it does not end.
OrphanedByForceRefund(i) ==
    orderStatus[OrderOf[i]] = "Refunded" /\ itemStatus[i] = "Refunded"

ViewsAgree(i) ==
    /\ itemStatus[i] = "Disputed" => DisputeOpen(i)
    /\ DisputeOpen(i) => itemStatus[i] = "Disputed" \/ OrphanedByForceRefund(i)

AllViewsAgree == \A i \in Items : ViewsAgree(i)

MirrorInv ==
    /\ IInv
    /\ level \in [Items -> DisputeLevel]
    /\ AllViewsAgree

\* An orphaned item stays one: its order is closed and the item settled.
LEMMA OrphanStays ==
  ASSUME IInv, Next, NEW i \in Items, OrphanedByForceRefund(i)
  PROVE  OrphanedByForceRefund(i)'
<1>1. ItemUntouched(i) /\ OrderSettled(OrderOf[i])
  BY NextItemSettled, NextSettlesOrders, PartiesAssumption DEF OrphanedByForceRefund
<1>2. QED
  BY <1>1 DEF ItemUntouched, OrderSettled, OrphanedByForceRefund, ClosedOrderStatus

\* A step that does not touch the item leaves the views as they are.
LEMMA UntouchedKeepsViews ==
  ASSUME MirrorInv, Next, NEW i \in Items, ItemUntouched(i), level'[i] = level[i]
  PROVE  ViewsAgree(i)'
BY OrphanStays DEF MirrorInv, AllViewsAgree, ViewsAgree, ItemUntouched, DisputeOpen

\* The steps of the parties, the keepers and the owner.
LEMMA EntryPointKeepsViews ==
  ASSUME MirrorInv, EntryPoint, level' = level, NEW i \in Items
  PROVE  ViewsAgree(i)'
<1>1. ItemEffect(i) /\ Next
  BY EntryPointEffect DEF MirrorInv, Next
<1>2. CASE ItemUntouched(i)
  BY <1>1, <1>2, UntouchedKeepsViews
<1>3. CASE ItemShipped(i) \/ ItemClosed(i) \/ ItemForceRefunded(i)
  BY <1>3 DEF ItemShipped, ItemClosed, ItemForceRefunded, OpenForDispute, MirrorInv,
              AllViewsAgree, ViewsAgree, OrphanedByForceRefund, DisputeOpen
<1>4. QED
  BY <1>1, <1>2, <1>3 DEF ItemEffect

\* The steps of the dispute contract.
LEMMA DisputeKeepsViews ==
  ASSUME MirrorInv, NEW j \in Items, Opens(j) \/ Resolves(j) \/ Escalates(j), NEW i \in Items
  PROVE  ViewsAgree(i)'
<1>1. level \in [Items -> DisputeLevel]
  BY DEF MirrorInv
<1>2. CASE Opens(j)
  <2>1. /\ itemStatus'[j] = "Disputed" /\ \A k \in Items \ {j} : ItemUntouched(k)
        /\ Next
    BY <1>2, MarkEffect DEF Opens, MirrorInv, IInv, Next, DisputeHook
  <2>2. CASE i = j
    BY <1>1, <1>2, <2>1, <2>2 DEF Opens, ViewsAgree, DisputeOpen
  <2>3. CASE i # j
    BY <1>1, <1>2, <2>1, <2>3, UntouchedKeepsViews DEF Opens
  <2>4. QED
    BY <2>2, <2>3
<1>3. CASE Resolves(j)
  <2>1. /\ itemStatus'[j] \in TerminalItemStatus /\ \A k \in Items \ {j} : ItemUntouched(k)
        /\ Next
    BY <1>3, ResolveEffect DEF Resolves, MirrorInv, IInv, Next, DisputeHook
  <2>2. CASE i = j
    BY <1>1, <1>3, <2>1, <2>2 DEF Resolves, ViewsAgree, DisputeOpen
  <2>3. CASE i # j
    BY <1>1, <1>3, <2>1, <2>3, UntouchedKeepsViews DEF Resolves
  <2>4. QED
    BY <2>2, <2>3
<1>4. CASE Escalates(j)
  <2>1. itemStatus' = itemStatus /\ orderStatus' = orderStatus
    BY <1>4 DEF Escalates, vars, escrowVars, orderVars, itemVars
  <2>2. DisputeOpen(i)' = DisputeOpen(i)
    BY <1>1, <1>4 DEF Escalates, DisputeOpen
  <2>3. QED
    BY <2>1, <2>2 DEF MirrorInv, AllViewsAgree, ViewsAgree, OrphanedByForceRefund
<1>5. QED
  BY <1>2, <1>3, <1>4

\* What a step of the protocol does to the levels of the disputes and to the escrow.
LEMMA ProtocolStepKind ==
  ASSUME IInv, [ProtocolNext]_protocolVars
  PROVE  \/ EntryPoint /\ level' = level
         \/ \E i \in Items : Opens(i) \/ Resolves(i) \/ Escalates(i)
         \/ /\ itemStatus' = itemStatus /\ orderStatus' = orderStatus
            /\ level' = level
<1>1. CASE (EntryPoint \/ Advance) /\ UNCHANGED disputeVars
  BY <1>1 DEF disputeVars, Advance, escrowVars, orderVars, itemVars
<1>2. CASE DisputeNext
  BY <1>2, DisputeNextKind DEF vars, escrowVars, orderVars, itemVars
<1>3. CASE UNCHANGED <<vars, disputeVars>>
  BY <1>3 DEF disputeVars, vars, escrowVars, orderVars, itemVars
<1>4. QED
  BY <1>1, <1>2, <1>3 DEF ProtocolNext, protocolVars

LEMMA ProtocolNextPreservesMirror == MirrorInv /\ [ProtocolNext]_protocolVars => MirrorInv'
<1> SUFFICES ASSUME MirrorInv, [ProtocolNext]_protocolVars PROVE MirrorInv'
  OBVIOUS
<1>1. IInv'
  BY ProtocolStepIsEscrowStep, NextPreservesIInv DEF MirrorInv
<1>2. level' \in [Items -> DisputeLevel]
  BY ProtocolStepKind DEF MirrorInv, Opens, Resolves, Escalates, DisputeLevel
<1>3. ASSUME NEW i \in Items PROVE ViewsAgree(i)'
  <2>1. CASE /\ itemStatus' = itemStatus /\ orderStatus' = orderStatus
             /\ level' = level
    BY <2>1 DEF MirrorInv, AllViewsAgree, ViewsAgree, OrphanedByForceRefund, DisputeOpen
  <2>2. QED
    BY <2>1, ProtocolStepKind, EntryPointKeepsViews, DisputeKeepsViews DEF MirrorInv
<1>4. QED
  BY <1>1, <1>2, <1>3 DEF MirrorInv, AllViewsAgree, ViewsAgree

LEMMA MirrorInvariant == ProtocolSpec => []MirrorInv
<1>1. ProtocolInit => MirrorInv
  <2> SUFFICES ASSUME ProtocolInit PROVE MirrorInv
    OBVIOUS
  <2>1. IInv
    BY InitIInv DEF ProtocolInit
  <2>2. level = [i \in Items |-> "None"] /\ itemStatus = [i \in Items |-> "Pending"]
    BY DEF ProtocolInit, DisputeInit, Init
  <2>3. QED
    BY <2>1, <2>2 DEF MirrorInv, AllViewsAgree, ViewsAgree, DisputeOpen, DisputeLevel
<1>2. MirrorInv /\ [ProtocolNext]_protocolVars => MirrorInv'
  BY ProtocolNextPreservesMirror
<1>3. QED
  BY <1>1, <1>2, PTL DEF ProtocolSpec

\* A step opens a gap between the two views of an item only if it is the owner's forced
\* refund of its order.
LEMMA OnlyForceRefundOrphans ==
  ASSUME MirrorInv, [ProtocolNext]_protocolVars, NEW i \in Items, Orphaned(i)'
  PROVE  Orphaned(i) \/ ForceRefund(OrderOf[i])
<1> USE DEF Orphaned, DisputeOpen
<1>1. CASE EntryPoint /\ level' = level
  <2>1. ItemEffect(i) /\ DisputeOpen(i)
    BY <1>1, EntryPointEffect DEF MirrorInv
  <2>2. CASE itemStatus[i] = "Disputed"
    BY <2>1, <2>2 DEF ItemEffect, ItemUntouched, ItemShipped, ItemClosed, ItemForceRefunded,
                      OpenForDispute
  <2>3. QED
    BY <2>1, <2>2
<1>2. ASSUME NEW j \in Items, Opens(j) \/ Resolves(j) \/ Escalates(j)
      PROVE  Orphaned(i)
  <2>1. itemStatus'[i] # "Disputed" /\ level'[i] \in {"N1", "N2", "N3"}
    OBVIOUS
  <2>2. level \in [Items -> DisputeLevel] /\ TypeOK
    BY DEF MirrorInv, IInv
  <2>3. CASE Opens(j)
    BY <2>1, <2>2, <2>3, MarkEffect DEF Opens, ItemUntouched
  <2>4. CASE Resolves(j)
    BY <2>1, <2>2, <2>4, ResolveEffect DEF Resolves, ItemUntouched
  <2>5. CASE Escalates(j)
    BY <2>1, <2>2, <2>5 DEF Escalates, vars, escrowVars, itemVars
  <2>6. QED
    BY <1>2, <2>3, <2>4, <2>5
<1>3. CASE itemStatus' = itemStatus /\ level' = level
  BY <1>3
<1>4. QED
  BY <1>1, <1>2, <1>3, ProtocolStepKind DEF MirrorInv

\* The escrow holds an item Disputed exactly while a dispute over it is open, and the one
\* step that can part the two is the owner's forced refund of the order: no confirmation,
\* timer or automatic refund takes an item out of its dispute, for any number of orders,
\* items, mediators and concurrent disputes.
THEOREM ProtocolDisputedIffOpen == ProtocolSpec => DisputedIffOpen
<1> DEFINE Mirrored == \A i \in Items : itemStatus[i] = "Disputed" => DisputeOpen(i)
           Parted == \A i \in Items : Orphaned(i)' => Orphaned(i) \/ ForceRefund(OrderOf[i])
           Together == \A i \in Items : ~Orphaned(i)
<1>1. MirrorInv => Mirrored
  BY DEF MirrorInv, AllViewsAgree, ViewsAgree
<1>2. MirrorInv /\ [ProtocolNext]_protocolVars => [Parted]_protocolVars
  BY OnlyForceRefundOrphans
<1>3. ProtocolInit => Together
  BY DEF ProtocolInit, DisputeInit, DisputeOpen, Orphaned
<1> HIDE DEF Mirrored, Parted, Together
<1>4. ProtocolSpec => Together /\ []Mirrored /\ [][Parted]_protocolVars
  BY <1>1, <1>2, <1>3, MirrorInvariant, PTL DEF ProtocolSpec
<1>5. QED
  BY <1>4 DEF DisputedIffOpen, Mirrored, Parted, Together

\* No confirmation, timer or automatic refund takes an item out of its dispute.
THEOREM ProtocolOnlyResolutionEndsDispute == ProtocolSpec => OnlyResolutionEndsDispute
<1> DEFINE Ends(i) ==
      DisputeOpen(i) /\ itemStatus[i] = "Disputed" =>
          \/ DisputeOpen(i)' /\ itemStatus'[i] = "Disputed"
          \/ level'[i] = "Resolved" /\ itemStatus'[i] \in TerminalItemStatus
          \/ ForceRefund(OrderOf[i]) /\ itemStatus'[i] = "Refunded"
<1>1. MirrorInv /\ [ProtocolNext]_protocolVars => [\A i \in Items : Ends(i)]_protocolVars
  <2> SUFFICES ASSUME MirrorInv, [ProtocolNext]_protocolVars, NEW i \in Items,
                      DisputeOpen(i), itemStatus[i] = "Disputed"
               PROVE  Ends(i)
    OBVIOUS
  <2>1. CASE EntryPoint /\ level' = level
    <3>1. ItemEffect(i)
      BY <2>1, EntryPointEffect DEF MirrorInv
    <3>2. QED
      BY <2>1, <3>1 DEF ItemEffect, ItemUntouched, ItemShipped, ItemClosed,
                        ItemForceRefunded, OpenForDispute, DisputeOpen
  <2>2. ASSUME NEW j \in Items, Opens(j) PROVE Ends(i)
    <3>1. i # j /\ \A k \in Items \ {j} : ItemUntouched(k)
      BY <2>2, MarkEffect DEF Opens, MirrorInv, IInv, OpenForDispute
    <3>2. QED
      BY <2>2, <3>1 DEF Opens, ItemUntouched, DisputeOpen, MirrorInv
  <2>3. ASSUME NEW j \in Items, Resolves(j) PROVE Ends(i)
    <3>1. /\ itemStatus'[j] \in TerminalItemStatus
          /\ \A k \in Items \ {j} : ItemUntouched(k)
      BY <2>3, ResolveEffect DEF Resolves, MirrorInv, IInv
    <3>2. QED
      BY <2>3, <3>1 DEF Resolves, ItemUntouched, DisputeOpen, MirrorInv
  <2>4. ASSUME NEW j \in Items, Escalates(j) PROVE Ends(i)
    BY <2>4 DEF Escalates, DisputeOpen, MirrorInv, vars, escrowVars, itemVars
  <2>5. CASE itemStatus' = itemStatus /\ level' = level
    BY <2>5 DEF DisputeOpen
  <2>6. QED
    BY <2>1, <2>2, <2>3, <2>4, <2>5, ProtocolStepKind DEF MirrorInv
<1>2. QED
  BY <1>1, MirrorInvariant, PTL DEF ProtocolSpec, OnlyResolutionEndsDispute

(***************************************************************************)
(* The mediator and the voters of a dispute.  The voters are chosen when   *)
(* the dispute is put to the vote, after which no mediator is assigned.    *)
(***************************************************************************)
VotersChosenAtN3 ==
    \A i \in Items : level[i] \in {"None", "N1", "N2"} => eligibility[i] = {}

MediationInv ==
    /\ level \in [Items -> DisputeLevel]
    /\ n2Mediator \in [Items -> Mediators \cup {NoMediator}]
    /\ eligibility \in [Items -> SUBSET Mediators]
    /\ approvedMediators \subseteq Mediators
    /\ VotersChosenAtN3
    /\ MediatorDoesNotVote

MediationKept == UNCHANGED <<n2Mediator, eligibility, approvedMediators>>

LEMMA MovedLevelPreservesMediation ==
  ASSUME MediationInv, MediationKept, NEW i \in Items,
         NEW to \in {"N1", "N2", "Resolved"}, level' = [level EXCEPT ![i] = to],
         to = "Resolved" \/ level[i] \in {"None", "N1"}
  PROVE  MediationInv'
BY DEF MediationInv, MediationKept, VotersChosenAtN3, MediatorDoesNotVote, DisputeLevel

LEMMA KeptLevelPreservesMediation ==
  ASSUME MediationInv, MediationKept, level' = level
  PROVE  MediationInv'
BY DEF MediationInv, MediationKept, VotersChosenAtN3, MediatorDoesNotVote

LEMMA AssignmentPreservesMediation ==
  ASSUME MediationInv, NEW i \in Items, NEW med \in Mediators, AssignN2Mediator(i, med)
  PROVE  MediationInv'
<1>1. /\ level[i] = "N2" /\ level' = level
      /\ n2Mediator' = [n2Mediator EXCEPT ![i] = med]
      /\ eligibility' = eligibility /\ approvedMediators' = approvedMediators
  BY DEF AssignN2Mediator, Assignable, registryVars, votingVars
<1>2. QED
  BY <1>1 DEF MediationInv, VotersChosenAtN3, MediatorDoesNotVote

LEMMA VotePreservesMediation ==
  ASSUME MediationInv, NEW i \in Items, NEW caller, EscalateToVoting(i, caller)
  PROVE  MediationInv'
<1>1. /\ level' = [level EXCEPT ![i] = "N3"]
      /\ eligibility' = [eligibility EXCEPT ![i] = approvedMediators \ {n2Mediator[i]}]
      /\ n2Mediator' = n2Mediator /\ approvedMediators' = approvedMediators
  BY DEF EscalateToVoting, CreateVote, EligibleVoters, mediationVars, registryVars
<1>2. QED
  BY <1>1 DEF MediationInv, VotersChosenAtN3, MediatorDoesNotVote, DisputeLevel

LEMMA ResolutionPreservesMediation ==
  ASSUME MediationInv, NEW i \in Items, NEW refund, NEW slash,
         ApplyResolution(i, refund, slash), eligibility' = eligibility
  PROVE  MediationInv'
<1>1. MediationKept /\ level' = [level EXCEPT ![i] = "Resolved"]
  BY DEF ApplyResolution, MediationKept, mediationVars, registryVars
<1>2. QED
  BY <1>1, MovedLevelPreservesMediation

LEMMA DisputePreservesMediation ==
  ASSUME MediationInv, DisputeNext
  PROVE  MediationInv'
<1> USE DEF MediationKept, mediationVars, registryVars, votingVars
<1>1. ASSUME NEW i \in Items, OpenDispute(i) PROVE MediationInv'
  BY <1>1, MovedLevelPreservesMediation DEF OpenDispute
<1>2. ASSUME NEW i \in Items, NEW caller, EscalateToMediation(i, caller) PROVE MediationInv'
  BY <1>2, MovedLevelPreservesMediation DEF EscalateToMediation
<1>3. ASSUME NEW i \in Items, NEW refund, NEW byBuyer, ResolveN1Amicable(i, byBuyer, refund)
      PROVE  MediationInv'
  BY <1>3, ResolutionPreservesMediation, KeptLevelPreservesMediation DEF ResolveN1Amicable
<1>4. ASSUME NEW i \in Items, NEW refund, NEW slash, ResolveN2Mediation(i, refund, slash)
      PROVE  MediationInv'
  BY <1>4, ResolutionPreservesMediation DEF ResolveN2Mediation
<1>5. ASSUME NEW i \in Items, NEW voter, NEW favorBuyer, CastBallot(i, voter, favorBuyer)
      PROVE  MediationInv'
  BY <1>5, KeptLevelPreservesMediation DEF CastBallot, SubmitVote, disputeVars
<1>6. ASSUME NEW i \in Items, FinalizeAndResolve(i) PROVE MediationInv'
  BY <1>6, ResolutionPreservesMediation DEF FinalizeAndResolve, FinalizeVote
<1>7. ASSUME NEW i \in Items, AdminForceCloseN3IfNoQuorum(i) PROVE MediationInv'
  BY <1>7, ResolutionPreservesMediation DEF AdminForceCloseN3IfNoQuorum
<1>8. ASSUME NEW med \in Mediators, NEW approved, ApproveMediator(med, approved)
      PROVE  MediationInv'
  BY <1>8 DEF ApproveMediator, MediationInv, VotersChosenAtN3, MediatorDoesNotVote
<1>9. ASSUME NEW contract, NEW isSet, SetContract(contract, isSet) PROVE MediationInv'
  BY <1>9, KeptLevelPreservesMediation DEF SetContract
<1>10. ASSUME NEW i \in Items, DisputeStep(i) PROVE MediationInv'
  BY <1>1, <1>2, <1>3, <1>4, <1>5, <1>6, <1>7, <1>10, AssignmentPreservesMediation,
     VotePreservesMediation DEF DisputeStep
<1>11. QED
  BY <1>8, <1>9, <1>10 DEF DisputeNext

\* The mediator assigned to a dispute has no ballot in the vote over it, whoever is
\* approved, revoked or reassigned in between.
THEOREM ProtocolMediatorDoesNotVote == ProtocolSpec => []MediatorDoesNotVote
<1>1. ProtocolInit => MediationInv
  BY DisputeAssumption DEF ProtocolInit, DisputeInit, VotingInit, MediationInv,
     VotersChosenAtN3, MediatorDoesNotVote, DisputeLevel
<1>2. MediationInv /\ [ProtocolNext]_protocolVars => MediationInv'
  <2> SUFFICES ASSUME MediationInv, [ProtocolNext]_protocolVars PROVE MediationInv'
    OBVIOUS
  <2>1. CASE UNCHANGED <<votingVars, disputeVars>>
    BY <2>1, KeptLevelPreservesMediation
       DEF MediationKept, votingVars, disputeVars, mediationVars, registryVars
  <2>2. QED
    BY <2>1, DisputePreservesMediation DEF ProtocolNext, protocolVars
<1>3. MediationInv => MediatorDoesNotVote
  BY DEF MediationInv
<1>4. QED
  BY <1>1, <1>2, <1>3, PTL DEF ProtocolSpec

(***************************************************************************)
(* The ballots.  A dispute has no vote before its third level, ballots are *)
(* only cast in an open vote and a vote is counted when its dispute is     *)
(* resolved.                                                               *)
(***************************************************************************)
VoteStage(i) ==
    /\ level[i] \in {"None", "N1", "N2"} => deadline[i] = 0 /\ hasVoted[i] = {}
    /\ level[i] = "N3" => deadline[i] > 0
    /\ i \in finalized => level[i] = "Resolved"

BallotsCounted(i) ==
    /\ forBuyer[i] + forSeller[i] = Cardinality(hasVoted[i])
    /\ hasVoted[i] \subseteq eligibility[i]
    /\ i \in finalized =>
          /\ hasVoted[i] # {}
          /\ i \in buyerWon <=> forBuyer[i] >= forSeller[i]

BallotInv ==
    /\ level \in [Items -> DisputeLevel]
    /\ approvedMediators \subseteq Mediators
    /\ VotingTypeOK
    /\ buyerWon \subseteq finalized
    /\ \A i \in Items : VoteStage(i) /\ IsFiniteSet(hasVoted[i]) /\ BallotsCounted(i)

LEMMA KeptVotesKeepBallots ==
  ASSUME BallotInv, UNCHANGED votingVars, approvedMediators' \subseteq Mediators,
         NEW i \in Items, NEW to \in DisputeLevel, level' = [level EXCEPT ![i] = to],
         \/ to = level[i]
         \/ to \in {"N1", "N2"} /\ level[i] \in {"None", "N1"}
         \/ to = "Resolved"
  PROVE  BallotInv'
<1> USE DEF votingVars, tallyVars
<1>1. level' \in [Items -> DisputeLevel] /\ VotingTypeOK' /\ buyerWon' \subseteq finalized'
  BY DEF BallotInv, VotingTypeOK
<1>2. ASSUME NEW k \in Items PROVE VoteStage(k)'
  BY DEF BallotInv, VoteStage, DisputeLevel
<1>3. ASSUME NEW k \in Items PROVE IsFiniteSet(hasVoted[k])' /\ BallotsCounted(k)'
  BY DEF BallotInv, BallotsCounted
<1>4. QED
  BY <1>1, <1>2, <1>3 DEF BallotInv

LEMMA ResolutionKeepsBallots ==
  ASSUME BallotInv, UNCHANGED votingVars, NEW i \in Items, NEW refund, NEW slash,
         ApplyResolution(i, refund, slash)
  PROVE  BallotInv'
<1>1. level' = [level EXCEPT ![i] = "Resolved"] /\ approvedMediators' = approvedMediators
  BY DEF ApplyResolution, registryVars
<1>2. approvedMediators' \subseteq Mediators
  BY <1>1 DEF BallotInv
<1>3. QED
  BY <1>1, <1>2, KeptVotesKeepBallots DEF DisputeLevel

LEMMA NewVoteKeepsBallots ==
  ASSUME BallotInv, now \in Nat, NEW i \in Items, NEW caller, EscalateToVoting(i, caller)
  PROVE  BallotInv'
<1>1. /\ level[i] = "N2" /\ level' = [level EXCEPT ![i] = "N3"]
      /\ deadline' = [deadline EXCEPT ![i] = now + N3_VOTING_PERIOD]
      /\ eligibility' = [eligibility EXCEPT ![i] = approvedMediators \ {n2Mediator[i]}]
      /\ UNCHANGED <<forBuyer, forSeller, hasVoted, finalized, buyerWon, approvedMediators>>
  BY DEF EscalateToVoting, CreateVote, EligibleVoters, registryVars, tallyVars
<1>2. now + N3_VOTING_PERIOD \in Nat /\ now + N3_VOTING_PERIOD > 0
  BY DisputeAssumption
<1>3. level' \in [Items -> DisputeLevel] /\ VotingTypeOK' /\ buyerWon' \subseteq finalized'
  BY <1>1, <1>2 DEF BallotInv, VotingTypeOK, DisputeLevel
<1>4. deadline[i] = 0 /\ hasVoted[i] = {} /\ i \notin finalized
  BY <1>1 DEF BallotInv, VoteStage
<1>5. ASSUME NEW k \in Items PROVE VoteStage(k)' /\ IsFiniteSet(hasVoted[k])' /\ BallotsCounted(k)'
  <2>1. CASE k = i
    <3>1. level'[i] = "N3" /\ deadline'[i] > 0
      BY <1>1, <1>2 DEF BallotInv, VotingTypeOK
    <3>2. VoteStage(i)'
      BY <1>1, <1>4, <3>1 DEF VoteStage
    <3>3. BallotsCounted(i)'
      BY <1>1, <1>4 DEF BallotInv, BallotsCounted
    <3>4. QED
      BY <1>1, <2>1, <3>2, <3>3 DEF BallotInv
  <2>2. CASE k # i
    BY <1>1, <2>2 DEF BallotInv, VotingTypeOK, VoteStage, BallotsCounted
  <2>3. QED
    BY <2>1, <2>2
<1>6. QED
  BY <1>1, <1>3, <1>5 DEF BallotInv

LEMMA BallotKeepsBallots ==
  ASSUME BallotInv, NEW i \in Items, NEW voter \in Mediators, NEW favorBuyer \in BOOLEAN,
         CastBallot(i, voter, favorBuyer)
  PROVE  BallotInv'
<1>1. /\ deadline[i] > 0 /\ i \notin finalized
      /\ voter \in eligibility[i] /\ voter \notin hasVoted[i]
      /\ hasVoted' = [hasVoted EXCEPT ![i] = @ \cup {voter}]
      /\ UNCHANGED <<deadline, finalized, buyerWon, eligibility, level, approvedMediators>>
  BY DEF CastBallot, SubmitVote, VotingOpen, MayVote, disputeVars, registryVars
<1>2. \/ forBuyer' = [forBuyer EXCEPT ![i] = @ + 1] /\ forSeller' = forSeller
      \/ forSeller' = [forSeller EXCEPT ![i] = @ + 1] /\ forBuyer' = forBuyer
  BY Zenon DEF CastBallot, SubmitVote
<1>3. /\ hasVoted \in [Items -> SUBSET Mediators] /\ forBuyer \in [Items -> Nat]
      /\ forSeller \in [Items -> Nat] /\ IsFiniteSet(hasVoted[i])
  BY DEF BallotInv, VotingTypeOK
<1>4. VotingTypeOK' /\ buyerWon' \subseteq finalized'
  BY <1>1, <1>2 DEF BallotInv, VotingTypeOK
<1>5. /\ hasVoted'[i] = hasVoted[i] \cup {voter}
      /\ IsFiniteSet(hasVoted[i] \cup {voter})
      /\ Cardinality(hasVoted[i] \cup {voter}) = Cardinality(hasVoted[i]) + 1
  BY <1>1, <1>3, FS_AddElement
<1>6. forBuyer'[i] + forSeller'[i] = forBuyer[i] + forSeller[i] + 1
  BY <1>2, <1>3
<1>7. ASSUME NEW k \in Items PROVE VoteStage(k)' /\ IsFiniteSet(hasVoted[k])' /\ BallotsCounted(k)'
  <2>1. CASE k = i
    <3>1. VoteStage(i)'
      BY <1>1 DEF BallotInv, VoteStage
    <3>2. BallotsCounted(i)'
      BY <1>1, <1>5, <1>6 DEF BallotInv, BallotsCounted
    <3>3. QED
      BY <1>5, <2>1, <3>1, <3>2
  <2>2. CASE k # i
    BY <1>1, <1>2, <1>3, <2>2 DEF BallotInv, VoteStage, BallotsCounted
  <2>3. QED
    BY <2>1, <2>2
<1>8. QED
  BY <1>1, <1>4, <1>7 DEF BallotInv

LEMMA CountKeepsBallots ==
  ASSUME BallotInv, NEW i \in Items, FinalizeAndResolve(i)
  PROVE  BallotInv'
<1>1. /\ level' = [level EXCEPT ![i] = "Resolved"] /\ approvedMediators' = approvedMediators
      /\ i \notin finalized /\ forBuyer[i] + forSeller[i] > 0
      /\ buyerWon' = IF forBuyer[i] >= forSeller[i] THEN buyerWon \cup {i} ELSE buyerWon
      /\ finalized' = finalized \cup {i}
      /\ UNCHANGED <<deadline, forBuyer, forSeller, hasVoted, eligibility>>
  BY DEF FinalizeAndResolve, FinalizeVote, ApplyResolution, HasQuorum, BuyerWins,
         registryVars, tallyVars
<1>2. level' \in [Items -> DisputeLevel] /\ VotingTypeOK' /\ buyerWon' \subseteq finalized'
  BY <1>1 DEF BallotInv, VotingTypeOK, DisputeLevel
<1>3. hasVoted[i] # {}
  BY <1>1, FS_EmptySet DEF BallotInv, BallotsCounted
<1>4. i \in buyerWon' <=> forBuyer[i] >= forSeller[i]
  BY <1>1 DEF BallotInv
<1>5. ASSUME NEW k \in Items PROVE VoteStage(k)' /\ IsFiniteSet(hasVoted[k])' /\ BallotsCounted(k)'
  <2>1. CASE k = i
    BY <1>1, <1>3, <1>4, <2>1 DEF BallotInv, VoteStage, BallotsCounted
  <2>2. CASE k # i
    BY <1>1, <2>2 DEF BallotInv, VoteStage, BallotsCounted
  <2>3. QED
    BY <2>1, <2>2
<1>6. QED
  BY <1>1, <1>2, <1>5 DEF BallotInv

LEMMA DisputeKeepsBallots ==
  ASSUME BallotInv, now \in Nat, DisputeNext
  PROVE  BallotInv'
<1> USE DEF registryVars, DisputeLevel
<1>1. ASSUME UNCHANGED votingVars, level' = level, approvedMediators' \subseteq Mediators
      PROVE  BallotInv'
  BY <1>1 DEF BallotInv, VotingTypeOK, VoteStage, BallotsCounted, votingVars, tallyVars
<1>2. approvedMediators \subseteq Mediators
  BY DEF BallotInv
<1>3. ASSUME NEW i \in Items, OpenDispute(i) PROVE BallotInv'
  BY <1>2, <1>3, KeptVotesKeepBallots DEF OpenDispute
<1>4. ASSUME NEW i \in Items, NEW caller, EscalateToMediation(i, caller) PROVE BallotInv'
  BY <1>2, <1>4, KeptVotesKeepBallots DEF EscalateToMediation
<1>5. ASSUME NEW i \in Items, NEW refund, NEW byBuyer, ResolveN1Amicable(i, byBuyer, refund)
      PROVE  BallotInv'
  BY <1>1, <1>2, <1>5, ResolutionKeepsBallots DEF ResolveN1Amicable
<1>6. ASSUME NEW i \in Items, NEW refund, NEW slash, ResolveN2Mediation(i, refund, slash)
      PROVE  BallotInv'
  BY <1>6, ResolutionKeepsBallots DEF ResolveN2Mediation
<1>7. ASSUME NEW i \in Items, AdminForceCloseN3IfNoQuorum(i) PROVE BallotInv'
  BY <1>7, ResolutionKeepsBallots DEF AdminForceCloseN3IfNoQuorum
<1>8. ASSUME NEW i \in Items, NEW med, AssignN2Mediator(i, med) PROVE BallotInv'
  BY <1>1, <1>2, <1>8 DEF AssignN2Mediator
<1>9. ASSUME NEW i \in Items, DisputeStep(i) PROVE BallotInv'
  BY <1>3, <1>4, <1>5, <1>6, <1>7, <1>8, <1>9, NewVoteKeepsBallots, BallotKeepsBallots,
     CountKeepsBallots DEF DisputeStep
<1>10. ASSUME NEW med \in Mediators, NEW approved, ApproveMediator(med, approved) PROVE BallotInv'
  BY <1>1, <1>2, <1>10 DEF ApproveMediator
<1>11. ASSUME NEW contract, NEW isSet, SetContract(contract, isSet) PROVE BallotInv'
  BY <1>1, <1>2, <1>11 DEF SetContract
<1>12. QED
  BY <1>9, <1>10, <1>11 DEF DisputeNext

LEMMA BallotInvariant == ProtocolSpec => []BallotInv
<1>1. ProtocolInit => BallotInv
  <2> SUFFICES ASSUME ProtocolInit PROVE BallotInv
    OBVIOUS
  <2>1. /\ level = [i \in Items |-> "None"] /\ approvedMediators = {}
        /\ finalized = {} /\ buyerWon = {} /\ VotingInit
    BY DEF ProtocolInit, DisputeInit, VotingInit
  <2>2. level \in [Items -> DisputeLevel] /\ VotingTypeOK
    BY <2>1 DEF VotingInit, VotingTypeOK, DisputeLevel
  <2>3. ASSUME NEW i \in Items PROVE VoteStage(i) /\ IsFiniteSet(hasVoted[i]) /\ BallotsCounted(i)
    BY <2>1, FS_EmptySet DEF VotingInit, VoteStage, BallotsCounted
  <2>4. QED
    BY <2>1, <2>2, <2>3 DEF BallotInv
<1>2. IInv /\ BallotInv /\ [ProtocolNext]_protocolVars => BallotInv'
  <2> SUFFICES ASSUME IInv, BallotInv, [ProtocolNext]_protocolVars PROVE BallotInv'
    OBVIOUS
  <2>1. CASE UNCHANGED <<votingVars, disputeVars>>
    BY <2>1
       DEF BallotInv, VotingTypeOK, VoteStage, BallotsCounted, votingVars, tallyVars,
           disputeVars, registryVars
  <2>2. CASE DisputeNext
    BY <2>2, DisputeKeepsBallots DEF IInv, TypeOK
  <2>3. QED
    BY <2>1, <2>2 DEF ProtocolNext, protocolVars
<1>3. QED
  BY <1>1, <1>2, ProtocolEscrowInvariant, PTL DEF ProtocolSpec

\* Every decided vote was decided by all the ballots ever cast in it, each by a different
\* eligible voter: for any number of mediators, disputes, approvals and revocations.
THEOREM ProtocolVoteFollowsBallots == ProtocolSpec => []VoteFollowsBallots
<1>1. BallotInv => VoteFollowsBallots
  BY DEF BallotInv, BallotsCounted, VoteFollowsBallots
<1>2. QED
  BY <1>1, BallotInvariant, PTL

\* A vote is decided by the majority of its panel: the mediators approved when it was called,
\* the one assigned to the dispute excepted, each with one ballot at most.
THEOREM ProtocolPanelDecides == ProtocolSpec => []PanelDecides
<1>1. VoteFollowsBallots /\ MediatorDoesNotVote => PanelDecides
  BY DEF PanelDecides
<1>2. QED
  BY <1>1, ProtocolVoteFollowsBallots, ProtocolMediatorDoesNotVote, PTL
-------------------------------------------------------------------------------
(***************************************************************************)
(* The rulings.  A dispute is resolved by a step that is entitled to, and  *)
(* neither its ruling nor what was paid by it is touched again.            *)
(***************************************************************************)
EntitledToDecide(i) ==
    AgreedByParties(i) \/ RuledByMediator(i) \/ DecidedByVote(i) \/ ClosedByOwner(i)

RulingPaid(i) == Terminal(i) /\ refundedAmount[i] = refundRuled[i]

RulingTypeOK ==
    /\ refundRuled \in [Items -> Nat]
    /\ slashRuled \in [Items -> Nat]
    /\ n2Mediator \in [Items -> Mediators \cup {NoMediator}]
    /\ buyerProposal \in [Items -> Nat \cup {NoProposal}]
    /\ sellerProposal \in [Items -> Nat \cup {NoProposal}]

VerdictInv ==
    /\ IInv
    /\ BallotInv
    /\ RulingTypeOK
    /\ \A i \in Items : level[i] = "Resolved" => RulingPaid(i)

RulingKept(i) == UNCHANGED <<level[i], refundRuled[i], slashRuled[i]>>

RulingsKept == UNCHANGED <<level, rulingVars, proposalVars, n2Mediator>>

LEMMA KeptRulingsAreKept ==
  ASSUME RulingsKept, NEW i \in Items
  PROVE  RulingKept(i)
BY DEF RulingsKept, RulingKept, rulingVars

\* What was paid by a ruling that is kept stays paid, and nothing is added to it.
LEMMA KeptRulingStays ==
  ASSUME VerdictInv, [Next]_vars, NEW i \in Items, RulingKept(i), level[i] = "Resolved"
  PROVE  ItemUntouched(i) /\ RulingPaid(i)'
<1>1. ItemUntouched(i)
  <2>1. CASE Next
    BY <2>1, NextItemSettled DEF VerdictInv, RulingPaid
  <2>2. CASE UNCHANGED vars
    BY <2>2 DEF vars, escrowVars, itemVars, paidVars, ItemUntouched
  <2>3. QED
    BY <2>1, <2>2
<1>2. RulingPaid(i)'
  BY <1>1 DEF VerdictInv, RulingKept, RulingPaid, ItemUntouched
<1>3. QED
  BY <1>1, <1>2

\* What a resolution does to its item and to its dispute.
LEMMA ResolutionPays ==
  ASSUME VerdictInv, NEW i \in Items, NEW refund, NEW slash, slash \in Nat,
         ApplyResolution(i, refund, slash)
  PROVE  /\ refund \in Nat /\ RemainingInEscrow(i) = PriceOf[i]
         /\ level'[i] = "Resolved" /\ RulingPaid(i)'
         /\ refundRuled' = [refundRuled EXCEPT ![i] = refund]
         /\ slashRuled' = [slashRuled EXCEPT ![i] = slash]
         /\ refundRuled'[i] = refund /\ slashRuled'[i] = slash
         /\ \A k \in Items \ {i} : level'[k] = level[k]
<1>1. /\ level' = [level EXCEPT ![i] = "Resolved"]
      /\ refundRuled' = [refundRuled EXCEPT ![i] = refund]
      /\ slashRuled' = [slashRuled EXCEPT ![i] = slash]
      /\ ResolveItemDispute(i, refund)
  BY DEF ApplyResolution
<1>2. refund \in 0..PriceOf[i] /\ PriceOf[i] \in Nat
  BY ApplyResolutionResolves, AmountsAssumption DEF VerdictInv
<1>3. /\ itemStatus[i] = "Disputed" /\ itemStatus'[i] \in TerminalItemStatus
      /\ refundedAmount' = [refundedAmount EXCEPT ![i] = @ + refund]
  BY <1>1, ResolveEffect DEF VerdictInv, IInv, ResolveItemDispute
<1>4. releasedAmount[i] = 0 /\ refundedAmount[i] = 0
  BY <1>3 DEF VerdictInv, IInv, PaidExactlyOnce
<1>5. refundedAmount'[i] = refund /\ RemainingInEscrow(i) = PriceOf[i]
  BY <1>2, <1>3, <1>4 DEF VerdictInv, IInv, TypeOK, RemainingInEscrow
<1>6. refundRuled'[i] = refund /\ slashRuled'[i] = slash
  BY <1>1 DEF VerdictInv, RulingTypeOK
<1>7. level'[i] = "Resolved" /\ \A k \in Items \ {i} : level'[k] = level[k]
  BY <1>1 DEF VerdictInv, BallotInv
<1>8. QED
  BY <1>1, <1>2, <1>3, <1>5, <1>6, <1>7 DEF RulingPaid

\* A step either keeps the ruling of an item or is entitled to resolve its dispute.
RulingStep(i) ==
    \/ RulingKept(i)
    \/ level[i] # "Resolved" /\ level'[i] # "Resolved"
    \/ level[i] # "Resolved" /\ RulingPaid(i)' /\ EntitledToDecide(i)

LEMMA N1RulingStep ==
  ASSUME VerdictInv, NEW i \in Items, NEW byBuyer \in BOOLEAN, NEW refund \in 0..PriceOf[i],
         ResolveN1Amicable(i, byBuyer, refund), NEW k \in Items
  PROVE  RulingStep(k) /\ RulingTypeOK'
<1>1. refund \in Nat
  BY AmountsAssumption
<1>2. /\ level[i] = "N1" /\ UNCHANGED <<votingVars, n2Mediator>>
      /\ \/ /\ buyerProposal' = [buyerProposal EXCEPT ![i] = refund]
            /\ sellerProposal' = sellerProposal
         \/ /\ sellerProposal' = [sellerProposal EXCEPT ![i] = refund]
            /\ buyerProposal' = buyerProposal
  BY DEF ResolveN1Amicable, ApplyResolution, mediationVars
<1>3. /\ buyerProposal' \in [Items -> Nat \cup {NoProposal}]
      /\ sellerProposal' \in [Items -> Nat \cup {NoProposal}]
      /\ n2Mediator' \in [Items -> Mediators \cup {NoMediator}]
      /\ buyerProposal'[i] = refund \/ sellerProposal'[i] = refund
  BY <1>1, <1>2 DEF VerdictInv, RulingTypeOK
<1>4. CASE ProposalsMatch(buyerProposal'[i], sellerProposal'[i])
  <2>1. ApplyResolution(i, refund, 0)
    BY <1>4 DEF ResolveN1Amicable
  <2>2. /\ RulingPaid(i)' /\ refundRuled'[i] = refund /\ slashRuled'[i] = 0
        /\ refundRuled' = [refundRuled EXCEPT ![i] = refund]
        /\ slashRuled' = [slashRuled EXCEPT ![i] = 0]
        /\ \A j \in Items \ {i} : level'[j] = level[j]
    BY <2>1, ResolutionPays
  <2>3. RulingTypeOK'
    BY <1>1, <1>3, <2>2 DEF VerdictInv, RulingTypeOK
  <2>4. CASE k = i
    <3>1. buyerProposal'[i] = refund /\ sellerProposal'[i] = refund
      BY <1>3, <1>4 DEF ProposalsMatch
    <3>2. EntitledToDecide(i)
      BY <1>2, <2>2, <3>1 DEF EntitledToDecide, AgreedByParties
    <3>3. QED
      BY <1>2, <2>2, <2>3, <2>4, <3>2 DEF RulingStep
  <2>5. CASE k # i
    BY <2>2, <2>3, <2>5 DEF VerdictInv, RulingTypeOK, RulingStep, RulingKept
  <2>6. QED
    BY <2>4, <2>5
<1>5. CASE ~ProposalsMatch(buyerProposal'[i], sellerProposal'[i])
  <2>1. UNCHANGED <<level, refundRuled, slashRuled>>
    BY <1>5 DEF ResolveN1Amicable, rulingVars
  <2>2. RulingTypeOK'
    BY <1>3, <2>1 DEF VerdictInv, RulingTypeOK
  <2>3. QED
    BY <2>1, <2>2 DEF RulingStep, RulingKept
<1>6. QED
  BY <1>4, <1>5

LEMMA N2RulingStep ==
  ASSUME VerdictInv, NEW i \in Items, NEW refund, NEW slash \in Nat,
         ResolveN2Mediation(i, refund, slash), NEW k \in Items
  PROVE  RulingStep(k) /\ RulingTypeOK'
<1>1. /\ level[i] = "N2" /\ n2Mediator[i] # NoMediator
      /\ UNCHANGED <<votingVars, proposalVars, n2Mediator>>
      /\ ApplyResolution(i, refund, slash)
  BY DEF ResolveN2Mediation, ApplyResolution, mediationVars
<1>2. /\ refund \in Nat /\ RulingPaid(i)'
      /\ refundRuled' = [refundRuled EXCEPT ![i] = refund]
      /\ slashRuled' = [slashRuled EXCEPT ![i] = slash]
      /\ \A j \in Items \ {i} : level'[j] = level[j]
  BY <1>1, ResolutionPays
<1>3. RulingTypeOK'
  BY <1>1, <1>2 DEF VerdictInv, RulingTypeOK, proposalVars
<1>4. CASE k = i
  BY <1>1, <1>2, <1>3, <1>4 DEF RulingStep, EntitledToDecide, RuledByMediator
<1>5. CASE k # i
  BY <1>2, <1>3, <1>5 DEF VerdictInv, RulingTypeOK, RulingStep, RulingKept
<1>6. QED
  BY <1>4, <1>5

LEMMA ForceCloseRulingStep ==
  ASSUME VerdictInv, NEW i \in Items, AdminForceCloseN3IfNoQuorum(i), NEW k \in Items
  PROVE  RulingStep(k) /\ RulingTypeOK'
<1>1. /\ level[i] = "N3" /\ UNCHANGED <<votingVars, proposalVars, n2Mediator>>
      /\ ApplyResolution(i, RemainingInEscrow(i), 0)
  BY DEF AdminForceCloseN3IfNoQuorum, ApplyResolution, mediationVars
<1>2. /\ RemainingInEscrow(i) \in Nat /\ RemainingInEscrow(i) = PriceOf[i] /\ RulingPaid(i)'
      /\ refundRuled' = [refundRuled EXCEPT ![i] = RemainingInEscrow(i)]
      /\ slashRuled' = [slashRuled EXCEPT ![i] = 0]
      /\ refundRuled'[i] = RemainingInEscrow(i) /\ slashRuled'[i] = 0
      /\ \A j \in Items \ {i} : level'[j] = level[j]
  BY <1>1, ResolutionPays
<1>3. RulingTypeOK'
  BY <1>1, <1>2 DEF VerdictInv, RulingTypeOK, proposalVars
<1>4. hasVoted[i] = {}
  <2>1. forBuyer[i] = 0 /\ forSeller[i] = 0
    BY DEF AdminForceCloseN3IfNoQuorum, NoBallots
  <2>2. IsFiniteSet(hasVoted[i]) /\ Cardinality(hasVoted[i]) = 0
    BY <2>1 DEF VerdictInv, BallotInv, BallotsCounted
  <2>3. QED
    BY <2>2, FS_EmptySet
<1>5. CASE k = i
  BY <1>1, <1>2, <1>3, <1>4, <1>5 DEF RulingStep, EntitledToDecide, ClosedByOwner
<1>6. CASE k # i
  BY <1>2, <1>3, <1>6 DEF VerdictInv, RulingTypeOK, RulingStep, RulingKept
<1>7. QED
  BY <1>5, <1>6

LEMMA VoteRulingStep ==
  ASSUME VerdictInv, NEW i \in Items, FinalizeAndResolve(i), NEW k \in Items
  PROVE  RulingStep(k) /\ RulingTypeOK'
<1> DEFINE refund == IF i \in buyerWon' THEN RemainingInEscrow(i) ELSE 0
<1>1. /\ level[i] = "N3" /\ i \notin finalized /\ finalized' = finalized \cup {i}
      /\ now >= deadline[i] /\ forBuyer[i] + forSeller[i] > 0
      /\ buyerWon' = IF forBuyer[i] >= forSeller[i] THEN buyerWon \cup {i} ELSE buyerWon
      /\ UNCHANGED <<deadline, forBuyer, forSeller, proposalVars, n2Mediator>>
      /\ ApplyResolution(i, refund, 0)
  BY DEF FinalizeAndResolve, FinalizeVote, HasQuorum, BuyerWins, tallyVars, ApplyResolution,
         mediationVars
<1> HIDE DEF refund
<1>2. /\ refund \in Nat /\ RemainingInEscrow(i) = PriceOf[i] /\ RulingPaid(i)'
      /\ refundRuled' = [refundRuled EXCEPT ![i] = refund]
      /\ slashRuled' = [slashRuled EXCEPT ![i] = 0]
      /\ refundRuled'[i] = refund /\ slashRuled'[i] = 0
      /\ \A j \in Items \ {i} : level'[j] = level[j]
  BY <1>1, ResolutionPays
<1>3. RulingTypeOK'
  BY <1>1, <1>2 DEF VerdictInv, RulingTypeOK, proposalVars
<1>4. i \notin buyerWon
  BY <1>1 DEF VerdictInv, BallotInv, VoteStage
<1>5. refund = IF forBuyer[i] >= forSeller[i] THEN PriceOf[i] ELSE 0
  BY <1>1, <1>2, <1>4 DEF refund
<1>6. hasVoted[i] # {}
  BY <1>1, FS_EmptySet DEF VerdictInv, BallotInv, BallotsCounted
<1>7. CASE k = i
  BY <1>1, <1>2, <1>3, <1>5, <1>6, <1>7 DEF RulingStep, EntitledToDecide, DecidedByVote
<1>8. CASE k # i
  BY <1>2, <1>3, <1>8 DEF VerdictInv, RulingTypeOK, RulingStep, RulingKept
<1>9. QED
  BY <1>7, <1>8

LEMMA DisputeRulingStep ==
  ASSUME VerdictInv, DisputeNext, NEW k \in Items
  PROVE  RulingStep(k) /\ RulingTypeOK'
<1> DEFINE Step == RulingStep(k) /\ RulingTypeOK'
<1> SUFFICES Step
  OBVIOUS
<1>1. ASSUME RulingsKept PROVE Step
  BY <1>1, KeptRulingsAreKept
     DEF RulingsKept, VerdictInv, RulingTypeOK, RulingStep, rulingVars, proposalVars
<1>2. ASSUME NEW i \in Items, NEW to \in {"N1", "N2", "N3"}, level[i] # "Resolved",
             level' = [level EXCEPT ![i] = to],
             UNCHANGED <<rulingVars, proposalVars, n2Mediator>>
      PROVE  Step
  <2>1. RulingTypeOK'
    BY <1>2 DEF VerdictInv, RulingTypeOK, rulingVars, proposalVars
  <2>2. CASE k = i
    BY <1>2, <2>1, <2>2 DEF VerdictInv, BallotInv, RulingStep
  <2>3. CASE k # i
    BY <1>2, <2>1, <2>3
       DEF VerdictInv, BallotInv, RulingStep, RulingKept, rulingVars
  <2>4. QED
    BY <2>2, <2>3
<1>3. ASSUME NEW i \in Items, OpenDispute(i) PROVE Step
  BY <1>2, <1>3 DEF OpenDispute, mediationVars
<1>4. ASSUME NEW i \in Items, NEW caller, EscalateToMediation(i, caller) PROVE Step
  BY <1>2, <1>4 DEF EscalateToMediation, mediationVars
<1>5. ASSUME NEW i \in Items, NEW caller, EscalateToVoting(i, caller) PROVE Step
  BY <1>2, <1>5 DEF EscalateToVoting, mediationVars
<1>6. ASSUME NEW i \in Items, NEW med \in Mediators, AssignN2Mediator(i, med) PROVE Step
  <2>1. /\ n2Mediator' = [n2Mediator EXCEPT ![i] = med]
        /\ UNCHANGED <<level, rulingVars, proposalVars>>
    BY <1>6 DEF AssignN2Mediator
  <2>2. RulingTypeOK'
    BY <2>1 DEF VerdictInv, RulingTypeOK, rulingVars, proposalVars
  <2>3. QED
    BY <2>1, <2>2 DEF RulingStep, RulingKept, rulingVars
<1>7. ASSUME NEW i \in Items, NEW voter \in Mediators, NEW favorBuyer \in BOOLEAN,
             CastBallot(i, voter, favorBuyer)
      PROVE  Step
  BY <1>1, <1>7 DEF CastBallot, disputeVars, RulingsKept, mediationVars
<1>8. ASSUME NEW i \in Items, DisputeStep(i) PROVE Step
  <2>1. MaxSlash \in Nat
    BY DisputeAssumption
  <2> HIDE DEF Step
  <2>2. ASSUME NEW refund \in 0..PriceOf[i], NEW slash \in 0..MaxSlash,
               ResolveN2Mediation(i, refund, slash)
        PROVE  Step
    BY <2>1, <2>2, N2RulingStep DEF Step
  <2>3. ASSUME NEW refund \in 0..PriceOf[i], NEW byBuyer \in BOOLEAN,
               ResolveN1Amicable(i, byBuyer, refund)
        PROVE  Step
    BY <2>3, N1RulingStep DEF Step
  <2>4. FinalizeAndResolve(i) \/ AdminForceCloseN3IfNoQuorum(i) => Step
    BY VoteRulingStep, ForceCloseRulingStep DEF Step
  <2>5. QED
    BY <1>3, <1>4, <1>5, <1>6, <1>7, <1>8, <2>2, <2>3, <2>4 DEF DisputeStep
<1>9. ASSUME NEW med, NEW approved, ApproveMediator(med, approved) PROVE Step
  BY <1>1, <1>9 DEF ApproveMediator, RulingsKept, mediationVars
<1>10. ASSUME NEW contract, NEW isSet, SetContract(contract, isSet) PROVE Step
  BY <1>1, <1>10 DEF SetContract, RulingsKept, mediationVars
<1>11. QED
  BY <1>8, <1>9, <1>10 DEF DisputeNext

LEMMA ProtocolRulingStep ==
  ASSUME VerdictInv, [ProtocolNext]_protocolVars, NEW k \in Items
  PROVE  RulingStep(k) /\ RulingTypeOK'
<1>1. CASE UNCHANGED disputeVars
  BY <1>1, KeptRulingsAreKept
     DEF RulingsKept, disputeVars, mediationVars, VerdictInv, RulingTypeOK, RulingStep,
         rulingVars, proposalVars
<1>2. CASE DisputeNext
  BY <1>2, DisputeRulingStep
<1>3. QED
  BY <1>1, <1>2 DEF ProtocolNext, protocolVars

LEMMA VerdictInvariant == ProtocolSpec => []VerdictInv
<1>1. ProtocolInit /\ BallotInv => VerdictInv
  <2> SUFFICES ASSUME ProtocolInit, BallotInv PROVE VerdictInv
    OBVIOUS
  <2>1. DisputeInit /\ IInv
    BY InitIInv DEF ProtocolInit
  <2>2. QED
    BY <2>1 DEF DisputeInit, RulingTypeOK, VerdictInv
<1>2. VerdictInv /\ IInv' /\ BallotInv' /\ [ProtocolNext]_protocolVars => VerdictInv'
  <2> SUFFICES ASSUME VerdictInv, IInv', BallotInv', [ProtocolNext]_protocolVars PROVE VerdictInv'
    OBVIOUS
  <2>1. [Next]_vars
    BY ProtocolStepIsEscrowStep DEF VerdictInv
  <2>2. ASSUME NEW k \in Items, level'[k] = "Resolved" PROVE RulingPaid(k)'
    <3>1. CASE RulingKept(k)
      BY <2>1, <2>2, <3>1, KeptRulingStays DEF RulingKept
    <3>2. QED
      BY <2>2, <3>1, ProtocolRulingStep DEF RulingStep
  <2>3. RulingTypeOK'
    <3>1. CASE Items = {}
      <4>1. UNCHANGED <<rulingVars, proposalVars, n2Mediator>>
        BY <3>1 DEF ProtocolNext, protocolVars, DisputeNext, ApproveMediator, SetContract,
                    disputeVars, mediationVars
      <4>2. QED
        BY <4>1 DEF VerdictInv, RulingTypeOK, rulingVars, proposalVars
    <3>2. CASE Items # {}
      <4>1. PICK k \in Items : TRUE
        BY <3>2
      <4>2. QED
        BY <4>1, ProtocolRulingStep
    <3>3. QED
      BY <3>1, <3>2
  <2>4. QED
    BY <2>2, <2>3 DEF VerdictInv
<1>3. QED
  BY <1>1, <1>2, ProtocolEscrowInvariant, BallotInvariant, PTL DEF ProtocolSpec

\* A dispute is resolved, once and for all, by somebody entitled to at that moment: both
\* parties at one amount, the mediator assigned, the ballots counted after their deadline, or
\* the owner when not one ballot was cast.  What was decided is what the escrow pays, then and
\* ever after: for any number of disputes, mediators and ballots.
THEOREM ProtocolVerdictHasAuthority == ProtocolSpec => VerdictHasAuthority
<1> DEFINE Verdict(i) ==
      level'[i] = "Resolved" =>
          IF level[i] = "Resolved"
          THEN UNCHANGED <<refundRuled[i], slashRuled[i], itemStatus[i], refundedAmount[i]>>
          ELSE /\ AgreedByParties(i) \/ RuledByMediator(i) \/ DecidedByVote(i) \/ ClosedByOwner(i)
               /\ itemStatus'[i] \in TerminalItemStatus /\ refundedAmount'[i] = refundRuled'[i]
<1>1. VerdictInv /\ [ProtocolNext]_protocolVars => [\A i \in Items : Verdict(i)]_protocolVars
  <2> SUFFICES ASSUME VerdictInv, [ProtocolNext]_protocolVars, NEW i \in Items,
                      level'[i] = "Resolved"
               PROVE  Verdict(i)
    OBVIOUS
  <2>1. RulingStep(i) /\ [Next]_vars
    BY ProtocolRulingStep, ProtocolStepIsEscrowStep DEF VerdictInv
  <2>2. CASE RulingKept(i)
    <3>1. level[i] = "Resolved"
      BY <2>2 DEF RulingKept
    <3>2. QED
      BY <2>1, <2>2, <3>1, KeptRulingStays DEF RulingKept, ItemUntouched
  <2>3. CASE level[i] # "Resolved" /\ RulingPaid(i)' /\ EntitledToDecide(i)
    BY <2>3 DEF RulingPaid, EntitledToDecide, Terminal
  <2>4. QED
    BY <2>1, <2>2, <2>3 DEF RulingStep
<1>2. QED
  BY <1>1, VerdictInvariant, PTL DEF ProtocolSpec, VerdictHasAuthority

(***************************************************************************)
(* The freezes.  A seller's disputes are finite in number and the counters *)
(* of the dispute and of the stake contract both count them.               *)
(***************************************************************************)
FreezeInv ==
    /\ level \in [Items -> DisputeLevel]
    /\ activeDisputes \in [Sellers -> Nat]
    /\ freezeCount \in [Sellers -> Nat]
    /\ "stake" \notin Rewirable => "stake" \in wired
    /\ \A s \in Sellers : IsFiniteSet(OpenDisputesOf(s))
    /\ OneFreezePerOpenDispute

LEMMA KeptDisputesKeepFreezes ==
  ASSUME FreezeInv, level' = level, activeDisputes' = activeDisputes,
         freezeCount' = freezeCount, "stake" \notin Rewirable => "stake" \in wired'
  PROVE  FreezeInv'
<1>1. \A s \in Sellers : OpenDisputesOf(s)' = OpenDisputesOf(s)
  BY DEF OpenDisputesOf, DisputeOpen
<1>2. QED
  BY <1>1 DEF FreezeInv, OneFreezePerOpenDispute

LEMMA EscalationKeepsFreezes ==
  ASSUME FreezeInv, NEW i \in Items, NEW to \in {"N1", "N2", "N3"}, DisputeOpen(i),
         level' = [level EXCEPT ![i] = to],
         UNCHANGED <<activeDisputes, freezeCount, wired>>
  PROVE  FreezeInv'
<1>1. level' \in [Items -> DisputeLevel] /\ \A k \in Items : DisputeOpen(k)' = DisputeOpen(k)
  BY DEF FreezeInv, DisputeLevel, DisputeOpen
<1>2. \A s \in Sellers : OpenDisputesOf(s)' = OpenDisputesOf(s)
  BY <1>1 DEF OpenDisputesOf
<1>3. QED
  BY <1>1, <1>2 DEF FreezeInv, OneFreezePerOpenDispute

LEMMA OpenDisputeKeepsFreezes ==
  ASSUME FreezeInv, NEW i \in Items, OpenDispute(i)
  PROVE  FreezeInv'
<1> DEFINE t == Seller(i)
<1>1. /\ level[i] = "None" /\ level' = [level EXCEPT ![i] = "N1"]
      /\ activeDisputes' = [activeDisputes EXCEPT ![t] = @ + 1]
      /\ wired' = wired /\ FreezeSeller(i)
  BY DEF OpenDispute, registryVars
<1>2. t \in Sellers
  BY PartiesAssumption DEF Seller
<1>3. "stake" \in wired => freezeCount' = [freezeCount EXCEPT ![t] = @ + 1]
  BY <1>1 DEF FreezeSeller, PauseWithdrawal
<1>4. freezeCount' \in [Sellers -> Nat]
  BY <1>1, <1>2 DEF FreezeSeller, PauseWithdrawal, FreezeInv, stakeVars
<1>5. /\ level' \in [Items -> DisputeLevel] /\ activeDisputes' \in [Sellers -> Nat]
      /\ ~DisputeOpen(i) /\ DisputeOpen(i)'
      /\ \A k \in Items \ {i} : DisputeOpen(k)' = DisputeOpen(k)
  BY <1>1, <1>2 DEF FreezeInv, DisputeLevel, DisputeOpen
<1>6. /\ i \notin OpenDisputesOf(t)
      /\ OpenDisputesOf(t)' = OpenDisputesOf(t) \cup {i}
      /\ \A s \in Sellers \ {t} : OpenDisputesOf(s)' = OpenDisputesOf(s)
  BY <1>5 DEF OpenDisputesOf
<1>7. /\ IsFiniteSet(OpenDisputesOf(t)')
      /\ Cardinality(OpenDisputesOf(t)') = Cardinality(OpenDisputesOf(t)) + 1
  BY <1>2, <1>6, FS_AddElement DEF FreezeInv
<1>8. activeDisputes'[t] = activeDisputes[t] + 1
      /\ \A s \in Sellers \ {t} : activeDisputes'[s] = activeDisputes[s]
  BY <1>1, <1>2 DEF FreezeInv
<1>9. "stake" \in wired => /\ freezeCount'[t] = freezeCount[t] + 1
                           /\ \A s \in Sellers \ {t} : freezeCount'[s] = freezeCount[s]
  BY <1>2, <1>3 DEF FreezeInv
<1> HIDE DEF t
<1>10. ASSUME NEW s \in Sellers
       PROVE  /\ IsFiniteSet(OpenDisputesOf(s)')
              /\ activeDisputes'[s] = Cardinality(OpenDisputesOf(s)')
              /\ "stake" \notin Rewirable => freezeCount'[s] = Cardinality(OpenDisputesOf(s)')
  <2>1. CASE s = t
    BY <1>2, <1>7, <1>8, <1>9, <2>1 DEF FreezeInv, OneFreezePerOpenDispute
  <2>2. CASE s # t
    BY <1>6, <1>8, <1>9, <2>2 DEF FreezeInv, OneFreezePerOpenDispute
  <2>3. QED
    BY <2>1, <2>2
<1>11. QED
  BY <1>1, <1>4, <1>5, <1>10 DEF FreezeInv, OneFreezePerOpenDispute

LEMMA ResolutionKeepsFreezes ==
  ASSUME FreezeInv, NEW i \in Items, NEW refund, NEW slash,
         DisputeOpen(i), ApplyResolution(i, refund, slash)
  PROVE  FreezeInv'
<1> DEFINE t == Seller(i)
<1>1. /\ level' = [level EXCEPT ![i] = "Resolved"]
      /\ activeDisputes[t] > 0 /\ activeDisputes' = [activeDisputes EXCEPT ![t] = @ - 1]
      /\ wired' = wired /\ UnfreezeSeller(i, slash)
  BY DEF ApplyResolution, registryVars
<1>2. t \in Sellers
  BY PartiesAssumption DEF Seller
<1>3. "stake" \in wired => /\ freezeCount' = [freezeCount EXCEPT ![t] = @ - 1]
                           /\ freezeCount[t] > 0
  BY <1>1 DEF UnfreezeSeller, ResumeAndSlash
<1>4. freezeCount' \in [Sellers -> Nat]
  BY <1>1, <1>2, <1>3 DEF UnfreezeSeller, FreezeInv, stakeVars
<1>5. /\ level' \in [Items -> DisputeLevel] /\ activeDisputes' \in [Sellers -> Nat]
      /\ ~DisputeOpen(i)'
      /\ \A k \in Items \ {i} : DisputeOpen(k)' = DisputeOpen(k)
  BY <1>1, <1>2 DEF FreezeInv, DisputeLevel, DisputeOpen
<1>6. /\ i \in OpenDisputesOf(t)
      /\ OpenDisputesOf(t)' = OpenDisputesOf(t) \ {i}
      /\ \A s \in Sellers \ {t} : OpenDisputesOf(s)' = OpenDisputesOf(s)
  BY <1>5 DEF OpenDisputesOf
<1>7. /\ IsFiniteSet(OpenDisputesOf(t)')
      /\ Cardinality(OpenDisputesOf(t)') = Cardinality(OpenDisputesOf(t)) - 1
  BY <1>2, <1>6, FS_RemoveElement DEF FreezeInv
<1>8. activeDisputes'[t] = activeDisputes[t] - 1
      /\ \A s \in Sellers \ {t} : activeDisputes'[s] = activeDisputes[s]
  BY <1>1, <1>2 DEF FreezeInv
<1>9. "stake" \in wired => /\ freezeCount'[t] = freezeCount[t] - 1
                           /\ \A s \in Sellers \ {t} : freezeCount'[s] = freezeCount[s]
  BY <1>2, <1>3 DEF FreezeInv
<1> HIDE DEF t
<1>10. ASSUME NEW s \in Sellers
       PROVE  /\ IsFiniteSet(OpenDisputesOf(s)')
              /\ activeDisputes'[s] = Cardinality(OpenDisputesOf(s)')
              /\ "stake" \notin Rewirable => freezeCount'[s] = Cardinality(OpenDisputesOf(s)')
  <2>1. CASE s = t
    BY <1>2, <1>7, <1>8, <1>9, <2>1 DEF FreezeInv, OneFreezePerOpenDispute
  <2>2. CASE s # t
    BY <1>6, <1>8, <1>9, <2>2 DEF FreezeInv, OneFreezePerOpenDispute
  <2>3. QED
    BY <2>1, <2>2
<1>11. QED
  BY <1>1, <1>4, <1>5, <1>10 DEF FreezeInv, OneFreezePerOpenDispute

LEMMA DisputeKeepsFreezes ==
  ASSUME FreezeInv, DisputeNext
  PROVE  FreezeInv'
<1> USE DEF registryVars, stakeVars
<1>1. ASSUME UNCHANGED <<level, activeDisputes, freezeCount, wired>> PROVE FreezeInv'
  BY <1>1, KeptDisputesKeepFreezes DEF FreezeInv
<1>2. ASSUME NEW i \in Items, NEW caller,
             EscalateToMediation(i, caller) \/ EscalateToVoting(i, caller)
      PROVE  FreezeInv'
  BY <1>2, EscalationKeepsFreezes DEF EscalateToMediation, EscalateToVoting, DisputeOpen
<1>3. ASSUME NEW i \in Items, NEW refund, NEW byBuyer, ResolveN1Amicable(i, byBuyer, refund)
      PROVE  FreezeInv'
  BY <1>1, <1>3, ResolutionKeepsFreezes DEF ResolveN1Amicable, DisputeOpen
<1>4. ASSUME NEW i \in Items, NEW refund, NEW slash, ResolveN2Mediation(i, refund, slash)
      PROVE  FreezeInv'
  BY <1>4, ResolutionKeepsFreezes DEF ResolveN2Mediation, DisputeOpen
<1>5. ASSUME NEW i \in Items, FinalizeAndResolve(i) \/ AdminForceCloseN3IfNoQuorum(i)
      PROVE  FreezeInv'
  BY <1>5, ResolutionKeepsFreezes
     DEF FinalizeAndResolve, AdminForceCloseN3IfNoQuorum, DisputeOpen
<1>6. ASSUME NEW i \in Items, NEW med, AssignN2Mediator(i, med) PROVE FreezeInv'
  BY <1>1, <1>6 DEF AssignN2Mediator
<1>7. ASSUME NEW i \in Items, NEW voter, NEW favorBuyer, CastBallot(i, voter, favorBuyer)
      PROVE  FreezeInv'
  BY <1>1, <1>7 DEF CastBallot, disputeVars
<1>8. ASSUME NEW i \in Items, DisputeStep(i) PROVE FreezeInv'
  BY <1>2, <1>3, <1>4, <1>5, <1>6, <1>7, <1>8, OpenDisputeKeepsFreezes DEF DisputeStep
<1>9. ASSUME NEW med, NEW approved, ApproveMediator(med, approved) PROVE FreezeInv'
  BY <1>1, <1>9 DEF ApproveMediator
<1>10. ASSUME NEW contract, NEW isSet, SetContract(contract, isSet) PROVE FreezeInv'
  <2>1. contract \in Rewirable /\ wired \ {contract} \subseteq wired'
    BY <1>10 DEF SetContract
  <2>2. "stake" \notin Rewirable => "stake" \in wired'
    BY <2>1 DEF FreezeInv
  <2>3. QED
    BY <1>10, <2>2, KeptDisputesKeepFreezes DEF SetContract
<1>11. QED
  BY <1>8, <1>9, <1>10 DEF DisputeNext

LEMMA SellerKeepsFreezeCount ==
  ASSUME NEW s \in Sellers, SellerStep(s)
  PROVE  freezeCount' = freezeCount
BY DEF SellerStep, DepositStake, UpgradeTier, TopUpStake, InitiateWithdrawal,
       ExecuteWithdrawal, CancelWithdrawal

LEMMA FreezeInvariant == ProtocolSpec => []FreezeInv
<1>1. ProtocolInit => FreezeInv
  <2> SUFFICES ASSUME ProtocolInit PROVE FreezeInv
    OBVIOUS
  <2>1. /\ level = [i \in Items |-> "None"] /\ activeDisputes = [s \in Sellers |-> 0]
        /\ freezeCount = [s \in Sellers |-> 0] /\ wired = Contracts
    BY DEF ProtocolInit, DisputeInit, StakeInit
  <2>2. ASSUME NEW s \in Sellers
        PROVE  IsFiniteSet(OpenDisputesOf(s)) /\ Cardinality(OpenDisputesOf(s)) = 0
    <3>1. OpenDisputesOf(s) = {}
      BY <2>1 DEF OpenDisputesOf, DisputeOpen
    <3>2. QED
      BY <3>1, FS_EmptySet
  <2>3. QED
    BY <2>1, <2>2 DEF FreezeInv, OneFreezePerOpenDispute, DisputeLevel, Contracts
<1>2. FreezeInv /\ [ProtocolNext]_protocolVars => FreezeInv'
  <2> SUFFICES ASSUME FreezeInv, [ProtocolNext]_protocolVars PROVE FreezeInv'
    OBVIOUS
  <2>1. CASE UNCHANGED <<freezeCount, disputeVars>>
    BY <2>1, KeptDisputesKeepFreezes DEF FreezeInv, disputeVars, registryVars
  <2>2. CASE DisputeNext
    BY <2>2, DisputeKeepsFreezes
  <2>3. QED
    BY <2>1, <2>2, SellerKeepsFreezeCount DEF ProtocolNext, protocolVars, stakeVars
<1>3. QED
  BY <1>1, <1>2, PTL DEF ProtocolSpec

\* Both contracts count the open disputes of a seller: however many there are, in
\* whatever order they end, the last resolution and no other thaws the withdrawal.
THEOREM ProtocolOneFreezePerOpenDispute == ProtocolSpec => []OneFreezePerOpenDispute
<1>1. FreezeInv => OneFreezePerOpenDispute
  BY DEF FreezeInv
<1>2. QED
  BY <1>1, FreezeInvariant, PTL

(***************************************************************************)
(* Every transaction of the protocol is a transaction of the stake         *)
(* contract, or leaves it alone.                                           *)
(***************************************************************************)
LEMMA EntryPointTakesNoTime ==
  ASSUME EntryPoint
  PROVE  now' = now
<1>1. ASSUME NEW o \in Orders, OrderEntryPoint(o) PROVE now' = now
  BY <1>1 DEF OrderEntryPoint, CreateOrderWithItems, FundOrder, CancelOrder, ShipItemsGrouped,
     TriggerAutoRefundIfInactive, ForceRefund, RefundItems, RegisterLegalHold, ClearLegalHold
<1>2. ASSUME NEW g \in GroupIds, RequestEarlyRelease(g) \/ ConfirmGroupDelivery(g)
      PROVE  now' = now
  BY <1>2 DEF RequestEarlyRelease, ConfirmGroupDelivery, ReleaseItemsFully
<1>3. ASSUME NEW i \in Items, ConfirmItemDelivery(i) \/ TriggerAutoReleaseForItem(i)
      PROVE  now' = now
  BY <1>3 DEF ConfirmItemDelivery, TriggerAutoReleaseForItem, ReleaseItemsFully
<1>4. CASE OwnerEntryPoint
  BY <1>4 DEF OwnerEntryPoint, EmergencyPause, SetDisputeContract, SetCommissionTreasury
<1>5. QED
  BY <1>1, <1>2, <1>3, <1>4 DEF EntryPoint

StakeMoves == (\E s \in Sellers : StakeStep(s)) \/ UNCHANGED stakeVars

LEMMA ResolutionMovesStake ==
  ASSUME StakeInv, NEW i \in Items, NEW refund, NEW slash \in Nat, ApplyResolution(i, refund, slash)
  PROVE  now' = now /\ StakeMoves
<1>1. now' = now /\ UnfreezeSeller(i, slash) /\ Seller(i) \in Sellers
  BY PartiesAssumption DEF ApplyResolution, ResolveItemDispute, Seller
<1>2. CASE "stake" \in wired
  <2>1. ResumeAndSlash(Seller(i), slash)
    BY <1>1, <1>2 DEF UnfreezeSeller
  <2>2. stakes[Seller(i)] \in Nat
    BY <1>1 DEF StakeInv, StakeTypeOK
  <2>3. slash \in 0..stakes[Seller(i)]
    BY <2>1, <2>2 DEF ResumeAndSlash, Slashed
  <2>4. StakeStep(Seller(i))
    BY <2>1, <2>3 DEF StakeStep
  <2>5. QED
    BY <1>1, <2>4 DEF StakeMoves
<1>3. CASE "stake" \notin wired
  BY <1>1, <1>3 DEF UnfreezeSeller, StakeMoves
<1>4. QED
  BY <1>2, <1>3

LEMMA DisputeMovesStake ==
  ASSUME StakeInv, DisputeNext
  PROVE  now' = now /\ StakeMoves
<1> DEFINE Moves == now' = now /\ StakeMoves
<1> SUFFICES Moves
  OBVIOUS
<1>1. ASSUME UNCHANGED <<vars, stakeVars>> PROVE Moves
  BY <1>1 DEF vars, StakeMoves
<1>2. ASSUME NEW i \in Items, OpenDispute(i) PROVE Moves
  <2>1. now' = now /\ FreezeSeller(i) /\ Seller(i) \in Sellers
    BY <1>2, PartiesAssumption DEF OpenDispute, MarkItemDisputed, Seller
  <2>2. QED
    BY <2>1 DEF FreezeSeller, StakeMoves, StakeStep
<1>3. ASSUME NEW i \in Items, NEW caller,
             EscalateToMediation(i, caller) \/ EscalateToVoting(i, caller)
      PROVE  Moves
  BY <1>1, <1>3 DEF EscalateToMediation, EscalateToVoting
<1> HIDE DEF Moves
<1>4. ASSUME NEW i \in Items, NEW refund, NEW slash \in Nat, ApplyResolution(i, refund, slash)
      PROVE  Moves
  BY <1>4, ResolutionMovesStake DEF Moves
<1>5. ASSUME NEW i \in Items, NEW refund, NEW byBuyer, ResolveN1Amicable(i, byBuyer, refund)
      PROVE  Moves
  BY <1>1, <1>4, <1>5 DEF ResolveN1Amicable
<1>6. ASSUME NEW i \in Items, NEW refund, NEW slash \in 0..MaxSlash,
             ResolveN2Mediation(i, refund, slash)
      PROVE  Moves
  BY <1>4, <1>6, DisputeAssumption DEF ResolveN2Mediation
<1>7. ASSUME NEW i \in Items, FinalizeAndResolve(i) \/ AdminForceCloseN3IfNoQuorum(i)
      PROVE  Moves
  BY <1>4, <1>7 DEF FinalizeAndResolve, AdminForceCloseN3IfNoQuorum
<1>8. ASSUME NEW i \in Items, NEW med, AssignN2Mediator(i, med) PROVE Moves
  BY <1>1, <1>8 DEF AssignN2Mediator
<1>9. ASSUME NEW i \in Items, NEW voter, NEW favorBuyer, CastBallot(i, voter, favorBuyer)
      PROVE  Moves
  BY <1>1, <1>9 DEF CastBallot
<1>10. ASSUME NEW i \in Items, DisputeStep(i) PROVE Moves
  BY <1>2, <1>3, <1>5, <1>6, <1>7, <1>8, <1>9, <1>10 DEF DisputeStep
<1>11. ASSUME NEW med, NEW approved, ApproveMediator(med, approved) PROVE Moves
  BY <1>1, <1>11 DEF ApproveMediator
<1>12. ASSUME NEW contract, NEW isSet, SetContract(contract, isSet) PROVE Moves
  BY <1>1, <1>12 DEF SetContract
<1>13. QED
  BY <1>10, <1>11, <1>12 DEF DisputeNext

LEMMA ProtocolStepIsStakeStep ==
  StakeInv /\ [ProtocolNext]_protocolVars => [StakeNext]_<<now, stakeVars>>
<1> SUFFICES ASSUME StakeInv, [ProtocolNext]_protocolVars PROVE [StakeNext]_<<now, stakeVars>>
  OBVIOUS
<1>1. CASE EntryPoint /\ UNCHANGED stakeVars
  BY <1>1, EntryPointTakesNoTime
<1>2. CASE Advance /\ UNCHANGED stakeVars
  BY <1>2 DEF Advance, StakeNext
<1>3. ASSUME NEW s \in Sellers, SellerStep(s), UNCHANGED vars PROVE StakeNext
  BY <1>3 DEF StakeNext, StakeStep, vars
<1>4. CASE DisputeNext
  BY <1>4, DisputeMovesStake DEF StakeMoves, StakeNext
<1>5. CASE UNCHANGED protocolVars
  BY <1>5 DEF protocolVars, vars
<1>6. QED
  BY <1>1, <1>2, <1>3, <1>4, <1>5 DEF ProtocolNext

LEMMA ProtocolStakeInvariant == ProtocolSpec => []StakeInv
<1>1. ProtocolInit => StakeInv
  BY InitStakeInv DEF ProtocolInit, Init, StandaloneInit
<1>2. StakeInv /\ [ProtocolNext]_protocolVars => StakeInv'
  BY ProtocolStepIsStakeStep, NextPreservesStakeInv
<1>3. QED
  BY <1>1, <1>2, PTL DEF ProtocolSpec

\* The protocol implements the stake contract: disputes, mediators and votes only send
\* it what it allows, so what is proved of its cooldowns and tiers holds here too.
THEOREM ProtocolImplementsStake == ProtocolSpec => StakeSpec
<1>1. ProtocolInit => StandaloneInit
  BY DEF ProtocolInit, Init, StandaloneInit
<1>2. QED
  BY <1>1, ProtocolStepIsStakeStep, ProtocolStakeInvariant, PTL DEF ProtocolSpec, StakeSpec

\* In the whole protocol no dispute shortens or lengthens the cooldown of a withdrawal.
THEOREM ProtocolCooldownExact == ProtocolSpec => CooldownRunsOnlyUnfrozen
BY ProtocolImplementsStake, StakeCooldownExact, PTL

\* The stake contract always holds what the sellers have deposited, whatever is slashed,
\* withdrawn or deposited while disputes are open.
THEOREM ProtocolSolvent == ProtocolSpec => []Solvent
BY ProtocolImplementsStake, StakeSolvent, PTL

\* No dispute, vote or slash takes the cover of a tier away: only the execution of a withdrawal
\* that was requested before a slash does.
THEOREM ProtocolUncoveredOnlyLate == ProtocolSpec => OnlyLateWithdrawalUncovers
BY ProtocolImplementsStake, StakeUncoveredOnlyLate, PTL

(***************************************************************************)
(* The stake under an open dispute.                                        *)
(***************************************************************************)
LEMMA SellerShrinksStake ==
  ASSUME StakeInv, NEW s \in Sellers, NEW t \in Sellers, SellerStep(t),
         freezeCount[s] > 0, stakes'[s] < stakes[s]
  PROVE  ResidualOverwritten(s)
<1>1. /\ stakes \in [Sellers -> Nat] /\ tiers \in [Sellers -> StakeTier] /\ usdt \in Nat
      /\ freezeCount \in [Sellers -> Nat] /\ withdrawals \in [Sellers -> WithdrawalState]
  BY DEF StakeInv, StakeTypeOK
<1>2. ASSUME NEW tier \in StakeTier, NEW eligible \in BOOLEAN, DepositStake(t, tier, eligible)
      PROVE  ResidualOverwritten(s)
  <2>1. /\ tier # None /\ tiers[t] = None
        /\ stakes' = [stakes EXCEPT ![t] = TierAmount(tier)]
        /\ tiers' = [tiers EXCEPT ![t] = tier]
        /\ usdt' = usdt + TierAmount(tier)
    BY <1>2 DEF DepositStake, TransferIn
  <2>2. s = t
    BY <1>1, <2>1
  <2>3. TierAmount(tier) \in Nat \ {0}
    BY <2>1, StakeAssumption DEF TierAmount, None, Starter, Established, TopSeller, StakeTier
  <2>4. QED
    BY <1>1, <2>1, <2>2, <2>3 DEF ResidualOverwritten
<1>3. ASSUME NEW tier \in StakeTier, NEW eligible \in BOOLEAN, UpgradeTier(t, tier, eligible)
      PROVE  FALSE
  <2>1. stakes' = [stakes EXCEPT ![t] = @ + UpgradeDelta(t, tier)]
    BY <1>3 DEF UpgradeTier
  <2>2. UpgradeDelta(t, tier) \in Nat
    BY <1>1, TierAmountType DEF UpgradeDelta
  <2>3. QED
    BY <1>1, <2>1, <2>2
<1>4. ASSUME NEW amount \in 1..TIER_3_STAKE, TopUpStake(t, amount)
      PROVE  FALSE
  BY <1>1, <1>4 DEF TopUpStake
<1>5. CASE ExecuteWithdrawal(t)
  <2>1. s # t
    BY <1>5 DEF ExecuteWithdrawal
  <2>2. QED
    BY <1>1, <1>5, <2>1 DEF ExecuteWithdrawal
<1>6. CASE stakes' = stakes
  BY <1>1, <1>6
<1>7. QED
  BY <1>2, <1>3, <1>4, <1>5, <1>6 DEF SellerStep, InitiateWithdrawal, CancelWithdrawal

LEMMA ResolutionShrinksStake ==
  ASSUME StakeInv, NEW s \in Sellers, NEW i \in Items, NEW refund, NEW slash \in Nat,
         ApplyResolution(i, refund, slash), stakes'[s] < stakes[s]
  PROVE  s = Seller(i) /\ slash > 0 /\ slash = stakes[s] - stakes'[s]
<1>1. stakes \in [Sellers -> Nat] /\ UnfreezeSeller(i, slash) /\ Seller(i) \in Sellers
  BY PartiesAssumption DEF ApplyResolution, StakeInv, StakeTypeOK, Seller
<1>2. stakes' # stakes
  BY <1>1
<1>3. slash > 0 /\ Slashed(Seller(i), slash)
  BY <1>1, <1>2 DEF UnfreezeSeller, ResumeAndSlash, stakeVars
<1>4. stakes' = [stakes EXCEPT ![Seller(i)] = @ - slash]
  BY <1>3 DEF Slashed
<1>5. s = Seller(i)
  BY <1>1, <1>4
<1>6. QED
  BY <1>1, <1>3, <1>4, <1>5

LEMMA DisputeShrinksStake ==
  ASSUME StakeInv, VerdictInv, DisputeNext, NEW s \in Sellers, stakes'[s] < stakes[s]
  PROVE  SlashedInMediation(s)
<1>1. stakes[s] \in Nat /\ stakes' # stakes
  BY DEF StakeInv, StakeTypeOK
<1>2. ASSUME NEW i \in Items, NEW refund, ApplyResolution(i, refund, 0) PROVE FALSE
  BY <1>2, ResolutionShrinksStake
<1>3. ASSUME NEW i \in Items, OpenDispute(i) PROVE FALSE
  BY <1>1, <1>3 DEF OpenDispute, FreezeSeller, PauseWithdrawal, stakeVars
<1>4. ASSUME NEW i \in Items, NEW refund, NEW byBuyer, ResolveN1Amicable(i, byBuyer, refund)
      PROVE  FALSE
  BY <1>1, <1>2, <1>4 DEF ResolveN1Amicable, stakeVars
<1>5. ASSUME NEW i \in Items, NEW refund, NEW slash \in 0..MaxSlash,
             ResolveN2Mediation(i, refund, slash)
      PROVE  SlashedInMediation(s)
  <2>1. slash \in Nat /\ level[i] = "N2" /\ ApplyResolution(i, refund, slash)
    BY <1>5, DisputeAssumption DEF ResolveN2Mediation
  <2>2. s = Seller(i) /\ slash = stakes[s] - stakes'[s]
    BY <2>1, ResolutionShrinksStake
  <2>3. level'[i] = "Resolved" /\ slashRuled'[i] = slash
    BY <2>1, ResolutionPays
  <2>4. i \in OpenDisputesOf(s)
    BY <2>1, <2>2 DEF OpenDisputesOf, DisputeOpen
  <2>5. QED
    BY <2>1, <2>2, <2>3, <2>4 DEF SlashedInMediation
<1>6. ASSUME NEW i \in Items, FinalizeAndResolve(i) \/ AdminForceCloseN3IfNoQuorum(i)
      PROVE  FALSE
  BY <1>2, <1>6 DEF FinalizeAndResolve, AdminForceCloseN3IfNoQuorum
<1>7. ASSUME NEW i \in Items, NEW caller,
             EscalateToMediation(i, caller) \/ EscalateToVoting(i, caller)
      PROVE  FALSE
  BY <1>1, <1>7 DEF EscalateToMediation, EscalateToVoting, stakeVars
<1>8. ASSUME NEW i \in Items, NEW med, AssignN2Mediator(i, med) PROVE FALSE
  BY <1>1, <1>8 DEF AssignN2Mediator, stakeVars
<1>9. ASSUME NEW i \in Items, NEW voter, NEW favorBuyer, CastBallot(i, voter, favorBuyer)
      PROVE  FALSE
  BY <1>1, <1>9 DEF CastBallot, stakeVars
<1>10. ASSUME NEW i \in Items, DisputeStep(i) PROVE SlashedInMediation(s)
  BY <1>3, <1>4, <1>5, <1>6, <1>7, <1>8, <1>9, <1>10 DEF DisputeStep
<1>11. ASSUME NEW med, NEW approved, ApproveMediator(med, approved) PROVE FALSE
  BY <1>1, <1>11 DEF ApproveMediator, stakeVars
<1>12. ASSUME NEW contract, NEW isSet, SetContract(contract, isSet) PROVE FALSE
  BY <1>1, <1>12 DEF SetContract, stakeVars
<1>13. QED
  BY <1>10, <1>11, <1>12 DEF DisputeNext

\* While a dispute of a seller is open only a mediator's slash takes from the stake,
\* whatever the seller withdraws, upgrades or deposits in between.
THEOREM ProtocolStakeStaysForDisputes == ProtocolSpec => StakeStaysForDisputes
<1> DEFINE Stays(s) ==
      OpenDisputesOf(s) # {} /\ "stake" \notin Rewirable /\ stakes'[s] < stakes[s]
      => SlashedInMediation(s) \/ ResidualOverwritten(s)
<1>1. StakeInv /\ VerdictInv /\ FreezeInv /\ [ProtocolNext]_protocolVars
      => [\A s \in Sellers : Stays(s)]_protocolVars
  <2> SUFFICES ASSUME StakeInv, VerdictInv, FreezeInv, [ProtocolNext]_protocolVars,
                      NEW s \in Sellers, OpenDisputesOf(s) # {}, "stake" \notin Rewirable,
                      stakes'[s] < stakes[s]
               PROVE  SlashedInMediation(s) \/ ResidualOverwritten(s)
    OBVIOUS
  <2>1. Cardinality(OpenDisputesOf(s)) # 0
    BY FS_EmptySet DEF FreezeInv
  <2>2. freezeCount[s] > 0
    BY <2>1 DEF FreezeInv, OneFreezePerOpenDispute
  <2>3. CASE UNCHANGED stakeVars
    BY <2>3 DEF stakeVars, StakeInv, StakeTypeOK
  <2>4. ASSUME NEW t \in Sellers, SellerStep(t) PROVE ResidualOverwritten(s)
    BY <2>2, <2>4, SellerShrinksStake
  <2>5. CASE DisputeNext
    BY <2>5, DisputeShrinksStake
  <2>6. QED
    BY <2>3, <2>4, <2>5 DEF ProtocolNext, protocolVars
<1>2. QED
  BY <1>1, ProtocolStakeInvariant, VerdictInvariant, FreezeInvariant, PTL
     DEF ProtocolSpec, StakeStaysForDisputes
===============================================================================
