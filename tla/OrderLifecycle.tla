---------------------------- MODULE OrderLifecycle ----------------------------
(***************************************************************************)
(* What the off-chain programs may assume of the escrow: how the statuses  *)
(* of an order and of its items move, and when the two timers that anyone  *)
(* may trigger have run out.  Amounts, parties, caps, the pause and the    *)
(* dispute contract are hidden: an abstract step is allowed whenever some  *)
(* state of the contract allows it.                                        *)
(*                                                                         *)
(* EtaloEscrow implements this specification (Lifecycle there); the        *)
(* indexer, the keepers, the screens and the checkout are modelled on it.  *)
(***************************************************************************)
CONSTANTS Orders, Items, OrderOf

VARIABLES
    orderStatus,   \* Order.globalStatus, "None" until the order is created
    itemStatus,    \* Item.status
    releaseTimer,  \* finalReleaseAfter of the item's group: none, running, due
    refundTimer    \* the seller's inactivity deadline of a funded order

lifecycleVars == <<orderStatus, itemStatus, releaseTimer, refundTimer>>

Timer == {"none", "running", "due"}

Closed == {"Completed", "Refunded", "Cancelled"}
Done   == {"Released", "Refunded"}

ItemsIn(o) == {i \in Items : OrderOf[i] = o}

LifecycleInit ==
    /\ orderStatus = [o \in Orders |-> "None"]
    /\ itemStatus = [i \in Items |-> "Pending"]
    /\ releaseTimer = [i \in Items |-> "none"]
    /\ refundTimer = [o \in Orders |-> "none"]

\* The order's status once its items have the statuses in `status'.
StatusAfter(o, status) ==
    IF orderStatus[o] \in Closed THEN orderStatus[o]
    ELSE IF \A i \in ItemsIn(o) : status[i] \in Done
         THEN IF \A i \in ItemsIn(o) : status[i] = "Refunded" THEN "Refunded" ELSE "Completed"
    ELSE IF \E i \in ItemsIn(o) : status[i] \in Done THEN "PartiallyDelivered"
    ELSE orderStatus[o]

Funded(o) == refundTimer[o] # "none"

\* The items of S take the status s, and the order follows.
Settle(o, S, s) ==
    /\ itemStatus' = [i \in Items |-> IF i \in S THEN s ELSE itemStatus[i]]
    /\ orderStatus' = [orderStatus EXCEPT ![o] = StatusAfter(o, itemStatus')]
    /\ UNCHANGED <<releaseTimer, refundTimer>>

Create(o) ==
    /\ orderStatus[o] = "None"
    /\ orderStatus' = [orderStatus EXCEPT ![o] = "Created"]
    /\ UNCHANGED <<itemStatus, releaseTimer, refundTimer>>

Fund(o) ==
    /\ orderStatus[o] = "Created"
    /\ orderStatus' = [orderStatus EXCEPT ![o] = "Funded"]
    /\ refundTimer' = [refundTimer EXCEPT ![o] = "running"]
    /\ UNCHANGED <<itemStatus, releaseTimer>>

Cancel(o) ==
    /\ orderStatus[o] = "Created"
    /\ orderStatus' = [orderStatus EXCEPT ![o] = "Cancelled"]
    /\ UNCHANGED <<itemStatus, releaseTimer, refundTimer>>

Ship(o, S) ==
    /\ orderStatus[o] \in {"Funded", "PartiallyShipped"}
    /\ S # {} /\ S \subseteq {i \in ItemsIn(o) : itemStatus[i] = "Pending"}
    /\ itemStatus' = [i \in Items |-> IF i \in S THEN "Shipped" ELSE itemStatus[i]]
    /\ releaseTimer' = [i \in Items |-> IF i \in S THEN "running" ELSE releaseTimer[i]]
    /\ \E s \in {"PartiallyShipped", "AllShipped"} :
          orderStatus' = [orderStatus EXCEPT ![o] = s]
    /\ UNCHANGED refundTimer

\* A confirmation by the buyer releases shipped items at any time.
Confirm(o, S) ==
    /\ S # {} /\ S \subseteq {i \in ItemsIn(o) : itemStatus[i] = "Shipped"}
    /\ Settle(o, S, "Released")

\* Anyone may release an item whose timer has run out, unless it is disputed.
AutoRelease(i) ==
    /\ releaseTimer[i] = "due"
    /\ itemStatus[i] \notin Done \cup {"Disputed"}
    /\ Settle(OrderOf[i], {i}, "Released")

\* Anyone may refund an order the seller has let lie.
AutoRefund(o) ==
    /\ orderStatus[o] = "Funded" /\ refundTimer[o] = "due"
    /\ \A i \in ItemsIn(o) : itemStatus[i] # "Disputed"
    /\ Settle(o, ItemsIn(o), "Refunded")

ForceRefund(o) ==
    /\ Funded(o) /\ orderStatus[o] \notin Closed
    /\ itemStatus' = [i \in Items |->
           IF i \in ItemsIn(o) /\ itemStatus[i] \notin Done THEN "Refunded" ELSE itemStatus[i]]
    /\ orderStatus' = [orderStatus EXCEPT ![o] = "Refunded"]
    /\ UNCHANGED <<releaseTimer, refundTimer>>

Dispute(i) ==
    /\ Funded(OrderOf[i])
    /\ itemStatus[i] \notin Done \cup {"Disputed"}
    /\ itemStatus' = [itemStatus EXCEPT ![i] = "Disputed"]
    /\ UNCHANGED <<orderStatus, releaseTimer, refundTimer>>

Resolve(i, s) ==
    /\ itemStatus[i] = "Disputed" /\ s \in Done
    /\ Settle(OrderOf[i], {i}, s)

TimePasses ==
    /\ \E due \in SUBSET {i \in Items : releaseTimer[i] = "running"} :
          releaseTimer' = [i \in Items |-> IF i \in due THEN "due" ELSE releaseTimer[i]]
    /\ \E due \in SUBSET {o \in Orders : refundTimer[o] = "running"} :
          refundTimer' = [o \in Orders |-> IF o \in due THEN "due" ELSE refundTimer[o]]
    /\ UNCHANGED <<orderStatus, itemStatus>>

LifecycleNext ==
    \/ \E o \in Orders :
          \/ Create(o) \/ Fund(o) \/ Cancel(o) \/ AutoRefund(o) \/ ForceRefund(o)
          \/ \E S \in SUBSET ItemsIn(o) : Ship(o, S) \/ Confirm(o, S)
    \/ \E i \in Items : AutoRelease(i) \/ Dispute(i) \/ \E s \in Done : Resolve(i, s)
    \/ TimePasses

LifecycleSpec == LifecycleInit /\ [][LifecycleNext]_lifecycleVars
===============================================================================
