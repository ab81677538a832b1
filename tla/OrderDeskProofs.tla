--------------------------- MODULE OrderDeskProofs ---------------------------
(***************************************************************************)
(* Proofs about OrderDesk, for an order of any number of items and any     *)
(* number of transactions under way: what a screen that shows the chain    *)
(* offers, the contract takes, and what it takes is offered.               *)
(***************************************************************************)
EXTENDS OrderDesk, NaturalsInduction, WellFoundedInduction, TLAPS

USE DEF chainVars

(***************************************************************************)
(* The order on the chain.                                                 *)
(***************************************************************************)
OrderStatuses == {"None", "Created", "Funded", "PartiallyShipped", "AllShipped",
                  "PartiallyDelivered"} \cup Closed
ItemStatuses == {"Pending", "Shipped", "Disputed"} \cup Done
Unpaid == {"None", "Created", "Cancelled"}

\* An order has a deadline once it is paid for; before, its items are untouched, and when
\* it is closed they are all settled.
LifeInv ==
    /\ orderStatus \in [Orders -> OrderStatuses] /\ itemStatus \in [Items -> ItemStatuses]
    /\ refundTimer \in [Orders -> Timer] /\ releaseTimer \in [Items -> Timer]
    /\ \A o \in Orders : Funded(o) <=> orderStatus[o] \notin Unpaid
    /\ \A i \in Items :
          /\ orderStatus[OrderOf[i]] \in Unpaid => itemStatus[i] = "Pending"
          /\ orderStatus[OrderOf[i]] \in {"Completed", "Refunded"} => itemStatus[i] \in Done
          /\ releaseTimer[i] # "none" => itemStatus[i] # "Pending"

\* The order has been shipped, or settled otherwise, for good.
PastShipping == orderStatus[order] \notin Shippable \cup {"None", "Created"}

LEMMA OrderOfItem == \A i \in Items : OrderOf[i] \in Orders
BY DeskAssumption

LEMMA StatusAfterIs ==
  ASSUME LifeInv, NEW o \in Orders, NEW st \in [Items -> ItemStatuses]
  PROVE  /\ StatusAfter(o, st) \in OrderStatuses
         /\ StatusAfter(o, st) \in {orderStatus[o], "Completed", "Refunded", "PartiallyDelivered"}
         /\ orderStatus[o] \in Closed => StatusAfter(o, st) = orderStatus[o]
         /\ orderStatus[o] \notin Closed /\ StatusAfter(o, st) \in {"Completed", "Refunded"} =>
                \A i \in ItemsIn(o) : st[i] \in Done
BY DEF StatusAfter, LifeInv, OrderStatuses, Closed

\* Items of a paid order are settled, or stay so.
LEMMA SettleLife ==
  ASSUME LifeInv, NEW o \in Orders, Funded(o), NEW S, NEW s \in Done,
         S \cap Items \subseteq ItemsIn(o), Settle(o, S, s)
  PROVE  LifeInv' /\ (PastShipping => PastShipping')
<1>1. /\ itemStatus' = [i \in Items |-> IF i \in S THEN s ELSE itemStatus[i]]
      /\ orderStatus' = [orderStatus EXCEPT ![o] = StatusAfter(o, itemStatus')]
      /\ refundTimer' = refundTimer /\ releaseTimer' = releaseTimer
  BY DEF Settle
<1>2. itemStatus' \in [Items -> ItemStatuses]
  BY <1>1 DEF LifeInv, ItemStatuses
<1> DEFINE after == StatusAfter(o, itemStatus')
<1>3. /\ after \in OrderStatuses
      /\ after \in {orderStatus[o], "Completed", "Refunded", "PartiallyDelivered"}
      /\ orderStatus[o] \in Closed => after = orderStatus[o]
      /\ orderStatus[o] \notin Closed /\ after \in {"Completed", "Refunded"} =>
             \A i \in ItemsIn(o) : itemStatus'[i] \in Done
  BY <1>2, StatusAfterIs
<1>4. orderStatus' = [orderStatus EXCEPT ![o] = after]
  BY <1>1
<1> HIDE DEF after
<1>5. orderStatus[o] \notin Unpaid /\ after \notin Unpaid
  BY <1>3 DEF LifeInv, Unpaid
<1>6. orderStatus' \in [Orders -> OrderStatuses] /\ orderStatus'[o] = after
      /\ \A q \in Orders : q # o => orderStatus'[q] = orderStatus[q]
  BY <1>3, <1>4 DEF LifeInv
<1>7. \A q \in Orders : Funded(q)' <=> orderStatus'[q] \notin Unpaid
  BY <1>1, <1>5, <1>6 DEF LifeInv, Funded
<1>8. ASSUME NEW i \in Items
      PROVE  /\ orderStatus'[OrderOf[i]] \in Unpaid => itemStatus'[i] = "Pending"
             /\ orderStatus'[OrderOf[i]] \in {"Completed", "Refunded"} => itemStatus'[i] \in Done
  <2>1. CASE OrderOf[i] = o
    <3>1. itemStatus'[i] = itemStatus[i] \/ itemStatus'[i] \in Done
      BY <1>1
    <3>2. orderStatus[o] \in {"Completed", "Refunded"} => itemStatus[i] \in Done
      BY <2>1 DEF LifeInv
    <3>3. i \in ItemsIn(o)
      BY <2>1 DEF ItemsIn
    <3>4. orderStatus[o] \in Closed => orderStatus[o] \in {"Completed", "Refunded"}
      BY <1>5 DEF Closed, Unpaid
    <3>5. QED
      BY <1>3, <1>5, <1>6, <2>1, <3>1, <3>2, <3>3, <3>4
  <2>2. CASE OrderOf[i] # o
    <3>1. orderStatus'[OrderOf[i]] = orderStatus[OrderOf[i]]
      BY <1>6, <2>2, OrderOfItem
    <3>2. itemStatus'[i] = itemStatus[i]
      BY <1>1, <2>2 DEF ItemsIn
    <3>3. QED
      BY <3>1, <3>2 DEF LifeInv
  <2>3. QED
    BY <2>1, <2>2
<1>9. LifeInv'
  <2>1. \A i \in Items : itemStatus[i] # "Pending" => itemStatus'[i] # "Pending"
    BY <1>1 DEF Done
  <2>2. QED
    BY <1>1, <1>2, <1>6, <1>7, <1>8, <2>1 DEF LifeInv
<1>10. PastShipping => PastShipping'
  <2>1. CASE order = o
    BY <1>3, <1>6, <2>1 DEF PastShipping, Shippable
  <2>2. CASE order # o
    BY <1>6, <2>2, DeskAssumption DEF PastShipping
  <2>3. QED
    BY <2>1, <2>2
<1>11. QED
  BY <1>9, <1>10

LEMMA CreateLife ==
  ASSUME LifeInv, NEW o \in Orders, Create(o) \/ Fund(o) \/ Cancel(o)
  PROVE  LifeInv' /\ (PastShipping => PastShipping')
<1>1. PICK s \in {"Created", "Funded", "Cancelled"} :
          /\ orderStatus[o] \in {"None", "Created"}
          /\ itemStatus' = itemStatus /\ releaseTimer' = releaseTimer
          /\ orderStatus' = [orderStatus EXCEPT ![o] = s]
          /\ IF s = "Funded" THEN refundTimer' = [refundTimer EXCEPT ![o] = "running"]
             ELSE refundTimer' = refundTimer
  BY DEF Create, Fund, Cancel
<1>2. /\ orderStatus' \in [Orders -> OrderStatuses] /\ refundTimer' \in [Orders -> Timer]
      /\ orderStatus'[o] = s /\ \A q \in Orders : q # o => orderStatus'[q] = orderStatus[q]
      /\ \A q \in Orders : q # o => refundTimer'[q] = refundTimer[q]
      /\ refundTimer'[o] = IF s = "Funded" THEN "running" ELSE refundTimer[o]
  BY <1>1 DEF LifeInv, OrderStatuses, Closed, Timer
<1>3. \A q \in Orders : Funded(q)' <=> orderStatus'[q] \notin Unpaid
  BY <1>1, <1>2 DEF LifeInv, Funded, Unpaid
<1>4. \A i \in Items :
          /\ orderStatus'[OrderOf[i]] \in Unpaid => itemStatus'[i] = "Pending"
          /\ orderStatus'[OrderOf[i]] \in {"Completed", "Refunded"} => itemStatus'[i] \in Done
  BY <1>1, <1>2, OrderOfItem DEF LifeInv, Unpaid
<1>5. PastShipping => PastShipping'
  BY <1>1, <1>2, DeskAssumption DEF PastShipping
<1>6. QED
  BY <1>1, <1>2, <1>3, <1>4, <1>5 DEF LifeInv

LEMMA ShipLife ==
  ASSUME LifeInv, NEW o \in Orders, NEW S, Ship(o, S)
  PROVE  LifeInv' /\ (PastShipping => PastShipping')
<1>1. PICK s \in {"PartiallyShipped", "AllShipped"} : orderStatus' = [orderStatus EXCEPT ![o] = s]
  BY DEF Ship
<1>2. /\ orderStatus[o] \in {"Funded", "PartiallyShipped"} /\ refundTimer' = refundTimer
      /\ S \subseteq ItemsIn(o)
      /\ itemStatus' = [i \in Items |-> IF i \in S THEN "Shipped" ELSE itemStatus[i]]
      /\ releaseTimer' = [i \in Items |-> IF i \in S THEN "running" ELSE releaseTimer[i]]
  BY DEF Ship
<1>3. /\ orderStatus' \in [Orders -> OrderStatuses] /\ itemStatus' \in [Items -> ItemStatuses]
      /\ orderStatus'[o] = s /\ \A q \in Orders : q # o => orderStatus'[q] = orderStatus[q]
  BY <1>1, <1>2 DEF LifeInv, OrderStatuses, ItemStatuses
<1>4. \A q \in Orders : Funded(q)' <=> orderStatus'[q] \notin Unpaid
  BY <1>2, <1>3 DEF LifeInv, Funded, Unpaid
<1>5. ASSUME NEW i \in Items
      PROVE  /\ orderStatus'[OrderOf[i]] \in Unpaid => itemStatus'[i] = "Pending"
             /\ orderStatus'[OrderOf[i]] \in {"Completed", "Refunded"} => itemStatus'[i] \in Done
  <2>1. CASE OrderOf[i] = o
    BY <1>3, <2>1 DEF Unpaid
  <2>2. CASE OrderOf[i] # o
    <3>1. itemStatus'[i] = itemStatus[i]
      BY <1>2, <2>2 DEF ItemsIn
    <3>2. QED
      BY <1>3, <2>2, <3>1, OrderOfItem DEF LifeInv
  <2>3. QED
    BY <2>1, <2>2
<1>6. PastShipping => PastShipping'
  BY <1>2, <1>3, DeskAssumption DEF PastShipping, Shippable
<1>7. /\ releaseTimer' \in [Items -> Timer]
      /\ \A i \in Items : releaseTimer'[i] # "none" => itemStatus'[i] # "Pending"
  BY <1>2 DEF LifeInv, Timer
<1>8. QED
  BY <1>2, <1>3, <1>4, <1>5, <1>6, <1>7 DEF LifeInv

LEMMA DisputeLife ==
  ASSUME LifeInv, NEW i, Dispute(i)
  PROVE  LifeInv' /\ (PastShipping => PastShipping')
<1>1. /\ Funded(OrderOf[i]) /\ itemStatus[i] \notin Done
      /\ itemStatus' = [itemStatus EXCEPT ![i] = "Disputed"]
      /\ orderStatus' = orderStatus /\ refundTimer' = refundTimer
      /\ releaseTimer' = releaseTimer
  BY DEF Dispute
<1>2. /\ itemStatus' \in [Items -> ItemStatuses]
      /\ \A j \in Items : j # i => itemStatus'[j] = itemStatus[j]
  BY <1>1 DEF LifeInv, ItemStatuses
<1>3. i \in Items => orderStatus[OrderOf[i]] \notin Unpaid \cup {"Completed", "Refunded"}
  BY <1>1, OrderOfItem DEF LifeInv
<1>4. \A q \in Orders : Funded(q)' <=> orderStatus'[q] \notin Unpaid
  BY <1>1 DEF LifeInv, Funded
<1>5. \A j \in Items :
          /\ orderStatus'[OrderOf[j]] \in Unpaid => itemStatus'[j] = "Pending"
          /\ orderStatus'[OrderOf[j]] \in {"Completed", "Refunded"} => itemStatus'[j] \in Done
  BY <1>1, <1>2, <1>3 DEF LifeInv
<1>6. \A j \in Items : itemStatus[j] # "Pending" => itemStatus'[j] # "Pending"
  BY <1>1, <1>2 DEF LifeInv
<1>7. QED
  BY <1>1, <1>2, <1>4, <1>5, <1>6 DEF LifeInv, PastShipping

LEMMA ForceRefundLife ==
  ASSUME LifeInv, NEW o \in Orders, ForceRefund(o)
  PROVE  LifeInv' /\ (PastShipping => PastShipping')
<1>1. /\ Funded(o) /\ refundTimer' = refundTimer /\ releaseTimer' = releaseTimer
      /\ itemStatus' = [i \in Items |-> IF i \in ItemsIn(o) /\ itemStatus[i] \notin Done
                                        THEN "Refunded" ELSE itemStatus[i]]
      /\ orderStatus' = [orderStatus EXCEPT ![o] = "Refunded"]
  BY DEF ForceRefund
<1>2. /\ orderStatus' \in [Orders -> OrderStatuses] /\ itemStatus' \in [Items -> ItemStatuses]
      /\ orderStatus'[o] = "Refunded"
      /\ \A q \in Orders : q # o => orderStatus'[q] = orderStatus[q]
  BY <1>1 DEF LifeInv, OrderStatuses, ItemStatuses, Closed, Done
<1>3. \A q \in Orders : Funded(q)' <=> orderStatus'[q] \notin Unpaid
  BY <1>1, <1>2 DEF LifeInv, Funded, Unpaid
<1>4. ASSUME NEW i \in Items
      PROVE  /\ orderStatus'[OrderOf[i]] \in Unpaid => itemStatus'[i] = "Pending"
             /\ orderStatus'[OrderOf[i]] \in {"Completed", "Refunded"} => itemStatus'[i] \in Done
  <2>1. CASE OrderOf[i] = o
    <3>1. itemStatus'[i] \in Done
      BY <1>1, <2>1 DEF ItemsIn, Done
    <3>2. QED
      BY <1>2, <2>1, <3>1 DEF Unpaid
  <2>2. CASE OrderOf[i] # o
    <3>1. itemStatus'[i] = itemStatus[i]
      BY <1>1, <2>2 DEF ItemsIn
    <3>2. QED
      BY <1>2, <2>2, <3>1, OrderOfItem DEF LifeInv
  <2>3. QED
    BY <2>1, <2>2
<1>5. PastShipping => PastShipping'
  BY <1>2, DeskAssumption DEF PastShipping, Shippable
<1>6. \A i \in Items : itemStatus[i] # "Pending" => itemStatus'[i] # "Pending"
  BY <1>1
<1>7. QED
  BY <1>1, <1>2, <1>3, <1>4, <1>5, <1>6 DEF LifeInv

LEMMA TimePassesLife ==
  ASSUME LifeInv, TimePasses
  PROVE  LifeInv' /\ (PastShipping => PastShipping')
<1>1. orderStatus' = orderStatus /\ itemStatus' = itemStatus
  BY DEF TimePasses
<1>2. PICK due \in SUBSET {o \in Orders : refundTimer[o] = "running"} :
          refundTimer' = [o \in Orders |-> IF o \in due THEN "due" ELSE refundTimer[o]]
  BY DEF TimePasses
<1>3. /\ refundTimer' \in [Orders -> Timer]
      /\ \A o \in Orders : refundTimer'[o] = "none" <=> refundTimer[o] = "none"
  BY <1>2 DEF LifeInv, Timer
<1>4. \A o \in Orders : Funded(o)' <=> Funded(o)
  BY <1>3 DEF Funded
<1>5. /\ releaseTimer' \in [Items -> Timer]
      /\ \A i \in Items : releaseTimer'[i] = "none" <=> releaseTimer[i] = "none"
  <2>1. PICK rung \in SUBSET {i \in Items : releaseTimer[i] = "running"} :
            releaseTimer' = [i \in Items |-> IF i \in rung THEN "due" ELSE releaseTimer[i]]
    BY DEF TimePasses
  <2>2. QED
    BY <2>1 DEF LifeInv, Timer
<1>6. QED
  BY <1>1, <1>3, <1>4, <1>5 DEF LifeInv, PastShipping

\* A settlement needs a paid order.
LEMMA TouchedIsPaid ==
  ASSUME LifeInv, NEW i \in Items, itemStatus[i] # "Pending"
  PROVE  Funded(OrderOf[i]) /\ OrderOf[i] \in Orders
BY OrderOfItem DEF LifeInv

LEMMA ConfirmLife ==
  ASSUME LifeInv, NEW o \in Orders, NEW S, Confirm(o, S)
  PROVE  LifeInv' /\ (PastShipping => PastShipping')
<1>1. PICK i \in S : i \in Items /\ OrderOf[i] = o /\ itemStatus[i] = "Shipped"
  BY DEF Confirm, ItemsIn
<1>2. Funded(o)
  BY <1>1, TouchedIsPaid
<1>3. S \cap Items \subseteq ItemsIn(o) /\ Settle(o, S, "Released")
  BY DEF Confirm
<1>4. QED
  BY <1>2, <1>3, SettleLife DEF Done

LEMMA AutoRefundLife ==
  ASSUME LifeInv, NEW o \in Orders, AutoRefund(o)
  PROVE  LifeInv' /\ (PastShipping => PastShipping')
<1>1. Funded(o) /\ Settle(o, ItemsIn(o), "Refunded")
  BY DEF AutoRefund, Funded
<1>2. QED
  BY <1>1, SettleLife DEF Done, ItemsIn

LEMMA LifeStep ==
  ASSUME LifeInv, LifecycleNext
  PROVE  LifeInv' /\ (PastShipping => PastShipping')
<1>1. ASSUME NEW o \in Orders,
             \/ Create(o) \/ Fund(o) \/ Cancel(o) \/ AutoRefund(o) \/ ForceRefund(o)
             \/ \E S \in SUBSET ItemsIn(o) : Ship(o, S) \/ Confirm(o, S)
      PROVE  LifeInv' /\ (PastShipping => PastShipping')
  BY <1>1, CreateLife, AutoRefundLife, ForceRefundLife, ShipLife, ConfirmLife
<1>2. ASSUME NEW i \in Items, AutoRelease(i) \/ \E s \in Done : Resolve(i, s)
      PROVE  LifeInv' /\ (PastShipping => PastShipping')
  <2>1. PICK s \in Done : Settle(OrderOf[i], {i}, s)
    BY <1>2 DEF AutoRelease, Resolve, Done
  <2>2. itemStatus[i] # "Pending"
    BY <1>2 DEF AutoRelease, Resolve, LifeInv
  <2>3. {i} \cap Items \subseteq ItemsIn(OrderOf[i])
    BY DEF ItemsIn
  <2>4. QED
    BY <2>1, <2>2, <2>3, SettleLife, TouchedIsPaid
<1>3. ASSUME NEW i \in Items, Dispute(i)
      PROVE  LifeInv' /\ (PastShipping => PastShipping')
  BY <1>3, DisputeLife
<1>4. CASE TimePasses
  BY <1>4, TimePassesLife
<1>5. QED
  BY <1>1, <1>2, <1>3, <1>4 DEF LifecycleNext
-------------------------------------------------------------------------------
(***************************************************************************)
(* The least of some numbers, for the first item of the page and the first *)
(* free slot.                                                              *)
(***************************************************************************)
LEMMA LessIsWellFounded == IsWellFoundedOn(OpToRel(<, Nat), Nat)
BY NatLessThanWellFounded

LEMMA HasLeast ==
  ASSUME NEW S, S \subseteq Nat, S # {}
  PROVE  \E k \in S : \A l \in S : k <= l
<1>1. PICK k \in S : \A l \in S : ~(<<l, k>> \in OpToRel(<, Nat))
  BY LessIsWellFounded, WFMin
<1>2. ASSUME NEW l \in S PROVE k <= l
  <2>1. ~(l < k)
    BY <1>1 DEF OpToRel
  <2>2. QED
    BY <2>1
<1>3. QED
  BY <1>2

LEMMA MinIsLeast ==
  ASSUME NEW S, S \subseteq Nat, S # {}
  PROVE  Min(S) \in S
BY HasLeast DEF Min

LEMMA FirstOfIsIn ==
  ASSUME NEW S, S \subseteq ItemsIn(order), S # {}
  PROVE  FirstOf(S) \in S
<1> DEFINE places == {k \in DOMAIN ItemOrder : ItemOrder[k] \in S}
<1>1. places \subseteq Nat /\ places # {}
  BY DeskAssumption
<1>2. PICK k \in places : \A l \in places : k <= l
  BY <1>1, HasLeast
<1>3. \A l \in 1 .. k - 1 : ItemOrder[l] \notin S
  <2>1. ASSUME NEW l \in 1 .. k - 1, ItemOrder[l] \in S PROVE FALSE
    <3>1. k \in DOMAIN ItemOrder /\ DOMAIN ItemOrder = 1 .. Len(ItemOrder)
          /\ Len(ItemOrder) \in Nat
      BY DeskAssumption
    <3>2. l \in DOMAIN ItemOrder /\ l < k
      BY <3>1
    <3>3. l \in places
      BY <2>1, <3>2
    <3>4. QED
      BY <1>1, <1>2, <3>2, <3>3
  <2>2. QED
    BY <2>1
<1>4. k \in DOMAIN ItemOrder /\ ItemOrder[k] \in S
  OBVIOUS
<1>5. QED
  BY <1>3, <1>4 DEF FirstOf
-------------------------------------------------------------------------------
(***************************************************************************)
(* The desk.                                                               *)
(***************************************************************************)
Call == [do : {"none"} \cup Buttons \cup Dialogs, target : Items \cup {order},
         at : {"free", "resolving", "asked", "pool", "took", "reverted"}]
Dialog == [kind : {"none"} \cup Dialogs, at : {"closed", "ready", "busy"}, call : Nat]
Phases == {"idle", "preparing", "confirming", "success", "error"}

\* A slot without a call is free, and a shipment that succeeded has shipped the order.
CallsInv ==
    /\ calls \in [Slots -> Call]
    /\ \A k \in Slots : calls[k].do = "none" => calls[k].at = "free"
    /\ \A k \in Slots : calls[k].do = "ship" /\ calls[k].at = "took" => PastShipping

\* A dialog that is busy waits for a call of its own kind.
DialogInv ==
    /\ dialog \in Dialog
    /\ dialog.at = "busy" => dialog.call \in Slots /\ calls[dialog.call].do = dialog.kind
    /\ dialog # NoDialog => dialog.at # "closed" /\ dialog.kind \in Dialogs

\* Only the buyer's page has phases, only the seller's tab dialogs.
PageInv ==
    /\ desk \in {"buyer", "seller"}
    /\ wallet \in {"connecting", "failed", "on"} /\ loaded \in BOOLEAN
    /\ loaded => wallet = "on"
    /\ phase \in [Buttons -> Phases]
    /\ desk = "buyer" => dialog = NoDialog
    /\ syncing => PastShipping

DeskInv == LifeInv /\ CallsInv /\ DialogInv /\ PageInv

LEMMA InitDesk == Init => DeskInv
<1> SUFFICES ASSUME Init PROVE DeskInv
  OBVIOUS
<1>1. LifeInv
  BY OrderOfItem DEF Init, LifecycleInit, LifeInv, OrderStatuses, ItemStatuses, Closed, Done,
     Timer, Funded, Unpaid
<1>2. CallsInv
  BY DEF Init, CallsInv, NoCall, Call
<1>3. DialogInv /\ PageInv
  BY DEF Init, DialogInv, PageInv, NoDialog, Dialog, Phases
<1>4. QED
  BY <1>1, <1>2, <1>3 DEF DeskInv

\* What one call does to the table of calls.
LEMMA MarkedCall ==
  ASSUME CallsInv, NEW k \in Slots, calls[k].do # "none",
         NEW at \in {"resolving", "asked", "pool", "took", "reverted"},
         calls' = [calls EXCEPT ![k].at = at],
         PastShipping => PastShipping', calls[k].do = "ship" /\ at = "took" => PastShipping'
  PROVE  CallsInv' /\ \A l \in Slots : calls'[l].do = calls[l].do
<1>1. calls[k] \in Call /\ calls \in [Slots -> Call]
  BY DEF CallsInv
<1>2. PICK c \in Call : c = calls[k]
  BY <1>1
<1> DEFINE d == [c EXCEPT !.at = at]
<1>3. d \in Call /\ d.do = c.do /\ d.at = at
  BY DEF Call
<1>4. calls' = [calls EXCEPT ![k] = d]
  BY <1>1, <1>2
<1> HIDE DEF d
<1>5. calls' \in [Slots -> Call] /\ calls'[k] = d /\ \A l \in Slots : l # k => calls'[l] = calls[l]
  BY <1>1, <1>3, <1>4
<1>6. \A l \in Slots : calls'[l].do = calls[l].do
  BY <1>2, <1>3, <1>5
<1>7. \A l \in Slots : calls'[l].do = "none" => calls'[l].at = "free"
  BY <1>2, <1>5, <1>6 DEF CallsInv
<1>8. \A l \in Slots : calls'[l].do = "ship" /\ calls'[l].at = "took" => PastShipping'
  BY <1>2, <1>3, <1>5, <1>6 DEF CallsInv
<1>9. Slots' = Slots /\ Call' = Call
  BY DEF Slots, Call
<1>10. QED
  BY ONLY <1>5, <1>6, <1>7, <1>8, <1>9 DEF CallsInv

LEMMA DroppedCall ==
  ASSUME CallsInv, PastShipping => PastShipping', calls' = [l \in Slots |-> calls'[l]],
         \A l \in Slots : calls'[l] \in {calls[l], NoCall}
  PROVE  CallsInv'
<1>1. NoCall \in Call /\ NoCall.do = "none" /\ NoCall.at = "free"
  BY DEF NoCall, Call
<1>2. ASSUME NEW l \in Slots
      PROVE  /\ calls'[l] \in Call /\ (calls'[l].do = "none" => calls'[l].at = "free")
             /\ calls'[l].do = "ship" /\ calls'[l].at = "took" => PastShipping'
  BY <1>1 DEF CallsInv
<1>3. Slots' = Slots /\ Call' = Call
  BY DEF Slots, Call
<1>4. calls' \in [Slots -> Call]
  <2>1. calls' = [l \in Slots |-> calls'[l]]
    OBVIOUS
  <2>2. \A l \in Slots : calls'[l] \in Call
    BY <1>2
  <2>3. QED
    BY ONLY <2>1, <2>2
<1>5. QED
  BY ONLY <1>2, <1>3, <1>4 DEF CallsInv

\* Ask(do, target) puts one call into a free slot.
LEMMA AskedCall ==
  ASSUME CallsInv, PastShipping => PastShipping',
         NEW do \in Buttons \cup Dialogs, NEW target \in Items \cup {order}, Ask(do, target)
  PROVE  LET k == Min({l \in Slots : calls[l] = NoCall})
         IN  k \in Slots /\ CallsInv' /\ calls'[k].do = do
<1> DEFINE free == {l \in Slots : calls[l] = NoCall}
           c == [do |-> do, target |-> target, at |-> "resolving"]
<1>1. free \subseteq Nat /\ free # {}
  BY DeskAssumption DEF Ask, Slots
<1>2. PICK k \in Slots : k = Min(free)
  BY <1>1, MinIsLeast
<1>3. calls' = [calls EXCEPT ![k] = c]
  BY <1>2 DEF Ask
<1>4. c \in Call /\ c.do = do /\ c.at = "resolving"
  BY DEF Call
<1> HIDE DEF c
<1>5. calls \in [Slots -> Call]
  BY DEF CallsInv
<1>6. calls' \in [Slots -> Call] /\ calls'[k] = c /\ \A l \in Slots : l # k => calls'[l] = calls[l]
  BY <1>3, <1>4, <1>5
<1>7. do # "none"
  BY DEF Buttons, Dialogs
<1>8. ASSUME NEW l \in Slots
      PROVE  /\ calls'[l].do = "none" => calls'[l].at = "free"
             /\ calls'[l].do = "ship" /\ calls'[l].at = "took" => PastShipping'
  <2>1. CASE l = k
    BY <1>4, <1>6, <1>7, <2>1
  <2>2. CASE l # k
    BY <1>6, <2>2 DEF CallsInv
  <2>3. QED
    BY <2>1, <2>2
<1>9. Slots' = Slots /\ Call' = Call
  BY DEF Slots, Call
<1>10. CallsInv'
  BY ONLY <1>6, <1>8, <1>9 DEF CallsInv
<1>11. QED
  BY <1>2, <1>4, <1>6, <1>10

-------------------------------------------------------------------------------
(***************************************************************************)
(* The steps that leave the chain alone or leave the desk alone.           *)
(***************************************************************************)
LEMMA LifeUnchanged ==
  ASSUME LifeInv, UNCHANGED lifecycleVars
  PROVE  LifeInv' /\ (PastShipping => PastShipping')
BY DEF lifecycleVars, LifeInv, PastShipping, Funded

\* The desk is as it was and the chain moved on.
LEMMA DeskUnchanged ==
  ASSUME DeskInv, LifeInv', PastShipping => PastShipping',
         UNCHANGED <<desk, calls, wallet, loaded, phase, syncing, dialog>>
  PROVE  DeskInv'
<1>1. CallsInv'
  BY DEF DeskInv, CallsInv, Slots, Call
<1>2. DialogInv'
  BY DEF DeskInv, DialogInv
<1>3. PageInv'
  BY DEF DeskInv, PageInv
<1>4. QED
  BY <1>1, <1>2, <1>3 DEF DeskInv

\* A call of the desk is mined.
LEMMA MineDesk ==
  ASSUME DeskInv, NEW k \in Slots, Mine(k)
  PROVE  DeskInv'
<1>1. UNCHANGED <<desk, mirror, wallet, loaded, phase, shown, syncing, dialog>>
      /\ calls[k].at = "pool"
  BY DEF Mine, buyerVars, sellerVars
<1>2. calls[k].do \in Buttons \cup Dialogs /\ calls[k].do # "none"
  BY <1>1 DEF DeskInv, CallsInv, Call, Buttons, Dialogs
<1>3. /\ LifeInv' /\ (PastShipping => PastShipping')
      /\ \E at \in {"took", "reverted"} :
            /\ calls' = [calls EXCEPT ![k].at = at]
            /\ calls[k].do = "ship" /\ at = "took" => PastShipping'
  <2>1. CASE calls[k].do = "early"
    <3>1. UNCHANGED lifecycleVars
          /\ \E at \in {"took", "reverted"} : calls' = [calls EXCEPT ![k].at = at]
      BY <2>1 DEF Mine
    <3>2. QED
      BY <2>1, <3>1, LifeUnchanged DEF DeskInv
  <2>2. CASE calls[k].do # "early" /\ Accepts(calls[k].do, calls[k].target)
    <3>1. Effect(calls[k].do, calls[k].target) /\ calls' = [calls EXCEPT ![k].at = "took"]
      BY <2>2 DEF Mine
    <3>2. LifeInv' /\ (PastShipping => PastShipping')
      <4>1. CASE calls[k].do = "confirm"
        BY <3>1, <4>1, ConfirmLife, DeskAssumption DEF Effect, DeskInv
      <4>2. CASE calls[k].do = "claim"
        BY <3>1, <4>2, AutoRefundLife, DeskAssumption DEF Effect, DeskInv
      <4>3. CASE calls[k].do = "dispute"
        BY <3>1, <4>3, DisputeLife DEF Effect, DeskInv
      <4>4. CASE calls[k].do = "ship"
        BY <3>1, <4>4, ShipLife, DeskAssumption DEF Effect, DeskInv
      <4>5. QED
        BY <1>2, <2>2, <4>1, <4>2, <4>3, <4>4 DEF Buttons, Dialogs
    <3>3. calls[k].do = "ship" => PastShipping'
      <4>1. ASSUME calls[k].do = "ship" PROVE orderStatus'[order] = "AllShipped"
        BY <3>1, <4>1 DEF Effect
      <4>2. QED
        BY <4>1 DEF PastShipping, Shippable
    <3>4. QED
      BY <3>1, <3>2, <3>3
  <2>3. CASE calls[k].do # "early" /\ ~Accepts(calls[k].do, calls[k].target)
    <3>1. UNCHANGED lifecycleVars /\ calls' = [calls EXCEPT ![k].at = "reverted"]
      BY <2>3 DEF Mine
    <3>2. QED
      BY <3>1, LifeUnchanged DEF DeskInv
  <2>4. QED
    BY <2>1, <2>2, <2>3
<1>4. PICK at \in {"took", "reverted"} :
          /\ calls' = [calls EXCEPT ![k].at = at]
          /\ calls[k].do = "ship" /\ at = "took" => PastShipping'
  BY <1>3
<1>5. CallsInv' /\ \A l \in Slots : calls'[l].do = calls[l].do
  <2>1. CallsInv /\ at \in {"resolving", "asked", "pool", "took", "reverted"}
    BY DEF DeskInv
  <2>2. QED
    BY ONLY <1>2, <1>3, <1>4, <2>1, k \in Slots, MarkedCall
<1>6. DialogInv'
  BY <1>1, <1>5 DEF DeskInv, DialogInv, Slots
<1>7. PageInv'
  BY <1>1, <1>3 DEF DeskInv, PageInv
<1>8. QED
  BY <1>3, <1>5, <1>6, <1>7 DEF DeskInv
-------------------------------------------------------------------------------
(***************************************************************************)
(* The buyer's page.                                                       *)
(***************************************************************************)
\* A step of the buyer's page: the chain, the desk and the seller's tab are as they were.
LEMMA BuyerStep ==
  ASSUME DeskInv, desk = "buyer", UNCHANGED <<lifecycleVars, desk, sellerVars>>,
         CallsInv', wallet' \in {"connecting", "failed", "on"}, loaded' \in BOOLEAN,
         loaded' => wallet' = "on", phase' \in [Buttons -> Phases]
  PROVE  DeskInv'
<1>1. LifeInv' /\ (PastShipping => PastShipping')
  BY LifeUnchanged DEF DeskInv
<1>2. dialog = NoDialog /\ dialog' = dialog /\ syncing' = syncing
  BY DEF DeskInv, PageInv, sellerVars
<1>3. DialogInv'
  BY <1>2 DEF DeskInv, DialogInv, NoDialog
<1>4. PageInv'
  BY <1>1, <1>2 DEF DeskInv, PageInv
<1>5. QED
  BY <1>1, <1>3, <1>4 DEF DeskInv

LEMMA SameCalls ==
  ASSUME DeskInv, UNCHANGED <<lifecycleVars, calls>>
  PROVE  CallsInv'
BY LifeUnchanged DEF DeskInv, CallsInv, Slots, Call

LEMMA UnmountDesk ==
  ASSUME DeskInv, UNCHANGED lifecycleVars, Unmount
  PROVE  CallsInv' /\ phase' \in [Buttons -> Phases]
<1>1. \A b \in Buttons : phase'[b] \in {phase[b], "idle"}
  BY DEF Unmount
<1>2. phase' \in [Buttons -> Phases]
  BY DEF Unmount, DeskInv, PageInv, Phases
<1>3. /\ calls' = [l \in Slots |-> calls'[l]]
      /\ \A l \in Slots : calls'[l] \in {calls[l], NoCall}
  BY DEF Unmount
<1>4. PastShipping => PastShipping'
  BY LifeUnchanged DEF DeskInv
<1>5. QED
  BY <1>2, <1>3, <1>4, DroppedCall DEF DeskInv

LEMMA PageDesk ==
  ASSUME DeskInv, \/ RetryConnect \/ OpenPage \/ PollPage \/ RefetchPage \/ CloseDispute
                  \/ \E w \in {"on", "failed"} : Connect(w)
  PROVE  DeskInv'
<1>1. desk = "buyer" /\ UNCHANGED <<lifecycleVars, desk, sellerVars>>
  BY DEF RetryConnect, OpenPage, PollPage, RefetchPage, CloseDispute, Connect
<1>2. UNCHANGED lifecycleVars
  BY <1>1
<1>3. CallsInv' /\ phase' \in [Buttons -> Phases]
  <2>1. CASE PollPage \/ RefetchPage
    BY <1>2, <2>1, UnmountDesk DEF PollPage, RefetchPage
  <2>2. CASE CloseDispute
    BY <1>2, <2>2, SameCalls DEF CloseDispute, DeskInv, PageInv, Phases
  <2>3. CASE RetryConnect \/ OpenPage \/ \E w \in {"on", "failed"} : Connect(w)
    BY <1>2, <2>3, SameCalls DEF RetryConnect, OpenPage, Connect, DeskInv, PageInv
  <2>4. QED
    BY <2>1, <2>2, <2>3
<1>4. /\ wallet' \in {"connecting", "failed", "on"} /\ loaded' \in BOOLEAN
      /\ loaded' => wallet' = "on"
  <2>1. /\ wallet \in {"connecting", "failed", "on"} /\ loaded \in BOOLEAN
        /\ loaded => wallet = "on"
    BY DEF DeskInv, PageInv
  <2>2. ASSUME loaded' = loaded, wallet' = wallet
        PROVE  /\ wallet' \in {"connecting", "failed", "on"} /\ loaded' \in BOOLEAN
               /\ loaded' => wallet' = "on"
    BY ONLY <2>1, <2>2
  <2>3. ASSUME loaded' = TRUE, wallet' = "on"
        PROVE  /\ wallet' \in {"connecting", "failed", "on"} /\ loaded' \in BOOLEAN
               /\ loaded' => wallet' = "on"
    BY ONLY <2>3
  <2>4. ASSUME loaded' = loaded, wallet # "on", wallet' \in {"connecting", "failed", "on"}
        PROVE  /\ wallet' \in {"connecting", "failed", "on"} /\ loaded' \in BOOLEAN
               /\ loaded' => wallet' = "on"
    BY ONLY <2>1, <2>4
  <2>5. CASE PollPage \/ RefetchPage \/ CloseDispute
    BY <2>2, <2>5 DEF PollPage, RefetchPage, CloseDispute
  <2>6. CASE OpenPage
    BY <2>3, <2>6 DEF OpenPage
  <2>7. CASE RetryConnect
    BY <2>4, <2>7 DEF RetryConnect
  <2>8. CASE \E w \in {"on", "failed"} : Connect(w)
    BY <2>4, <2>8 DEF Connect
  <2>9. QED
    BY <2>5, <2>6, <2>7, <2>8
<1>5. QED
  BY <1>1, <1>3, <1>4, BuyerStep

LEMMA TargetsAreItems ==
  ASSUME NEW b \in Buttons, NEW row, Targets(b, row) # {}
  PROVE  /\ Target(b, row) \in Targets(b, row)
         /\ Target(b, row) \in Items \cup {order}
<1>1. CASE b = "claim"
  BY <1>1 DEF Target, Targets
<1>2. CASE b # "claim"
  <2>1. Targets(b, row) \subseteq ItemsIn(order)
    BY <1>2 DEF Targets, Buttons, Confirmable, Disputable, HasItem
  <2>2. QED
    BY <1>2, <2>1, FirstOfIsIn DEF Target, ItemsIn
<1>3. QED
  BY <1>1, <1>2

LEMMA PressDesk ==
  ASSUME DeskInv, NEW b \in Buttons, Press(b)
  PROVE  DeskInv'
<1>1. /\ desk = "buyer" /\ UNCHANGED <<lifecycleVars, desk, wallet, loaded, sellerVars>>
      /\ Targets(b, mirror) # {} /\ Ask(b, Target(b, mirror))
  BY DEF Press, Offered
<1>2. phase' \in [Buttons -> Phases]
  <2>1. CASE b = "dispute"
    BY <2>1 DEF Press, DeskInv, PageInv, Phases
  <2>2. CASE b # "dispute"
    BY <2>2 DEF Press, DeskInv, PageInv, Phases
  <2>3. QED
    BY <2>1, <2>2
<1>3. CallsInv'
  <2>1. PastShipping => PastShipping'
    BY <1>1, LifeUnchanged DEF DeskInv
  <2>2. PICK t \in Items \cup {order} : t = Target(b, mirror)
    BY <1>1, TargetsAreItems
  <2>3. Ask(b, t)
    BY <1>1, <2>2
  <2>4. QED
    BY <2>1, <2>3, AskedCall DEF DeskInv
<1>4. QED
  BY <1>1, <1>2, <1>3, BuyerStep DEF DeskInv, PageInv

\* A step of run(): the call moves on, or it ends.
LEMMA ProgressDesk ==
  ASSUME DeskInv, NEW k \in Slots, NEW from \in {"resolving", "asked", "pool"}, NEW c,
         NEW p \in Phases, Progress(k, from, c, p),
         \/ c = NoCall
         \/ \E at \in {"asked", "pool"} : c = [calls[k] EXCEPT !.at = at]
  PROVE  DeskInv'
<1>1. /\ desk = "buyer" /\ UNCHANGED <<lifecycleVars, desk, wallet, loaded, sellerVars>>
      /\ calls[k].at = from /\ calls' = [calls EXCEPT ![k] = c]
      /\ phase' = [phase EXCEPT ![calls[k].do] = p]
  BY DEF Progress
<1>2. phase' \in [Buttons -> Phases]
  BY <1>1 DEF DeskInv, PageInv
<1>3. PastShipping => PastShipping'
  BY <1>1, LifeUnchanged DEF DeskInv
<1>4. CallsInv'
  <2>1. CASE c = NoCall
    <3>1. /\ calls' = [l \in Slots |-> calls'[l]]
          /\ \A l \in Slots : calls'[l] \in {calls[l], NoCall}
      BY <1>1, <2>1 DEF DeskInv, CallsInv
    <3>2. QED
      BY <1>3, <3>1, DroppedCall DEF DeskInv
  <2>2. CASE \E at \in {"asked", "pool"} : c = [calls[k] EXCEPT !.at = at]
    <3>1. PICK at \in {"asked", "pool"} : c = [calls[k] EXCEPT !.at = at]
      BY <2>2
    <3>2. calls' = [calls EXCEPT ![k].at = at]
      BY <1>1, <3>1 DEF DeskInv, CallsInv
    <3>3. calls[k].do # "none"
      BY <1>1 DEF DeskInv, CallsInv
    <3>4. CallsInv /\ at \in {"resolving", "asked", "pool", "took", "reverted"} /\ at # "took"
      BY DEF DeskInv
    <3>5. QED
      BY ONLY <1>3, <3>2, <3>3, <3>4, k \in Slots, MarkedCall
  <2>3. QED
    BY <2>1, <2>2
<1>5. QED
  BY <1>1, <1>2, <1>4, BuyerStep DEF DeskInv, PageInv

LEMMA ReceiptDesk ==
  ASSUME DeskInv, NEW k \in Slots, Receipt(k)
  PROVE  DeskInv'
<1>1. desk = "buyer" /\ UNCHANGED <<lifecycleVars, desk, wallet, loaded, sellerVars>>
  BY DEF Receipt
<1>2. phase' \in [Buttons -> Phases]
  <2>1. \A b \in Buttons : (IF ~Mounted(b) THEN "idle"
                              ELSE IF b = calls[k].do THEN Success(k) ELSE phase[b]) \in Phases
    BY DEF DeskInv, PageInv, Phases, Success
  <2>2. QED
    BY <2>1 DEF Receipt
<1>3. CallsInv'
  <2>1. /\ calls' = [l \in Slots |-> calls'[l]]
        /\ \A l \in Slots : calls'[l] \in {calls[l], NoCall}
    BY DEF Receipt
  <2>2. PastShipping => PastShipping'
    BY <1>1, LifeUnchanged DEF DeskInv
  <2>3. QED
    BY <2>1, <2>2, DroppedCall DEF DeskInv
<1>4. QED
  BY <1>1, <1>2, <1>3, BuyerStep DEF DeskInv, PageInv

LEMMA BuyerCallDesk ==
  ASSUME DeskInv, NEW k \in Slots,
         Resolved(k) \/ Sent(k) \/ Refused(k) \/ Receipt(k) \/ ReceiptTimeout(k)
  PROVE  DeskInv'
<1>1. CASE Receipt(k)
  BY <1>1, ReceiptDesk
<1>2. CASE Resolved(k)
  BY <1>2, ProgressDesk DEF Resolved, Phases
<1>3. CASE Sent(k)
  BY <1>3, ProgressDesk DEF Sent, Phases
<1>4. CASE Refused(k)
  BY <1>4, ProgressDesk DEF Refused, Phases
<1>5. CASE ReceiptTimeout(k)
  BY <1>5, ProgressDesk DEF ReceiptTimeout, Phases
<1>6. QED
  BY <1>1, <1>2, <1>3, <1>4, <1>5
-------------------------------------------------------------------------------
(***************************************************************************)
(* The seller's tab.                                                       *)
(***************************************************************************)
\* A step of the seller's tab: the chain, the desk and the buyer's page are as they were.
LEMMA SellerStep ==
  ASSUME DeskInv, desk = "seller" \/ dialog # NoDialog,
         UNCHANGED <<lifecycleVars, desk, buyerVars>>,
         CallsInv', DialogInv', syncing' => PastShipping
  PROVE  DeskInv'
<1>1. LifeInv' /\ (PastShipping => PastShipping')
  BY LifeUnchanged DEF DeskInv
<1>2. desk = "seller" /\ desk' = desk
  BY DEF DeskInv, PageInv
<1>3. PageInv'
  BY <1>1, <1>2 DEF DeskInv, PageInv, buyerVars
<1>4. QED
  BY <1>1, <1>3 DEF DeskInv

LEMMA TabDesk ==
  ASSUME DeskInv, FetchList \/ CloseDialog \/ \E kind \in Dialogs : OpenDialog(kind)
  PROVE  DeskInv'
<1>1. /\ desk = "seller" \/ dialog # NoDialog
      /\ UNCHANGED <<lifecycleVars, calls>> /\ UNCHANGED <<lifecycleVars, desk, buyerVars>>
  BY DEF FetchList, CloseDialog, OpenDialog
<1>2. CallsInv'
  BY <1>1, SameCalls
<1>3. DialogInv'
  <2>1. CASE FetchList
    BY <1>1, <2>1 DEF FetchList, DeskInv, DialogInv
  <2>2. CASE CloseDialog
    BY <2>2 DEF CloseDialog, DialogInv, NoDialog, Dialog
  <2>3. CASE \E kind \in Dialogs : OpenDialog(kind)
    BY <2>3 DEF OpenDialog, DialogInv, Dialog
  <2>4. QED
    BY <2>1, <2>2, <2>3
<1>4. syncing' => PastShipping
  <2>1. syncing => PastShipping
    BY DEF DeskInv, PageInv
  <2>2. syncing' => syncing
    BY DEF FetchList, CloseDialog, OpenDialog, StillSyncing
  <2>3. QED
    BY <2>1, <2>2
<1>5. QED
  BY <1>1, <1>2, <1>3, <1>4, SellerStep

LEMMA ConfirmDialogDesk ==
  ASSUME DeskInv, ConfirmDialog
  PROVE  DeskInv'
<1>1. /\ dialog.at = "ready" /\ Ask(dialog.kind, order)
      /\ UNCHANGED <<lifecycleVars, desk, buyerVars>> /\ syncing' = syncing
  BY DEF ConfirmDialog
<1>2. PICK d \in Dialog : d = dialog
  BY DEF DeskInv, DialogInv
<1>3. d.kind \in Dialogs /\ dialog # NoDialog
  BY <1>1, <1>2 DEF DeskInv, DialogInv, NoDialog
<1>4. PastShipping => PastShipping'
  BY <1>1, LifeUnchanged DEF DeskInv
<1> DEFINE k == Min({l \in Slots : calls[l] = NoCall})
<1>5. Ask(d.kind, order)
  BY <1>1, <1>2
<1>6. k \in Slots /\ CallsInv' /\ calls'[k].do = d.kind
  BY <1>3, <1>4, <1>5, AskedCall DEF DeskInv
<1>7. dialog' = [dialog EXCEPT !.at = "busy", !.call = k]
  BY DEF ConfirmDialog
<1> HIDE DEF k
<1>8. dialog' = [kind |-> d.kind, at |-> "busy", call |-> k]
  BY <1>2, <1>7 DEF Dialog
<1>9. k \in Nat
  BY <1>6, DeskAssumption DEF Slots
<1>10. DialogInv'
  <2>1. dialog' \in Dialog
    BY <1>3, <1>8, <1>9 DEF Dialog
  <2>2. /\ dialog'.at = "busy" => dialog'.call \in Slots /\ calls'[dialog'.call].do = dialog'.kind
        /\ dialog'.kind \in Dialogs /\ dialog'.at = "busy"
    BY <1>3, <1>6, <1>8
  <2>3. Slots' = Slots /\ Dialogs' = Dialogs /\ Dialog' = Dialog
    BY DEF Slots, Dialogs, Dialog
  <2>4. QED
    BY ONLY <2>1, <2>2, <2>3 DEF DialogInv
<1>11. syncing' => PastShipping
  BY <1>1 DEF DeskInv, PageInv
<1>12. QED
  BY <1>1, <1>3, <1>6, <1>10, <1>11, SellerStep

\* The dialog that waited for a call is ready again.
LEMMA IdleDialog ==
  ASSUME DeskInv, NEW k \in Slots, dialog' = Idle(k), calls' = [calls EXCEPT ![k] = NoCall]
  PROVE  DialogInv'
<1>1. PICK d \in Dialog : d = dialog
  BY DEF DeskInv, DialogInv
<1>2. Slots' = Slots /\ Dialogs' = Dialogs /\ Dialog' = Dialog /\ NoDialog' = NoDialog
  BY DEF Slots, Dialogs, Dialog, NoDialog
<1>3. CASE dialog.call = k
  <2>1. dialog # NoDialog
    BY <1>3, DeskAssumption DEF NoDialog, Slots
  <2>2. d.kind \in Dialogs
    BY <1>1, <2>1 DEF DeskInv, DialogInv
  <2>3. dialog' = [kind |-> d.kind, at |-> "ready", call |-> 0]
    BY <1>1, <1>3 DEF Idle, Dialog
  <2>4. dialog' \in Dialog /\ dialog'.at = "ready" /\ dialog'.kind \in Dialogs
    BY <2>2, <2>3 DEF Dialog
  <2>5. QED
    BY ONLY <1>2, <2>4 DEF DialogInv
<1>4. CASE dialog.call # k
  <2>1. dialog' = dialog
    BY <1>4 DEF Idle
  <2>2. \A l \in Slots : l # k => calls'[l] = calls[l]
    BY DEF DeskInv, CallsInv
  <2>3. dialog.at = "busy" => dialog.call \in Slots /\ calls'[dialog.call].do = dialog.kind
    BY <1>4, <2>2 DEF DeskInv, DialogInv
  <2>4. dialog \in Dialog /\ (dialog # NoDialog => dialog.at # "closed" /\ dialog.kind \in Dialogs)
    BY DEF DeskInv, DialogInv
  <2>5. QED
    BY ONLY <1>2, <2>1, <2>3, <2>4 DEF DialogInv
<1>5. QED
  BY <1>3, <1>4

LEMMA SellerDropsCall ==
  ASSUME DeskInv, UNCHANGED lifecycleVars, NEW k \in Slots, calls' = [calls EXCEPT ![k] = NoCall]
  PROVE  CallsInv'
<1>1. /\ calls' = [l \in Slots |-> calls'[l]]
      /\ \A l \in Slots : calls'[l] \in {calls[l], NoCall}
  BY DEF DeskInv, CallsInv
<1>2. PastShipping => PastShipping'
  BY LifeUnchanged DEF DeskInv
<1>3. QED
  BY <1>1, <1>2, DroppedCall DEF DeskInv

LEMMA SellerSignsDesk ==
  ASSUME DeskInv, NEW k \in Slots, SellerSigns(k)
  PROVE  DeskInv'
<1>1. /\ desk = "seller" /\ calls[k].at = "resolving" /\ calls' = [calls EXCEPT ![k].at = "pool"]
      /\ UNCHANGED <<lifecycleVars, desk, buyerVars>> /\ syncing' = syncing /\ dialog' = dialog
  BY DEF SellerSigns, sellerVars
<1>2. PastShipping => PastShipping'
  BY <1>1, LifeUnchanged DEF DeskInv
<1>3. calls[k].do # "none" /\ CallsInv
  BY <1>1 DEF DeskInv, CallsInv
<1>4. "pool" \in {"resolving", "asked", "pool", "took", "reverted"} /\ "pool" # "took"
  OBVIOUS
<1>5. CallsInv' /\ \A l \in Slots : calls'[l].do = calls[l].do
  BY ONLY <1>1, <1>2, <1>3, <1>4, k \in Slots, MarkedCall
<1>6. DialogInv'
  BY <1>1, <1>5 DEF DeskInv, DialogInv, Slots
<1>7. syncing' => PastShipping
  BY <1>1 DEF DeskInv, PageInv
<1>8. QED
  BY <1>1, <1>5, <1>6, <1>7, SellerStep

LEMMA SellerEndsDesk ==
  ASSUME DeskInv, NEW k \in Slots, SellerGivesUp(k) \/ SellerReceipt(k)
  PROVE  DeskInv'
<1>1. /\ desk = "seller" /\ calls' = [calls EXCEPT ![k] = NoCall]
      /\ UNCHANGED <<lifecycleVars, desk, buyerVars>>
  BY DEF SellerGivesUp, SellerReceipt
<1>2. CallsInv'
  BY <1>1, SellerDropsCall
<1>3. syncing => PastShipping
  BY DEF DeskInv, PageInv
<1>4. CASE dialog' = Idle(k) /\ syncing' = syncing
  BY <1>1, <1>2, <1>3, <1>4, IdleDialog, SellerStep
<1>5. CASE SellerReceipt(k) /\ DialogSucceeds(k)
  <2>1. /\ dialog' = IF dialog.kind = calls[k].do THEN NoDialog ELSE dialog
        /\ syncing' => syncing \/ calls[k].do = "ship"
    BY <1>5 DEF SellerReceipt, StillSyncing
  <2>2. syncing' => PastShipping
    BY <1>3, <1>5, <2>1 DEF DialogSucceeds, DeskInv, CallsInv
  <2>3. NoDialog \in Dialog /\ NoDialog.at = "closed"
    BY DEF NoDialog, Dialog
  <2>4. Slots' = Slots /\ Dialogs' = Dialogs /\ Dialog' = Dialog /\ NoDialog' = NoDialog
    BY DEF Slots, Dialogs, Dialog, NoDialog
  <2>5. \A l \in Slots : l # k => calls'[l] = calls[l]
    BY <1>1 DEF DeskInv, CallsInv
  <2>6. DialogInv'
    <3>1. CASE dialog.kind = calls[k].do
      <4>1. dialog' = NoDialog
        BY <2>1, <3>1
      <4>2. QED
        BY ONLY <2>3, <2>4, <4>1 DEF DialogInv
    <3>2. CASE dialog.kind # calls[k].do
      <4>1. dialog' = dialog
        BY <2>1, <3>2
      <4>2. dialog.at = "busy" => dialog.call # k
        BY <3>2 DEF DeskInv, DialogInv
      <4>3. QED
        BY <2>4, <2>5, <4>1, <4>2 DEF DeskInv, DialogInv
    <3>3. QED
      BY <3>1, <3>2
  <2>7. QED
    BY <1>1, <1>2, <2>2, <2>6, SellerStep
<1>6. QED
  BY <1>4, <1>5 DEF SellerGivesUp, SellerReceipt
-------------------------------------------------------------------------------
(***************************************************************************)
(* Every step.                                                             *)
(***************************************************************************)
LEMMA DeskStep ==
  ASSUME DeskInv, [Next]_vars
  PROVE  DeskInv'
<1>1. CASE Others
  <2>1. LifeInv' /\ (PastShipping => PastShipping')
    BY <1>1, LifeStep DEF Others, DeskInv
  <2>2. QED
    BY <1>1, <2>1, DeskUnchanged DEF Others, buyerVars, sellerVars
<1>2. CASE Pause
  <2>1. /\ UNCHANGED lifecycleVars
        /\ UNCHANGED <<desk, calls, wallet, loaded, phase, syncing, dialog>>
    BY <1>2 DEF Pause, buyerVars, sellerVars
  <2>2. LifeInv' /\ (PastShipping => PastShipping')
    BY <2>1, LifeUnchanged DEF DeskInv
  <2>3. QED
    BY <2>1, <2>2, DeskUnchanged
<1>3. CASE \/ RetryConnect \/ OpenPage \/ PollPage \/ RefetchPage \/ CloseDispute
           \/ \E w \in {"on", "failed"} : Connect(w)
  BY <1>3, PageDesk
<1>4. ASSUME NEW b \in Buttons, Press(b) PROVE DeskInv'
  BY <1>4, PressDesk
<1>5. CASE FetchList \/ CloseDialog \/ \E kind \in Dialogs : OpenDialog(kind)
  BY <1>5, TabDesk
<1>6. CASE ConfirmDialog
  BY <1>6, ConfirmDialogDesk
<1>7. ASSUME NEW k \in Slots,
             \/ Mine(k) \/ Resolved(k) \/ Sent(k) \/ Refused(k) \/ Receipt(k)
             \/ ReceiptTimeout(k) \/ SellerSigns(k) \/ SellerGivesUp(k) \/ SellerReceipt(k)
      PROVE  DeskInv'
  BY <1>7, MineDesk, BuyerCallDesk, SellerSignsDesk, SellerEndsDesk
<1>8. CASE UNCHANGED vars
  <2>1. /\ UNCHANGED lifecycleVars
        /\ UNCHANGED <<desk, calls, wallet, loaded, phase, syncing, dialog>>
    BY <1>8 DEF vars, buyerVars, sellerVars
  <2>2. LifeInv' /\ (PastShipping => PastShipping')
    BY <2>1, LifeUnchanged DEF DeskInv
  <2>3. QED
    BY <2>1, <2>2, DeskUnchanged
<1>9. QED
  BY <1>1, <1>2, <1>3, <1>4, <1>5, <1>6, <1>7, <1>8 DEF Next

\* The statuses of the order and of its items agree on the chain, every transaction under
\* way is of a button or dialog of the desk, and the note of a shipment follows one that
\* succeeded.
THEOREM DeskInvariant == Spec => []DeskInv
<1>1. QED
  BY InitDesk, DeskStep, PTL DEF Spec

\* An up-to-date page offers a button exactly when the contract would take its call, a pause
\* apart.
LEMMA OffersHold ==
  ASSUME DeskInv
  PROVE  OffersAreTakeable
<1> SUFFICES ASSUME desk = "buyer", loaded, Fresh, NEW b \in Buttons
             PROVE  IF Offered(b, mirror) THEN Gated(b) \/ Accepts(b, Target(b, mirror))
                    ELSE \A t \in IF b = "claim" THEN {order} ELSE ItemsIn(order) : ~Accepts(b, t)
  BY DEF OffersAreTakeable
<1>1. /\ mirror.status = orderStatus[order]
      /\ \A i \in ItemsIn(order) : mirror.item[i] = itemStatus[i]
  BY DEF Fresh, Snapshot
<1>2. Offered(b, mirror) <=> Targets(b, mirror) # {}
  BY DEF Offered, Surface, DeskInv, PageInv
<1>3. order \in Orders /\ \A i \in ItemsIn(order) : i \in Items /\ OrderOf[i] = order
  BY DeskAssumption DEF ItemsIn
<1>4. CASE b = "claim"
  <2>1. Accepts("claim", order) <=> ~Gated("claim") /\ Claimable(mirror)
    BY <1>1 DEF Accepts, Claimable, HasItem
  <2>2. Targets(b, mirror) = IF Claimable(mirror) THEN {order} ELSE {}
    BY <1>4 DEF Targets
  <2>3. Target(b, mirror) = order
    BY <1>4 DEF Target
  <2>4. QED
    BY <1>2, <1>4, <2>1, <2>2, <2>3
<1>5. CASE b # "claim"
  <2>1. \A t \in ItemsIn(order) : Accepts(b, t) <=> ~Gated(b) /\ t \in Targets(b, mirror)
    <3> SUFFICES ASSUME NEW t \in ItemsIn(order)
                 PROVE  Accepts(b, t) <=> ~Gated(b) /\ t \in Targets(b, mirror)
      OBVIOUS
    <3>1. /\ itemStatus[t] \in ItemStatuses
          /\ Funded(order) <=> orderStatus[order] \notin Unpaid
          /\ orderStatus[order] \in Unpaid => itemStatus[t] = "Pending"
          /\ orderStatus[order] \in {"Completed", "Refunded"} => itemStatus[t] \in Done
      BY <1>3 DEF DeskInv, LifeInv
    <3>2. CASE b = "confirm"
      <4>1. Accepts(b, t) <=> ~Gated(b) /\ itemStatus[t] = "Shipped"
        BY <3>2 DEF Accepts
      <4>2. t \in Targets(b, mirror) <=>
                orderStatus[order] \notin Terminal /\ itemStatus[t] \in {"Shipped", "Arrived"}
        BY <1>1, <3>2 DEF Targets, Confirmable, HasItem
      <4>3. QED
        BY <3>1, <4>1, <4>2 DEF Terminal, ItemStatuses, Done, Unpaid
    <3>3. CASE b = "dispute"
      <4>1. Accepts(b, t) <=> /\ ~Gated(b)
                              /\ Funded(order) /\ itemStatus[t] \notin Done \cup {"Disputed"}
        BY <3>3 DEF Accepts
      <4>2. t \in Targets(b, mirror) <=>
                /\ orderStatus[order] \notin Terminal \cup {"None", "Created"}
                /\ itemStatus[t] \in {"Pending", "Shipped", "Arrived", "Delivered"}
        BY <1>1, <3>3 DEF Targets, Disputable, HasItem
      <4>3. QED
        BY <3>1, <4>1, <4>2 DEF Terminal, ItemStatuses, Done, Unpaid
    <3>4. QED
      BY <1>5, <3>2, <3>3 DEF Buttons
  <2>2. Targets(b, mirror) \subseteq ItemsIn(order)
    BY <1>5 DEF Targets, Buttons, Confirmable, Disputable, HasItem
  <2>3. QED
    BY <1>2, <1>5, <2>1, <2>2, TargetsAreItems
<1>6. QED
  BY <1>4, <1>5

\* An up-to-date list offers to ship whenever the contract would take it, and what it offers
\* reverts in a pause or when an item has been touched already, and not otherwise.
LEMMA ShippingHolds ==
  ASSUME DeskInv
  PROVE  ShippingIsTakeable
<1> SUFFICES ASSUME desk = "seller", shown, Fresh
             PROVE  /\ Accepts("ship", order) => CanShip
                    /\ CanShip => \/ Gated("ship") \/ Accepts("ship", order)
                                  \/ \E i \in ItemsIn(order) : mirror.item[i] # "Pending"
  BY DEF ShippingIsTakeable
<1>1. /\ mirror.status = orderStatus[order]
      /\ \A i \in ItemsIn(order) : mirror.item[i] = itemStatus[i]
  BY DEF Fresh, Snapshot
<1>2. Accepts("ship", order) <=> /\ ~Gated("ship") /\ orderStatus[order] \in Shippable
                                 /\ \A i \in ItemsIn(order) : itemStatus[i] = "Pending"
  BY DEF Accepts, Shippable
<1>3. orderStatus[order] \in Shippable => ~syncing
  BY DEF DeskInv, PageInv, PastShipping
<1>4. CanShip <=> orderStatus[order] \in Shippable
  BY <1>1, <1>3 DEF CanShip, Present, Shippable
<1>5. QED
  BY <1>1, <1>2, <1>4

\* What an up-to-date screen offers, the contract takes, but for a pause and for the shipment
\* of an order of which an item was shipped or disputed; what the contract takes, the screen
\* offers; and a list that shows a paid order warns of the refund anyone may trigger.
THEOREM OffersTheorem == Spec => []OffersMatchContract
<1>1. DeskInv => OffersMatchContract
  <2>1. ASSUME DeskInv PROVE TypeOK
    BY <2>1 DEF DeskInv, CallsInv, DialogInv, PageInv, TypeOK, Call, Dialog, Phases
  <2>2. ASSUME DeskInv PROVE NoSilentRefund
    BY <2>2 DEF NoSilentRefund, Fresh, Snapshot, Accepts, Deadline, Present, Shippable
  <2>3. QED
    BY <2>1, <2>2, OffersHold, ShippingHolds DEF OffersMatchContract
<1>2. QED
  BY <1>1, DeskInvariant, PTL

\* "Shipped - syncing on-chain" is only said of an order that has been shipped, or that
\* was settled in some other way since.
THEOREM ShippedNoteTheorem == Spec => []ShippedNoteIsTrue
<1>1. DeskInv => ShippedNoteIsTrue
  BY DEF DeskInv, PageInv, ShippedNoteIsTrue, PastShipping
<1>2. QED
  BY <1>1, DeskInvariant, PTL
===============================================================================
