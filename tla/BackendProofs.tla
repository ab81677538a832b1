----------------------------- MODULE BackendProofs -----------------------------
(***************************************************************************)
(* Proofs about the two workers of the backend, each for itself.           *)
(* Indexer, for any number of orders, items, blocks and faults: no event   *)
(* is lost in silence, a mirror that has seen every event of an order      *)
(* agrees with the chain, and no row of a dispute is dropped.  Keepers,    *)
(* for any number of orders, items, replacements and faults: the nonces of *)
(* the account that the two keepers share.                                 *)
(***************************************************************************)
EXTENDS Indexer, Keepers, SequenceTheorems, FiniteSetTheorems, WellFoundedInduction, TLAPS

(***************************************************************************)
(* The chain and its log.                                                  *)
(***************************************************************************)
OrderStatuses == {"None", "Created", "Funded", "PartiallyShipped", "AllShipped",
                  "PartiallyDelivered", "Completed", "Refunded", "Cancelled"}
ItemStatuses  == {"Pending", "Shipped", "Disputed", "Released", "Refunded"}
Contracts     == {"EtaloEscrow", "EtaloDispute"}
EventNames    == Handled \cup {"OrderCancelled", "ForceRefundExecuted"}

LogEvent == [contract : Contracts, name : EventNames, order : Orders, items : SUBSET Items,
             full : BOOLEAN, block : Nat]

\* The events that say nothing of the status of the order, or leave it Created or Funded.
Quiet == {"OrderCreated", "OrderFunded", "ItemDisputed", "DisputeOpened"}

\* The events whose handler reads the status from the chain.
Syncing == {"ShipmentGroupCreated", "ItemReleased", "ItemDisputeResolved"}

\* The event changes the status of the item, to its outcome.
Touches(ev, i) ==
    IF ev.name \in {"AutoRefundInactive", "ForceRefundExecuted"} THEN OrderOf[i] = ev.order
    ELSE ev.name \in {"OrderCreated", "ItemDisputed"} \cup Syncing /\ i \in ev.items

Outcome(ev) ==
    CASE ev.name = "OrderCreated"         -> "Pending"
      [] ev.name = "ShipmentGroupCreated" -> "Shipped"
      [] ev.name = "ItemDisputed"         -> "Disputed"
      [] ev.name = "ItemReleased"         -> "Released"
      [] ev.name = "ItemDisputeResolved"  -> IF ev.full THEN "Refunded" ELSE "Released"
      [] OTHER                            -> "Refunded"

\* The event is about the status of the order, and may set it by its name.
Moves(ev, o) == ev.order = o /\ ev.name \notin {"ItemDisputed", "DisputeOpened"}

StatusBy(name) ==
    CASE name = "OrderCreated"   -> "Created"
      [] name = "OrderFunded"    -> "Funded"
      [] name = "OrderCompleted" -> "Completed"
      [] OTHER                   -> "Refunded"

LifecycleTypeOK ==
    /\ orderStatus \in [Orders -> OrderStatuses]
    /\ itemStatus \in [Items -> ItemStatuses]
    /\ releaseTimer \in [Items -> Timer]
    /\ refundTimer \in [Orders -> Timer]

\* An order that is not funded yet is untouched.
Untouched ==
    \A o \in Orders : orderStatus[o] \in {"None", "Created"} =>
        /\ refundTimer[o] = "none"
        /\ \A i \in ItemsIn(o) : itemStatus[i] = "Pending" /\ releaseTimer[i] = "none"

LogTypeOK ==
    /\ head \in Nat
    /\ log \in Seq(LogEvent)
    /\ \A e \in EventIds :
          /\ log[e].block \in 1..head
          /\ log[e].contract = IF log[e].name = "DisputeOpened" THEN "EtaloDispute"
                               ELSE "EtaloEscrow"
          /\ log[e].items \subseteq ItemsIn(log[e].order)
          /\ log[e].name = "OrderCreated" => log[e].items = ItemsIn(log[e].order)

\* An order's first event is its creation, and it is created once.
BeginsWithCreation ==
    /\ \A o \in Orders : orderStatus[o] = "None" <=> \A e \in EventIds : log[e].order # o
    /\ \A e \in EventIds : \E c \in EventIds :
          /\ log[c].order = log[e].order /\ log[c].name = "OrderCreated"
          /\ \A f \in EventIds : log[f].order = log[e].order => c <= f
    /\ \A c, e \in EventIds :
          /\ log[c].name = "OrderCreated" /\ log[e].name = "OrderCreated"
          /\ log[c].order = log[e].order
          => c = e

\* Between the creation of an order and a dispute over one of its items is its funding.
DisputesComeLater ==
    /\ \A c \in EventIds :
          log[c].name = "OrderCreated" /\ refundTimer[log[c].order] # "none"
          => log[c].block < head
    /\ \A c, e \in EventIds :
          /\ log[c].name = "OrderCreated" /\ log[e].name = "DisputeOpened"
          /\ log[c].order = log[e].order
          => log[c].block + 2 <= log[e].block

\* An order is refunded for inactivity before anything is shipped or settled of it.
QuietWhileFunded ==
    /\ \A e \in EventIds :
          orderStatus[log[e].order] \in {"Created", "Funded"} => log[e].name \in Quiet
    /\ \A e, f \in EventIds :
          /\ log[f].name = "AutoRefundInactive" /\ log[e].order = log[f].order /\ e < f
          => log[e].name \in Quiet

\* The last event that touches an item tells its status, and the last one about an order
\* the order's.
LogTellsStatus ==
    /\ \A i \in Items : \A e \in EventIds :
          /\ Touches(log[e], i) /\ log[e].name # "ForceRefundExecuted"
          /\ \A f \in EventIds : Touches(log[f], i) => f <= e
          => itemStatus[i] = Outcome(log[e])
    /\ \A e \in EventIds :
          LET o == log[e].order
          IN  /\ Moves(log[e], o) /\ \A f \in EventIds : Moves(log[f], o) => f <= e
              /\ log[e].name \in {"OrderCreated", "OrderFunded", "OrderCompleted",
                                  "AutoRefundInactive"}
              => orderStatus[o] = StatusBy(log[e].name)

ChainInv ==
    /\ LifecycleTypeOK /\ Untouched /\ LogTypeOK /\ BeginsWithCreation
    /\ DisputesComeLater /\ QuietWhileFunded /\ LogTellsStatus
-------------------------------------------------------------------------------
(***************************************************************************)
(* The rows m of the mirror, of the session and of the database.           *)
(***************************************************************************)
Rows ==
    [order      : [Orders -> OrderStatuses \cup {"absent"}],
     item       : [Items -> ItemStatuses \cup {"absent"}],
     dispute    : [Items -> BOOLEAN],
     done       : SUBSET Nat,
     checkpoint : [DOMAIN Polled -> Nat]]

RowsTypeOK(m) ==
    /\ m \in Rows
    /\ m.done \subseteq HandledIds
    /\ \A k \in DOMAIN Polled : m.checkpoint[k] <= head

\* A created order has rows.
CreatedIsKnown(m) ==
    \A c \in m.done : log[c].name = "OrderCreated" =>
        /\ Known(m, log[c].order)
        /\ \A i \in ItemsIn(log[c].order) : m.item[i] # "absent"

\* The last processed event that touches an item tells the row of the item.
ItemsFollow(m) ==
    \A i \in Items : \A c, e \in m.done :
        /\ log[c].name = "OrderCreated" /\ log[c].order = OrderOf[i]
        /\ Touches(log[e], i) /\ \A f \in m.done : Touches(log[f], i) => f <= e
        => m.item[i] = Outcome(log[e])

\* An order whose events about its status are all processed has it.
OrdersFollow(m) ==
    \A o \in Orders :
        /\ \E c \in m.done : log[c].name = "OrderCreated" /\ log[c].order = o
        /\ \A e \in EventIds : Moves(log[e], o) => e \in m.done
        => m.order[o] = orderStatus[o]

\* A row only says Refunded once an event has said so.
RefundedByEvent(m) ==
    \A o \in Orders : m.order[o] = "Refunded" =>
        \E f \in m.done : /\ log[f].order = o
                          /\ log[f].name \in Syncing \cup {"AutoRefundInactive"}

DisputesHaveRows(m) ==
    \A e \in m.done : log[e].name = "DisputeOpened" =>
        \A i \in log[e].items : m.dispute[i]

\* What a lagging node hides of the blocks below the head is read again.
LagIsShort == MaxLag <= REORG_DEPTH

MirrorInv(m) ==
    /\ RowsTypeOK(m) /\ CreatedIsKnown(m) /\ RefundedByEvent(m)
    /\ late = {} => ItemsFollow(m) /\ OrdersFollow(m)
    /\ LagIsShort /\ MaxLag <= 2 /\ undone = {} /\ skipped = {} => DisputesHaveRows(m)
-------------------------------------------------------------------------------
(***************************************************************************)
(* The cycle.                                                              *)
(***************************************************************************)
Accounted(e, processed) == e \in processed \cup undone \cup skipped

\* What a node that lags has not seen by the end of the cycle is left to a later one.
Visible(e) == log[e].block + MaxLag <= poll.to

PollTypeOK ==
    /\ poll \in [contract : {0} \cup DOMAIN Polled, to : Nat, next : Nat, fetched : SUBSET Nat]
    /\ poll.to <= head
    /\ poll.fetched \subseteq HandledIds \ ses.done
    /\ Idle => poll.fetched = {}
    /\ \A e \in poll.fetched :
          log[e].contract = Polled[poll.contract] /\ log[e].block <= poll.to
    /\ db.done \subseteq ses.done /\ ses.checkpoint = db.checkpoint
    /\ undone \subseteq EventIds /\ skipped \subseteq EventIds
    /\ faults \in 0..MaxFaults

\* The blocks behind the checkpoint are accounted for.
BehindCheckpoint ==
    LagIsShort =>
        \A k \in DOMAIN Polled : \A e \in HandledIds :
            log[e].contract = Polled[k] /\ log[e].block + REORG_DEPTH <= db.checkpoint[k]
            => Accounted(e, db.done)

\* So are the blocks the open session has read,
BehindPoll ==
    LagIsShort /\ ~Idle => \A e \in HandledIds :
        /\ log[e].contract = Polled[poll.contract] /\ log[e].block < poll.next /\ Visible(e)
        => Accounted(e, ses.done \cup poll.fetched)

\* and all the escrow's while the dispute contract is polled.
EscrowRead ==
    LagIsShort /\ poll.contract = 2 => \A e \in HandledIds :
        log[e].contract = "EtaloEscrow" /\ Visible(e) => Accounted(e, db.done)

PollInv == PollTypeOK /\ BehindCheckpoint /\ BehindPoll /\ EscrowRead

IndexerInv == ChainInv /\ MirrorInv(ses) /\ MirrorInv(db) /\ PollInv
-------------------------------------------------------------------------------
(***************************************************************************)
(* Sets of naturals and sequences.                                         *)
(***************************************************************************)
LEMMA LessIsWellFounded == IsWellFoundedOn({p \in Nat \X Nat : p[1] < p[2]}, Nat)
<1>1. OpToRel(<, Nat) = {p \in Nat \X Nat : p[1] < p[2]}
  BY DEF OpToRel
<1>2. QED BY <1>1, NatLessThanWellFounded

LEMMA HasMin ==
  ASSUME NEW T \in SUBSET Nat, T # {}
  PROVE  Min(T) \in T /\ \A y \in T : Min(T) <= y
<1> DEFINE R == {p \in Nat \X Nat : p[1] < p[2]}
<1>1. IsWellFoundedOn(R, Nat) BY LessIsWellFounded
<1> HIDE DEF R
<1>2. PICK x \in T : \A y \in T : <<y, x>> \notin R BY <1>1, WFMin
<1>3. \A y \in T : x <= y
  <2> TAKE y \in T
  <2>1. ~(y < x) BY <1>2 DEF R
  <2> QED BY <2>1
<1> QED BY <1>3 DEF Min

LEMMA HasGreatest ==
  ASSUME NEW n \in Nat, NEW T \in SUBSET (1..n), T # {}
  PROVE  \E x \in T : \A y \in T : y <= x
<1> DEFINE U == {n - x : x \in T}
<1>1. U \in SUBSET Nat
  <2>1. \A x \in T : n - x \in Nat OBVIOUS
  <2> QED BY <2>1
<1>2. U # {} OBVIOUS
<1>3. PICK u \in U : \A v \in U : u <= v BY <1>1, <1>2, HasMin
<1>4. PICK x \in T : u = n - x BY <1>3
<1>5. ASSUME NEW y \in T PROVE y <= x
  <2>1. n - x <= n - y BY <1>3, <1>4
  <2> QED BY <2>1
<1> QED BY <1>5

LEMMA FirstBlockIs ==
  ASSUME NEW m, NEW k, m.checkpoint[k] \in Nat
  PROVE  /\ FirstBlock(k, m) \in Nat
         /\ \A b \in Nat : b >= 1 => (b < FirstBlock(k, m) <=> b + REORG_DEPTH <= m.checkpoint[k])
<1> DEFINE x == m.checkpoint[k] - REORG_DEPTH + 1
<1>0. REORG_DEPTH \in Nat BY IndexerAssumption
<1>1. x \in Int BY <1>0
<1>2. FirstBlock(k, m) = Max({1, x}) BY DEF FirstBlock
<1> HIDE DEF x
<1>3. \A c \in Nat, D \in Nat, F \in Int :
          F = (IF c - D + 1 >= 1 THEN c - D + 1 ELSE 1)
          => F \in Nat /\ \A b \in Nat : b >= 1 => (b < F <=> b + D <= c)
  OBVIOUS
<1>4. Max({1, x}) = IF x >= 1 THEN x ELSE 1
  <2>1. CASE x >= 1 BY <1>1, <2>1 DEF Max
  <2>2. CASE ~(x >= 1) BY <1>1, <2>2 DEF Max
  <2> QED BY <2>1, <2>2
<1>5. FirstBlock(k, m) \in Int BY <1>1, <1>2, <1>4
<1> QED BY <1>0, <1>2, <1>3, <1>4, <1>5 DEF x

\* A set of items as a sequence, of which the releases are emitted.
LEMMA SequenceOfSet ==
  ASSUME NEW S, IsFiniteSet(S)
  PROVE  \E n \in Nat : /\ SetToSeq(S) \in [1..n -> S]
                        /\ \A s \in S : \E k \in 1..n : SetToSeq(S)[k] = s
<1> DEFINE n == Cardinality(S)
<1>1. PICK f : f \in Bijection(1..n, S) /\ n \in Nat
  BY FS_CardinalityType DEF ExistsBijection
<1>2. f \in [1..n -> S] /\ IsInjective(f)
  BY <1>1 DEF Bijection, Injection
<1>3. SetToSeq(S) \in [1..n -> S] /\ IsInjective(SetToSeq(S))
  BY <1>2 DEF SetToSeq
<1>4. SetToSeq(S) \in Injection(1..n, S) BY <1>3 DEF Injection
<1>5. IsFiniteSet(1..n) /\ Cardinality(1..n) = n BY <1>1, FS_Interval
<1>6. SetToSeq(S) \in Surjection(1..n, S) BY <1>4, <1>5, FS_Injection
<1> HIDE DEF n
<1> QED BY <1>1, <1>3, <1>6 DEF Surjection
-------------------------------------------------------------------------------
(***************************************************************************)
(* The chain.  A transaction appends its events, all of one order, to the  *)
(* log; Emitted says what they have to do with what it changes.            *)
(***************************************************************************)
NewIds == EventIds' \ EventIds

LogGrows ==
    /\ head' = head + 1
    /\ log' \in Seq(LogEvent)
    /\ \A e \in EventIds : e \in EventIds' /\ log'[e] = log[e]
    /\ \A e \in EventIds, n \in NewIds : e < n

OnlyTheOrder(o) ==
    /\ LifecycleTypeOK'
    /\ \A p \in Orders \ {o} :
          orderStatus'[p] = orderStatus[p] /\ refundTimer'[p] = refundTimer[p]
    /\ \A i \in Items : OrderOf[i] # o =>
          itemStatus'[i] = itemStatus[i] /\ releaseTimer'[i] = releaseTimer[i]
    /\ orderStatus'[o] # "None"
    /\ orderStatus'[o] = "Created" =>
          /\ refundTimer'[o] = "none"
          /\ \A i \in ItemsIn(o) : itemStatus'[i] = "Pending" /\ releaseTimer'[i] = "none"

\* Its contract and its items are those of an event of its name.
WellFormed(ev) ==
    /\ ev.contract = IF ev.name = "DisputeOpened" THEN "EtaloDispute" ELSE "EtaloEscrow"
    /\ ev.items \subseteq ItemsIn(ev.order)
    /\ ev.name = "OrderCreated" => ev.items = ItemsIn(ev.order)

EventsOf(o) ==
    /\ NewIds # {}
    /\ \A n \in NewIds :
          /\ log'[n].order = o /\ log'[n].block = head + 1 /\ WellFormed(log'[n])
          /\ log'[n].name = "OrderCreated" => orderStatus[o] = "None" /\ NewIds = {n}
          /\ log'[n].name = "DisputeOpened" => refundTimer[o] # "none"
          /\ log'[n].name = "AutoRefundInactive" => orderStatus[o] = "Funded" /\ NewIds = {n}
    /\ orderStatus[o] = "None" => \E n \in NewIds : log'[n].name = "OrderCreated"
    /\ refundTimer'[o] # "none" => orderStatus[o] # "None"
    /\ orderStatus'[o] \in {"Created", "Funded"} =>
          /\ orderStatus[o] \in {"None", "Created", "Funded"}
          /\ \A n \in NewIds : log'[n].name \in Quiet

TellsItems(o) ==
    \A i \in ItemsIn(o) :
        /\ \A n \in NewIds :
              Touches(log'[n], i) /\ log'[n].name # "ForceRefundExecuted"
              => itemStatus'[i] = Outcome(log'[n])
        /\ (\A n \in NewIds : ~Touches(log'[n], i)) => itemStatus'[i] = itemStatus[i]

TellsOrder(o) ==
    /\ \A n \in NewIds :
          log'[n].name \in {"OrderCreated", "OrderFunded", "OrderCompleted", "AutoRefundInactive"}
          => orderStatus'[o] = StatusBy(log'[n].name)
    /\ (\A n \in NewIds : ~Moves(log'[n], o)) => orderStatus'[o] = orderStatus[o]

Emitted(o) == LogGrows /\ OnlyTheOrder(o) /\ EventsOf(o) /\ TellsItems(o) /\ TellsOrder(o)

LEMMA Appended ==
  ASSUME LogTypeOK, NEW ev \in Seq(LogEvent), head' = head + 1, log' = log \o ev
  PROVE  /\ LogGrows
         /\ \A n \in NewIds : \E k \in 1..Len(ev) : log'[n] = ev[k]
         /\ \A k \in 1..Len(ev) : \E n \in NewIds : log'[n] = ev[k]
         /\ Len(ev) = 1 => \E n : NewIds = {n}
<1>1. log \in Seq(LogEvent) BY DEF LogTypeOK
<1>2. /\ log' \in Seq(LogEvent) /\ Len(log') = Len(log) + Len(ev)
      /\ \A n \in 1..Len(log) + Len(ev) :
            log'[n] = IF n <= Len(log) THEN log[n] ELSE ev[n - Len(log)]
  BY <1>1, ConcatProperties
<1>3. /\ EventIds = 1..Len(log) /\ EventIds' = 1..Len(log') /\ Len(log) \in Nat
      /\ Len(ev) \in Nat
  BY <1>1, <1>2, LenProperties DEF EventIds
<1>4. NewIds = (Len(log) + 1)..(Len(log) + Len(ev)) BY <1>2, <1>3 DEF NewIds
<1>5. LogGrows BY <1>2, <1>3, <1>4 DEF LogGrows
<1>6. ASSUME NEW n \in NewIds PROVE \E k \in 1..Len(ev) : log'[n] = ev[k]
  <2>1. n - Len(log) \in 1..Len(ev) /\ n \in 1..Len(log) + Len(ev) /\ ~(n <= Len(log))
    BY <1>3, <1>4
  <2> QED BY <2>1, <1>2
<1>7. ASSUME NEW k \in 1..Len(ev) PROVE \E n \in NewIds : log'[n] = ev[k]
  <2>1. /\ Len(log) + k \in NewIds /\ Len(log) + k \in 1..Len(log) + Len(ev)
        /\ ~(Len(log) + k <= Len(log)) /\ Len(log) + k - Len(log) = k
    BY <1>3, <1>4
  <2> QED BY <2>1, <1>2
<1>8. ASSUME Len(ev) = 1 PROVE \E n : NewIds = {n}
  <2>1. NewIds = {Len(log) + 1} BY <1>3, <1>4, <1>8
  <2> QED BY <2>1
<1> QED BY <1>5, <1>6, <1>7, <1>8

\* A transaction with a single event.
LEMMA AppendedOne ==
  ASSUME LogTypeOK, NEW x \in LogEvent, head' = head + 1, log' = log \o <<x>>
  PROVE  LogGrows /\ \E n : NewIds = {n} /\ log'[n] = x
<1>1. <<x>> \in Seq(LogEvent) /\ Len(<<x>>) = 1 /\ <<x>>[1] = x OBVIOUS
<1>2. /\ LogGrows
      /\ \A n \in NewIds : \E k \in 1..1 : log'[n] = <<x>>[k]
      /\ \E n : NewIds = {n}
  BY <1>1, Appended
<1>3. PICK n : NewIds = {n} BY <1>2
<1>4. PICK k \in 1..1 : log'[n] = <<x>>[k] BY <1>2, <1>3
<1>5. k = 1 BY <1>4
<1>6. log'[n] = x BY <1>4, <1>5, <1>1
<1> QED BY <1>2, <1>3, <1>6

LEMMA EmittedKeepsLog ==
  ASSUME ChainInv, NEW o \in Orders, Emitted(o)
  PROVE  Untouched' /\ LogTypeOK' /\ BeginsWithCreation'
<1> USE DEF Emitted, LogGrows, OnlyTheOrder, EventsOf
<1>1. \A e \in EventIds' : e \in EventIds \/ e \in NewIds BY DEF NewIds
<1>2. Untouched'
  BY DEF ChainInv, Untouched, ItemsIn
<1>3. LogTypeOK'
  <2>1. head \in Nat /\ head' \in Nat BY DEF ChainInv, LogTypeOK
  <2>2. ASSUME NEW e \in EventIds' PROVE log'[e].block \in 1..head' /\ WellFormed(log'[e])
    <3>1. CASE e \in EventIds
      BY <3>1, <2>1 DEF ChainInv, LogTypeOK, WellFormed
    <3>2. CASE e \in NewIds BY <3>2, <2>1
    <3> QED BY <3>1, <3>2, <1>1
  <2> QED BY <2>1, <2>2 DEF LogTypeOK, WellFormed, ItemsIn
<1>4. BeginsWithCreation'
  <2>1. ASSUME NEW p \in Orders
        PROVE  orderStatus'[p] = "None" <=> \A e \in EventIds' : log'[e].order # p
    <3>1. orderStatus[p] = "None" <=> \A e \in EventIds : log[e].order # p
      BY DEF ChainInv, BeginsWithCreation
    <3>2. CASE p = o
      <4>1. PICK n \in NewIds : log'[n].order = o OBVIOUS
      <4> QED BY <3>2, <4>1 DEF NewIds
    <3>3. CASE p # o
      BY <3>1, <3>3, <1>1
    <3> QED BY <3>2, <3>3
  <2>2. ASSUME NEW e \in EventIds'
        PROVE  \E c \in EventIds' :
                  /\ log'[c].order = log'[e].order /\ log'[c].name = "OrderCreated"
                  /\ \A f \in EventIds' : log'[f].order = log'[e].order => c <= f
    <3>0. \A f \in EventIds' : f \in Nat
      BY LenProperties DEF EventIds
    <3>1. CASE \E d \in EventIds : log[d].order = log'[e].order
      <4>1. PICK d \in EventIds : log[d].order = log'[e].order BY <3>1
      <4>2. PICK c \in EventIds :
               /\ log[c].order = log[d].order /\ log[c].name = "OrderCreated"
               /\ \A f \in EventIds : log[f].order = log[d].order => c <= f
        BY DEF ChainInv, BeginsWithCreation
      <4>3. \A f \in EventIds' : log'[f].order = log'[e].order => c <= f
        BY <4>1, <4>2, <1>1, <3>0
      <4> QED BY <4>1, <4>2, <4>3
    <3>2. CASE \A d \in EventIds : log[d].order # log'[e].order
      <4>1. e \in NewIds /\ log'[e].order = o BY <3>2, <1>1
      <4>2. orderStatus[o] = "None" BY <3>2, <4>1 DEF ChainInv, BeginsWithCreation
      <4>3. PICK n \in NewIds : log'[n].name = "OrderCreated" BY <4>2
      <4>4. NewIds = {n} BY <4>3
      <4>5. \A f \in EventIds' : log'[f].order = log'[e].order => n <= f
        BY <3>0, <3>2, <4>4, <1>1
      <4> QED BY <4>1, <4>3, <4>4, <4>5 DEF NewIds
    <3> QED BY <3>1, <3>2
  <2>3. ASSUME NEW c \in EventIds', NEW e \in EventIds', log'[c].name = "OrderCreated",
               log'[e].name = "OrderCreated", log'[c].order = log'[e].order
        PROVE  c = e
    <3>1. \A d \in EventIds : orderStatus[o] = "None" => log[d].order # o
      BY DEF ChainInv, BeginsWithCreation
    <3>2. CASE c \in EventIds /\ e \in EventIds
      BY <2>3, <3>2 DEF ChainInv, BeginsWithCreation
    <3>3. CASE c \in NewIds \/ e \in NewIds
      BY <2>3, <3>1, <3>3, <1>1
    <3> QED BY <3>2, <3>3, <1>1
  <2> QED BY <2>1, <2>2, <2>3 DEF BeginsWithCreation
<1> QED BY <1>2, <1>3, <1>4

LEMMA EmittedKeepsOrder ==
  ASSUME ChainInv, NEW o \in Orders, Emitted(o)
  PROVE  DisputesComeLater' /\ QuietWhileFunded'
<1> USE DEF Emitted, LogGrows, OnlyTheOrder, EventsOf
<1>1. \A e \in EventIds' : e \in EventIds \/ e \in NewIds BY DEF NewIds
<1>2. /\ head \in Nat
      /\ \A e \in EventIds : log[e].block \in 1..head /\ log[e].order \in Orders
  <2>1. log \in Seq(LogEvent) BY DEF ChainInv, LogTypeOK
  <2>2. \A e \in EventIds : log[e] \in LogEvent
    BY <2>1, LenProperties, ElementOfSeq DEF EventIds
  <2> QED BY <2>2 DEF ChainInv, LogTypeOK, LogEvent
<1>3. \A d \in EventIds : orderStatus[o] = "None" => log[d].order # o
  BY DEF ChainInv, BeginsWithCreation
<1>4. DisputesComeLater'
  <2>1. ASSUME NEW c \in EventIds', log'[c].name = "OrderCreated",
               refundTimer'[log'[c].order] # "none"
        PROVE  log'[c].block < head'
    <3>1. CASE c \in EventIds BY <3>1, <1>2
    <3>2. CASE c \in NewIds BY <3>2, <2>1
    <3> QED BY <3>1, <3>2, <1>1
  <2>2. ASSUME NEW c \in EventIds', NEW e \in EventIds', log'[c].name = "OrderCreated",
               log'[e].name = "DisputeOpened", log'[c].order = log'[e].order
        PROVE  log'[c].block + 2 <= log'[e].block
    <3>1. CASE c \in EventIds /\ e \in EventIds
      BY <2>2, <3>1 DEF ChainInv, DisputesComeLater
    <3>2. CASE c \in NewIds
      <4>1. e \notin EventIds BY <2>2, <3>2, <1>3
      <4> QED BY <2>2, <3>2, <4>1, <1>1
    <3>3. CASE c \in EventIds /\ e \in NewIds
      <4>1. log[c].name = "OrderCreated" /\ log[c].order = o /\ refundTimer[o] # "none"
        BY <2>2, <3>3
      <4>2. log[c].block < head BY <3>3, <4>1 DEF ChainInv, DisputesComeLater
      <4>3. log'[e].block = head + 1 /\ log'[c].block = log[c].block BY <3>3
      <4> QED BY <3>3, <4>2, <4>3, <1>2
    <3> QED BY <3>1, <3>2, <3>3, <1>1
  <2> QED BY <2>1, <2>2 DEF DisputesComeLater
<1>5. QuietWhileFunded'
  <2>1. ASSUME NEW e \in EventIds', orderStatus'[log'[e].order] \in {"Created", "Funded"}
        PROVE  log'[e].name \in Quiet
    <3>1. CASE e \in EventIds
      <4>1. CASE log[e].order = o
        BY <2>1, <3>1, <4>1, <1>3 DEF ChainInv, QuietWhileFunded
      <4>2. CASE log[e].order # o
        <5>1. orderStatus'[log[e].order] = orderStatus[log[e].order] BY <4>2, <3>1, <1>2
        <5> QED BY <2>1, <3>1, <5>1 DEF ChainInv, QuietWhileFunded
      <4> QED BY <4>1, <4>2
    <3>2. CASE e \in NewIds BY <2>1, <3>2
    <3> QED BY <3>1, <3>2, <1>1
  <2>2. ASSUME NEW e \in EventIds', NEW f \in EventIds', log'[f].name = "AutoRefundInactive",
               log'[e].order = log'[f].order, e < f
        PROVE  log'[e].name \in Quiet
    <3>0. e \in Nat /\ f \in Nat BY LenProperties DEF EventIds
    <3>1. CASE f \in EventIds
      <4>1. e \in EventIds
        <5>1. e \in NewIds => f < e BY <3>1
        <5> QED BY <5>1, <2>2, <3>0, <1>1
      <4> QED BY <2>2, <3>1, <4>1 DEF ChainInv, QuietWhileFunded
    <3>2. CASE f \in NewIds
      <4>1. NewIds = {f} /\ orderStatus[o] = "Funded" /\ log'[f].order = o BY <2>2, <3>2
      <4>2. e \in EventIds BY <4>1, <2>2, <3>0, <1>1
      <4> QED BY <2>2, <4>1, <4>2 DEF ChainInv, QuietWhileFunded
    <3> QED BY <3>1, <3>2, <1>1
  <2> QED BY <2>1, <2>2 DEF QuietWhileFunded
<1> QED BY <1>4, <1>5

LEMMA EmittedKeepsStatus ==
  ASSUME ChainInv, NEW o \in Orders, Emitted(o)
  PROVE  LogTellsStatus'
<1> USE DEF Emitted, LogGrows, EventsOf
<1>1. \A e \in EventIds' : e \in EventIds \/ e \in NewIds BY DEF NewIds
<1>2. \A e \in EventIds' : e \in Nat BY LenProperties DEF EventIds
<1>3. \A e \in EventIds : log[e].order \in Orders
  <2>1. log \in Seq(LogEvent) BY DEF ChainInv, LogTypeOK
  <2>2. \A e \in EventIds : log[e] \in LogEvent
    BY <2>1, LenProperties, ElementOfSeq DEF EventIds
  <2> QED BY <2>2 DEF LogEvent
<1>4. ASSUME NEW i \in Items, NEW e \in EventIds', Touches(log'[e], i),
             log'[e].name # "ForceRefundExecuted",
             \A f \in EventIds' : Touches(log'[f], i) => f <= e
      PROVE  itemStatus'[i] = Outcome(log'[e])
  <2>1. \A n \in NewIds : Touches(log'[n], i) => OrderOf[i] = o
    <3> TAKE n \in NewIds
    <3>1. WellFormed(log'[n]) /\ log'[n].order = o OBVIOUS
    <3> QED BY <3>1 DEF WellFormed, Touches, ItemsIn
  <2>2. CASE e \in NewIds
    <3>1. i \in ItemsIn(o) BY <1>4, <2>1, <2>2 DEF ItemsIn
    <3> QED BY <1>4, <2>2, <3>1 DEF TellsItems
  <2>3. CASE e \in EventIds
    <3>1. \A n \in NewIds : ~Touches(log'[n], i)
      <4> SUFFICES ASSUME NEW n \in NewIds, Touches(log'[n], i) PROVE FALSE OBVIOUS
      <4>1. n \in EventIds' BY DEF NewIds
      <4>2. n <= e /\ e < n BY <4>1, <1>4, <2>3
      <4> QED BY <4>1, <4>2, <1>2
    <3>2. itemStatus'[i] = itemStatus[i]
      <4>1. CASE OrderOf[i] = o
        <5>1. i \in ItemsIn(o) BY <4>1 DEF ItemsIn
        <5> QED BY <5>1, <3>1 DEF TellsItems
      <4>2. CASE OrderOf[i] # o BY <4>2 DEF OnlyTheOrder
      <4> QED BY <4>1, <4>2
    <3>3. itemStatus[i] = Outcome(log[e])
      BY <1>4, <2>3 DEF ChainInv, LogTellsStatus
    <3> QED BY <3>2, <3>3, <2>3
  <2> QED BY <2>2, <2>3, <1>1
<1>5. ASSUME NEW e \in EventIds',
             Moves(log'[e], log'[e].order),
             \A f \in EventIds' : Moves(log'[f], log'[e].order) => f <= e,
             log'[e].name \in {"OrderCreated", "OrderFunded", "OrderCompleted",
                               "AutoRefundInactive"}
      PROVE  orderStatus'[log'[e].order] = StatusBy(log'[e].name)
  <2>1. CASE e \in NewIds BY <1>5, <2>1 DEF TellsOrder
  <2>2. CASE e \in EventIds
    <3> DEFINE p == log[e].order
    <3>1. orderStatus[p] = StatusBy(log[e].name)
      BY <1>5, <2>2 DEF ChainInv, LogTellsStatus
    <3>2. \A n \in NewIds : ~Moves(log'[n], p)
      <4> SUFFICES ASSUME NEW n \in NewIds, Moves(log'[n], p) PROVE FALSE OBVIOUS
      <4>1. n \in EventIds' BY DEF NewIds
      <4>2. n <= e /\ e < n BY <4>1, <1>5, <2>2
      <4> QED BY <4>1, <4>2, <1>2
    <3>3. orderStatus'[p] = orderStatus[p]
      <4>1. CASE p = o BY <4>1, <3>2 DEF TellsOrder
      <4>2. CASE p # o BY <4>2, <1>3, <2>2 DEF OnlyTheOrder
      <4> QED BY <4>1, <4>2
    <3> QED BY <3>1, <3>3, <2>2
  <2> QED BY <2>1, <2>2, <1>1
<1> QED BY <1>4, <1>5 DEF LogTellsStatus

LEMMA EmittedKeepsChain ==
  ASSUME ChainInv, NEW o \in Orders, Emitted(o)
  PROVE  ChainInv'
<1>1. LifecycleTypeOK' BY DEF Emitted, OnlyTheOrder
<1> QED BY <1>1, EmittedKeepsLog, EmittedKeepsOrder, EmittedKeepsStatus DEF ChainInv

(***************************************************************************)
(* Every transaction emits what it does.                                   *)
(***************************************************************************)
LEMMA EventType ==
  ASSUME head \in Nat, NEW o \in Orders, NEW S \in SUBSET Items, NEW name \in EventNames,
         NEW contract \in Contracts, NEW full \in BOOLEAN
  PROVE  Event(contract, name, o, S, full) \in LogEvent
BY DEF Event, LogEvent

LEMMA EscrowType ==
  ASSUME head \in Nat, NEW o \in Orders, NEW S \in SUBSET Items, NEW name \in EventNames
  PROVE  Escrow(name, o, S) \in LogEvent
BY EventType DEF Escrow, Contracts

LEMMA ItemsInOrder ==
  /\ \A i \in Items : OrderOf[i] \in Orders
  /\ \A o : ItemsIn(o) \in SUBSET Items /\ IsFiniteSet(ItemsIn(o))
<1>1. \A i \in Items : OrderOf[i] \in Orders BY IndexerAssumption
<1>2. ASSUME NEW o PROVE ItemsIn(o) \in SUBSET Items /\ IsFiniteSet(ItemsIn(o))
  BY IndexerAssumption, FS_Subset DEF ItemsIn
<1> QED BY <1>1, <1>2

LEMMA CreateEmits ==
  ASSUME ChainInv, NEW o \in Orders, Create(o), Mine(<<Escrow("OrderCreated", o, ItemsIn(o))>>)
  PROVE  Emitted(o)
<1> USE DEF Create
<1> DEFINE x == Escrow("OrderCreated", o, ItemsIn(o))
<1>1. /\ LifecycleTypeOK /\ LogTypeOK /\ head \in Nat
      /\ orderStatus[o] = "None" /\ refundTimer[o] = "none"
      /\ \A i \in ItemsIn(o) : itemStatus[i] = "Pending" /\ releaseTimer[i] = "none"
  BY DEF ChainInv, LogTypeOK, Untouched
<1>2. x \in LogEvent BY <1>1, EscrowType, ItemsInOrder DEF EventNames, Handled
<1>3. x.name = "OrderCreated" /\ x.order = o /\ x.items = ItemsIn(o)
      /\ x.contract = "EtaloEscrow" /\ x.block = head + 1
  BY DEF Escrow, Event
<1> HIDE DEF x
<1>4. LogGrows /\ \E n : NewIds = {n} /\ log'[n] = x
  BY <1>1, <1>2, AppendedOne DEF Mine, x
<1>5. PICK n : NewIds = {n} /\ log'[n] = x BY <1>4
<1>6. OnlyTheOrder(o)
  BY <1>1 DEF OnlyTheOrder, LifecycleTypeOK, OrderStatuses
<1>7. EventsOf(o)
  BY <1>1, <1>3, <1>5 DEF EventsOf, WellFormed, Quiet, LifecycleTypeOK
<1>8. TellsItems(o) BY <1>1, <1>3, <1>5 DEF TellsItems, Touches, Outcome
<1>9. TellsOrder(o)
  BY <1>1, <1>3, <1>5 DEF TellsOrder, StatusBy, Moves, LifecycleTypeOK
<1> QED BY <1>4, <1>6, <1>7, <1>8, <1>9 DEF Emitted

LEMMA FundEmits ==
  ASSUME ChainInv, NEW o \in Orders, Fund(o), Mine(<<Escrow("OrderFunded", o, {})>>)
  PROVE  Emitted(o)
<1> USE DEF Fund
<1> DEFINE x == Escrow("OrderFunded", o, {})
<1>1. LifecycleTypeOK /\ LogTypeOK /\ head \in Nat
  BY DEF ChainInv, LogTypeOK
<1>2. x \in LogEvent BY <1>1, EscrowType DEF EventNames, Handled
<1>3. x.name = "OrderFunded" /\ x.order = o /\ x.items = {}
      /\ x.contract = "EtaloEscrow" /\ x.block = head + 1
  BY DEF Escrow, Event
<1> HIDE DEF x
<1>4. LogGrows /\ \E n : NewIds = {n} /\ log'[n] = x
  BY <1>1, <1>2, AppendedOne DEF Mine, x
<1>5. PICK n : NewIds = {n} /\ log'[n] = x BY <1>4
<1>6. OnlyTheOrder(o)
  BY <1>1 DEF OnlyTheOrder, LifecycleTypeOK, OrderStatuses, Timer
<1>7. EventsOf(o)
  BY <1>1, <1>3, <1>5 DEF EventsOf, WellFormed, Quiet, LifecycleTypeOK
<1>8. TellsItems(o) BY <1>1, <1>3, <1>5 DEF TellsItems, Touches, Syncing
<1>9. TellsOrder(o)
  BY <1>1, <1>3, <1>5 DEF TellsOrder, StatusBy, Moves, LifecycleTypeOK
<1> QED BY <1>4, <1>6, <1>7, <1>8, <1>9 DEF Emitted

LEMMA CancelEmits ==
  ASSUME ChainInv, NEW o \in Orders, Cancel(o), Mine(<<Escrow("OrderCancelled", o, {})>>)
  PROVE  Emitted(o)
<1> USE DEF Cancel
<1> DEFINE x == Escrow("OrderCancelled", o, {})
<1>1. LifecycleTypeOK /\ LogTypeOK /\ head \in Nat
  BY DEF ChainInv, LogTypeOK
<1>2. x \in LogEvent BY <1>1, EscrowType DEF EventNames
<1>3. x.name = "OrderCancelled" /\ x.order = o /\ x.items = {}
      /\ x.contract = "EtaloEscrow" /\ x.block = head + 1
  BY DEF Escrow, Event
<1> HIDE DEF x
<1>4. LogGrows /\ \E n : NewIds = {n} /\ log'[n] = x
  BY <1>1, <1>2, AppendedOne DEF Mine, x
<1>5. PICK n : NewIds = {n} /\ log'[n] = x BY <1>4
<1>6. OnlyTheOrder(o)
  BY <1>1 DEF OnlyTheOrder, LifecycleTypeOK, OrderStatuses, Timer
<1>7. EventsOf(o)
  BY <1>1, <1>3, <1>5 DEF EventsOf, WellFormed, Quiet, LifecycleTypeOK
<1>8. TellsItems(o) BY <1>1, <1>3, <1>5 DEF TellsItems, Touches, Syncing
<1>9. TellsOrder(o)
  BY <1>1, <1>3, <1>5 DEF TellsOrder, Moves, LifecycleTypeOK
<1> QED BY <1>4, <1>6, <1>7, <1>8, <1>9 DEF Emitted

LEMMA ForceRefundEmits ==
  ASSUME ChainInv, NEW o \in Orders, ForceRefund(o),
         Mine(<<Escrow("ForceRefundExecuted", o, {})>>)
  PROVE  Emitted(o)
<1> USE DEF ForceRefund
<1> DEFINE x == Escrow("ForceRefundExecuted", o, {})
<1>1. LifecycleTypeOK /\ LogTypeOK /\ head \in Nat /\ orderStatus[o] # "None"
  BY DEF ChainInv, LogTypeOK, Untouched, Funded
<1>2. x \in LogEvent BY <1>1, EscrowType DEF EventNames
<1>3. x.name = "ForceRefundExecuted" /\ x.order = o /\ x.items = {}
      /\ x.contract = "EtaloEscrow" /\ x.block = head + 1
  BY DEF Escrow, Event
<1> HIDE DEF x
<1>4. LogGrows /\ \E n : NewIds = {n} /\ log'[n] = x
  BY <1>1, <1>2, AppendedOne DEF Mine, x
<1>5. PICK n : NewIds = {n} /\ log'[n] = x BY <1>4
<1>6. OnlyTheOrder(o)
  BY <1>1 DEF OnlyTheOrder, LifecycleTypeOK, OrderStatuses, ItemStatuses, ItemsIn
<1>7. EventsOf(o)
  BY <1>1, <1>3, <1>5 DEF EventsOf, WellFormed, LifecycleTypeOK
<1>8. TellsItems(o) BY <1>1, <1>3, <1>5 DEF TellsItems, Touches, ItemsIn
<1>9. TellsOrder(o)
  BY <1>1, <1>3, <1>5 DEF TellsOrder, Moves, LifecycleTypeOK
<1> QED BY <1>4, <1>6, <1>7, <1>8, <1>9 DEF Emitted

LEMMA ShipEmits ==
  ASSUME ChainInv, NEW o \in Orders, NEW S \in SUBSET ItemsIn(o), Ship(o, S),
         Mine(<<Escrow("ShipmentGroupCreated", o, S)>>)
  PROVE  Emitted(o)
<1> USE DEF Ship
<1> DEFINE x == Escrow("ShipmentGroupCreated", o, S)
<1>1. LifecycleTypeOK /\ LogTypeOK /\ head \in Nat
  BY DEF ChainInv, LogTypeOK
<1>2. x \in LogEvent BY <1>1, EscrowType, ItemsInOrder DEF EventNames, Handled
<1>3. x.name = "ShipmentGroupCreated" /\ x.order = o /\ x.items = S
      /\ x.contract = "EtaloEscrow" /\ x.block = head + 1
  BY DEF Escrow, Event
<1> HIDE DEF x
<1>4. LogGrows /\ \E n : NewIds = {n} /\ log'[n] = x
  BY <1>1, <1>2, AppendedOne DEF Mine, x
<1>5. PICK n : NewIds = {n} /\ log'[n] = x BY <1>4
<1>6. orderStatus'[o] \in {"PartiallyShipped", "AllShipped"} BY <1>1 DEF LifecycleTypeOK
<1>7. OnlyTheOrder(o)
  <2>1. LifecycleTypeOK'
    BY <1>1 DEF LifecycleTypeOK, OrderStatuses, ItemStatuses, Timer
  <2> QED BY <1>1, <1>6, <2>1 DEF OnlyTheOrder, LifecycleTypeOK, ItemsIn
<1>8. EventsOf(o)
  BY <1>1, <1>3, <1>5, <1>6 DEF EventsOf, WellFormed, LifecycleTypeOK
<1>9. TellsItems(o)
  BY <1>1, <1>3, <1>5 DEF TellsItems, Touches, Syncing, Outcome, ItemsIn
<1>10. TellsOrder(o)
  BY <1>1, <1>3, <1>5 DEF TellsOrder, Moves, LifecycleTypeOK
<1> QED BY <1>4, <1>7, <1>8, <1>9, <1>10 DEF Emitted

\* The two events of a dispute are one per contract.
LEMMA DisputeEmits ==
  ASSUME ChainInv, NEW i \in Items, Dispute(i),
         Mine(<<Escrow("ItemDisputed", OrderOf[i], {i}),
                Event("EtaloDispute", "DisputeOpened", OrderOf[i], {i}, FALSE)>>)
  PROVE  Emitted(OrderOf[i])
<1> USE DEF Dispute
<1> DEFINE o == OrderOf[i]
           x == Escrow("ItemDisputed", o, {i})
           y == Event("EtaloDispute", "DisputeOpened", o, {i}, FALSE)
<1>0. o \in Orders /\ i \in ItemsIn(o) BY ItemsInOrder DEF ItemsIn
<1>1. /\ LifecycleTypeOK /\ LogTypeOK /\ head \in Nat
      /\ orderStatus[o] \notin {"None", "Created"} /\ refundTimer[o] # "none"
  BY <1>0 DEF ChainInv, LogTypeOK, Untouched, Funded
<1>2. x \in LogEvent /\ y \in LogEvent
  BY <1>0, <1>1, EscrowType, EventType DEF EventNames, Handled, Contracts
<1>3. /\ x.name = "ItemDisputed" /\ x.order = o /\ x.items = {i}
      /\ x.contract = "EtaloEscrow" /\ x.block = head + 1
      /\ y.name = "DisputeOpened" /\ y.order = o /\ y.items = {i}
      /\ y.contract = "EtaloDispute" /\ y.block = head + 1
  BY DEF Escrow, Event
<1> HIDE DEF x, y
<1>4. <<x, y>> \in Seq(LogEvent) /\ Len(<<x, y>>) = 2 /\ <<x, y>>[1] = x /\ <<x, y>>[2] = y
  BY <1>2
<1>5. /\ LogGrows
      /\ \A n \in NewIds : \E k \in 1..2 : log'[n] = <<x, y>>[k]
      /\ \A k \in 1..2 : \E n \in NewIds : log'[n] = <<x, y>>[k]
  BY <1>1, <1>4, Appended DEF Mine, x, y
<1>6. /\ \A n \in NewIds : log'[n] = x \/ log'[n] = y
      /\ \E n \in NewIds : log'[n] = x
  <2>1. \A k \in 1..2 : <<x, y>>[k] = x \/ <<x, y>>[k] = y
    <3> TAKE k \in 1..2
    <3>1. k = 1 \/ k = 2 OBVIOUS
    <3> QED BY <3>1, <1>4
  <2>2. \E n \in NewIds : log'[n] = <<x, y>>[1]
    <3>1. 1 \in 1..2 OBVIOUS
    <3> QED BY <3>1, <1>5
  <2> QED BY <2>1, <2>2, <1>4, <1>5
<1>7. OnlyTheOrder(o)
  BY <1>0, <1>1 DEF OnlyTheOrder, LifecycleTypeOK, OrderStatuses, ItemStatuses
<1>8. EventsOf(o)
  BY <1>0, <1>1, <1>3, <1>6 DEF EventsOf, WellFormed, Quiet
<1>9. TellsItems(o)
  BY <1>0, <1>1, <1>3, <1>6 DEF TellsItems, Touches, Syncing, Outcome, LifecycleTypeOK
<1>10. TellsOrder(o) BY <1>1, <1>3, <1>6 DEF TellsOrder, Moves
<1> QED BY <1>5, <1>7, <1>8, <1>9, <1>10 DEF Emitted

(***************************************************************************)
(* What the four settling transactions have in common.                     *)
(***************************************************************************)
LEMMA SettleMoves ==
  ASSUME ChainInv, NEW o \in Orders, NEW S \in SUBSET ItemsIn(o), NEW s \in Done,
         S # {} \/ ItemsIn(o) = {}, Settle(o, S, s),
         orderStatus[o] \notin {"None", "Created"}
  PROVE  /\ OnlyTheOrder(o)
         /\ orderStatus'[o] \notin {"None", "Created", "Funded"}
         /\ \A i \in Items : itemStatus'[i] = IF i \in S THEN s ELSE itemStatus[i]
<1> USE DEF Settle
<1>1. LifecycleTypeOK BY DEF ChainInv
<1>2. \A i \in Items : itemStatus'[i] = IF i \in S THEN s ELSE itemStatus[i] OBVIOUS
<1>3. /\ orderStatus'[o] = StatusAfter(o, itemStatus')
      /\ \A p \in Orders \ {o} : orderStatus'[p] = orderStatus[p]
  BY <1>1 DEF LifecycleTypeOK
<1>4. /\ StatusAfter(o, itemStatus') \notin {"None", "Created", "Funded"}
      /\ StatusAfter(o, itemStatus') \in OrderStatuses
  <2>1. CASE orderStatus[o] \in Closed
    BY <2>1, <1>1 DEF StatusAfter, Closed, OrderStatuses
  <2>2. CASE ItemsIn(o) = {} /\ orderStatus[o] \notin Closed
    BY <2>2 DEF StatusAfter, OrderStatuses
  <2>3. CASE S # {} /\ orderStatus[o] \notin Closed
    <3>1. PICK i \in S : TRUE BY <2>3
    <3>2. i \in ItemsIn(o) /\ itemStatus'[i] \in Done BY <3>1, <1>2 DEF ItemsIn
    <3> QED BY <2>3, <3>2 DEF StatusAfter, OrderStatuses
  <2> QED BY <2>1, <2>2, <2>3
<1>5. LifecycleTypeOK'
  BY <1>1, <1>2, <1>3, <1>4 DEF LifecycleTypeOK, ItemStatuses, Done
<1>6. OnlyTheOrder(o)
  BY <1>1, <1>2, <1>3, <1>4, <1>5 DEF OnlyTheOrder, ItemsIn
<1> QED BY <1>2, <1>3, <1>4, <1>6

LEMMA AutoRefundEmits ==
  ASSUME ChainInv, NEW o \in Orders, AutoRefund(o),
         Mine(<<Escrow("AutoRefundInactive", o, {})>>)
  PROVE  Emitted(o)
<1> USE DEF AutoRefund
<1> DEFINE x == Escrow("AutoRefundInactive", o, {})
<1>1. LifecycleTypeOK /\ LogTypeOK /\ head \in Nat /\ orderStatus[o] = "Funded"
  BY DEF ChainInv, LogTypeOK
<1>2. x \in LogEvent BY <1>1, EscrowType DEF EventNames, Handled
<1>3. x.name = "AutoRefundInactive" /\ x.order = o /\ x.items = {}
      /\ x.contract = "EtaloEscrow" /\ x.block = head + 1
  BY DEF Escrow, Event
<1> HIDE DEF x
<1>4. LogGrows /\ \E n : NewIds = {n} /\ log'[n] = x
  BY <1>1, <1>2, AppendedOne DEF Mine, x
<1>5. PICK n : NewIds = {n} /\ log'[n] = x BY <1>4
<1>6. /\ OnlyTheOrder(o)
      /\ orderStatus'[o] \notin {"None", "Created", "Funded"}
      /\ \A i \in Items : itemStatus'[i] = IF i \in ItemsIn(o) THEN "Refunded" ELSE itemStatus[i]
  BY <1>1, SettleMoves DEF Done
<1>7. orderStatus'[o] = "Refunded"
  <2>1. \A i \in ItemsIn(o) : itemStatus'[i] = "Refunded" BY <1>6 DEF ItemsIn
  <2>2. StatusAfter(o, itemStatus') = "Refunded"
    BY <1>1, <2>1 DEF StatusAfter, Done, Closed
  <2> QED BY <1>1, <2>2 DEF Settle, LifecycleTypeOK
<1>8. EventsOf(o)
  BY <1>1, <1>3, <1>5, <1>7 DEF EventsOf, WellFormed
<1>9. TellsItems(o)
  BY <1>3, <1>5, <1>6 DEF TellsItems, Touches, Outcome, ItemsIn
<1>10. TellsOrder(o) BY <1>3, <1>5, <1>7 DEF TellsOrder, StatusBy, Moves
<1> QED BY <1>4, <1>6, <1>8, <1>9, <1>10 DEF Emitted

\* The event of a completed order comes first.
LEMMA CompletionAppended ==
  ASSUME LogTypeOK, NEW o \in Orders, NEW tail \in Seq(LogEvent),
         Mine(CompletedIfClosed(o) \o tail)
  PROVE  /\ LogGrows
         /\ \A n \in NewIds :
               \/ /\ log'[n] = Escrow("OrderCompleted", o, {})
                  /\ orderStatus'[o] = "Completed"
               \/ \E k \in 1..Len(tail) : log'[n] = tail[k]
         /\ \A k \in 1..Len(tail) : \E n \in NewIds : log'[n] = tail[k]
<1> DEFINE x == Escrow("OrderCompleted", o, {})
           first == CompletedIfClosed(o)
           all == first \o tail
<1>1. head \in Nat BY DEF LogTypeOK
<1>2. x \in LogEvent BY <1>1, EscrowType DEF EventNames, Handled
<1> HIDE DEF x
<1>3. /\ first \in Seq(LogEvent)
      /\ \A k \in 1..Len(first) : first[k] = x /\ orderStatus'[o] = "Completed"
  <2>1. CASE orderStatus'[o] = "Completed"
    <3>1. first = <<x>> BY <2>1 DEF CompletedIfClosed, x
    <3>2. /\ <<x>> \in Seq(LogEvent)
          /\ \A k \in 1..Len(<<x>>) : <<x>>[k] = x
      BY <1>2
    <3> QED BY <2>1, <3>1, <3>2
  <2>2. CASE orderStatus'[o] # "Completed"
    <3>1. first = <<>> BY <2>2 DEF CompletedIfClosed
    <3> QED BY <3>1
  <2> QED BY <2>1, <2>2
<1> HIDE DEF first
<1>4. /\ all \in Seq(LogEvent) /\ Len(all) = Len(first) + Len(tail)
      /\ \A k \in 1..Len(first) + Len(tail) :
            all[k] = IF k <= Len(first) THEN first[k] ELSE tail[k - Len(first)]
      /\ Len(first) \in Nat /\ Len(tail) \in Nat
  BY <1>3, ConcatProperties, LenProperties
<1>5. head' = head + 1 /\ log' = log \o all BY DEF Mine, first
<1> HIDE DEF all
<1>6. /\ LogGrows
      /\ \A n \in NewIds : \E k \in 1..Len(all) : log'[n] = all[k]
      /\ \A k \in 1..Len(all) : \E n \in NewIds : log'[n] = all[k]
  BY <1>4, <1>5, Appended
<1>7. ASSUME NEW n \in NewIds
      PROVE  \/ log'[n] = x /\ orderStatus'[o] = "Completed"
             \/ \E k \in 1..Len(tail) : log'[n] = tail[k]
  <2>1. PICK k \in 1..Len(all) : log'[n] = all[k] BY <1>6
  <2>2. CASE k <= Len(first)
    <3>1. k \in 1..Len(first) /\ all[k] = first[k] BY <1>4, <2>1, <2>2
    <3> QED BY <1>3, <2>1, <3>1
  <2>3. CASE ~(k <= Len(first))
    <3>1. k - Len(first) \in 1..Len(tail) /\ all[k] = tail[k - Len(first)]
      BY <1>4, <2>1, <2>3
    <3> QED BY <2>1, <3>1
  <2> QED BY <2>2, <2>3
<1>8. ASSUME NEW k \in 1..Len(tail) PROVE \E n \in NewIds : log'[n] = tail[k]
  <2>1. /\ Len(first) + k \in 1..Len(all) /\ ~(Len(first) + k <= Len(first))
        /\ Len(first) + k - Len(first) = k
    BY <1>4
  <2>2. all[Len(first) + k] = tail[k] BY <1>4, <2>1
  <2> QED BY <1>6, <2>1, <2>2
<1> QED BY <1>6, <1>7, <1>8 DEF x

LEMMA ReleaseAppended ==
  ASSUME LogTypeOK, NEW o \in Orders, NEW S \in SUBSET ItemsIn(o), Mine(ReleaseEvents(o, S))
  PROVE  /\ LogGrows
         /\ \A n \in NewIds :
               \/ /\ log'[n] = Escrow("OrderCompleted", o, {})
                  /\ orderStatus'[o] = "Completed"
               \/ \E i \in S : log'[n] = Escrow("ItemReleased", o, {i})
         /\ \A i \in S : \E n \in NewIds : log'[n] = Escrow("ItemReleased", o, {i})
<1> DEFINE items == SetToSeq(S)
           tail == [k \in DOMAIN items |-> Escrow("ItemReleased", o, {items[k]})]
<1>1. IsFiniteSet(S) /\ S \in SUBSET Items BY ItemsInOrder, FS_Subset
<1>2. PICK n \in Nat : items \in [1..n -> S] /\ \A i \in S : \E k \in 1..n : items[k] = i
  BY <1>1, SequenceOfSet
<1> HIDE DEF items
<1>3. \A i \in S : Escrow("ItemReleased", o, {i}) \in LogEvent
  BY <1>1, EscrowType DEF LogTypeOK, EventNames, Handled
<1>4. DOMAIN tail = 1..n /\ \A k \in 1..n : tail[k] = Escrow("ItemReleased", o, {items[k]})
  BY <1>2
<1>5. tail \in [1..n -> LogEvent] BY <1>2, <1>3
<1> HIDE DEF tail
<1>6. tail \in Seq(LogEvent) /\ Len(tail) = n
  <2>1. tail \in Seq(LogEvent) BY <1>2, <1>5, SeqDef
  <2>2. DOMAIN tail = 1..Len(tail) /\ Len(tail) \in Nat BY <2>1, LenProperties
  <2> QED BY <1>2, <1>4, <2>1, <2>2
<1>7. Mine(CompletedIfClosed(o) \o tail) BY DEF ReleaseEvents, items, tail
<1>8. /\ LogGrows
      /\ \A m \in NewIds :
            \/ /\ log'[m] = Escrow("OrderCompleted", o, {})
               /\ orderStatus'[o] = "Completed"
            \/ \E k \in 1..n : log'[m] = tail[k]
      /\ \A k \in 1..n : \E m \in NewIds : log'[m] = tail[k]
  BY <1>6, <1>7, CompletionAppended
<1>9. ASSUME NEW i \in S PROVE \E m \in NewIds : log'[m] = Escrow("ItemReleased", o, {i})
  <2>1. PICK k \in 1..n : items[k] = i BY <1>2
  <2> QED BY <1>4, <1>8, <2>1
<1>10. \A k \in 1..n : items[k] \in S BY <1>2
<1>11. \A k \in 1..n : \E i \in S : tail[k] = Escrow("ItemReleased", o, {i})
  BY <1>4, <1>10
<1>12. ASSUME NEW m \in NewIds, NEW k \in 1..n, log'[m] = tail[k]
       PROVE  \E i \in S : log'[m] = Escrow("ItemReleased", o, {i})
  BY <1>11, <1>12
<1> QED BY <1>8, <1>9, <1>12

\* A settled item has its event, and the order its completion.
SettledBy(o, S, s, name) ==
    /\ S # {} /\ Settle(o, S, s)
    /\ LogGrows
    /\ \A n \in NewIds :
          \/ /\ log'[n] = Escrow("OrderCompleted", o, {})
             /\ orderStatus'[o] = "Completed"
          \/ \E i \in S : log'[n] = Event("EtaloEscrow", name, o, {i}, s = "Refunded")
    /\ \A i \in S : \E n \in NewIds :
          log'[n] = Event("EtaloEscrow", name, o, {i}, s = "Refunded")

LEMMA SettledEmits ==
  ASSUME ChainInv, NEW o \in Orders, NEW S \in SUBSET ItemsIn(o), NEW s \in Done,
         NEW name \in {"ItemReleased", "ItemDisputeResolved"},
         name = "ItemReleased" => s = "Released",
         orderStatus[o] \notin {"None", "Created"}, SettledBy(o, S, s, name)
  PROVE  Emitted(o)
<1> DEFINE ev(i) == Event("EtaloEscrow", name, o, {i}, s = "Refunded")
           done == Escrow("OrderCompleted", o, {})
<1>1. /\ OnlyTheOrder(o)
      /\ orderStatus'[o] \notin {"None", "Created", "Funded"}
      /\ \A i \in Items : itemStatus'[i] = IF i \in S THEN s ELSE itemStatus[i]
  BY SettleMoves DEF SettledBy
<1>2. /\ done.contract = "EtaloEscrow" /\ done.name = "OrderCompleted" /\ done.order = o
      /\ done.items = {} /\ done.block = head + 1
  BY DEF Escrow, Event
<1>3. \A i : /\ ev(i).contract = "EtaloEscrow" /\ ev(i).name = name /\ ev(i).order = o
             /\ ev(i).items = {i} /\ ev(i).full = (s = "Refunded") /\ ev(i).block = head + 1
  BY DEF Event
<1>4. \A n \in NewIds : \/ log'[n] = done /\ orderStatus'[o] = "Completed"
                        \/ \E i \in S : log'[n] = ev(i)
  BY DEF SettledBy
<1>5. \A i \in S : \E n \in NewIds : log'[n] = ev(i) BY DEF SettledBy
<1> HIDE DEF ev, done
<1>6. EventsOf(o)
  <2>1. NewIds # {} BY <1>5 DEF SettledBy
  <2>2. ASSUME NEW n \in NewIds
        PROVE  /\ log'[n].order = o /\ log'[n].block = head + 1 /\ WellFormed(log'[n])
               /\ log'[n].name \in {"OrderCompleted", "ItemReleased", "ItemDisputeResolved"}
    <3>1. CASE log'[n] = done BY <3>1, <1>2 DEF WellFormed
    <3>2. CASE \E i \in S : log'[n] = ev(i) BY <3>2, <1>3 DEF WellFormed
    <3> QED BY <3>1, <3>2, <1>4
  <2> QED BY <1>1, <2>1, <2>2 DEF EventsOf
<1>7. TellsItems(o)
  <2> SUFFICES ASSUME NEW i \in ItemsIn(o)
               PROVE  /\ \A n \in NewIds :
                            Touches(log'[n], i) => itemStatus'[i] = Outcome(log'[n])
                      /\ (\A n \in NewIds : ~Touches(log'[n], i)) =>
                            itemStatus'[i] = itemStatus[i]
    BY DEF TellsItems
  <2>0. i \in Items BY DEF ItemsIn
  <2>1. ASSUME NEW n \in NewIds, Touches(log'[n], i) PROVE itemStatus'[i] = Outcome(log'[n])
    <3>1. log'[n] # done BY <2>1, <1>2 DEF Touches, Syncing
    <3>2. PICK j \in S : log'[n] = ev(j) BY <3>1, <1>4
    <3>3. i = j BY <2>1, <3>2, <1>3 DEF Touches, Syncing
    <3>4. itemStatus'[i] = s BY <1>1, <2>0, <3>3
    <3>5. Outcome(ev(j)) = s BY <1>3 DEF Outcome, Done
    <3> QED BY <3>2, <3>4, <3>5
  <2>2. ASSUME \A n \in NewIds : ~Touches(log'[n], i) PROVE itemStatus'[i] = itemStatus[i]
    <3>1. i \notin S
      <4> SUFFICES ASSUME i \in S PROVE FALSE OBVIOUS
      <4>1. PICK n \in NewIds : log'[n] = ev(i) BY <1>5
      <4> QED BY <2>2, <4>1, <1>3 DEF Touches, Syncing
    <3> QED BY <1>1, <2>0, <3>1
  <2> QED BY <2>1, <2>2
<1>8. TellsOrder(o)
  <2>1. ASSUME NEW n \in NewIds,
               log'[n].name \in {"OrderCreated", "OrderFunded", "OrderCompleted",
                                 "AutoRefundInactive"}
        PROVE  orderStatus'[o] = StatusBy(log'[n].name)
    <3>1. ~\E i \in S : log'[n] = ev(i) BY <2>1, <1>3
    <3> QED BY <3>1, <1>2, <1>4 DEF StatusBy
  <2>2. \E n \in NewIds : Moves(log'[n], o)
    <3>1. PICK i \in S : TRUE BY DEF SettledBy
    <3>2. PICK n \in NewIds : log'[n] = ev(i) BY <1>5
    <3> QED BY <3>2, <1>3 DEF Moves
  <2> QED BY <2>1, <2>2 DEF TellsOrder
<1> QED BY <1>1, <1>6, <1>7, <1>8 DEF Emitted, SettledBy

LEMMA ReleaseEmits ==
  ASSUME ChainInv, NEW o \in Orders, NEW S \in SUBSET ItemsIn(o), S # {},
         Settle(o, S, "Released"), Mine(ReleaseEvents(o, S)),
         orderStatus[o] \notin {"None", "Created"}
  PROVE  Emitted(o)
<1>1. LogTypeOK BY DEF ChainInv
<1>2. SettledBy(o, S, "Released", "ItemReleased")
  BY <1>1, ReleaseAppended DEF SettledBy, Escrow
<1> QED BY <1>2, SettledEmits DEF Done

LEMMA ConfirmEmits ==
  ASSUME ChainInv, NEW o \in Orders, NEW S \in SUBSET ItemsIn(o), Confirm(o, S),
         Mine(ReleaseEvents(o, S))
  PROVE  Emitted(o)
<1>1. PICK i \in S : i \in ItemsIn(o) /\ itemStatus[i] = "Shipped" BY DEF Confirm
<1>2. orderStatus[o] \notin {"None", "Created"} BY <1>1 DEF ChainInv, Untouched
<1> QED BY <1>2, ReleaseEmits DEF Confirm

LEMMA AutoReleaseEmits ==
  ASSUME ChainInv, NEW i \in Items, AutoRelease(i), Mine(ReleaseEvents(OrderOf[i], {i}))
  PROVE  Emitted(OrderOf[i])
<1>1. OrderOf[i] \in Orders /\ i \in ItemsIn(OrderOf[i]) BY ItemsInOrder DEF ItemsIn
<1>2. orderStatus[OrderOf[i]] \notin {"None", "Created"}
  BY <1>1 DEF AutoRelease, ChainInv, Untouched
<1>3. {i} \in SUBSET ItemsIn(OrderOf[i]) /\ {i} # {} BY <1>1
<1> QED BY <1>1, <1>2, <1>3, ReleaseEmits DEF AutoRelease

LEMMA ResolveEmits ==
  ASSUME ChainInv, NEW i \in Items, NEW s \in Done, Resolve(i, s),
         Mine(CompletedIfClosed(OrderOf[i]) \o
              <<Event("EtaloEscrow", "ItemDisputeResolved", OrderOf[i], {i}, s = "Refunded")>>)
  PROVE  Emitted(OrderOf[i])
<1> DEFINE o == OrderOf[i]
           x == Event("EtaloEscrow", "ItemDisputeResolved", o, {i}, s = "Refunded")
<1>1. LogTypeOK /\ head \in Nat /\ o \in Orders /\ i \in ItemsIn(o)
  BY ItemsInOrder DEF ItemsIn, ChainInv, LogTypeOK
<1>2. orderStatus[o] \notin {"None", "Created"}
  BY <1>1 DEF Resolve, ChainInv, Untouched
<1>3. x \in LogEvent BY <1>1, EventType DEF EventNames, Handled, Contracts
<1> HIDE DEF x
<1>4. <<x>> \in Seq(LogEvent) /\ Len(<<x>>) = 1 /\ <<x>>[1] = x BY <1>3
<1>5. /\ LogGrows
      /\ \A n \in NewIds :
            \/ /\ log'[n] = Escrow("OrderCompleted", o, {})
               /\ orderStatus'[o] = "Completed"
            \/ \E k \in 1..1 : log'[n] = <<x>>[k]
      /\ \A k \in 1..1 : \E n \in NewIds : log'[n] = <<x>>[k]
  BY <1>1, <1>4, CompletionAppended DEF x
<1>6. \A k \in 1..1 : <<x>>[k] = x
  <2> TAKE k \in 1..1
  <2>1. k = 1 OBVIOUS
  <2> QED BY <2>1, <1>4
<1>7. 1 \in 1..1 OBVIOUS
<1>8. SettledBy(o, {i}, s, "ItemDisputeResolved")
  BY <1>5, <1>6, <1>7 DEF SettledBy, Resolve, x
<1>9. {i} \in SUBSET ItemsIn(o) BY <1>1
<1> QED BY <1>1, <1>2, <1>8, <1>9, SettledEmits

LEMMA OrderTransactionEmits ==
  ASSUME ChainInv, NEW o \in Orders, OrderTransaction(o)
  PROVE  Emitted(o)
BY CreateEmits, FundEmits, CancelEmits, AutoRefundEmits, ForceRefundEmits, ShipEmits, ConfirmEmits
   DEF OrderTransaction

LEMMA ItemTransactionEmits ==
  ASSUME ChainInv, NEW i \in Items, ItemTransaction(i)
  PROVE  Emitted(OrderOf[i])
BY AutoReleaseEmits, DisputeEmits, ResolveEmits DEF ItemTransaction
-------------------------------------------------------------------------------
(***************************************************************************)
(* The handlers.                                                           *)
(***************************************************************************)

\* What the rows n, after the event, have to do with the rows m before it.
Mirrors(m, n, ev) ==
    /\ n \in Rows /\ n.done = m.done /\ n.checkpoint = m.checkpoint
    /\ \A p \in Orders : Known(m, p) => Known(n, p)
    /\ \A i \in Items : m.item[i] # "absent" => n.item[i] # "absent"
    /\ \A i \in Items : m.dispute[i] => n.dispute[i]
    /\ ev.name = "OrderCreated" =>
          Known(n, ev.order) /\ \A i \in ItemsIn(ev.order) : n.item[i] # "absent"
    /\ \A p \in Orders : ~Moves(ev, p) => n.order[p] = m.order[p]
    /\ \A i \in Items : ~Touches(ev, i) => n.item[i] = m.item[i]
    /\ Moves(ev, ev.order) /\ (Known(m, ev.order) \/ ev.name = "OrderCreated") =>
          n.order[ev.order] = IF ev.name \in Syncing THEN orderStatus[ev.order]
                              ELSE StatusBy(ev.name)
    /\ \A i \in Items :
          /\ Touches(ev, i)
          /\ ev.name # "OrderCreated" => Known(m, ev.order) /\ m.item[i] # "absent"
          /\ ev.name = "AutoRefundInactive" => m.order[ev.order] # "Refunded"
          => n.item[i] = Outcome(ev)
    /\ \A p \in Orders : n.order[p] = "Refunded" =>
          \/ m.order[p] = "Refunded"
          \/ p = ev.order /\ ev.name \in Syncing \cup {"AutoRefundInactive"}
    /\ ev.name = "DisputeOpened" /\ Known(m, ev.order) =>
          \A i \in ev.items : m.item[i] # "absent" => n.dispute[i]

LEMMA SetItemsRows ==
  ASSUME NEW m \in Rows, NEW S, NEW s \in ItemStatuses
  PROVE  LET n == SetItems(m, S, s)
         IN  /\ n \in Rows /\ n.done = m.done /\ n.checkpoint = m.checkpoint
             /\ n.order = m.order /\ n.dispute = m.dispute
             /\ \A i \in Items : n.item[i] = IF i \in S THEN s ELSE m.item[i]
BY DEF SetItems, Rows

LEMMA SetOrderRows ==
  ASSUME NEW m \in Rows, NEW o \in Orders, NEW s \in OrderStatuses
  PROVE  LET n == [m EXCEPT !.order[o] = s]
         IN  /\ n \in Rows /\ n.done = m.done /\ n.checkpoint = m.checkpoint
             /\ n.item = m.item /\ n.dispute = m.dispute
             /\ \A p \in Orders : n.order[p] = IF p = o THEN s ELSE m.order[p]
BY DEF Rows

LEMMA SyncOrderRows ==
  ASSUME LifecycleTypeOK, NEW m \in Rows, NEW o \in Orders
  PROVE  LET n == SyncOrder(m, o)
         IN  /\ n \in Rows /\ n.done = m.done /\ n.checkpoint = m.checkpoint
             /\ n.item = m.item /\ n.dispute = m.dispute
             /\ \A p \in Orders :
                   n.order[p] = IF p = o /\ Known(m, o) THEN orderStatus[o] ELSE m.order[p]
<1>1. orderStatus[o] \in OrderStatuses BY DEF LifecycleTypeOK
<1>2. CASE Known(m, o) BY <1>1, <1>2, SetOrderRows DEF SyncOrder
<1>3. CASE ~Known(m, o) BY <1>3 DEF SyncOrder
<1> QED BY <1>2, <1>3

\* No status is "absent".
LEMMA StatusesAreKnown ==
  ASSUME LifecycleTypeOK
  PROVE  \A o \in Orders : orderStatus[o] # "absent" /\ orderStatus[o] \in OrderStatuses
BY DEF LifecycleTypeOK, OrderStatuses

LEMMA CreatedMirrors ==
  ASSUME NEW m \in Rows, NEW ev \in LogEvent, WellFormed(ev), ev.name = "OrderCreated"
  PROVE  Mirrors(m, HandleOrderCreated(m, ev), ev)
<1> DEFINE m1 == [m EXCEPT !.order[ev.order] = "Created"]
           n == SetItems(m1, ev.items, "Pending")
<1>0. n = HandleOrderCreated(m, ev) BY DEF HandleOrderCreated
<1>1. /\ m1 \in Rows /\ m1.done = m.done /\ m1.checkpoint = m.checkpoint
      /\ m1.item = m.item /\ m1.dispute = m.dispute
      /\ \A p \in Orders : m1.order[p] = IF p = ev.order THEN "Created" ELSE m.order[p]
  BY SetOrderRows DEF OrderStatuses, LogEvent
<1> HIDE DEF m1
<1>2. /\ n \in Rows /\ n.done = m1.done /\ n.checkpoint = m1.checkpoint
      /\ n.order = m1.order /\ n.dispute = m1.dispute
      /\ \A i \in Items : n.item[i] = IF i \in ev.items THEN "Pending" ELSE m1.item[i]
  BY <1>1, SetItemsRows DEF ItemStatuses
<1> HIDE DEF n
<1>3. ev.items = ItemsIn(ev.order) /\ ev.order \in Orders BY DEF WellFormed, LogEvent
<1>4. Mirrors(m, n, ev)
  BY <1>1, <1>2, <1>3
     DEF Mirrors, Known, Moves, Touches, Outcome, StatusBy, Syncing, ItemsIn
<1> QED BY <1>0, <1>4

\* OrderFunded and OrderCompleted set the order's status by their name.
LEMMA NamedMirrors ==
  ASSUME NEW m \in Rows, NEW ev \in LogEvent, ev.name \in {"OrderFunded", "OrderCompleted"},
         NEW s \in {"Funded", "Completed"}, StatusBy(ev.name) = s
  PROVE  Mirrors(m, IF Known(m, ev.order) THEN [m EXCEPT !.order[ev.order] = s] ELSE m, ev)
<1>0. ev.order \in Orders /\ s \in OrderStatuses BY DEF LogEvent, OrderStatuses
<1>1. CASE Known(m, ev.order)
  <2> DEFINE n == [m EXCEPT !.order[ev.order] = s]
  <2>1. /\ n \in Rows /\ n.done = m.done /\ n.checkpoint = m.checkpoint
        /\ n.item = m.item /\ n.dispute = m.dispute
        /\ \A p \in Orders : n.order[p] = IF p = ev.order THEN s ELSE m.order[p]
    BY <1>0, SetOrderRows
  <2> HIDE DEF n
  <2>2. Mirrors(m, n, ev)
    BY <1>0, <1>1, <2>1 DEF Mirrors, Known, Moves, Touches, Syncing
  <2> QED BY <1>1, <2>2 DEF n
<1>2. CASE ~Known(m, ev.order)
  <2>1. Mirrors(m, m, ev)
    BY <1>0, <1>2 DEF Mirrors, Known, Moves, Touches, Syncing
  <2> QED BY <1>2, <2>1
<1> QED BY <1>1, <1>2

LEMMA RefundMirrors ==
  ASSUME NEW m \in Rows, NEW ev \in LogEvent, ev.name = "AutoRefundInactive"
  PROVE  Mirrors(m, HandleAutoRefundInactive(m, ev), ev)
<1> DEFINE m1 == [m EXCEPT !.order[ev.order] = "Refunded"]
           n == SetItems(m1, ItemsIn(ev.order), "Refunded")
<1>0. ev.order \in Orders BY DEF LogEvent
<1>1. CASE Known(m, ev.order) /\ m.order[ev.order] # "Refunded"
  <2>1. /\ m1 \in Rows /\ m1.done = m.done /\ m1.checkpoint = m.checkpoint
        /\ m1.item = m.item /\ m1.dispute = m.dispute
        /\ \A p \in Orders : m1.order[p] = IF p = ev.order THEN "Refunded" ELSE m.order[p]
    BY <1>0, SetOrderRows DEF OrderStatuses
  <2> HIDE DEF m1
  <2>2. /\ n \in Rows /\ n.done = m1.done /\ n.checkpoint = m1.checkpoint
        /\ n.order = m1.order /\ n.dispute = m1.dispute
        /\ \A i \in Items :
              n.item[i] = IF i \in ItemsIn(ev.order) THEN "Refunded" ELSE m1.item[i]
    BY <2>1, SetItemsRows DEF ItemStatuses
  <2>3. n = HandleAutoRefundInactive(m, ev) BY <1>1 DEF HandleAutoRefundInactive, m1
  <2> HIDE DEF n
  <2>4. Mirrors(m, n, ev)
    BY <1>0, <2>1, <2>2
       DEF Mirrors, Known, Moves, Touches, Outcome, StatusBy, Syncing, ItemsIn
  <2> QED BY <2>3, <2>4
<1>2. CASE ~(Known(m, ev.order) /\ m.order[ev.order] # "Refunded")
  <2>1. HandleAutoRefundInactive(m, ev) = m BY <1>2 DEF HandleAutoRefundInactive
  <2>2. Mirrors(m, m, ev)
    BY <1>0, <1>2 DEF Mirrors, Known, Moves, Touches, StatusBy, Syncing
  <2> QED BY <2>1, <2>2
<1> QED BY <1>1, <1>2

LEMMA ShippedMirrors ==
  ASSUME LifecycleTypeOK, NEW m \in Rows, NEW ev \in LogEvent, WellFormed(ev),
         ev.name = "ShipmentGroupCreated"
  PROVE  Mirrors(m, HandleShipmentGroupCreated(m, ev), ev)
<1> DEFINE m1 == SetItems(m, ev.items, "Shipped")
           n == SyncOrder(m1, ev.order)
<1>0. ev.order \in Orders /\ ev.items \subseteq ItemsIn(ev.order) BY DEF LogEvent, WellFormed
<1>1. CASE Known(m, ev.order)
  <2>1. /\ m1 \in Rows /\ m1.done = m.done /\ m1.checkpoint = m.checkpoint
        /\ m1.order = m.order /\ m1.dispute = m.dispute
        /\ \A i \in Items : m1.item[i] = IF i \in ev.items THEN "Shipped" ELSE m.item[i]
    BY SetItemsRows DEF ItemStatuses
  <2> HIDE DEF m1
  <2>2. /\ n \in Rows /\ n.done = m1.done /\ n.checkpoint = m1.checkpoint
        /\ n.item = m1.item /\ n.dispute = m1.dispute
        /\ \A p \in Orders : n.order[p] = IF p = ev.order /\ Known(m1, ev.order)
                                          THEN orderStatus[ev.order] ELSE m1.order[p]
    BY <1>0, <2>1, SyncOrderRows
  <2>3. n = HandleShipmentGroupCreated(m, ev) BY <1>1 DEF HandleShipmentGroupCreated, m1
  <2> HIDE DEF n
  <2>4. Mirrors(m, n, ev)
    BY <1>0, <1>1, <2>1, <2>2, StatusesAreKnown
       DEF Mirrors, Known, Moves, Touches, Outcome, Syncing, ItemsIn
  <2> QED BY <2>3, <2>4
<1>2. CASE ~Known(m, ev.order)
  <2>1. HandleShipmentGroupCreated(m, ev) = m BY <1>2 DEF HandleShipmentGroupCreated
  <2>2. Mirrors(m, m, ev)
    BY <1>0, <1>2 DEF Mirrors, Known, Moves, Touches, Syncing
  <2> QED BY <2>1, <2>2
<1> QED BY <1>1, <1>2

\* ItemReleased and ItemDisputeResolved set the item and read the order's status.
LEMMA SettledMirrors ==
  ASSUME LifecycleTypeOK, NEW m \in Rows, NEW ev \in LogEvent, WellFormed(ev),
         ev.name \in {"ItemReleased", "ItemDisputeResolved"}, NEW s \in Done, Outcome(ev) = s
  PROVE  Mirrors(m, SyncOrder(SetItems(m, KnownItems(m, ev), s), ev.order), ev)
<1> DEFINE m1 == SetItems(m, KnownItems(m, ev), s)
           n == SyncOrder(m1, ev.order)
<1>0. ev.order \in Orders /\ ev.items \subseteq ItemsIn(ev.order) BY DEF LogEvent, WellFormed
<1>1. /\ m1 \in Rows /\ m1.done = m.done /\ m1.checkpoint = m.checkpoint
      /\ m1.order = m.order /\ m1.dispute = m.dispute
      /\ \A i \in Items : m1.item[i] = IF i \in KnownItems(m, ev) THEN s ELSE m.item[i]
  BY SetItemsRows DEF ItemStatuses, Done
<1> HIDE DEF m1
<1>2. /\ n \in Rows /\ n.done = m1.done /\ n.checkpoint = m1.checkpoint
      /\ n.item = m1.item /\ n.dispute = m1.dispute
      /\ \A p \in Orders : n.order[p] = IF p = ev.order /\ Known(m1, ev.order)
                                        THEN orderStatus[ev.order] ELSE m1.order[p]
  BY <1>0, <1>1, SyncOrderRows
<1> HIDE DEF n
<1>3. Mirrors(m, n, ev)
  BY <1>0, <1>1, <1>2, StatusesAreKnown
     DEF Mirrors, Known, KnownItems, Moves, Touches, Syncing, ItemsIn, Done
<1> QED BY <1>3 DEF n, m1

LEMMA DisputedMirrors ==
  ASSUME NEW m \in Rows, NEW ev \in LogEvent, WellFormed(ev), ev.name = "ItemDisputed"
  PROVE  Mirrors(m, HandleItemDisputed(m, ev), ev)
<1> DEFINE n == HandleItemDisputed(m, ev)
<1>0. ev.order \in Orders /\ ev.items \subseteq ItemsIn(ev.order) BY DEF LogEvent, WellFormed
<1>1. /\ n \in Rows /\ n.done = m.done /\ n.checkpoint = m.checkpoint
      /\ n.order = m.order /\ n.dispute = m.dispute
      /\ \A i \in Items : n.item[i] = IF i \in KnownItems(m, ev) THEN "Disputed" ELSE m.item[i]
  BY SetItemsRows DEF HandleItemDisputed, ItemStatuses
<1> HIDE DEF n
<1>2. Mirrors(m, n, ev)
  BY <1>0, <1>1 DEF Mirrors, Known, KnownItems, Moves, Touches, Outcome, Syncing, ItemsIn
<1> QED BY <1>2 DEF n

LEMMA OpenedMirrors ==
  ASSUME NEW m \in Rows, NEW ev \in LogEvent, WellFormed(ev), ev.name = "DisputeOpened"
  PROVE  Mirrors(m, HandleDisputeOpened(m, ev), ev)
<1> DEFINE n == HandleDisputeOpened(m, ev)
<1>0. ev.order \in Orders /\ ev.items \subseteq Items BY DEF LogEvent, WellFormed
<1>1. /\ n \in Rows /\ n.done = m.done /\ n.checkpoint = m.checkpoint
      /\ n.order = m.order /\ n.item = m.item
  BY DEF HandleDisputeOpened, Rows
<1>2. \A i \in Items : m.dispute[i] => n.dispute[i]
  BY DEF HandleDisputeOpened, Rows
<1>3. Known(m, ev.order) => \A i \in ev.items : m.item[i] # "absent" => n.dispute[i]
  BY <1>0 DEF HandleDisputeOpened, KnownItems, Rows
<1> HIDE DEF n
<1>4. Mirrors(m, n, ev)
  BY <1>0, <1>1, <1>2, <1>3 DEF Mirrors, Known, Moves, Touches, Syncing
<1> QED BY <1>4 DEF n

LEMMA HandleMirrors ==
  ASSUME LifecycleTypeOK, NEW m \in Rows, NEW ev \in LogEvent, WellFormed(ev),
         ev.name \in Handled
  PROVE  Mirrors(m, Handle(m, ev), ev)
<1>1. CASE ev.name = "OrderCreated" BY <1>1, CreatedMirrors DEF Handle
<1>2. CASE ev.name = "OrderFunded"
  BY <1>2, NamedMirrors DEF Handle, HandleOrderFunded, StatusBy
<1>3. CASE ev.name = "ShipmentGroupCreated" BY <1>3, ShippedMirrors DEF Handle
<1>4. CASE ev.name = "ItemReleased"
  <2>1. Outcome(ev) = "Released" BY <1>4 DEF Outcome
  <2> QED BY <1>4, <2>1, SettledMirrors DEF Handle, HandleItemReleased, Done
<1>5. CASE ev.name = "OrderCompleted"
  BY <1>5, NamedMirrors DEF Handle, HandleOrderCompleted, StatusBy
<1>6. CASE ev.name = "AutoRefundInactive" BY <1>6, RefundMirrors DEF Handle
<1>7. CASE ev.name = "ItemDisputed" BY <1>7, DisputedMirrors DEF Handle
<1>8. CASE ev.name = "ItemDisputeResolved"
  <2> DEFINE s == IF ev.full THEN "Refunded" ELSE "Released"
  <2>1. Outcome(ev) = s /\ s \in Done BY <1>8 DEF Outcome, Done
  <2>2. Handle(m, ev) = SyncOrder(SetItems(m, KnownItems(m, ev), s), ev.order)
    BY <1>8 DEF Handle, HandleItemDisputeResolved
  <2> HIDE DEF s
  <2> QED BY <1>8, <2>1, <2>2, SettledMirrors
<1>9. CASE ev.name = "DisputeOpened" BY <1>9, OpenedMirrors DEF Handle
<1> QED BY <1>1, <1>2, <1>3, <1>4, <1>5, <1>6, <1>7, <1>8, <1>9 DEF Handled

(***************************************************************************)
(* The rows after the event x is handled and marked as processed.          *)
(***************************************************************************)
After(m, x) == [Handle(m, log[x]) EXCEPT !.done = @ \cup {x}]

LEMMA LogFacts ==
  ASSUME ChainInv
  PROVE  /\ LifecycleTypeOK /\ head \in Nat
         /\ EventIds \subseteq Nat /\ HandledIds \subseteq EventIds
         /\ \A e \in EventIds : /\ log[e] \in LogEvent /\ log[e].order \in Orders
                                /\ WellFormed(log[e]) /\ log[e].block \in 1..head
         /\ \A e \in HandledIds : log[e].name \in Handled
<1>1. log \in Seq(LogEvent) BY DEF ChainInv, LogTypeOK
<1>2. EventIds = 1..Len(log) /\ Len(log) \in Nat BY <1>1, LenProperties DEF EventIds
<1>3. \A e \in EventIds : log[e] \in LogEvent BY <1>1, <1>2, ElementOfSeq
<1>4. \A e \in EventIds : log[e].order \in Orders BY <1>3 DEF LogEvent
<1>5. \A e \in EventIds : WellFormed(log[e]) /\ log[e].block \in 1..head
  BY DEF ChainInv, LogTypeOK, WellFormed
<1> QED BY <1>2, <1>3, <1>4, <1>5 DEF ChainInv, LogTypeOK, HandledIds

LEMMA AfterMirrors ==
  ASSUME ChainInv, NEW m \in Rows, NEW x \in HandledIds
  PROVE  \E n : /\ Mirrors(m, n, log[x])
                /\ After(m, x).order = n.order /\ After(m, x).item = n.item
                /\ After(m, x).dispute = n.dispute /\ After(m, x).checkpoint = m.checkpoint
                /\ After(m, x).done = m.done \cup {x} /\ After(m, x) \in Rows
<1> DEFINE n == Handle(m, log[x])
<1>1. /\ LifecycleTypeOK /\ log[x] \in LogEvent /\ WellFormed(log[x])
      /\ log[x].name \in Handled /\ x \in Nat
  BY LogFacts
<1>2. Mirrors(m, n, log[x]) BY <1>1, HandleMirrors
<1> HIDE DEF n
<1>3. n \in Rows /\ n.done = m.done /\ n.checkpoint = m.checkpoint BY <1>2 DEF Mirrors
<1>4. After(m, x) = [n EXCEPT !.done = @ \cup {x}] BY DEF After, n
<1>5. /\ After(m, x).order = n.order /\ After(m, x).item = n.item
      /\ After(m, x).dispute = n.dispute /\ After(m, x).checkpoint = m.checkpoint
      /\ After(m, x).done = m.done \cup {x} /\ After(m, x) \in Rows
  BY <1>1, <1>3, <1>4 DEF Rows
<1> QED BY <1>2, <1>5

LEMMA AfterKeepsRows ==
  ASSUME ChainInv, NEW m, RowsTypeOK(m), CreatedIsKnown(m), RefundedByEvent(m),
         NEW x \in HandledIds
  PROVE  RowsTypeOK(After(m, x)) /\ CreatedIsKnown(After(m, x)) /\ RefundedByEvent(After(m, x))
<1> DEFINE r == After(m, x)
<1>1. m \in Rows /\ m.done \subseteq HandledIds BY DEF RowsTypeOK
<1>2. PICK n : /\ Mirrors(m, n, log[x])
               /\ r.order = n.order /\ r.item = n.item
               /\ r.dispute = n.dispute /\ r.checkpoint = m.checkpoint
               /\ r.done = m.done \cup {x} /\ r \in Rows
  BY <1>1, AfterMirrors
<1> HIDE DEF r
<1>3. RowsTypeOK(r) BY <1>1, <1>2 DEF RowsTypeOK
<1>4. CreatedIsKnown(r)
  <2> SUFFICES ASSUME NEW c \in r.done, log[c].name = "OrderCreated"
               PROVE  /\ Known(r, log[c].order)
                      /\ \A i \in ItemsIn(log[c].order) : r.item[i] # "absent"
    BY DEF CreatedIsKnown
  <2>0. log[c].order \in Orders BY <1>1, <1>2, LogFacts
  <2>1. CASE c \in m.done
    <3>1. Known(m, log[c].order) /\ \A i \in ItemsIn(log[c].order) : m.item[i] # "absent"
      BY <2>1 DEF CreatedIsKnown
    <3> QED BY <2>0, <3>1, <1>2 DEF Mirrors, Known, ItemsIn
  <2>2. CASE c = x BY <2>2, <1>2 DEF Mirrors, Known
  <2> QED BY <2>1, <2>2, <1>2
<1>5. RefundedByEvent(r)
  <2> SUFFICES ASSUME NEW o \in Orders, r.order[o] = "Refunded"
               PROVE  \E f \in r.done : /\ log[f].order = o
                                        /\ log[f].name \in Syncing \cup {"AutoRefundInactive"}
    BY DEF RefundedByEvent
  <2>1. CASE m.order[o] = "Refunded" BY <2>1, <1>2 DEF RefundedByEvent
  <2>2. CASE o = log[x].order /\ log[x].name \in Syncing \cup {"AutoRefundInactive"}
    BY <2>2, <1>2
  <2> QED BY <2>1, <2>2, <1>2 DEF Mirrors
<1> QED BY <1>3, <1>4, <1>5 DEF r

\* No later event of the contract of x has been processed.
InOrder(m, x) == \A f \in m.done : log[f].contract = log[x].contract => f < x

LEMMA AfterItemsFollow ==
  ASSUME ChainInv, NEW m, RowsTypeOK(m), CreatedIsKnown(m), RefundedByEvent(m),
         ItemsFollow(m), NEW x \in HandledIds, InOrder(m, x)
  PROVE  ItemsFollow(After(m, x))
<1> DEFINE r == After(m, x)
<1>1. m \in Rows /\ m.done \subseteq HandledIds BY DEF RowsTypeOK
<1>2. PICK n : /\ Mirrors(m, n, log[x])
               /\ r.order = n.order /\ r.item = n.item
               /\ r.dispute = n.dispute /\ r.checkpoint = m.checkpoint
               /\ r.done = m.done \cup {x} /\ r \in Rows
  BY <1>1, AfterMirrors
<1> HIDE DEF r
<1>3. \A e \in HandledIds : e \in Nat /\ e \in EventIds /\ WellFormed(log[e])
  BY LogFacts
<1> SUFFICES ASSUME NEW i \in Items, NEW c \in r.done, NEW e \in r.done,
                    log[c].name = "OrderCreated", log[c].order = OrderOf[i],
                    Touches(log[e], i), \A f \in r.done : Touches(log[f], i) => f <= e
             PROVE  r.item[i] = Outcome(log[e])
  BY DEF ItemsFollow, r
<1>4. c \in HandledIds /\ e \in HandledIds /\ x \in r.done /\ m.done \subseteq r.done
  BY <1>1, <1>2
<1>5. Touches(log[c], i) BY <1>3, <1>4 DEF Touches, WellFormed, ItemsIn
<1>6. CASE ~Touches(log[x], i)
  <2>1. c \in m.done /\ e \in m.done BY <1>2, <1>5, <1>6
  <2>2. m.item[i] = Outcome(log[e]) BY <1>4, <2>1 DEF ItemsFollow
  <2> QED BY <1>2, <1>6, <2>2 DEF Mirrors
<1>7. CASE Touches(log[x], i)
  <2> DEFINE o == log[x].order
  <2>1. \A f \in HandledIds : Touches(log[f], i) =>
            log[f].contract = "EtaloEscrow" /\ log[f].order = OrderOf[i]
    BY <1>3 DEF Touches, Syncing, WellFormed, ItemsIn
  <2>2. e = x
    <3>1. x <= e BY <1>4, <1>7
    <3>2. e \in m.done => e < x BY <1>4, <1>7, <2>1 DEF InOrder
    <3> QED BY <1>2, <1>3, <1>4, <3>1, <3>2
  <2>3. o = OrderOf[i] /\ i \in ItemsIn(o) BY <1>7, <2>1 DEF ItemsIn
  <2>4. log[x].name # "OrderCreated" => Known(m, o) /\ m.item[i] # "absent"
    <3> SUFFICES ASSUME log[x].name # "OrderCreated" PROVE Known(m, o) /\ m.item[i] # "absent"
      OBVIOUS
    <3>1. c \in m.done BY <1>2
    <3> QED BY <2>3, <3>1 DEF CreatedIsKnown
  <2>5. log[x].name = "AutoRefundInactive" => m.order[o] # "Refunded"
    <3> SUFFICES ASSUME log[x].name = "AutoRefundInactive", m.order[o] = "Refunded" PROVE FALSE
      OBVIOUS
    <3>1. o \in Orders BY LogFacts, <1>3
    <3>2. PICK f \in m.done : /\ log[f].order = o
                              /\ log[f].name \in Syncing \cup {"AutoRefundInactive"}
      BY <3>1 DEF RefundedByEvent
    <3>3. f \in HandledIds /\ WellFormed(log[f]) BY <1>1, <1>3
    <3>4. log[f].contract = log[x].contract
      BY <1>7, <2>1, <3>2, <3>3 DEF WellFormed, Syncing
    <3>5. f < x BY <3>4 DEF InOrder
    <3>6. log[f].name \in Quiet
      BY <1>3, <3>2, <3>3, <3>5 DEF ChainInv, QuietWhileFunded
    <3> QED BY <3>2, <3>6 DEF Quiet, Syncing
  <2>6. n.item[i] = Outcome(log[x]) BY <1>2, <1>7, <2>4, <2>5 DEF Mirrors
  <2> QED BY <1>2, <2>2, <2>6
<1> QED BY <1>6, <1>7

LEMMA AfterOrdersFollow ==
  ASSUME ChainInv, NEW m, RowsTypeOK(m), CreatedIsKnown(m), OrdersFollow(m),
         NEW x \in HandledIds, InOrder(m, x)
  PROVE  OrdersFollow(After(m, x))
<1> DEFINE r == After(m, x)
<1>1. m \in Rows /\ m.done \subseteq HandledIds BY DEF RowsTypeOK
<1>2. PICK n : /\ Mirrors(m, n, log[x])
               /\ r.order = n.order /\ r.item = n.item
               /\ r.dispute = n.dispute /\ r.checkpoint = m.checkpoint
               /\ r.done = m.done \cup {x} /\ r \in Rows
  BY <1>1, AfterMirrors
<1> HIDE DEF r
<1>3. \A e \in HandledIds : /\ e \in Nat /\ e \in EventIds /\ WellFormed(log[e])
                            /\ log[e].name \in Handled /\ log[e].order \in Orders
  BY LogFacts
<1> SUFFICES ASSUME NEW o \in Orders, NEW c \in r.done,
                    log[c].name = "OrderCreated", log[c].order = o,
                    \A e \in EventIds : Moves(log[e], o) => e \in r.done
             PROVE  r.order[o] = orderStatus[o]
  BY DEF OrdersFollow, r
<1>4. CASE ~Moves(log[x], o)
  <2>1. c \in m.done BY <1>2, <1>4 DEF Moves
  <2>2. \A e \in EventIds : Moves(log[e], o) => e \in m.done BY <1>2, <1>4
  <2>3. m.order[o] = orderStatus[o] BY <2>1, <2>2 DEF OrdersFollow
  <2> QED BY <1>2, <1>4, <2>3 DEF Mirrors
<1>5. CASE Moves(log[x], o)
  <2>1. log[x].order = o BY <1>5 DEF Moves
  <2>2. log[x].name # "OrderCreated" => Known(m, o)
    <3> SUFFICES ASSUME log[x].name # "OrderCreated" PROVE Known(m, o) OBVIOUS
    <3>1. c \in m.done BY <1>2
    <3> QED BY <3>1 DEF CreatedIsKnown
  <2>3. n.order[o] = IF log[x].name \in Syncing THEN orderStatus[o] ELSE StatusBy(log[x].name)
    BY <1>2, <1>5, <2>1, <2>2 DEF Mirrors
  <2>4. CASE log[x].name \in Syncing BY <1>2, <2>3, <2>4
  <2>5. CASE log[x].name \notin Syncing
    <3>1. log[x].name \in {"OrderCreated", "OrderFunded", "OrderCompleted",
                           "AutoRefundInactive"}
      BY <1>3, <1>5, <2>5 DEF Moves, Syncing, Handled
    <3>2. ASSUME NEW f \in EventIds, Moves(log[f], o) PROVE f <= x
      <4>1. f = x \/ f \in m.done BY <1>2, <3>2
      <4>2. CASE f = x BY <1>3, <4>2
      <4>3. CASE f \in m.done
        <5>1. f \in HandledIds /\ f \in Nat BY <1>1, <1>3, <4>3
        <5>2. log[f].contract = log[x].contract
          BY <1>3, <1>5, <3>2, <5>1 DEF Moves, WellFormed
        <5>3. f < x BY <4>3, <5>2 DEF InOrder
        <5> QED BY <1>3, <5>1, <5>3
      <4> QED BY <4>1, <4>2, <4>3
    <3>3. orderStatus[o] = StatusBy(log[x].name)
      BY <1>3, <1>5, <2>1, <3>1, <3>2 DEF ChainInv, LogTellsStatus
    <3> QED BY <1>2, <2>3, <2>5, <3>3
  <2> QED BY <2>4, <2>5
<1> QED BY <1>4, <1>5

LEMMA AfterHasDisputes ==
  ASSUME ChainInv, NEW m, RowsTypeOK(m), CreatedIsKnown(m), DisputesHaveRows(m),
         NEW x \in HandledIds,
         log[x].name = "DisputeOpened" =>
             \E c \in m.done : log[c].name = "OrderCreated" /\ log[c].order = log[x].order
  PROVE  DisputesHaveRows(After(m, x))
<1> DEFINE r == After(m, x)
<1>1. m \in Rows /\ m.done \subseteq HandledIds BY DEF RowsTypeOK
<1>2. PICK n : /\ Mirrors(m, n, log[x])
               /\ r.order = n.order /\ r.item = n.item
               /\ r.dispute = n.dispute /\ r.checkpoint = m.checkpoint
               /\ r.done = m.done \cup {x} /\ r \in Rows
  BY <1>1, AfterMirrors
<1> HIDE DEF r
<1>3. \A e \in HandledIds : log[e].items \subseteq ItemsIn(log[e].order)
  BY LogFacts DEF WellFormed
<1> SUFFICES ASSUME NEW e \in r.done, log[e].name = "DisputeOpened", NEW i \in log[e].items
             PROVE  r.dispute[i]
  BY DEF DisputesHaveRows, r
<1>4. e \in HandledIds BY <1>1, <1>2
<1>5. i \in Items /\ i \in ItemsIn(log[e].order) BY <1>3, <1>4 DEF ItemsIn
<1>6. CASE e \in m.done
  <2>1. m.dispute[i] BY <1>6 DEF DisputesHaveRows
  <2> QED BY <1>2, <1>5, <2>1 DEF Mirrors
<1>7. CASE e = x
  <2>1. PICK c \in m.done : log[c].name = "OrderCreated" /\ log[c].order = log[x].order
    BY <1>7
  <2>2. Known(m, log[x].order) /\ m.item[i] # "absent" BY <1>5, <1>7, <2>1 DEF CreatedIsKnown
  <2> QED BY <1>2, <1>7, <2>2 DEF Mirrors
<1> QED BY <1>2, <1>6, <1>7
-------------------------------------------------------------------------------
(***************************************************************************)
(* The steps of the chain, as the mirror sees them.                        *)
(***************************************************************************)
ChainAppends ==
    /\ head \in Nat /\ head' \in Nat /\ head <= head'
    /\ \A e \in EventIds : e \in EventIds' /\ log'[e] = log[e]
    /\ \A n \in NewIds : log'[n].block = head + 1 /\ head + 1 <= head'
    /\ \A o \in Orders :
          (\A n \in NewIds : ~Moves(log'[n], o)) => orderStatus'[o] = orderStatus[o]

LEMMA EmittedAppends ==
  ASSUME ChainInv, NEW o \in Orders, Emitted(o)
  PROVE  ChainAppends
<1>1. head \in Nat BY LogFacts
<1>2. LogGrows /\ OnlyTheOrder(o) /\ EventsOf(o) /\ TellsOrder(o) BY DEF Emitted
<1>3. ASSUME NEW p \in Orders, \A n \in NewIds : ~Moves(log'[n], p)
      PROVE  orderStatus'[p] = orderStatus[p]
  <2>1. CASE p = o BY <1>2, <1>3, <2>1 DEF TellsOrder
  <2>2. CASE p # o BY <1>2, <2>2 DEF OnlyTheOrder
  <2> QED BY <2>1, <2>2
<1> QED BY <1>1, <1>2, <1>3 DEF ChainAppends, LogGrows, EventsOf

LEMMA TimeKeepsChain ==
  ASSUME ChainInv, TimePasses, UNCHANGED <<head, log>>
  PROVE  ChainInv' /\ ChainAppends
<1> USE DEF TimePasses, EventIds
<1>1. /\ LifecycleTypeOK'
      /\ \A o \in Orders : refundTimer'[o] = "none" <=> refundTimer[o] = "none"
      /\ \A i \in Items : releaseTimer'[i] = "none" <=> releaseTimer[i] = "none"
  <2>1. LifecycleTypeOK BY DEF ChainInv
  <2>2. /\ refundTimer' \in [Orders -> Timer]
        /\ \A o \in Orders : refundTimer'[o] = "none" <=> refundTimer[o] = "none"
    BY <2>1 DEF LifecycleTypeOK, Timer
  <2>3. /\ releaseTimer' \in [Items -> Timer]
        /\ \A i \in Items : releaseTimer'[i] = "none" <=> releaseTimer[i] = "none"
    BY <2>1 DEF LifecycleTypeOK, Timer
  <2> QED BY <2>1, <2>2, <2>3 DEF LifecycleTypeOK
<1>2. Untouched' BY <1>1 DEF ChainInv, Untouched, ItemsIn
<1>3. LogTypeOK' BY DEF ChainInv, LogTypeOK
<1>4. BeginsWithCreation' BY DEF ChainInv, BeginsWithCreation
<1>5. DisputesComeLater'
  <2>1. \A e \in EventIds : log[e].order \in Orders BY LogFacts
  <2> QED BY <1>1, <2>1 DEF ChainInv, DisputesComeLater
<1>6. QuietWhileFunded' BY DEF ChainInv, QuietWhileFunded
<1>7. LogTellsStatus' BY DEF ChainInv, LogTellsStatus
<1>8. ChainAppends BY LogFacts DEF ChainAppends, NewIds
<1> QED BY <1>1, <1>2, <1>3, <1>4, <1>5, <1>6, <1>7, <1>8 DEF ChainInv

LEMMA EmptyBlockKeepsChain ==
  ASSUME ChainInv, Mine(<<>>), UNCHANGED lifecycleVars
  PROVE  ChainInv' /\ ChainAppends
<1> USE DEF lifecycleVars, EventIds
<1>1. LogTypeOK BY DEF ChainInv
<1>2. head' = head + 1 /\ log' = log /\ head \in Nat
  <2>1. log \in Seq(LogEvent) BY <1>1 DEF LogTypeOK
  <2> QED BY <1>1, <2>1, ConcatEmptySeq DEF LogTypeOK, Mine
<1>3. LifecycleTypeOK' BY DEF ChainInv, LifecycleTypeOK
<1>4. Untouched' BY DEF ChainInv, Untouched, ItemsIn
<1>5. LogTypeOK' BY <1>1, <1>2 DEF LogTypeOK
<1>6. BeginsWithCreation' BY <1>2 DEF ChainInv, BeginsWithCreation
<1>7. DisputesComeLater'
  <2>1. \A e \in EventIds : log[e].block \in 1..head BY LogFacts
  <2> QED BY <1>2, <2>1 DEF ChainInv, DisputesComeLater
<1>8. QuietWhileFunded' BY <1>2 DEF ChainInv, QuietWhileFunded
<1>9. LogTellsStatus' BY <1>2 DEF ChainInv, LogTellsStatus
<1>10. ChainAppends BY <1>2 DEF ChainAppends, NewIds
<1> QED BY <1>3, <1>4, <1>5, <1>6, <1>7, <1>8, <1>9, <1>10 DEF ChainInv

LEMMA TransactionsLeaveIndexer ==
  ASSUME Chain
  PROVE  UNCHANGED indexerVars
<1>1. ASSUME NEW o \in Orders, OrderTransaction(o) PROVE UNCHANGED indexerVars
  BY <1>1 DEF OrderTransaction, Mine
<1>2. ASSUME NEW i \in Items, ItemTransaction(i) PROVE UNCHANGED indexerVars
  BY <1>2 DEF ItemTransaction, Mine
<1> QED BY <1>1, <1>2 DEF Chain, Mine

LEMMA ChainStep ==
  ASSUME ChainInv, Chain
  PROVE  ChainInv' /\ ChainAppends /\ UNCHANGED indexerVars
<1>1. ASSUME NEW o \in Orders, OrderTransaction(o) PROVE ChainInv' /\ ChainAppends
  BY <1>1, OrderTransactionEmits, EmittedKeepsChain, EmittedAppends
<1>2. ASSUME NEW i \in Items, ItemTransaction(i) PROVE ChainInv' /\ ChainAppends
  BY <1>2, ItemTransactionEmits, ItemsInOrder, EmittedKeepsChain, EmittedAppends
<1>3. ASSUME TimePasses, UNCHANGED <<head, log, indexerVars>>
      PROVE  ChainInv' /\ ChainAppends
  BY <1>3, TimeKeepsChain
<1>4. ASSUME Mine(<<>>), UNCHANGED lifecycleVars PROVE ChainInv' /\ ChainAppends
  BY <1>4, EmptyBlockKeepsChain
<1> QED BY <1>1, <1>2, <1>3, <1>4, TransactionsLeaveIndexer DEF Chain

\* Rows that do not change stay true of the longer log.
LEMMA ChainKeepsRows ==
  ASSUME ChainInv, ChainAppends, NEW m, MirrorInv(m), UNCHANGED <<undone, late, skipped>>
  PROVE  MirrorInv(m)'
<1> USE DEF ChainAppends
<1>1. RowsTypeOK(m) /\ m \in Rows /\ m.done \subseteq HandledIds BY DEF MirrorInv, RowsTypeOK
<1>2. \A e \in m.done : e \in EventIds /\ e \in EventIds' /\ log'[e] = log[e]
  BY <1>1 DEF HandledIds
<1>3. RowsTypeOK(m)'
  <2>1. m.done \subseteq HandledIds' BY <1>1, <1>2 DEF HandledIds
  <2>2. \A k \in DOMAIN Polled : m.checkpoint[k] \in Nat BY <1>1 DEF Rows
  <2>3. \A k \in DOMAIN Polled : m.checkpoint[k] <= head' BY <1>1, <2>2 DEF RowsTypeOK
  <2> QED BY <1>1, <2>1, <2>3 DEF RowsTypeOK
<1>4. CreatedIsKnown(m)' BY <1>2 DEF MirrorInv, CreatedIsKnown, Known, ItemsIn
<1>5. RefundedByEvent(m)' BY <1>2 DEF MirrorInv, RefundedByEvent
<1>6. ItemsFollow(m) => ItemsFollow(m)' BY <1>2 DEF ItemsFollow
<1>7. OrdersFollow(m) => OrdersFollow(m)'
  <2> SUFFICES ASSUME OrdersFollow(m), NEW o \in Orders,
                      NEW c \in m.done, log'[c].name = "OrderCreated", log'[c].order = o,
                      \A e \in EventIds' : Moves(log'[e], o) => e \in m.done
               PROVE  m.order[o] = orderStatus'[o]
    BY DEF OrdersFollow, Moves
  <2>1. \A e \in EventIds : Moves(log[e], o) => e \in m.done OBVIOUS
  <2>2. m.order[o] = orderStatus[o] BY <1>2, <2>1 DEF OrdersFollow
  <2>3. \A n \in NewIds : ~Moves(log'[n], o) BY <1>2 DEF NewIds
  <2> QED BY <2>2, <2>3
<1>8. DisputesHaveRows(m) => DisputesHaveRows(m)' BY <1>2 DEF DisputesHaveRows
<1> QED BY <1>3, <1>4, <1>5, <1>6, <1>7, <1>8 DEF MirrorInv, LagIsShort

\* The rows of the session and of the database are those that follow.
LEMMA RowsFollow ==
  ASSUME NEW m, MirrorInv(m)'
  PROVE  /\ m = ses' => MirrorInv(ses)'
         /\ m = db' => MirrorInv(db)'
BY DEF MirrorInv, RowsTypeOK, CreatedIsKnown, Known, RefundedByEvent, ItemsFollow, OrdersFollow,
       DisputesHaveRows

LEMMA ChainKeepsMirrors ==
  ASSUME ChainInv, ChainAppends, MirrorInv(ses), MirrorInv(db), UNCHANGED indexerVars
  PROVE  MirrorInv(ses)' /\ MirrorInv(db)'
<1> USE DEF indexerVars
<1>1. PICK m : m = ses OBVIOUS
<1>2. PICK d : d = db OBVIOUS
<1>3. MirrorInv(m) /\ MirrorInv(d) BY <1>1, <1>2
<1>4. MirrorInv(m)' /\ MirrorInv(d)' BY <1>3, ChainKeepsRows
<1>5. m = ses' /\ d = db' BY <1>1, <1>2
<1> QED BY <1>4, <1>5, RowsFollow

LEMMA ChainKeepsPoll ==
  ASSUME ChainInv, ChainAppends, MirrorInv(db), PollInv, UNCHANGED indexerVars
  PROVE  PollInv'
<1> USE DEF indexerVars, ChainAppends, PollInv
<1>1. \A e \in HandledIds' : \/ e \in HandledIds /\ log'[e] = log[e]
                             \/ log'[e].block = head + 1
  BY DEF HandledIds, NewIds
<1>2. HandledIds \subseteq HandledIds' BY DEF HandledIds
<1>3. poll.to \in Nat /\ poll.to <= head /\ MaxLag \in Nat /\ REORG_DEPTH \in Nat
  BY IndexerAssumption DEF PollTypeOK
<1>4. \A k \in DOMAIN Polled : db.checkpoint[k] \in Nat /\ db.checkpoint[k] <= head
  BY DEF MirrorInv, RowsTypeOK, Rows
<1>5. PollTypeOK'
  <2>1. \A e \in poll.fetched : e \in EventIds BY DEF PollTypeOK, HandledIds
  <2> QED BY <1>2, <1>3, <2>1 DEF PollTypeOK, Idle
<1>6. BehindCheckpoint'
  BY <1>1, <1>3, <1>4 DEF BehindCheckpoint, LagIsShort, Accounted
<1>7. BehindPoll'
  BY <1>1, <1>3 DEF BehindPoll, LagIsShort, Idle, Visible, Accounted
<1>8. EscrowRead'
  BY <1>1, <1>3 DEF EscrowRead, LagIsShort, Visible, Accounted
<1> QED BY <1>5, <1>6, <1>7, <1>8

LEMMA ChainKeepsInv ==
  ASSUME IndexerInv, Chain
  PROVE  IndexerInv'
<1>1. ChainInv' /\ ChainAppends /\ UNCHANGED indexerVars BY ChainStep DEF IndexerInv
<1> QED BY <1>1, ChainKeepsMirrors, ChainKeepsPoll DEF IndexerInv
-------------------------------------------------------------------------------
(***************************************************************************)
(* The steps of the poller.                                                *)
(***************************************************************************)
LEMMA SameChain ==
  ASSUME ChainInv, UNCHANGED chainVars
  PROVE  /\ ChainInv' /\ EventIds' = EventIds /\ HandledIds' = HandledIds /\ head' = head
         /\ log' = log
<1> USE DEF chainVars, lifecycleVars, EventIds, HandledIds
<1>1. LifecycleTypeOK' BY DEF ChainInv, LifecycleTypeOK
<1>2. Untouched' BY DEF ChainInv, Untouched
<1>3. LogTypeOK' BY DEF ChainInv, LogTypeOK
<1>4. BeginsWithCreation' BY DEF ChainInv, BeginsWithCreation
<1>5. DisputesComeLater' BY DEF ChainInv, DisputesComeLater
<1>6. QuietWhileFunded' BY DEF ChainInv, QuietWhileFunded
<1>7. LogTellsStatus' BY DEF ChainInv, LogTellsStatus
<1> QED BY <1>1, <1>2, <1>3, <1>4, <1>5, <1>6, <1>7 DEF ChainInv

LEMMA SameRows ==
  ASSUME ChainInv, UNCHANGED chainVars, NEW m,
         RowsTypeOK(m), CreatedIsKnown(m), RefundedByEvent(m),
         late' = {} => ItemsFollow(m) /\ OrdersFollow(m),
         LagIsShort /\ MaxLag <= 2 /\ undone' = {} /\ skipped' = {} => DisputesHaveRows(m)
  PROVE  MirrorInv(m)'
<1> USE DEF chainVars, lifecycleVars
<1>1. EventIds' = EventIds /\ HandledIds' = HandledIds BY SameChain
<1>2. RowsTypeOK(m)' BY <1>1 DEF RowsTypeOK
<1>3. CreatedIsKnown(m)' BY DEF CreatedIsKnown, Known, ItemsIn
<1>4. RefundedByEvent(m)' BY DEF RefundedByEvent
<1>5. ItemsFollow(m) => ItemsFollow(m)' BY DEF ItemsFollow
<1>6. OrdersFollow(m) => OrdersFollow(m)' BY <1>1 DEF OrdersFollow
<1>7. DisputesHaveRows(m) => DisputesHaveRows(m)' BY DEF DisputesHaveRows
<1> QED BY <1>2, <1>3, <1>4, <1>5, <1>6, <1>7 DEF MirrorInv, LagIsShort

LEMMA KeptRows ==
  ASSUME ChainInv, UNCHANGED chainVars, NEW m, MirrorInv(m),
         late \subseteq late', undone \subseteq undone', skipped \subseteq skipped'
  PROVE  MirrorInv(m)'
<1>1. late' = {} => ItemsFollow(m) /\ OrdersFollow(m) BY DEF MirrorInv
<1>2. LagIsShort /\ MaxLag <= 2 /\ undone' = {} /\ skipped' = {} => DisputesHaveRows(m)
  BY DEF MirrorInv
<1> QED BY <1>1, <1>2, SameRows DEF MirrorInv

\* The session and the database keep their rows, or the session goes back to the database.
LEMMA KeptMirrors ==
  ASSUME IndexerInv, UNCHANGED chainVars, ses' = ses \/ ses' = db, db' = db,
         late \subseteq late', undone \subseteq undone', skipped \subseteq skipped'
  PROVE  ChainInv' /\ MirrorInv(ses)' /\ MirrorInv(db)'
<1>1. ChainInv' BY SameChain DEF IndexerInv
<1>2. PICK m : m = ses' OBVIOUS
<1>3. PICK d : d = db OBVIOUS
<1>4. MirrorInv(m) /\ MirrorInv(d) BY <1>2, <1>3 DEF IndexerInv
<1>5. MirrorInv(m)' /\ MirrorInv(d)' BY <1>4, KeptRows DEF IndexerInv
<1>6. m = ses' /\ d = db' BY <1>2, <1>3
<1> QED BY <1>1, <1>5, <1>6, RowsFollow

LEMMA TwoContracts ==
  /\ DOMAIN Polled = {1, 2} /\ Polled[1] = "EtaloEscrow" /\ Polled[2] = "EtaloDispute"
BY DEF Polled

LEMMA ReadFrom ==
  ASSUME ChainInv, NEW m \in Rows, NEW k \in {1, 2}
  PROVE  /\ FirstBlock(k, m) \in Nat
         /\ \A e \in HandledIds :
               log[e].block < FirstBlock(k, m) <=> log[e].block + REORG_DEPTH <= m.checkpoint[k]
<1>1. m.checkpoint[k] \in Nat BY TwoContracts DEF Rows
<1>2. \A e \in HandledIds : log[e].block \in Nat /\ log[e].block >= 1 BY LogFacts
<1> QED BY <1>1, <1>2, FirstBlockIs

LEMMA StartCycleKeepsInv ==
  ASSUME IndexerInv, StartCycle
  PROVE  IndexerInv'
<1> USE DEF StartCycle, IndexerInv
<1>1. UNCHANGED chainVars OBVIOUS
<1>2. /\ ChainInv' /\ EventIds' = EventIds /\ HandledIds' = HandledIds
      /\ head' = head /\ log' = log
  BY <1>1, SameChain
<1>3. MirrorInv(ses)' /\ MirrorInv(db)' BY <1>1, KeptMirrors
<1>4. db \in Rows /\ db.done \subseteq HandledIds BY DEF MirrorInv, RowsTypeOK
<1>5. poll' = [contract |-> 1, to |-> head, next |-> FirstBlock(1, db), fetched |-> {}]
  BY TwoContracts DEF OpenSession
<1>6. head \in Nat /\ FirstBlock(1, db) \in Nat BY <1>4, LogFacts, ReadFrom
<1>7. PollTypeOK'
  BY <1>2, <1>5, <1>6, TwoContracts DEF PollInv, PollTypeOK, Idle
<1>8. BehindCheckpoint' BY <1>2 DEF PollInv, BehindCheckpoint, LagIsShort, Accounted
<1>9. BehindPoll'
  <2>1. \A e \in HandledIds : log[e].block < FirstBlock(1, db) =>
            log[e].block + REORG_DEPTH <= db.checkpoint[1]
    BY <1>4, ReadFrom
  <2> QED BY <1>2, <1>5, <2>1, TwoContracts
          DEF PollInv, BehindPoll, BehindCheckpoint, LagIsShort, Accounted
<1>10. EscrowRead' BY <1>5 DEF EscrowRead
<1> QED BY <1>2, <1>3, <1>7, <1>8, <1>9, <1>10 DEF PollInv

LEMMA FetchChunkKeepsInv ==
  ASSUME IndexerInv, FetchChunk
  PROVE  IndexerInv'
<1> USE DEF IndexerInv
<1>0. UNCHANGED <<chainVars, db, ses, undone, late, skipped>> BY DEF FetchChunk
<1>1. UNCHANGED chainVars BY <1>0
<1>2. /\ ChainInv' /\ EventIds' = EventIds /\ HandledIds' = HandledIds
      /\ head' = head /\ log' = log
  BY <1>1, SameChain
<1>3. MirrorInv(ses)' /\ MirrorInv(db)' BY <1>0, KeptMirrors
<1>4. PICK lag \in 0..MaxLag :
          /\ IF lag = 0 THEN UNCHANGED faults ELSE Fault
          /\ LET last  == poll.next + CHUNK - 1
                 end   == IF last < poll.to THEN last ELSE poll.to
                 found == {e \in Unprocessed(poll.next, end) : log[e].block <= head - lag}
             IN  poll' = [poll EXCEPT !.next = end + 1, !.fetched = found]
  BY DEF FetchChunk
<1> DEFINE last  == poll.next + CHUNK - 1
           end   == IF last < poll.to THEN last ELSE poll.to
           found == {e \in Unprocessed(poll.next, end) : log[e].block <= head - lag}
<1>5. ~Idle /\ poll.fetched = {} /\ poll.next <= poll.to BY DEF FetchChunk, ChunkPending
<1>6. /\ CHUNK \in Nat /\ MaxLag \in Nat /\ MaxFaults \in Nat
      /\ poll.next \in Nat /\ poll.to \in Nat /\ poll.to <= head /\ head \in Nat
      /\ poll.contract \in {1, 2}
  BY <1>5, IndexerAssumption, LogFacts, TwoContracts DEF PollInv, PollTypeOK, Idle
<1>7. end \in Int /\ end + 1 \in Nat /\ end <= poll.to BY <1>5, <1>6
<1>8. /\ poll'.contract = poll.contract /\ poll'.to = poll.to /\ poll'.next = end + 1
      /\ poll'.fetched = found
      /\ poll' = [contract |-> poll.contract, to |-> poll.to, next |-> end + 1, fetched |-> found]
  BY <1>4 DEF PollInv, PollTypeOK
<1> HIDE DEF end
<1>9. /\ found \subseteq HandledIds \ ses.done
      /\ \A e \in found : log[e].contract = Polled[poll.contract] /\ log[e].block <= poll.to
  <2>1. ASSUME NEW e \in found PROVE log[e].block <= poll.to
    <3>1. e \in HandledIds /\ log[e].block \in poll.next..end
      BY DEF Unprocessed, EventsIn
    <3>2. log[e].block \in Nat BY <3>1, LogFacts
    <3> QED BY <1>6, <1>7, <3>1, <3>2
  <2> QED BY <2>1 DEF Unprocessed, EventsIn
<1>10. \A e \in HandledIds :
          /\ log[e].contract = Polled[poll.contract] /\ log[e].block < end + 1 /\ Visible(e)
          => log[e].block < poll.next \/ e \in ses.done \cup found
  <2> SUFFICES ASSUME NEW e \in HandledIds, log[e].contract = Polled[poll.contract],
                      log[e].block < end + 1, Visible(e), ~(log[e].block < poll.next),
                      e \notin ses.done
               PROVE  e \in found
    OBVIOUS
  <2>1. log[e].block \in Nat BY LogFacts
  <2>2. log[e].block \in poll.next..end BY <1>6, <1>7, <2>1
  <2>3. log[e].block <= head - lag BY <1>6, <2>1 DEF Visible
  <2> QED BY <2>2, <2>3 DEF Unprocessed, EventsIn
<1> HIDE DEF found
<1>11. faults' \in 0..MaxFaults
  BY <1>4, <1>6 DEF Fault, PollInv, PollTypeOK
<1>12. PollTypeOK'
  <2>1. found \in SUBSET Nat BY <1>9, LogFacts
  <2> QED BY <1>0, <1>2, <1>5, <1>6, <1>7, <1>8, <1>9, <1>11, <2>1, TwoContracts
          DEF PollInv, PollTypeOK, Idle
<1>13. BehindCheckpoint' BY <1>0, <1>2 DEF PollInv, BehindCheckpoint, LagIsShort, Accounted
<1>14. BehindPoll'
  <2>1. ASSUME LagIsShort, NEW e \in HandledIds, log[e].contract = Polled[poll.contract],
               log[e].block < end + 1, Visible(e)
        PROVE  Accounted(e, ses.done \cup found)
    <3>1. CASE log[e].block < poll.next
      BY <1>5, <2>1, <3>1 DEF PollInv, BehindPoll, Accounted
    <3>2. CASE e \in ses.done \cup found BY <3>2 DEF Accounted
    <3> QED BY <1>10, <2>1, <3>1, <3>2
  <2> QED BY <1>0, <1>2, <1>8, <2>1 DEF BehindPoll, LagIsShort, Visible, Accounted
<1>15. EscrowRead'
  BY <1>0, <1>2, <1>8 DEF PollInv, EscrowRead, LagIsShort, Visible, Accounted
<1> QED BY <1>2, <1>3, <1>12, <1>13, <1>14, <1>15 DEF PollInv

\* The event handled next is one of those fetched.
LEMMA CurrentIsFetched ==
  ASSUME IndexerInv, poll.fetched # {}
  PROVE  /\ Current \in poll.fetched /\ Current \in HandledIds /\ Current \notin ses.done
         /\ ~Idle /\ poll.contract \in {1, 2}
         /\ log[Current].contract = Polled[poll.contract]
         /\ log[Current].block <= poll.to
<1>1. PollTypeOK /\ poll.fetched \in SUBSET Nat BY DEF IndexerInv, PollInv, PollTypeOK
<1>2. Current \in poll.fetched BY <1>1, HasMin DEF Current
<1> QED BY <1>1, <1>2, TwoContracts DEF PollTypeOK, Idle

LEMMA NextEventIs ==
  ASSUME PollTypeOK, NextEvent
  PROVE  /\ poll'.contract = poll.contract /\ poll'.to = poll.to /\ poll'.next = poll.next
         /\ poll'.fetched = poll.fetched \ {Current}
         /\ poll' \in [contract : {0} \cup DOMAIN Polled, to : Nat, next : Nat,
                       fetched : SUBSET Nat]
BY DEF PollTypeOK, NextEvent

LEMMA RunHandlerKeepsRows ==
  ASSUME IndexerInv, RunHandler
  PROVE  MirrorInv(ses)' /\ MirrorInv(db)'
<1> DEFINE x == Current
           r == After(ses, x)
<1>1. poll.fetched # {} /\ UNCHANGED <<chainVars, db, undone, skipped>> BY DEF RunHandler
<1>2. ses' = r BY DEF RunHandler, After
<1>3. late' = late \cup {e \in {x} : \E f \in ses.done :
                            f > e /\ log[f].contract = log[e].contract}
  BY DEF RunHandler
<1>4. /\ x \in HandledIds /\ x \notin ses.done /\ poll.contract \in {1, 2}
      /\ log[x].contract = Polled[poll.contract] /\ log[x].block <= poll.to
  BY <1>1, CurrentIsFetched
<1> HIDE DEF x
<1>5. ChainInv /\ MirrorInv(ses) /\ MirrorInv(db) /\ PollInv BY DEF IndexerInv
<1>6. RowsTypeOK(ses) /\ CreatedIsKnown(ses) /\ RefundedByEvent(ses)
  BY <1>5 DEF MirrorInv
<1>7. RowsTypeOK(r) /\ CreatedIsKnown(r) /\ RefundedByEvent(r)
  BY <1>4, <1>5, <1>6, AfterKeepsRows
<1>8. ASSUME late' = {} PROVE ItemsFollow(r) /\ OrdersFollow(r)
  <2>1. late = {} BY <1>3, <1>8
  <2>2. ASSUME NEW f \in ses.done, log[f].contract = log[x].contract PROVE f < x
    <3>1. ~(f > x) BY <1>3, <1>8, <2>2
    <3>2. f \in HandledIds /\ f \in Nat /\ x \in Nat BY <1>4, <1>5, <1>6, LogFacts DEF RowsTypeOK
    <3> QED BY <1>4, <3>1, <3>2
  <2>3. InOrder(ses, x) BY <2>2 DEF InOrder
  <2>4. ItemsFollow(ses) /\ OrdersFollow(ses) BY <1>5, <2>1 DEF MirrorInv
  <2> QED BY <1>4, <1>5, <1>6, <2>3, <2>4, AfterItemsFollow, AfterOrdersFollow
<1>9. ASSUME LagIsShort, MaxLag <= 2, undone' = {}, skipped' = {} PROVE DisputesHaveRows(r)
  <2>1. undone = {} /\ skipped = {} BY <1>1, <1>9
  <2>2. DisputesHaveRows(ses) BY <1>5, <1>9, <2>1 DEF MirrorInv
  <2>3. ASSUME log[x].name = "DisputeOpened"
        PROVE  \E c \in ses.done : log[c].name = "OrderCreated" /\ log[c].order = log[x].order
    <3>1. x \in EventIds /\ WellFormed(log[x]) BY <1>4, <1>5, LogFacts
    <3>2. PICK c \in EventIds : log[c].order = log[x].order /\ log[c].name = "OrderCreated"
      BY <1>5, <3>1 DEF ChainInv, BeginsWithCreation
    <3>3. log[c].block + 2 <= log[x].block
      BY <1>5, <2>3, <3>1, <3>2 DEF ChainInv, DisputesComeLater
    <3>4. c \in HandledIds /\ log[c].contract = "EtaloEscrow"
      BY <1>5, <3>2, LogFacts DEF HandledIds, Handled, WellFormed
    <3>5. poll.contract = 2 BY <1>4, <2>3, <3>1, TwoContracts DEF WellFormed
    <3>6. Visible(c)
      <4>1. /\ log[c].block \in Nat /\ log[x].block \in Nat /\ poll.to \in Nat
            /\ MaxLag \in Nat
        BY <1>5, <3>1, <3>2, LogFacts, IndexerAssumption DEF PollInv, PollTypeOK
      <4> QED BY <1>4, <1>9, <3>3, <4>1 DEF Visible
    <3>7. c \in db.done
      BY <1>5, <1>9, <2>1, <3>4, <3>5, <3>6 DEF PollInv, EscrowRead, Accounted
    <3>8. c \in ses.done BY <1>5, <3>7 DEF PollInv, PollTypeOK
    <3> QED BY <3>2, <3>8
  <2> QED BY <1>4, <1>5, <1>6, <2>2, <2>3, AfterHasDisputes
<1> HIDE DEF r
<1>10. PICK m : m = r OBVIOUS
<1>11. /\ RowsTypeOK(m) /\ CreatedIsKnown(m) /\ RefundedByEvent(m)
       /\ late' = {} => ItemsFollow(m) /\ OrdersFollow(m)
       /\ LagIsShort /\ MaxLag <= 2 /\ undone' = {} /\ skipped' = {} => DisputesHaveRows(m)
  BY <1>7, <1>8, <1>9, <1>10
<1>12. UNCHANGED chainVars BY <1>1
<1>13. MirrorInv(m)' BY <1>5, <1>11, <1>12, SameRows
<1>14. PICK d : d = db OBVIOUS
<1>15. MirrorInv(d) BY <1>5, <1>14
<1>16. late \subseteq late' /\ undone \subseteq undone' /\ skipped \subseteq skipped'
  BY <1>1, <1>3
<1>17. MirrorInv(d)' BY <1>5, <1>12, <1>15, <1>16, KeptRows
<1>18. m = ses' /\ d = db' BY <1>1, <1>2, <1>10, <1>14
<1> QED BY <1>13, <1>17, <1>18, RowsFollow

LEMMA RunHandlerKeepsInv ==
  ASSUME IndexerInv, RunHandler
  PROVE  IndexerInv'
<1>1. poll.fetched # {} /\ UNCHANGED <<chainVars, db, faults, undone, skipped>> /\ NextEvent
  BY DEF RunHandler
<1>2. UNCHANGED chainVars BY <1>1
<1>3. ChainInv /\ PollInv /\ PollTypeOK /\ MirrorInv(ses) BY DEF IndexerInv, PollInv
<1>4. /\ ChainInv' /\ EventIds' = EventIds /\ HandledIds' = HandledIds
      /\ head' = head /\ log' = log
  BY <1>2, <1>3, SameChain
<1>5. MirrorInv(ses)' /\ MirrorInv(db)' BY RunHandlerKeepsRows
<1>6. Current \in poll.fetched /\ Current \in HandledIds /\ ~Idle BY <1>1, CurrentIsFetched
<1>7. /\ poll'.contract = poll.contract /\ poll'.to = poll.to /\ poll'.next = poll.next
      /\ poll'.fetched = poll.fetched \ {Current}
      /\ poll' \in [contract : {0} \cup DOMAIN Polled, to : Nat, next : Nat,
                    fetched : SUBSET Nat]
  BY <1>1, <1>3, NextEventIs
<1>8. ses'.done = ses.done \cup {Current} /\ ses'.checkpoint = ses.checkpoint
  <2>1. ses' = After(ses, Current) BY DEF RunHandler, After
  <2>2. ses \in Rows BY <1>3 DEF MirrorInv, RowsTypeOK
  <2> QED BY <1>3, <1>6, <2>1, <2>2, AfterMirrors
<1>9. PollTypeOK' BY <1>1, <1>3, <1>4, <1>6, <1>7, <1>8 DEF PollTypeOK, Idle
<1>10. BehindCheckpoint'
  BY <1>1, <1>3, <1>4 DEF PollInv, BehindCheckpoint, LagIsShort, Accounted
<1>11. BehindPoll'
  <2>1. ses'.done \cup poll'.fetched = ses.done \cup poll.fetched BY <1>6, <1>7, <1>8
  <2> QED BY <1>1, <1>3, <1>4, <1>6, <1>7, <2>1
          DEF PollInv, BehindPoll, LagIsShort, Visible, Accounted
<1>12. EscrowRead'
  BY <1>1, <1>3, <1>4, <1>7 DEF PollInv, EscrowRead, LagIsShort, Visible, Accounted
<1> QED BY <1>4, <1>5, <1>9, <1>10, <1>11, <1>12 DEF IndexerInv, PollInv

LEMMA HandlerFailsKeepsInv ==
  ASSUME IndexerInv, HandlerFails
  PROVE  IndexerInv'
<1>1. /\ poll.fetched # {} /\ UNCHANGED <<chainVars, db, late, skipped>> /\ NextEvent
      /\ ses' = db /\ Fault
      /\ undone' = undone \cup {Current} \cup (ses.done \ db.done)
  BY DEF HandlerFails
<1>2. UNCHANGED chainVars BY <1>1
<1>3. /\ ChainInv /\ PollInv /\ PollTypeOK
      /\ ses.done \subseteq HandledIds /\ db.done \subseteq HandledIds
  BY DEF IndexerInv, PollInv, MirrorInv, RowsTypeOK
<1>4. /\ ChainInv' /\ EventIds' = EventIds /\ HandledIds' = HandledIds
      /\ head' = head /\ log' = log
  BY <1>2, <1>3, SameChain
<1>5. MirrorInv(ses)' /\ MirrorInv(db)'
  <2>1. db' = db /\ late \subseteq late' /\ undone \subseteq undone' /\ skipped \subseteq skipped'
    BY <1>1
  <2> QED BY <1>1, <1>2, <2>1, KeptMirrors
<1>6. Current \in poll.fetched /\ Current \in HandledIds /\ ~Idle BY <1>1, CurrentIsFetched
<1>7. /\ poll'.contract = poll.contract /\ poll'.to = poll.to /\ poll'.next = poll.next
      /\ poll'.fetched = poll.fetched \ {Current}
      /\ poll' \in [contract : {0} \cup DOMAIN Polled, to : Nat, next : Nat,
                    fetched : SUBSET Nat]
  BY <1>1, <1>3, NextEventIs
<1>8. faults' \in 0..MaxFaults BY <1>1, <1>3, IndexerAssumption DEF Fault, PollTypeOK
<1>9. PollTypeOK'
  <2>1. HandledIds \subseteq EventIds BY DEF HandledIds
  <2> QED BY <1>1, <1>3, <1>4, <1>6, <1>7, <1>8, <2>1 DEF PollTypeOK, Idle
<1>10. BehindCheckpoint'
  BY <1>1, <1>3, <1>4 DEF PollInv, BehindCheckpoint, LagIsShort, Accounted
<1>11. BehindPoll'
  <2>1. \A e : Accounted(e, ses.done \cup poll.fetched)
               => e \in db.done \cup (poll.fetched \ {Current}) \cup undone' \cup skipped'
    BY <1>1 DEF Accounted
  <2> QED BY <1>1, <1>3, <1>4, <1>6, <1>7, <2>1
          DEF PollInv, BehindPoll, LagIsShort, Visible, Accounted
<1>12. EscrowRead'
  BY <1>1, <1>3, <1>4, <1>7 DEF PollInv, EscrowRead, LagIsShort, Visible, Accounted
<1> QED BY <1>4, <1>5, <1>9, <1>10, <1>11, <1>12 DEF IndexerInv, PollInv

\* The rows the session saves: its own, unless its window was empty.
LEMMA SavedRows ==
  ASSUME IndexerInv, CloseSession
  PROVE  /\ poll.contract \in {1, 2} /\ poll.fetched = {} /\ db' = ses'
         /\ OpenSession(poll.contract + 1, poll.to, db')
         /\ RowsTypeOK(db') /\ CreatedIsKnown(db') /\ RefundedByEvent(db')
         /\ late = {} => ItemsFollow(db') /\ OrdersFollow(db')
         /\ LagIsShort /\ MaxLag <= 2 /\ undone = {} /\ skipped = {} => DisputesHaveRows(db')
         /\ \/ /\ ~(FirstBlock(poll.contract, db) <= poll.to) /\ db' = db
            \/ /\ db'.done = ses.done
               /\ \A k \in {1, 2} : db'.checkpoint[k] =
                     IF k = poll.contract THEN poll.to ELSE db.checkpoint[k]
<1>1. /\ ChainInv /\ MirrorInv(ses) /\ MirrorInv(db) /\ PollTypeOK
  BY DEF IndexerInv, PollInv
<1>2. poll.contract \in {1, 2} /\ poll.fetched = {}
  BY <1>1, TwoContracts DEF CloseSession, PollTypeOK, Idle
<1> DEFINE rows == [ses EXCEPT !.checkpoint[poll.contract] = LastIndexedBlock]
           read == FirstBlock(poll.contract, db) <= poll.to
<1>3. db' = ses' /\ OpenSession(poll.contract + 1, poll.to, db')
  BY DEF CloseSession
<1>4. db' = IF read THEN rows ELSE db BY DEF CloseSession
<1>5. ses \in Rows /\ poll.to \in Nat /\ poll.to <= head /\ ses.checkpoint = db.checkpoint
  BY <1>1 DEF MirrorInv, RowsTypeOK, PollTypeOK
<1>6. /\ rows \in Rows /\ rows.order = ses.order /\ rows.item = ses.item
      /\ rows.dispute = ses.dispute /\ rows.done = ses.done
      /\ \A k \in {1, 2} : rows.checkpoint[k] =
            IF k = poll.contract THEN poll.to ELSE db.checkpoint[k]
  BY <1>2, <1>5, TwoContracts DEF Rows, LastIndexedBlock
<1> HIDE DEF rows, read
<1>7. /\ RowsTypeOK(rows) /\ CreatedIsKnown(rows) /\ RefundedByEvent(rows)
      /\ ItemsFollow(ses) => ItemsFollow(rows)
      /\ OrdersFollow(ses) => OrdersFollow(rows)
      /\ DisputesHaveRows(ses) => DisputesHaveRows(rows)
  <2>1. RowsTypeOK(rows)
    BY <1>1, <1>5, <1>6, TwoContracts DEF MirrorInv, RowsTypeOK
  <2>2. CreatedIsKnown(rows) BY <1>1, <1>6 DEF MirrorInv, CreatedIsKnown, Known
  <2>3. RefundedByEvent(rows) BY <1>1, <1>6 DEF MirrorInv, RefundedByEvent
  <2>4. ItemsFollow(ses) => ItemsFollow(rows) BY <1>6 DEF ItemsFollow
  <2>5. OrdersFollow(ses) => OrdersFollow(rows) BY <1>6 DEF OrdersFollow
  <2>6. DisputesHaveRows(ses) => DisputesHaveRows(rows) BY <1>6 DEF DisputesHaveRows
  <2> QED BY <2>1, <2>2, <2>3, <2>4, <2>5, <2>6
<1>8. PICK d : d = db' OBVIOUS
<1>9. d = rows \/ (~read /\ d = db) BY <1>4, <1>8
<1>10. /\ RowsTypeOK(d) /\ CreatedIsKnown(d) /\ RefundedByEvent(d)
       /\ late = {} => ItemsFollow(d) /\ OrdersFollow(d)
       /\ LagIsShort /\ MaxLag <= 2 /\ undone = {} /\ skipped = {} => DisputesHaveRows(d)
  <2>1. CASE d = rows BY <2>1, <1>1, <1>7 DEF MirrorInv
  <2>2. CASE d = db BY <2>2, <1>1 DEF MirrorInv
  <2> QED BY <1>9, <2>1, <2>2
<1>11. \/ ~read /\ db' = db
       \/ /\ db'.done = ses.done
          /\ \A k \in {1, 2} : db'.checkpoint[k] =
                IF k = poll.contract THEN poll.to ELSE db.checkpoint[k]
  BY <1>6, <1>8, <1>9
<1> QED BY <1>2, <1>3, <1>8, <1>10, <1>11 DEF read

\* The visible events of the polled contract have been read, or the cycle was cut.
LEMMA SessionReadAll ==
  ASSUME IndexerInv, CloseSession, LagIsShort, NEW e \in HandledIds,
         log[e].contract = Polled[poll.contract], Visible(e)
  PROVE  e \in ses.done \cup undone \cup skipped'
<1>1. /\ ~Idle /\ poll.fetched = {} /\ ~ChunkPending
      /\ skipped' = IF stopping THEN skipped \cup EventsIn(poll.next, poll.to) ELSE skipped
  BY DEF CloseSession
<1>2. /\ log[e].block \in Nat /\ poll.next \in Nat /\ poll.to \in Nat /\ MaxLag \in Nat
  BY LogFacts, IndexerAssumption DEF IndexerInv, PollInv, PollTypeOK
<1>3. CASE log[e].block < poll.next
  BY <1>1, <1>3 DEF IndexerInv, PollInv, BehindPoll, Accounted
<1>4. CASE ~(log[e].block < poll.next)
  <2>1. log[e].block \in poll.next..poll.to /\ poll.next <= poll.to
    BY <1>2, <1>4 DEF Visible
  <2>2. stopping BY <1>1, <2>1 DEF ChunkPending
  <2>3. e \in EventsIn(poll.next, poll.to) BY <2>1 DEF EventsIn
  <2> QED BY <1>1, <2>2, <2>3
<1> QED BY <1>3, <1>4

LEMMA CloseSessionKeepsPoll ==
  ASSUME IndexerInv, CloseSession, ChainInv', MirrorInv(db)'
  PROVE  PollInv'
<1>1. /\ UNCHANGED <<chainVars, faults, undone>>
      /\ skipped' = IF stopping THEN skipped \cup EventsIn(poll.next, poll.to) ELSE skipped
  BY DEF CloseSession
<1>2. /\ ChainInv /\ MirrorInv(ses) /\ MirrorInv(db) /\ PollInv /\ PollTypeOK
  BY DEF IndexerInv, PollInv
<1>3. /\ EventIds' = EventIds /\ HandledIds' = HandledIds /\ head' = head /\ log' = log
  <2>1. UNCHANGED chainVars BY <1>1
  <2> QED BY <1>2, <2>1, SameChain
<1>4. /\ poll.contract \in {1, 2} /\ poll.fetched = {} /\ db' = ses'
      /\ OpenSession(poll.contract + 1, poll.to, db') /\ RowsTypeOK(db')
      /\ \/ /\ ~(FirstBlock(poll.contract, db) <= poll.to) /\ db' = db
         \/ /\ db'.done = ses.done
            /\ \A k \in {1, 2} : db'.checkpoint[k] =
                  IF k = poll.contract THEN poll.to ELSE db.checkpoint[k]
  BY SavedRows
<1>5. /\ MaxLag \in Nat /\ REORG_DEPTH \in Nat /\ poll.to \in Nat /\ poll.to <= head
      /\ head \in Nat
      /\ \A e \in HandledIds : log[e].block \in Nat
  BY <1>2, LogFacts, IndexerAssumption DEF PollTypeOK
<1>6. PICK d : d = db' OBVIOUS
<1>7. d \in Rows /\ d.done \subseteq HandledIds BY <1>4, <1>6 DEF RowsTypeOK
<1>8. /\ FirstBlock(2, d) \in Nat
      /\ \A e \in HandledIds :
            log[e].block < FirstBlock(2, d) <=> log[e].block + REORG_DEPTH <= d.checkpoint[2]
  BY <1>2, <1>7, ReadFrom
<1>9. poll' = IF poll.contract = 1
              THEN [contract |-> 2, to |-> poll.to, next |-> FirstBlock(2, d), fetched |-> {}]
              ELSE [contract |-> 0, to |-> 0, next |-> 0, fetched |-> {}]
  BY <1>4, <1>6, TwoContracts DEF OpenSession
<1>10. \A k \in {1, 2}, e \in HandledIds :
          /\ LagIsShort /\ log[e].contract = Polled[k]
          /\ log[e].block + REORG_DEPTH <= d.checkpoint[k]
          => e \in d.done \cup undone \cup skipped'
  <2> SUFFICES ASSUME LagIsShort, NEW k \in {1, 2}, NEW e \in HandledIds,
                      log[e].contract = Polled[k],
                      log[e].block + REORG_DEPTH <= d.checkpoint[k]
               PROVE  e \in d.done \cup undone \cup skipped'
    OBVIOUS
  <2>1. log[e].block + REORG_DEPTH <= db.checkpoint[k] => e \in db.done \cup undone \cup skipped
    BY <1>2, TwoContracts DEF PollInv, BehindCheckpoint, Accounted
  <2>2. db.done \subseteq ses.done /\ skipped \subseteq skipped' BY <1>1, <1>2 DEF PollTypeOK
  <2>3. CASE d = db BY <2>1, <2>2, <2>3
  <2>4. CASE d.done = ses.done /\ k # poll.contract /\ d.checkpoint[k] = db.checkpoint[k]
    BY <2>1, <2>2, <2>4
  <2>5. CASE d.done = ses.done /\ k = poll.contract /\ d.checkpoint[k] = poll.to
    <3>1. Visible(e) BY <1>5, <2>5 DEF Visible, LagIsShort
    <3> QED BY <2>5, <3>1, SessionReadAll
  <2> QED BY <1>4, <1>6, <2>3, <2>4, <2>5
<1>11. PollTypeOK'
  <2>1. poll' \in [contract : {0} \cup DOMAIN Polled, to : Nat, next : Nat,
                   fetched : SUBSET Nat]
    BY <1>5, <1>8, <1>9, TwoContracts
  <2>2. poll'.fetched = {} /\ poll'.to <= head BY <1>5, <1>9
  <2>3. skipped' \subseteq EventIds BY <1>1, <1>2 DEF PollTypeOK, EventsIn, HandledIds
  <2> QED BY <1>1, <1>2, <1>3, <1>4, <2>1, <2>2, <2>3 DEF PollTypeOK
<1>12. BehindCheckpoint'
  BY <1>1, <1>3, <1>6, <1>10, TwoContracts DEF BehindCheckpoint, Accounted, LagIsShort
<1>13. BehindPoll'
  <2> SUFFICES ASSUME LagIsShort, poll'.contract # 0, NEW e \in HandledIds,
                      log[e].contract = Polled[poll'.contract], log[e].block < poll'.next
               PROVE  e \in d.done \cup undone \cup skipped'
    BY <1>1, <1>3, <1>4, <1>6 DEF BehindPoll, Accounted, LagIsShort, Idle
  <2>1. poll'.contract = 2 /\ poll'.next = FirstBlock(2, d) BY <1>9
  <2>2. log[e].block + REORG_DEPTH <= d.checkpoint[2] BY <1>8, <2>1
  <2> QED BY <1>10, <2>1, <2>2
<1>14. EscrowRead'
  <2> SUFFICES ASSUME LagIsShort, poll'.contract = 2, NEW e \in HandledIds,
                      log[e].contract = "EtaloEscrow", log[e].block + MaxLag <= poll'.to
               PROVE  e \in d.done \cup undone \cup skipped'
    BY <1>1, <1>3, <1>6 DEF EscrowRead, Accounted, LagIsShort, Visible
  <2>1. poll.contract = 1 /\ poll'.to = poll.to BY <1>4, <1>9
  <2>2. log[e].contract = Polled[poll.contract] /\ Visible(e)
    BY <2>1, TwoContracts DEF Visible
  <2>3. CASE d.done = ses.done BY <2>2, <2>3, SessionReadAll
  <2>4. CASE ~(FirstBlock(1, db) <= poll.to) /\ d = db
    <3>1. db \in Rows BY <1>2 DEF MirrorInv, RowsTypeOK
    <3>2. /\ FirstBlock(1, db) \in Nat
          /\ log[e].block < FirstBlock(1, db) <=> log[e].block + REORG_DEPTH <= db.checkpoint[1]
      BY <1>2, <3>1, ReadFrom
    <3>3. log[e].block < FirstBlock(1, db) BY <1>5, <2>2, <2>4, <3>2 DEF Visible
    <3> QED BY <1>10, <2>1, <2>2, <2>4, <3>2, <3>3
  <2> QED BY <1>4, <1>6, <2>1, <2>3, <2>4
<1> QED BY <1>11, <1>12, <1>13, <1>14 DEF PollInv

LEMMA CloseSessionKeepsInv ==
  ASSUME IndexerInv, CloseSession
  PROVE  IndexerInv'
<1>1. UNCHANGED <<chainVars, undone, late>> /\ skipped \subseteq skipped' BY DEF CloseSession
<1>2. UNCHANGED chainVars BY <1>1
<1>3. ChainInv /\ ChainInv' BY <1>2, SameChain DEF IndexerInv
<1>4. PICK d : d = db' OBVIOUS
<1>5. /\ RowsTypeOK(d) /\ CreatedIsKnown(d) /\ RefundedByEvent(d)
      /\ late' = {} => ItemsFollow(d) /\ OrdersFollow(d)
      /\ LagIsShort /\ MaxLag <= 2 /\ undone' = {} /\ skipped' = {} => DisputesHaveRows(d)
      /\ d = ses'
  <2>1. skipped' = {} => skipped = {} BY <1>1
  <2> QED BY <1>1, <1>4, <2>1, SavedRows
<1>6. MirrorInv(d)' BY <1>2, <1>3, <1>5, SameRows
<1>7. MirrorInv(ses)' /\ MirrorInv(db)' BY <1>4, <1>5, <1>6, RowsFollow
<1> QED BY <1>3, <1>7, CloseSessionKeepsPoll DEF IndexerInv

LEMMA StopKeepsInv ==
  ASSUME IndexerInv, Stop \/ Restart
  PROVE  IndexerInv'
<1>1. /\ UNCHANGED <<chainVars, db, ses, poll, undone, late, skipped>>
      /\ faults' = faults \/ Fault
  BY DEF Stop, Restart
<1>2. UNCHANGED chainVars BY <1>1
<1>3. ChainInv /\ PollInv BY DEF IndexerInv
<1>4. /\ ChainInv' /\ EventIds' = EventIds /\ HandledIds' = HandledIds
      /\ head' = head /\ log' = log
  BY <1>2, <1>3, SameChain
<1>5. MirrorInv(ses)' /\ MirrorInv(db)' BY <1>1, <1>2, KeptMirrors
<1>6. faults' \in 0..MaxFaults
  BY <1>1, <1>3, IndexerAssumption DEF Fault, PollInv, PollTypeOK
<1>7. PollTypeOK' BY <1>1, <1>3, <1>4, <1>6 DEF PollInv, PollTypeOK, Idle
<1>8. BehindCheckpoint'
  BY <1>1, <1>3, <1>4 DEF PollInv, BehindCheckpoint, LagIsShort, Accounted
<1>9. BehindPoll'
  BY <1>1, <1>3, <1>4 DEF PollInv, BehindPoll, Idle, LagIsShort, Visible, Accounted
<1>10. EscrowRead'
  BY <1>1, <1>3, <1>4 DEF PollInv, EscrowRead, LagIsShort, Visible, Accounted
<1> QED BY <1>4, <1>5, <1>7, <1>8, <1>9, <1>10 DEF IndexerInv, PollInv

LEMMA CrashKeepsInv ==
  ASSUME IndexerInv, Crash
  PROVE  IndexerInv'
<1>1. /\ UNCHANGED <<chainVars, db, undone, late, skipped>> /\ ses' = db /\ Fault
      /\ poll' = [contract |-> 0, to |-> 0, next |-> 0, fetched |-> {}]
  BY TwoContracts DEF Crash, OpenSession
<1>2. UNCHANGED chainVars BY <1>1
<1>3. ChainInv /\ PollInv /\ MirrorInv(db) /\ head \in Nat BY LogFacts DEF IndexerInv
<1>4. /\ ChainInv' /\ EventIds' = EventIds /\ HandledIds' = HandledIds
      /\ head' = head /\ log' = log
  BY <1>2, <1>3, SameChain
<1>5. MirrorInv(ses)' /\ MirrorInv(db)' BY <1>1, <1>2, KeptMirrors
<1>6. faults' \in 0..MaxFaults
  BY <1>1, <1>3, IndexerAssumption DEF Fault, PollInv, PollTypeOK
<1>7. PollTypeOK'
  BY <1>1, <1>3, <1>4, <1>6, TwoContracts DEF PollInv, PollTypeOK, Idle
<1>8. BehindCheckpoint'
  BY <1>1, <1>3, <1>4 DEF PollInv, BehindCheckpoint, LagIsShort, Accounted
<1>9. BehindPoll' BY <1>1 DEF BehindPoll, Idle
<1>10. EscrowRead' BY <1>1 DEF EscrowRead
<1> QED BY <1>4, <1>5, <1>7, <1>8, <1>9, <1>10 DEF IndexerInv, PollInv

LEMMA StutterKeepsInv ==
  ASSUME IndexerInv, UNCHANGED vars
  PROVE  IndexerInv'
<1>1. UNCHANGED <<chainVars, indexerVars>> BY DEF vars
<1>2. UNCHANGED chainVars /\ UNCHANGED <<db, ses, poll, faults, undone, late, skipped>>
  BY <1>1 DEF indexerVars
<1>3. ChainInv /\ PollInv BY DEF IndexerInv
<1>4. /\ ChainInv' /\ EventIds' = EventIds /\ HandledIds' = HandledIds
      /\ head' = head /\ log' = log
  BY <1>2, <1>3, SameChain
<1>5. MirrorInv(ses)' /\ MirrorInv(db)' BY <1>2, KeptMirrors
<1>6. PollTypeOK' BY <1>2, <1>3, <1>4 DEF PollInv, PollTypeOK, Idle
<1>7. BehindCheckpoint'
  BY <1>2, <1>3, <1>4 DEF PollInv, BehindCheckpoint, LagIsShort, Accounted
<1>8. BehindPoll'
  BY <1>2, <1>3, <1>4 DEF PollInv, BehindPoll, Idle, LagIsShort, Visible, Accounted
<1>9. EscrowRead'
  BY <1>2, <1>3, <1>4 DEF PollInv, EscrowRead, LagIsShort, Visible, Accounted
<1> QED BY <1>4, <1>5, <1>6, <1>7, <1>8, <1>9 DEF IndexerInv, PollInv

LEMMA InitInv ==
  ASSUME Init
  PROVE  IndexerInv
<1> USE DEF Init, LifecycleInit
<1>1. EventIds = {} /\ HandledIds = {} BY DEF EventIds, HandledIds
<1>2. ChainInv
  <2>1. LifecycleTypeOK BY DEF LifecycleTypeOK, OrderStatuses, ItemStatuses, Timer
  <2>2. Untouched BY DEF Untouched, ItemsIn
  <2>3. LogTypeOK BY <1>1 DEF LogTypeOK
  <2>4. BeginsWithCreation BY <1>1 DEF BeginsWithCreation
  <2>5. DisputesComeLater BY <1>1 DEF DisputesComeLater
  <2>6. QuietWhileFunded BY <1>1 DEF QuietWhileFunded
  <2>7. LogTellsStatus BY <1>1 DEF LogTellsStatus
  <2> QED BY <2>1, <2>2, <2>3, <2>4, <2>5, <2>6, <2>7 DEF ChainInv
<1>3. MirrorInv(db)
  <2>1. RowsTypeOK(db) BY TwoContracts DEF RowsTypeOK, Rows, OrderStatuses, ItemStatuses
  <2>2. db.done = {} OBVIOUS
  <2>3. \A o \in Orders : db.order[o] # "Refunded" OBVIOUS
  <2> QED BY <2>1, <2>2, <2>3
          DEF MirrorInv, CreatedIsKnown, RefundedByEvent, ItemsFollow, OrdersFollow,
              DisputesHaveRows
<1>4. PollInv
  <2>1. PollTypeOK BY TwoContracts, IndexerAssumption DEF PollTypeOK, Idle
  <2> QED BY <1>1, <2>1 DEF PollInv, BehindCheckpoint, BehindPoll, EscrowRead
<1> QED BY <1>2, <1>3, <1>4 DEF IndexerInv

LEMMA NextKeepsInv ==
  ASSUME IndexerInv, [Next]_vars
  PROVE  IndexerInv'
<1>1. CASE Chain BY <1>1, ChainKeepsInv
<1>2. CASE Poller
  BY <1>2, StartCycleKeepsInv, FetchChunkKeepsInv, RunHandlerKeepsInv, CloseSessionKeepsInv,
     StopKeepsInv DEF Poller
<1>3. CASE HandlerFails BY <1>3, HandlerFailsKeepsInv
<1>4. CASE Stop BY <1>4, StopKeepsInv
<1>5. CASE Crash BY <1>5, CrashKeepsInv
<1>6. CASE UNCHANGED vars BY <1>6, StutterKeepsInv
<1> QED BY <1>1, <1>2, <1>3, <1>4, <1>5, <1>6 DEF Next

\* The chain's own shape, the rows of the session and of the database and the progress of
\* the cycle hold in every state.
THEOREM IndexerInvariant == Spec => []IndexerInv
<1>1. Init => IndexerInv BY InitInv
<1>2. IndexerInv /\ [Next]_vars => IndexerInv' BY NextKeepsInv
<1> QED BY <1>1, <1>2, PTL DEF Spec
-------------------------------------------------------------------------------
(***************************************************************************)
(* What follows from it.                                                   *)
(***************************************************************************)

\* A poll reads again as many blocks as a node may lag: no handled event is left behind
\* the checkpoint unless its handler failed or a shutdown cut the cycle.
THEOREM IndexerLosesNothingSilently ==
  ASSUME MaxLag <= REORG_DEPTH
  PROVE  Spec => []NoSilentLoss
<1>1. IndexerInv => NoSilentLoss
  <2> SUFFICES ASSUME IndexerInv, NEW e \in HandledIds, OutOfReach(e)
               PROVE  e \in db.done \cup undone \cup skipped
    BY DEF NoSilentLoss
  <2>1. ChainInv /\ db \in Rows /\ BehindCheckpoint
    BY DEF IndexerInv, PollInv, MirrorInv, RowsTypeOK
  <2>2. WellFormed(log[e]) BY <2>1, LogFacts
  <2>3. ContractOf(e) \in {1, 2} /\ Polled[ContractOf(e)] = log[e].contract
    <3>1. \E k \in DOMAIN Polled : Polled[k] = log[e].contract
      BY <2>2, TwoContracts DEF WellFormed
    <3> QED BY <3>1, TwoContracts DEF ContractOf
  <2>4. log[e].block + REORG_DEPTH <= db.checkpoint[ContractOf(e)]
    BY <2>1, <2>3, ReadFrom DEF OutOfReach
  <2> QED BY <2>1, <2>3, <2>4, TwoContracts DEF BehindCheckpoint, LagIsShort, Accounted
<1> QED BY <1>1, IndexerInvariant, PTL

\* A mirror that has processed every event of an order, none out of its contract's order,
\* has the statuses of the chain, whatever the chain did while the handlers read it.
THEOREM IndexerMirrorAgrees == Spec => []MirrorAgrees
<1>1. IndexerInv => MirrorAgrees
  <2> SUFFICES ASSUME IndexerInv, NEW o \in Orders, FullyProcessed(o), late = {}
               PROVE  MirrorEquals(o)
    BY DEF MirrorAgrees
  <2>1. /\ ChainInv /\ RowsTypeOK(db) /\ ItemsFollow(db) /\ OrdersFollow(db)
        /\ db.done \subseteq HandledIds
    BY DEF IndexerInv, MirrorInv, RowsTypeOK
  <2>2. /\ \A e \in EventIds : log[e].order = o => e \in db.done
        /\ \E e \in EventIds : log[e].order = o
    BY DEF FullyProcessed
  <2>3. PICK c \in EventIds : log[c].order = o /\ log[c].name = "OrderCreated"
    BY <2>1, <2>2 DEF ChainInv, BeginsWithCreation
  <2>4. c \in db.done BY <2>2, <2>3
  <2>5. db.order[o] = orderStatus[o]
    BY <2>1, <2>2, <2>3, <2>4 DEF OrdersFollow, Moves
  <2>6. ASSUME NEW i \in ItemsIn(o) PROVE db.item[i] = itemStatus[i]
    <3> DEFINE T == {e \in EventIds : Touches(log[e], i)}
    <3>1. i \in Items /\ OrderOf[i] = o BY DEF ItemsIn
    <3>2. EventIds = 1..Len(log) /\ Len(log) \in Nat
      <4>1. log \in Seq(LogEvent) BY <2>1 DEF ChainInv, LogTypeOK
      <4> QED BY <4>1, LenProperties DEF EventIds
    <3>3. \A e \in EventIds : WellFormed(log[e]) BY <2>1, LogFacts
    <3>4. c \in T BY <2>3, <3>1, <3>3 DEF WellFormed, Touches, ItemsIn
    <3>5. T \in SUBSET (1..Len(log)) /\ T # {} BY <3>2, <3>4
    <3>6. PICK e \in T : \A f \in T : f <= e BY <3>2, <3>5, HasGreatest
    <3>7. log[e].order = o BY <3>1, <3>3, <3>6 DEF Touches, WellFormed, ItemsIn
    <3>8. e \in db.done /\ log[e].name # "ForceRefundExecuted"
      <4>1. e \in db.done BY <2>2, <3>6, <3>7
      <4> QED BY <2>1, <4>1 DEF HandledIds, Handled
    <3>9. db.item[i] = Outcome(log[e])
      <4>1. \A f \in db.done : Touches(log[f], i) => f <= e
        BY <2>1, <3>6 DEF HandledIds
      <4> QED BY <2>1, <2>3, <2>4, <3>1, <3>6, <3>8, <4>1 DEF ItemsFollow
    <3>10. itemStatus[i] = Outcome(log[e])
      BY <2>1, <3>1, <3>6, <3>8 DEF ChainInv, LogTellsStatus
    <3> QED BY <3>9, <3>10
  <2> QED BY <2>5, <2>6 DEF MirrorEquals
<1> QED BY <1>1, IndexerInvariant, PTL

\* The escrow is polled before the dispute contract up to the same block: while a node lags
\* two blocks at most, the order of a dispute is in the mirror when its event is handled.
THEOREM IndexerKeepsDisputes ==
  ASSUME MaxLag <= REORG_DEPTH, MaxLag <= 2
  PROVE  Spec => []DisputeRowKept
<1>1. IndexerInv => DisputeRowKept
  BY DEF IndexerInv, MirrorInv, LagIsShort, DisputesHaveRows, DisputeRowKept
<1> QED BY <1>1, IndexerInvariant, PTL

\* Every state has its type: the chain stays within its bound, and so do the faults.
THEOREM IndexerTyped == Spec => []TypeOK
<1> DEFINE Bounded == head \in 0..MaxBlock
<1>1. Init => Bounded BY IndexerAssumption DEF Init
<1>2. Bounded /\ [Next]_vars => Bounded'
  <2> SUFFICES ASSUME Bounded, [Next]_vars PROVE Bounded' OBVIOUS
  <2>0. MaxBlock \in Nat BY IndexerAssumption
  <2>1. \A events : Mine(events) => Bounded' BY <2>0 DEF Mine
  <2>2. ASSUME NEW o \in Orders, OrderTransaction(o) PROVE Bounded'
    BY <2>1, <2>2 DEF OrderTransaction
  <2>3. ASSUME NEW i \in Items, ItemTransaction(i) PROVE Bounded'
    BY <2>1, <2>3 DEF ItemTransaction
  <2>4. CASE Chain BY <2>1, <2>2, <2>3, <2>4 DEF Chain
  <2>5. CASE UNCHANGED head BY <2>5
  <2>6. Next => Chain \/ UNCHANGED head
    BY DEF Next, Poller, StartCycle, FetchChunk, RunHandler, CloseSession, Restart, HandlerFails,
           Stop, Crash, chainVars
  <2> QED BY <2>4, <2>5, <2>6 DEF vars, chainVars
<1>3. IndexerInv /\ Bounded => TypeOK
  <2> SUFFICES ASSUME IndexerInv, Bounded PROVE TypeOK OBVIOUS
  <2>1. /\ ChainInv /\ PollTypeOK /\ RowsTypeOK(db) /\ RowsTypeOK(ses)
    BY DEF IndexerInv, PollInv, MirrorInv
  <2>2. \A e \in EventIds : log[e].block \in 1..head BY <2>1, LogFacts
  <2>3. \A k \in DOMAIN Polled : db.checkpoint[k] \in Nat /\ db.checkpoint[k] <= head
    BY <2>1 DEF RowsTypeOK, Rows
  <2>4. poll.contract \in {0} \cup DOMAIN Polled BY <2>1 DEF PollTypeOK
  <2> QED BY <2>1, <2>2, <2>3, <2>4 DEF TypeOK, PollTypeOK, RowsTypeOK
<1> QED BY <1>1, <1>2, <1>3, IndexerInvariant, PTL DEF Spec
-------------------------------------------------------------------------------
(***************************************************************************)
(* The keepers: the inductive invariant.                                   *)
(***************************************************************************)
Targets(k) == IF k = "release" THEN Items ELSE Orders

Tx == [nonce : Nat, attempt : 0..RBF_MAX_ATTEMPTS,
       call : [keeper : Names, target : Items \cup Orders]]

Scanning == [pc : {"idle", "signing", "waiting", "replacing"}, queue : SUBSET (Items \cup Orders),
             nonce : Int, attempt : 0..RBF_MAX_ATTEMPTS]

MirrorTyped ==
    /\ rowFunded \subseteq Orders /\ rowShipped \subseteq Items
    /\ deadlines \subseteq Items /\ lost \subseteq Items

SenderTyped ==
    /\ pool \subseteq Tx /\ IsFiniteSet(pool)
    /\ lastSent \in {None, -1} \cup Nat
    /\ lock \in Names \cup {Unlocked}

KeepersTyped ==
    /\ keeper \in [Names -> Scanning]
    /\ \A k \in Names :
          /\ keeper[k].queue \subseteq Targets(k) /\ Cardinality(keeper[k].queue) <= Limit
          /\ keeper[k].pc # "idle" => keeper[k].queue # {}
          /\ keeper[k].pc = "signing" => lock = k
          /\ keeper[k].pc = "replacing" => keeper[k].attempt < RBF_MAX_ATTEMPTS

\* The keeper has broadcast its transaction, and nothing has been mined with its nonce.
InFlight(k) == keeper[k].pc \in {"waiting", "replacing"} /\ keeper[k].nonce >= 0

\* Every nonce in the pool is behind the last one sent,
SentIsGreatest ==
    /\ \A tx \in pool : tx.nonce <= lastSent
    /\ \A k \in Names : InFlight(k) => keeper[k].nonce <= lastSent

\* the one being signed is before it,
SignedIsFresh ==
    \A k \in Names :
        keeper[k].pc = "signing" /\ keeper[k].nonce >= 0 => lastSent < keeper[k].nonce

\* and only the call that was broadcast first with a nonce has it.
FlightsAreApart ==
    /\ \A j, k \in Names :
          InFlight(j) /\ InFlight(k) /\ keeper[j].nonce = keeper[k].nonce => j = k
    /\ \A k \in Names, tx \in pool :
          InFlight(k) /\ tx.nonce = keeper[k].nonce => tx.call = Call(k, Row(k))

InPool(n) == \E tx \in pool : tx.nonce = n

\* The nonces up to the last one sent, and those before the one being signed, are in
\* the pool.
NothingIsSkipped ==
    /\ \A n \in 0..lastSent : InPool(n)
    /\ \A k \in Names : keeper[k].pc = "signing" => \A n \in 0..(keeper[k].nonce - 1) : InPool(n)

NonceInv ==
    /\ SenderTyped /\ KeepersTyped
    /\ Remembers => SentIsGreatest /\ SignedIsFresh /\ FlightsAreApart /\ OneCallPerNonce
    /\ "eviction" \notin faultKinds => NothingIsSkipped

KeepersInv == MirrorTyped /\ NonceInv
-------------------------------------------------------------------------------
(***************************************************************************)
(* Least numbers, the rows of a scan, the answer of a node.                *)
(***************************************************************************)
LEMMA HasLeast ==
  ASSUME NEW T \in SUBSET Nat, T # {}
  PROVE  \E x \in T : \A y \in T : x <= y
<1>1. IsWellFoundedOn(OpToRel(<, Nat), Nat) BY NatLessThanWellFounded
<1>2. PICK x \in T : \A y \in T : <<y, x>> \notin OpToRel(<, Nat) BY <1>1, WFMin
<1>3. \A y \in T : ~(y < x) BY <1>2 DEF OpToRel
<1> QED BY <1>3

LEMMA RanksAreNaturals ==
  ASSUME NEW k \in Names
  PROVE  /\ \A t \in Targets(k) : Rank(k)[t] \in Nat
         /\ \A t, u \in Targets(k) : Rank(k)[t] = Rank(k)[u] => t = u
         /\ IsFiniteSet(Targets(k))
BY KeepersAssumption DEF Rank, Targets

LEMMA RowIsScanned ==
  ASSUME NEW k \in Names, keeper[k].queue \subseteq Targets(k), keeper[k].queue # {}
  PROVE  Row(k) \in keeper[k].queue
<1> DEFINE Q == keeper[k].queue
           R == {Rank(k)[t] : t \in Q}
<1>1. R \in SUBSET Nat BY RanksAreNaturals
<1>2. R # {} OBVIOUS
<1>3. PICK r \in R : \A s \in R : r <= s BY <1>1, <1>2, HasLeast
<1>4. PICK t \in Q : r = Rank(k)[t] BY <1>3
<1>5. \A u \in Q : Rank(k)[t] <= Rank(k)[u] BY <1>3, <1>4
<1> QED BY <1>5 DEF Row

\* A scan takes as many rows as the limit allows at most: each has another number of rows
\* before it.
LEMMA ScanIsLimited ==
  ASSUME NEW k \in Names, NEW rows \in SUBSET Targets(k)
  PROVE  /\ FirstOf(k, rows) \subseteq rows
         /\ Cardinality(FirstOf(k, rows)) <= Limit
<1> DEFINE Before(t) == {u \in rows : Rank(k)[u] < Rank(k)[t]}
           f == [t \in FirstOf(k, rows) |-> Cardinality(Before(t))]
<1>1. IsFiniteSet(rows) BY RanksAreNaturals, FS_Subset
<1>2. \A t \in rows : IsFiniteSet(Before(t)) BY <1>1, FS_Subset
<1>3. \A t \in rows : Cardinality(Before(t)) \in Nat BY <1>2, FS_CardinalityType
<1>4. FirstOf(k, rows) \subseteq rows BY DEF FirstOf
<1>5. f \in [FirstOf(k, rows) -> 0..(Limit - 1)]
  BY <1>3, KeepersAssumption DEF FirstOf
<1>6. ASSUME NEW t \in rows, NEW u \in rows, Rank(k)[t] < Rank(k)[u]
      PROVE  Cardinality(Before(t)) < Cardinality(Before(u))
  <2>1. /\ Rank(k)[t] \in Nat /\ Rank(k)[u] \in Nat
        /\ \A w \in rows : Rank(k)[w] \in Nat
    BY RanksAreNaturals
  <2>2. Before(t) \subseteq Before(u) BY <2>1, <1>6
  <2>3. t \in Before(u) /\ t \notin Before(t) BY <2>1, <1>6
  <2>4. /\ Cardinality(Before(t)) <= Cardinality(Before(u))
        /\ Cardinality(Before(u)) = Cardinality(Before(t)) => Before(u) = Before(t)
    BY <2>2, <1>2, FS_Subset
  <2> HIDE DEF Before
  <2> QED BY <2>3, <2>4, <1>3
<1>7. \A t, u \in FirstOf(k, rows) : f[t] = f[u] => t = u
  <2> SUFFICES ASSUME NEW t \in FirstOf(k, rows), NEW u \in FirstOf(k, rows),
                      Cardinality(Before(t)) = Cardinality(Before(u))
               PROVE  t = u
    OBVIOUS
  <2>1. t \in rows /\ u \in rows BY <1>4
  <2>2. ~(Rank(k)[t] < Rank(k)[u]) /\ ~(Rank(k)[u] < Rank(k)[t])
    <3> HIDE DEF Before
    <3> QED BY <1>6, <1>3, <2>1
  <2>3. Rank(k)[t] \in Nat /\ Rank(k)[u] \in Nat BY <2>1, RanksAreNaturals
  <2> QED BY <2>1, <2>2, <2>3, RanksAreNaturals
<1>8. f \in Injection(FirstOf(k, rows), 0..(Limit - 1))
  <2> HIDE DEF f
  <2> QED BY <1>5, <1>7 DEF Injection, IsInjective
<1>9. IsFiniteSet(0..(Limit - 1)) /\ Cardinality(0..(Limit - 1)) = Limit
  BY FS_Interval, KeepersAssumption
<1>10. Cardinality(FirstOf(k, rows)) <= Cardinality(0..(Limit - 1))
  BY <1>8, <1>9, FS_Injection
<1> QED BY <1>4, <1>9, <1>10

\* What a node answers is at most the first nonce the pool misses.
LEMMA NodeCountsThePool ==
  ASSUME pool \subseteq Tx, IsFiniteSet(pool)
  PROVE  /\ PendingCount \in Nat
         /\ \A n \in 0..(PendingCount - 1) : InPool(n)
<1> DEFINE used == {tx.nonce : tx \in pool}
           f == [tx \in pool |-> tx.nonce]
           free == {n \in 0..Cardinality(pool) : n \notin used}
<1>1. Cardinality(pool) \in Nat BY FS_CardinalityType
<1>2. f \in Surjection(pool, used) BY DEF Surjection
<1>3. IsFiniteSet(used) /\ Cardinality(used) <= Cardinality(pool)
  BY <1>2, FS_Surjection
<1>4. free # {}
  <2> SUFFICES ASSUME 0..Cardinality(pool) \subseteq used PROVE FALSE OBVIOUS
  <2>1. Cardinality(0..Cardinality(pool)) <= Cardinality(used)
    BY <1>3, FS_Subset
  <2>2. Cardinality(0..Cardinality(pool)) = Cardinality(pool) + 1 BY <1>1, FS_Interval
  <2>3. Cardinality(used) \in Nat BY <1>3, FS_CardinalityType
  <2> QED BY <2>1, <2>2, <2>3, <1>3, <1>1
<1>5. free \in SUBSET Nat BY <1>1
<1>6. PICK n \in free : \A m \in free : n <= m BY <1>4, <1>5, HasLeast
<1>7. /\ \A m \in 0..(n - 1) : \E tx \in pool : tx.nonce = m
      /\ \A tx \in pool : tx.nonce # n
  BY <1>5, <1>6, <1>1
<1>8. /\ PendingCount \in 0..Cardinality(pool)
      /\ \A m \in 0..(PendingCount - 1) : \E tx \in pool : tx.nonce = m
  BY <1>6, <1>7 DEF PendingCount
<1> QED BY <1>8, <1>1 DEF InPool
-------------------------------------------------------------------------------
(***************************************************************************)
(* The steps of the others, which leave the sender alone.                  *)
(***************************************************************************)
LEMMA KeepersInitInv == KeepersInit => KeepersInv
<1> SUFFICES ASSUME KeepersInit PROVE KeepersInv OBVIOUS
<1>1. MirrorTyped BY DEF KeepersInit, MirrorTyped
<1>2. SenderTyped BY FS_EmptySet DEF KeepersInit, SenderTyped
<1>3. KeepersTyped
  <2>1. keeper \in [Names -> Scanning] BY KeepersAssumption DEF KeepersInit, Scanning, Resting
  <2>2. \A k \in Names : keeper[k].pc = "idle" /\ keeper[k].queue = {} BY DEF KeepersInit, Resting
  <2>3. Cardinality({}) = 0 /\ 0 <= Limit BY FS_EmptySet, KeepersAssumption
  <2>4. \A k \in Names : Cardinality(keeper[k].queue) <= Limit BY <2>2, <2>3
  <2>5. \A k \in Names : keeper[k].queue \subseteq Targets(k) BY <2>2
  <2> QED BY <2>1, <2>2, <2>4, <2>5 DEF KeepersTyped
<1>4. SentIsGreatest /\ SignedIsFresh /\ FlightsAreApart /\ OneCallPerNonce
  BY DEF KeepersInit, Resting, SentIsGreatest, SignedIsFresh, FlightsAreApart, OneCallPerNonce, InFlight
<1>5. NothingIsSkipped BY DEF KeepersInit, Resting, NothingIsSkipped, None
<1> QED BY <1>1, <1>2, <1>3, <1>4, <1>5 DEF KeepersInv, NonceInv

LEMMA SenderRests ==
  ASSUME NonceInv, UNCHANGED <<senderVars, keeper>>, faultKinds \subseteq faultKinds'
  PROVE  NonceInv'
<1>1. pool' = pool /\ lastSent' = lastSent /\ lock' = lock /\ keeper' = keeper BY DEF senderVars
<1>2. \A k : Row(k)' = Row(k) BY <1>1 DEF Row, Rank
<1>3. SenderTyped' /\ KeepersTyped' BY <1>1 DEF NonceInv, SenderTyped, KeepersTyped, Targets
<1>4. Remembers' => Remembers BY DEF Remembers
<1>5. ASSUME Remembers' PROVE (SentIsGreatest /\ SignedIsFresh /\ FlightsAreApart)'
  BY <1>1, <1>2, <1>4, <1>5
     DEF NonceInv, SentIsGreatest, SignedIsFresh, FlightsAreApart, InFlight
<1>6. OneCallPerNonce' \/ ~Remembers' BY <1>1, <1>4 DEF NonceInv, OneCallPerNonce
<1>7. ASSUME "eviction" \notin faultKinds' PROVE NothingIsSkipped'
  BY <1>1, <1>7 DEF NonceInv, NothingIsSkipped, InPool
<1> QED BY <1>3, <1>5, <1>6, <1>7 DEF NonceInv

LEMMA FaultIsNoted ==
  ASSUME NEW kind, FaultHappens(kind)
  PROVE  faultKinds' = faultKinds \cup {kind}
BY DEF FaultHappens

LEMMA OthersKeepInv ==
  ASSUME KeepersInv,
         \/ Parties \/ Pause \/ PauseEnds \/ Mirror
         \/ \E i \in Items : EarlyReleaseRequested(i) \/ MirrorLoses(i)
  PROVE  KeepersInv'
<1> DEFINE Rests == UNCHANGED <<senderVars, keeper>> /\ faultKinds \subseteq faultKinds'
<1>1. Rests
  <2>1. CASE Parties BY <2>1 DEF Parties
  <2>2. CASE Pause BY <2>2, FaultIsNoted DEF Pause
  <2>3. CASE PauseEnds BY <2>3 DEF PauseEnds
  <2>4. CASE Mirror BY <2>4, FaultIsNoted DEF Mirror, MirrorFollows
  <2>5. ASSUME NEW i \in Items, EarlyReleaseRequested(i) PROVE Rests
    BY <2>5 DEF EarlyReleaseRequested
  <2>6. ASSUME NEW i \in Items, MirrorLoses(i) PROVE Rests
    BY <2>6, FaultIsNoted DEF MirrorLoses
  <2> QED BY <2>1, <2>2, <2>3, <2>4, <2>5, <2>6
<1>2. MirrorTyped'
  <2>1. CASE Parties BY <2>1 DEF Parties, mirrorVars, KeepersInv, MirrorTyped
  <2>2. CASE Pause BY <2>2 DEF Pause, mirrorVars, KeepersInv, MirrorTyped
  <2>3. CASE PauseEnds BY <2>3 DEF PauseEnds, mirrorVars, KeepersInv, MirrorTyped
  <2>4. CASE Mirror
    <3>1. PICK o \in Orders : MirrorFollows(o) BY <2>4 DEF Mirror
    <3> QED BY <3>1 DEF MirrorFollows, KeepersInv, MirrorTyped, ItemsIn
  <2>5. ASSUME NEW i \in Items, EarlyReleaseRequested(i) PROVE MirrorTyped'
    BY <2>5 DEF EarlyReleaseRequested, KeepersInv, MirrorTyped
  <2>6. ASSUME NEW i \in Items, MirrorLoses(i) PROVE MirrorTyped'
    BY <2>6 DEF MirrorLoses, KeepersInv, MirrorTyped
  <2> QED BY <2>1, <2>2, <2>3, <2>4, <2>5, <2>6
<1> QED BY <1>1, <1>2, SenderRests DEF KeepersInv
-------------------------------------------------------------------------------
(***************************************************************************)
(* The chain and the process.                                              *)
(***************************************************************************)
LEMMA FewerRows ==
  ASSUME NEW Q, IsFiniteSet(Q), Cardinality(Q) <= Limit, NEW t
  PROVE  Cardinality(Q \ {t}) <= Limit
<1>1. Cardinality(Q) \in Nat BY FS_CardinalityType
<1>2. Cardinality(Q \ {t}) = IF t \in Q THEN Cardinality(Q) - 1 ELSE Cardinality(Q)
  BY FS_RemoveElement
<1> QED BY <1>1, <1>2, KeepersAssumption

LEMMA MineKeepsInv ==
  ASSUME KeepersInv, MineNext
  PROVE  KeepersInv'
<1> USE DEF KeepersInv, NonceInv
<1>1. PICK tx \in pool :
         /\ tx.nonce = 0
         /\ pool' = {[other EXCEPT !.nonce = @ - 1] : other \in {t \in pool : t.nonce > 0}}
         /\ lastSent' = IF lastSent < 0 THEN lastSent ELSE lastSent - 1
         /\ keeper' = [k \in Names |->
               IF keeper[k].pc = "idle" THEN keeper[k]
               ELSE IF keeper[k].pc = "waiting" /\ tx = Transaction(k, keeper[k].attempt)
               THEN NextRow(k)
               ELSE [keeper[k] EXCEPT !.nonce = IF @ < 0 THEN @ ELSE @ - 1]]
         /\ UNCHANGED <<mirrorVars, paused, lock, faultKinds>>
  BY DEF MineNext
<1>2. MirrorTyped' BY <1>1 DEF MirrorTyped, mirrorVars
<1>3. \A k \in Names :
         /\ keeper[k] \in Scanning /\ keeper'[k] \in Scanning
         /\ \/ /\ keeper'[k].pc = "idle"
               /\ keeper'[k].queue \in {keeper[k].queue, keeper[k].queue \ {Row(k)}}
            \/ /\ keeper[k].pc # "idle"
               /\ keeper'[k].pc = keeper[k].pc /\ keeper'[k].queue = keeper[k].queue
               /\ keeper'[k].attempt = keeper[k].attempt
               /\ keeper'[k].nonce = IF keeper[k].nonce < 0 THEN keeper[k].nonce
                                     ELSE keeper[k].nonce - 1
  <2> TAKE k \in Names
  <2>1. keeper[k] \in Scanning BY DEF KeepersTyped
  <2>2. CASE keeper[k].pc = "idle" BY <1>1, <2>1, <2>2
  <2>3. CASE keeper[k].pc # "idle" /\ keeper'[k] = NextRow(k)
    BY <2>1, <2>3, KeepersAssumption DEF NextRow, Resting, Scanning
  <2>4. CASE /\ keeper[k].pc # "idle"
             /\ keeper'[k] = [keeper[k] EXCEPT !.nonce = IF @ < 0 THEN @ ELSE @ - 1]
    BY <2>1, <2>4 DEF Scanning
  <2> QED BY <1>1, <2>2, <2>3, <2>4
<1>4. KeepersTyped'
  <2>1. keeper' \in [Names -> Scanning] BY <1>1, <1>3
  <2>2. ASSUME NEW k \in Names
        PROVE  /\ keeper'[k].queue \subseteq Targets(k)
               /\ Cardinality(keeper'[k].queue) <= Limit
    <3>1. keeper[k].queue \subseteq Targets(k) /\ Cardinality(keeper[k].queue) <= Limit
      BY DEF KeepersTyped
    <3>2. IsFiniteSet(keeper[k].queue) BY <3>1, RanksAreNaturals, FS_Subset
    <3>3. Cardinality(keeper[k].queue \ {Row(k)}) <= Limit BY <3>1, <3>2, FewerRows
    <3>4. keeper'[k].queue \in {keeper[k].queue, keeper[k].queue \ {Row(k)}} BY <1>3
    <3> QED BY <3>1, <3>3, <3>4
  <2>3. ASSUME NEW k \in Names
        PROVE  /\ keeper'[k].pc # "idle" => keeper'[k].queue # {}
               /\ keeper'[k].pc = "signing" => lock' = k
               /\ keeper'[k].pc = "replacing" => keeper'[k].attempt < RBF_MAX_ATTEMPTS
    BY <1>1, <1>3 DEF KeepersTyped
  <2> QED BY <2>1, <2>2, <2>3 DEF KeepersTyped, Targets
<1>5. \A t \in pool : /\ t \in Tx /\ t.nonce \in Nat
                      /\ t.nonce > 0 => [t EXCEPT !.nonce = @ - 1] \in Tx
  BY DEF SenderTyped, Tx
<1>6. \A u \in pool' : \E t \in pool :
         /\ t.nonce \in Nat /\ t.nonce > 0 /\ u.nonce = t.nonce - 1
         /\ u.call = t.call /\ u \in Tx
  BY <1>1, <1>5 DEF Tx
<1>7. SenderTyped'
  <2>1. pool' \subseteq Tx BY <1>6
  <2>2. IsFiniteSet(pool')
    <3> DEFINE P == {t \in pool : t.nonce > 0}
               f == [t \in P |-> [t EXCEPT !.nonce = @ - 1]]
    <3>1. IsFiniteSet(P) BY FS_Subset DEF SenderTyped
    <3>2. f \in Surjection(P, pool') BY <1>1 DEF Surjection
    <3> QED BY <3>1, <3>2, FS_Surjection
  <2>3. lastSent' \in {None, -1} \cup Nat BY <1>1 DEF SenderTyped, None
  <2> QED BY <2>1, <2>2, <2>3, <1>1 DEF SenderTyped
<1>8. \A k \in Names : keeper'[k].pc # "idle" => Row(k)' = Row(k)
  BY <1>3 DEF Row, Rank
<1>9. ASSUME Remembers'
      PROVE  (SentIsGreatest /\ SignedIsFresh /\ FlightsAreApart /\ OneCallPerNonce)'
  <2>0. Remembers BY <1>1, <1>9 DEF Remembers
  <2>1. lastSent \in {None, -1} \cup Nat BY DEF SenderTyped
  <2>2. \A k \in Names : keeper'[k].pc # "idle" =>
           /\ keeper'[k].pc = keeper[k].pc /\ keeper[k].nonce \in Int
           /\ keeper'[k].nonce >= 0 =>
                 keeper'[k].nonce = keeper[k].nonce - 1 /\ keeper[k].nonce > 0
           /\ Row(k)' = Row(k)
    BY <1>3, <1>8 DEF Scanning
  <2>3. \A k \in Names : InFlight(k)' => InFlight(k) BY <2>2 DEF InFlight
  <2>4. SentIsGreatest'
    <3>1. ASSUME NEW u \in pool' PROVE u.nonce <= lastSent'
      <4>1. PICK t \in pool : t.nonce \in Nat /\ t.nonce > 0 /\ u.nonce = t.nonce - 1 BY <1>6
      <4>2. t.nonce <= lastSent BY <2>0 DEF SentIsGreatest
      <4> QED BY <4>1, <4>2, <2>1, <1>1 DEF None
    <3>2. ASSUME NEW k \in Names, InFlight(k)' PROVE keeper'[k].nonce <= lastSent'
      BY <3>2, <2>0, <2>1, <2>2, <2>3, <1>1 DEF SentIsGreatest, InFlight, None
    <3> QED BY <3>1, <3>2 DEF SentIsGreatest
  <2>5. SignedIsFresh'
    <3> SUFFICES ASSUME NEW k \in Names, keeper'[k].pc = "signing", keeper'[k].nonce >= 0
                 PROVE  lastSent' < keeper'[k].nonce
      BY DEF SignedIsFresh
    <3> QED BY <2>0, <2>1, <2>2, <1>1 DEF SignedIsFresh, None
  <2>6. FlightsAreApart'
    <3>1. ASSUME NEW j \in Names, NEW k \in Names, InFlight(j)', InFlight(k)',
                 keeper'[j].nonce = keeper'[k].nonce
          PROVE  j = k
      <4>1. keeper[j].nonce = keeper[k].nonce BY <3>1, <2>2 DEF InFlight
      <4> QED BY <4>1, <3>1, <2>0, <2>3 DEF FlightsAreApart
    <3>2. ASSUME NEW k \in Names, NEW u \in pool', InFlight(k)', u.nonce = keeper'[k].nonce
          PROVE  u.call = Call(k, Row(k)')
      <4>1. PICK t \in pool : t.nonce \in Nat /\ u.nonce = t.nonce - 1 /\ u.call = t.call
      BY <1>6
      <4>2. keeper'[k].nonce = keeper[k].nonce - 1 /\ keeper[k].nonce \in Int
        BY <3>2, <2>2 DEF InFlight
      <4>3. t.nonce = keeper[k].nonce BY <4>1, <4>2, <3>2
      <4>4. t.call = Call(k, Row(k)) BY <4>3, <3>2, <2>0, <2>3 DEF FlightsAreApart
      <4> QED BY <4>1, <4>4, <3>2, <2>2 DEF InFlight
    <3> QED BY <3>1, <3>2 DEF FlightsAreApart, Call
  <2>7. OneCallPerNonce'
    <3> SUFFICES ASSUME NEW u \in pool', NEW v \in pool', u.nonce = v.nonce PROVE u.call = v.call
      BY DEF OneCallPerNonce
    <3>1. PICK t \in pool : t.nonce \in Nat /\ u.nonce = t.nonce - 1 /\ u.call = t.call
      BY <1>6
    <3>2. PICK w \in pool : w.nonce \in Nat /\ v.nonce = w.nonce - 1 /\ v.call = w.call
      BY <1>6
    <3>3. t.nonce = w.nonce
      <4>1. t.nonce - 1 = w.nonce - 1 BY <3>1, <3>2
      <4> QED BY <4>1, <3>1, <3>2
    <3> QED BY <3>1, <3>2, <3>3, <2>0 DEF OneCallPerNonce
  <2> QED BY <2>4, <2>5, <2>6, <2>7
<1>10. ASSUME "eviction" \notin faultKinds' PROVE NothingIsSkipped'
  <2>0. NothingIsSkipped BY <1>1, <1>10
  <2>1. ASSUME NEW n \in Nat, InPool(n + 1) PROVE InPool(n)'
    <3>1. PICK t \in pool : t.nonce = n + 1 BY <2>1 DEF InPool
    <3>2. [t EXCEPT !.nonce = @ - 1] \in pool'
      <4>1. t \in {other \in pool : other.nonce > 0} BY <3>1
      <4> QED BY <4>1, <1>1
    <3>3. [t EXCEPT !.nonce = @ - 1].nonce = n BY <3>1, <1>5 DEF Tx
    <3> QED BY <3>2, <3>3 DEF InPool
  <2>2. lastSent \in {None, -1} \cup Nat BY DEF SenderTyped
  <2>3. ASSUME NEW n \in 0..lastSent' PROVE InPool(n)'
    <3>1. n + 1 \in 0..lastSent BY <2>3, <2>2, <1>1 DEF None
    <3> QED BY <3>1, <2>0, <2>1 DEF NothingIsSkipped
  <2>4. ASSUME NEW k \in Names, keeper'[k].pc = "signing", NEW n \in 0..(keeper'[k].nonce - 1)
        PROVE  InPool(n)'
    <3>1. keeper[k].pc = "signing" /\ n + 1 \in 0..(keeper[k].nonce - 1)
      BY <2>4, <1>3 DEF Scanning
    <3> QED BY <3>1, <2>0, <2>1 DEF NothingIsSkipped
  <2> QED BY <2>3, <2>4 DEF NothingIsSkipped
<1> QED BY <1>2, <1>4, <1>7, <1>9, <1>10

LEMMA EvictKeepsInv ==
  ASSUME KeepersInv, Evict
  PROVE  KeepersInv'
<1> USE DEF KeepersInv, NonceInv
<1>1. PICK tx \in pool : pool' = pool \ {tx} BY DEF Evict
<1>2. /\ UNCHANGED <<mirrorVars, lastSent, lock, keeper>> /\ faultKinds' = faultKinds \cup {"eviction"}
  BY FaultIsNoted DEF Evict
<1>3. \A k : Row(k)' = Row(k) BY <1>2 DEF Row, Rank
<1>4. MirrorTyped' BY <1>2 DEF MirrorTyped, mirrorVars
<1>5. KeepersTyped' BY <1>2 DEF KeepersTyped, Targets
<1>6. SenderTyped' BY <1>1, <1>2, FS_RemoveElement DEF SenderTyped
<1>7. Remembers' => Remembers BY <1>2 DEF Remembers
<1>8. ASSUME Remembers' PROVE (SentIsGreatest /\ SignedIsFresh /\ FlightsAreApart)'
  BY <1>1, <1>2, <1>3, <1>7, <1>8 DEF SentIsGreatest, SignedIsFresh, FlightsAreApart, InFlight
<1>9. Remembers' => OneCallPerNonce' BY <1>1, <1>7 DEF OneCallPerNonce
<1> QED BY <1>2, <1>4, <1>5, <1>6, <1>8, <1>9

LEMMA RestartKeepsInv ==
  ASSUME KeepersInv, RelayerRestarts
  PROVE  KeepersInv'
<1> USE DEF KeepersInv, NonceInv
<1>1. /\ lastSent' = None /\ lock' = Unlocked /\ keeper' = [k \in Names |-> Resting]
      /\ UNCHANGED <<mirrorVars, pool>> /\ faultKinds' = faultKinds \cup {"restart"}
  BY FaultIsNoted DEF RelayerRestarts
<1>2. MirrorTyped' BY <1>1 DEF MirrorTyped, mirrorVars
<1>3. SenderTyped' BY <1>1 DEF SenderTyped
<1>4. \A k \in Names : keeper'[k] = Resting /\ keeper'[k].pc = "idle" /\ keeper'[k].queue = {}
  BY <1>1 DEF Resting
<1>5. KeepersTyped'
  <2>1. keeper' \in [Names -> Scanning] BY <1>1, KeepersAssumption DEF Scanning, Resting
  <2>2. Cardinality({}) = 0 /\ 0 <= Limit BY FS_EmptySet, KeepersAssumption
  <2>3. \A k \in Names : Cardinality(keeper'[k].queue) <= Limit BY <1>4, <2>2
  <2>4. \A k \in Names : keeper'[k].queue \subseteq Targets(k) BY <1>4
  <2> QED BY <2>1, <1>4, <2>3, <2>4 DEF KeepersTyped, Targets
<1>6. ~Remembers' BY <1>1 DEF Remembers
<1>7. NothingIsSkipped' BY <1>1, <1>4 DEF NothingIsSkipped, None
<1> QED BY <1>2, <1>3, <1>5, <1>6, <1>7
-------------------------------------------------------------------------------
(***************************************************************************)
(* The steps of one keeper.                                                *)
(***************************************************************************)
\* Only the state of k changes, and it keeps its types.
OnlyOf(k, state) ==
    /\ keeper' = [keeper EXCEPT ![k] = state]
    /\ state \in Scanning
    /\ state.queue \subseteq Targets(k) /\ Cardinality(state.queue) <= Limit
    /\ state.pc # "idle" => state.queue # {}
    /\ state.pc = "replacing" => state.attempt < RBF_MAX_ATTEMPTS
    /\ UNCHANGED mirrorVars

LEMMA OnlyOfKeepsTypes ==
  ASSUME KeepersInv, NEW k \in Names, NEW state, OnlyOf(k, state),
         state.pc = "signing" => lock' = k,
         \A j \in Names \ {k} : keeper[j].pc = "signing" => lock' = j
  PROVE  /\ MirrorTyped' /\ KeepersTyped'
         /\ keeper'[k] = state
         /\ \A j \in Names \ {k} : keeper'[j] = keeper[j] /\ Row(j)' = Row(j)
         /\ state.queue = keeper[k].queue => Row(k)' = Row(k)
<1>1. keeper \in [Names -> Scanning] /\ UNCHANGED mirrorVars
  BY DEF KeepersInv, NonceInv, KeepersTyped, OnlyOf
<1>2. /\ keeper'[k] = state
      /\ \A j \in Names \ {k} : keeper'[j] = keeper[j]
  BY <1>1 DEF OnlyOf
<1>3. MirrorTyped' BY <1>1 DEF KeepersInv, MirrorTyped, mirrorVars
<1>4. keeper' \in [Names -> Scanning] BY <1>1 DEF OnlyOf
<1>5. ASSUME NEW j \in Names
      PROVE  /\ keeper'[j].queue \subseteq Targets(j) /\ Cardinality(keeper'[j].queue) <= Limit
             /\ keeper'[j].pc # "idle" => keeper'[j].queue # {}
             /\ keeper'[j].pc = "signing" => lock' = j
             /\ keeper'[j].pc = "replacing" => keeper'[j].attempt < RBF_MAX_ATTEMPTS
  <2>1. CASE j = k BY <2>1, <1>2 DEF OnlyOf
  <2>2. CASE j # k BY <2>2, <1>2 DEF KeepersInv, NonceInv, KeepersTyped
  <2> QED BY <2>1, <2>2
<1>6. KeepersTyped' BY <1>4, <1>5 DEF KeepersTyped, Targets
<1>7. \A j \in Names \ {k} : Row(j)' = Row(j) BY <1>2 DEF Row, Rank
<1>8. state.queue = keeper[k].queue => Row(k)' = Row(k) BY <1>2 DEF Row, Rank
<1> QED BY <1>2, <1>3, <1>6, <1>7, <1>8

\* A step that takes the keeper out of the flight or leaves it there, and broadcasts
\* nothing.
LEMMA GroundedKeepsInv ==
  ASSUME KeepersInv, NEW k \in Names, NEW state, OnlyOf(k, state),
         UNCHANGED <<pool, lastSent>>, faultKinds \subseteq faultKinds',
         lock' = lock \/ (lock = k /\ lock' = Unlocked),
         \/ state.pc = "idle"
         \/ /\ keeper[k].pc \in {"waiting", "replacing"} /\ state.pc \in {"waiting", "replacing"}
            /\ state.nonce = keeper[k].nonce /\ state.queue = keeper[k].queue
  PROVE  KeepersInv'
<1> USE DEF KeepersInv, NonceInv
<1>1. \A j \in Names \ {k} : keeper[j].pc = "signing" => lock' = j
  BY DEF KeepersTyped
<1>2. /\ MirrorTyped' /\ KeepersTyped' /\ keeper'[k] = state
      /\ \A j \in Names \ {k} : keeper'[j] = keeper[j] /\ Row(j)' = Row(j)
      /\ state.queue = keeper[k].queue => Row(k)' = Row(k)
  BY <1>1, OnlyOfKeepsTypes
<1>3. SenderTyped' BY DEF SenderTyped
<1>4. Remembers' => Remembers BY DEF Remembers
<1>5. \A j \in Names : /\ InFlight(j)' => /\ InFlight(j) /\ keeper'[j].nonce = keeper[j].nonce
                                          /\ Row(j)' = Row(j)
                       /\ keeper'[j].pc = "signing" => keeper'[j] = keeper[j]
  BY <1>2 DEF InFlight
<1>6. ASSUME Remembers' PROVE (SentIsGreatest /\ SignedIsFresh /\ FlightsAreApart)'
  BY <1>4, <1>5, <1>6 DEF SentIsGreatest, SignedIsFresh, FlightsAreApart, Call
<1>7. Remembers' => OneCallPerNonce' BY <1>4 DEF OneCallPerNonce
<1>8. "eviction" \notin faultKinds' => NothingIsSkipped' BY <1>5 DEF NothingIsSkipped, InPool
<1> QED BY <1>2, <1>3, <1>6, <1>7, <1>8

LEMMA NextRowIsTyped ==
  ASSUME KeepersInv, NEW k \in Names
  PROVE  /\ NextRow(k) \in Scanning /\ NextRow(k).pc = "idle"
         /\ NextRow(k).queue \subseteq Targets(k) /\ Cardinality(NextRow(k).queue) <= Limit
<1>1. /\ keeper[k] \in Scanning /\ keeper[k].queue \subseteq Targets(k)
      /\ Cardinality(keeper[k].queue) <= Limit
  BY DEF KeepersInv, NonceInv, KeepersTyped
<1>2. IsFiniteSet(keeper[k].queue) BY <1>1, RanksAreNaturals, FS_Subset
<1>3. NextRow(k)
      = [pc |-> "idle", queue |-> keeper[k].queue \ {Row(k)}, nonce |-> 0, attempt |-> 0]
  BY DEF NextRow, Resting
<1>4. NextRow(k) \in Scanning BY <1>1, <1>3, KeepersAssumption DEF Scanning
<1> QED BY <1>1, <1>2, <1>3, <1>4, FewerRows

LEMMA ScanKeepsInv ==
  ASSUME KeepersInv, NEW k \in Names, Scan(k)
  PROVE  KeepersInv'
<1> DEFINE state == [keeper[k] EXCEPT !.queue = FirstOf(k, Candidates(k))]
<1>1. keeper[k] \in Scanning /\ keeper[k].pc = "idle"
  BY DEF KeepersInv, NonceInv, KeepersTyped, Scan
<1>2. Candidates(k) \in SUBSET Targets(k) BY DEF Candidates, Targets
<1>3. /\ FirstOf(k, Candidates(k)) \subseteq Targets(k)
      /\ Cardinality(FirstOf(k, Candidates(k))) <= Limit
  BY <1>2, ScanIsLimited
<1>4. FirstOf(k, Candidates(k)) \subseteq Items \cup Orders BY <1>3 DEF Targets
<1>5. state \in Scanning /\ state.pc = "idle" /\ state.queue = FirstOf(k, Candidates(k))
  BY <1>1, <1>4 DEF Scanning
<1>6. keeper' = [keeper EXCEPT ![k] = state] /\ UNCHANGED <<mirrorVars, senderVars, faultKinds>>
  BY DEF Scan
<1> HIDE DEF state
<1>7. OnlyOf(k, state) BY <1>3, <1>5, <1>6 DEF OnlyOf
<1> QED BY <1>1, <1>5, <1>6, <1>7, GroundedKeepsInv DEF senderVars

LEMMA ReceiptTimeoutKeepsInv ==
  ASSUME KeepersInv, NEW k \in Names, ReceiptTimeout(k)
  PROVE  KeepersInv'
<1>1. /\ keeper[k] \in Scanning /\ keeper[k].pc = "waiting"
      /\ UNCHANGED <<mirrorVars, senderVars, faultKinds>>
  BY DEF KeepersInv, NonceInv, KeepersTyped, ReceiptTimeout
<1>2. UNCHANGED <<pool, lastSent, lock>> BY <1>1 DEF senderVars
<1>3. CASE keeper' = [keeper EXCEPT ![k] = NextRow(k)]
  <2>1. OnlyOf(k, NextRow(k)) BY <1>1, <1>3, NextRowIsTyped DEF OnlyOf
  <2> QED BY <1>1, <1>2, <2>1, NextRowIsTyped, GroundedKeepsInv
<1>4. CASE /\ keeper' = [keeper EXCEPT ![k].pc = "replacing"]
           /\ ~(keeper[k].attempt >= RBF_MAX_ATTEMPTS)
  <2> DEFINE state == [keeper[k] EXCEPT !.pc = "replacing"]
  <2>1. /\ state \in Scanning /\ state.pc = "replacing" /\ state.queue = keeper[k].queue
        /\ state.nonce = keeper[k].nonce /\ state.attempt = keeper[k].attempt
    BY <1>1 DEF Scanning
  <2>2. keeper' = [keeper EXCEPT ![k] = state] BY <1>4
  <2>3. keeper[k].attempt < RBF_MAX_ATTEMPTS BY <1>1, <1>4, KeepersAssumption DEF Scanning
  <2> HIDE DEF state
  <2>4. /\ keeper[k].queue \subseteq Targets(k) /\ Cardinality(keeper[k].queue) <= Limit
        /\ keeper[k].queue # {}
    BY <1>1 DEF KeepersInv, NonceInv, KeepersTyped
  <2>5. OnlyOf(k, state) BY <1>1, <2>1, <2>2, <2>3, <2>4 DEF OnlyOf
  <2> QED BY <1>1, <1>2, <2>1, <2>5, GroundedKeepsInv
<1> QED BY <1>3, <1>4 DEF ReceiptTimeout

LEMMA SigningIsTyped ==
  ASSUME NEW s \in Scanning, NEW n \in Nat
  PROVE  LET signing == [s EXCEPT !.pc = "signing", !.attempt = 0, !.nonce = n]
         IN  /\ signing \in Scanning /\ signing.pc = "signing" /\ signing.nonce = n
             /\ signing.queue = s.queue
<1>1. PICK r : r = [s EXCEPT !.pc = "signing"] OBVIOUS
<1>2. r \in Scanning /\ r.pc = "signing" /\ r.queue = s.queue BY <1>1 DEF Scanning
<1>3. PICK t : t = [r EXCEPT !.attempt = 0] OBVIOUS
<1>4. t \in Scanning /\ t.pc = "signing" /\ t.queue = s.queue
  BY <1>2, <1>3, KeepersAssumption DEF Scanning
<1>5. PICK u : u = [t EXCEPT !.nonce = n] OBVIOUS
<1>6. u \in Scanning /\ u.pc = "signing" /\ u.nonce = n /\ u.queue = s.queue
  BY <1>4, <1>5 DEF Scanning
<1>7. u = [s EXCEPT !.pc = "signing", !.attempt = 0, !.nonce = n] BY <1>1, <1>3, <1>5
<1> QED BY <1>6, <1>7

LEMMA PeekKeepsInv ==
  ASSUME KeepersInv, NEW k \in Names, PeekNonce(k)
  PROVE  KeepersInv'
<1> USE DEF KeepersInv, NonceInv
<1>1. PICK pending \in 0..PendingCount :
         keeper' = [keeper EXCEPT ![k].pc = "signing", ![k].attempt = 0,
                                  ![k].nonce = NextNonce(pending)]
  BY DEF PeekNonce
<1> DEFINE state == [keeper[k] EXCEPT !.pc = "signing", !.attempt = 0,
                                      !.nonce = NextNonce(pending)]
<1>2. /\ keeper[k].pc = "idle" /\ keeper[k].queue # {} /\ lock = Unlocked /\ lock' = k
      /\ UNCHANGED <<mirrorVars, pool, lastSent, faultKinds>>
  BY DEF PeekNonce, LockFree
<1>3. PendingCount \in Nat /\ \A n \in 0..(PendingCount - 1) : InPool(n)
  BY NodeCountsThePool DEF SenderTyped
<1>4. pending \in Nat /\ pending <= PendingCount BY <1>3
<1>5. lastSent \in {None, -1} \cup Nat BY DEF SenderTyped
<1>6. NextNonce(pending) \in Nat BY <1>4, <1>5 DEF NextNonce, None
<1>7. /\ keeper[k] \in Scanning /\ keeper[k].queue \subseteq Targets(k)
      /\ Cardinality(keeper[k].queue) <= Limit
  BY DEF KeepersTyped
<1>8. /\ state \in Scanning /\ state.pc = "signing" /\ state.queue = keeper[k].queue
      /\ state.nonce = NextNonce(pending)
  BY <1>6, <1>7, SigningIsTyped
<1>9. keeper' = [keeper EXCEPT ![k] = state] BY <1>1
<1> HIDE DEF state
<1>10. OnlyOf(k, state) BY <1>2, <1>7, <1>8, <1>9 DEF OnlyOf
<1>11. \A j \in Names : keeper[j].pc # "signing"
  BY <1>2 DEF KeepersTyped, Names, Unlocked
<1>12. /\ MirrorTyped' /\ KeepersTyped' /\ keeper'[k] = state
       /\ \A j \in Names \ {k} : keeper'[j] = keeper[j] /\ Row(j)' = Row(j)
  BY <1>2, <1>10, <1>11, OnlyOfKeepsTypes
<1>13. SenderTyped' BY <1>2 DEF SenderTyped
<1>14. \A j \in Names : InFlight(j)' => j # k /\ InFlight(j) BY <1>8, <1>12 DEF InFlight
<1>15. ASSUME Remembers' PROVE (SentIsGreatest /\ SignedIsFresh /\ FlightsAreApart)'
  <2>0. Remembers BY <1>2, <1>15 DEF Remembers
  <2>1. SentIsGreatest' BY <2>0, <1>2, <1>12, <1>14 DEF SentIsGreatest
  <2>2. lastSent < NextNonce(pending) BY <1>4, <1>5 DEF NextNonce, None
  <2>3. SignedIsFresh' BY <2>2, <1>2, <1>8, <1>11, <1>12 DEF SignedIsFresh
  <2>4. FlightsAreApart' BY <2>0, <1>2, <1>12, <1>14 DEF FlightsAreApart, Call
  <2> QED BY <2>1, <2>3, <2>4
<1>16. Remembers' => OneCallPerNonce' BY <1>2 DEF OneCallPerNonce, Remembers
<1>17. ASSUME "eviction" \notin faultKinds' PROVE NothingIsSkipped'
  <2>0. NothingIsSkipped BY <1>2, <1>17
  <2>1. \A n : InPool(n) => InPool(n)' BY <1>2 DEF InPool
  <2>2. ASSUME NEW n \in 0..(NextNonce(pending) - 1) PROVE InPool(n)
    <3>1. CASE lastSent # None /\ pending <= lastSent
      <4>1. n \in 0..lastSent BY <3>1, <1>5, <1>4, <2>2 DEF NextNonce
      <4> QED BY <4>1, <2>0 DEF NothingIsSkipped
    <3>2. CASE ~(lastSent # None /\ pending <= lastSent)
      <4>1. n \in 0..(PendingCount - 1) BY <3>2, <1>3, <1>4, <2>2 DEF NextNonce
      <4> QED BY <4>1, <1>3
    <3> QED BY <3>1, <3>2
  <2>3. \A n \in 0..lastSent' : InPool(n)' BY <2>0, <2>1, <1>2 DEF NothingIsSkipped
  <2>4. ASSUME NEW j \in Names, keeper'[j].pc = "signing", NEW n \in 0..(keeper'[j].nonce - 1)
        PROVE  InPool(n)'
    BY <2>4, <2>1, <2>2, <1>8, <1>11, <1>12
  <2> QED BY <2>3, <2>4 DEF NothingIsSkipped
<1> QED BY <1>12, <1>13, <1>15, <1>16, <1>17

\* The first broadcast of a call.
LEMMA SendKeepsInv ==
  ASSUME KeepersInv, NEW k \in Names, NEW state, OnlyOf(k, state),
         keeper[k].pc = "signing", keeper[k].nonce >= 0,
         lock' = Unlocked, pool' = pool \cup {Transaction(k, 0)},
         \/ /\ faultKinds' = faultKinds /\ lastSent' = keeper[k].nonce
            /\ state.pc = "waiting" /\ state.nonce = keeper[k].nonce
            /\ state.queue = keeper[k].queue
         \/ /\ faultKinds' = faultKinds \cup {"answer"} /\ lastSent' = lastSent /\ state.pc = "idle"
  PROVE  KeepersInv'
<1> USE DEF KeepersInv, NonceInv
<1> DEFINE tx == Transaction(k, 0)
<1>1. keeper[k] \in Scanning /\ keeper[k].nonce \in Nat /\ lock = k
  BY DEF KeepersTyped, Scanning
<1>2. Row(k) \in keeper[k].queue /\ keeper[k].queue \subseteq Items \cup Orders
  BY RowIsScanned DEF KeepersTyped, Targets
<1>3. /\ tx \in Tx /\ tx.nonce = keeper[k].nonce /\ tx.call = Call(k, Row(k))
  BY <1>1, <1>2, KeepersAssumption DEF Transaction, Tx, Call
<1> HIDE DEF tx
<1>4. pool' = pool \cup {tx} BY DEF tx
<1>5. \A j \in Names : keeper[j].pc = "signing" => j = k BY <1>1 DEF KeepersTyped
<1>6. /\ MirrorTyped' /\ KeepersTyped' /\ keeper'[k] = state
      /\ \A j \in Names \ {k} : keeper'[j] = keeper[j] /\ Row(j)' = Row(j)
      /\ state.queue = keeper[k].queue => Row(k)' = Row(k)
  BY <1>5, OnlyOfKeepsTypes
<1>7. SenderTyped'
  <2>1. IsFiniteSet(pool') BY <1>4, FS_AddElement DEF SenderTyped
  <2>2. lastSent' \in {None, -1} \cup Nat BY <1>1 DEF SenderTyped
  <2> QED BY <2>1, <2>2, <1>3, <1>4 DEF SenderTyped
<1>8. ASSUME Remembers'
      PROVE  (SentIsGreatest /\ SignedIsFresh /\ FlightsAreApart /\ OneCallPerNonce)'
  <2>0. /\ Remembers /\ lastSent' = keeper[k].nonce
        /\ state.pc = "waiting" /\ state.nonce = keeper[k].nonce /\ state.queue = keeper[k].queue
    BY <1>8 DEF Remembers
  <2>1. lastSent < keeper[k].nonce /\ lastSent \in Int
    BY <2>0 DEF SignedIsFresh, SenderTyped, None
  <2>2. \A t \in pool : t.nonce \in Nat /\ t.nonce <= lastSent /\ t.nonce < tx.nonce
    BY <2>0, <2>1, <1>1, <1>3 DEF SentIsGreatest, SenderTyped, Tx
  <2>3. \A j \in Names : j # k /\ InFlight(j)' => /\ InFlight(j) /\ keeper'[j] = keeper[j]
                                                  /\ Row(j)' = Row(j)
    BY <1>6 DEF InFlight
  <2>4. \A j \in Names : j # k /\ InFlight(j)' => /\ keeper[j].nonce \in Int
                                                  /\ keeper[j].nonce < keeper[k].nonce
    BY <2>0, <2>1, <2>3, <1>1 DEF SentIsGreatest, KeepersTyped, Scanning
  <2>5. keeper'[k].nonce = keeper[k].nonce /\ keeper'[k].pc = "waiting" /\ Row(k)' = Row(k)
    BY <2>0, <1>6
  <2>6. SentIsGreatest'
    <3>1. \A t \in pool' : t.nonce <= lastSent' BY <2>0, <2>1, <2>2, <1>1, <1>3, <1>4
    <3>2. ASSUME NEW j \in Names, InFlight(j)' PROVE keeper'[j].nonce <= lastSent'
      BY <3>2, <2>0, <2>3, <2>4, <2>5, <1>1
    <3> QED BY <3>1, <3>2 DEF SentIsGreatest
  <2>7. SignedIsFresh' BY <2>5, <1>5, <1>6 DEF SignedIsFresh
  <2>8. FlightsAreApart'
    <3>1. ASSUME NEW i \in Names, NEW j \in Names, InFlight(i)', InFlight(j)',
                 keeper'[i].nonce = keeper'[j].nonce
          PROVE  i = j
      <4>1. CASE i = k \/ j = k BY <3>1, <4>1, <2>3, <2>4, <2>5, <1>1
      <4>2. CASE i # k /\ j # k BY <3>1, <4>2, <2>0, <2>3 DEF FlightsAreApart
      <4> QED BY <4>1, <4>2
    <3>2. ASSUME NEW j \in Names, NEW t \in pool', InFlight(j)', t.nonce = keeper'[j].nonce
          PROVE  t.call = Call(j, Row(j)')
      <4>1. CASE j = k /\ t = tx BY <4>1, <1>3, <2>5
      <4>2. CASE j = k /\ t \in pool BY <3>2, <4>2, <2>2, <2>5, <1>1, <1>3
      <4>3. CASE j # k /\ t = tx BY <3>2, <4>3, <2>3, <2>4, <1>1, <1>3
      <4>4. CASE j # k /\ t \in pool BY <3>2, <4>4, <2>0, <2>3 DEF FlightsAreApart
      <4> QED BY <1>4, <4>1, <4>2, <4>3, <4>4
    <3> QED BY <3>1, <3>2 DEF FlightsAreApart, Call
  <2>9. OneCallPerNonce'
    <3> SUFFICES ASSUME NEW t \in pool', NEW u \in pool', t.nonce = u.nonce PROVE t.call = u.call
      BY DEF OneCallPerNonce
    <3>1. CASE t \in pool /\ u \in pool BY <3>1, <2>0 DEF OneCallPerNonce
    <3>2. CASE t = tx \/ u = tx
      <4>1. t = u BY <3>2, <1>4, <2>2, <1>1, <1>3
      <4> QED BY <4>1
    <3> QED BY <3>1, <3>2, <1>4
  <2> QED BY <2>6, <2>7, <2>8, <2>9
<1>9. ASSUME "eviction" \notin faultKinds' PROVE NothingIsSkipped'
  <2>0. NothingIsSkipped BY <1>9
  <2>1. \A n : InPool(n) => InPool(n)' BY <1>4 DEF InPool
  <2>2. \A n : n = keeper[k].nonce => InPool(n)' BY <1>3, <1>4 DEF InPool
  <2>3. ASSUME NEW n \in 0..lastSent' PROVE InPool(n)'
    <3>1. CASE lastSent' = lastSent BY <3>1, <2>0, <2>1, <2>3 DEF NothingIsSkipped
    <3>2. CASE lastSent' = keeper[k].nonce
      <4>1. n = keeper[k].nonce \/ n \in 0..(keeper[k].nonce - 1) BY <3>2, <2>3, <1>1
      <4> QED BY <4>1, <2>0, <2>1, <2>2 DEF NothingIsSkipped
    <3> QED BY <3>1, <3>2
  <2>4. \A j \in Names : keeper'[j].pc # "signing" BY <1>5, <1>6
  <2> QED BY <2>3, <2>4 DEF NothingIsSkipped
<1> QED BY <1>6, <1>7, <1>8, <1>9

LEMMA BroadcastKeepsInv ==
  ASSUME KeepersInv, NEW k \in Names, Broadcast(k)
  PROVE  KeepersInv'
<1>1. /\ keeper[k] \in Scanning /\ keeper[k].pc = "signing" /\ lock = k
      /\ keeper[k].queue \subseteq Targets(k) /\ Cardinality(keeper[k].queue) <= Limit
      /\ keeper[k].queue # {}
  BY DEF KeepersInv, NonceInv, KeepersTyped, Broadcast
<1>2. lock' = Unlocked /\ UNCHANGED mirrorVars BY DEF Broadcast
<1>3. CASE /\ keeper[k].nonce >= 0 /\ pool' = pool \cup {Transaction(k, 0)}
           /\ lastSent' = keeper[k].nonce /\ keeper' = [keeper EXCEPT ![k].pc = "waiting"]
           /\ UNCHANGED faultKinds
  <2> DEFINE state == [keeper[k] EXCEPT !.pc = "waiting"]
  <2>1. /\ state \in Scanning /\ state.pc = "waiting" /\ state.queue = keeper[k].queue
        /\ state.nonce = keeper[k].nonce
    BY <1>1 DEF Scanning
  <2>2. keeper' = [keeper EXCEPT ![k] = state] BY <1>3
  <2> HIDE DEF state
  <2>3. OnlyOf(k, state) BY <1>1, <1>2, <2>1, <2>2 DEF OnlyOf
  <2> QED BY <1>1, <1>2, <1>3, <2>1, <2>3, SendKeepsInv
<1>4. CASE /\ faultKinds' = faultKinds \/ faultKinds' = faultKinds \cup {"refusal"}
           /\ lastSent' = lastSent /\ keeper' = [keeper EXCEPT ![k] = NextRow(k)]
           /\ UNCHANGED pool
  <2>1. OnlyOf(k, NextRow(k)) BY <1>2, <1>4, NextRowIsTyped DEF OnlyOf
  <2> QED BY <1>1, <1>2, <1>4, <2>1, NextRowIsTyped, GroundedKeepsInv
<1>5. CASE /\ keeper[k].nonce >= 0 /\ faultKinds' = faultKinds \cup {"answer"}
           /\ pool' = pool \cup {Transaction(k, 0)}
           /\ keeper' = [keeper EXCEPT ![k] = NextRow(k)] /\ UNCHANGED lastSent
  <2>1. OnlyOf(k, NextRow(k)) BY <1>2, <1>5, NextRowIsTyped DEF OnlyOf
  <2> QED BY <1>1, <1>2, <1>5, <2>1, NextRowIsTyped, SendKeepsInv
<1> QED BY <1>3, <1>4, <1>5, FaultIsNoted DEF Broadcast, KeptIfSkipped

LEMMA ReplaceKeepsInv ==
  ASSUME KeepersInv, NEW k \in Names, ReplaceByFee(k)
  PROVE  KeepersInv'
<1> USE DEF KeepersInv, NonceInv
<1>1. /\ keeper[k] \in Scanning /\ keeper[k].pc = "replacing"
      /\ keeper[k].attempt < RBF_MAX_ATTEMPTS
      /\ keeper[k].queue \subseteq Targets(k) /\ Cardinality(keeper[k].queue) <= Limit
      /\ keeper[k].queue # {}
  BY DEF KeepersTyped, ReplaceByFee
<1>2. UNCHANGED <<mirrorVars, lastSent, lock, faultKinds>> BY DEF ReplaceByFee
<1>3. CASE keeper' = [keeper EXCEPT ![k] = NextRow(k)] /\ UNCHANGED pool
  <2>1. OnlyOf(k, NextRow(k)) BY <1>2, <1>3, NextRowIsTyped DEF OnlyOf
  <2> QED BY <1>2, <1>3, <2>1, NextRowIsTyped, GroundedKeepsInv
<1>4. CASE /\ ~(keeper[k].nonce < 0) /\ pool' = pool \cup {Replacement(k)}
           /\ keeper' = [keeper EXCEPT ![k].pc = "waiting", ![k].attempt = @ + 1]
  <2> DEFINE state == [keeper[k] EXCEPT !.pc = "waiting", !.attempt = @ + 1]
             tx == Replacement(k)
  <2>1. keeper[k].attempt + 1 \in 0..RBF_MAX_ATTEMPTS /\ keeper[k].nonce \in Nat
    BY <1>1, <1>4, KeepersAssumption DEF Scanning
  <2>2. /\ state \in Scanning /\ state.pc = "waiting" /\ state.queue = keeper[k].queue
        /\ state.nonce = keeper[k].nonce
    BY <1>1, <2>1 DEF Scanning
  <2>3. keeper' = [keeper EXCEPT ![k] = state] BY <1>4
  <2>4. Row(k) \in Items \cup Orders BY <1>1, RowIsScanned DEF Targets
  <2>5. tx \in Tx /\ tx.nonce = keeper[k].nonce /\ tx.call = Call(k, Row(k))
    BY <2>1, <2>4 DEF Replacement, Transaction, Tx, Call
  <2>6. pool' = pool \cup {tx} BY <1>4
  <2> HIDE DEF state, tx
  <2>7. OnlyOf(k, state) BY <1>1, <1>2, <2>2, <2>3 DEF OnlyOf
  <2>8. \A j \in Names \ {k} : keeper[j].pc = "signing" => lock' = j BY <1>2 DEF KeepersTyped
  <2>9. /\ MirrorTyped' /\ KeepersTyped' /\ keeper'[k] = state
        /\ \A j \in Names \ {k} : keeper'[j] = keeper[j] /\ Row(j)' = Row(j)
        /\ Row(k)' = Row(k)
    BY <2>2, <2>7, <2>8, OnlyOfKeepsTypes
  <2>10. SenderTyped'
    <3>1. IsFiniteSet(pool') BY <2>6, FS_AddElement DEF SenderTyped
    <3> QED BY <3>1, <1>2, <2>5, <2>6 DEF SenderTyped
  <2>11. InFlight(k) BY <1>1, <2>1 DEF InFlight
  <2>12. \A j \in Names : /\ keeper'[j].nonce = keeper[j].nonce /\ Row(j)' = Row(j)
                          /\ InFlight(j)' => InFlight(j)
                          /\ keeper'[j].pc = "signing" => keeper[j].pc = "signing"
    BY <2>2, <2>9, <2>11 DEF InFlight
  <2>13. ASSUME Remembers'
         PROVE  (SentIsGreatest /\ SignedIsFresh /\ FlightsAreApart /\ OneCallPerNonce)'
    <3>0. Remembers BY <1>2, <2>13 DEF Remembers
    <3>1. \A t \in pool : t.nonce = tx.nonce => t.call = tx.call
      BY <3>0, <2>5, <2>11 DEF FlightsAreApart
    <3>2. SentIsGreatest' BY <3>0, <1>2, <2>5, <2>6, <2>11, <2>12 DEF SentIsGreatest
    <3>3. SignedIsFresh' BY <3>0, <1>2, <2>12 DEF SignedIsFresh
    <3>4. ASSUME NEW i \in Names, NEW j \in Names, InFlight(i)', InFlight(j)',
                 keeper'[i].nonce = keeper'[j].nonce
          PROVE  i = j
      BY <3>0, <3>4, <2>12 DEF FlightsAreApart
    <3>5. ASSUME NEW j \in Names, NEW t \in pool', InFlight(j)', t.nonce = keeper'[j].nonce
          PROVE  t.call = Call(j, Row(j)')
      <4>1. CASE t \in pool BY <3>0, <3>5, <4>1, <2>12 DEF FlightsAreApart
      <4>2. CASE t = tx
        <5>1. keeper[j].nonce = keeper[k].nonce /\ InFlight(j) BY <3>5, <4>2, <2>5, <2>12
        <5>2. j = k BY <5>1, <3>0, <2>11 DEF FlightsAreApart
        <5> QED BY <5>2, <4>2, <2>5, <2>9
      <4> QED BY <4>1, <4>2, <2>6
    <3>6. FlightsAreApart' BY <3>4, <3>5 DEF FlightsAreApart, Call
    <3>7. OneCallPerNonce' BY <3>0, <3>1, <2>6 DEF OneCallPerNonce
    <3> QED BY <3>2, <3>3, <3>6, <3>7
  <2>14. ASSUME "eviction" \notin faultKinds' PROVE NothingIsSkipped'
    <3>1. NothingIsSkipped BY <1>2, <2>14
    <3>2. \A n : InPool(n) => InPool(n)' BY <2>6 DEF InPool
    <3> QED BY <3>1, <3>2, <1>2, <2>12 DEF NothingIsSkipped
  <2> QED BY <2>9, <2>10, <2>13, <2>14
<1> QED BY <1>3, <1>4 DEF ReplaceByFee
-------------------------------------------------------------------------------
(***************************************************************************)
(* Theorems.                                                               *)
(***************************************************************************)
LEMMA KeepersNextKeepsInv == KeepersInv /\ [KeepersNext]_keepersVars => KeepersInv'
<1> SUFFICES ASSUME KeepersInv, [KeepersNext]_keepersVars PROVE KeepersInv' OBVIOUS
<1>1. CASE \/ Parties \/ Pause \/ PauseEnds \/ Mirror
           \/ \E i \in Items : EarlyReleaseRequested(i) \/ MirrorLoses(i)
  BY <1>1, OthersKeepInv
<1>2. CASE MineNext BY <1>2, MineKeepsInv
<1>3. CASE Evict BY <1>3, EvictKeepsInv
<1>4. CASE RelayerRestarts BY <1>4, RestartKeepsInv
<1>5. ASSUME NEW k \in Names, KeeperStep(k) PROVE KeepersInv'
  BY <1>5, ScanKeepsInv, PeekKeepsInv, BroadcastKeepsInv, ReplaceKeepsInv DEF KeeperStep
<1>6. ASSUME NEW k \in Names, ReceiptTimeout(k) PROVE KeepersInv'
  BY <1>6, ReceiptTimeoutKeepsInv
<1>7. CASE UNCHANGED keepersVars
  <2>1. UNCHANGED <<mirrorVars, senderVars, keeper, faultKinds>> BY <1>7 DEF keepersVars
  <2>2. NonceInv' BY <2>1, SenderRests DEF KeepersInv
  <2> QED BY <2>1, <2>2 DEF KeepersInv, MirrorTyped, mirrorVars
<1> QED BY <1>1, <1>2, <1>3, <1>4, <1>5, <1>6, <1>7 DEF KeepersNext

THEOREM KeepersInvariant == KeepersSpec => []KeepersInv
<1>1. KeepersInit => KeepersInv BY KeepersInitInv
<1>2. KeepersInv /\ [KeepersNext]_keepersVars => KeepersInv' BY KeepersNextKeepsInv
<1> QED BY <1>1, <1>2, PTL DEF KeepersSpec

\* The relayer's nonces (relayer.py): the two keepers never sign different calls with one
\* nonce, and nothing but a transaction the pool dropped leaves a hole behind which both
\* would wait for ever, whatever is refused, replaced, late or restarted.
THEOREM KeepersNoncesInStep == KeepersSpec => []NoncesInStep
<1>1. KeepersInv => NoncesInStep
  <2> SUFFICES ASSUME KeepersInv PROVE NoncesInStep OBVIOUS
  <2>1. KeepersTypeOK
    <3>1. \A tx \in pool : tx.nonce \in Nat /\ tx.attempt \in 0..RBF_MAX_ATTEMPTS
      BY DEF KeepersInv, NonceInv, SenderTyped, Tx
    <3>2. \A k \in Names :
             /\ keeper[k].pc \in {"idle", "signing", "waiting", "replacing"}
             /\ Cardinality(keeper[k].queue) <= Limit
             /\ keeper[k].pc = "signing" => lock = k
      BY DEF KeepersInv, NonceInv, KeepersTyped, Scanning
    <3> QED BY <3>1, <3>2 DEF KeepersTypeOK, KeepersInv, NonceInv, MirrorTyped, SenderTyped
  <2>2. OneCallPerNonce
    <3>1. CASE Remembers BY <3>1 DEF KeepersInv, NonceInv
    <3>2. CASE ~Remembers BY <3>2 DEF OneCallPerNonce
    <3> QED BY <3>1, <3>2
  <2>3. NoNonceGap BY DEF KeepersInv, NonceInv, NothingIsSkipped, InPool, NoNonceGap, Gap
  <2> QED BY <2>1, <2>2, <2>3 DEF NoncesInStep
<1> QED BY <1>1, KeepersInvariant, PTL
===============================================================================
