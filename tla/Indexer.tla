------------------------------- MODULE Indexer -------------------------------
(***************************************************************************)
(* services/indexer.py and the handlers of services/indexer_handlers.py    *)
(* that mirror an order: the backend's database follows the chain by       *)
(* polling the logs of each contract from a stored checkpoint.             *)
(*                                                                         *)
(* The chain is OrderLifecycle with an append-only log.  A poll of one     *)
(* contract is one database session: `ses' is what the session sees, `db'  *)
(* what is committed, and a failing handler rolls `ses' back to `db'.      *)
(* Between two events of a poll the chain goes on, and a handler that      *)
(* reads the chain reads its latest state.                                 *)
(*                                                                         *)
(* faults bounds the things that go wrong: a handler that fails (RPC or    *)
(* database error), a log read served by a node that lags, a graceful      *)
(* stop, a crash.                                                          *)
(***************************************************************************)
EXTENDS OrderLifecycle, Integers, SequencesExt

CONSTANTS
    REORG_DEPTH,      \* blocks read again by the next poll
    CHUNK,            \* blocks of one eth_getLogs call
    MaxLag,           \* how far the node that answers eth_getLogs may lag
    MaxBlock,         \* bound on the chain
    MaxFaults         \* bound on the faults of a behaviour

ASSUME IndexerAssumption ==
    /\ OrderOf \in [Items -> Orders] /\ IsFiniteSet(Items)
    /\ {REORG_DEPTH, CHUNK, MaxLag, MaxBlock, MaxFaults} \subseteq Nat

VARIABLES
    head,     \* the latest block
    log,      \* the events of all contracts, in the order they were emitted
    db,       \* the committed rows
    ses,      \* the rows as the open session sees them
    poll,     \* the cycle: contract polled, target block, next block, fetched events
    stopping, \* Indexer._stop is set
    faults,   \* faults so far
    undone,   \* events whose handler failed or was rolled back with another's
    late,     \* events handled after a later event of their contract
    skipped   \* events a stopped cycle left behind its checkpoint

chainVars   == <<lifecycleVars, head, log>>
indexerVars == <<db, ses, poll, stopping, faults, undone, late, skipped>>
vars        == <<chainVars, indexerVars>>

\* Mutant: the dispute contract is polled first.
PolledDisputeFirst == <<"EtaloDispute", "EtaloEscrow">>

\* The escrow is polled before the dispute contract, up to the same block.
Polled == <<"EtaloEscrow", "EtaloDispute">>

\* An event of the block a transaction is mined in; `full' tells a resolution that
\* refunds the whole price from one that pays the seller.
Event(contract, name, o, S, full) ==
    [contract |-> contract, name |-> name, order |-> o, items |-> S, full |-> full,
     block |-> head + 1]

Escrow(name, o, S) == Event("EtaloEscrow", name, o, S, FALSE)

\* The HANDLERS registry: OrderCancelled and ForceRefundExecuted have no entry.
Handled == {"OrderCreated", "OrderFunded", "ShipmentGroupCreated", "ItemReleased",
            "OrderCompleted", "AutoRefundInactive", "ItemDisputed",
            "ItemDisputeResolved", "DisputeOpened"}

EventIds == DOMAIN log
HandledIds == {e \in EventIds : log[e].name \in Handled}

Idle == poll.contract = 0

Init ==
    /\ LifecycleInit
    /\ head = 0 /\ log = <<>>
    /\ db = [order      |-> [o \in Orders |-> "absent"],
             item       |-> [i \in Items |-> "absent"],
             dispute    |-> [i \in Items |-> FALSE],   \* a row of disputes
             done       |-> {},                        \* indexer_events_processed
             checkpoint |-> [k \in DOMAIN Polled |-> 0]]
    /\ ses = db
    /\ poll = [contract |-> 0, to |-> 0, next |-> 0, fetched |-> {}]
    /\ stopping = FALSE /\ faults = 0
    /\ undone = {} /\ late = {} /\ skipped = {}
-------------------------------------------------------------------------------
(***************************************************************************)
(* The chain: every transaction is a block of its own.                     *)
(***************************************************************************)
Mine(events) ==
    /\ head < MaxBlock /\ head' = head + 1
    /\ log' = log \o events
    /\ UNCHANGED indexerVars

\* OrderCompleted is emitted before the event of the item that completes the order.
CompletedIfClosed(o) ==
    IF orderStatus'[o] = "Completed" THEN <<Escrow("OrderCompleted", o, {})>> ELSE <<>>

ReleaseEvents(o, S) ==
    LET items == SetToSeq(S)
    IN  CompletedIfClosed(o) \o
            [k \in DOMAIN items |-> Escrow("ItemReleased", o, {items[k]})]

OrderTransaction(o) ==
    \/ Create(o) /\ Mine(<<Escrow("OrderCreated", o, ItemsIn(o))>>)
    \/ Fund(o) /\ Mine(<<Escrow("OrderFunded", o, {})>>)
    \/ Cancel(o) /\ Mine(<<Escrow("OrderCancelled", o, {})>>)
    \/ AutoRefund(o) /\ Mine(<<Escrow("AutoRefundInactive", o, {})>>)
    \/ ForceRefund(o) /\ Mine(<<Escrow("ForceRefundExecuted", o, {})>>)
    \/ \E S \in SUBSET ItemsIn(o) :
          \/ Ship(o, S) /\ Mine(<<Escrow("ShipmentGroupCreated", o, S)>>)
          \/ Confirm(o, S) /\ Mine(ReleaseEvents(o, S))

ItemTransaction(i) ==
    LET o == OrderOf[i]
    IN  \/ AutoRelease(i) /\ Mine(ReleaseEvents(o, {i}))
        \/ Dispute(i) /\ Mine(<<Escrow("ItemDisputed", o, {i}),
                                Event("EtaloDispute", "DisputeOpened", o, {i}, FALSE)>>)
        \/ \E s \in Done :
              Resolve(i, s) /\ Mine(CompletedIfClosed(o) \o
                  <<Event("EtaloEscrow", "ItemDisputeResolved", o, {i}, s = "Refunded")>>)

Chain ==
    \/ \E o \in Orders : OrderTransaction(o)
    \/ \E i \in Items : ItemTransaction(i)
    \/ TimePasses /\ UNCHANGED <<head, log, indexerVars>>
    \/ Mine(<<>>) /\ UNCHANGED lifecycleVars
-------------------------------------------------------------------------------
(***************************************************************************)
(* The handlers: what each makes of the rows m, given the event e.  A row  *)
(* that is missing makes the handler return without an error, so the       *)
(* event still counts as processed.                                        *)
(***************************************************************************)
Known(m, o) == m.order[o] # "absent"

SetItems(m, S, s) == [m EXCEPT !.item = [i \in Items |-> IF i \in S THEN s ELSE @[i]]]

\* Mutant: the status is left to OrderCompleted, as before the resync was added.
SyncOrderNever(m, o) == m

\* _sync_order_global_status: the status the chain has now, not the event's.
SyncOrder(m, o) == IF Known(m, o) THEN [m EXCEPT !.order[o] = orderStatus[o]] ELSE m

HandleOrderCreated(m, e) ==
    SetItems([m EXCEPT !.order[e.order] = "Created"], e.items, "Pending")

HandleOrderFunded(m, e) ==
    IF Known(m, e.order) THEN [m EXCEPT !.order[e.order] = "Funded"] ELSE m

\* The deadline of the group is left to Keepers.
HandleShipmentGroupCreated(m, e) ==
    IF Known(m, e.order) THEN SyncOrder(SetItems(m, e.items, "Shipped"), e.order) ELSE m

KnownItems(m, e) == {i \in e.items : m.item[i] # "absent"}

HandleItemReleased(m, e) == SyncOrder(SetItems(m, KnownItems(m, e), "Released"), e.order)

HandleOrderCompleted(m, e) ==
    IF Known(m, e.order) THEN [m EXCEPT !.order[e.order] = "Completed"] ELSE m

HandleAutoRefundInactive(m, e) ==
    IF Known(m, e.order) /\ m.order[e.order] # "Refunded"
    THEN SetItems([m EXCEPT !.order[e.order] = "Refunded"], ItemsIn(e.order), "Refunded")
    ELSE m

HandleItemDisputed(m, e) == SetItems(m, KnownItems(m, e), "Disputed")

HandleItemDisputeResolved(m, e) ==
    SyncOrder(SetItems(m, KnownItems(m, e), IF e.full THEN "Refunded" ELSE "Released"), e.order)

HandleDisputeOpened(m, e) ==
    IF Known(m, e.order)
    THEN [m EXCEPT !.dispute = [i \in Items |-> @[i] \/ i \in KnownItems(m, e)]]
    ELSE m

Handle(m, e) ==
    CASE e.name = "OrderCreated"         -> HandleOrderCreated(m, e)
      [] e.name = "OrderFunded"          -> HandleOrderFunded(m, e)
      [] e.name = "ShipmentGroupCreated" -> HandleShipmentGroupCreated(m, e)
      [] e.name = "ItemReleased"         -> HandleItemReleased(m, e)
      [] e.name = "OrderCompleted"       -> HandleOrderCompleted(m, e)
      [] e.name = "AutoRefundInactive"   -> HandleAutoRefundInactive(m, e)
      [] e.name = "ItemDisputed"         -> HandleItemDisputed(m, e)
      [] e.name = "ItemDisputeResolved"  -> HandleItemDisputeResolved(m, e)
      [] e.name = "DisputeOpened"        -> HandleDisputeOpened(m, e)
-------------------------------------------------------------------------------
(***************************************************************************)
(* The polling loop.                                                       *)
(***************************************************************************)
Fault == faults < MaxFaults /\ faults' = faults + 1

\* Mutant: the window is one block short.
FirstBlockShort(k, m) == Max({1, m.checkpoint[k] - REORG_DEPTH + 2})

FirstBlock(k, m) == Max({1, m.checkpoint[k] - REORG_DEPTH + 1})

\* The session of the k-th contract opens; k past the last one ends the cycle.
OpenSession(k, to, rows) ==
    poll' = IF k \in DOMAIN Polled
            THEN [contract |-> k, to |-> to, next |-> FirstBlock(k, rows), fetched |-> {}]
            ELSE [contract |-> 0, to |-> 0, next |-> 0, fetched |-> {}]

\* _poll_cycle: one head for all the contracts of the cycle.
StartCycle ==
    /\ Idle /\ ~stopping
    /\ OpenSession(1, head, db)
    /\ ses' = db
    /\ UNCHANGED <<chainVars, db, stopping, faults, undone, late, skipped>>

\* Mutant: the loop stops one block before the target.
ChunkPendingExclusive == poll.next < poll.to /\ ~stopping

ChunkPending == poll.next <= poll.to /\ ~stopping

\* The handled events of the polled contract in the blocks from..to.
EventsIn(from, to) ==
    {e \in HandledIds : /\ log[e].contract = Polled[poll.contract]
                        /\ log[e].block \in from..to}

\* Mutant: the processed events are handled again.
UnprocessedIgnoringRows(from, to) == EventsIn(from, to)

\* Those that indexer_events_processed does not have yet.
Unprocessed(from, to) == EventsIn(from, to) \ ses.done

\* eth_getLogs, answered by a node that has seen the chain up to head - lag, and the
\* events of the answer that no earlier session has processed.
FetchChunk ==
    /\ ~Idle /\ poll.fetched = {} /\ ChunkPending
    /\ \E lag \in 0..MaxLag :
          /\ IF lag = 0 THEN UNCHANGED faults ELSE Fault
          /\ LET last  == poll.next + CHUNK - 1
                 end   == IF last < poll.to THEN last ELSE poll.to
                 found == {e \in Unprocessed(poll.next, end) : log[e].block <= head - lag}
             IN  poll' = [poll EXCEPT !.next = end + 1,
                                      !.fetched = found]
    /\ UNCHANGED <<chainVars, db, ses, stopping, undone, late, skipped>>

\* The answer is in the order of the log.
Current == Min(poll.fetched)

NextEvent == poll' = [poll EXCEPT !.fetched = @ \ {Current}]

\* The handler and the row that says so are one transaction.
RunHandler ==
    /\ poll.fetched # {}
    /\ ses' = [Handle(ses, log[Current]) EXCEPT !.done = @ \cup {Current}]
    /\ late' = late \cup {e \in {Current} : \E f \in ses.done :
                               f > e /\ log[f].contract = log[e].contract}
    /\ NextEvent
    /\ UNCHANGED <<chainVars, db, stopping, faults, undone, skipped>>

\* The rollback takes back the events of this session that were handled before.
HandlerFails ==
    /\ poll.fetched # {} /\ Fault
    /\ ses' = db
    /\ undone' = undone \cup {Current} \cup (ses.done \ db.done)
    /\ NextEvent
    /\ UNCHANGED <<chainVars, db, stopping, late, skipped>>

\* Mutant: the checkpoint is the next block to read.
LastIndexedBlockNext == poll.next

LastIndexedBlock == poll.to

\* The checkpoint moves to the head of the cycle, whatever the loop left unread.
CloseSession ==
    /\ ~Idle /\ poll.fetched = {} /\ ~ChunkPending
    /\ LET read  == FirstBlock(poll.contract, db) <= poll.to
           saved == IF read THEN [ses EXCEPT !.checkpoint[poll.contract] = LastIndexedBlock] ELSE db
       IN  /\ db' = saved /\ ses' = saved
           /\ OpenSession(poll.contract + 1, poll.to, saved)
    /\ skipped' = IF stopping THEN skipped \cup EventsIn(poll.next, poll.to) ELSE skipped
    /\ UNCHANGED <<chainVars, stopping, faults, undone, late>>

\* The lifespan shuts down: the running cycle is let to its end.
Stop ==
    /\ ~stopping /\ Fault
    /\ stopping' = TRUE
    /\ UNCHANGED <<chainVars, db, ses, poll, undone, late, skipped>>

Restart ==
    /\ Idle /\ stopping
    /\ stopping' = FALSE
    /\ UNCHANGED <<chainVars, db, ses, poll, faults, undone, late, skipped>>

\* The process dies, or is cancelled after 10 s, and starts again: the open
\* session is lost.
Crash ==
    /\ ~Idle /\ Fault
    /\ ses' = db /\ stopping' = FALSE
    /\ OpenSession(0, 0, db)
    /\ UNCHANGED <<chainVars, db, undone, late, skipped>>

Poller == StartCycle \/ FetchChunk \/ RunHandler \/ CloseSession \/ Restart

Next == Chain \/ Poller \/ HandlerFails \/ Stop \/ Crash

\* The task polls for ever and the process manager restarts it; a handler whose
\* retries never stop failing is excluded by the bound on faults.
Spec == Init /\ [][Next]_vars /\ WF_vars(Poller)
-------------------------------------------------------------------------------
(***************************************************************************)
(* Properties.                                                             *)
(***************************************************************************)
TypeOK ==
    /\ head \in 0..MaxBlock /\ faults \in 0..MaxFaults
    /\ \A e \in EventIds : log[e].block \in 1..head
    /\ undone \subseteq EventIds /\ skipped \subseteq EventIds
    /\ db.done \subseteq HandledIds /\ ses.done \subseteq HandledIds
    /\ \A k \in DOMAIN Polled : db.checkpoint[k] \in 0..head
    /\ poll.contract \in {0} \cup DOMAIN Polled

ContractOf(e) == CHOOSE k \in DOMAIN Polled : Polled[k] = log[e].contract

\* The blocks the next poll of the event's contract no longer reads.
OutOfReach(e) == log[e].block < FirstBlock(ContractOf(e), db)

\* An event that no poll will read again was processed, unless its handler failed,
\* another handler's failure rolled it back, or a shutdown cut the cycle: a lagging
\* node, a crash or a chunk boundary loses nothing.
NoSilentLoss ==
    \A e \in HandledIds : OutOfReach(e) => e \in db.done \cup undone \cup skipped

\* The events of the order are all in the mirror; an order that was cancelled or
\* force-refunded has one that no handler takes.
FullyProcessed(o) ==
    LET events == {e \in EventIds : log[e].order = o}
    IN  events # {} /\ events \subseteq db.done

MirrorEquals(o) ==
    /\ db.order[o] = orderStatus[o]
    /\ \A i \in ItemsIn(o) : db.item[i] = itemStatus[i]

\* Once every event of an order has been processed, and none after a later one, the
\* mirror has the statuses of the chain, although the handlers read the chain ahead
\* of the event they handle.
MirrorAgrees == \A o \in Orders : FullyProcessed(o) /\ late = {} => MirrorEquals(o)

\* The dispute contract is polled after the escrow, so the order and the item of a
\* dispute are in the mirror when its event is handled: the row is not dropped.
DisputeRowKept ==
    \A e \in db.done : log[e].name = "DisputeOpened" /\ undone = {} /\ skipped = {} =>
        \A i \in log[e].items : db.dispute[i]

\* Whatever happens, the mirror catches up with the log again and again: once the
\* chain pauses, every event is processed or was lost to a failing handler or a
\* shutdown.
MirrorCatchesUp == []<>(HandledIds \subseteq db.done \cup undone \cup skipped)
===============================================================================
