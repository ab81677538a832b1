------------------------------- MODULE Keepers -------------------------------
(***************************************************************************)
(* The two keepers of the backend and the sender they share:               *)
(* services/auto_release_keeper.py, services/auto_refund_keeper.py and     *)
(* services/relayer.py.  Each keeper scans the mirror for what has run out *)
(* and sends one transaction per row, in order, through RelayerTxSender,   *)
(* which numbers the transactions of the one relayer account.              *)
(*                                                                         *)
(* The chain is OrderLifecycle.  The mirror is a copy of it that lags, and *)
(* may lose an update for good (Indexer, undone and skipped).  Nonces are  *)
(* counted from the number of mined transactions of the account, so that   *)
(* 0 is the next one to be mined and a negative one has been mined.        *)
(***************************************************************************)
EXTENDS OrderLifecycle, Integers, FiniteSets

CONSTANTS
    DeadlineRank,      \* the order of the items by deadline, the oldest least
    FundingRank,       \* the order of the orders by the time of their funding
    Limit,             \* rows of one scan
    RBF_MAX_ATTEMPTS,
    MaxPool,           \* bound on the transactions in the pool
    MaxFaultKinds      \* bound on the faults of a behaviour

ASSUME KeepersAssumption ==
    /\ IsFiniteSet(Items) /\ IsFiniteSet(Orders)
    /\ DeadlineRank \in [Items -> Nat] /\ FundingRank \in [Orders -> Nat]
    /\ \A i, j \in Items : DeadlineRank[i] = DeadlineRank[j] => i = j
    /\ \A o, p \in Orders : FundingRank[o] = FundingRank[p] => o = p
    /\ Limit \in Nat /\ RBF_MAX_ATTEMPTS \in Nat

VARIABLES
    rowFunded,  \* the orders whose row has global_status FUNDED
    rowShipped, \* the items whose row has status SHIPPED
    deadlines,  \* the items whose group's final_release_after is not NULL
    lost,       \* the items whose row will not be updated again
    paused,     \* the escrow's emergency pause
    pool,       \* broadcast and unmined: [nonce, attempt, call]
    lastSent,   \* RelayerTxSender._last_sent_nonce
    lock,       \* RelayerTxSender._lock
    keeper,     \* per keeper: where it is in its scan
    faultKinds  \* the kinds of faults so far

mirrorVars == <<rowFunded, rowShipped, deadlines, lost>>
senderVars == <<pool, lastSent, lock>>
keepersVars == <<lifecycleVars, mirrorVars, paused, senderVars, keeper, faultKinds>>

Names == {"release", "refund"}
None == -2          \* _last_sent_nonce before the first send
Unlocked == "none"

Call(k, t) == [keeper |-> k, target |-> t]

Resting == [pc |-> "idle", queue |-> {}, nonce |-> 0, attempt |-> 0]

\* The keepers take an interest in an order once it is funded: the behaviours start
\* with funded orders that nobody has touched and the mirror has recorded.
KeepersInit ==
    /\ orderStatus = [o \in Orders |-> "Funded"]
    /\ itemStatus = [i \in Items |-> "Pending"]
    /\ releaseTimer = [i \in Items |-> "none"]
    /\ refundTimer = [o \in Orders |-> "running"]
    /\ rowFunded = Orders /\ rowShipped = {}
    /\ deadlines = {} /\ lost = {} /\ paused = FALSE
    /\ pool = {} /\ lastSent = None /\ lock = Unlocked
    /\ keeper = [k \in Names |-> Resting]
    /\ faultKinds = {}

\* Every kind of fault happens at most once, and MaxFaults kinds in a behaviour.
FaultHappens(kind) ==
    /\ kind \notin faultKinds /\ Cardinality(faultKinds) < MaxFaultKinds
    /\ faultKinds' = faultKinds \cup {kind}
-------------------------------------------------------------------------------
(***************************************************************************)
(* The parties, the clock, the pause and the mirror.                       *)
(***************************************************************************)
\* Bound: a timer stops where no keeper can use it any more.  The items of a group
\* have one deadline.
Deadlines ==
    /\ TimePasses
    /\ \A o \in Orders : orderStatus[o] # "Funded" => UNCHANGED refundTimer[o]
    /\ \A o \in Orders : orderStatus[o] \in Closed =>
          \A i \in ItemsIn(o) : UNCHANGED releaseTimer[i]
    /\ \A i, j \in Items : OrderOf[i] = OrderOf[j] => releaseTimer'[i] = releaseTimer'[j]

\* Bound: an order is shipped in one group, once.
ShipWhole(o) == Ship(o, ItemsIn(o)) /\ orderStatus'[o] = "AllShipped"

Parties ==
    /\ \/ \E o \in Orders : ShipWhole(o) \/ \E S \in SUBSET ItemsIn(o) : Confirm(o, S)
       \/ \E i \in Items : Dispute(i) \/ \E s \in Done : Resolve(i, s)
       \/ Deadlines
    /\ UNCHANGED <<mirrorVars, paused, senderVars, keeper, faultKinds>>

Pause ==
    /\ ~paused /\ FaultHappens("pause") /\ paused' = TRUE
    /\ UNCHANGED <<lifecycleVars, mirrorVars, senderVars, keeper>>

PauseEnds ==
    /\ paused /\ paused' = FALSE
    /\ UNCHANGED <<lifecycleVars, mirrorVars, senderVars, keeper, faultKinds>>

\* The indexer has processed the events of the order; the deadlines of the items it
\* finds shipped are read from the chain.
MirrorFollows(o) ==
    LET fresh   == ItemsIn(o) \ lost
        shipped == {i \in fresh : itemStatus[i] = "Shipped"}
        funded  == {o} \cap {p \in Orders : orderStatus[p] = "Funded"}
    IN  /\ rowFunded \cap {o} # funded \/ rowShipped \cap fresh # shipped
        /\ rowFunded' = (rowFunded \ {o}) \cup funded
        /\ rowShipped' = (rowShipped \ fresh) \cup shipped
        /\ \/ deadlines' = deadlines \cup (shipped \ rowShipped) /\ UNCHANGED faultKinds
           \* The read that follows ShipmentGroupCreated failed and was swallowed.
           \/ shipped \ rowShipped # {} /\ FaultHappens("backfill") /\ UNCHANGED deadlines
    /\ UNCHANGED <<lifecycleVars, lost, paused, senderVars, keeper>>

\* EarlyReleaseRequested carries the deadline of the group.
EarlyReleaseRequested(i) ==
    /\ i \in rowShipped \ (deadlines \cup lost)
    /\ deadlines' = deadlines \cup {i}
    /\ UNCHANGED <<lifecycleVars, rowFunded, rowShipped, lost, paused>>
    /\ UNCHANGED <<senderVars, keeper, faultKinds>>

MirrorLoses(i) ==
    /\ i \notin lost /\ (i \in rowShipped) # (itemStatus[i] = "Shipped") /\ FaultHappens("lost row")
    /\ lost' = lost \cup {i}
    /\ UNCHANGED <<lifecycleVars, rowFunded, rowShipped, deadlines, paused, senderVars, keeper>>
-------------------------------------------------------------------------------
(***************************************************************************)
(* The account of the relayer on the chain.                                *)
(***************************************************************************)
\* Whether the escrow accepts the call, or reverts it.
Accepts(call) ==
    /\ ~paused
    /\ IF call.keeper = "release" THEN ENABLED AutoRelease(call.target)
                                  ELSE ENABLED AutoRefund(call.target)

Execute(call) ==
    IF ~Accepts(call) THEN UNCHANGED lifecycleVars
    ELSE \/ call.keeper = "release" /\ AutoRelease(call.target)
         \/ call.keeper = "refund" /\ AutoRefund(call.target)

Rank(k) == IF k = "release" THEN DeadlineRank ELSE FundingRank

\* The row of its scan that the keeper is at.
Row(k) == CHOOSE t \in keeper[k].queue : \A u \in keeper[k].queue : Rank(k)[t] <= Rank(k)[u]

Transaction(k, attempt) ==
    [nonce |-> keeper[k].nonce, attempt |-> attempt, call |-> Call(k, Row(k))]

\* send() has returned or raised: the keeper goes on with the next row of its scan.
NextRow(k) == [Resting EXCEPT !.queue = keeper[k].queue \ {Row(k)}]

\* The next nonce is mined, and whoever waits for exactly that transaction has its
\* receipt; another transaction with the nonce is dropped.
MineNext ==
    \E tx \in pool :
        /\ tx.nonce = 0
        /\ Execute(tx.call)
        /\ pool' = {[other EXCEPT !.nonce = @ - 1] : other \in {t \in pool : t.nonce > 0}}
        /\ lastSent' = IF lastSent < 0 THEN lastSent ELSE lastSent - 1
        /\ keeper' = [k \in Names |->
               IF keeper[k].pc = "idle" THEN keeper[k]
               ELSE IF keeper[k].pc = "waiting" /\ tx = Transaction(k, keeper[k].attempt)
               THEN NextRow(k)
               ELSE [keeper[k] EXCEPT !.nonce = IF @ < 0 THEN @ ELSE @ - 1]]
        /\ UNCHANGED <<mirrorVars, paused, lock, faultKinds>>

\* The pool drops a transaction.
Evict ==
    /\ FaultHappens("eviction")
    /\ \E tx \in pool : pool' = pool \ {tx}
    /\ UNCHANGED <<lifecycleVars, mirrorVars, paused, lastSent, lock, keeper>>
-------------------------------------------------------------------------------
(***************************************************************************)
(* The sender.                                                             *)
(***************************************************************************)
\* What a node that knows the whole pool answers to get_transaction_count("pending").
PendingCount ==
    CHOOSE n \in 0..Cardinality(pool) :
        /\ \A m \in 0..(n - 1) : \E tx \in pool : tx.nonce = m
        /\ \A tx \in pool : tx.nonce # n

\* Mutant: the node's count is trusted.
NextNonceOfNode(pending) == pending

\* _peek_next_nonce
NextNonce(pending) ==
    IF lastSent # None /\ pending <= lastSent THEN lastSent + 1 ELSE pending

\* Mutant: nobody takes the lock.
LockFreeAlways == TRUE

LockFree == lock = Unlocked

\* The nonce is read under the lock, from a node that may not have seen the pool.
PeekNonce(k) ==
    /\ keeper[k].pc = "idle" /\ keeper[k].queue # {}
    /\ LockFree /\ lock' = k
    /\ \E pending \in 0..PendingCount :
          keeper' = [keeper EXCEPT ![k].pc = "signing", ![k].attempt = 0,
                                   ![k].nonce = NextNonce(pending)]
    /\ UNCHANGED <<lifecycleVars, mirrorVars, paused, pool, lastSent, faultKinds>>

\* Mutant: a skipped transaction keeps its nonce.
KeptIfSkippedCommitted(nonce) == nonce

\* The nonce is committed only once the transaction is broadcast.
KeptIfSkipped(nonce) == lastSent

Broadcast(k) ==
    /\ keeper[k].pc = "signing" /\ Cardinality(pool) < MaxPool
    /\ lock' = Unlocked
    /\ \/ \* accepted by the node
          /\ keeper[k].nonce >= 0
          /\ pool' = pool \cup {Transaction(k, 0)} /\ lastSent' = keeper[k].nonce
          /\ keeper' = [keeper EXCEPT ![k].pc = "waiting"]
          /\ UNCHANGED faultKinds
       \/ \* the build failed, or the node refused: nothing was broadcast
          /\ IF keeper[k].nonce < 0 THEN UNCHANGED faultKinds ELSE FaultHappens("refusal")
          /\ lastSent' = KeptIfSkipped(keeper[k].nonce)
          /\ keeper' = [keeper EXCEPT ![k] = NextRow(k)]
          /\ UNCHANGED <<pool>>
       \/ \* the node accepted but its answer was lost
          /\ keeper[k].nonce >= 0 /\ FaultHappens("answer")
          /\ pool' = pool \cup {Transaction(k, 0)}
          /\ keeper' = [keeper EXCEPT ![k] = NextRow(k)]
          /\ UNCHANGED lastSent
    /\ UNCHANGED <<lifecycleVars, mirrorVars, paused>>

\* No receipt in time: give up after the last replacement, or stop if the nonce has
\* been mined by now, or replace the transaction.
ReceiptTimeout(k) ==
    /\ keeper[k].pc = "waiting"
    /\ IF keeper[k].attempt >= RBF_MAX_ATTEMPTS \/ keeper[k].nonce < 0
       THEN keeper' = [keeper EXCEPT ![k] = NextRow(k)]
       ELSE keeper' = [keeper EXCEPT ![k].pc = "replacing"]
    /\ UNCHANGED <<lifecycleVars, mirrorVars, paused, senderVars, faultKinds>>

\* The replacement has the nonce of the transaction it replaces.
Replacement(k) == Transaction(k, keeper[k].attempt + 1)

\* If the nonce was mined since the check the node refuses it and send() raises.
ReplaceByFee(k) ==
    /\ keeper[k].pc = "replacing" /\ LockFree
    /\ IF keeper[k].nonce < 0
       THEN /\ keeper' = [keeper EXCEPT ![k] = NextRow(k)]
            /\ UNCHANGED pool
       ELSE /\ pool' = pool \cup {Replacement(k)}
            /\ keeper' = [keeper EXCEPT ![k].pc = "waiting", ![k].attempt = @ + 1]
    /\ UNCHANGED <<lifecycleVars, mirrorVars, paused, lastSent, lock, faultKinds>>
-------------------------------------------------------------------------------
(***************************************************************************)
(* The keepers.                                                            *)
(***************************************************************************)
\* Mutant: the order must still be Funded.
ReleaseCandidateOfFunded(i) ==
    i \in rowShipped /\ i \in deadlines /\ releaseTimer[i] = "due" /\ OrderOf[i] \in rowFunded

ReleaseCandidate(i) == i \in rowShipped /\ i \in deadlines /\ releaseTimer[i] = "due"

\* Mutant: an inner join with the shipment groups.
RefundCandidateJoined(o) ==
    o \in rowFunded /\ refundTimer[o] = "due" /\ ItemsIn(o) \cap deadlines # {}

RefundCandidate(o) == o \in rowFunded /\ refundTimer[o] = "due"

Candidates(k) ==
    IF k = "release" THEN {i \in Items : ReleaseCandidate(i)}
                     ELSE {o \in Orders : RefundCandidate(o)}

\* Mutant: the scan has no limit.
FirstOfAll(k, rows) == rows

FirstOf(k, rows) == {t \in rows : Cardinality({u \in rows : Rank(k)[u] < Rank(k)[t]}) < Limit}

\* _scan_and_release and _scan_and_refund, once per interval.
Scan(k) ==
    /\ keeper[k].pc = "idle" /\ keeper[k].queue = {}
    /\ Candidates(k) # {}
    /\ keeper' = [keeper EXCEPT ![k].queue = FirstOf(k, Candidates(k))]
    /\ UNCHANGED <<lifecycleVars, mirrorVars, paused, senderVars, faultKinds>>

\* The process dies and starts again: only the pool remembers its transactions.
RelayerRestarts ==
    /\ FaultHappens("restart")
    /\ lastSent' = None /\ lock' = Unlocked
    /\ keeper' = [k \in Names |-> Resting]
    /\ UNCHANGED <<lifecycleVars, mirrorVars, paused, pool>>

KeeperStep(k) ==
    Scan(k) \/ PeekNonce(k) \/ Broadcast(k) \/ ReplaceByFee(k)

Mirror == \E o \in Orders : MirrorFollows(o)

KeepersNext ==
    \/ Parties \/ Pause \/ PauseEnds
    \/ Mirror \/ \E i \in Items : EarlyReleaseRequested(i) \/ MirrorLoses(i)
    \/ MineNext \/ Evict \/ RelayerRestarts
    \/ \E k \in Names : KeeperStep(k) \/ ReceiptTimeout(k)

\* Both tasks run for ever, the indexer keeps polling (MirrorCatchesUp), blocks are
\* mined and a pause ends by itself.  Nothing is assumed of the parties.
Fairness ==
    /\ \A k \in Names : WF_keepersVars(KeeperStep(k))
    /\ \A k \in Names : WF_keepersVars(ReceiptTimeout(k))
    /\ WF_keepersVars(Mirror) /\ WF_keepersVars(MineNext) /\ WF_keepersVars(PauseEnds)

KeepersSpec == KeepersInit /\ [][KeepersNext]_keepersVars /\ Fairness
-------------------------------------------------------------------------------
(***************************************************************************)
(* Properties.                                                             *)
(***************************************************************************)
KeepersTypeOK ==
    /\ rowFunded \subseteq Orders /\ rowShipped \subseteq Items
    /\ deadlines \subseteq Items /\ lost \subseteq Items
    /\ lock \in Names \cup {Unlocked}
    /\ lastSent \in {None, -1} \cup Nat
    /\ \A tx \in pool : tx.nonce \in Nat /\ tx.attempt \in 0..RBF_MAX_ATTEMPTS
    /\ \A k \in Names :
          /\ keeper[k].pc \in {"idle", "signing", "waiting", "replacing"}
          /\ Cardinality(keeper[k].queue) <= Limit
          /\ keeper[k].pc = "signing" => lock = k

\* The sender still knows every nonce it has broadcast.
Remembers == faultKinds \cap {"restart", "answer"} = {}

\* The two keepers never sign different transactions with one nonce, so none of them
\* evicts the other's; a replacement by fee only competes with what it replaces.
OneCallPerNonce ==
    Remembers => \A t, u \in pool : t.nonce = u.nonce => t.call = u.call

Gap == \E n \in 0..lastSent : \A tx \in pool : tx.nonce # n

\* A skipped, refused or replaced transaction, or a restart, leaves no hole in the
\* nonces, behind which every later transaction of both keepers would wait for ever:
\* only a transaction the pool dropped does.
NoNonceGap == "eviction" \notin faultKinds => ~Gap

\* The nonces of the shared account are in step with the chain, and the variables have
\* their types.
NoncesInStep == KeepersTypeOK /\ OneCallPerNonce /\ NoNonceGap

\* A row that a keeper takes although the escrow will revert it.
Stale(k, t) == ~Accepts(Call(k, t)) /\ ~paused

\* The rows ahead of t fill the whole scan, and none of them can be settled.
Starved(k, t) ==
    Cardinality({u \in Candidates(k) \ {t} : Stale(k, u)}) >= Limit

\* The item can be released, the mirror says so, and yet it is not because of a hole
\* in the nonces or of a scan full of rows that revert.
ReleaseIsDue(i) ==
    /\ releaseTimer[i] = "due" /\ itemStatus[i] = "Shipped"
    /\ i \in deadlines /\ ~Gap /\ ~Starved("release", i)

\* The seller is paid although the buyer stays silent: no item with a mirrored
\* deadline stays releasable for ever, whatever the pauses, late receipts,
\* replacements, refusals and restarts.
SilentBuyerReleases == \A i \in Items : []<>~ReleaseIsDue(i)

RefundIsDue(o) ==
    /\ ENABLED AutoRefund(o) /\ ~Gap /\ ~Starved("refund", o)

\* The buyer is paid back although the seller never ships.
SilentSellerRefunds == \A o \in Orders : []<>~RefundIsDue(o)

\* Silence of either party pays the other one.
SilenceSettles == SilentBuyerReleases /\ SilentSellerRefunds
===============================================================================
