---------------------------- MODULE EtaloReputation ----------------------------
(***************************************************************************)
(* EtaloReputation.sol: the record of each seller, its score, and the Top  *)
(* Seller badge that the escrow reads for its timers and the stake         *)
(* contract for its third tier.                                            *)
(*                                                                         *)
(* The escrow and the dispute contract record and then ask for the badge   *)
(* to be checked, in one transaction.  The escrow records every item it    *)
(* releases as a completed order.  totalVolume, which no contract reads,   *)
(* is left out, and so are the owner's own calls of the record functions.  *)
(***************************************************************************)
EXTENDS EtaloClock, EtaloOrders

CONSTANTS
    TOP_SELLER_MIN_ORDERS,
    TOP_SELLER_MIN_SCORE,
    TOP_SELLER_SANCTION_COOLDOWN,
    MaxRecords                     \* bound on the completions and disputes of a seller

ASSUME ReputationAssumption ==
    {TOP_SELLER_MIN_ORDERS, TOP_SELLER_MIN_SCORE, TOP_SELLER_SANCTION_COOLDOWN, MaxRecords} \subseteq Nat

VARIABLE reputations               \* _reputations

SCORE_BASE == 50
MAX_SCORE == 100

SellerStatus == {"Active", "Suspended", "Banned"}

SellerReputation ==
    [ordersCompleted : Nat, ordersDisputed : Nat, disputesLost : Nat, score : Nat, isTopSeller : BOOLEAN,
     status : SellerStatus, lastSanctionAt : Nat]

ReputationInit ==
    reputations = [s \in Sellers |->
        [ordersCompleted |-> 0, ordersDisputed |-> 0, disputesLost |-> 0, score |-> 0,
         isTopSeller |-> FALSE, status |-> "Active", lastSanctionAt |-> 0]]
-------------------------------------------------------------------------------
AtMost(x, bound) == IF x > bound THEN bound ELSE x

CompletionBonus(rep) == (rep.ordersCompleted * 30) \div (rep.ordersCompleted + rep.ordersDisputed)
VolumeBonus(rep) == (AtMost(rep.ordersCompleted, 100) * 10) \div 100
DisputePenalty(rep) == AtMost(rep.disputesLost * 10, 40)

\* _recalculateScore.
Score(rep) ==
    IF rep.ordersCompleted = 0 THEN SCORE_BASE
    ELSE LET rawScore == SCORE_BASE + CompletionBonus(rep) + VolumeBonus(rep)
             penalty == DisputePenalty(rep)
         IN  AtMost(IF rawScore > penalty THEN rawScore - penalty ELSE 0, MAX_SCORE)

Rescored(rep) == [rep EXCEPT !.score = Score(rep)]

\* A sanctioned seller completes orders without any of them being counted.
RecordCompletedOrder(rep) ==
    IF rep.status # "Active" THEN rep ELSE Rescored([rep EXCEPT !.ordersCompleted = @ + 1])

RecordDispute(rep, sellerLost) ==
    Rescored([rep EXCEPT !.ordersDisputed = @ + 1, !.disputesLost = IF sellerLost THEN @ + 1 ELSE @])

Qualifies(rep) ==
    /\ rep.status = "Active"
    /\ rep.ordersCompleted >= TOP_SELLER_MIN_ORDERS
    /\ rep.disputesLost = 0
    /\ rep.lastSanctionAt = 0 \/ now >= rep.lastSanctionAt + TOP_SELLER_SANCTION_COOLDOWN
    /\ rep.score >= TOP_SELLER_MIN_SCORE

\* Mutant: the badge is granted but not taken back.
GrantsTopSeller(rep) == [rep EXCEPT !.isTopSeller = @ \/ Qualifies(rep)]

CheckAndUpdateTopSeller(rep) == [rep EXCEPT !.isTopSeller = Qualifies(rep)]
-------------------------------------------------------------------------------
Records(s) == reputations[s].ordersCompleted + reputations[s].ordersDisputed

\* EtaloEscrow._releaseItemFully.
ReleasesItem(s) ==
    /\ Records(s) < MaxRecords
    /\ reputations' = [reputations EXCEPT ![s] = CheckAndUpdateTopSeller(RecordCompletedOrder(@))]
    /\ UNCHANGED now

\* EtaloDispute._applyResolution: the seller has lost if there is any refund.
ResolvesDispute(s, sellerLost) ==
    /\ Records(s) < MaxRecords
    /\ reputations' = [reputations EXCEPT ![s] = CheckAndUpdateTopSeller(RecordDispute(@, sellerLost))]
    /\ UNCHANGED now

\* The owner's sanction, and its end, which leaves the badge for the next record.
ApplySanction(s, newStatus) ==
    /\ reputations' = [reputations EXCEPT ![s] =
           IF newStatus = "Active" THEN [@ EXCEPT !.status = newStatus]
           ELSE [@ EXCEPT !.status = newStatus, !.lastSanctionAt = now, !.isTopSeller = FALSE]]
    /\ UNCHANGED now

ReputationStep(s) ==
    \/ ReleasesItem(s)
    \/ \E sellerLost \in BOOLEAN : ResolvesDispute(s, sellerLost)
    \/ \E newStatus \in SellerStatus : ApplySanction(s, newStatus)

ReputationNext == (\E s \in Sellers : ReputationStep(s)) \/ (Tick /\ UNCHANGED reputations)

ReputationSpec == ClockInit /\ ReputationInit /\ [][ReputationNext]_<<now, reputations>>
-------------------------------------------------------------------------------
\* Whoever has the badge would be given it now: no order of completions, disputes, sanctions,
\* pardons and waits leaves it to a seller who lost a dispute or was sanctioned too recently.
TopSellerEarned == \A s \in Sellers : reputations[s].isTopSeller => Qualifies(reputations[s])

\* The score is the one of the record, and neither end of the scale is ever reached: the clamps
\* of _recalculateScore never bite.
ScoreOfRecord ==
    \A s \in Sellers :
        LET rep == reputations[s]
        IN  Records(s) > 0 => rep.score = Score(rep) /\ rep.score \in 10 .. 90

\* Once an order is completed, another does not lower the score and a dispute does not raise it.
ScoreMovesRight ==
    \A s \in Sellers :
        LET rep == reputations[s]
        IN  rep.ordersCompleted > 0 =>
                /\ RecordCompletedOrder(rep).score >= rep.score
                /\ \A sellerLost \in BOOLEAN : RecordDispute(rep, sellerLost).score <= rep.score

ReputationIsSound == TopSellerEarned /\ ScoreOfRecord /\ ScoreMovesRight
===============================================================================
