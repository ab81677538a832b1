----------------------------- MODULE LedgerProofs -----------------------------
(***************************************************************************)
(* Proofs about the accounts of MCLedger, for every value of the           *)
(* constants: the commission of an order and its split, the record of a    *)
(* seller (EtaloReputation), what the dashboard makes of new orders        *)
(* (SellerAlerts), of the orders and of the products (SellerFigures), and  *)
(* the page of the marketplace (MarketPage).                               *)
(*                                                                         *)
(* Each account has an inductive invariant of its own, that a step of any  *)
(* account preserves; what is true of the state then follows from it.  The *)
(* stake is in EtaloProtocolProofs.  The totals of the dashboard are sums  *)
(* of the same lines in two orders (FiniteSums), and its lists are sorted  *)
(* rows, of which the proofs need that there are such rows and that none   *)
(* is left out (RankingExists, RankingOnto).                               *)
(***************************************************************************)
EXTENDS MCLedger, FiniteSums, SequenceTheorems, TLAPS

ledgerVars == <<account, walkVars, now, stakeVars, book, dashVars, listVars, pageVars, reputations>>

-------------------------------------------------------------------------------
(***************************************************************************)
(* The accounts share the clock and nothing else: a step of the ledger is  *)
(* a step, or none, of each of them.                                       *)
(***************************************************************************)
LEMMA LedgerStep ==
  ASSUME [LedgerNext]_ledgerVars
  PROVE  /\ [WalkNext]_walkVars
         /\ [ReputationNext]_<<now, reputations>>
         /\ [BookNext]_<<now, book>>
         /\ [AlertsNext \/ BellNext \/ (Tick /\ UNCHANGED dashVars)]_<<now, dashVars>>
         /\ [ListNext]_listVars
         /\ [MarketPageNext]_pageVars
<1> DEFINE Goal == /\ [WalkNext]_walkVars
                   /\ [ReputationNext]_<<now, reputations>>
                   /\ [BookNext]_<<now, book>>
                   /\ [AlertsNext \/ BellNext \/ (Tick /\ UNCHANGED dashVars)]_<<now, dashVars>>
                   /\ [ListNext]_listVars
                   /\ [MarketPageNext]_pageVars
<1>1. CASE UNCHANGED ledgerVars
  BY <1>1 DEF ledgerVars
<1>2. ASSUME now' = now \/ Tick,
             UNCHANGED <<walkVars, book, dashVars, listVars, pageVars, reputations>>
      PROVE  Goal
  BY <1>2 DEF ReputationNext, BookNext
<1>3. CASE Walks
  BY <1>3 DEF Walks, WalkOver
<1>4. CASE Stakes
  <2>1. now' = now \/ Tick
    BY <1>4 DEF Stakes, StakeNext
  <2>2. QED
    BY <1>2, <1>4, <2>1 DEF Stakes
<1>5. CASE Figures
  <2>1. BookNext /\ (now' = now \/ Tick)
    BY <1>5 DEF Figures, BookNext, BookMoves, BookCloses
  <2>2. QED
    BY <1>5, <2>1 DEF Figures, ReputationNext
<1>6. CASE HearsOfOrders
  <2>1. /\ AlertsNext \/ BellNext
        /\ UNCHANGED <<walkVars, stakeVars, book, listVars, pageVars, reputations>>
    BY <1>6 DEF HearsOfOrders
  <2>2. now' = now \/ Tick
    BY <2>1 DEF AlertsNext, BellNext
  <2>3. QED
    BY <2>1, <2>2 DEF BookNext, ReputationNext
<1>7. CASE Lists
  BY <1>7 DEF Lists
<1>8. CASE Browses
  BY <1>8 DEF Browses, VisitOver
<1>9. CASE Careers
  <2>1. now' = now \/ Tick
    BY <1>9 DEF Careers, ReputationNext, ReputationStep, ReleasesItem, ResolvesDispute, ApplySanction
  <2>2. QED
    BY <1>9, <2>1 DEF Careers, BookNext
<1>10. QED
  BY <1>1, <1>3, <1>4, <1>5, <1>6, <1>7, <1>8, <1>9 DEF LedgerNext

\* Time does not go back.
LEMMA LedgerTime ==
  ASSUME now \in Nat, [LedgerNext]_ledgerVars
  PROVE  now' \in Nat /\ now' >= now
<1>1. [BookNext]_<<now, book>>
  BY LedgerStep
<1>2. QED
  BY <1>1 DEF BookNext, BookMoves, BookCloses, Tick
-------------------------------------------------------------------------------
(***************************************************************************)
(* The commission: of every order of three items with prices up to any     *)
(* bound, at any rate.                                                     *)
(***************************************************************************)
WalkInv == price \in [OrderItems -> Nat \ {0}] /\ bps \in 0 .. BPS_DENOMINATOR

\* The walk keeps the prices positive and the rate.
LEMMA WalkStep == WalkInv /\ [WalkNext]_walkVars => WalkInv'
<1> SUFFICES ASSUME WalkInv, [WalkNext]_walkVars PROVE WalkInv'
  OBVIOUS
<1>1. CASE UNCHANGED walkVars
  BY <1>1 DEF walkVars, WalkInv
<1>2. CASE WalkNext
  <2>1. PICK i \in OrderItems : price' = [price EXCEPT ![i] = @ + 1]
    BY <1>2 DEF WalkNext
  <2>2. price' \in [OrderItems -> Nat \ {0}]
    BY <2>1 DEF WalkInv
  <2>3. QED
    BY <1>2, <2>2 DEF WalkNext, WalkInv
<1>3. QED
  BY <1>1, <1>2

\* Of a positive price for each item and a rate of at most one, the split is sound.
LEMMA WalkSound == WalkInv => SplitIsSound
<1> SUFFICES ASSUME WalkInv PROVE SplitIsSound
  OBVIOUS
<1>1. IsFiniteSet(OrderItems) /\ LastIndex \in OrderItems
  <2>1. \A n \in Int : IsFiniteSet(1 .. n)
    BY FS_Interval
  <2>2. 3 \in Int /\ LastIndex \in OrderItems
    BY DEF OrderItems, LastIndex
  <2>3. QED
    BY <2>1, <2>2, Zenon DEF OrderItems
<1>2. DOMAIN price = OrderItems /\ \A i \in OrderItems : price[i] \in Nat \ {0}
  BY DEF WalkInv
<1>3. Total = SumFunctionOnSet(price, OrderItems) /\ Total \in Nat
  <2>1. SumFunctionOnSet(price, OrderItems) \in Nat
    BY <1>1, <1>2, SumNat
  <2>2. QED
    BY <1>2, <2>1 DEF Total, SumFunction
<1>4. TotalCommission \in 0 .. SumFunctionOnSet(price, OrderItems)
  BY <1>3, CommissionOfOrder DEF TotalCommission, WalkInv
<1>5. QED
  BY <1>1, <1>2, <1>4, CommissionSplitSound DEF SplitIsSound, Split

\* For every price vector and rate, every release and every verdict can pay its item's share,
\* and the shares make up the commission of the order.
THEOREM LedgerSplitIsSound == LedgerSpec => []SplitIsSound
<1>1. LedgerInit => WalkInv
  <2> SUFFICES ASSUME WalkInit PROVE WalkInv
    BY DEF LedgerInit
  <2>1. QED
    BY WalkAssumption DEF WalkInit, WalkInv
<1>2. WalkInv /\ [LedgerNext]_ledgerVars => WalkInv'
  BY LedgerStep, WalkStep
<1>3. QED
  BY <1>1, <1>2, WalkSound, PTL DEF LedgerSpec, ledgerVars
(***************************************************************************)
(* The reputation, for any number of records.                              *)
(***************************************************************************)
\* The inductive invariant.
ReputationInv ==
    /\ now \in Nat
    /\ reputations \in [Sellers -> SellerReputation]
    /\ TopSellerEarned
    /\ ScoreOfRecord

\* A fraction of at most one, of 30, is at most 30.
LEMMA CompletionBonusType ==
  ASSUME NEW c \in Nat, NEW d \in Nat, c > 0
  PROVE  (c * 30) \div (c + d) \in 0 .. 30
<1> DEFINE q == (c * 30) \div (c + d)
<1>1. q \in Nat /\ (c + d) * q <= c * 30
  BY DivBounds
<1>2. ASSUME q > 30 PROVE FALSE
  <2>1. (c + d) * q >= (c + d) * 31
    BY <1>1, <1>2
  <2>2. QED
    BY <1>1, <2>1
<1>3. QED
  BY <1>1, <1>2

\* The score of a record with an order, between both ends of the scale.
LEMMA ScoreType ==
  ASSUME NEW rep \in SellerReputation
  PROVE  Score(rep) \in 10 .. 90
<1>1. CASE rep.ordersCompleted = 0
  BY <1>1 DEF Score, SCORE_BASE
<1>2. CASE rep.ordersCompleted # 0
  <2>1. /\ rep.ordersCompleted \in Nat /\ rep.ordersCompleted > 0 /\ rep.ordersDisputed \in Nat
        /\ rep.disputesLost \in Nat
    BY <1>2 DEF SellerReputation
  <2>2. CompletionBonus(rep) \in 0 .. 30
    BY <2>1, CompletionBonusType DEF CompletionBonus
  <2>3. VolumeBonus(rep) \in 0 .. 10
    BY <2>1 DEF VolumeBonus, AtMost
  <2>4. DisputePenalty(rep) \in 0 .. 40
    BY <2>1 DEF DisputePenalty, AtMost
  <2>5. QED
    BY <1>2, <2>2, <2>3, <2>4 DEF Score, SCORE_BASE, MAX_SCORE, AtMost
<1>3. QED
  BY <1>1, <1>2

\* One completion more does not lower the bonus.
LEMMA CompletionHelps ==
  ASSUME NEW c \in Nat, NEW d \in Nat, c > 0
  PROVE  (c * 30) \div (c + d) <= ((c + 1) * 30) \div (c + 1 + d)
<1> DEFINE q == (c * 30) \div (c + d)
           r == ((c + 1) * 30) \div (c + 1 + d)
<1>1. q \in 0 .. 30 /\ (c + d) * q <= c * 30
  BY DivBounds, CompletionBonusType
<1>2. r \in Nat /\ (c + 1) * 30 < (c + 1 + d) * r + (c + 1 + d)
  BY DivBounds
<1>3. ASSUME r + 1 <= q PROVE FALSE
  <2> HIDE DEF q, r
  <2>1. (c + 1 + d) * r + (c + 1 + d) = (c + d) * (r + 1) + (r + 1)
    BY <1>2
  <2>2. (c + d) * (r + 1) <= (c + d) * q
    BY <1>1, <1>2, <1>3
  <2>3. (c + d) * (r + 1) \in Int /\ (c + d) * q \in Int
    BY <1>1, <1>2
  <2>4. QED
    BY <1>1, <1>2, <1>3, <2>1, <2>2, <2>3
<1>4. QED
  BY <1>1, <1>2, <1>3

\* One dispute more does not raise it.
LEMMA DisputeHurts ==
  ASSUME NEW c \in Nat, NEW d \in Nat, c > 0
  PROVE  (c * 30) \div (c + d + 1) <= (c * 30) \div (c + d)
<1> DEFINE q == (c * 30) \div (c + d + 1)
           r == (c * 30) \div (c + d)
<1>1. q \in Nat /\ (c + d + 1) * q <= c * 30
  BY DivBounds
<1>2. r \in Nat /\ c * 30 < (c + d) * r + (c + d)
  BY DivBounds
<1>3. ASSUME r + 1 <= q PROVE FALSE
  <2> HIDE DEF q, r
  <2>1. (c + d) * r + (c + d) = (c + d) * (r + 1) /\ (c + d + 1) * q = (c + d) * q + q
    BY <1>1, <1>2
  <2>2. (c + d) * (r + 1) <= (c + d) * q
    BY <1>1, <1>2, <1>3
  <2>3. (c + d) * (r + 1) \in Int /\ (c + d) * q \in Int
    BY <1>1, <1>2
  <2>4. QED
    BY <1>1, <1>2, <2>1, <2>2, <2>3
<1>4. QED
  BY <1>1, <1>2, <1>3
-------------------------------------------------------------------------------
\* The counts after a dispute.
LEMMA DisputedType ==
  ASSUME NEW rep \in SellerReputation, NEW sellerLost \in BOOLEAN
  PROVE  LET new == [rep EXCEPT !.ordersDisputed = @ + 1, !.disputesLost = IF sellerLost THEN @ + 1 ELSE @]
         IN  /\ new \in SellerReputation
             /\ new.ordersCompleted = rep.ordersCompleted
             /\ new.ordersDisputed = rep.ordersDisputed + 1
             /\ new.disputesLost \in {rep.disputesLost, rep.disputesLost + 1}
<1> DEFINE lost == IF sellerLost THEN rep.disputesLost + 1 ELSE rep.disputesLost
           new == [rep EXCEPT !.ordersDisputed = @ + 1, !.disputesLost = lost]
<1>1. lost = rep.disputesLost \/ lost = rep.disputesLost + 1
  BY Zenon
<1>2. lost \in Nat
  BY <1>1 DEF SellerReputation
<1> HIDE DEF lost
<1>3. /\ new \in SellerReputation
      /\ new.ordersCompleted = rep.ordersCompleted
      /\ new.ordersDisputed = rep.ordersDisputed + 1
      /\ new.disputesLost = lost
  <2>1. rep.ordersDisputed + 1 \in Nat
    BY DEF SellerReputation
  <2>2. QED
    BY <1>2, <2>1 DEF SellerReputation
<1>4. new = [rep EXCEPT !.ordersDisputed = @ + 1, !.disputesLost = IF sellerLost THEN @ + 1 ELSE @]
  BY Zenon DEF lost
<1> HIDE DEF new
<1>5. QED
  BY <1>1, <1>3, <1>4, Zenon

\* What each of the two records leaves: a typed record with the score of its counts.
LEMMA RecordsType ==
  ASSUME NEW rep \in SellerReputation, NEW sellerLost \in BOOLEAN
  PROVE  /\ RecordCompletedOrder(rep) \in SellerReputation
         /\ RecordDispute(rep, sellerLost) \in SellerReputation
         /\ rep.status = "Active" => RecordCompletedOrder(rep).score = Score(RecordCompletedOrder(rep))
         /\ RecordDispute(rep, sellerLost).score = Score(RecordDispute(rep, sellerLost))
<1>1. ASSUME NEW r \in SellerReputation
      PROVE  Rescored(r) \in SellerReputation /\ Rescored(r).score = Score(Rescored(r))
  <2>1. Rescored(r) = [r EXCEPT !.score = Score(r)]
    BY DEF Rescored
  <2>2. Score(r) \in Nat
    BY ScoreType
  <2>3. Rescored(r) \in SellerReputation /\ Rescored(r).score = Score(r)
    BY <2>1, <2>2 DEF SellerReputation
  <2>4. Score(Rescored(r)) = Score(r)
    BY <2>1 DEF SellerReputation, Score, CompletionBonus, VolumeBonus, DisputePenalty
  <2>5. QED
    BY <2>3, <2>4
<1>2. [rep EXCEPT !.ordersCompleted = @ + 1] \in SellerReputation
  BY DEF SellerReputation
<1>3. [rep EXCEPT !.ordersDisputed = @ + 1, !.disputesLost = IF sellerLost THEN @ + 1 ELSE @] \in SellerReputation
  BY DisputedType
<1>4. QED
  BY <1>1, <1>2, <1>3 DEF RecordCompletedOrder, RecordDispute

\* Checking the badge leaves it with whoever qualifies, and all else alone.
LEMMA CheckType ==
  ASSUME NEW rep \in SellerReputation
  PROVE  LET checked == CheckAndUpdateTopSeller(rep)
         IN  /\ checked \in SellerReputation
             /\ checked.isTopSeller => Qualifies(checked)
             /\ checked.score = rep.score /\ Score(checked) = Score(rep)
             /\ checked.ordersCompleted = rep.ordersCompleted /\ checked.ordersDisputed = rep.ordersDisputed
<1> DEFINE checked == CheckAndUpdateTopSeller(rep)
<1>1. Qualifies(rep) \in BOOLEAN
  BY DEF Qualifies
<1>2. checked = [rep EXCEPT !.isTopSeller = Qualifies(rep)]
  BY DEF CheckAndUpdateTopSeller
<1>3. checked \in SellerReputation
  BY <1>1, <1>2 DEF SellerReputation
<1>4. checked.isTopSeller = Qualifies(rep)
  BY <1>2 DEF SellerReputation
<1>5. Qualifies(checked) = Qualifies(rep)
  BY <1>2 DEF Qualifies, SellerReputation
<1>6. Score(checked) = Score(rep)
  BY <1>2 DEF Score, CompletionBonus, VolumeBonus, DisputePenalty, SellerReputation
<1>7. QED
  BY <1>2, <1>3, <1>4, <1>5, <1>6 DEF SellerReputation
-------------------------------------------------------------------------------
\* Initially nothing is recorded and nobody has the badge.
LEMMA ReputationInitInv == ClockInit /\ ReputationInit => ReputationInv
<1> SUFFICES ASSUME ClockInit, ReputationInit PROVE ReputationInv
  OBVIOUS
<1>1. now \in Nat /\ reputations \in [Sellers -> SellerReputation]
  <2>1. now \in Nat
    BY ClockAssumption DEF ClockInit
  <2>2. [ordersCompleted |-> 0, ordersDisputed |-> 0, disputesLost |-> 0, score |-> 0,
         isTopSeller |-> FALSE, status |-> "Active", lastSanctionAt |-> 0] \in SellerReputation
    BY DEF SellerReputation, SellerStatus
  <2>3. QED
    BY <2>1, <2>2 DEF ReputationInit
<1>2. TopSellerEarned
  BY DEF ReputationInit, TopSellerEarned
<1>3. ScoreOfRecord
  BY DEF ReputationInit, ScoreOfRecord, Records
<1>4. QED
  BY <1>1, <1>2, <1>3 DEF ReputationInv

\* What must hold of the new record of one seller for the invariant to survive.
RecordInv(rep) ==
    /\ rep \in SellerReputation
    /\ rep.isTopSeller => Qualifies(rep)
    /\ rep.ordersCompleted + rep.ordersDisputed > 0 => rep.score = Score(rep) /\ rep.score \in 10 .. 90

\* The invariant is the same statement of every seller's record.
LEMMA InvByRecord ==
  ReputationInv <=> /\ now \in Nat
                    /\ reputations = [s \in Sellers |-> reputations[s]]
                    /\ \A s \in Sellers : RecordInv(reputations[s])
BY DEF ReputationInv, RecordInv, TopSellerEarned, ScoreOfRecord, Records

\* A step that rewrites one record with a sound one preserves the invariant.
LEMMA OneRecord ==
  ASSUME ReputationInv, UNCHANGED now, NEW s \in Sellers, NEW rep,
         reputations' = [reputations EXCEPT ![s] = rep], RecordInv(rep)
  PROVE  ReputationInv'
<1>1. now \in Nat /\ now' = now /\ reputations \in [Sellers -> SellerReputation]
  BY DEF ReputationInv
<1>2. rep \in SellerReputation
  BY DEF RecordInv
<1>3. reputations' \in [Sellers -> SellerReputation]
  BY <1>1, <1>2
<1>4. ASSUME NEW x \in Sellers PROVE reputations'[x] = IF x = s THEN rep ELSE reputations[x]
  BY <1>1
<1>5. ASSUME NEW x \in Sellers PROVE RecordInv(reputations'[x])
  <2>1. RecordInv(reputations[x])
    BY InvByRecord
  <2>2. QED
    BY <1>4, <2>1
<1>6. TopSellerEarned'
  BY <1>1, <1>5 DEF TopSellerEarned, RecordInv, Qualifies
<1>7. ScoreOfRecord'
  BY <1>5 DEF ScoreOfRecord, RecordInv, Records
<1>8. QED
  BY <1>1, <1>3, <1>6, <1>7 DEF ReputationInv

\* A checked record that is scored, or has no order, is sound.
LEMMA CheckedIsSound ==
  ASSUME NEW rep \in SellerReputation,
         rep.ordersCompleted + rep.ordersDisputed > 0 => rep.score = Score(rep)
  PROVE  RecordInv(CheckAndUpdateTopSeller(rep))
<1> DEFINE checked == CheckAndUpdateTopSeller(rep)
<1>1. /\ checked \in SellerReputation
      /\ checked.isTopSeller => Qualifies(checked)
      /\ checked.score = rep.score /\ Score(checked) = Score(rep)
      /\ checked.ordersCompleted = rep.ordersCompleted /\ checked.ordersDisputed = rep.ordersDisputed
  BY CheckType
<1>2. Score(rep) \in 10 .. 90
  BY ScoreType
<1> HIDE DEF checked
<1>3. RecordInv(checked)
  BY <1>1, <1>2 DEF RecordInv
<1>4. QED
  BY <1>3 DEF checked

\* A sanction takes the badge, and its end gives nothing.
LEMMA SanctionIsSound ==
  ASSUME NEW rep, RecordInv(rep), now \in Nat, NEW newStatus \in SellerStatus
  PROVE  RecordInv(IF newStatus = "Active" THEN [rep EXCEPT !.status = newStatus]
                   ELSE [rep EXCEPT !.status = newStatus, !.lastSanctionAt = now, !.isTopSeller = FALSE])
<1>1. rep \in SellerReputation
  BY DEF RecordInv
<1>2. CASE newStatus = "Active"
  <2> DEFINE new == [rep EXCEPT !.status = newStatus]
  <2>1. new \in SellerReputation
    BY <1>1 DEF SellerReputation
  <2>2. Score(new) = Score(rep)
    BY <1>1 DEF SellerReputation, Score, CompletionBonus, VolumeBonus, DisputePenalty
  <2>3. rep.isTopSeller => Qualifies(new)
    BY <1>1, <1>2 DEF RecordInv, Qualifies, SellerReputation
  <2>4. QED
    BY <1>1, <1>2, <2>1, <2>2, <2>3 DEF RecordInv, SellerReputation
<1>3. CASE newStatus # "Active"
  <2> DEFINE new == [rep EXCEPT !.status = newStatus, !.lastSanctionAt = now, !.isTopSeller = FALSE]
  <2>1. new \in SellerReputation
    BY <1>1 DEF SellerReputation
  <2>2. Score(new) = Score(rep)
    BY <1>1 DEF SellerReputation, Score, CompletionBonus, VolumeBonus, DisputePenalty
  <2>3. QED
    BY <1>1, <1>3, <2>1, <2>2 DEF RecordInv, SellerReputation
<1>4. QED
  BY <1>2, <1>3

\* Every step preserves the invariant.
LEMMA ReputationStepInv == ReputationInv /\ [ReputationNext]_<<now, reputations>> => ReputationInv'
<1> SUFFICES ASSUME ReputationInv, [ReputationNext]_<<now, reputations>> PROVE ReputationInv'
  OBVIOUS
<1>0. now \in Nat /\ reputations \in [Sellers -> SellerReputation] /\ \A s \in Sellers : RecordInv(reputations[s])
  BY InvByRecord DEF ReputationInv
<1>1. ASSUME NEW s \in Sellers, ReleasesItem(s) PROVE ReputationInv'
  <2> DEFINE rep == reputations[s]
             recorded == RecordCompletedOrder(rep)
  <2>1. rep \in SellerReputation /\ RecordInv(rep)
    BY <1>0
  <2>2. recorded \in SellerReputation
    BY <2>1, RecordsType
  <2>3. recorded.ordersCompleted + recorded.ordersDisputed > 0 => recorded.score = Score(recorded)
    <3>1. CASE rep.status = "Active"
      BY <2>1, <3>1, RecordsType
    <3>2. CASE rep.status # "Active"
      BY <2>1, <3>2 DEF RecordCompletedOrder, RecordInv
    <3>3. QED
      BY <3>1, <3>2
  <2>4. RecordInv(CheckAndUpdateTopSeller(recorded))
    BY <2>2, <2>3, CheckedIsSound
  <2>5. reputations' = [reputations EXCEPT ![s] = CheckAndUpdateTopSeller(recorded)] /\ UNCHANGED now
    BY <1>1 DEF ReleasesItem
  <2>6. QED
    BY <2>4, <2>5, OneRecord
<1>2. ASSUME NEW s \in Sellers, NEW sellerLost \in BOOLEAN, ResolvesDispute(s, sellerLost) PROVE ReputationInv'
  <2> DEFINE recorded == RecordDispute(reputations[s], sellerLost)
  <2>1. recorded \in SellerReputation /\ recorded.score = Score(recorded)
    BY <1>0, RecordsType
  <2>2. RecordInv(CheckAndUpdateTopSeller(recorded))
    BY <2>1, CheckedIsSound
  <2>3. reputations' = [reputations EXCEPT ![s] = CheckAndUpdateTopSeller(recorded)] /\ UNCHANGED now
    BY <1>2 DEF ResolvesDispute
  <2>4. QED
    BY <2>2, <2>3, OneRecord
<1>3. ASSUME NEW s \in Sellers, NEW newStatus \in SellerStatus, ApplySanction(s, newStatus) PROVE ReputationInv'
  <2> DEFINE new == IF newStatus = "Active" THEN [reputations[s] EXCEPT !.status = newStatus]
                    ELSE [reputations[s] EXCEPT !.status = newStatus, !.lastSanctionAt = now, !.isTopSeller = FALSE]
  <2>1. RecordInv(new)
    BY <1>0, SanctionIsSound
  <2>2. reputations' = [reputations EXCEPT ![s] = new] /\ UNCHANGED now
    BY <1>3 DEF ApplySanction
  <2>3. QED
    BY <2>1, <2>2, OneRecord
<1>4. ASSUME Tick, UNCHANGED reputations PROVE ReputationInv'
  <2>1. now' \in Nat /\ now' >= now
    BY <1>0, <1>4 DEF Tick
  <2>2. TopSellerEarned'
    <3> SUFFICES ASSUME NEW s \in Sellers, reputations[s].isTopSeller PROVE Qualifies(reputations[s])'
      BY <1>4 DEF TopSellerEarned
    <3>1. reputations[s].lastSanctionAt \in Nat /\ Qualifies(reputations[s])
      BY <1>0 DEF RecordInv, SellerReputation
    <3>2. QED
      BY <1>0, <1>4, <2>1, <3>1, ReputationAssumption DEF Qualifies
  <2>3. ScoreOfRecord'
    BY <1>4 DEF ReputationInv, ScoreOfRecord, Records, Score, CompletionBonus, VolumeBonus, DisputePenalty
  <2>4. QED
    BY <1>0, <1>4, <2>1, <2>2, <2>3 DEF ReputationInv
<1>5. CASE UNCHANGED <<now, reputations>>
  BY <1>5 DEF ReputationInv, TopSellerEarned, ScoreOfRecord, Records, Qualifies, Score, CompletionBonus,
              VolumeBonus, DisputePenalty
<1>6. QED
  BY <1>1, <1>2, <1>3, <1>4, <1>5 DEF ReputationNext, ReputationStep

\* The invariant of the record, for every execution.
THEOREM ReputationInvariant == ReputationSpec => []ReputationInv
BY ReputationInitInv, ReputationStepInv, PTL DEF ReputationSpec
-------------------------------------------------------------------------------
\* Nobody keeps the Top Seller badge they would not be given now (checkAndUpdateTopSeller after
\* every record, applySanction, and the passage of time).
THEOREM ReputationTopSellerEarned == ReputationSpec => []TopSellerEarned
<1>1. ReputationInv => TopSellerEarned
  BY DEF ReputationInv
<1>2. QED
  BY <1>1, ReputationInvariant, PTL

\* The score is always the one of the counts and stays within 10 .. 90: the clamps of
\* _recalculateScore never bite.
THEOREM ReputationScoreOfRecord == ReputationSpec => []ScoreOfRecord
<1>1. ReputationInv => ScoreOfRecord
  BY DEF ReputationInv
<1>2. QED
  BY <1>1, ReputationInvariant, PTL

\* A completed order never lowers the score of a seller with a completed order, and a dispute
\* never raises it, whatever the counts.
LEMMA ScoreIsMonotone ==
  ASSUME NEW rep \in SellerReputation, rep.ordersCompleted > 0, rep.score = Score(rep)
  PROVE  /\ RecordCompletedOrder(rep).score >= rep.score
         /\ \A sellerLost \in BOOLEAN : RecordDispute(rep, sellerLost).score <= rep.score
<1> DEFINE c == rep.ordersCompleted
           d == rep.ordersDisputed
           l == rep.disputesLost
           P(x) == AtMost(x * 10, 40)
           V(x) == (AtMost(x, 100) * 10) \div 100
           R(x, y) == (x * 30) \div (x + y)
<1>1. c \in Nat /\ c > 0 /\ d \in Nat /\ l \in Nat
  BY DEF SellerReputation
<1>2. ASSUME NEW r \in SellerReputation, r.ordersCompleted > 0
      PROVE  /\ Score(r) = 50 + R(r.ordersCompleted, r.ordersDisputed) + V(r.ordersCompleted) - P(r.disputesLost)
             /\ R(r.ordersCompleted, r.ordersDisputed) \in 0 .. 30
             /\ V(r.ordersCompleted) \in 0 .. 10
             /\ P(r.disputesLost) \in 0 .. 40
  <2>1. r.ordersCompleted \in Nat /\ r.ordersDisputed \in Nat /\ r.disputesLost \in Nat
    BY DEF SellerReputation
  <2>2. R(r.ordersCompleted, r.ordersDisputed) \in 0 .. 30
    BY <1>2, <2>1, CompletionBonusType
  <2>3. V(r.ordersCompleted) \in 0 .. 10 /\ P(r.disputesLost) \in 0 .. 40
    BY <2>1 DEF AtMost
  <2>4. CompletionBonus(r) = R(r.ordersCompleted, r.ordersDisputed) /\ VolumeBonus(r) = V(r.ordersCompleted)
        /\ DisputePenalty(r) = P(r.disputesLost)
    BY DEF CompletionBonus, VolumeBonus, DisputePenalty
  <2> HIDE DEF R, V, P
  <2>5. QED
    BY <1>2, <2>1, <2>2, <2>3, <2>4 DEF Score, SCORE_BASE, MAX_SCORE, AtMost
<1>3. RecordCompletedOrder(rep).score >= rep.score
  <2>1. CASE rep.status # "Active"
    BY <2>1 DEF RecordCompletedOrder, SellerReputation
  <2>2. CASE rep.status = "Active"
    <3> DEFINE new == [rep EXCEPT !.ordersCompleted = @ + 1]
    <3>1. new \in SellerReputation /\ new.ordersCompleted = c + 1 /\ new.ordersDisputed = d /\ new.disputesLost = l
      BY <1>1 DEF SellerReputation
    <3>2. RecordCompletedOrder(rep).score = Score(new)
      BY <2>2, <3>1 DEF RecordCompletedOrder, Rescored, SellerReputation
    <3> DEFINE r0 == R(c, d)
               r1 == R(c + 1, d)
               v0 == V(c)
               v1 == V(c + 1)
               p == P(l)
    <3>3. r0 <= r1
      BY <1>1, CompletionHelps
    <3>4. v0 <= v1
      BY <1>1 DEF AtMost
    <3>5. Score(rep) = 50 + r0 + v0 - p /\ r0 \in 0 .. 30 /\ v0 \in 0 .. 10 /\ p \in 0 .. 40
      BY <1>1, <1>2
    <3>6. Score(new) = 50 + r1 + v1 - p /\ r1 \in 0 .. 30 /\ v1 \in 0 .. 10
      <4> HIDE DEF R, V, P, new
      <4>1. new.ordersCompleted > 0
        BY <1>1, <3>1
      <4>2. QED
        BY <1>2, <3>1, <4>1
    <3> HIDE DEF r0, r1, v0, v1, p
    <3>7. r0 \in Int /\ v0 \in Int /\ p \in Int /\ r1 \in Int /\ v1 \in Int
      BY <3>5, <3>6
    <3>8. 50 + r0 + v0 - p <= 50 + r1 + v1 - p
      BY <3>3, <3>4, <3>7
    <3>9. QED
      BY <3>2, <3>5, <3>6, <3>8
  <2>3. QED
    BY <2>1, <2>2
<1>4. ASSUME NEW sellerLost \in BOOLEAN PROVE RecordDispute(rep, sellerLost).score <= rep.score
  <2> DEFINE new == [rep EXCEPT !.ordersDisputed = @ + 1, !.disputesLost = IF sellerLost THEN @ + 1 ELSE @]
  <2>1. /\ new \in SellerReputation /\ new.ordersCompleted = c /\ new.ordersDisputed = d + 1
        /\ new.disputesLost \in {l, l + 1}
    BY DisputedType
  <2>2. RecordDispute(rep, sellerLost).score = Score(new)
    <3>1. RecordDispute(rep, sellerLost) = [new EXCEPT !.score = Score(new)]
      BY DEF RecordDispute, Rescored
    <3> HIDE DEF new
    <3>2. QED
      BY <2>1, <3>1 DEF SellerReputation
  <2> DEFINE r0 == R(c, d)
             r1 == R(c, d + 1)
             v == V(c)
             p0 == P(l)
             p1 == P(new.disputesLost)
  <2>3. r1 <= r0
    BY <1>1, DisputeHurts
  <2>4. p0 <= p1
    BY <1>1, <2>1 DEF AtMost
  <2>5. Score(rep) = 50 + r0 + v - p0 /\ r0 \in 0 .. 30 /\ v \in 0 .. 10 /\ p0 \in 0 .. 40
    BY <1>1, <1>2
  <2>6. Score(new) = 50 + r1 + v - p1 /\ r1 \in 0 .. 30 /\ p1 \in 0 .. 40
    <3> HIDE DEF R, V, P, new
    <3>1. QED
      BY <1>1, <1>2, <2>1
  <2> HIDE DEF r0, r1, v, p0, p1
  <2>7. r0 \in Int /\ r1 \in Int /\ v \in Int /\ p0 \in Int /\ p1 \in Int
    BY <2>5, <2>6
  <2>8. 50 + r1 + v - p1 <= 50 + r0 + v - p0
    BY <2>3, <2>4, <2>7
  <2>9. QED
    BY <2>2, <2>5, <2>6, <2>8
<1>5. QED
  BY <1>3, <1>4

LEMMA ScoreMoves == ReputationInv => ScoreMovesRight
<1> SUFFICES ASSUME ReputationInv, NEW s \in Sellers, reputations[s].ordersCompleted > 0
             PROVE  /\ RecordCompletedOrder(reputations[s]).score >= reputations[s].score
                    /\ \A sellerLost \in BOOLEAN :
                          RecordDispute(reputations[s], sellerLost).score <= reputations[s].score
  BY DEF ScoreMovesRight
<1>1. reputations[s] \in SellerReputation /\ RecordInv(reputations[s])
  BY InvByRecord DEF ReputationInv
<1>2. reputations[s].score = Score(reputations[s])
  BY <1>1 DEF RecordInv, SellerReputation
<1>3. QED
  BY <1>1, <1>2, ScoreIsMonotone

\* The record of every seller moves the right way, always.
THEOREM ReputationScoreMovesRight == ReputationSpec => []ScoreMovesRight
BY ScoreMoves, ReputationInvariant, PTL
-------------------------------------------------------------------------------
(***************************************************************************)
(* New orders: the toast and the badge, the dialog, and the bell.          *)
(***************************************************************************)
\* The greater and the lesser of two numbers.
LEMMA MaxOfTwo ==
  ASSUME NEW a \in Int, NEW b \in Int
  PROVE  Max({a, b}) = IF a >= b THEN a ELSE b
BY DEF Max

LEMMA MinOfTwo ==
  ASSUME NEW a \in Int, NEW b \in Int
  PROVE  Min({a, b}) = IF a <= b THEN a ELSE b
BY DEF Min

\* The first page has the latest orders.
LEMMA FirstPageIsLatest ==
  ASSUME NEW n \in Nat
  PROVE  FirstPage(n) = {o \in 1 .. n : o > n - Rows}
<1>1. Rows \in Nat \ {0}
  BY AlertsAssumption
<1>2. Max({1, n - Rows + 1}) = IF 1 >= n - Rows + 1 THEN 1 ELSE n - Rows + 1
  BY <1>1, MaxOfTwo
<1>3. QED
  BY <1>1, <1>2 DEF FirstPage

\* What the page knows of the orders: the orders it has had since the baseline were announced,
\* but for the overtaken ones, and none of them after the last answer; the Orders tab is up to
\* date while it is open.
ToastsInv ==
    /\ arrived \in 0 .. MaxNews /\ toasts \in [News -> Nat] /\ tab \in {"overview", "orders"}
    /\ asOf = Never => /\ base = Never /\ seen = {Never} /\ newCount = 0 /\ overtaken = {}
                       /\ \A o \in News : toasts[o] = 0
    /\ asOf # Never => /\ asOf \in 0 .. arrived /\ base \in 0 .. asOf /\ left \in base .. asOf
                       /\ seen \subseteq 1 .. asOf /\ FirstPage(asOf) \subseteq seen
                       /\ overtaken \subseteq base + 1 .. asOf
                       /\ tab = "orders" => left = asOf
                       /\ \A o \in News : toasts[o] = IF o <= base \/ o \in overtaken \/ o > asOf THEN 0 ELSE 1
    /\ BadgeCountsUnvisited

\* The dialog is up on the Orders tab only, which knows whether its button has been pressed.
DialogInv ==
    /\ celebrating \in BOOLEAN /\ hidden \in BOOLEAN /\ continued \in BOOLEAN
    /\ celebrating => tab = "orders" /\ ~continued
    /\ tab = "orders" /\ continued => hidden

\* Nothing was written in the future, and what was looked at is older than the last look.
BellInv ==
    /\ now \in Nat /\ noted \in [News -> {Never} \cup 0 .. now]
    /\ inbox \subseteq Notes /\ lastSeen \in 0 .. now /\ looked \subseteq Notes
    /\ \A n \in looked : noted[n] <= lastSeen

AlertsInv == ToastsInv /\ DialogInv /\ BellInv

\* What the invariants say is what the properties promise.
LEMMA AlertsHold == AlertsInv => AlertsAreSound
<1> SUFFICES ASSUME AlertsInv PROVE AlertsAreSound
  OBVIOUS
<1> USE DEF AlertsInv
<1>1. AnnouncedOnce
  <2> SUFFICES ASSUME base # Never, NEW o \in 1 .. asOf
               PROVE  toasts[o] = IF o <= base \/ o \in overtaken THEN 0 ELSE 1
    BY DEF AnnouncedOnce
  <2>1. asOf # Never /\ asOf \in 0 .. arrived /\ arrived \in 0 .. MaxNews
    BY DEF ToastsInv
  <2>2. o \in News /\ ~(o > asOf)
    BY <2>1, AlertsAssumption DEF News
  <2>3. QED
    BY <2>1, <2>2 DEF ToastsInv
<1>2. BadgeCountsUnvisited
  BY DEF ToastsInv
<1>3. LookedAtIsRead
  <2> SUFFICES ASSUME NEW n \in inbox, noted[n] > lastSeen, n \in looked PROVE FALSE
    BY DEF LookedAtIsRead, Unread
  <2>1. n \in News /\ noted[n] # Never
    BY DEF BellInv, Notes
  <2>2. noted[n] \in Nat /\ lastSeen \in Nat /\ noted[n] <= lastSeen
    BY <2>1 DEF BellInv
  <2>3. QED
    BY <2>2
<1>4. CelebratedOnce
  BY DEF DialogInv, CelebratedOnce
<1>5. QED
  BY <1>1, <1>2, <1>3, <1>4 DEF AlertsAreSound

LEMMA AlertsStart == AlertsInit /\ now \in Nat => AlertsInv
<1> SUFFICES ASSUME AlertsInit, now \in Nat PROVE AlertsInv
  OBVIOUS
<1>1. ToastsInv
  <2>1. {o \in News : o > left /\ toasts[o] > 0} = {}
    BY DEF AlertsInit
  <2>2. BadgeCountsUnvisited
    BY <2>1, FS_EmptySet DEF AlertsInit, BadgeCountsUnvisited
  <2>3. QED
    BY <2>2, AlertsAssumption DEF AlertsInit, ToastsInv
<1>2. DialogInv
  BY DEF AlertsInit, DialogInv
<1>3. BellInv
  BY DEF AlertsInit, BellInv, Notes
<1>4. QED
  BY <1>1, <1>2, <1>3 DEF AlertsInv

\* An answer of the first page: the orders that are new to it are those that have arrived since
\* the last answer and still fit on it.
LEMMA AnswerKeepsToasts ==
  ASSUME ToastsInv, Alerts(arrived), asOf' = arrived, UNCHANGED <<arrived, tab>>
  PROVE  ToastsInv'
<1> DEFINE n == arrived
           page == FirstPage(n)
           fresh == IF seen = {Never} THEN {} ELSE page \ seen
           unvisited == {o \in News : o > left /\ toasts[o] > 0}
<1>0. Rows \in Nat \ {0} /\ n \in Nat /\ n <= MaxNews /\ MaxNews \in Nat /\ Never = -1
  BY AlertsAssumption DEF ToastsInv, Never
<1>1. page = {o \in 1 .. n : o > n - Rows}
  BY <1>0, FirstPageIsLatest
<1>2. /\ toasts' = [o \in News |-> IF o \in fresh THEN toasts[o] + 1 ELSE toasts[o]]
      /\ seen' = IF tab = "orders" \/ seen = {Never} THEN page ELSE seen \cup fresh
      /\ newCount' = IF tab = "orders" THEN 0 ELSE newCount + Cardinality(fresh)
      /\ base' = IF seen = {Never} THEN n ELSE base
      /\ left' = IF tab = "orders" \/ seen = {Never} THEN n ELSE left
      /\ overtaken' = overtaken \cup IF seen = {Never} THEN {} ELSE asOf + 1 .. n - Rows
  BY DEF Alerts
<1>3. arrived' = n /\ asOf' = n /\ tab' = tab /\ asOf' # Never
  BY <1>0
<1>4. (FirstPage(asOf) \subseteq seen)' <=> page \subseteq seen'
  <2>1. FirstPage(asOf)' = FirstPage(asOf')
    BY DEF FirstPage
  <2>2. QED
    BY <1>3, <2>1
<1>5. CASE asOf = Never
  <2>1. /\ seen = {Never} /\ base = Never /\ newCount = 0 /\ overtaken = {}
        /\ \A o \in News : toasts[o] = 0
    BY <1>5 DEF ToastsInv
  <2>2. fresh = {} /\ Cardinality(fresh) = 0
    BY <2>1, FS_EmptySet
  <2>3. toasts' = [o \in News |-> 0]
    BY <1>2, <2>1, <2>2 DEF ToastsInv
  <2>4. newCount' = 0 /\ base' = n /\ left' = n /\ seen' = page /\ overtaken' = {}
    BY <1>2, <2>1, <2>2
  <2>5. BadgeCountsUnvisited'
    <3>1. {o \in News : o > left' /\ toasts'[o] > 0} = {}
      BY <2>3
    <3>2. QED
      BY <2>4, <3>1, FS_EmptySet DEF BadgeCountsUnvisited
  <2>6. \A o \in News : toasts'[o] = IF o <= base' \/ o \in overtaken' \/ o > asOf' THEN 0 ELSE 1
    BY <1>0, <1>3, <2>3, <2>4 DEF News
  <2> HIDE DEF page, fresh
  <2>7. QED
    BY <1>0, <1>1, <1>3, <1>4, <2>3, <2>4, <2>5, <2>6 DEF ToastsInv, News
<1>6. CASE asOf # Never
  <2>1. /\ asOf \in 0 .. n /\ base \in 0 .. asOf /\ left \in base .. asOf
        /\ seen \subseteq 1 .. asOf /\ FirstPage(asOf) \subseteq seen
        /\ overtaken \subseteq base + 1 .. asOf
        /\ tab = "orders" => left = asOf
        /\ \A o \in News : toasts[o] = IF o <= base \/ o \in overtaken \/ o > asOf THEN 0 ELSE 1
    BY <1>6 DEF ToastsInv
  <2>2. seen # {Never}
    BY <1>0, <2>1
  <2>3. fresh = {o \in 1 .. n : o > asOf /\ o > n - Rows}
    <3>1. FirstPage(asOf) = {o \in 1 .. asOf : o > asOf - Rows}
      BY <2>1, FirstPageIsLatest
    <3> HIDE DEF page
    <3>2. QED
      BY <1>0, <1>1, <2>1, <2>2, <3>1
  <2> HIDE DEF page, fresh
  <2>4. /\ base' = base /\ left' = (IF tab = "orders" THEN n ELSE left)
        /\ overtaken' = overtaken \cup (asOf + 1 .. n - Rows)
        /\ seen' = (IF tab = "orders" THEN page ELSE seen \cup fresh)
    BY <1>2, <2>2
  <2>5. fresh \subseteq News
    BY <1>0, <2>3 DEF News
  <2>6. ASSUME NEW o \in News
        PROVE  toasts'[o] = IF o <= base' \/ o \in overtaken' \/ o > asOf' THEN 0 ELSE 1
    <3>1. o \in Int /\ o >= 1 /\ toasts[o] = (IF o <= base \/ o \in overtaken \/ o > asOf THEN 0 ELSE 1)
      BY <2>1 DEF News
    <3>2. toasts'[o] = IF o \in fresh THEN toasts[o] + 1 ELSE toasts[o]
      BY <1>2
    <3>3. CASE o <= asOf
      <4>1. o \notin fresh /\ (o \in overtaken' <=> o \in overtaken) /\ o <= n
        BY <1>0, <2>1, <2>3, <2>4, <3>1, <3>3
      <4>2. QED
        BY <1>0, <1>3, <2>1, <2>4, <3>1, <3>2, <3>3, <4>1
    <3>4. CASE o > asOf
      <4>1. toasts[o] = 0 /\ ~(o <= base) /\ o \notin overtaken
        BY <2>1, <3>1, <3>4
      <4>2. o \in fresh <=> (o <= n /\ o > n - Rows)
        BY <1>0, <2>3, <3>1, <3>4
      <4>3. o \in overtaken' <=> o <= n - Rows
        BY <1>0, <2>1, <2>4, <3>1, <3>4, <4>1
      <4>4. QED
        BY <1>0, <1>3, <2>4, <3>1, <3>2, <4>1, <4>2, <4>3
    <3>5. QED
      BY <2>1, <3>1, <3>3, <3>4
  <2>7. page \subseteq seen' /\ seen' \subseteq 1 .. n
    <3>1. page \subseteq seen \cup fresh
      BY <1>0, <1>2, <1>1, <2>1, <2>2, <2>3 DEF fresh
    <3>2. page \subseteq 1 .. n /\ fresh \subseteq page /\ seen \subseteq 1 .. n
      BY <1>0, <1>1, <2>1, <2>3
    <3>3. QED
      BY <2>4, <3>1, <3>2
  <2>8. BadgeCountsUnvisited'
    <3>1. CASE tab = "orders"
      BY <1>2, <1>3, <3>1 DEF BadgeCountsUnvisited
    <3>2. CASE tab # "orders"
      <4>1. {o \in News : o > left' /\ toasts'[o] > 0} = unvisited \cup fresh
        <5>1. left' = left
          BY <2>4, <3>2
        <5>2. ASSUME NEW o \in News
              PROVE  (o > left' /\ toasts'[o] > 0) <=> (o > left /\ toasts[o] > 0) \/ o \in fresh
          <6>1. toasts'[o] = (IF o \in fresh THEN toasts[o] + 1 ELSE toasts[o]) /\ toasts[o] \in Nat
            BY <1>2 DEF ToastsInv
          <6>2. o \in fresh => o > left
            BY <2>1, <2>3
          <6>3. QED
            BY <5>1, <6>1, <6>2
        <5>3. QED
          BY <2>5, <5>2
      <4>2. unvisited \cap fresh = {}
        BY <2>1, <2>3 DEF News
      <4>3. IsFiniteSet(unvisited) /\ IsFiniteSet(fresh)
        <5>1. IsFiniteSet(News)
          BY <1>0, FS_Interval DEF News
        <5>2. QED
          BY <2>5, <5>1, FS_Subset
      <4>4. Cardinality(unvisited \cup fresh) = Cardinality(unvisited) + Cardinality(fresh)
        <5>1. Cardinality(unvisited \cap fresh) = 0
          BY <4>2, FS_EmptySet
        <5>2. Cardinality(unvisited) \in Nat /\ Cardinality(fresh) \in Nat
          BY <4>3, FS_CardinalityType
        <5> HIDE DEF unvisited
        <5>3. Cardinality(unvisited \cup fresh)
                = Cardinality(unvisited) + Cardinality(fresh) - Cardinality(unvisited \cap fresh)
          BY <4>3, FS_Union, Zenon
        <5>4. QED
          BY <5>1, <5>2, <5>3
      <4>5. newCount = Cardinality(unvisited)
        BY <3>2 DEF ToastsInv, BadgeCountsUnvisited
      <4> HIDE DEF unvisited
      <4>6. QED
        BY <1>2, <1>3, <3>2, <4>1, <4>4, <4>5 DEF BadgeCountsUnvisited
    <3>3. QED
      BY <3>1, <3>2
  <2>9. toasts' \in [News -> Nat]
    BY <1>2 DEF ToastsInv
  <2>10. QED
    BY <1>0, <1>3, <1>4, <2>1, <2>4, <2>6, <2>7, <2>8, <2>9 DEF ToastsInv
<1>7. QED
  BY <1>5, <1>6

\* The tab that is opened or left.
LEMMA TabKeepsToasts ==
  ASSUME ToastsInv, SetTab
  PROVE  ToastsInv'
<1>0. Rows \in Nat \ {0} /\ arrived \in Nat /\ MaxNews \in Nat /\ Never = -1
  BY AlertsAssumption DEF ToastsInv, Never
<1>1. CASE OpensOrders
  <2>1. /\ tab' = "orders" /\ newCount' = 0 /\ arrived' = arrived
        /\ asOf' = asOf /\ toasts' = toasts /\ base' = base /\ overtaken' = overtaken
        /\ seen' = IF asOf = Never THEN seen ELSE FirstPage(asOf)
        /\ left' = IF asOf = Never THEN left ELSE asOf
    BY <1>1 DEF SetTab, OpensOrders
  <2>2. BadgeCountsUnvisited'
    BY <2>1 DEF BadgeCountsUnvisited
  <2>3. asOf # Never => /\ FirstPage(asOf) \subseteq 1 .. asOf
                        /\ FirstPage(asOf)' = FirstPage(asOf)
    BY <2>1, FirstPageIsLatest DEF ToastsInv, FirstPage
  <2>4. QED
    BY <1>0, <2>1, <2>2, <2>3 DEF ToastsInv
<1>2. CASE ClosesOrders /\ tab # "overview"
  <2>1. /\ tab' = "overview" /\ arrived' = arrived /\ left' = left /\ seen' = seen
        /\ newCount' = newCount /\ asOf' = asOf /\ toasts' = toasts /\ base' = base
        /\ overtaken' = overtaken
    BY <1>2 DEF SetTab, ClosesOrders
  <2>2. newCount = 0 /\ tab = "orders"
    BY <1>2 DEF ToastsInv, BadgeCountsUnvisited
  <2>3. {o \in News : o > left /\ toasts[o] > 0} = {}
    <3>1. ASSUME NEW o \in News, o > left PROVE toasts[o] = 0
      BY <1>0, <2>2, <3>1 DEF ToastsInv, News
    <3>2. QED
      BY <3>1
  <2>4. BadgeCountsUnvisited'
    BY <2>1, <2>2, <2>3, FS_EmptySet DEF BadgeCountsUnvisited
  <2>5. (FirstPage(asOf) \subseteq seen)' <=> FirstPage(asOf) \subseteq seen
    BY <2>1 DEF FirstPage
  <2>6. QED
    BY <1>0, <2>1, <2>4, <2>5 DEF ToastsInv
<1>3. QED
  BY <1>1, <1>2 DEF SetTab

\* The toasts read nothing but these variables.
LEMMA ToastsFrame ==
  ASSUME ToastsInv, UNCHANGED <<arrived, alertVars>>
  PROVE  ToastsInv'
BY DEF ToastsInv, alertVars, BadgeCountsUnvisited, FirstPage

DashNext == AlertsNext \/ BellNext \/ (Tick /\ UNCHANGED dashVars)

LEMMA ToastsStep == ToastsInv /\ [DashNext]_<<now, dashVars>> => ToastsInv'
<1> SUFFICES ASSUME ToastsInv, [DashNext]_<<now, dashVars>> PROVE ToastsInv'
  OBVIOUS
<1>1. CASE Arrives
  <2>1. arrived' = arrived + 1 /\ arrived < MaxNews /\ UNCHANGED alertVars
    BY <1>1 DEF Arrives
  <2>2. arrived' \in 0 .. MaxNews /\ \A n \in 0 .. arrived : n \in 0 .. arrived'
    BY <2>1, AlertsAssumption DEF ToastsInv
  <2>3. UNCHANGED <<tab, asOf, seen, newCount, toasts, base, left, overtaken>>
    BY <2>1 DEF alertVars
  <2>4. BadgeCountsUnvisited' <=> BadgeCountsUnvisited
    BY <2>3 DEF BadgeCountsUnvisited
  <2>5. (FirstPage(asOf) \subseteq seen)' <=> FirstPage(asOf) \subseteq seen
    BY <2>3 DEF FirstPage
  <2>6. QED
    BY <2>2, <2>3, <2>4, <2>5 DEF ToastsInv
<1>2. CASE PollOrders
  BY <1>2, AnswerKeepsToasts DEF PollOrders
<1>3. CASE SetTab
  BY <1>3, TabKeepsToasts
<1>4. CASE Reload
  <2>1. /\ tab' = "overview" /\ asOf' = Never /\ seen' = {Never} /\ newCount' = 0 /\ base' = Never
        /\ overtaken' = {} /\ toasts' = [o \in News |-> 0] /\ arrived' = arrived
    BY <1>4 DEF Reload
  <2>2. {o \in News : o > left' /\ toasts'[o] > 0} = {}
    BY <2>1
  <2>3. BadgeCountsUnvisited'
    BY <2>1, <2>2, FS_EmptySet DEF BadgeCountsUnvisited
  <2>4. QED
    BY <2>1, <2>3 DEF ToastsInv
<1>5. CASE PollStatus
  BY <1>5, ToastsFrame DEF PollStatus
<1>6. ASSUME NEW continue \in BOOLEAN, CloseCelebration(continue) PROVE ToastsInv'
  BY <1>6, ToastsFrame DEF CloseCelebration
<1>7. CASE BellNext
  BY <1>4, <1>7, ToastsFrame DEF BellNext, Notifies, PollInbox, Toggle, CloseBell, dashVars
<1>8. CASE UNCHANGED dashVars
  BY <1>8, ToastsFrame DEF dashVars
<1>9. QED
  BY <1>1, <1>2, <1>3, <1>4, <1>5, <1>6, <1>7, <1>8 DEF DashNext, AlertsNext

LEMMA DialogStep == DialogInv /\ ToastsInv /\ [DashNext]_<<now, dashVars>> => DialogInv'
<1> SUFFICES ASSUME DialogInv, ToastsInv, [DashNext]_<<now, dashVars>> PROVE DialogInv'
  OBVIOUS
<1>1. ASSUME UNCHANGED <<tab, milestoneVars>> PROVE DialogInv'
  BY <1>1 DEF DialogInv, milestoneVars
<1>2. ASSUME NEW n, tab = "orders", Celebrates(n), UNCHANGED tab PROVE DialogInv'
  <2>1. ~hidden => ~continued
    BY <1>2 DEF DialogInv
  <2>2. celebrating' \in BOOLEAN /\ (celebrating' => celebrating \/ ~hidden)
    BY <1>2 DEF Celebrates
  <2>3. hidden' = hidden /\ continued' = continued /\ tab' = "orders"
    BY <1>2 DEF Celebrates
  <2>4. QED
    BY <2>1, <2>2, <2>3 DEF DialogInv
<1>3. CASE PollOrders
  BY <1>1, <1>2, <1>3 DEF PollOrders
<1>4. CASE PollStatus
  BY <1>2, <1>4 DEF PollStatus, alertVars
<1>5. CASE SetTab
  BY <1>5 DEF SetTab, OpensOrders, ClosesOrders, ShownBefore, DialogInv
<1>6. CASE Reload
  BY <1>6 DEF Reload, DialogInv
<1>7. ASSUME NEW continue \in BOOLEAN, CloseCelebration(continue) PROVE DialogInv'
  <2>1. tab = "orders" /\ celebrating' = FALSE /\ tab' = tab
    BY <1>7 DEF CloseCelebration, DialogInv, alertVars
  <2>2. continued' = (continued \/ continue) /\ hidden' = (hidden \/ continue)
    BY <1>7 DEF CloseCelebration
  <2>3. continued' \in BOOLEAN /\ hidden' \in BOOLEAN /\ (continued' => hidden')
    BY <2>1, <2>2 DEF DialogInv
  <2>4. QED
    BY <2>1, <2>3 DEF DialogInv
<1>8. CASE Arrives
  BY <1>1, <1>8 DEF Arrives, alertVars
<1>9. CASE BellNext
  BY <1>1, <1>6, <1>9 DEF BellNext, Notifies, PollInbox, Toggle, CloseBell, dashVars, alertVars
<1>10. CASE UNCHANGED dashVars
  BY <1>1, <1>10 DEF dashVars, alertVars
<1>11. QED
  BY <1>3, <1>4, <1>5, <1>6, <1>7, <1>8, <1>9, <1>10 DEF DashNext, AlertsNext

\* Without a notification and with the same list and looks, the bell is as it was.
LEMMA BellFrame ==
  ASSUME BellInv, now' \in Nat, now' >= now, UNCHANGED <<noted, lastSeen, looked>>,
         inbox' \subseteq inbox
  PROVE  BellInv'
<1>1. 0 .. now \subseteq 0 .. now' /\ Notes' = Notes
  BY DEF BellInv, Notes
<1>2. QED
  BY <1>1 DEF BellInv

LEMMA BellStep == BellInv /\ [DashNext]_<<now, dashVars>> => BellInv'
<1> SUFFICES ASSUME BellInv, [DashNext]_<<now, dashVars>> PROVE BellInv'
  OBVIOUS
<1>0. now \in Nat
  BY DEF BellInv
<1>1. CASE UNCHANGED <<now, dashVars>>
  BY <1>0, <1>1, BellFrame DEF dashVars, bellVars
<1>2. CASE Tick /\ UNCHANGED dashVars
  BY <1>0, <1>2, BellFrame DEF Tick, dashVars, bellVars
<1>3. CASE AlertsNext
  <2>1. UNCHANGED <<now, noted, lastSeen, looked>> /\ inbox' \subseteq inbox
    BY <1>3 DEF AlertsNext, Arrives, PollOrders, PollStatus, SetTab, Reload, CloseCelebration, bellVars
  <2>2. QED
    BY <1>0, <2>1, BellFrame
<1>4. ASSUME NEW n \in News, Notifies(n), UNCHANGED now PROVE BellInv'
  <2>1. noted[n] = Never /\ noted' = [noted EXCEPT ![n] = now] /\ UNCHANGED <<inbox, lastSeen, looked>>
    BY <1>4 DEF Notifies, bellVars
  <2>2. noted' \in [News -> {Never} \cup 0 .. now]
    BY <2>1 DEF BellInv
  <2>3. \A m \in Notes : m # n /\ m \in Notes' /\ noted'[m] = noted[m]
    BY <1>0, <2>1 DEF BellInv, Notes
  <2>4. QED
    BY <1>4, <2>1, <2>2, <2>3 DEF BellInv
<1>5. ASSUME PollInbox, UNCHANGED now PROVE BellInv'
  <2>1. inbox' \subseteq Notes /\ UNCHANGED <<noted, lastSeen, looked>>
    BY <1>5 DEF PollInbox
  <2>2. Notes' = Notes
    BY <2>1 DEF Notes
  <2>3. QED
    BY <1>5, <2>1, <2>2 DEF BellInv
<1>6. ASSUME Toggle, UNCHANGED now PROVE BellInv'
  <2>1. /\ looked' = looked \cup Panel(bell')
        /\ lastSeen' = IF bell' THEN now ELSE lastSeen
        /\ UNCHANGED <<noted, inbox>>
    BY <1>6 DEF Toggle, MarksSeen
  <2>2. Notes' = Notes
    BY <2>1 DEF Notes
  <2>3. \A m \in Notes : noted[m] \in 0 .. now
    BY DEF BellInv, Notes
  <2>4. CASE bell'
    <3>1. looked' = looked \cup inbox /\ lastSeen' = now
      BY <2>1, <2>4 DEF Panel
    <3>2. looked' \subseteq Notes
      BY <3>1 DEF BellInv
    <3>3. \A m \in looked' : noted[m] <= now
      BY <1>0, <2>3, <3>2
    <3>4. QED
      BY <1>0, <1>6, <2>1, <2>2, <3>1, <3>2, <3>3 DEF BellInv
  <2>5. CASE ~bell'
    <3>1. looked' = looked /\ lastSeen' = lastSeen
      BY <2>1, <2>5 DEF Panel
    <3>2. QED
      BY <1>6, <2>1, <2>2, <3>1 DEF BellInv
  <2>6. QED
    BY <2>4, <2>5
<1>7. ASSUME CloseBell \/ Reload, UNCHANGED now PROVE BellInv'
  <2>1. UNCHANGED <<noted, lastSeen, looked>> /\ inbox' \subseteq inbox
    BY <1>7 DEF CloseBell, Reload
  <2>2. QED
    BY <1>0, <1>7, <2>1, BellFrame
<1>8. QED
  BY <1>1, <1>2, <1>3, <1>4, <1>5, <1>6, <1>7 DEF DashNext, BellNext

\* An order is announced once, whatever tabs are visited; the badge counts what was announced
\* since the Orders tab was last open; what was looked at is not unread; and a celebration that
\* was continued does not come again: whatever else the ledger does.
THEOREM LedgerAlertsAreSound == LedgerSpec => []AlertsAreSound
<1>1. LedgerInit => AlertsInv
  BY AlertsStart, ClockAssumption DEF LedgerInit, StandaloneInit, ClockInit
<1>2. AlertsInv /\ [LedgerNext]_ledgerVars => AlertsInv'
  <2>1. [LedgerNext]_ledgerVars => [DashNext]_<<now, dashVars>>
    BY LedgerStep DEF DashNext
  <2>2. QED
    BY <2>1, ToastsStep, DialogStep, BellStep DEF AlertsInv
<1>3. QED
  BY <1>1, <1>2, AlertsHold, PTL DEF LedgerSpec, ledgerVars
-------------------------------------------------------------------------------
(***************************************************************************)
(* The page of the marketplace.                                            *)
(***************************************************************************)
\* What a filter will be when the navigation under way has arrived.
Target(f) == IF heading = Nowhere THEN params[f] ELSE heading[f]

\* Each filter is on its way to what was chosen for it last, or overtaken; for the search, the
\* text may still be in the box, and the box that waits for nothing shows what the URL has, unless
\* another search is on its way.
PageInv ==
    /\ params = [f \in Filters |-> params[f]] /\ wanted = [f \in Filters |-> wanted[f]]
    /\ heading # Nowhere => heading = [f \in Filters |-> heading[f]]
    /\ armed \in BOOLEAN /\ (armed => typed # params.q)
    /\ \A f \in Filters \ {"q"} : f \in outrun \/ Target(f) = wanted[f]
    /\ \/ "q" \in outrun
       \/ Target("q") = wanted.q
       \/ typed = wanted.q /\ (armed \/ typed = params.q)
    /\ \/ "q" \in outrun
       \/ armed
       \/ typed = params.q
       \/ heading # Nowhere /\ heading.q # params.q

\* At rest, the invariant is what the page promises of the choices and of the box.
LEMMA PageHolds == PageInv => ChoicesStand /\ BoxIsTrue
<1> SUFFICES ASSUME PageInv PROVE ChoicesStand /\ BoxIsTrue
  OBVIOUS
<1>1. ASSUME AtRest, NEW f \in Filters \ outrun
      PROVE  /\ params[f] = wanted[f]
             /\ f = "country" /\ wanted[f] # "unset" => CountryFilter = wanted[f]
  <2>1. heading = Nowhere /\ ~armed
    BY <1>1 DEF AtRest
  <2>2. params[f] = wanted[f]
    BY <1>1, <2>1 DEF PageInv, Target
  <2>3. QED
    BY <2>2 DEF CountryFilter
<1>2. BoxIsTrue
  BY DEF BoxIsTrue, AtRest, PageInv
<1>3. QED
  BY <1>1, <1>2 DEF ChoicesStand

\* A card is of a product in the country of the filter: the featured product and the rails too.
LEMMA CardsAreScoped == Cards \subseteq Scoped
<1>1. Found \subseteq Scoped /\ Grid \subseteq Scoped
  BY DEF Found, Grid
<1>2. NewRail \subseteq Scoped
  BY DEF NewRail, First
<1>3. TopRail \subseteq Scoped
  BY DEF TopRail, First
<1>4. QED
  BY <1>1, <1>2, <1>3 DEF Cards, Sections

LEMMA CountryHolds == CountryIsTold
<1> SUFFICES ASSUME NEW w \in Cards PROVE WareCard(w).flag \/ CountryFilter = About[w].country
  BY DEF CountryIsTold
<1>1. CountryFilter \in {"all", About[w].country}
  BY CardsAreScoped DEF Scoped
<1>2. QED
  BY <1>1 DEF WareCard, HidesCountry

LEMMA PageStarts == PageInit => PageInv
<1> SUFFICES ASSUME PageInit PROVE PageInv
  OBVIOUS
<1>1. /\ DOMAIN params = Filters /\ params = [f \in DOMAIN params |-> params[f]]
      /\ heading = Nowhere /\ typed = params.q /\ armed = FALSE /\ wanted = params
  BY DEF PageInit, Filters
<1>2. QED
  BY <1>1 DEF PageInv, Target

\* The box is left alone, or mounted anew.
BoxStep == UNCHANGED <<typed, armed>> \/ (typed' = params.q /\ armed' = FALSE)
Lost == IF typed' # typed THEN {"q"} ELSE {}

LEMMA BoxTyped ==
  ASSUME PageInv, params' = params, BoxStep
  PROVE  armed' \in BOOLEAN /\ (armed' => typed' # params'.q)
<1>1. armed \in BOOLEAN /\ (armed => typed # params.q)
  BY DEF PageInv
<1>2. CASE typed' = typed /\ armed' = armed
  <2>1. armed' \in BOOLEAN
    BY <1>1, <1>2
  <2>2. ASSUME armed' PROVE typed' # params'.q
    BY <1>1, <1>2, <2>2
  <2>3. QED
    BY <2>1, <2>2
<1>3. CASE typed' = params.q /\ armed' = FALSE
  BY <1>3
<1>4. QED
  BY <1>2, <1>3 DEF BoxStep

\* With another screen and the same URL.
LEMMA BoxKeeps ==
  ASSUME PageInv, UNCHANGED <<params, heading, wanted>>, BoxStep, outrun' = outrun \cup Lost
  PROVE  PageInv'
<1>1. \A f \in Filters : Target(f)' = Target(f)
  BY DEF Target, Nowhere
<1>2. armed' \in BOOLEAN /\ (armed' => typed' # params'.q)
  BY BoxTyped
<1>3. "q" \in Filters
  BY DEF Filters
<1>4. ASSUME "q" \notin outrun'
      PROVE  /\ Target("q")' = wanted'.q \/ (typed' = wanted'.q /\ (armed' \/ typed' = params'.q))
             /\ armed' \/ typed' = params'.q \/ (heading' # Nowhere /\ heading'.q # params'.q)
  <2>1. "q" \notin outrun /\ typed' = typed /\ (armed' = armed \/ typed' = params.q)
    BY <1>4 DEF Lost, BoxStep
  <2>2. QED
    BY <1>1, <1>3, <2>1 DEF PageInv
<1>5. QED
  BY <1>1, <1>2, <1>4 DEF PageInv, Nowhere

LEMMA RekeyedBox == ASSUME Rekeyed, UNCHANGED params PROVE BoxStep
BY DEF Rekeyed, BoxStep

\* A choice is a URL.
LEMMA ChoiceIs ==
  ASSUME PageInv, NEW f \in Filters, NEW v
  PROVE  /\ Choice(f, v) = [g \in Filters |-> IF g = f THEN v ELSE params[g]]
         /\ [wanted EXCEPT ![f] = v] = [g \in Filters |-> IF g = f THEN v ELSE wanted[g]]
         /\ Choice(f, v) # Nowhere
<1>1. DOMAIN params = Filters /\ DOMAIN wanted = Filters
  BY DEF PageInv
<1>2. /\ Choice(f, v) = [g \in Filters |-> IF g = f THEN v ELSE params[g]]
      /\ [wanted EXCEPT ![f] = v] = [g \in Filters |-> IF g = f THEN v ELSE wanted[g]]
  BY <1>1 DEF Choice
<1>3. DOMAIN Nowhere # Filters
  BY DEF Nowhere, Filters
<1>4. DOMAIN Choice(f, v) = Filters
  BY <1>1 DEF Choice
<1>5. QED
  BY <1>2, <1>3, <1>4

\* What a choice does to the other filters: whoever was on the way is overtaken.
LEMMA OthersKeep ==
  ASSUME PageInv, NEW f \in Filters, NEW v, params' = params, heading' = Choice(f, v)
  PROVE  /\ heading' # Nowhere
         /\ Target(f)' = v
         /\ \A g \in Filters \ {f} : Target(g)' = params[g] /\ (g \in OnItsWay \/ Target(g) = params[g])
<1>1. /\ Choice(f, v) = [g \in Filters |-> IF g = f THEN v ELSE params[g]]
      /\ Choice(f, v) # Nowhere /\ Nowhere' = Nowhere
  BY ChoiceIs DEF Nowhere
<1>2. \A g \in Filters : Target(g)' = heading'[g]
  BY <1>1 DEF Target
<1>3. QED
  BY <1>1, <1>2 DEF Target, OnItsWay

\* A choice of another filter than the search.
LEMMA FilterKeeps ==
  ASSUME PageInv, NEW f \in Filters \ {"q"}, NEW v, params' = params, BoxStep,
         heading' = Choice(f, v), wanted' = [wanted EXCEPT ![f] = v],
         outrun' = ((outrun \cup OnItsWay) \ {f}) \cup Lost
  PROVE  PageInv'
<1>1. /\ heading' # Nowhere /\ Target(f)' = v
      /\ \A g \in Filters \ {f} : Target(g)' = params[g] /\ (g \in OnItsWay \/ Target(g) = params[g])
  BY OthersKeep
<1>2. /\ wanted' = [g \in Filters |-> IF g = f THEN v ELSE wanted[g]]
      /\ heading' = [g \in Filters |-> IF g = f THEN v ELSE params[g]]
  BY ChoiceIs
<1>3. /\ params = [g \in Filters |-> params[g]] /\ armed \in BOOLEAN /\ (armed => typed # params.q)
  BY DEF PageInv
<1>4. /\ params' = [g \in Filters |-> params'[g]] /\ wanted' = [g \in Filters |-> wanted'[g]]
      /\ heading' = [g \in Filters |-> heading'[g]]
      /\ armed' \in BOOLEAN /\ (armed' => typed' # params'.q)
  <2>1. params' = [g \in Filters |-> params'[g]]
    BY <1>3
  <2>2. wanted' = [g \in Filters |-> wanted'[g]] /\ heading' = [g \in Filters |-> heading'[g]]
    BY <1>2
  <2>3. armed' \in BOOLEAN /\ (armed' => typed' # params'.q)
    BY BoxTyped
  <2>4. QED
    BY <2>1, <2>2, <2>3
<1>5. \A g \in Filters \ {"q"} : g \in outrun' \/ Target(g)' = wanted'[g]
  BY <1>1, <1>2 DEF PageInv
<1>6. "q" \in Filters /\ f # "q"
  BY DEF Filters
<1>7. ASSUME "q" \notin outrun'
      PROVE  /\ Target("q")' = wanted'.q \/ (typed' = wanted'.q /\ (armed' \/ typed' = params'.q))
             /\ armed' \/ typed' = params'.q
  <2>1. "q" \notin outrun /\ "q" \notin OnItsWay /\ typed' = typed
    BY <1>6, <1>7 DEF Lost
  <2>2. Target("q") = params.q /\ Target("q")' = params.q /\ wanted'.q = wanted.q
    BY <1>1, <1>2, <1>6, <2>1
  <2>3. armed \/ typed = params.q
    BY <2>1, <2>2 DEF PageInv, Target
  <2>4. params.q = wanted.q \/ (typed = wanted.q /\ (armed \/ typed = params.q))
    BY <2>1, <2>2 DEF PageInv
  <2>5. armed' = armed \/ typed' = params.q
    BY DEF BoxStep
  <2>6. QED
    BY <2>1, <2>2, <2>3, <2>4, <2>5
<1>8. QED
  BY <1>4, <1>5, <1>7 DEF PageInv

\* A search: it is what the box waited with, or the box waits on, or the text is in neither.
LEMMA SearchKeeps ==
  ASSUME PageInv, NEW v, params' = params, heading' = Choice("q", v), wanted' = [wanted EXCEPT !["q"] = v],
         outrun' = (outrun \cup OnItsWay) \ {"q"},
         armed' \in BOOLEAN, armed' => typed' # params.q,
         armed' \/ typed' = params.q \/ v # params.q
  PROVE  PageInv'
<1>0. "q" \in Filters
  BY DEF Filters
<1>1. /\ heading' # Nowhere /\ Target("q")' = v
      /\ \A g \in Filters \ {"q"} : Target(g)' = params[g] /\ (g \in OnItsWay \/ Target(g) = params[g])
  BY <1>0, OthersKeep
<1>2. /\ wanted' = [g \in Filters |-> IF g = "q" THEN v ELSE wanted[g]]
      /\ heading' = [g \in Filters |-> IF g = "q" THEN v ELSE params[g]]
  BY <1>0, ChoiceIs
<1>3. params = [g \in Filters |-> params[g]]
  BY DEF PageInv
<1>4. /\ params' = [g \in Filters |-> params'[g]] /\ wanted' = [g \in Filters |-> wanted'[g]]
      /\ heading' = [g \in Filters |-> heading'[g]]
  BY <1>2, <1>3
<1>5. \A g \in Filters \ {"q"} : g \in outrun' \/ Target(g)' = wanted'[g]
  BY <1>1, <1>2 DEF PageInv
<1>6. /\ Target("q")' = wanted'.q
      /\ armed' \/ typed' = params'.q \/ heading'.q # params'.q
  BY <1>0, <1>1, <1>2
<1>7. QED
  BY <1>1, <1>4, <1>5, <1>6 DEF PageInv

LEMMA NavigatesKeeps == ASSUME PageInv, Navigates PROVE PageInv'
<1>1. /\ heading # Nowhere /\ params' = heading /\ heading' = Nowhere /\ wanted' = wanted
      /\ outrun' = outrun \cup Lost /\ Nowhere' = Nowhere
  BY DEF Navigates, Loses, Lost, Nowhere
<1>2. PICK kept \in BOOLEAN :
          /\ typed' = IF kept THEN typed ELSE params'.q
          /\ armed' = IF params' = params /\ kept THEN armed ELSE typed' # params'.q
  BY DEF Navigates, Rekeyed
<1>3. \A g \in Filters : Target(g)' = params'[g] /\ Target(g) = params'[g]
  BY <1>1 DEF Target
<1>4. /\ params' = [g \in Filters |-> params'[g]] /\ wanted' = [g \in Filters |-> wanted'[g]]
  BY <1>1 DEF PageInv
<1>5. armed' \in BOOLEAN /\ (armed' => typed' # params'.q)
  BY <1>2 DEF PageInv
<1>6. \A g \in Filters \ {"q"} : g \in outrun' \/ Target(g)' = wanted'[g]
  BY <1>1, <1>3 DEF PageInv
<1>7. "q" \in Filters
  BY DEF Filters
<1>8. ASSUME "q" \notin outrun'
      PROVE  /\ Target("q")' = wanted'.q \/ (typed' = wanted'.q /\ (armed' \/ typed' = params'.q))
             /\ armed' \/ typed' = params'.q
  <2>1. "q" \notin outrun /\ typed' = typed
    BY <1>1, <1>8 DEF Lost
  <2>2. Target("q") = wanted.q \/ (typed = wanted.q /\ (armed \/ typed = params.q))
    BY <2>1 DEF PageInv
  <2>3. armed' \/ typed' = params'.q
    <3>1. CASE params' = params /\ kept
      BY <1>1, <1>2, <2>1, <3>1 DEF PageInv
    <3>2. CASE ~(params' = params /\ kept)
      BY <1>2, <3>2
    <3>3. QED
      BY <3>1, <3>2
  <2>4. QED
    BY <1>1, <1>3, <1>7, <2>1, <2>2, <2>3
<1>9. QED
  BY <1>1, <1>4, <1>5, <1>6, <1>8 DEF PageInv

LEMMA ResetKeeps == ASSUME PageInv, ResetAll PROVE PageInv'
<1>0. {"q", "country", "category", "sort"} = Filters
  BY DEF Filters
<1>1. /\ params' = params /\ heading' = Choice("q", "") /\ typed' = typed /\ armed' = armed
      /\ wanted' = [wanted EXCEPT !.country = "all", !.category = "all", !.q = ""]
      /\ outrun' = ((outrun \cup OnItsWay) \ {"q"}) \cup {"country", "category"} \cup Unsent
  BY DEF ResetAll
<1>2. /\ heading' # Nowhere /\ Target("q")' = ""
      /\ \A g \in Filters \ {"q"} : Target(g)' = params[g] /\ (g \in OnItsWay \/ Target(g) = params[g])
  BY <1>0, <1>1, OthersKeep
<1>3. heading' = [g \in Filters |-> IF g = "q" THEN "" ELSE params[g]]
  <2>1. "q" \in Filters
    BY <1>0
  <2>2. QED
    BY <1>1, <2>1, ChoiceIs
<1>4. wanted' = [g \in Filters |-> IF g = "q" THEN "" ELSE IF g = "sort" THEN wanted[g] ELSE "all"]
  <2>1. DOMAIN wanted = Filters /\ wanted = [g \in DOMAIN wanted |-> wanted[g]]
    BY DEF PageInv
  <2>2. QED
    BY <1>0, <1>1, <2>1
<1>5. /\ params' = [g \in Filters |-> params'[g]] /\ wanted' = [g \in Filters |-> wanted'[g]]
      /\ heading' = [g \in Filters |-> heading'[g]]
      /\ armed' \in BOOLEAN /\ (armed' => typed' # params'.q)
  BY <1>1, <1>3, <1>4 DEF PageInv
<1>6. ASSUME NEW g \in Filters \ {"q"} PROVE g \in outrun' \/ Target(g)' = wanted'[g]
  <2>1. CASE g = "sort"
    <3>1. wanted'[g] = wanted[g] /\ (g \in outrun \/ Target(g) = wanted[g])
      BY <1>0, <1>4, <2>1 DEF PageInv
    <3>2. QED
      BY <1>1, <1>2, <2>1, <3>1
  <2>2. CASE g # "sort"
    BY <1>0, <1>1, <2>2
  <2>3. QED
    BY <2>1, <2>2
<1>7. Target("q")' = wanted'.q
  BY <1>0, <1>2, <1>4
<1>8. "q" \in outrun' \/ typed' = params'.q
  BY <1>1 DEF Unsent
<1>9. QED
  BY <1>2, <1>5, <1>6, <1>7, <1>8 DEF PageInv

LEMMA TypesKeeps == ASSUME PageInv, NEW text, Types(text) PROVE PageInv'
<1>0. "q" \in Filters
  BY DEF Filters
<1>1. /\ UNCHANGED <<params, heading>> /\ typed' = text /\ armed' = (text # params.q)
      /\ wanted' = [wanted EXCEPT !["q"] = text] /\ outrun' = outrun \ {"q"}
  BY DEF Types
<1>2. wanted' = [g \in Filters |-> IF g = "q" THEN text ELSE wanted[g]]
  BY <1>0, <1>1, ChoiceIs
<1>3. \A g \in Filters : Target(g)' = Target(g)
  BY <1>1 DEF Target, Nowhere
<1>4. /\ wanted' = [g \in Filters |-> wanted'[g]] /\ wanted'.q = text
      /\ \A g \in Filters \ {"q"} : wanted'[g] = wanted[g]
  BY <1>0, <1>2
<1>5. armed' \in BOOLEAN /\ (armed' => typed' # params'.q) /\ (armed' \/ typed' = params'.q)
  BY <1>1
<1>6. QED
  BY <1>1, <1>3, <1>4, <1>5 DEF PageInv, Nowhere

LEMMA RemovesKeep ==
  ASSUME PageInv, NEW f \in {"country", "category", "q"}, RemovePill(f)
  PROVE  PageInv'
<1> DEFINE v == IF f = "q" THEN "" ELSE "all"
<1>1. /\ params' = params /\ typed' = typed /\ armed' = armed
      /\ heading' = Choice(f, v) /\ wanted' = [wanted EXCEPT ![f] = v]
      /\ outrun' = (outrun \cup OnItsWay) \ {f}
  BY DEF RemovePill, Replaces
<1>2. CASE f # "q"
  <2>1. f \in Filters \ {"q"} /\ BoxStep /\ outrun' = ((outrun \cup OnItsWay) \ {f}) \cup Lost
    BY <1>1, <1>2 DEF Filters, BoxStep, Lost
  <2> HIDE DEF v
  <2>2. QED
    BY <1>1, <2>1, FilterKeeps
<1>3. CASE f = "q"
  <2>1. params.q # ""
    <3>1. CASE "q" \in Pills
      <4>1. "q" \in DOMAIN params /\ [params EXCEPT !.country = CountryFilter]["q"] = params.q
        BY DEF PageInv, Filters
      <4>2. [params EXCEPT !.country = CountryFilter]["q"] \notin {"all", ""}
        BY <3>1 DEF Pills
      <4>3. QED
        BY <4>1, <4>2
    <3>2. CASE Empty = "clear search"
      BY <3>2 DEF Empty
    <3>3. QED
      BY <1>3, <3>1, <3>2 DEF RemovePill
  <2>2. armed' \in BOOLEAN /\ (armed' => typed' # params.q)
    BY <1>1 DEF PageInv
  <2>3. v = ""
    BY <1>3
  <2> HIDE DEF v
  <2>4. QED
    BY <1>1, <1>3, <2>1, <2>2, <2>3, SearchKeeps
<1>4. QED
  BY <1>2, <1>3

LEMMA SavesKeep == ASSUME PageInv, NEW c, SaveCountry(c) PROVE PageInv'
<1>1. params' = params /\ BoxStep
  BY RekeyedBox DEF SaveCountry
<1>2. CASE params.country # "unset"
  <2>1. UNCHANGED <<heading, wanted>> /\ outrun' = outrun \cup Lost
    BY <1>2 DEF SaveCountry, Lost
  <2>2. QED
    BY <1>1, <2>1, BoxKeeps
<1>3. CASE params.country = "unset"
  <2>1. /\ heading' = Choice("country", c) /\ wanted' = [wanted EXCEPT !["country"] = c]
        /\ outrun' = ((outrun \cup OnItsWay) \ {"country"}) \cup Lost
    BY <1>3 DEF SaveCountry, Lost
  <2>2. "country" \in Filters \ {"q"}
    BY DEF Filters
  <2>3. QED
    BY <1>1, <2>1, <2>2, FilterKeeps
<1>4. QED
  BY <1>2, <1>3

LEMMA PageStep == PageInv /\ [MarketPageNext]_pageVars => PageInv'
<1> SUFFICES ASSUME PageInv, [MarketPageNext]_pageVars PROVE PageInv'
  OBVIOUS
<1>0. "q" \in Filters /\ {"country", "category", "sort"} \subseteq Filters \ {"q"}
  BY DEF Filters
<1>1. ASSUME UNCHANGED <<params, heading, typed, armed, wanted, outrun>> PROVE PageInv'
  BY <1>1 DEF PageInv, Target, Nowhere
<1>2. CASE Flushes
  <2>1. /\ params' = params /\ typed' = typed /\ armed' = FALSE /\ armed
        /\ heading' = Choice("q", typed) /\ wanted' = [wanted EXCEPT !["q"] = typed]
        /\ outrun' = (outrun \cup OnItsWay) \ {"q"}
    BY <1>2 DEF Flushes, Replaces
  <2>2. typed # params.q
    BY <2>1 DEF PageInv
  <2>3. QED
    BY <2>1, <2>2, SearchKeeps
<1>3. CASE ClearBox
  <2>1. /\ params' = params /\ typed' = "" /\ armed' = (params.q # "")
        /\ heading' = Choice("q", "") /\ wanted' = [wanted EXCEPT !["q"] = ""]
        /\ outrun' = (outrun \cup OnItsWay) \ {"q"}
    BY <1>3 DEF ClearBox, Replaces
  <2>2. armed' \in BOOLEAN /\ (armed' => typed' # params.q) /\ (armed' \/ typed' = params.q)
    BY <2>1
  <2>3. QED
    BY <2>1, <2>2, SearchKeeps
<1>4. CASE NotNow
  BY <1>1, <1>4 DEF NotNow
<1>5. ASSUME NEW l, Shows(l) PROVE PageInv'
  <2>1. UNCHANGED <<params, heading, wanted>> /\ outrun' = outrun \cup Lost
    BY <1>5 DEF Shows, Loses, Lost
  <2>2. BoxStep
    BY <1>5 DEF Shows, BoxStep
  <2>3. QED
    BY <2>1, <2>2, BoxKeeps
<1>6. ASSUME NEW f \in {"country", "category", "sort"}, NEW v, PickFilter(f, v) PROVE PageInv'
  <2>1. /\ params' = params /\ BoxStep /\ Lost = {}
        /\ heading' = Choice(f, v) /\ wanted' = [wanted EXCEPT ![f] = v]
        /\ outrun' = (outrun \cup OnItsWay) \ {f}
    BY <1>6 DEF PickFilter, Replaces, BoxStep, Lost
  <2>2. outrun' = ((outrun \cup OnItsWay) \ {f}) \cup Lost
    BY <2>1
  <2>3. QED
    BY <1>0, <2>1, <2>2, FilterKeeps
<1>7. ASSUME NEW c, ProfileArrives(c) PROVE PageInv'
  <2>1. UNCHANGED <<params, heading, wanted>> /\ outrun' = outrun \cup Lost /\ BoxStep
    BY <1>7, RekeyedBox DEF ProfileArrives, Loses, Lost
  <2>2. QED
    BY <2>1, BoxKeeps
<1>8. CASE UNCHANGED pageVars
  BY <1>1, <1>8 DEF pageVars
<1>9. QED
  BY <1>2, <1>3, <1>4, <1>5, <1>6, <1>7, <1>8, NavigatesKeeps, ResetKeeps, TypesKeeps, RemovesKeep,
     SavesKeep
     DEF MarketPageNext, Answers, Retry, Refresh, RefreshEnds

\* Whatever the page goes through, each filter ends as what was chosen for it last unless another
\* choice overtook it, the box shows what the list was searched for, and every card of a list of
\* several countries has its flag.
THEOREM LedgerMarketPageIsSound == LedgerSpec => []MarketPageIsSound
<1>1. LedgerInit => PageInv
  BY PageStarts DEF LedgerInit
<1>2. PageInv /\ [LedgerNext]_ledgerVars => PageInv'
  BY LedgerStep, PageStep
<1>3. PageInv => MarketPageIsSound
  BY PageHolds, CountryHolds DEF MarketPageIsSound
<1>4. QED
  BY <1>1, <1>2, <1>3, PTL DEF LedgerSpec, ledgerVars
-------------------------------------------------------------------------------
(***************************************************************************)
(* The rows of a finite set as a sort leaves them (Ranked): there are such *)
(* rows, whatever strict order is compared by, and every element of the    *)
(* set is one of them.                                                     *)
(***************************************************************************)
\* R compares the elements of S as a sort may do.
IsStrict(R, S) ==
    /\ \A x \in S : <<x, x>> \notin R
    /\ \A x, y, z \in S : <<x, y>> \in R /\ <<y, z>> \in R => <<x, z>> \in R

\* No row the wrong way round.
IsRanking(rows, S, R) ==
    /\ rows \in [1 .. Cardinality(S) -> S]
    /\ \A i, j \in 1 .. Cardinality(S) : i < j => rows[i] # rows[j] /\ <<rows[j], rows[i]>> \notin R

\* One of some elements is below none of the others.
LEMMA LastExists ==
  ASSUME NEW S, IsFiniteSet(S), NEW R, IsStrict(R, S), S # {}
  PROVE  \E m \in S : \A t \in S : <<m, t>> \notin R
<1> DEFINE G == {T \in SUBSET S : T # {} => \E m \in T : \A t \in T : <<m, t>> \notin R}
<1>1. ASSUME NEW T \in SUBSET S, \A U \in SUBSET T : U # T => U \in G
      PROVE  T \in G
  <2> SUFFICES ASSUME T # {} PROVE \E m \in T : \A t \in T : <<m, t>> \notin R
    OBVIOUS
  <2>1. PICK x \in T : TRUE
    OBVIOUS
  <2> DEFINE U == T \ {x}
  <2>2. CASE U = {}
    BY <2>1, <2>2 DEF IsStrict
  <2>3. CASE U # {}
    <3>1. PICK m \in U : \A t \in U : <<m, t>> \notin R
      <4>1. U \in G
        BY <1>1, <2>1
      <4>2. QED
        BY <2>3, <4>1
    <3>2. CASE <<m, x>> \notin R
      BY <3>1, <3>2
    <3>3. CASE <<m, x>> \in R
      BY <2>1, <3>1, <3>3 DEF IsStrict
    <3>4. QED
      BY <3>2, <3>3
  <2>4. QED
    BY <2>2, <2>3
<1> HIDE DEF G
<1>2. S \in G
  BY <1>1, FiniteInduction
<1>3. QED
  BY <1>2 DEF G

\* The elements can be sorted: one that is below no other comes last.
LEMMA RankingExists ==
  ASSUME NEW S, IsFiniteSet(S), NEW R, IsStrict(R, S)
  PROVE  \E rows : IsRanking(rows, S, R)
<1> DEFINE G == {T \in SUBSET S : \E rows : IsRanking(rows, T, R)}
<1>1. ASSUME NEW T \in SUBSET S, \A U \in SUBSET T : U # T => U \in G
      PROVE  T \in G
  <2>1. IsFiniteSet(T) /\ IsStrict(R, T)
    BY FS_Subset DEF IsStrict
  <2>2. CASE T = {}
    <3>1. Cardinality(T) = 0
      BY <2>2, FS_EmptySet
    <3>2. IsRanking([i \in 1 .. 0 |-> i], T, R)
      BY <3>1 DEF IsRanking
    <3>3. QED
      BY <3>2
  <2>3. CASE T # {}
    <3>1. PICK m \in T : \A t \in T : <<m, t>> \notin R
      BY <2>1, <2>3, LastExists
    <3> DEFINE U == T \ {m}
               n == Cardinality(T)
    <3>2. PICK old : IsRanking(old, U, R)
      BY <1>1, <3>1
    <3>3. n \in Nat \ {0} /\ Cardinality(U) = n - 1
      <4>1. n \in Nat /\ n # 0
        BY <2>1, <2>3, FS_CardinalityType, FS_EmptySet
      <4>2. QED
        BY <2>1, <3>1, <4>1, FS_RemoveElement
    <3>4. /\ old \in [1 .. n - 1 -> U]
          /\ \A i, j \in 1 .. n - 1 : i < j => old[i] # old[j] /\ <<old[j], old[i]>> \notin R
      BY <3>2, <3>3 DEF IsRanking
    <3> DEFINE rows == [i \in 1 .. n |-> IF i = n THEN m ELSE old[i]]
    <3> HIDE DEF n
    <3>5. rows \in [1 .. n -> T]
      BY <3>3, <3>4
    <3>6. ASSUME NEW i \in 1 .. n, NEW j \in 1 .. n, i < j
          PROVE  rows[i] # rows[j] /\ <<rows[j], rows[i]>> \notin R
      <4>1. i \in 1 .. n - 1 /\ rows[i] = old[i] /\ old[i] \in U
        BY <3>3, <3>4, <3>6
      <4>2. CASE j = n
        BY <3>1, <4>1, <4>2
      <4>3. CASE j # n
        <5>1. j \in 1 .. n - 1 /\ rows[j] = old[j]
          BY <3>3, <4>3
        <5>2. QED
          BY <3>4, <3>6, <4>1, <5>1
      <4>4. QED
        BY <4>2, <4>3
    <3>7. IsRanking(rows, T, R)
      <4> HIDE DEF rows
      <4>1. QED
        BY <3>5, <3>6 DEF IsRanking, n
    <3>8. QED
      BY <3>7
  <2>4. QED
    BY <2>2, <2>3
<1> HIDE DEF G
<1>2. S \in G
  BY <1>1, FiniteInduction
<1>3. QED
  BY <1>2 DEF G

\* The rows are the elements of the set, each once.
LEMMA RankingOnto ==
  ASSUME NEW S, IsFiniteSet(S), NEW R, NEW rows, IsRanking(rows, S, R)
  PROVE  /\ Cardinality(S) \in Nat
         /\ rows \in [1 .. Cardinality(S) -> S]
         /\ Len(rows) = Cardinality(S) /\ rows \in Seq(S)
         /\ {rows[i] : i \in 1 .. Cardinality(S)} = S
         /\ \A i, j \in 1 .. Cardinality(S) : rows[i] = rows[j] => i = j
<1> DEFINE n == Cardinality(S)
<1>1. n \in Nat
  BY FS_CardinalityType
<1>2. /\ rows \in [1 .. n -> S]
      /\ \A i, j \in 1 .. n : i < j => rows[i] # rows[j]
  BY DEF IsRanking
<1>3. IsFiniteSet(1 .. n) /\ Cardinality(1 .. n) = n
  BY <1>1, FS_Interval
<1> HIDE DEF n
<1>4. \A i, j \in 1 .. n : rows[i] = rows[j] => i = j
  BY <1>1, <1>2
<1>5. rows \in Injection(1 .. n, S)
  BY <1>2, <1>4 DEF Injection, IsInjective
<1>6. rows \in Surjection(1 .. n, S)
  BY <1>3, <1>5, FS_Injection DEF n
<1>7. {rows[i] : i \in 1 .. n} = S
  BY <1>2, <1>6 DEF Surjection
<1>8. Len(rows) = n /\ rows \in Seq(S)
  BY <1>1, <1>2
<1>9. QED
  BY <1>1, <1>2, <1>4, <1>7, <1>8 DEF n
-------------------------------------------------------------------------------
(***************************************************************************)
(* The list of the products: what the filter and the search leave of them, *)
(* sorted, a window of it shown, and what the chips and the tiles count.   *)
(***************************************************************************)
\* The products have a status and a stock.  More than a page is shown only where it was asked for
\* since the controls were last changed.
ListInv ==
    /\ list \in [Goods -> Entries]
    /\ searchRaw \in BOOLEAN /\ searchDebounced \in BOOLEAN /\ turned \in BOOLEAN
    /\ statusFilter \in Statuses \cup {"all"}
    /\ visibleCount \in Nat /\ visibleCount >= PageSize
    /\ visibleCount > PageSize => turned

\* The products the page knows, and their fields.
LEMMA KnownProducts ==
  ASSUME ListInv
  PROVE  /\ IsFiniteSet(Products) /\ Products \subseteq Goods
         /\ \A p \in Goods : list[p].stock \in Nat
         /\ \A p \in Products : list[p].status \in Statuses
         /\ \A filter, search : IsFiniteSet(Matches(filter, search))
<1>1. Products \subseteq Goods /\ \A filter, search : Matches(filter, search) \subseteq Goods
  BY DEF Products, Matches
<1>2. IsFiniteSet(Goods) /\ 0 .. MaxStock \subseteq Nat
  BY ListAssumption
<1>3. IsFiniteSet(Products) /\ \A filter, search : IsFiniteSet(Matches(filter, search))
  <2>1. \A T \in SUBSET Goods : IsFiniteSet(T)
    BY <1>2, FS_Subset
  <2>2. QED
    BY <1>1, <2>1
<1>4. ASSUME NEW p \in Goods PROVE list[p].stock \in Nat
  BY <1>2 DEF ListInv, Entries, Missing
<1>5. ASSUME NEW p \in Products PROVE list[p].status \in Statuses
  BY DEF Products, ListInv, Entries
<1>6. QED
  BY <1>1, <1>3, <1>4, <1>5

\* What the list is sorted by is a number for each product; what it does not tell apart, the
\* number of the product does.
LEMMA BeforeIsStrict ==
  ASSUME ListInv
  PROVE  IsStrict({x \in Goods \X Goods : Before(x[1], x[2])}, Goods)
<1> DEFINE w == [p \in Goods |-> CASE sort = "oldest"     -> p
                                   [] sort = "price_asc"  -> PriceAt[p]
                                   [] sort = "price_desc" -> 0 - PriceAt[p]
                                   [] sort = "stock_asc"  -> list[p].stock
                                   [] OTHER               -> 0 - p]
<1>1. \A p \in Goods : p \in Nat /\ PriceAt[p] \in Nat /\ list[p].stock \in Nat
  BY KnownProducts, ListAssumption
<1>2. \A p \in Goods : w[p] \in Int
  BY <1>1
<1>3. ASSUME NEW p \in Goods, NEW q \in Goods
      PROVE  Before(p, q) <=> (w[p] < w[q] \/ (w[p] = w[q] /\ p > q))
  <2>1. CASE sort = "oldest"
    BY <1>1, <2>1 DEF Before
  <2>2. CASE sort = "price_asc"
    BY <1>1, <2>2 DEF Before
  <2>3. CASE sort = "price_desc"
    BY <1>1, <2>3 DEF Before
  <2>4. CASE sort = "stock_asc"
    BY <1>1, <2>4 DEF Before
  <2>5. CASE sort \notin {"oldest", "price_asc", "price_desc", "stock_asc"}
    BY <1>1, <2>5 DEF Before
  <2>6. QED
    BY <2>1, <2>2, <2>3, <2>4, <2>5
<1> HIDE DEF w
<1> DEFINE R == {x \in Goods \X Goods : Before(x[1], x[2])}
<1>4. \A p, q \in Goods : <<p, q>> \in R <=> (w[p] < w[q] \/ (w[p] = w[q] /\ p > q))
  BY <1>3
<1> HIDE DEF R
<1>5. IsStrict(R, Goods)
  BY <1>1, <1>2, <1>4 DEF IsStrict
<1>6. QED
  BY <1>5 DEF R

\* The list holds what matches, each product once.
LEMMA SortedIsMatches ==
  ASSUME ListInv
  PROVE  /\ FilteredSorted \in Seq(Goods)
         /\ ToSet(FilteredSorted) = Matches(statusFilter, searchDebounced)
<1> DEFINE S == Matches(statusFilter, searchDebounced)
           R == {x \in Goods \X Goods : Before(x[1], x[2])}
<1>1. S \subseteq Goods /\ IsFiniteSet(S)
  BY KnownProducts DEF Matches
<1>2. IsStrict(R, S)
  <2>1. IsStrict(R, Goods)
    BY BeforeIsStrict
  <2> HIDE DEF R, S
  <2>2. QED
    BY <1>1, <2>1 DEF IsStrict
<1>3. \E rows : IsRanking(rows, S, R)
  <2> HIDE DEF R, S
  <2>1. QED
    BY <1>1, <1>2, RankingExists
<1>4. IsRanking(FilteredSorted, S, R)
  <2>1. \A rows \in [1 .. Cardinality(S) -> S] :
           IsRanking(rows, S, R)
             <=> \A i, j \in 1 .. Cardinality(S) :
                    i < j => rows[i] # rows[j] /\ ~Before(rows[j], rows[i])
    BY <1>1 DEF IsRanking
  <2>2. \E rows \in [1 .. Cardinality(S) -> S] :
           \A i, j \in 1 .. Cardinality(S) :
              i < j => rows[i] # rows[j] /\ ~Before(rows[j], rows[i])
    <3>1. PICK rows : IsRanking(rows, S, R)
      BY <1>3
    <3>2. rows \in [1 .. Cardinality(S) -> S]
      BY <3>1 DEF IsRanking
    <3>3. QED
      BY <2>1, <3>1, <3>2
  <2>3. FilteredSorted = CHOOSE rows \in [1 .. Cardinality(S) -> S] :
           \A i, j \in 1 .. Cardinality(S) :
              i < j => rows[i] # rows[j] /\ ~Before(rows[j], rows[i])
    BY DEF FilteredSorted, Ranked
  <2> HIDE DEF R, S
  <2>4. QED
    BY <2>1, <2>2, <2>3
<1> HIDE DEF R, S
<1>5. /\ Cardinality(S) \in Nat /\ FilteredSorted \in [1 .. Cardinality(S) -> S]
      /\ FilteredSorted \in Seq(S)
      /\ {FilteredSorted[i] : i \in 1 .. Cardinality(S)} = S
  BY <1>1, <1>4, RankingOnto
<1>6. FilteredSorted \in Seq(Goods)
  BY <1>1, <1>5
<1>7. ToSet(FilteredSorted) = S
  BY <1>5 DEF ToSet
<1>8. QED
  BY <1>6, <1>7 DEF S

\* Where there is no more to load, all that matches is shown; some of it always is.
LEMMA WindowShows ==
  ASSUME ListInv
  PROVE  /\ FilteredSorted # <<>> => VisibleProducts # <<>>
         /\ ~HasMore => ToSet(VisibleProducts) = Matches(statusFilter, searchDebounced)
<1> DEFINE n == Len(FilteredSorted)
<1>1. FilteredSorted \in Seq(Goods) /\ n \in Nat
  BY SortedIsMatches
<1>2. visibleCount \in Nat \ {0}
  BY ListAssumption DEF ListInv
<1>3. Min({visibleCount, n}) = IF visibleCount <= n THEN visibleCount ELSE n
  BY <1>1, <1>2, MinOfTwo
<1>4. ASSUME FilteredSorted # <<>> PROVE VisibleProducts # <<>>
  <2>1. n \in Nat \ {0}
    BY <1>1, <1>4
  <2>2. Min({visibleCount, n}) \in 1 .. n
    BY <1>2, <1>3, <2>1
  <2>3. \A i \in 1 .. Min({visibleCount, n}) : FilteredSorted[i] \in Goods
    BY <1>1, <2>2
  <2>4. Len(VisibleProducts) = Min({visibleCount, n})
    <3> DEFINE m == Min({visibleCount, n})
    <3>0. m \in Nat \ {0}
      BY <1>1, <1>2, <1>3, <2>1
    <3>1. m \in Nat \ {0} /\ \A i \in 1 .. m : FilteredSorted[i] \in Goods
      BY <2>3, <3>0
    <3>2. VisibleProducts = SubSeq(FilteredSorted, 1, m)
      BY DEF VisibleProducts
    <3> HIDE DEF m
    <3>3. Len(SubSeq(FilteredSorted, 1, m)) = m
      <4>1. Len(SubSeq(FilteredSorted, 1, m)) = IF 1 <= m THEN m - 1 + 1 ELSE 0
        BY <3>1, SubSeqProperties
      <4>2. QED
        BY <3>1, <4>1
    <3>4. QED
      BY <3>2, <3>3 DEF m
  <2>5. QED
    BY <2>2, <2>4
<1>5. ASSUME ~HasMore PROVE ToSet(VisibleProducts) = Matches(statusFilter, searchDebounced)
  <2>1. Min({visibleCount, n}) = n
    BY <1>1, <1>2, <1>3, <1>5 DEF HasMore
  <2>2. VisibleProducts = FilteredSorted
    BY <1>1, <2>1, SubSeqFull DEF VisibleProducts
  <2>3. QED
    BY <2>2, SortedIsMatches
<1>6. QED
  BY <1>4, <1>5

\* The statuses part the products.
LEMMA StatusesPart ==
  ASSUME ListInv
  PROVE  /\ Cardinality(Products) = Cardinality(With("active")) + Cardinality(With("draft"))
                                      + Cardinality(With("paused"))
         /\ \A s : With(s) = Matches(s, FALSE) \/ s = "all"
         /\ Matches("all", FALSE) = Products
<1> DEFINE A == With("active")
           B == With("draft")
           C == With("paused")
<1>1. /\ Products = (A \cup B) \cup C
      /\ A \cap B = {} /\ (A \cup B) \cap C = {}
  BY KnownProducts DEF With, Statuses
<1>2. IsFiniteSet(A) /\ IsFiniteSet(B) /\ IsFiniteSet(C)
  <2>1. A \subseteq Products /\ B \subseteq Products /\ C \subseteq Products
    BY DEF With
  <2>2. \A T \in SUBSET Products : IsFiniteSet(T)
    BY KnownProducts, FS_Subset
  <2> HIDE DEF A, B, C
  <2>3. QED
    BY <2>1, <2>2
<1>3. (\A s : With(s) = Matches(s, FALSE) \/ s = "all") /\ Matches("all", FALSE) = Products
  BY DEF With, Matches
<1> HIDE DEF A, B, C
<1>4. /\ IsFiniteSet(A \cup B) /\ Cardinality({}) = 0
      /\ Cardinality(A \cup B) = Cardinality(A) + Cardinality(B) - Cardinality(A \cap B)
  BY <1>2, FS_Union, FS_EmptySet
<1>5. Cardinality((A \cup B) \cup C)
        = Cardinality(A \cup B) + Cardinality(C) - Cardinality((A \cup B) \cap C)
  BY <1>2, <1>4, FS_Union
<1>6. Cardinality(A) \in Nat /\ Cardinality(B) \in Nat /\ Cardinality(C) \in Nat
  BY <1>2, FS_CardinalityType
<1>7. Cardinality(Products) = Cardinality(A) + Cardinality(B) + Cardinality(C)
  <2>1. Cardinality(A \cup B) = Cardinality(A) + Cardinality(B)
    <3>1. Cardinality(A \cap B) = 0
      BY <1>1, <1>4
    <3>2. QED
      BY <1>4, <1>6, <3>1
  <2>2. Cardinality((A \cup B) \cup C) = Cardinality(A \cup B) + Cardinality(C)
    <3>1. Cardinality((A \cup B) \cap C) = 0
      BY <1>1, <1>4
    <3>2. QED
      BY <1>5, <1>6, <2>1, <3>1
  <2>3. QED
    BY <1>1, <2>1, <2>2
<1>8. QED
  BY <1>3, <1>7 DEF A, B, C

\* A chip counts what it will show, and the tiles what the rows and the cards are marked with.
LEMMA ChipsHold == ListInv => ChipsKeepTheirWord
<1> SUFFICES ASSUME ListInv PROVE ChipsKeepTheirWord
  OBVIOUS
<1>1. Counts.all = Counts.active + Counts.draft + Counts.paused
  BY StatusesPart DEF Counts
<1>2. \A s \in Statuses \cup {"all"} : Chip(s).count = Cardinality(Matches(s, FALSE))
  <2>1. /\ Matches("all", FALSE) = Products /\ Matches("active", FALSE) = With("active")
        /\ Matches("draft", FALSE) = With("draft") /\ Matches("paused", FALSE) = With("paused")
    BY StatusesPart
  <2>2. /\ Chip("all").count = Cardinality(Products)
        /\ Chip("active").count = Cardinality(With("active"))
        /\ Chip("draft").count = Cardinality(With("draft"))
        /\ Chip("paused").count = Cardinality(With("paused"))
    BY DEF Chip, Counts
  <2>3. \A s \in Statuses \cup {"all"} : s = "all" \/ s = "active" \/ s = "draft" \/ s = "paused"
    BY DEF Statuses
  <2>4. QED
    BY <2>1, <2>2, <2>3, Zenon
<1>3. OutOfStock \cap LowOnStock = {} /\ OutOfStock \subseteq Products /\ LowOnStock \subseteq Products
  <2>1. \A p \in Products : list[p].stock \in Nat
    BY KnownProducts
  <2>2. QED
    BY <2>1 DEF OutOfStock, LowOnStock, With
<1>4. /\ \A p : Row(p).mark = "out" <=> p \in OutOfStock
      /\ \A p : Card(p).mark = "low" <=> p \in LowOnStock
  BY <1>3 DEF Row, Card, StockLabel
<1>5. (Tone(Counts.out, "danger") = "danger") = (\E p \in Products : Row(p).mark = "out")
  <2>1. IsFiniteSet(OutOfStock)
    BY <1>3, KnownProducts, FS_Subset
  <2>2. Cardinality(OutOfStock) \in Nat /\ (Cardinality(OutOfStock) = 0 <=> OutOfStock = {})
    BY <2>1, FS_CardinalityType, FS_EmptySet
  <2>3. Counts.out = Cardinality(OutOfStock)
    BY DEF Counts
  <2>4. (\E p \in Products : Row(p).mark = "out") <=> OutOfStock # {}
    BY <1>3, <1>4
  <2>5. CASE OutOfStock = {}
    <3>1. ~(Counts.out > 0)
      BY <2>2, <2>3, <2>5
    <3>2. Tone(Counts.out, "danger") = "neutral"
      BY <3>1 DEF Tone
    <3>3. QED
      BY <2>4, <2>5, <3>2
  <2>6. CASE OutOfStock # {}
    <3>1. Counts.out > 0
      BY <2>2, <2>3, <2>6
    <3>2. Tone(Counts.out, "danger") = "danger"
      BY <3>1 DEF Tone
    <3>3. QED
      BY <2>4, <2>6, <3>2
  <2>7. QED
    BY <2>5, <2>6
<1>6. ASSUME statusFilter \in {"all", "active"}, ~searchDebounced, ~HasMore
      PROVE  /\ Counts.out = Cardinality({p \in ToSet(VisibleProducts) : Row(p).mark = "out"})
             /\ Counts.low = Cardinality({p \in ToSet(VisibleProducts) : Card(p).mark = "low"})
  <2>1. searchDebounced = FALSE
    BY <1>6 DEF ListInv
  <2>2. ToSet(VisibleProducts) = Matches(statusFilter, FALSE)
    BY <1>6, <2>1, WindowShows
  <2>3. OutOfStock \subseteq Matches(statusFilter, FALSE) /\ LowOnStock \subseteq Matches(statusFilter, FALSE)
    BY <1>6 DEF Matches, OutOfStock, LowOnStock, With
  <2>4. /\ {p \in ToSet(VisibleProducts) : Row(p).mark = "out"} = OutOfStock
        /\ {p \in ToSet(VisibleProducts) : Card(p).mark = "low"} = LowOnStock
    BY <1>4, <2>2, <2>3
  <2>5. QED
    BY <2>4 DEF Counts
<1>7. QED
  BY <1>1, <1>2, <1>5, <1>6 DEF ChipsKeepTheirWord

\* The list is sound in every state of the invariant.
LEMMA ListHolds == ListInv => ListIsSound
<1> SUFFICES ASSUME ListInv PROVE ListIsSound
  OBVIOUS
<1>1. EveryMatchInReach
  BY WindowShows DEF EveryMatchInReach, Screen
<1>2. WindowIsForTheseResults
  BY DEF ListInv, WindowIsForTheseResults
<1>3. QED
  BY <1>1, <1>2, ChipsHold DEF ListIsSound

LEMMA ListStarts == ListInit => ListInv
<1> SUFFICES ASSUME ListInit PROVE ListInv
  OBVIOUS
<1>1. list \in [Goods -> Entries]
  BY DEF ListInit, Entries
<1>2. visibleCount \in Nat /\ visibleCount = PageSize
  BY ListAssumption DEF ListInit
<1>3. visibleCount >= PageSize /\ ~(visibleCount > PageSize)
  BY <1>2
<1>4. /\ searchRaw \in BOOLEAN /\ searchDebounced \in BOOLEAN /\ turned \in BOOLEAN
      /\ statusFilter \in Statuses \cup {"all"}
  BY DEF ListInit
<1>5. QED
  BY <1>1, <1>2, <1>3, <1>4 DEF ListInv

\* What the page does keeps its invariant: a change of a control sets the window back.
LEMMA SetsKeeps ==
  ASSUME ListInv, NEW search \in BOOLEAN, NEW filter \in Statuses \cup {"all"}, NEW by,
         Sets(search, filter, by), searchRaw' \in BOOLEAN
  PROVE  ListInv'
<1>1. /\ searchDebounced' = search /\ statusFilter' = filter /\ list' = list
      /\ visibleCount' = IF <<search, filter, by>> # controls THEN PageSize ELSE visibleCount
      /\ turned' = (turned /\ <<search, filter, by>> = controls)
  BY DEF Sets, NewCriteria
<1>2. PageSize \in Nat
  BY ListAssumption
<1>3. CASE <<search, filter, by>> = controls
  <2>1. visibleCount' = visibleCount /\ turned' = turned
    BY <1>1, <1>3 DEF ListInv
  <2>2. QED
    BY <1>1, <2>1 DEF ListInv
<1>4. CASE <<search, filter, by>> # controls
  <2>1. visibleCount' = PageSize /\ turned' = FALSE
    BY <1>1, <1>4
  <2>2. QED
    BY <1>1, <1>2, <2>1 DEF ListInv
<1>5. QED
  BY <1>3, <1>4

LEMMA ListStep == ListInv /\ [ListNext]_listVars => ListInv'
<1> SUFFICES ASSUME ListInv, [ListNext]_listVars PROVE ListInv'
  OBVIOUS
<1>1. searchRaw \in BOOLEAN /\ searchDebounced \in BOOLEAN /\ statusFilter \in Statuses \cup {"all"}
  BY DEF ListInv
<1>2. CASE UNCHANGED listVars
  BY <1>2 DEF listVars, controls, ListInv
<1>3. CASE Fetches
  <2>1. PICK p \in Goods : \E e \in Entries : list' = [list EXCEPT ![p] = e]
    BY <1>3 DEF Fetches
  <2>2. list' \in [Goods -> Entries]
    BY <2>1 DEF ListInv
  <2>3. QED
    BY <1>3, <2>2 DEF Fetches, controls, ListInv
<1>4. CASE FetchFails
  BY <1>4 DEF FetchFails, controls, ListInv
<1>5. CASE Search
  <2>1. searchRaw' \in BOOLEAN
    BY <1>1, <1>5 DEF Search
  <2>2. QED
    BY <1>1, <1>5, <2>1, SetsKeeps DEF Search
<1>6. CASE Debounces
  <2>1. Sets(searchRaw, statusFilter, sort) /\ searchRaw' = searchRaw
    BY <1>6 DEF Debounces
  <2>2. QED
    BY <1>1, <2>1, SetsKeeps
<1>7. CASE SetFilter
  <2>1. PICK s \in Statuses \cup {"all"} : Sets(searchDebounced, s, sort) /\ searchRaw' = searchRaw
    BY <1>7 DEF SetFilter
  <2>2. QED
    BY <1>1, <2>1, SetsKeeps
<1>8. CASE SetSort
  <2>1. PICK by \in Sorts : Sets(searchDebounced, statusFilter, by) /\ searchRaw' = searchRaw
    BY <1>8 DEF SetSort
  <2>2. QED
    BY <1>1, <2>1, SetsKeeps
<1>9. CASE ClearFilters
  <2>1. Sets(searchDebounced, "all", sort) /\ searchRaw' = FALSE
    BY <1>9 DEF ClearFilters
  <2>2. QED
    BY <1>1, <2>1, SetsKeeps
<1>10. CASE LoadMore
  <2>1. /\ visibleCount' = visibleCount + PageSize /\ turned' = TRUE
        /\ list' = list /\ searchRaw' = searchRaw /\ searchDebounced' = searchDebounced
        /\ statusFilter' = statusFilter
    BY <1>10 DEF LoadMore, controls
  <2>2. visibleCount' \in Nat /\ visibleCount' >= PageSize
    BY <2>1, ListAssumption DEF ListInv
  <2>3. QED
    BY <2>1, <2>2 DEF ListInv
<1>11. QED
  BY <1>2, <1>3, <1>4, <1>5, <1>6, <1>7, <1>8, <1>9, <1>10 DEF ListNext

\* The Products tab: its chips and tiles count what the list shows, more than a page is shown only
\* for the results it was asked for, and nothing that matches stays out of reach.
THEOREM LedgerListIsSound == LedgerSpec => []ListIsSound
<1>1. LedgerInit => ListInv
  BY ListStarts DEF LedgerInit
<1>2. ListInv /\ [LedgerNext]_ledgerVars => ListInv'
  BY LedgerStep, ListStep
<1>3. QED
  BY <1>1, <1>2, ListHolds, PTL DEF LedgerSpec, ledgerVars
-------------------------------------------------------------------------------
(***************************************************************************)
(* The orders on the dashboard: the summary of the backend, and what the   *)
(* Orders tab makes of the same orders.                                    *)
(***************************************************************************)
\* No order of the mirror is of the future, and one that is not there has no status.
BookInv ==
    /\ now \in Nat
    /\ book \in [Sales -> [status : {"None", "Created", "Completed", "Refunded"} \cup Escrowed, at : Nat, funded : Nat]]
    /\ \A o \in Sales : book[o].at <= now /\ book[o].funded <= now

LEMMA BookStarts == BookInit /\ ClockInit => BookInv
<1> SUFFICES ASSUME BookInit, ClockInit PROVE BookInv
  OBVIOUS
<1>1. now \in Nat
  BY ClockAssumption DEF ClockInit
<1>2. book = [o \in Sales |-> [status |-> "None", at |-> 0, funded |-> 0]]
  BY DEF BookInit, Absent
<1>3. QED
  BY <1>1, <1>2 DEF BookInv

LEMMA BookStep == BookInv /\ [BookNext]_<<now, book>> => BookInv'
<1> SUFFICES ASSUME BookInv, [BookNext]_<<now, book>> PROVE BookInv'
  OBVIOUS
<1> DEFINE St == {"None", "Created", "Completed", "Refunded"} \cup Escrowed
<1>1. /\ now \in Nat /\ book \in [Sales -> [status : St, at : Nat, funded : Nat]]
      /\ \A o \in Sales : book[o].at <= now /\ book[o].funded <= now
  BY DEF BookInv
<1>2. ASSUME UNCHANGED book, now' \in Nat, now' >= now PROVE BookInv'
  BY <1>1, <1>2 DEF BookInv
<1>3. ASSUME NEW o \in Sales, BookMoves(o) PROVE BookInv'
  <2>1. now' = now
    BY <1>3 DEF BookMoves
  <2>2. \E e \in [status : St, at : Nat, funded : Nat] :
           book' = [book EXCEPT ![o] = e] /\ e.at <= now /\ e.funded <= now
    <3>1. CASE book[o] = Absent /\ book' = [book EXCEPT ![o] = [Absent EXCEPT !.status = "Created", !.at = now]]
      <4> DEFINE e == [status |-> "Created", at |-> now, funded |-> 0]
      <4>1. book' = [book EXCEPT ![o] = e]
        <5> DEFINE x == [Absent EXCEPT !.status = "Created", !.at = now]
        <5>1. x \in [status : {"Created"}, at : {now}, funded : {0}]
          BY DEF Absent
        <5>2. x = e
          <6> HIDE DEF x
          <6>1. QED
            BY <5>1
        <5>3. QED
          BY <3>1, <5>2
      <4>2. e \in [status : St, at : Nat, funded : Nat] /\ e.at <= now /\ e.funded <= now
        BY <1>1
      <4> HIDE DEF e
      <4>3. QED
        BY <4>1, <4>2
    <3>2. ASSUME NEW s \in After(book[o].status),
                 book' = [book EXCEPT ![o].status = s, ![o].funded = IF s = "Funded" THEN now ELSE @]
          PROVE  \E e \in [status : St, at : Nat, funded : Nat] :
                    book' = [book EXCEPT ![o] = e] /\ e.at <= now /\ e.funded <= now
      <4> DEFINE e == [status |-> s, at |-> book[o].at,
                       funded |-> IF s = "Funded" THEN now ELSE book[o].funded]
      <4>1. book[o] \in [status : St, at : Nat, funded : Nat]
        BY <1>1
      <4>2. book'[o] = e
        <5>1. book'[o] = [status |-> book'[o].status, at |-> book'[o].at, funded |-> book'[o].funded]
          BY <1>1, <3>2, <4>1
        <5>2. book'[o].status = s
          BY <1>1, <3>2, <4>1
        <5>3. book'[o].at = book[o].at
          BY <1>1, <3>2, <4>1
        <5>4. book'[o].funded = IF s = "Funded" THEN now ELSE book[o].funded
          BY <1>1, <3>2, <4>1
        <5>5. QED
          BY <5>1, <5>2, <5>3, <5>4
      <4>3. book' = [book EXCEPT ![o] = e]
        <5>1. \A p \in Sales : p # o => book'[p] = book[p]
          BY <1>1, <3>2
        <5>2. book' = [p \in Sales |-> book'[p]]
          BY <1>1, <3>2
        <5> HIDE DEF e
        <5>3. QED
          BY <1>1, <4>2, <5>1, <5>2
      <4>4. s \in St
        BY DEF After, Escrowed
      <4>5. e \in [status : St, at : Nat, funded : Nat] /\ e.at <= now /\ e.funded <= now
        BY <1>1, <4>1, <4>4
      <4> HIDE DEF e
      <4>6. QED
        BY <4>3, <4>5
    <3>3. QED
      BY <1>3, <3>1, <3>2 DEF BookMoves
  <2>3. PICK e \in [status : St, at : Nat, funded : Nat] :
           book' = [book EXCEPT ![o] = e] /\ e.at <= now /\ e.funded <= now
    BY <2>2
  <2> HIDE DEF St
  <2>4. book' \in [Sales -> [status : St, at : Nat, funded : Nat]]
    BY <1>1, <2>3
  <2>5. \A p \in Sales : book'[p].at <= now /\ book'[p].funded <= now
    BY <1>1, <2>3
  <2>6. QED
    BY <1>1, <2>1, <2>4, <2>5 DEF BookInv, St
<1>4. CASE Tick /\ UNCHANGED book
  <2>1. now' \in Nat /\ now' >= now
    BY <1>1, <1>4 DEF Tick
  <2>2. QED
    BY <1>2, <1>4, <2>1
<1>5. CASE UNCHANGED <<now, book>> \/ BookCloses
  BY <1>1, <1>2, <1>5 DEF BookCloses
<1>6. QED
  BY <1>3, <1>4, <1>5 DEF BookNext

\* What a set of orders comes to.
LEMMA MoneyNat ==
  ASSUME NEW S \in SUBSET Sales
  PROVE  /\ IsFiniteSet(S) /\ Money(S) \in Nat
         /\ \A o \in S : AmountOf[o] \in Nat \ {0} /\ AmountOf[o] <= Money(S)
<1>1. IsFiniteSet(S)
  BY FiguresAssumption, FS_Subset
<1>2. \A o \in S : AmountOf[o] \in Nat \ {0}
  BY FiguresAssumption
<1>3. \A o \in S : AmountOf[o] \in Nat
  BY <1>2
<1>4. QED
  BY <1>1, <1>2, <1>3, SumNat, SumTerm DEF Money

LEMMA MoneyOfPart ==
  ASSUME NEW S \in SUBSET Sales, NEW R \in SUBSET S
  PROVE  /\ Money(R) <= Money(S)
         /\ Money(S) = Money(R) + Money(S \ R)
<1>1. IsFiniteSet(S) /\ \A o \in S : AmountOf[o] \in Nat
  BY MoneyNat
<1>2. \A o \in S : AmountOf[o] \in Int
  BY <1>1
<1>3. QED
  BY <1>1, <1>2, SumOfPart, SumUnion DEF Money

\* The time of an order, its day, and how they compare with now.
LEMMA DaysOf ==
  ASSUME BookInv, NEW o \in Sales, NEW n \in Nat
  PROVE  /\ book[o].at \in Nat /\ DayOf(book[o].at) \in Nat /\ DayOf(now) \in Nat
         /\ DayOf(book[o].at) <= DayOf(now)
         /\ book[o].at >= now - n * Day => DayOf(book[o].at) >= DayOf(now) - n
<1> DEFINE t == book[o].at
           d == DayOf(t)
           e == DayOf(now)
<1>1. t \in Nat /\ now \in Nat /\ t <= now
  BY DEF BookInv
<1>2. Day \in Nat /\ Day > 0
  BY FiguresAssumption
<1>3. /\ d \in Nat /\ Day * d <= t /\ t < Day * d + Day
      /\ e \in Nat /\ Day * e <= now /\ now < Day * e + Day
  BY <1>1, <1>2, DivBounds DEF DayOf
<1> HIDE DEF t, d, e
<1>4. d <= e
  <2> SUFFICES ASSUME e + 1 <= d PROVE FALSE
    BY <1>3
  <2>1. Day * (e + 1) <= Day * d
    BY <1>2, <1>3, TimesMonotone
  <2>2. Day * (e + 1) = Day * e + Day
    BY <1>2, <1>3
  <2>3. Day * e \in Nat /\ Day * d \in Nat
    BY <1>2, <1>3
  <2>4. QED
    BY <1>1, <1>2, <1>3, <2>1, <2>2, <2>3
<1>5. ASSUME t >= now - n * Day PROVE d >= e - n
  <2> SUFFICES ASSUME d + n + 1 <= e PROVE FALSE
    BY <1>3
  <2>1. Day * (d + n + 1) <= Day * e
    BY <1>2, <1>3, TimesMonotone
  <2>2. Day * (d + n + 1) = Day * d + n * Day + Day
    BY <1>2, <1>3
  <2>3. Day * e \in Nat /\ Day * d \in Nat /\ n * Day \in Nat
    BY <1>2, <1>3
  <2>4. QED
    BY <1>1, <1>2, <1>3, <1>5, <2>1, <2>2, <2>3
<1>6. QED
  BY <1>1, <1>3, <1>4, <1>5 DEF t, d, e

\* The shorter window is part of the longer.
LEMMA WindowsNest ==
  ASSUME BookInv
  PROVE  /\ EarnedSince(Day) <= EarnedSince(Week * Day)
         /\ EarnedSince(Week * Day) <= EarnedSince(Month * Day)
         /\ EarnedSince(Month * Day) <= Money(Completed)
<1>1. Completed \in SUBSET Sales
  BY DEF Completed, SalesIn
<1>2. \A o \in Sales : book[o].at \in Nat
  BY DEF BookInv
<1>3. now \in Nat /\ Day \in Nat /\ Week * Day \in Int /\ Month * Day \in Int
      /\ Day <= Week * Day /\ Week * Day <= Month * Day
  <2>1. Day \in Nat /\ Week \in Nat /\ Month \in Nat /\ 1 <= Week /\ Week <= Month
    BY FiguresAssumption
  <2>2. Day * 1 <= Day * Week /\ Day * Week <= Day * Month
    BY <2>1, TimesMonotone
  <2>3. Day * 1 = Day /\ Day * Week = Week * Day /\ Day * Month = Month * Day
        /\ Week * Day \in Int /\ Month * Day \in Int
    BY <2>1
  <2>4. QED
    BY <2>1, <2>2, <2>3 DEF BookInv
<1>4. \A a, b \in Int : a <= b =>
          {o \in Completed : book[o].at >= now - a} \subseteq {o \in Completed : book[o].at >= now - b}
  <2> SUFFICES ASSUME NEW a \in Int, NEW b \in Int, a <= b, NEW o \in Completed, book[o].at >= now - a
               PROVE  book[o].at >= now - b
    OBVIOUS
  <2>1. book[o].at \in Nat
    BY <1>1, <1>2
  <2>2. QED
    BY <1>3, <2>1
<1>5. \A a, b \in Int : a <= b => EarnedSince(a) <= EarnedSince(b)
  <2> SUFFICES ASSUME NEW a \in Int, NEW b \in Int, a <= b PROVE EarnedSince(a) <= EarnedSince(b)
    OBVIOUS
  <2>1. {o \in Completed : book[o].at >= now - b} \in SUBSET Sales
    BY <1>1
  <2>2. QED
    BY <1>4, <2>1, MoneyOfPart DEF EarnedSince
<1>6. EarnedSince(Month * Day) <= Money(Completed)
  <2>1. {o \in Completed : book[o].at >= now - Month * Day} \in SUBSET Completed
    OBVIOUS
  <2>2. QED
    BY <1>1, <2>1, MoneyOfPart DEF EarnedSince
<1>7. QED
  BY <1>3, <1>5, <1>6

\* The orders of the week on its eighth date, and the others.
Week8 == {o \in Completed : book[o].at >= now - Week * Day}
Eighth == {o \in Completed : book[o].at >= now - Week * Day /\ DayOf(book[o].at) = DayOf(now) - Week}

\* The chart has every order of the week but those of the eighth date, each on its day.
LEMMA ChartAddsUp ==
  ASSUME BookInv
  PROVE  /\ SumFunction(Timeline) + Money(Eighth) = EarnedSince(Week * Day)
         /\ (\A k \in 1 .. Week : Timeline[k] = 0) => EarnedSince(Day) = 0
<1> DEFINE V == Week8 \ Eighth
           key == [o \in Sales |-> DayOf(book[o].at) - DayOf(now) + Week]
           on(k) == {o \in Completed : book[o].at >= now - Week * Day /\ DayOf(book[o].at) = LastDays[k]}
<1>0. Week \in Nat \ {0, 1} /\ Day \in Nat \ {0} /\ now \in Nat
  BY FiguresAssumption DEF BookInv
<1>1. Week8 \in SUBSET Sales /\ Eighth \in SUBSET Week8 /\ V \in SUBSET Sales
  BY DEF Week8, Eighth, Completed, SalesIn
<1>2. \A o \in Sales : /\ book[o].at \in Nat /\ DayOf(book[o].at) \in Nat /\ DayOf(now) \in Nat
                       /\ DayOf(book[o].at) <= DayOf(now)
                       /\ book[o].at >= now - Week * Day => DayOf(book[o].at) >= DayOf(now) - Week
                       /\ book[o].at >= now - 1 * Day => DayOf(book[o].at) >= DayOf(now) - 1
  BY <1>0, DaysOf
<1>3. \A o \in V : key[o] \in 1 .. Week
  <2> SUFFICES ASSUME NEW o \in V PROVE key[o] \in 1 .. Week
    OBVIOUS
  <2>1. o \in Sales /\ book[o].at >= now - Week * Day /\ DayOf(book[o].at) # DayOf(now) - Week
    BY <1>1 DEF Week8, Eighth
  <2>2. DayOf(book[o].at) >= DayOf(now) - Week
    BY <1>2, <2>1
  <2>3. QED
    BY <1>0, <1>2, <2>1, <2>2
<1>4. \A k \in 1 .. Week : on(k) = {o \in V : key[o] = k}
  <2> SUFFICES ASSUME NEW k \in 1 .. Week PROVE on(k) = {o \in V : key[o] = k}
    OBVIOUS
  <2>1. LastDays[k] = DayOf(now) - Week + k
    BY DEF LastDays
  <2>2. \A o \in Sales : /\ DayOf(book[o].at) = LastDays[k] <=> key[o] = k
                         /\ DayOf(book[o].at) = LastDays[k] => DayOf(book[o].at) # DayOf(now) - Week
    BY <1>0, <1>2, <2>1
  <2>3. QED
    BY <1>1, <2>2 DEF Week8, Eighth
<1>5. Timeline = [k \in 1 .. Week |-> Money(on(k))]
  BY DEF Timeline
<1>6. \A k \in 1 .. Week : Timeline[k] = SumFunctionOnSet(AmountOf, {o \in V : key[o] = k})
  BY <1>4, <1>5 DEF Money
<1>7. IsFiniteSet(1 .. Week)
  BY <1>0, FS_Interval
<1>8. IsFiniteSet(V) /\ \A o \in V : AmountOf[o] \in Int
  BY <1>1, MoneyNat
<1>9. SumFunctionOnSet(Timeline, 1 .. Week) = SumFunctionOnSet(AmountOf, V)
  <2> HIDE DEF V, key
  <2>1. \A k \in 1 .. Week : Timeline[k] = SumFunctionOnSet(AmountOf, Keyed(V, key, k))
    BY <1>6, Zenon DEF Keyed
  <2> DEFINE C == 1 .. Week
             g == Timeline
  <2>2. /\ IsFiniteSet(C) /\ \A o \in V : key[o] \in C
        /\ \A c \in C : g[c] = SumFunctionOnSet(AmountOf, Keyed(V, key, c))
    BY <1>3, <1>7, <2>1
  <2> HIDE DEF C, g
  <2>3. SumFunctionOnSet(g, C) = SumFunctionOnSet(AmountOf, V)
    BY <1>8, <2>2, SumGroups
  <2>4. QED
    BY <2>3 DEF C, g
<1>10. SumFunction(Timeline) = Money(V)
  <2>1. DOMAIN Timeline = 1 .. Week
    BY DEF Timeline
  <2>2. QED
    BY <1>9, <2>1 DEF SumFunction, Money
<1>11. SumFunction(Timeline) + Money(Eighth) = EarnedSince(Week * Day)
  <2>1. Money(Week8) = Money(Eighth) + Money(V)
    BY <1>1, MoneyOfPart
  <2>2. Money(Eighth) \in Nat /\ Money(V) \in Nat
    BY <1>1, MoneyNat
  <2>3. EarnedSince(Week * Day) = Money(Week8)
    BY DEF EarnedSince, Week8
  <2>4. QED
    BY <1>10, <2>1, <2>2, <2>3
<1>12. ASSUME \A k \in 1 .. Week : Timeline[k] = 0 PROVE EarnedSince(Day) = 0
  <2>1. {o \in Completed : book[o].at >= now - Day} = {}
    <3> SUFFICES ASSUME NEW o \in Completed, book[o].at >= now - Day PROVE FALSE
      OBVIOUS
    <3>1. o \in Sales
      BY DEF Completed, SalesIn
    <3>2. DayOf(book[o].at) >= DayOf(now) - 1
      BY <1>0, <1>2, <3>1
    <3> DEFINE k == key[o]
    <3>3. k = DayOf(book[o].at) - DayOf(now) + Week
      BY <3>1
    <3>4. k \in 1 .. Week
      BY <1>0, <1>2, <3>1, <3>2, <3>3
    <3>5. book[o].at >= now - Week * Day
      <4>1. Day * 1 <= Day * Week
        BY <1>0, TimesMonotone
      <4>2. Day <= Week * Day /\ Week * Day \in Int
        BY <1>0, <4>1
      <4>3. QED
        BY <1>0, <1>2, <3>1, <4>2
    <3>6. LastDays[k] = DayOf(book[o].at)
      BY <1>0, <1>2, <3>1, <3>3, <3>4 DEF LastDays
    <3>7. o \in on(k)
      BY <3>5, <3>6
    <3>8. on(k) \in SUBSET Sales
      BY DEF Completed, SalesIn
    <3>9. Timeline[k] = Money(on(k))
      BY <1>5, <3>4
    <3> HIDE DEF k, on
    <3>10. AmountOf[o] \in Nat \ {0} /\ AmountOf[o] <= Money(on(k))
      BY <3>7, <3>8, MoneyNat
    <3>11. QED
      BY <1>12, <3>4, <3>9, <3>10
  <2>2. QED
    BY <2>1, SumEmpty DEF EarnedSince, Money
<1>13. QED
  BY <1>11, <1>12

\* The first rows of some.
LEMMA FirstRows ==
  ASSUME NEW S, NEW rows \in Seq(S), NEW m \in 0 .. Len(rows)
  PROVE  /\ SubSeq(rows, 1, m) \in Seq(S) /\ DOMAIN SubSeq(rows, 1, m) = 1 .. m
         /\ Len(SubSeq(rows, 1, m)) = m
         /\ \A k \in 1 .. m : k \in 1 .. Len(rows) /\ SubSeq(rows, 1, m)[k] = rows[k]
<1> DEFINE first == SubSeq(rows, 1, m)
<1>1. Len(rows) \in Nat /\ m \in Nat /\ m <= Len(rows) /\ \A k \in 1 .. m : k \in 1 .. Len(rows)
  OBVIOUS
<1>2. \A k \in 1 .. m : rows[k] \in S
  BY <1>1
<1>3. /\ first \in Seq(S) /\ Len(first) = IF 1 <= m THEN m - 1 + 1 ELSE 0
      /\ \A i \in 1 .. m - 1 + 1 : first[i] = rows[1 + i - 1]
  BY <1>1, <1>2, SubSeqProperties
<1> HIDE DEF first
<1>4. Len(first) = m /\ \A k \in 1 .. m : first[k] = rows[k]
  BY <1>1, <1>3
<1>5. DOMAIN first = 1 .. m
  BY <1>3, <1>4
<1>6. QED
  BY <1>1, <1>3, <1>4, <1>5 DEF first

\* The values of a function on a finite set.
LEMMA ValuesFinite ==
  ASSUME NEW K, IsFiniteSet(K), NEW h
  PROVE  IsFiniteSet(Values(h, K))
<1> DEFINE s == [k \in K |-> h[k]]
<1>1. s \in Surjection(K, Values(h, K))
  BY DEF Surjection, Values
<1> HIDE DEF s
<1>2. QED
  BY <1>1, FS_Surjection

\* A page holds orders that are there, the first page all of them if there is room.
LEMMA PageHas ==
  ASSUME BookInv, NEW S \in SUBSET Sales
  PROVE  /\ ToSet(PageOf(S)) \subseteq S
         /\ Cardinality(S) <= PageRows => ToSet(PageOf(S)) = S
<1> DEFINE R == {x \in S \X S : book[x[1]].at > book[x[2]].at}
           rows == Ranked(S, LAMBDA a, b : book[a].at > book[b].at)
<1>1. IsFiniteSet(S)
  BY FiguresAssumption, FS_Subset
<1>2. IsStrict(R, S)
  <2>1. \A o \in S : book[o].at \in Nat
    BY DEF BookInv
  <2>2. QED
    BY <2>1 DEF IsStrict
<1>3. IsRanking(rows, S, R)
  <2>1. \A r \in [1 .. Cardinality(S) -> S] :
           IsRanking(r, S, R)
             <=> \A i, j \in 1 .. Cardinality(S) :
                    i < j => r[i] # r[j] /\ ~(book[r[j]].at > book[r[i]].at)
    BY DEF IsRanking
  <2>2. \E r \in [1 .. Cardinality(S) -> S] :
           \A i, j \in 1 .. Cardinality(S) :
              i < j => r[i] # r[j] /\ ~(book[r[j]].at > book[r[i]].at)
    <3>1. PICK r : IsRanking(r, S, R)
      <4> HIDE DEF R
      <4>1. QED
        BY <1>1, <1>2, RankingExists
    <3>2. r \in [1 .. Cardinality(S) -> S]
      BY <3>1 DEF IsRanking
    <3>3. QED
      BY <2>1, <3>1, <3>2
  <2>3. rows = CHOOSE r \in [1 .. Cardinality(S) -> S] :
           \A i, j \in 1 .. Cardinality(S) :
              i < j => r[i] # r[j] /\ ~(book[r[j]].at > book[r[i]].at)
    BY DEF Ranked
  <2> HIDE DEF R, rows
  <2>4. QED
    BY <2>1, <2>2, <2>3
<1> HIDE DEF R, rows
<1>4. /\ Cardinality(S) \in Nat /\ Len(rows) = Cardinality(S) /\ rows \in Seq(S)
      /\ {rows[i] : i \in 1 .. Cardinality(S)} = S
  BY <1>1, <1>3, RankingOnto
<1> DEFINE m == Min({PageRows, Len(rows)})
<1>5. PageRows \in Nat \ {0}
  BY FiguresAssumption
<1>6. m = IF PageRows <= Len(rows) THEN PageRows ELSE Len(rows)
  BY <1>4, <1>5, MinOfTwo
<1>7. m \in 0 .. Len(rows)
  BY <1>4, <1>5, <1>6
<1>8. PageOf(S) = SubSeq(rows, 1, m)
  BY DEF PageOf, rows
<1> HIDE DEF m
<1>9. /\ PageOf(S) \in Seq(S) /\ DOMAIN PageOf(S) = 1 .. m
      /\ \A k \in 1 .. m : PageOf(S)[k] = rows[k]
  BY <1>4, <1>7, <1>8, FirstRows
<1>10. ToSet(PageOf(S)) \subseteq S
  <2>1. \A k \in 1 .. m : rows[k] \in S
    BY <1>4, <1>7
  <2>2. QED
    BY <1>9, <2>1 DEF ToSet
<1>11. ASSUME Cardinality(S) <= PageRows PROVE ToSet(PageOf(S)) = S
  <2>1. m = Cardinality(S)
    BY <1>4, <1>5, <1>6, <1>11
  <2>2. QED
    BY <1>4, <1>9, <2>1 DEF ToSet
<1>12. QED
  BY <1>10, <1>11

\* The products of which an order earned something, a row for each.
Earning == {p \in Skus : Leading(p) # {}}
TopRow == [p \in Skus |-> [product |-> p, revenue |-> Money(Leading(p))]]

\* The top products are some of the rows, each once.
LEMMA TopIsSome ==
  \E rows, m :
      /\ rows \in Seq(Values(TopRow, Earning)) /\ m \in 0 .. Len(rows)
      /\ \A i, j \in 1 .. Len(rows) : rows[i] = rows[j] => i = j
      /\ TopProducts = SubSeq(rows, 1, m)
<1> DEFINE S == Values(TopRow, Earning)
           R == {x \in S \X S : x[1].revenue > x[2].revenue}
           rows == Ranked(S, LAMBDA a, b : a.revenue > b.revenue)
<1>1. IsFiniteSet(S)
  <2>1. IsFiniteSet(Earning)
    BY FiguresAssumption, FS_Subset DEF Earning
  <2>2. QED
    BY <2>1, ValuesFinite
<1>2. \A x \in S : x.revenue \in Nat
  <2>1. \A p \in Skus : Money(Leading(p)) \in Nat
    <3>1. \A p \in Skus : Leading(p) \in SUBSET Sales
      BY DEF Leading, Completed, SalesIn
    <3>2. QED
      BY <3>1, MoneyNat
  <2>2. QED
    BY <2>1 DEF Values, TopRow, Earning
<1>3. S = {[product |-> p, revenue |-> Money(Leading(p))] : p \in {q \in Skus : Leading(q) # {}}}
  BY DEF Values, TopRow, Earning
<1>4. TopProducts = SubSeq(rows, 1, Min({TopRows, Len(rows)}))
  BY <1>3, Zenon DEF TopProducts
<1>5. IsStrict(R, S)
  <2> HIDE DEF S
  <2>1. QED
    BY <1>2 DEF IsStrict
<1> HIDE DEF S
<1>6. IsRanking(rows, S, R)
  <2>1. \A r \in [1 .. Cardinality(S) -> S] :
           IsRanking(r, S, R)
             <=> \A i, j \in 1 .. Cardinality(S) :
                    i < j => r[i] # r[j] /\ ~(r[j].revenue > r[i].revenue)
    BY DEF IsRanking
  <2>2. \E r \in [1 .. Cardinality(S) -> S] :
           \A i, j \in 1 .. Cardinality(S) :
              i < j => r[i] # r[j] /\ ~(r[j].revenue > r[i].revenue)
    <3>1. PICK r : IsRanking(r, S, R)
      <4> HIDE DEF R
      <4>1. QED
        BY <1>1, <1>5, RankingExists
    <3>2. r \in [1 .. Cardinality(S) -> S]
      BY <3>1 DEF IsRanking
    <3>3. QED
      BY <2>1, <3>1, <3>2
  <2>3. rows = CHOOSE r \in [1 .. Cardinality(S) -> S] :
           \A i, j \in 1 .. Cardinality(S) :
              i < j => r[i] # r[j] /\ ~(r[j].revenue > r[i].revenue)
    BY DEF Ranked
  <2> HIDE DEF R, rows
  <2>4. QED
    BY <2>1, <2>2, <2>3
<1> HIDE DEF R, rows
<1>7. /\ Cardinality(S) \in Nat /\ Len(rows) = Cardinality(S) /\ rows \in Seq(S)
      /\ \A i, j \in 1 .. Cardinality(S) : rows[i] = rows[j] => i = j
  BY <1>1, <1>6, RankingOnto
<1>8. Min({TopRows, Len(rows)}) \in 0 .. Len(rows)
  <2>1. TopRows \in Nat
    BY FiguresAssumption
  <2>2. QED
    BY <1>7, <2>1, MinOfTwo
<1>9. QED
  BY <1>4, <1>7, <1>8 DEF S

\* The top products together earned no more than all orders did.
LEMMA TopAddsUp ==
  SumFunction([k \in DOMAIN TopProducts |-> TopProducts[k].revenue]) <= Money(Completed)
<1> DEFINE S == Values(TopRow, Earning)
           revenue == [x \in S |-> x.revenue]
           led == [p \in Earning |-> Money(Leading(p))]
           L == {o \in Completed : Len(CartOf[o]) > 0 /\ LeadOf(o) \in Earning}
           key == [o \in Sales |-> LeadOf(o)]
<1>0. Completed \in SUBSET Sales /\ L \in SUBSET Sales /\ L \in SUBSET Completed
  BY DEF Completed, SalesIn
<1>1. PICK rows, m : /\ rows \in Seq(S) /\ m \in 0 .. Len(rows)
                     /\ \A i, j \in 1 .. Len(rows) : rows[i] = rows[j] => i = j
                     /\ TopProducts = SubSeq(rows, 1, m)
  BY TopIsSome
<1>2. \A p \in Earning : p \in Skus /\ led[p] \in Nat /\ TopRow[p] \in S /\ revenue[TopRow[p]] = led[p]
  <2>1. \A p \in Earning : p \in Skus /\ Leading(p) \in SUBSET Sales
    BY DEF Earning, Leading, Completed, SalesIn
  <2>2. \A p \in Earning : Money(Leading(p)) \in Nat
    BY <2>1, MoneyNat
  <2>3. \A p \in Earning : TopRow[p] \in S
    BY DEF Values
  <2>4. \A p \in Earning : TopRow[p].revenue = Money(Leading(p))
    BY <2>1 DEF TopRow
  <2>5. QED
    BY <2>1, <2>2, <2>3, <2>4
<1>3. \A x \in S : revenue[x] \in Nat
  <2>1. \A x \in S : \E p \in Earning : x = TopRow[p]
    BY DEF Values
  <2>2. QED
    BY <1>2, <2>1
<1>4. IsFiniteSet(Earning) /\ IsFiniteSet(S)
  <2>1. IsFiniteSet(Earning)
    BY FiguresAssumption, FS_Subset DEF Earning
  <2>2. QED
    BY <2>1, ValuesFinite
<1>5. SumFunctionOnSet(led, Earning) = SumFunctionOnSet(revenue, S)
  <2>1. \A p, q \in Earning : TopRow[p] = TopRow[q] => p = q
    BY <1>2 DEF TopRow
  <2>2. \A x \in S : revenue[x] \in Int
    BY <1>3
  <2>3. \A p \in Earning : TopRow[p] \in S /\ led[p] = revenue[TopRow[p]]
    BY <1>2
  <2> HIDE DEF revenue, led
  <2>4. SumFunctionOnSet(led, Earning) = SumFunctionOnSet(revenue, Values(TopRow, Earning))
    BY <1>4, <2>1, <2>2, <2>3, SumImage
  <2>5. QED
    BY <2>4
<1>6. SumFunctionOnSet(led, Earning) = Money(L)
  <2>1. \A p \in Earning : Keyed(L, key, p) = Leading(p)
    <3> SUFFICES ASSUME NEW p \in Earning PROVE Keyed(L, key, p) = Leading(p)
      OBVIOUS
    <3>1. \A o \in L : key[o] = LeadOf(o)
      BY <1>0
    <3>2. QED
      BY <1>2, <3>1 DEF Keyed, Leading
  <2>2. \A o \in L : key[o] \in Earning
    BY <1>0
  <2>3. \A p \in Earning : led[p] = SumFunctionOnSet(AmountOf, Keyed(L, key, p))
    BY <2>1 DEF Money
  <2>4. IsFiniteSet(L) /\ \A o \in L : AmountOf[o] \in Int
    BY <1>0, MoneyNat
  <2> HIDE DEF L, key, led
  <2>5. SumFunctionOnSet(led, Earning) = SumFunctionOnSet(AmountOf, L)
    BY <1>4, <2>2, <2>3, <2>4, SumGroups
  <2>6. QED
    BY <2>5 DEF Money
<1>7. Money(L) <= Money(Completed)
  BY <1>0, MoneyOfPart
<1> DEFINE g == [k \in DOMAIN TopProducts |-> TopProducts[k].revenue]
<1>8. /\ DOMAIN TopProducts = 1 .. m
      /\ \A k \in 1 .. m : k \in 1 .. Len(rows) /\ TopProducts[k] = rows[k] /\ rows[k] \in S
  <2>1. /\ DOMAIN SubSeq(rows, 1, m) = 1 .. m
        /\ \A k \in 1 .. m : k \in 1 .. Len(rows) /\ SubSeq(rows, 1, m)[k] = rows[k]
    BY <1>1, FirstRows
  <2>2. \A k \in 1 .. Len(rows) : rows[k] \in S
    BY <1>1
  <2>3. QED
    BY <1>1, <2>1, <2>2
<1>9. SumFunction(g) = SumFunctionOnSet(revenue, Values(rows, 1 .. m))
  <2>1. SumFunction(g) = SumFunctionOnSet(g, 1 .. m)
    BY <1>8 DEF SumFunction
  <2>2. \A k \in 1 .. m : g[k] = revenue[rows[k]] /\ rows[k] \in S
    BY <1>8
  <2>3. \A i, j \in 1 .. m : rows[i] = rows[j] => i = j
    BY <1>1, <1>8
  <2>4. \A x \in S : revenue[x] \in Int
    BY <1>3
  <2>5. IsFiniteSet(1 .. m)
    BY <1>1, FS_Interval
  <2> DEFINE K == 1 .. m
  <2>6. /\ IsFiniteSet(K) /\ \A k \in K : rows[k] \in S
        /\ \A i, j \in K : rows[i] = rows[j] => i = j
        /\ \A k \in K : g[k] = revenue[rows[k]]
    BY <2>2, <2>3, <2>5
  <2> HIDE DEF K, g, revenue, S
  <2>7. SumFunctionOnSet(g, K) = SumFunctionOnSet(revenue, Values(rows, K))
    BY <1>4, <2>4, <2>6, SumImage
  <2>8. QED
    BY <2>1, <2>7 DEF K
<1>10. SumFunctionOnSet(revenue, Values(rows, 1 .. m)) <= SumFunctionOnSet(revenue, S)
  <2>1. Values(rows, 1 .. m) \in SUBSET S
    BY <1>8 DEF Values
  <2> HIDE DEF revenue, S
  <2>2. QED
    BY <1>3, <1>4, <2>1, SumOfPart
<1>11. SumFunction(g) <= Money(Completed)
  <2>1. Money(L) \in Nat /\ Money(Completed) \in Nat
    BY <1>0, MoneyNat
  <2>2. SumFunctionOnSet(revenue, Values(rows, 1 .. m)) \in Nat
    <3>1. Values(rows, 1 .. m) \in SUBSET S
      BY <1>8 DEF Values
    <3> HIDE DEF revenue, S
    <3>2. QED
      BY <1>3, <1>4, <3>1, FS_Subset, SumNat
  <2> HIDE DEF g, revenue, S, L, led
  <2>3. QED
    BY <1>5, <1>6, <1>7, <1>9, <1>10, <2>1, <2>2
<1> HIDE DEF g
<1>12. QED
  BY <1>11 DEF g

\* The summary of the backend adds up.
LEMMA RevenueHolds == BookInv => RevenueAddsUp
<1> SUFFICES ASSUME BookInv PROVE RevenueAddsUp
  OBVIOUS
<1> DEFINE f == Summary
<1>1. /\ f.h24 = EarnedSince(Day) /\ f.d7 = EarnedSince(Week * Day)
      /\ f.d30 = EarnedSince(Month * Day) /\ f.timeline = Timeline
      /\ f.released = Money(Completed) /\ f.top = TopProducts
  BY DEF Summary
<1> HIDE DEF f
<1>2. f.h24 <= f.d7 /\ f.d7 <= f.d30 /\ f.d30 <= f.released
  BY <1>1, WindowsNest
<1>3. SumFunction(f.timeline) + Money(Eighth) = f.d7
  BY <1>1, ChartAddsUp
<1>4. SumFunction([k \in DOMAIN f.top |-> f.top[k].revenue]) <= f.released
  BY <1>1, TopAddsUp
<1>5. Chart("data", f) = "waiting for a sale" => f.h24 = 0
  BY <1>1, ChartAddsUp DEF Chart
<1>6. QED
  BY <1>2, <1>3, <1>4, <1>5, Zenon DEF RevenueAddsUp, f, Eighth

\* A seller told to be all caught up is.
LEMMA CaughtUpHolds == BookInv => CaughtUpIsTrue
<1> SUFFICES ASSUME BookInv, Hero("data", Summary) = "caught up"
             PROVE  ToShip = {} /\ Kpis("data", Summary).inEscrow = 0
  BY DEF CaughtUpIsTrue
<1>1. Summary.active = Cardinality(Active) /\ Summary.inEscrow = Money(Active)
  BY DEF Summary
<1>2. IsFiniteSet(Active)
  BY FiguresAssumption, FS_Subset DEF Active, SalesIn
<1>3. Active = {}
  <2>1. ~(Summary.active > 0)
    BY DEF Hero
  <2>2. Cardinality(Active) \in Nat /\ (Cardinality(Active) = 0 => Active = {})
    BY <1>2, FS_CardinalityType, FS_EmptySet
  <2>3. ~(Cardinality(Active) > 0)
    BY <1>1, <2>1, Zenon
  <2>4. QED
    BY ONLY <2>2, <2>3
<1>4. Money(Active) = 0
  BY <1>3, SumEmpty DEF Money
<1>5. ToShip = {}
  <2>1. ToSet(Orders1) \subseteq Sales
    <3>1. {o \in Sales : book[o] # Absent} \in SUBSET Sales
      OBVIOUS
    <3>2. QED
      BY <3>1, PageHas DEF Orders1
  <2>2. ToShip \subseteq Active
    BY <2>1 DEF ToShip, Active, SalesIn, Escrowed
  <2>3. QED
    BY <1>3, <2>2
<1>6. Kpis("data", Summary).inEscrow = Summary.inEscrow
  BY DEF Kpis, Tile
<1>7. QED
  BY <1>1, <1>4, <1>5, <1>6

\* Some integers have a least one.
LEMMA MinExists ==
  ASSUME NEW S, IsFiniteSet(S), S \subseteq Int, S # {}
  PROVE  Min(S) \in S /\ \A y \in S : Min(S) <= y
<1> DEFINE R == {x \in S \X S : x[1] > x[2]}
<1>1. IsStrict(R, S)
  BY DEF IsStrict
<1>2. PICK m \in S : \A t \in S : <<m, t>> \notin R
  <2> HIDE DEF R
  <2>1. QED
    BY <1>1, LastExists
<1>3. \A t \in S : m <= t
  <2> SUFFICES ASSUME NEW t \in S PROVE m <= t
    OBVIOUS
  <2>1. <<m, t>> \notin R /\ <<m, t>> \in S \X S
    BY <1>2
  <2>2. ~(m > t)
    BY <2>1
  <2>3. QED
    BY <2>2
<1>4. QED
  BY <1>3 DEF Min

LEMMA MinIs ==
  ASSUME NEW S, S \subseteq Int, NEW m \in S, \A y \in S : m <= y
  PROVE  Min(S) = m
<1>1. Min(S) \in S /\ \A y \in S : Min(S) <= y
  BY DEF Min
<1>2. Min(S) <= m /\ m <= Min(S) /\ m \in Int /\ Min(S) \in Int
  BY <1>1
<1>3. QED
  BY ONLY <1>2

\* The line items of an order: it has some, and at least one piece of each.
LEMMA LinesOf ==
  ASSUME NEW o \in Sales
  PROVE  /\ DOMAIN LineItems(o) \subseteq Skus \cup {Article}
         /\ DOMAIN LineItems(o) # {} /\ IsFiniteSet(DOMAIN LineItems(o))
         /\ \A p \in DOMAIN LineItems(o) : LineItems(o)[p] \in Nat \ {0}
         /\ \A p : Takes(o, p) > 0 <=> p \in DOMAIN LineItems(o)
         /\ \A p \in DOMAIN LineItems(o) : Takes(o, p) = LineItems(o)[p]
<1> DEFINE c == CartOf[o]
           times(p) == {k \in DOMAIN c : c[k] = p}
<1>1. c \in Seq(Skus)
  BY FiguresAssumption
<1>2. IsFiniteSet(Skus) /\ Article \notin Skus
  BY FiguresAssumption
<1>3. CASE c = <<>>
  <2>1. LineItems(o) = [p \in {Article} |-> 1]
    BY <1>3 DEF LineItems
  <2>2. DOMAIN LineItems(o) = {Article} /\ LineItems(o)[Article] = 1 /\ IsFiniteSet({Article})
    BY <2>1, FS_Singleton
  <2>3. \A p : Takes(o, p) = IF p \in {Article} THEN 1 ELSE 0
    BY <2>2 DEF Takes
  <2>4. QED
    BY <2>2, <2>3
<1>4. CASE c # <<>>
  <2>1. LineItems(o) = [p \in ToSet(c) |-> Cardinality(times(p))]
    BY <1>4 DEF LineItems
  <2>2. ToSet(c) \subseteq Skus /\ ToSet(c) # {} /\ IsFiniteSet(DOMAIN c)
    <3>1. Len(c) \in Nat \ {0} /\ DOMAIN c = 1 .. Len(c)
      BY <1>1, <1>4
    <3>2. IsFiniteSet(1 .. Len(c))
      <4>1. \A n \in Nat : IsFiniteSet(1 .. n)
        BY FS_Interval
      <4>2. QED
        BY <3>1, <4>1
    <3>3. 1 \in DOMAIN c /\ \A k \in DOMAIN c : c[k] \in Skus
      BY <1>1, <3>1
    <3>4. QED
      BY <3>1, <3>2, <3>3 DEF ToSet
  <2>3. \A p \in ToSet(c) : Cardinality(times(p)) \in Nat \ {0}
    <3> SUFFICES ASSUME NEW p \in ToSet(c) PROVE Cardinality(times(p)) \in Nat \ {0}
      OBVIOUS
    <3>1. times(p) # {} /\ times(p) \in SUBSET DOMAIN c
      BY DEF ToSet
    <3> HIDE DEF times
    <3>2. IsFiniteSet(times(p))
      BY <2>2, <3>1, FS_Subset
    <3>3. QED
      BY <3>1, <3>2, FS_CardinalityType, FS_EmptySet
  <2>4. IsFiniteSet(ToSet(c))
    BY <1>2, <2>2, FS_Subset
  <2> HIDE DEF times
  <2>5. DOMAIN LineItems(o) = ToSet(c) /\ \A p \in ToSet(c) : LineItems(o)[p] = Cardinality(times(p))
    BY <2>1
  <2>6. \A p \in ToSet(c) : LineItems(o)[p] \in Nat \ {0}
    BY <2>3, <2>5
  <2>7. \A p : Takes(o, p) = IF p \in ToSet(c) THEN LineItems(o)[p] ELSE 0
    BY <2>5 DEF Takes
  <2>8. \A p : Takes(o, p) > 0 <=> p \in ToSet(c)
    BY <2>6, <2>7
  <2>9. QED
    BY <2>2, <2>4, <2>5, <2>6, <2>7, <2>8
<1>5. QED
  BY <1>3, <1>4

\* What is to be shipped, and how long there is left.
LEMMA ShipsOf ==
  ASSUME BookInv
  PROVE  /\ ToShip \in SUBSET Sales /\ IsFiniteSet(ToShip)
         /\ \A o \in Sales : Left(o) \in Int /\ Left(o) <= ShipWindow
         /\ ShipWindow \in Int
         /\ \A S \in SUBSET Sales : IsFiniteSet({Left(o) : o \in S})
<1>1. ToSet(Orders1) \subseteq Sales
  <2>1. {o \in Sales : book[o] # Absent} \in SUBSET Sales
    OBVIOUS
  <2>2. QED
    BY <2>1, PageHas DEF Orders1
<1>2. ToShip \in SUBSET Sales
  BY <1>1 DEF ToShip
<1>3. IsFiniteSet(ToShip)
  BY <1>2, MoneyNat
<1>4. ShipWindow \in Nat
  BY FiguresAssumption
<1>5. \A o \in Sales : book[o].funded \in Nat /\ book[o].funded <= now
  BY DEF BookInv
<1>6. \A o \in Sales : Left(o) \in Int /\ Left(o) <= ShipWindow
  BY <1>4, <1>5 DEF Left, BookInv
<1>7. ASSUME NEW S \in SUBSET Sales PROVE IsFiniteSet({Left(o) : o \in S})
  <2> DEFINE h == [o \in S |-> Left(o)]
  <2>1. IsFiniteSet(S)
    BY MoneyNat
  <2>2. {Left(o) : o \in S} = Values(h, S)
    BY DEF Values
  <2>3. IsFiniteSet(Values(h, S))
    BY <2>1, ValuesFinite
  <2>4. QED
    BY <2>2, <2>3
<1>8. QED
  BY <1>2, <1>3, <1>4, <1>6, <1>7

\* The orders a product is to be taken for, the products to be taken, and each with the other.
From(p) == {o \in ToShip : Takes(o, p) > 0}
Wanted == {p \in Skus \cup {Article} : \E o \in ToShip : Takes(o, p) > 0}
Lines == {x \in ToShip \X (Skus \cup {Article}) : Takes(x[1], x[2]) > 0}
Pieces == [x \in Lines |-> Takes(x[1], x[2])]
PickOf == [p \in Wanted |-> PickRow(p)]

LEMMA LinesType ==
  ASSUME BookInv
  PROVE  /\ IsFiniteSet(Wanted) /\ IsFiniteSet(Lines)
         /\ \A x \in Lines : Pieces[x] \in Nat
         /\ \A p \in Wanted : From(p) \in SUBSET Sales /\ From(p) # {} /\ IsFiniteSet(From(p))
<1>1. IsFiniteSet(Skus \cup {Article})
  BY FiguresAssumption, FS_AddElement
<1>2. IsFiniteSet(Wanted)
  BY <1>1, FS_Subset DEF Wanted
<1>3. IsFiniteSet(Lines)
  <2>1. IsFiniteSet(ToShip \X (Skus \cup {Article}))
    BY <1>1, ShipsOf, FS_Product
  <2>2. QED
    BY <2>1, FS_Subset DEF Lines
<1>4. ASSUME NEW x \in Lines PROVE Pieces[x] \in Nat
  <2>1. x[1] \in Sales /\ Takes(x[1], x[2]) > 0 /\ Pieces[x] = Takes(x[1], x[2])
    BY ShipsOf DEF Lines, Pieces
  <2>2. QED
    BY <2>1, LinesOf
<1>5. ASSUME NEW p \in Wanted PROVE From(p) \in SUBSET Sales /\ From(p) # {} /\ IsFiniteSet(From(p))
  <2>1. From(p) \in SUBSET Sales /\ From(p) # {}
    BY ShipsOf DEF From, Wanted
  <2>2. QED
    BY <2>1, MoneyNat
<1>6. QED
  BY <1>2, <1>3, <1>4, <1>5

LEMMA LineIs ==
  ASSUME NEW o \in ToShip, NEW p \in Skus \cup {Article}, Takes(o, p) > 0
  PROVE  <<o, p>> \in Lines /\ Pieces[<<o, p>>] = Takes(o, p)
<1>1. <<o, p>> \in Lines
  BY DEF Lines
<1>2. QED
  BY <1>1 DEF Pieces

\* The pieces of the tile are those of all lines, taken order by order.
LEMMA PiecesByOrder ==
  ASSUME BookInv
  PROVE  Tiles.items = SumFunctionOnSet(Pieces, Lines)
<1> DEFINE units == [o \in ToShip |-> Units(o)]
           key == [x \in Lines |-> x[1]]
<1>1. ASSUME NEW o \in ToShip PROVE Units(o) = SumFunctionOnSet(Pieces, Keyed(Lines, key, o))
  <2> DEFINE K == DOMAIN LineItems(o)
             h == [p \in K |-> <<o, p>>]
             g == LineItems(o)
  <2>1. o \in Sales
    BY ShipsOf
  <2>2. /\ K \subseteq Skus \cup {Article} /\ IsFiniteSet(K)
        /\ \A p : Takes(o, p) > 0 <=> p \in K
        /\ \A p \in K : Takes(o, p) = g[p]
    BY <2>1, LinesOf
  <2>3. \A p \in K : h[p] = <<o, p>>
    OBVIOUS
  <2> HIDE DEF K, g, h
  <2>4. \A p \in K : h[p] \in Lines /\ g[p] = Pieces[h[p]]
    <3> SUFFICES ASSUME NEW p \in K PROVE h[p] \in Lines /\ g[p] = Pieces[h[p]]
      OBVIOUS
    <3>1. <<o, p>> \in Lines /\ Pieces[<<o, p>>] = Takes(o, p)
      BY <2>2, LineIs
    <3>2. QED
      BY <2>2, <2>3, <3>1
  <2>5. \A p, q \in K : h[p] = h[q] => p = q
    BY <2>3
  <2>6. IsFiniteSet(Lines) /\ \A x \in Lines : Pieces[x] \in Int
    BY LinesType
  <2>7. SumFunctionOnSet(g, K) = SumFunctionOnSet(Pieces, Values(h, K))
    BY <2>2, <2>4, <2>5, <2>6, SumImage
  <2>8. Values(h, K) = Keyed(Lines, key, o)
    <3>1. \A x \in Lines : x = <<x[1], x[2]>> /\ key[x] = x[1] /\ Takes(x[1], x[2]) > 0
      BY DEF Lines
    <3>2. ASSUME NEW x \in Keyed(Lines, key, o) PROVE x \in Values(h, K)
      <4>1. x \in Lines /\ key[x] = o
        BY DEF Keyed
      <4>2. x = <<o, x[2]>> /\ x[2] \in K
        BY <2>2, <3>1, <4>1
      <4>3. x = h[x[2]]
        BY <2>3, <4>2
      <4>4. QED
        BY <4>2, <4>3 DEF Values
    <3>3. ASSUME NEW p \in K PROVE h[p] \in Keyed(Lines, key, o)
      <4>1. h[p] \in Lines /\ h[p] = <<o, p>>
        BY <2>3, <2>4
      <4>2. key[h[p]] = o
        BY <4>1
      <4>3. QED
        BY <4>1, <4>2 DEF Keyed
    <3> HIDE DEF key
    <3>4. QED
      BY <3>2, <3>3 DEF Values
  <2>9. Units(o) = SumFunctionOnSet(g, K)
    BY DEF Units, SumFunction, g, K
  <2>10. QED
    BY <2>7, <2>8, <2>9
<1>2. \A x \in Lines : key[x] \in ToShip
  BY DEF Lines
<1>3. \A o \in ToShip : units[o] = SumFunctionOnSet(Pieces, Keyed(Lines, key, o))
  BY <1>1
<1>4. Tiles.items = SumFunctionOnSet(units, ToShip)
  BY DEF Tiles, SumFunction
<1>5. IsFiniteSet(ToShip) /\ IsFiniteSet(Lines) /\ \A x \in Lines : Pieces[x] \in Int
  BY ShipsOf, LinesType
<1> HIDE DEF units, key
<1>6. SumFunctionOnSet(units, ToShip) = SumFunctionOnSet(Pieces, Lines)
  BY <1>2, <1>3, <1>5, SumGroups
<1>7. QED
  BY <1>4, <1>6

\* The quantities of the pick list are those of all lines, taken product by product.
LEMMA PiecesByProduct ==
  ASSUME BookInv, NEW qty, \A p \in Wanted : qty[p] = PickRow(p).qty
  PROVE  SumFunctionOnSet(qty, Wanted) = SumFunctionOnSet(Pieces, Lines)
<1> DEFINE key == [x \in Lines |-> x[2]]
<1>1. ASSUME NEW p \in Wanted PROVE qty[p] = SumFunctionOnSet(Pieces, Keyed(Lines, key, p))
  <2> DEFINE K == From(p)
             h == [o \in K |-> <<o, p>>]
             g == [o \in K |-> Takes(o, p)]
  <2>1. /\ IsFiniteSet(K) /\ p \in Skus \cup {Article}
        /\ \A o \in K : o \in ToShip /\ Takes(o, p) > 0
        /\ \A o \in ToShip : Takes(o, p) > 0 => o \in K
    BY LinesType DEF From, Wanted
  <2>2. \A o \in K : h[o] = <<o, p>> /\ g[o] = Takes(o, p)
    OBVIOUS
  <2>3. qty[p] = SumFunctionOnSet(g, K)
    <3>1. PickRow(p).qty = SumFunction(g)
      BY DEF PickRow, From
    <3>2. DOMAIN g = K
      OBVIOUS
    <3> HIDE DEF g, K
    <3>3. QED
      BY <3>1, <3>2 DEF SumFunction
  <2> HIDE DEF K, g, h
  <2>4. \A o \in K : h[o] \in Lines /\ g[o] = Pieces[h[o]]
    <3> SUFFICES ASSUME NEW o \in K PROVE h[o] \in Lines /\ g[o] = Pieces[h[o]]
      OBVIOUS
    <3>1. <<o, p>> \in Lines /\ Pieces[<<o, p>>] = Takes(o, p)
      BY <2>1, LineIs
    <3>2. QED
      BY <2>2, <3>1
  <2>5. \A o, q \in K : h[o] = h[q] => o = q
    BY <2>2
  <2>6. IsFiniteSet(Lines) /\ \A x \in Lines : Pieces[x] \in Int
    BY LinesType
  <2>7. SumFunctionOnSet(g, K) = SumFunctionOnSet(Pieces, Values(h, K))
    BY <2>1, <2>4, <2>5, <2>6, SumImage
  <2>8. Values(h, K) = Keyed(Lines, key, p)
    <3>1. \A x \in Lines : x = <<x[1], x[2]>> /\ key[x] = x[2] /\ x[1] \in ToShip /\ Takes(x[1], x[2]) > 0
      BY DEF Lines
    <3>2. ASSUME NEW x \in Keyed(Lines, key, p) PROVE x \in Values(h, K)
      <4>1. x \in Lines /\ key[x] = p
        BY DEF Keyed
      <4>2. x = <<x[1], p>> /\ x[1] \in K
        BY <2>1, <3>1, <4>1
      <4>3. x = h[x[1]]
        BY <2>2, <4>2
      <4>4. QED
        BY <4>2, <4>3 DEF Values
    <3>3. ASSUME NEW o \in K PROVE h[o] \in Keyed(Lines, key, p)
      <4>1. h[o] \in Lines /\ h[o] = <<o, p>>
        BY <2>2, <2>4
      <4>2. key[h[o]] = p
        BY <4>1
      <4>3. QED
        BY <4>1, <4>2 DEF Keyed
    <3> HIDE DEF key
    <3>4. QED
      BY <3>2, <3>3 DEF Values
  <2>9. QED
    BY <2>3, <2>7, <2>8
<1>2. \A x \in Lines : key[x] \in Wanted
  BY DEF Lines, Wanted
<1>3. IsFiniteSet(Wanted) /\ IsFiniteSet(Lines) /\ \A x \in Lines : Pieces[x] \in Int
  BY LinesType
<1> HIDE DEF key
<1>4. QED
  BY <1>1, <1>2, <1>3, SumGroups

\* The row of a product: the least of its orders' deadlines, and its pieces.
LEMMA PickRowOf ==
  ASSUME BookInv, NEW p \in Wanted
  PROVE  /\ PickRow(p).sku = p
         /\ PickRow(p).qty \in Nat /\ PickRow(p).left \in Int
         /\ \E o \in From(p) : PickRow(p).left = Left(o)
         /\ \A o \in From(p) : PickRow(p).left <= Left(o)
<1> DEFINE lefts == {Left(o) : o \in From(p)}
           takes == [o \in From(p) |-> Takes(o, p)]
<1>1. From(p) \in SUBSET Sales /\ From(p) # {} /\ IsFiniteSet(From(p))
  BY LinesType
<1>2. lefts \subseteq Int /\ lefts # {} /\ IsFiniteSet(lefts)
  BY <1>1, ShipsOf
<1>3. PickRow(p).sku = p /\ PickRow(p).left = Min(lefts) /\ PickRow(p).qty = SumFunction(takes)
  BY DEF PickRow, From
<1>4. Min(lefts) \in lefts /\ \A y \in lefts : Min(lefts) <= y
  <2> HIDE DEF lefts
  <2>1. QED
    BY <1>2, MinExists
<1>5. PickRow(p).qty \in Nat
  <2>1. \A o \in From(p) : takes[o] \in Nat
    <3>1. \A o \in From(p) : o \in Sales /\ Takes(o, p) > 0
      BY <1>1 DEF From
    <3>2. \A o \in From(p) : Takes(o, p) \in Nat
      BY <3>1, LinesOf
    <3>3. QED
      BY <3>2
  <2>2. DOMAIN takes = From(p)
    OBVIOUS
  <2> HIDE DEF takes
  <2>3. SumFunctionOnSet(takes, From(p)) \in Nat
    BY <1>1, <2>1, SumNat
  <2>4. QED
    BY <1>3, <2>2, <2>3 DEF SumFunction
<1>6. QED
  BY <1>2, <1>3, <1>4, <1>5

\* The pick list has the row of each product that is wanted, the most urgent first.
LEMMA PickListRanks ==
  ASSUME BookInv
  PROVE  /\ IsFiniteSet(Values(PickOf, Wanted))
         /\ PickList \in Seq(Values(PickOf, Wanted)) /\ DOMAIN PickList = 1 .. Len(PickList)
         /\ Values(PickList, 1 .. Len(PickList)) = Values(PickOf, Wanted)
         /\ \A i, j \in 1 .. Len(PickList) : PickList[i] = PickList[j] => i = j
         /\ \A j \in 1 .. Len(PickList) : PickList[1].left <= PickList[j].left
<1> DEFINE S == Values(PickOf, Wanted)
           Above(a, b) == a.left < b.left \/ (a.left = b.left /\ a.qty > b.qty)
           R == {x \in S \X S : Above(x[1], x[2])}
<1>1. IsFiniteSet(S)
  BY LinesType, ValuesFinite
<1>2. \A x \in S : x.left \in Int /\ x.qty \in Nat
  BY PickRowOf DEF Values, PickOf
<1>3. S = {PickRow(p) : p \in {q \in Skus \cup {Article} : \E o \in ToShip : Takes(o, q) > 0}}
  BY DEF Values, PickOf, Wanted
<1>4. PickList = Ranked(S, LAMBDA a, b : a.left < b.left \/ (a.left = b.left /\ a.qty > b.qty))
  BY <1>3, Zenon DEF PickList
<1> HIDE DEF S
<1>5. IsStrict(R, S)
  BY <1>2 DEF IsStrict
<1>6. IsRanking(PickList, S, R)
  <2>1. \A r \in [1 .. Cardinality(S) -> S] :
           IsRanking(r, S, R)
             <=> \A i, j \in 1 .. Cardinality(S) :
                    i < j => r[i] # r[j] /\ ~Above(r[j], r[i])
    BY DEF IsRanking
  <2>2. \E r \in [1 .. Cardinality(S) -> S] :
           \A i, j \in 1 .. Cardinality(S) :
              i < j => r[i] # r[j] /\ ~Above(r[j], r[i])
    <3>1. PICK r : IsRanking(r, S, R)
      <4> HIDE DEF R
      <4>1. QED
        BY <1>1, <1>5, RankingExists
    <3>2. r \in [1 .. Cardinality(S) -> S]
      BY <3>1 DEF IsRanking
    <3>3. QED
      BY <2>1, <3>1, <3>2
  <2>3. PickList = CHOOSE r \in [1 .. Cardinality(S) -> S] :
           \A i, j \in 1 .. Cardinality(S) :
              i < j => r[i] # r[j] /\ ~Above(r[j], r[i])
    BY <1>4 DEF Ranked
  <2> HIDE DEF R, Above
  <2>4. QED
    BY <2>1, <2>2, <2>3
<1>7. /\ Cardinality(S) \in Nat /\ Len(PickList) = Cardinality(S) /\ PickList \in Seq(S)
      /\ {PickList[i] : i \in 1 .. Cardinality(S)} = S
      /\ \A i, j \in 1 .. Cardinality(S) : PickList[i] = PickList[j] => i = j
  <2> HIDE DEF R
  <2>1. QED
    BY <1>1, <1>6, RankingOnto
<1>8. \A j \in 1 .. Len(PickList) : PickList[1].left <= PickList[j].left
  <2> SUFFICES ASSUME NEW j \in 1 .. Len(PickList) PROVE PickList[1].left <= PickList[j].left
    OBVIOUS
  <2>1. 1 \in 1 .. Len(PickList) /\ PickList[1] \in S /\ PickList[j] \in S
    BY <1>7
  <2>2. PickList[1].left \in Int /\ PickList[j].left \in Int
    BY <1>2, <2>1
  <2>3. CASE j = 1
    BY <2>2, <2>3
  <2>4. CASE j # 1
    <3>1. <<PickList[j], PickList[1]>> \notin R
      <4>1. 1 < j
        BY <2>4
      <4>2. QED
        BY <1>6, <1>7, <2>1, <4>1 DEF IsRanking
    <3>2. ~(PickList[j].left < PickList[1].left)
      BY <2>1, <3>1
    <3>3. QED
      BY <2>2, <3>2
  <2>5. QED
    BY <2>3, <2>4
<1>9. DOMAIN PickList = 1 .. Len(PickList)
  BY <1>7
<1>10. QED
  BY <1>1, <1>7, <1>8, <1>9 DEF S, Values

\* As many pieces in the one view as in the other.
LEMMA PiecesAgree ==
  ASSUME BookInv
  PROVE  SumFunction([k \in DOMAIN PickList |-> PickList[k].qty]) = Tiles.items
<1> DEFINE S == Values(PickOf, Wanted)
           K == 1 .. Len(PickList)
           g == [k \in DOMAIN PickList |-> PickList[k].qty]
           f == [x \in S |-> x.qty]
           qty == [p \in Wanted |-> PickRow(p).qty]
<1>1. /\ IsFiniteSet(S) /\ PickList \in Seq(S) /\ DOMAIN PickList = K
      /\ Values(PickList, K) = S
      /\ \A i, j \in K : PickList[i] = PickList[j] => i = j
  BY PickListRanks
<1>2. \A p \in Wanted : /\ PickOf[p] = PickRow(p) /\ PickOf[p] \in S
                        /\ PickRow(p).sku = p /\ PickRow(p).qty \in Nat
  BY PickRowOf DEF PickOf, Values
<1>3. \A x \in S : f[x] \in Int
  <2>1. \A x \in S : \E p \in Wanted : x = PickOf[p]
    BY DEF Values
  <2>2. QED
    BY <1>2, <2>1
<1>4. \A p \in Wanted : qty[p] = f[PickOf[p]]
  BY <1>2
<1>5. \A p, q \in Wanted : PickOf[p] = PickOf[q] => p = q
  BY <1>2
<1>6. \A k \in K : PickList[k] \in S /\ g[k] = f[PickList[k]]
  <2>1. \A k \in K : PickList[k] \in S
    BY <1>1
  <2> HIDE DEF S, K
  <2>2. QED
    BY <1>1, <2>1
<1>7. IsFiniteSet(K)
  <2>1. \A n \in Nat : IsFiniteSet(1 .. n)
    BY FS_Interval
  <2>2. Len(PickList) \in Nat
    BY <1>1
  <2>3. QED
    BY <2>1, <2>2
<1>8. IsFiniteSet(Wanted)
  BY LinesType
<1>9. SumFunction(g) = SumFunctionOnSet(g, K)
  <2>1. DOMAIN g = K
    BY <1>1
  <2> HIDE DEF g, K
  <2>2. QED
    BY <2>1 DEF SumFunction
<1>10. \A p \in Wanted : qty[p] = PickRow(p).qty
  OBVIOUS
<1>11. \A p \in Wanted : PickOf[p] \in S
  BY <1>2
<1> HIDE DEF g, f, qty, K
<1>12. SumFunctionOnSet(g, K) = SumFunctionOnSet(f, S)
  <2> HIDE DEF S
  <2>1. SumFunctionOnSet(g, K) = SumFunctionOnSet(f, Values(PickList, K))
    BY <1>1, <1>3, <1>6, <1>7, SumImage
  <2>2. QED
    BY <1>1, <2>1
<1>13. SumFunctionOnSet(qty, Wanted) = SumFunctionOnSet(f, S)
  <2> HIDE DEF S
  <2>1. SumFunctionOnSet(qty, Wanted) = SumFunctionOnSet(f, Values(PickOf, Wanted))
    BY <1>1, <1>3, <1>4, <1>5, <1>8, <1>11, SumImage
  <2>2. QED
    BY <2>1 DEF S
<1>14. SumFunctionOnSet(qty, Wanted) = SumFunctionOnSet(Pieces, Lines)
  BY <1>10, PiecesByProduct
<1>15. Tiles.items = SumFunctionOnSet(Pieces, Lines)
  BY PiecesByOrder
<1>16. SumFunction(g) = Tiles.items
  BY <1>9, <1>12, <1>13, <1>14, <1>15
<1>17. QED
  BY <1>16 DEF g

\* The one is empty when the other is: every order to be shipped has a product to be taken.
LEMMA EmptyAgree ==
  ASSUME BookInv
  PROVE  (PickList = <<>> <=> ToShip = {}) /\ (Tiles.orders = 0 <=> ToShip = {})
<1>1. ToShip = {} <=> Wanted = {}
  <2>1. ASSUME NEW o \in ToShip PROVE Wanted # {}
    <3>1. o \in Sales
      BY ShipsOf
    <3>2. PICK p \in DOMAIN LineItems(o) : TRUE
      BY <3>1, LinesOf
    <3>3. p \in Skus \cup {Article} /\ Takes(o, p) > 0
      BY <3>1, LinesOf
    <3>4. QED
      BY <3>3 DEF Wanted
  <2>2. QED
    BY <2>1 DEF Wanted
<1>2. Wanted = {} <=> Values(PickOf, Wanted) = {}
  BY DEF Values
<1>3. Values(PickOf, Wanted) = {} <=> PickList = <<>>
  <2> DEFINE S == Values(PickOf, Wanted)
  <2>1. PickList \in Seq(S) /\ Values(PickList, 1 .. Len(PickList)) = S
    BY PickListRanks
  <2> HIDE DEF S
  <2>2. ASSUME PickList # <<>> PROVE S # {}
    <3>1. PickList[1] \in S
      BY <2>1, <2>2
    <3>2. QED
      BY <3>1
  <2>3. ASSUME PickList = <<>> PROVE S = {}
    <3>1. 1 .. Len(PickList) = {}
      BY <2>3
    <3>2. QED
      BY <2>1, <3>1 DEF Values
  <2>4. QED
    BY <2>2, <2>3 DEF S
<1>4. Tiles.orders = 0 <=> ToShip = {}
  <2>1. Tiles.orders = Cardinality(ToShip)
    BY DEF Tiles
  <2>2. QED
    BY <2>1, ShipsOf, FS_EmptySet
<1>5. QED
  BY <1>1, <1>2, <1>3, <1>4

\* The next deadline of the tiles: of what is to be shipped, and of the pick list's first row.
LEMMA DeadlinesAgree ==
  ASSUME BookInv
  PROVE  /\ \A o \in ToShip : Tiles.earliest <= Left(o)
         /\ PickList # <<>> => PickList[1].left = Tiles.earliest
<1> DEFINE T == {ShipWindow} \cup {Left(o) : o \in ToShip}
           S == Values(PickOf, Wanted)
<1>1. Tiles.earliest = Min(T)
  BY DEF Tiles
<1>2. /\ ToShip \in SUBSET Sales
      /\ \A o \in ToShip : o \in Sales /\ Left(o) \in Int /\ Left(o) <= ShipWindow
      /\ ShipWindow \in Int
  BY ShipsOf
<1>3. T \subseteq Int /\ T # {} /\ \A o \in ToShip : Left(o) \in T
  BY <1>2
<1>4. IsFiniteSet(T)
  <2>1. IsFiniteSet({Left(o) : o \in ToShip})
    BY <1>2, ShipsOf
  <2> DEFINE lefts == {Left(o) : o \in ToShip}
  <2> HIDE DEF lefts
  <2>2. IsFiniteSet(lefts \cup {ShipWindow})
    BY <2>1, FS_AddElement DEF lefts
  <2>3. T = lefts \cup {ShipWindow}
    BY DEF lefts
  <2>4. QED
    BY <2>2, <2>3
<1>5. \A o \in ToShip : Tiles.earliest <= Left(o)
  <2> HIDE DEF T
  <2>1. \A y \in T : Min(T) <= y
    BY <1>3, <1>4, MinExists
  <2>2. QED
    BY <1>1, <1>3, <2>1
<1>6. ASSUME PickList # <<>> PROVE PickList[1].left = Tiles.earliest
  <2>1. /\ PickList \in Seq(S) /\ Values(PickList, 1 .. Len(PickList)) = S
        /\ \A j \in 1 .. Len(PickList) : PickList[1].left <= PickList[j].left
    BY PickListRanks
  <2>2. PickList[1] \in S
    <3> HIDE DEF S
    <3>1. QED
      BY <1>6, <2>1
  <2>3. PICK p \in Wanted : PickList[1] = PickRow(p)
    BY <2>2 DEF Values, PickOf
  <2>4. PICK o \in From(p) : PickRow(p).left = Left(o)
    BY PickRowOf
  <2>5. o \in ToShip
    BY DEF From
  <2>6. PickList[1].left \in T /\ PickList[1].left <= ShipWindow
    BY <1>2, <2>3, <2>4, <2>5
  <2>7. ASSUME NEW q \in ToShip PROVE PickList[1].left <= Left(q)
    <3>1. PICK r \in DOMAIN LineItems(q) : TRUE
      BY <1>2, LinesOf
    <3>2. r \in Skus \cup {Article} /\ Takes(q, r) > 0
      BY <1>2, LinesOf
    <3>3. r \in Wanted /\ q \in From(r)
      BY <3>2 DEF Wanted, From
    <3>4. PickRow(r).left <= Left(q) /\ PickRow(r).left \in Int
      BY <3>3, PickRowOf
    <3>5. PickRow(r) \in S
      BY <3>3 DEF Values, PickOf
    <3>6. PICK j \in 1 .. Len(PickList) : PickList[j] = PickRow(r)
      <4> HIDE DEF S
      <4>1. QED
        BY <2>1, <3>5 DEF Values
    <3>7. PickList[1].left <= PickRow(r).left
      BY <2>1, <3>6
    <3>8. PickList[1].left \in Int /\ Left(q) \in Int
      BY <1>2, <2>3, <2>4, <2>5
    <3>9. QED
      BY ONLY <3>4, <3>7, <3>8
  <2>8. \A y \in T : PickList[1].left <= y
    BY <2>6, <2>7
  <2> HIDE DEF T
  <2>9. Min(T) = PickList[1].left
    BY <1>3, <2>6, <2>8, MinIs
  <2>10. QED
    BY <1>1, <2>9
<1>7. QED
  BY <1>5, <1>6

\* The tiles and the pick list tell the same.
LEMMA ViewsHold == BookInv => ViewsAgree
<1> SUFFICES ASSUME BookInv PROVE ViewsAgree
  OBVIOUS
<1>1. SumFunction([k \in DOMAIN PickList |-> PickList[k].qty]) = Tiles.items
  BY PiecesAgree
<1>2. (PickList = <<>>) = (Tiles.orders = 0)
  BY EmptyAgree
<1>3. ASSUME PickList # <<>>
      PROVE  /\ PickList[1].left = Tiles.earliest
             /\ (PickNote(PickList[1]) = "past deadline") = (NextDeadline = "expired")
  <2>1. PickList[1].left = Tiles.earliest
    BY <1>3, DeadlinesAgree
  <2>2. NextDeadline = Urgency(Tiles.earliest)
    BY <1>2, <1>3 DEF NextDeadline
  <2>3. PickNote(PickList[1]) = IF Urgency(Tiles.earliest) = "expired" THEN "past deadline" ELSE Urgency(Tiles.earliest)
    BY <2>1, Zenon DEF PickNote
  <2>4. Urgency(Tiles.earliest) # "past deadline"
    BY DEF Urgency
  <2>5. QED
    BY <2>1, <2>2, <2>3, <2>4
<1>4. ASSUME Cardinality({o \in Sales : book[o] # Absent}) <= PageRows,
             NEW o \in SalesIn({"Funded", "PartiallyShipped"})
      PROVE  Tiles.earliest <= Left(o)
  <2> DEFINE there == {q \in Sales : book[q] # Absent}
  <2>1. there \in SUBSET Sales
    OBVIOUS
  <2>2. o \in there /\ book[o].status \in {"Funded", "PartiallyShipped"}
    BY DEF SalesIn, Absent
  <2>3. ToSet(Orders1) = there
    <3>1. Orders1 = PageOf(there) /\ Cardinality(there) <= PageRows
      BY <1>4 DEF Orders1
    <3> HIDE DEF there
    <3>2. QED
      BY <2>1, <3>1, PageHas
  <2>4. o \in ToShip
    BY <2>2, <2>3 DEF ToShip
  <2>5. QED
    BY <2>4, DeadlinesAgree
<1>5. QED
  BY <1>1, <1>2, <1>3, <1>4 DEF ViewsAgree

\* What the dashboard makes of the orders is true, and the two parts that fold them agree: the
\* summary adds up, a seller told to be all caught up is, and the tiles and the pick list tell the
\* same.
THEOREM LedgerFiguresAgree == LedgerSpec => []FiguresAgree
<1>1. LedgerInit => BookInv
  BY BookStarts DEF LedgerInit, StandaloneInit
<1>2. BookInv /\ [LedgerNext]_ledgerVars => BookInv'
  BY LedgerStep, BookStep
<1>3. BookInv => FiguresAgree
  BY RevenueHolds, CaughtUpHolds, ViewsHold DEF FiguresAgree
<1>4. QED
  BY <1>1, <1>2, <1>3, PTL DEF LedgerSpec, ledgerVars
-------------------------------------------------------------------------------
(***************************************************************************)
(* All accounts together.                                                  *)
(***************************************************************************)
\* The record of a seller earns the badge and the score, whatever else the ledger does.
THEOREM LedgerReputationIsSound == LedgerSpec => []ReputationIsSound
<1>1. LedgerInit => ReputationInv
  BY ReputationInitInv DEF LedgerInit, StandaloneInit
<1>2. ReputationInv /\ [LedgerNext]_ledgerVars => ReputationInv'
  BY LedgerStep, ReputationStepInv
<1>3. ReputationInv => ReputationIsSound
  BY ScoreMoves DEF ReputationInv, ReputationIsSound
<1>4. QED
  BY <1>1, <1>2, <1>3, PTL DEF LedgerSpec, ledgerVars

\* The record of a seller earns the badge and the score; what the dashboard says of the orders,
\* of the new ones and of the products is true, and it says it once; and the marketplace shows
\* what the buyer has chosen, of every filter: whichever account a behaviour is about.
THEOREM LedgerRecordsAreSound == LedgerSpec => []RecordsAreSound
<1>1. (FiguresAgree /\ AlertsAreSound /\ ListIsSound /\ ReputationIsSound /\ MarketPageIsSound)
        => RecordsAreSound
  BY DEF RecordsAreSound
<1>2. QED
  BY <1>1, LedgerFiguresAgree, LedgerAlertsAreSound, LedgerListIsSound, LedgerReputationIsSound,
     LedgerMarketPageIsSound, PTL
===============================================================================
