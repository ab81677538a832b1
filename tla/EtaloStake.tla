------------------------------ MODULE EtaloStake ------------------------------
(***************************************************************************)
(* EtaloStake.sol: the stake of the sellers in three tiers, its withdrawal *)
(* after a cooldown that disputes freeze, and the slash.                   *)
(*                                                                         *)
(* `usdt' is the contract's token balance.  A seller who deposits after a  *)
(* slash that emptied the tier overwrites the residual (ADR-033), so the   *)
(* balance may exceed the stakes on record.                                *)
(***************************************************************************)
EXTENDS EtaloClock, EtaloOrders

CONSTANTS
    TIER_1_STAKE, TIER_2_STAKE, TIER_3_STAKE,
    WITHDRAWAL_COOLDOWN,
    MaxActiveSales,       \* bound on the active sales of a seller
    MaxUsdt               \* bound on the balance: what the sellers can bring in

ASSUME StakeAssumption ==
    /\ TIER_1_STAKE \in Nat \ {0}
    /\ TIER_2_STAKE \in Nat /\ TIER_1_STAKE < TIER_2_STAKE
    /\ TIER_3_STAKE \in Nat /\ TIER_2_STAKE < TIER_3_STAKE
    /\ WITHDRAWAL_COOLDOWN \in Nat
    /\ MaxActiveSales \in Nat /\ MaxUsdt \in Nat

VARIABLES
    stakes,               \* _stakes
    tiers,                \* _tiers
    activeSales,          \* _activeSales
    freezeCount,          \* _freezeCount
    withdrawals,          \* _withdrawals
    usdt                  \* usdt.balanceOf(this)

stakeVars == <<stakes, tiers, activeSales, freezeCount, withdrawals, usdt>>

\* EtaloTypes.StakeTier, whose order the contract compares.
None == 0
Starter == 1
Established == 2
TopSeller == 3
StakeTier == None..TopSeller

WithdrawalState == [amount: Nat, targetTier: StakeTier, unlockAt: Nat,
                    frozenRemaining: Nat, active: BOOLEAN]

NoWithdrawal == [amount |-> 0, targetTier |-> None, unlockAt |-> 0,
                 frozenRemaining |-> 0, active |-> FALSE]

StakeTypeOK ==
    /\ stakes \in [Sellers -> Nat]
    /\ tiers \in [Sellers -> StakeTier]
    /\ activeSales \in [Sellers -> Nat]
    /\ freezeCount \in [Sellers -> Nat]
    /\ withdrawals \in [Sellers -> WithdrawalState]
    /\ usdt \in Nat

StakeInit ==
    /\ stakes = [s \in Sellers |-> 0]
    /\ tiers = [s \in Sellers |-> None]
    /\ activeSales = [s \in Sellers |-> 0]
    /\ freezeCount = [s \in Sellers |-> 0]
    /\ withdrawals = [s \in Sellers |-> NoWithdrawal]
    /\ usdt = 0
-------------------------------------------------------------------------------
TierAmount(tier) ==
    CASE tier = None -> 0
      [] tier = Starter -> TIER_1_STAKE
      [] tier = Established -> TIER_2_STAKE
      [] tier = TopSeller -> TIER_3_STAKE

\* Mutant: a slash leaves the tier one too high.
SupportedTierExclusive(amount) ==
    IF amount > TIER_2_STAKE THEN TopSeller
    ELSE IF amount > TIER_1_STAKE THEN Established
    ELSE IF amount > 0 THEN Starter ELSE None

\* The highest tier the amount covers.
SupportedTier(amount) ==
    IF amount >= TIER_3_STAKE THEN TopSeller
    ELSE IF amount >= TIER_2_STAKE THEN Established
    ELSE IF amount >= TIER_1_STAKE THEN Starter ELSE None

\* Mutant: a transfer that returns FALSE is taken for one that succeeded.
TransferInUnchecked(amount) ==
    /\ usdt + amount <= MaxUsdt
    /\ usdt' \in {usdt, usdt + amount}

TransferIn(amount) ==
    /\ usdt + amount <= MaxUsdt
    /\ usdt' = usdt + amount

TransferOut(amount) ==
    /\ amount \in 0..usdt
    /\ usdt' = usdt - amount

(***************************************************************************)
(* Entry points of the seller.  `eligible' is what the reputation contract *)
(* answers; the lower tiers do not ask it.                                 *)
(***************************************************************************)
MeetsTier(tier, eligible) == tier \in {Established, TopSeller} => eligible

DepositStake(s, tier, eligible) ==
    /\ tier # None
    /\ tiers[s] = None
    /\ MeetsTier(tier, eligible)
    /\ stakes' = [stakes EXCEPT ![s] = TierAmount(tier)]
    /\ tiers' = [tiers EXCEPT ![s] = tier]
    /\ TransferIn(TierAmount(tier))
    /\ UNCHANGED <<activeSales, freezeCount, withdrawals>>

\* What an upgrade costs: nothing if the stake already covers the new tier.
UpgradeDelta(s, newTier) ==
    IF TierAmount(newTier) > stakes[s] THEN TierAmount(newTier) - stakes[s] ELSE 0

UpgradeTier(s, newTier, eligible) ==
    /\ stakes[s] > 0
    /\ newTier > tiers[s]
    /\ ~withdrawals[s].active
    /\ MeetsTier(newTier, eligible)
    /\ stakes' = [stakes EXCEPT ![s] = @ + UpgradeDelta(s, newTier)]
    /\ tiers' = [tiers EXCEPT ![s] = newTier]
    /\ TransferIn(UpgradeDelta(s, newTier))
    /\ UNCHANGED <<activeSales, freezeCount, withdrawals>>

TopUpStake(s, amount) ==
    /\ amount > 0
    /\ stakes[s] > 0
    /\ ~withdrawals[s].active
    /\ stakes[s] + amount <= TIER_3_STAKE
    /\ stakes' = [stakes EXCEPT ![s] = @ + amount]
    /\ TransferIn(amount)
    /\ UNCHANGED <<tiers, activeSales, freezeCount, withdrawals>>

WithdrawnAmount(s, newTier) == stakes[s] - TierAmount(newTier)

\* A withdrawal that starts under a freeze keeps its whole cooldown pending.
InitiateWithdrawal(s, newTier) ==
    LET frozen == freezeCount[s] > 0
    IN  /\ stakes[s] > 0
        /\ newTier <= tiers[s]
        /\ activeSales[s] = 0
        /\ ~withdrawals[s].active
        /\ stakes[s] > TierAmount(newTier)
        /\ withdrawals' = [withdrawals EXCEPT ![s] =
               [amount          |-> WithdrawnAmount(s, newTier),
                targetTier      |-> newTier,
                unlockAt        |-> IF frozen THEN 0 ELSE now + WITHDRAWAL_COOLDOWN,
                frozenRemaining |-> IF frozen THEN WITHDRAWAL_COOLDOWN ELSE 0,
                active          |-> TRUE]]
        /\ UNCHANGED <<stakes, tiers, activeSales, freezeCount, usdt>>

\* The amount and the tier are those of the request, not of the present stake.
ExecuteWithdrawal(s) ==
    LET w == withdrawals[s]
    IN  /\ w.active
        /\ freezeCount[s] = 0
        /\ now >= w.unlockAt
        /\ w.amount \in 0..stakes[s]
        /\ stakes' = [stakes EXCEPT ![s] = @ - w.amount]
        /\ tiers' = [tiers EXCEPT ![s] = w.targetTier]
        /\ withdrawals' = [withdrawals EXCEPT ![s] = NoWithdrawal]
        /\ TransferOut(w.amount)
        /\ UNCHANGED <<activeSales, freezeCount>>

CancelWithdrawal(s) ==
    /\ withdrawals[s].active
    /\ withdrawals' = [withdrawals EXCEPT ![s] = NoWithdrawal]
    /\ UNCHANGED <<stakes, tiers, activeSales, freezeCount, usdt>>
-------------------------------------------------------------------------------
(***************************************************************************)
(* Entry points of the dispute contract.                                   *)
(***************************************************************************)
\* Mutant: every freeze captures the remaining cooldown, the second one too.
FirstFreezeAlways(s) == TRUE

FirstFreeze(s) == freezeCount[s] = 0

\* Mutant: the cooldown that ended before the freeze counts as negative.
CooldownLeftUnfloored(unlockAt) == unlockAt - now

\* What is left of the cooldown when the first freeze stops it.
CooldownLeft(unlockAt) == IF unlockAt > now THEN unlockAt - now ELSE 0

PauseWithdrawal(s) ==
    /\ withdrawals' = IF withdrawals[s].active /\ FirstFreeze(s)
           THEN [withdrawals EXCEPT ![s].frozenRemaining = CooldownLeft(withdrawals[s].unlockAt),
                                    ![s].unlockAt = 0]
           ELSE withdrawals
    /\ freezeCount' = [freezeCount EXCEPT ![s] = @ + 1]
    /\ UNCHANGED <<stakes, tiers, activeSales, usdt>>

\* Mutant: the first resolution restarts the cooldown.
LastFreezeAlways(s) == TRUE

LastFreeze(s) == freezeCount[s] = 1

Resumed(s) ==
    IF withdrawals[s].active /\ LastFreeze(s)
    THEN [withdrawals EXCEPT ![s].unlockAt = now + withdrawals[s].frozenRemaining,
                             ![s].frozenRemaining = 0]
    ELSE withdrawals

\* slashStake: the pending withdrawal, if there is one, is left as it is.
Slashed(s, amount) ==
    /\ amount \in 0..stakes[s]
    /\ stakes' = [stakes EXCEPT ![s] = @ - amount]
    /\ tiers' = [tiers EXCEPT ![s] = SupportedTier(stakes[s] - amount)]
    /\ TransferOut(amount)

\* What the resolution of a dispute does here, in one transaction: resumeWithdrawal,
\* then slashStake if the mediator ruled a slash.
ResumeAndSlash(s, amount) ==
    /\ freezeCount[s] > 0
    /\ freezeCount' = [freezeCount EXCEPT ![s] = @ - 1]
    /\ withdrawals' = Resumed(s)
    /\ IF amount > 0 THEN Slashed(s, amount) ELSE UNCHANGED <<stakes, tiers, usdt>>
    /\ UNCHANGED activeSales
-------------------------------------------------------------------------------
(***************************************************************************)
(* Entry points of the escrow, for its cross-border orders.                *)
(***************************************************************************)
IncrementActiveSales(s) ==
    /\ activeSales[s] < MaxActiveSales
    /\ activeSales' = [activeSales EXCEPT ![s] = @ + 1]
    /\ UNCHANGED <<stakes, tiers, freezeCount, withdrawals, usdt>>

DecrementActiveSales(s) ==
    /\ activeSales[s] > 0
    /\ activeSales' = [activeSales EXCEPT ![s] = @ - 1]
    /\ UNCHANGED <<stakes, tiers, freezeCount, withdrawals, usdt>>
-------------------------------------------------------------------------------
\* What a seller may send.
SellerStep(s) ==
    \/ \E tier \in StakeTier, eligible \in BOOLEAN :
          DepositStake(s, tier, eligible) \/ UpgradeTier(s, tier, eligible)
    \/ \E amount \in 1..TIER_3_STAKE : TopUpStake(s, amount)
    \/ \E newTier \in StakeTier : InitiateWithdrawal(s, newTier)
    \/ ExecuteWithdrawal(s)
    \/ CancelWithdrawal(s)

\* The stake contract alone, under any dispute contract and any escrow.
StakeStep(s) ==
    \/ SellerStep(s)
    \/ PauseWithdrawal(s)
    \/ \E amount \in 0..stakes[s] : ResumeAndSlash(s, amount)
    \/ IncrementActiveSales(s)
    \/ DecrementActiveSales(s)

StakeNext ==
    \/ (\E s \in Sellers : StakeStep(s)) /\ UNCHANGED now
    \/ Tick /\ UNCHANGED stakeVars

\* The stake contract with a clock of its own.  EtaloProtocol, where the clock is the
\* escrow's, implements it.
StandaloneInit == ClockInit /\ StakeInit

StakeSpec == StandaloneInit /\ [][StakeNext]_<<now, stakeVars>>
-------------------------------------------------------------------------------
\* The contract can always pay back every stake on record, whatever sequence of
\* upgrades, top-ups, slashes, overwriting deposits and withdrawals led there.
Solvent == usdt >= SumFunction(stakes)

\* A pending withdrawal is either frozen, with no unlock time and at most the whole
\* cooldown left, or running, with nothing captured.  The freezes of several
\* disputes on one seller start and end in any order.
FreezeConsistent ==
    \A s \in Sellers : withdrawals[s].active =>
        IF freezeCount[s] > 0
        THEN withdrawals[s].unlockAt = 0 /\ withdrawals[s].frozenRemaining <= WITHDRAWAL_COOLDOWN
        ELSE /\ withdrawals[s].frozenRemaining = 0
             /\ withdrawals[s].unlockAt \in Genesis..(now + WITHDRAWAL_COOLDOWN)

RemainingCooldown(s) ==
    LET w == withdrawals[s]
    IN  IF freezeCount[s] > 0 THEN w.frozenRemaining
        ELSE IF w.unlockAt > now THEN w.unlockAt - now ELSE 0

\* The cooldown of a pending withdrawal is neither shortened nor lengthened by the
\* disputes: it only runs down with time, while no dispute is open, and nothing is
\* paid before it is over.
CooldownRunsOnlyUnfrozen ==
    [][\A s \in Sellers : withdrawals[s].active =>
          IF withdrawals'[s].active
          THEN \/ RemainingCooldown(s)' = RemainingCooldown(s)
               \/ /\ RemainingCooldown(s)' < RemainingCooldown(s)
                  /\ freezeCount[s] = 0 /\ now' > now
          ELSE stakes'[s] < stakes[s] =>
               RemainingCooldown(s) = 0 /\ freezeCount[s] = 0]_<<now, stakeVars>>

Covered(s) == stakes[s] >= TierAmount(tiers[s])

\* A seller's tier is backed by the stake; the only step that takes the backing away
\* is the execution of a withdrawal that was requested before a slash.
OnlyLateWithdrawalUncovers ==
    [][\A s \in Sellers : Covered(s) /\ ~Covered(s)' =>
          /\ withdrawals[s].active /\ ~withdrawals'[s].active
          /\ withdrawals[s].amount > WithdrawnAmount(s, withdrawals[s].targetTier)]_<<now, stakeVars>>
===============================================================================
