--------------------------- MODULE EtaloCommission ---------------------------
(***************************************************************************)
(* The fixed-point commission arithmetic of EtaloEscrow.sol, in integers:  *)
(* the commission of an order, its pro-rata split over the items with the  *)
(* dust on the last one, and the split of a disputed item's remainder.     *)
(***************************************************************************)
EXTENDS Integers, FiniteSets, Functions

CONSTANT BPS_DENOMINATOR

ASSUME BpsAssumption == BPS_DENOMINATOR \in Nat \ {0}

\* (amount * bps) / BPS_DENOMINATOR, rounded down.
CalculateCommission(amount, bps) == (amount * bps) \div BPS_DENOMINATOR

\* Mutant: every share is rounded up.
ProRataRoundedUp(part, whole, total) == (part * whole + total - 1) \div total

\* The part of `whole' that belongs to `part' out of `total', rounded down.
ProRata(part, whole, total) == (part * whole) \div total

\* Mutant: the split before the last item's commission was capped.
UncappedLastItemCommission(dust, lastPrice) == dust

\* Mutant: a dust that does not fit is waived.
WaivedLastItemCommission(dust, lastPrice) == IF dust > lastPrice THEN 0 ELSE dust

\* The dust the last item absorbs, capped at its price.
LastItemCommission(dust, lastPrice) == IF dust > lastPrice THEN lastPrice ELSE dust

(***************************************************************************)
(* Commission of each item of S: every item but the last gets its rounded  *)
(* share of `totalCommission', the last one what the others left.          *)
(***************************************************************************)
SplitCommission(S, price, last, totalCommission) ==
    LET total  == SumFunctionOnSet(price, S)
        share  == [i \in S |-> ProRata(price[i], totalCommission, total)]
        dust   == totalCommission - SumFunctionOnSet(share, S \ {last})
    IN  [share EXCEPT ![last] = LastItemCommission(dust, price[last])]
-------------------------------------------------------------------------------
(***************************************************************************)
(* What the split of a commission over the items of S must satisfy.        *)
(***************************************************************************)
\* No item is charged more than its price, whatever the dust: _releaseItemFully
\* computes itemPrice - itemCommission and would revert for ever otherwise.
CommissionWithinPrice(S, price, split) == \A i \in S : split[i] \in 0..price[i]

\* The items are never charged more than the order's commission, and the treasury
\* loses to the cap at most one unit for each item but the last two.
SplitAddsUp(S, split, totalCommission) ==
    LET charged == SumFunctionOnSet(split, S)
    IN  \/ charged = totalCommission
        \/ charged \in (totalCommission - (Cardinality(S) - 2))..totalCommission

\* A disputed item's remainder is never charged more than the item's commission,
\* the seller's share is not negative, and a dispute that ends without a refund
\* pays what a confirmation would have paid.
DisputeSharesWithinItem(price, commission) ==
    \A refund \in 0..price :
        LET share == ProRata(price - refund, commission, price)
        IN  /\ share \in 0..commission
            /\ share <= price - refund
            /\ refund = 0 => share = commission

\* The split of an order's commission is sound: every release and every verdict can pay its
\* item's share, and the shares make up the commission.
SoundSplit(S, price, split, totalCommission) ==
    /\ CommissionWithinPrice(S, price, split)
    /\ SplitAddsUp(S, split, totalCommission)
    /\ \A i \in S : DisputeSharesWithinItem(price[i], split[i])
===============================================================================
