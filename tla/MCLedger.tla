------------------------------ MODULE MCLedger ------------------------------
(***************************************************************************)
(* Accounts that share nothing: the arithmetic of the commission           *)
(* (EtaloCommission), the stakes (EtaloStake), the record of the sellers   *)
(* (EtaloReputation), what a seller's dashboard makes of the orders and of *)
(* the products (SellerFigures) and of new orders (SellerAlerts), and the  *)
(* page of the marketplace (MarketPage).  A behaviour walks through one of *)
(* them, chosen at the beginning, with the others at rest.                 *)
(***************************************************************************)
EXTENDS EtaloStake, EtaloReputation, EtaloCommission, FiniteSets, SellerFigures, SellerAlerts, MarketPage

(***************************************************************************)
(* The commission arithmetic over every order of three items with prices   *)
(* up to MaxPrice, at every rate of Rates, and over every dispute refund   *)
(* of every item: a walk through the price vectors, one unit at a time.    *)
(* Three items are the fewest for which the dust of the division can be    *)
(* more than the last item's price.                                        *)
(***************************************************************************)
CONSTANTS
    MaxPrice,   \* bound on the prices
    Rates       \* commission rates, in units of 1 / BPS_DENOMINATOR

ASSUME WalkAssumption == MaxPrice \in Nat \ {0} /\ Rates # {} /\ Rates \subseteq 0 .. BPS_DENOMINATOR

VARIABLES price, bps

OrderItems == 1..3
LastIndex == 3

WalkInit ==
    /\ price = [i \in OrderItems |-> 1]
    /\ bps \in Rates

WalkNext ==
    /\ \E i \in OrderItems : price[i] < MaxPrice /\ price' = [price EXCEPT ![i] = @ + 1]
    /\ UNCHANGED bps

Total == SumFunction(price)
TotalCommission == CalculateCommission(Total, bps)
Split == SplitCommission(OrderItems, price, LastIndex, TotalCommission)

\* For every price vector and rate tried, the split of the order's commission is sound:
\* every release and every verdict can pay its item's share, and the shares make up the
\* commission.
SplitIsSound == SoundSplit(OrderItems, price, Split, TotalCommission)
-------------------------------------------------------------------------------
CONSTANT MaxFreezes  \* bound on the disputes that freeze a seller at once

VARIABLE account

walkVars == <<price, bps>>

LedgerInit ==
    /\ account \in {"commission", "stake", "figures", "alerts", "bell", "products", "market", "reputation"}
    /\ StandaloneInit /\ WalkInit /\ (account # "commission" => bps = CHOOSE r \in Rates : TRUE)
    /\ BookInit /\ AlertsInit /\ ListInit /\ PageInit /\ ReputationInit
    /\ account # "market" => params.country = "all"

\* Every price has been tried.
WalkOver == (\A i \in OrderItems : price[i] = MaxPrice) /\ UNCHANGED walkVars

\* The buyer has made all choices, and they have arrived.
VisitOver == choices = MaxChoices /\ AtRest /\ UNCHANGED pageVars

Walks ==
    /\ account = "commission" /\ (WalkNext \/ WalkOver)
    /\ UNCHANGED <<now, stakeVars, book, dashVars, listVars, pageVars, reputations>>
Stakes ==
    /\ account = "stake" /\ StakeNext /\ \A s \in Sellers : freezeCount'[s] <= MaxFreezes
    /\ UNCHANGED <<walkVars, book, dashVars, listVars, pageVars, reputations>>
Figures == account = "figures" /\ BookNext /\ UNCHANGED <<walkVars, stakeVars, dashVars, listVars, pageVars, reputations>>
HearsOfOrders ==
    /\ (account = "alerts" /\ AlertsNext) \/ (account = "bell" /\ BellNext)
    /\ UNCHANGED <<walkVars, stakeVars, book, listVars, pageVars, reputations>>
Lists == account = "products" /\ ListNext /\ UNCHANGED <<walkVars, now, stakeVars, book, dashVars, pageVars, reputations>>
Browses ==
    /\ account = "market" /\ (MarketPageNext \/ VisitOver)
    /\ UNCHANGED <<walkVars, now, stakeVars, book, dashVars, listVars, reputations>>

Careers ==
    /\ account = "reputation" /\ ReputationNext
    /\ UNCHANGED <<walkVars, stakeVars, book, dashVars, listVars, pageVars>>

LedgerNext == UNCHANGED account /\ (Walks \/ Stakes \/ Figures \/ HearsOfOrders \/ Lists \/ Browses \/ Careers)

LedgerSpec == LedgerInit /\ [][LedgerNext]_<<account, walkVars, now, stakeVars, book, dashVars, listVars, pageVars, reputations>>

\* The orders play no part in the stakes: one of each is enough to give the sellers their constants.
MCOrders == {"o1"}
MCItems == {"a"}
MCBuyers == {"buyer"}
MCSellers == {"seller"}
MCBuyerOf == [o \in MCOrders |-> "buyer"]
MCSellerOf == [o \in MCOrders |-> "seller"]
MCOrderOf == [i \in MCItems |-> "o1"]
MCLastItemOf == [o \in MCOrders |-> "a"]
MCPriceOf == [i \in MCItems |-> 1]

\* Two orders, of 1 and of 2 units; the first has two products, one of them twice, the second none.
MCAmountOf == [o \in {"s1", "s2"} |-> IF o = "s1" THEN 1 ELSE 2]
MCCartOf == [o \in {"s1", "s2"} |-> IF o = "s1" THEN <<"x", "y", "x">> ELSE <<>>]
MCPriceAt == [p \in {1, 2} |-> 3 - p]
MCHits == [t \in {"a"} |-> {2, 3}]
\* Three shops: x, abroad, with a sale; y, a top seller, with two products; z, without a sale.
MCAbout ==
    [w \in 1 .. 4 |->
        LET shop == <<"x", "y", "y", "z">>[w]
        IN  [country |-> IF shop = "x" THEN "away" ELSE "home", category |-> IF w < 3 THEN "food" ELSE "other",
             seller |-> shop, top |-> (shop = "y"), sold |-> (CASE shop = "x" -> 1 [] shop = "y" -> 2 [] OTHER -> 0),
             score |-> 1, recent |-> (w > 2)]]

\* The record of a seller earns the badge and the score; what the dashboard says of the orders and
\* the products is true, and it says it once; the marketplace shows what the buyer has chosen, of
\* every filter.
RecordsAreSound ==
    /\ account = "figures" => FiguresAgree
    /\ account \in {"alerts", "bell"} => AlertsAreSound
    /\ account = "products" => ListIsSound
    /\ account = "reputation" => ReputationIsSound
    /\ account = "market" => MarketPageIsSound
===============================================================================
