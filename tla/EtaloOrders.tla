----------------------------- MODULE EtaloOrders -----------------------------
(***************************************************************************)
(* The orders, items and parties the on-chain modules share.               *)
(*                                                                         *)
(* Orders and items are the ids the escrow will hand out.  Who buys what   *)
(* from whom at which price is calldata of createOrderWithItems, fixed     *)
(* here by constant functions, one value per behaviour of the program.     *)
(***************************************************************************)
EXTENDS Integers, FiniteSets, Functions

CONSTANTS
    Orders, Items, Buyers, Sellers,
    BuyerOf, SellerOf,      \* the parties of an order
    OrderOf,                \* the order of an item
    LastItemOf,             \* the last item of an order, which absorbs the dust
    PriceOf                 \* the price of an item

ItemsOf(o) == {i \in Items : OrderOf[i] = o}

TotalAmount(o) == SumFunctionOnSet(PriceOf, ItemsOf(o))

ASSUME PartiesAssumption ==
    /\ BuyerOf \in [Orders -> Buyers]
    /\ SellerOf \in [Orders -> Sellers]
    /\ OrderOf \in [Items -> Orders]
    /\ LastItemOf \in [Orders -> Items]
    /\ \A o \in Orders : LastItemOf[o] \in ItemsOf(o)

\* Items are numbered by a uint256 and sellers by their addresses.
ASSUME FinitenessAssumption == IsFiniteSet(Items) /\ IsFiniteSet(Sellers)
===============================================================================
