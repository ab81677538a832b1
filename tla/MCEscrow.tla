------------------------------ MODULE MCEscrow ------------------------------
(***************************************************************************)
(* Instances of EtaloEscrow for TLC.  Amounts are a few units with a       *)
(* denominator of 100, times a few ticks in the proportions of the         *)
(* contract's durations.                                                   *)
(***************************************************************************)
EXTENDS EtaloEscrow, TLC

MCBuyers == {"buyer"}
MCSellers == {"seller"}

\* One order of two items: the last one absorbs the dust.
OneOrder == {"o1"}
TwoItems == {"a", "b"}
OneOrderBuyer == [o \in OneOrder |-> "buyer"]
OneOrderSeller == [o \in OneOrder |-> "seller"]
OneOrderOf == [i \in TwoItems |-> "o1"]
OneOrderLast == [o \in OneOrder |-> "b"]
OneOrderPrice == "a" :> 2 @@ "b" :> 1
===============================================================================
