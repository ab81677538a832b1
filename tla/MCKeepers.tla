------------------------------ MODULE MCKeepers ------------------------------
(***************************************************************************)
(* Instances of Keepers for TLC: an order of two items.                    *)
(***************************************************************************)
EXTENDS Keepers, TLC

OneOrder == {"o1"}
TwoItems == {"a", "b"}
OneOrderOf == [i \in TwoItems |-> "o1"]
OldestFirst == "a" :> 1 @@ "b" :> 2
OnlyOrder == "o1" :> 1
===============================================================================
