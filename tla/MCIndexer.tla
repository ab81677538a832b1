------------------------------ MODULE MCIndexer ------------------------------
(***************************************************************************)
(* Instances of Indexer for TLC: one order of two items.                   *)
(***************************************************************************)
EXTENDS Indexer, TLC

OneOrder == {"o1"}
TwoItems == {"a", "b"}
OneItem == {"a"}
OneOrderOf == [i \in TwoItems |-> "o1"]
OneItemOf == [i \in OneItem |-> "o1"]
===============================================================================
