------------------------------ MODULE MCCheckout ------------------------------
(***************************************************************************)
(* Instances of Checkout for TLC: two products of two sellers.             *)
(***************************************************************************)
EXTENDS Checkout, TLC

TwoAccounts == {"a", "b"}
TwoGroups == <<"p", "q">>
TwoOfTheFirst == [p |-> 2, q |-> 1]
===============================================================================
