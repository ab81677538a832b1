---------------------------- MODULE MCOrderDesk ----------------------------
(* One order of two items on one screen, one transaction under way at a time. *)
EXTENDS OrderDesk

CONSTANTS o, i1, i2

TwoItems == {i1, i2}
MCOrderOf == [i \in TwoItems |-> o]
MCItemOrder == <<i1, i2>>
=============================================================================
