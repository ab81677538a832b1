----------------------------- MODULE ItemCustody -----------------------------
(***************************************************************************)
(* What the escrow promises of the USDT of each item: it is taken in once, *)
(* it stays whole while it is held, and it leaves once, split between the  *)
(* seller, the treasury and the buyer without creating or losing any.      *)
(*                                                                         *)
(* Nothing here says who decides or when: confirmations, timers, disputes, *)
(* votes and forced refunds are all Settle steps.                          *)
(***************************************************************************)
EXTENDS Integers

CONSTANTS Items, Price

VARIABLES custody, toSeller, toTreasury, toBuyer

custodyVars == <<custody, toSeller, toTreasury, toBuyer>>

Stage == {"outside", "held", "settled"}

Init ==
    /\ custody = [i \in Items |-> "outside"]
    /\ toSeller = [i \in Items |-> 0]
    /\ toTreasury = [i \in Items |-> 0]
    /\ toBuyer = [i \in Items |-> 0]

\* The items of S come in together.
Deposit(S) ==
    /\ \A i \in S : custody[i] = "outside"
    /\ custody' = [i \in Items |-> IF i \in S THEN "held" ELSE custody[i]]
    /\ UNCHANGED <<toSeller, toTreasury, toBuyer>>

\* The items of S leave together, each fully paid out.
Settle(S) ==
    /\ \A i \in S : custody[i] = "held"
    /\ custody' = [i \in Items |-> IF i \in S THEN "settled" ELSE custody[i]]
    /\ \A i \in S : /\ toSeller'[i] >= 0 /\ toTreasury'[i] >= 0 /\ toBuyer'[i] >= 0
                    /\ toSeller'[i] + toTreasury'[i] + toBuyer'[i] = Price[i]
    /\ \A i \in Items \ S : /\ toSeller'[i] = toSeller[i]
                            /\ toTreasury'[i] = toTreasury[i]
                            /\ toBuyer'[i] = toBuyer[i]

Next == \E S \in SUBSET Items : Deposit(S) \/ Settle(S)

Spec == Init /\ [][Next]_custodyVars
===============================================================================
