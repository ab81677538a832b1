------------------------------ MODULE MCProtocol ------------------------------
(***************************************************************************)
(* Instances of EtaloProtocol for TLC.                                     *)
(***************************************************************************)
EXTENDS EtaloProtocol, TLC

MCBuyers == {"buyer"}
MCSellers == {"seller"}
MCOrders == {"o1"}
MCBuyerOf == [o \in MCOrders |-> "buyer"]
MCSellerOf == [o \in MCOrders |-> "seller"]

\* One order of one item.
OneItem == {"a"}
OneItemOrder == [i \in OneItem |-> "o1"]
OneItemLast == [o \in MCOrders |-> "a"]
OneItemPrice == [i \in OneItem |-> 1]

\* Bound on the owner: no emergency pause, which escrow_order explores, and the
\* treasury is set before the first order.
OwnerNeverPauses ==
    /\ pausedUntil = 0
    /\ \A o \in Orders : orderStatus[o] # "None" => treasurySet
\* The mediators of an instance are interchangeable.
AnyMediator == Permutations(Mediators)

Seen == approvedMediators \cup UNION {assignedLog[i] \cup eligibility[i] : i \in Items}

\* Bound: a panel of more than one mediator decides disputes taken straight to mediation, of a
\* seller without a stake, on contracts that stay as they were wired.
PanelInQuietTimes ==
    Cardinality(Seen) > 1 =>
        /\ \A i \in Items : buyerProposal[i] = NoProposal /\ sellerProposal[i] = NoProposal
        /\ \A s \in Sellers : stakes[s] = 0
        /\ legalHoldRegistry = {} /\ wired = Contracts
        /\ \A o \in Orders : orderStatus[o] # "None" => disputeSet
===============================================================================
