----------------------------- MODULE EtaloDispute -----------------------------
(***************************************************************************)
(* EtaloDispute.sol: disputes over single items in three levels, from the  *)
(* parties' agreement (N1) through a mediator (N2) to a vote (N3).         *)
(*                                                                         *)
(* An action is a whole transaction, the calls it makes to the escrow, the *)
(* stake and the voting contract included: a revert in any of them undoes  *)
(* it all.  _disputeByItem is never reset, so an item is disputed at most  *)
(* once and a dispute is named by its item.  The calls to the reputation   *)
(* contract only count and never revert; they are left out.                *)
(***************************************************************************)
EXTENDS EtaloEscrow, EtaloStake, EtaloVoting

CONSTANTS
    N1_DURATION, N2_DURATION, N3_VOTING_PERIOD,
    NoMediator,           \* address(0)
    NoProposal,           \* N1Proposal with its flag unset
    Rewirable,            \* the references the owner changes in operation
    MaxSlash              \* bound on the slash a mediator rules

Contracts == {"escrow", "stake", "voting"}

ASSUME DisputeAssumption ==
    /\ N1_DURATION \in Nat /\ N2_DURATION \in Nat
    /\ N3_VOTING_PERIOD \in Nat \ {0}
    /\ NoMediator \notin Mediators
    /\ NoProposal \notin Nat
    /\ Rewirable \subseteq Contracts
    /\ MaxSlash \in Nat

VARIABLES
    level,                \* Dispute.level; "None" before the dispute is opened
    n1Deadline,           \* Dispute.n1Deadline
    n2Deadline,           \* Dispute.n2Deadline
    n2Mediator,           \* Dispute.n2Mediator
    refundRuled,          \* Dispute.refundAmount, final on resolution
    slashRuled,           \* Dispute.slashAmount, final on resolution
    buyerProposal,        \* N1Proposal.buyerAmount, NoProposal before the first
    sellerProposal,       \* N1Proposal.sellerAmount
    activeDisputes,       \* _activeDisputesBySeller
    approvedMediators,    \* isMediatorApproved, and the content of _mediatorsList
    assignedLog,          \* the MediatorAssigned events of each dispute
    wired                 \* the contract references that are not address(0)

rulingVars   == <<refundRuled, slashRuled>>
proposalVars == <<buyerProposal, sellerProposal>>
registryVars == <<approvedMediators, wired>>
mediationVars == <<n2Mediator, assignedLog>>
deadlineVars == <<n1Deadline, n2Deadline>>
disputeVars  == <<level, deadlineVars, mediationVars, rulingVars, proposalVars,
                  activeDisputes, registryVars>>

DisputeLevel == {"None", "N1", "N2", "N3", "Resolved"}

DisputeTypeOK ==
    /\ level \in [Items -> DisputeLevel]
    /\ n1Deadline \in [Items -> Nat]
    /\ n2Deadline \in [Items -> Nat]
    /\ n2Mediator \in [Items -> Mediators \cup {NoMediator}]
    /\ refundRuled \in [Items -> Nat]
    /\ slashRuled \in [Items -> Nat]
    /\ buyerProposal \in [Items -> Nat \cup {NoProposal}]
    /\ sellerProposal \in [Items -> Nat \cup {NoProposal}]
    /\ activeDisputes \in [Sellers -> Nat]
    /\ approvedMediators \subseteq Mediators
    /\ assignedLog \in [Items -> SUBSET Mediators]
    /\ wired \subseteq Contracts

\* The deployment scripts set the three references before the first order.
DisputeInit ==
    /\ level = [i \in Items |-> "None"]
    /\ n1Deadline = [i \in Items |-> 0]
    /\ n2Deadline = [i \in Items |-> 0]
    /\ n2Mediator = [i \in Items |-> NoMediator]
    /\ refundRuled = [i \in Items |-> 0]
    /\ slashRuled = [i \in Items |-> 0]
    /\ buyerProposal = [i \in Items |-> NoProposal]
    /\ sellerProposal = [i \in Items |-> NoProposal]
    /\ activeDisputes = [s \in Sellers |-> 0]
    /\ approvedMediators = {}
    /\ assignedLog = [i \in Items |-> {}]
    /\ wired = Contracts
-------------------------------------------------------------------------------
Seller(i) == SellerOf[OrderOf[i]]

DisputeOpen(i) == level[i] \in {"N1", "N2", "N3"}

(***************************************************************************)
(* Entry points of the owner.                                              *)
(***************************************************************************)
SetContract(contract, isSet) ==
    /\ contract \in Rewirable
    /\ wired' = IF isSet THEN wired \cup {contract} ELSE wired \ {contract}
    /\ UNCHANGED <<level, deadlineVars, mediationVars, rulingVars, proposalVars,
                   activeDisputes, approvedMediators>>
    /\ UNCHANGED <<vars, stakeVars, votingVars>>

\* The swap-and-pop keeps _mediatorsList a list of the approved, each once.
ApproveMediator(med, approved) ==
    /\ approvedMediators' = IF approved THEN approvedMediators \cup {med}
                                        ELSE approvedMediators \ {med}
    /\ UNCHANGED <<level, deadlineVars, mediationVars, rulingVars, proposalVars,
                   activeDisputes, wired>>
    /\ UNCHANGED <<vars, stakeVars, votingVars>>

\* Mutant: a mediator may still be assigned once the vote is on.
AssignableUntilResolved(i) == DisputeOpen(i)

Assignable(i) == level[i] = "N2"

AssignN2Mediator(i, med) ==
    /\ Assignable(i)
    /\ med \in approvedMediators
    /\ n2Mediator' = [n2Mediator EXCEPT ![i] = med]
    /\ assignedLog' = [assignedLog EXCEPT ![i] = @ \cup {med}]
    /\ UNCHANGED <<level, deadlineVars, rulingVars, proposalVars, activeDisputes,
                   registryVars>>
    /\ UNCHANGED <<vars, stakeVars, votingVars>>
-------------------------------------------------------------------------------
(***************************************************************************)
(* Opening and escalation.                                                 *)
(***************************************************************************)
\* Mutant: opening a dispute does not freeze the seller's withdrawal.
FreezeSellerNever(i) == UNCHANGED stakeVars

FreezeSeller(i) ==
    IF "stake" \in wired THEN PauseWithdrawal(Seller(i)) ELSE UNCHANGED stakeVars

OpenDispute(i) ==
    /\ "escrow" \in wired
    /\ level[i] = "None"
    /\ level' = [level EXCEPT ![i] = "N1"]
    /\ n1Deadline' = [n1Deadline EXCEPT ![i] = now + N1_DURATION]
    /\ activeDisputes' = [activeDisputes EXCEPT ![Seller(i)] = @ + 1]
    /\ MarkItemDisputed(i)
    /\ FreezeSeller(i)
    /\ UNCHANGED <<n2Deadline, mediationVars, rulingVars, proposalVars, registryVars,
                   votingVars>>

\* Before the deadline of a level only the buyer may leave it.
Callers == {"buyer", "anyone"}

MayEscalate(caller, levelDeadline) == caller = "buyer" \/ now >= levelDeadline

EscalateToMediation(i, caller) ==
    /\ level[i] = "N1"
    /\ MayEscalate(caller, n1Deadline[i])
    /\ level' = [level EXCEPT ![i] = "N2"]
    /\ n2Deadline' = [n2Deadline EXCEPT ![i] = now + N2_DURATION]
    /\ UNCHANGED <<n1Deadline, mediationVars, rulingVars, proposalVars, activeDisputes,
                   registryVars>>
    /\ UNCHANGED <<vars, stakeVars, votingVars>>

\* Mutant: the assigned mediator votes too.
EligibleVotersAll(i) == approvedMediators

\* The approved mediators but the one assigned last.
EligibleVoters(i) == approvedMediators \ {n2Mediator[i]}

EscalateToVoting(i, caller) ==
    /\ level[i] = "N2"
    /\ MayEscalate(caller, n2Deadline[i])
    /\ "voting" \in wired
    /\ level' = [level EXCEPT ![i] = "N3"]
    /\ CreateVote(i, EligibleVoters(i), N3_VOTING_PERIOD)
    /\ UNCHANGED <<deadlineVars, mediationVars, rulingVars, proposalVars, activeDisputes,
                   registryVars>>
    /\ UNCHANGED <<vars, stakeVars>>
-------------------------------------------------------------------------------
(***************************************************************************)
(* Resolution.                                                             *)
(***************************************************************************)
\* Mutant: a resolution without a slash leaves the freeze in place.
UnfreezeSellerLeak(i, slash) ==
    IF "stake" \in wired /\ slash > 0 THEN ResumeAndSlash(Seller(i), slash)
    ELSE UNCHANGED stakeVars

UnfreezeSeller(i, slash) ==
    IF "stake" \in wired THEN ResumeAndSlash(Seller(i), slash) ELSE UNCHANGED stakeVars

\* _applyResolution.  Without a stake contract the slash is recorded, not applied.
ApplyResolution(i, refund, slash) ==
    /\ "escrow" \in wired
    /\ level' = [level EXCEPT ![i] = "Resolved"]
    /\ refundRuled' = [refundRuled EXCEPT ![i] = refund]
    /\ slashRuled' = [slashRuled EXCEPT ![i] = slash]
    /\ ResolveItemDispute(i, refund)
    /\ UnfreezeSeller(i, slash)
    /\ activeDisputes[Seller(i)] > 0
    /\ activeDisputes' = [activeDisputes EXCEPT ![Seller(i)] = @ - 1]
    /\ UNCHANGED <<deadlineVars, mediationVars, registryVars>>

\* Mutant: two proposals match whatever their amounts.
ProposalsMeet(buyerAmount, sellerAmount) ==
    buyerAmount # NoProposal /\ sellerAmount # NoProposal

ProposalsMatch(buyerAmount, sellerAmount) ==
    buyerAmount # NoProposal /\ buyerAmount = sellerAmount

\* A party replaces its proposal; if the two now match the dispute is resolved in
\* the same transaction, and a failing resolution takes the proposal back.
ResolveN1Amicable(i, byBuyer, refund) ==
    /\ level[i] = "N1"
    /\ IF byBuyer
       THEN buyerProposal' = [buyerProposal EXCEPT ![i] = refund] /\ UNCHANGED sellerProposal
       ELSE sellerProposal' = [sellerProposal EXCEPT ![i] = refund] /\ UNCHANGED buyerProposal
    /\ IF ProposalsMatch(buyerProposal'[i], sellerProposal'[i])
       THEN ApplyResolution(i, refund, 0)
       ELSE /\ UNCHANGED <<level, deadlineVars, mediationVars, rulingVars, activeDisputes,
                           registryVars>>
            /\ UNCHANGED <<vars, stakeVars>>
    /\ UNCHANGED votingVars

\* By the assigned mediator, who need not be approved any more.
ResolveN2Mediation(i, refund, slash) ==
    /\ n2Mediator[i] # NoMediator
    /\ level[i] = "N2"
    /\ ApplyResolution(i, refund, slash)
    /\ UNCHANGED <<proposalVars, votingVars>>

\* finalizeVote and its callback resolveFromVote: a buyer who wins gets all that is
\* left in escrow.
FinalizeAndResolve(i) ==
    /\ "voting" \in wired
    /\ level[i] = "N3"
    /\ FinalizeVote(i)
    /\ ApplyResolution(i, IF i \in buyerWon' THEN RemainingInEscrow(i) ELSE 0, 0)
    /\ UNCHANGED proposalVars

\* Mutant: the tally is not read.
NoBallotsRead(i) == TRUE

NoBallots(i) == forBuyer[i] = 0 /\ forSeller[i] = 0

\* The deadline of the vote plays no part.
AdminForceCloseN3IfNoQuorum(i) ==
    /\ level[i] = "N3"
    /\ "voting" \in wired
    /\ NoBallots(i)
    /\ ApplyResolution(i, RemainingInEscrow(i), 0)
    /\ UNCHANGED <<proposalVars, votingVars>>
-------------------------------------------------------------------------------
CastBallot(i, voter, favorBuyer) ==
    /\ SubmitVote(i, voter, favorBuyer)
    /\ UNCHANGED <<vars, stakeVars, disputeVars>>

DisputeStep(i) ==
    \/ OpenDispute(i)
    \/ \E caller \in Callers : EscalateToMediation(i, caller) \/ EscalateToVoting(i, caller)
    \/ \E refund \in 0..PriceOf[i] :
          \/ \E byBuyer \in BOOLEAN : ResolveN1Amicable(i, byBuyer, refund)
          \/ \E slash \in 0..MaxSlash : ResolveN2Mediation(i, refund, slash)
    \/ \E med \in Mediators : AssignN2Mediator(i, med)
    \/ \E voter \in Mediators, favorBuyer \in BOOLEAN : CastBallot(i, voter, favorBuyer)
    \/ FinalizeAndResolve(i)
    \/ AdminForceCloseN3IfNoQuorum(i)

DisputeNext ==
    \/ \E i \in Items : DisputeStep(i)
    \/ \E med \in Mediators, approved \in BOOLEAN : ApproveMediator(med, approved)
    \/ \E contract \in Rewirable, isSet \in BOOLEAN : SetContract(contract, isSet)
===============================================================================
