---------------------------- MODULE EtaloProtocol ----------------------------
(***************************************************************************)
(* The on-chain protocol: escrow, dispute, voting and stake contracts, and *)
(* everything their users, mediators and owner may send them.  A step is   *)
(* one transaction or a tick of block time.                                *)
(*                                                                         *)
(* The dispute entry points of the escrow, which EtaloEscrow leaves free,  *)
(* are here the calls the dispute contract makes.                          *)
(***************************************************************************)
EXTENDS EtaloDispute

protocolVars == <<vars, stakeVars, votingVars, disputeVars>>

ProtocolInit == Init /\ StakeInit /\ VotingInit /\ DisputeInit

ProtocolNext ==
    \/ (EntryPoint \/ Advance) /\ UNCHANGED <<stakeVars, votingVars, disputeVars>>
    \/ (\E s \in Sellers : SellerStep(s)) /\ UNCHANGED <<vars, votingVars, disputeVars>>
    \/ DisputeNext

ProtocolSpec == ProtocolInit /\ [][ProtocolNext]_protocolVars

ProtocolTypeOK == TypeOK /\ StakeTypeOK /\ VotingTypeOK /\ DisputeTypeOK
-------------------------------------------------------------------------------
\* The dispute is open, and the escrow does not know of it.
Orphaned(i) == DisputeOpen(i) /\ itemStatus[i] # "Disputed"

\* The escrow's and the dispute contract's views of an item agree: it is Disputed exactly
\* while a dispute over it is open, and no confirmation, timer or automatic refund (ADR-031)
\* takes it out of one.  The one step that leaves a dispute open without its item is the
\* owner's forced refund of the order.
DisputedIffOpen ==
    /\ [](\A i \in Items : itemStatus[i] = "Disputed" => DisputeOpen(i))
    /\ \A i \in Items : ~Orphaned(i)
    /\ [][\A i \in Items : Orphaned(i)' => Orphaned(i) \/ ForceRefund(OrderOf[i])]_protocolVars

\* Who may decide the dispute over i as this step does: both parties at the same amount, the
\* assigned mediator, the count of the ballots, or the owner when there is no ballot to count.
\* Only a mediator slashes.
AgreedByParties(i) ==
    /\ level[i] = "N1" /\ slashRuled'[i] = 0
    /\ buyerProposal'[i] = refundRuled'[i] /\ sellerProposal'[i] = refundRuled'[i]

RuledByMediator(i) == level[i] = "N2" /\ n2Mediator[i] # NoMediator

DecidedByVote(i) ==
    /\ level[i] = "N3" /\ slashRuled'[i] = 0
    /\ i \in finalized' \ finalized /\ hasVoted[i] # {} /\ now >= deadline[i]
    /\ refundRuled'[i] = IF forBuyer[i] >= forSeller[i] THEN PriceOf[i] ELSE 0

ClosedByOwner(i) ==
    /\ level[i] = "N3" /\ slashRuled'[i] = 0
    /\ hasVoted[i] = {} /\ refundRuled'[i] = PriceOf[i]

\* A dispute is resolved by somebody entitled to at that moment, once and for all, and what
\* was decided is what the escrow pays the buyer: nothing is refunded on the item before or
\* after.
VerdictHasAuthority ==
    [][\A i \in Items : level'[i] = "Resolved" =>
          IF level[i] = "Resolved"
          THEN UNCHANGED <<refundRuled[i], slashRuled[i], itemStatus[i], refundedAmount[i]>>
          ELSE /\ AgreedByParties(i) \/ RuledByMediator(i) \/ DecidedByVote(i) \/ ClosedByOwner(i)
               /\ itemStatus'[i] \in TerminalItemStatus /\ refundedAmount'[i] = refundRuled'[i]
      ]_protocolVars

OpenDisputesOf(s) == {i \in Items : Seller(i) = s /\ DisputeOpen(i)}

\* A seller's withdrawal is frozen once per open dispute, so that the last resolution
\* and no other thaws it, and no resolution reverts for want of a freeze.
OneFreezePerOpenDispute ==
    \A s \in Sellers :
        /\ activeDisputes[s] = Cardinality(OpenDisputesOf(s))
        /\ "stake" \notin Rewirable => freezeCount[s] = Cardinality(OpenDisputesOf(s))

\* The mediator of a dispute does not sit in the vote over it.
MediatorDoesNotVote ==
    \A i \in Items : n2Mediator[i] \notin eligibility[i]

\* A vote is decided by the majority of its panel, every member of which voted at most once,
\* and the mediator assigned last, who has ruled or failed to, is not one of them.
PanelDecides == VoteFollowsBallots /\ MediatorDoesNotVote

\* A vote that is over never leaves its dispute stuck (ADR-054): somebody can count
\* it or, if nobody voted, the owner can close it.
FinishedVoteCanClose ==
    \A i \in Items :
        /\ level[i] = "N3" /\ now >= deadline[i]
        /\ itemStatus[i] = "Disputed"
        /\ disputeSet /\ treasurySet /\ wired = Contracts /\ "stake" \notin Rewirable
        => ENABLED (FinalizeAndResolve(i) \/ AdminForceCloseN3IfNoQuorum(i))

\* An item in dispute leaves the dispute only by its resolution, which closes both, or by
\* the owner's forced refund of its order.
OnlyResolutionEndsDispute ==
    [][\A i \in Items : DisputeOpen(i) /\ itemStatus[i] = "Disputed" =>
          \/ DisputeOpen(i)' /\ itemStatus'[i] = "Disputed"
          \/ level'[i] = "Resolved" /\ itemStatus'[i] \in TerminalItemStatus
          \/ ForceRefund(OrderOf[i]) /\ itemStatus'[i] = "Refunded"]_protocolVars

SlashedInMediation(s) ==
    \E i \in OpenDisputesOf(s) :
        /\ level[i] = "N2" /\ level'[i] = "Resolved"
        /\ slashRuled'[i] = stakes[s] - stakes'[s]

\* A seller whom a slash left without a tier deposits for a tier below the stake that
\* was left: the record shrinks, the balance does not (ADR-033).
ResidualOverwritten(s) == tiers[s] = None /\ tiers'[s] # None /\ usdt' > usdt

\* While one of a seller's disputes is open the stake is there to be slashed: nothing
\* but the slash a mediator rules is ever paid out of it.
StakeStaysForDisputes ==
    [][\A s \in Sellers :
          OpenDisputesOf(s) # {} /\ "stake" \notin Rewirable /\ stakes'[s] < stakes[s]
          => SlashedInMediation(s) \/ ResidualOverwritten(s)]_protocolVars
===============================================================================
