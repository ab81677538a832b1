----------------------------- MODULE EtaloVoting -----------------------------
(***************************************************************************)
(* EtaloVoting.sol: the votes of the third dispute level.                  *)
(*                                                                         *)
(* A dispute is put to the vote at most once and an item is disputed at    *)
(* most once, so a vote is named by the item it is about.  A vote with     *)
(* deadline 0 does not exist.                                              *)
(***************************************************************************)
EXTENDS EtaloClock, EtaloOrders, FiniteSets

CONSTANT Mediators     \* the addresses the owner may approve as mediators

VARIABLES
    deadline,          \* Vote.deadline
    forBuyer,          \* Vote.forBuyer
    forSeller,         \* Vote.forSeller
    finalized,         \* the votes whose flag is set
    buyerWon,          \* the votes whose flag is set
    eligibility,       \* _eligibility: the voters of each vote
    hasVoted           \* _hasVoted: the voters who cast their ballot

tallyVars  == <<forBuyer, forSeller, hasVoted>>
votingVars == <<deadline, tallyVars, finalized, buyerWon, eligibility>>

VotingTypeOK ==
    /\ deadline \in [Items -> Nat]
    /\ forBuyer \in [Items -> Nat]
    /\ forSeller \in [Items -> Nat]
    /\ finalized \subseteq Items
    /\ buyerWon \subseteq Items
    /\ eligibility \in [Items -> SUBSET Mediators]
    /\ hasVoted \in [Items -> SUBSET Mediators]

VotingInit ==
    /\ deadline = [v \in Items |-> 0]
    /\ forBuyer = [v \in Items |-> 0]
    /\ forSeller = [v \in Items |-> 0]
    /\ finalized = {}
    /\ buyerWon = {}
    /\ eligibility = [v \in Items |-> {}]
    /\ hasVoted = [v \in Items |-> {}]

\* Called by the dispute contract, which keeps the new vote's id.
CreateVote(v, eligibleVoters, votingPeriod) ==
    /\ eligibleVoters # {}
    /\ votingPeriod > 0
    /\ deadline' = [deadline EXCEPT ![v] = now + votingPeriod]
    /\ eligibility' = [eligibility EXCEPT ![v] = eligibleVoters]
    /\ UNCHANGED <<tallyVars, finalized, buyerWon>>

VotingOpen(v) == deadline[v] > 0 /\ now < deadline[v]

\* Mutant: an eligible voter may vote again.
MayVoteAgain(v, voter) == voter \in eligibility[v]

MayVote(v, voter) == voter \in eligibility[v] \ hasVoted[v]

SubmitVote(v, voter, favorBuyer) ==
    /\ VotingOpen(v)
    /\ v \notin finalized
    /\ MayVote(v, voter)
    /\ hasVoted' = [hasVoted EXCEPT ![v] = @ \cup {voter}]
    /\ IF favorBuyer
       THEN forBuyer' = [forBuyer EXCEPT ![v] = @ + 1] /\ UNCHANGED forSeller
       ELSE forSeller' = [forSeller EXCEPT ![v] = @ + 1] /\ UNCHANGED forBuyer
    /\ UNCHANGED <<deadline, finalized, buyerWon, eligibility>>

\* Mutant: one ballot is no quorum.
HasQuorumOfTwo(v) == forBuyer[v] + forSeller[v] > 1

HasQuorum(v) == forBuyer[v] + forSeller[v] > 0

\* Mutant: a tie goes to the seller.
BuyerWinsMajority(v) == forBuyer[v] > forSeller[v]

\* A tie goes to the buyer (ADR-022).
BuyerWins(v) == forBuyer[v] >= forSeller[v]

\* The callback to the dispute contract is conjoined by the caller of this action.
FinalizeVote(v) ==
    /\ deadline[v] > 0
    /\ now >= deadline[v]
    /\ v \notin finalized
    /\ HasQuorum(v)
    /\ buyerWon' = IF BuyerWins(v) THEN buyerWon \cup {v} ELSE buyerWon
    /\ finalized' = finalized \cup {v}
    /\ UNCHANGED <<deadline, tallyVars, eligibility>>
-------------------------------------------------------------------------------
\* A decided vote was decided by all the ballots that were ever cast: each by a
\* different eligible voter, none after the count, and by one voter at least.
VoteFollowsBallots ==
    \A v \in Items :
        /\ forBuyer[v] + forSeller[v] = Cardinality(hasVoted[v])
        /\ hasVoted[v] \subseteq eligibility[v]
        /\ v \in finalized =>
              /\ hasVoted[v] # {}
              /\ v \in buyerWon <=> forBuyer[v] >= forSeller[v]
===============================================================================
