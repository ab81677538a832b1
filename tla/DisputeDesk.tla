----------------------------- MODULE DisputeDesk -----------------------------
(***************************************************************************)
(* One dispute on the screens of those who decide it: the card of its two  *)
(* parties (N1ResolutionCard, EscalatedDisputeStatus), the console of the  *)
(* mediators (MediatorConsole, N2ResolutionForm) and the triage page of    *)
(* the Safe's owners (AdminDisputesConsole), over the hooks each uses.     *)
(*                                                                         *)
(* The dispute and voting contracts appear as one record and the calls     *)
(* they take; everybody but the account at the screen may make any of them *)
(* at any time.  What a mediator or a vote rules is EtaloDispute's matter; *)
(* here only the refund the parties agree on has an amount.  A query shows *)
(* its last answer, and the next one finds the mirror, which lags, where   *)
(* the last one did or at the head of the chain.                           *)
(***************************************************************************)
EXTENDS Integers, Sequences, FiniteSets

CONSTANTS
    Price,        \* what the item holds in escrow, in units of USDT
    Mediators,    \* accounts the owner may approve; a party may be one
    NoOne,        \* address(0)
    NoAmount,     \* no proposal yet
    MaxSent       \* bound on the transactions of the screen under way at once

Parties == {"buyer", "seller"}
\* What a party may propose: the form has no maximum, and Price + 1 stands for all it takes
\* beyond what the item holds.
Amounts == 0 .. Price + 1
Levels == {"N1", "N2", "N3", "Resolved"}

ASSUME DisputeDeskAssumption ==
    /\ Price \in Nat /\ NoAmount \notin Amounts
    /\ NoOne \notin Mediators /\ MaxSent \in Nat \ {0}

VARIABLES
    chain,        \* the dispute, its proposals, its vote, and the approved mediators
    late,         \* the deadline of its level is past
    page, me,     \* the screen and the account at it
    shown,        \* the last answer of each query of the page
    noted,        \* the mediator's form has given way to its success note
    asked,        \* the calls the wallet has been asked to sign
    sent,         \* the account's transactions not yet mined, in nonce order
    signed        \* the refund the account signed last and the contract did not refuse, in N1

screenVars == <<page, me>>
walletVars == <<noted, asked, sent, signed>>
vars == <<chain, late, screenVars, shown, walletVars>>

\* The row of the dispute and of its vote in the backend's mirror.
RowOf(c) == [level |-> c.level, mediator |-> c.mediator, by |-> c.by]
NoRow == [level |-> "None", mediator |-> NoOne, by |-> "nobody"]

Opened == [level |-> "N1", mediator |-> NoOne, buyer |-> NoAmount, seller |-> NoAmount,
           approved |-> {}, voters |-> {}, voted |-> {}, by |-> "nobody", refund |-> 0]

Blank == [item |-> FALSE, row |-> NoRow, theirs |-> NoAmount, vote |-> "none",
          hasVoted |-> FALSE, isMediator |-> FALSE, queue |-> FALSE]

Init ==
    /\ chain = Opened /\ late = FALSE
    /\ \/ page = "order" /\ me \in Parties
       \/ page = "mediator" /\ me \in Mediators \ Parties
       \/ page = "admin" /\ me = "owner"
    /\ shown = Blank
    /\ noted = FALSE /\ asked = {} /\ sent = <<>> /\ signed = NoAmount
-------------------------------------------------------------------------------
(***************************************************************************)
(* The contracts.                                                          *)
(***************************************************************************)
\* A call: its function, who makes it, an amount and a name among its arguments.
Call(fn, by, amount, name) == [fn |-> fn, by |-> by, amount |-> amount, name |-> name]

Own(party) == IF party = "seller" THEN chain.seller ELSE chain.buyer
Other(party) == IF party = "buyer" THEN chain.seller ELSE chain.buyer

\* Mutant: the second proposal settles the dispute, whatever the first was.
AgreedOnSecond(mine, other) == other # NoAmount

Agreed(mine, other) == mine = other

\* A proposal nobody has matched is taken whatever its amount; the one that settles the
\* dispute moves the money, and reverts with it when the item does not hold as much.
TakesProposal(call) ==
    /\ chain.level = "N1" /\ call.by \in Parties
    /\ Agreed(call.amount, Other(call.by)) => call.amount <= Price

Takes(call) ==
    CASE call.fn = "resolveN1Amicable"   -> TakesProposal(call)
      [] call.fn = "escalateToMediation" -> chain.level = "N1" /\ (call.by = "buyer" \/ late)
      [] call.fn = "resolveN2Mediation"  -> chain.level = "N2" /\ call.by = chain.mediator
      [] call.fn = "escalateToVoting"    -> /\ chain.level = "N2" /\ (call.by = "buyer" \/ late)
                                            /\ chain.approved \ {chain.mediator} # {}
      [] call.fn = "submitVote"          -> /\ chain.level = "N3" /\ ~late
                                            /\ call.by \in chain.voters \ chain.voted
      [] call.fn = "finalizeVote"        -> chain.level = "N3" /\ late /\ chain.voted # {}
      [] call.fn = "forceClose"          -> chain.level = "N3" /\ chain.voted = {} /\ call.by = "owner"
      [] call.fn = "assignN2Mediator"    -> /\ chain.level = "N2" /\ call.name \in chain.approved
                                            /\ call.by = "owner"
      [] call.fn = "approveMediator"     -> call.by = "owner"

\* Nothing reads the proposals and the vote of a level that is over.
Settled(by) ==
    [chain EXCEPT !.level = "Resolved", !.by = by, !.voters = {}, !.voted = {},
                  !.buyer = NoAmount, !.seller = NoAmount]

AfterProposal(call) ==
    IF Agreed(call.amount, Other(call.by)) THEN [Settled("N1") EXCEPT !.refund = call.amount]
    ELSE [chain EXCEPT ![call.by] = call.amount]

After(call) ==
    CASE call.fn = "resolveN1Amicable"   -> AfterProposal(call)
      [] call.fn = "escalateToMediation" -> [chain EXCEPT !.level = "N2", !.buyer = NoAmount, !.seller = NoAmount]
      [] call.fn = "resolveN2Mediation"  -> Settled("N2")
      [] call.fn = "escalateToVoting"    -> [chain EXCEPT !.level = "N3", !.voters = chain.approved \ {chain.mediator}]
      [] call.fn = "submitVote"          -> [chain EXCEPT !.voted = @ \cup {call.by}]
      [] call.fn = "finalizeVote"        -> Settled("N3")
      [] call.fn = "forceClose"          -> Settled("owner")
      [] call.fn = "assignN2Mediator"    -> [chain EXCEPT !.mediator = call.name]
      [] call.fn = "approveMediator"     ->
            [chain EXCEPT !.approved = IF call.amount = 1 THEN @ \cup {call.name} ELSE @ \ {call.name}]

\* A call is mined: it takes effect, or it reverts.  A new level has a new deadline.
Execute(call) ==
    /\ chain' = IF Takes(call) THEN After(call) ELSE chain
    /\ late' = (late /\ chain'.level = chain.level)

Calls(who) ==
    {Call("resolveN1Amicable", who, a, NoOne) : a \in Amounts}
    \cup {Call("assignN2Mediator", who, 0, med) : med \in Mediators}
    \cup {Call("approveMediator", who, yes, med) : yes \in {0, 1}, med \in Mediators}
    \cup {Call(fn, who, 0, NoOne) :
            fn \in {"escalateToMediation", "resolveN2Mediation", "escalateToVoting",
                    "submitVote", "finalizeVote", "forceClose"}}

\* Bound: the whitelist changes while it is read, from the mediation to the vote.
Matters(call) == call.fn = "approveMediator" => chain.level \in {"N2", "N3"}

StillN1(amount) == IF chain'.level = "N1" THEN amount ELSE NoAmount

\* Everything the others do: the parties, mediators and owners at other screens, and whoever
\* calls the contracts without one.
Others ==
    /\ \E who \in (Parties \cup Mediators \cup {"owner"}) \ {me} : \E call \in Calls(who) :
          Matters(call) /\ Takes(call) /\ Execute(call)
    /\ signed' = StillN1(signed)
    /\ UNCHANGED <<screenVars, shown, noted, asked, sent>>

DeadlinePasses ==
    /\ chain.level # "Resolved" /\ ~late /\ late' = TRUE
    /\ UNCHANGED <<chain, screenVars, shown, walletVars>>
-------------------------------------------------------------------------------
(***************************************************************************)
(* What a page offers, given the answers of its queries.                   *)
(***************************************************************************)
\* A card per item the page believes Disputed, once the dispute's row is there.
CardOpen(s) == s.item /\ s.row # NoRow

\* The deadline of the level the card shows.
LateFor(s) == late \/ s.row.level # chain.level

\* The proposal of the other party is offered for acceptance past the deadline too; the form
\* for an own proposal is not.
AgreementCalls(who, s) ==
    {Call("resolveN1Amicable", who, a, NoOne) :
        a \in {a \in Amounts : a = s.theirs \/ ~LateFor(s)}}

\* Mutant: the buyer's escalation goes with the form when the deadline is past.
EscalationCallsInTime(who, s) ==
    {call \in {Call("escalateToMediation", who, 0, NoOne)} : who = "buyer" /\ ~LateFor(s)}

\* The seller may not escalate early and is not offered it late either.
EscalationCalls(who, s) ==
    {call \in {Call("escalateToMediation", who, 0, NoOne)} : who = "buyer"}

\* N2Status offers nothing: what is awaited is the mediator.
N2StatusCalls == {}

\* Who may vote is taken from the whitelist, not from the vote.
BallotCalls(who, s) ==
    {call \in {Call("submitVote", who, 0, NoOne)} : s.isMediator /\ ~LateFor(s) /\ ~s.hasVoted}

\* Mutant: the decision may be recorded while the vote is open.
FinalizeCallsEarly(who, s) == {Call("finalizeVote", who, 0, NoOne)}

FinalizeCalls(who, s) == {call \in {Call("finalizeVote", who, 0, NoOne)} : LateFor(s)}

N3StatusCalls(who, s) ==
    IF s.vote = "open" THEN BallotCalls(who, s) \cup FinalizeCalls(who, s) ELSE {}

CardCalls(who, s) ==
    IF ~CardOpen(s) THEN {}
    ELSE CASE s.row.level = "N1" -> AgreementCalls(who, s) \cup EscalationCalls(who, s)
           [] s.row.level = "N2" -> N2StatusCalls
           [] s.row.level = "N3" -> N3StatusCalls(who, s)
           [] OTHER              -> {}

\* The form is there after the deadline of the level too.
ConsoleCalls(who, s) ==
    {call \in {Call("resolveN2Mediation", who, 0, NoOne)} : s.isMediator /\ s.queue}

\* Only a dispute without a mediator is offered one; whom, is typed in.
NeedsAssignment(s) == s.row.level = "N2" /\ s.row.mediator = NoOne

TriageCalls(who, s) ==
    {Call("assignN2Mediator", who, 0, med) : med \in {x \in Mediators : NeedsAssignment(s)}}
    \cup {Call("approveMediator", who, yes, med) : yes \in {0, 1}, med \in Mediators}

Offered(pg, who, s) ==
    CASE pg = "order" -> CardCalls(who, s)
      [] pg = "mediator" -> ConsoleCalls(who, s)
      [] pg = "admin" -> TriageCalls(who, s)
-------------------------------------------------------------------------------
(***************************************************************************)
(* Queries.                                                                *)
(***************************************************************************)
\* The row of a vote the owner's force close overtook is never finalised.
VoteShown(row) ==
    CASE row.by = "N3" -> "final"
      [] row.level = "N3" \/ row.by = "owner" -> "open"
      [] OTHER -> "none"

\* What a mirror at the head of the chain answers; the proposals, the whitelist and hasVoted
\* are read from the chain in any case.
Answers(who) ==
    [item |-> chain.level # "Resolved", row |-> RowOf(chain), theirs |-> Other(who),
     vote |-> VoteShown(RowOf(chain)), hasVoted |-> who \in chain.voted,
     isMediator |-> who \in chain.approved,
     queue |-> chain.level = "N2" /\ chain.mediator = who]

Queries == DOMAIN Blank

Enabled(q) ==
    CASE q = "item" -> page = "order"
      [] q = "row" -> page = "admin" \/ shown.item
      [] q = "theirs" -> CardOpen(shown) /\ shown.row.level = "N1"
      [] q = "vote" -> CardOpen(shown) /\ shown.row.level = "N3"
      [] q = "hasVoted" -> CardOpen(shown) /\ shown.vote # "none"
      [] q = "isMediator" -> page = "mediator" \/ (CardOpen(shown) /\ shown.row.level = "N3")
      [] q = "queue" -> page = "mediator" /\ shown.isMediator

\* Mutant: the client has no default interval, so that only the queries with one of their
\* own poll.
PolledByThemselves == {"theirs", "vote", "queue"}

\* The queries answered again and again while they are mounted: all of them, some at an
\* interval of their own, the others at the client's default.
Polled == Queries

\* Mutant: the calls of a card that is gone are still waited for.
ForgottenNever(calls) == calls

\* A card that disappears takes its hooks with it: nobody waits for their calls.
Forgotten(calls) == {[c EXCEPT !.waited = FALSE] : c \in calls}

Unmounts == CardOpen(shown) /\ ~CardOpen(shown')

\* Query q is answered by a mirror that has caught up.  An answer of a mirror that has not is
\* the one the page had.
Answered(q) ==
    /\ Enabled(q)
    /\ shown' = [shown EXCEPT ![q] = Answers(me)[q]]
    /\ IF Unmounts
       THEN /\ asked' = Forgotten(asked)
            /\ sent' = [k \in DOMAIN sent |-> [sent[k] EXCEPT !.waited = FALSE]]
       ELSE UNCHANGED <<asked, sent>>
    /\ UNCHANGED <<chain, late, screenVars, noted, signed>>
-------------------------------------------------------------------------------
(***************************************************************************)
(* Calls of the screen.                                                    *)
(***************************************************************************)
UnderWay == asked \cup {sent[k] : k \in DOMAIN sent}

\* A hook is preparing or confirming.  Its other phases offer the same buttons, but for the
\* success of the mediator's form.
InFlight(fn) == \E c \in UnderWay : c.call.fn = fn /\ c.waited

\* Bound: MaxSent calls under way, all of one function, and one of them at the wallet.
Room(fn) == /\ Len(sent) < MaxSent /\ asked = {}
            /\ \A k \in DOMAIN sent : sent[k].call.fn = fn

\* A button starts its hook, which asks the wallet to sign what the page showed.
Press(call) ==
    /\ page # "admin" /\ Room(call.fn)
    /\ ~InFlight(call.fn) /\ ~noted
    /\ asked' = asked \cup {[call |-> call, waited |-> TRUE]}
    /\ UNCHANGED <<chain, late, screenVars, shown, noted, sent, signed>>

\* The wallet signs and broadcasts.
Signed(c) ==
    /\ asked' = asked \ {c} /\ sent' = Append(sent, c)
    /\ signed' = IF c.call.fn = "resolveN1Amicable" /\ chain.level = "N1" THEN c.call.amount ELSE signed
    /\ UNCHANGED <<chain, late, screenVars, shown, noted>>

Refused(c) ==
    /\ asked' = asked \ {c}
    /\ UNCHANGED <<chain, late, screenVars, shown, noted, sent, signed>>

\* The wait for the receipt times out, or fails; the transaction is where it was.
ReceiptTimeout(k) ==
    /\ sent[k].waited
    /\ sent' = [sent EXCEPT ![k].waited = FALSE]
    /\ UNCHANGED <<chain, late, screenVars, shown, noted, asked, signed>>

\* The triage page encodes a call; the Safe's owners send it once they have signed.
Prepare(call) ==
    /\ page = "admin" /\ Room(call.fn) /\ Matters(call)
    /\ sent' = Append(sent, [call |-> call, waited |-> FALSE])
    /\ UNCHANGED <<chain, late, screenVars, shown, noted, asked, signed>>

\* The last proposal under way reverts: the one before it stands.
RefusedLast ==
    Len(sent) = 1 /\ Head(sent).call.fn = "resolveN1Amicable" /\ ~Takes(Head(sent).call)

\* The oldest transaction is mined, and the hook that waits for it reports success, whether
\* the contract took the call or reverted.
Mine ==
    /\ sent # <<>>
    /\ Execute(Head(sent).call)
    /\ noted' = (noted \/ (page = "mediator" /\ Head(sent).waited))
    /\ sent' = Tail(sent)
    /\ signed' = StillN1(IF RefusedLast THEN Own(me) ELSE signed)
    /\ UNCHANGED <<screenVars, shown, asked>>

Next ==
    \/ Others \/ DeadlinePasses \/ Mine
    \/ \E q \in Queries : Answered(q)
    \/ \E call \in Offered(page, me, shown) : Press(call) \/ Prepare(call)
    \/ \E c \in asked : Signed(c) \/ Refused(c)
    \/ \E k \in DOMAIN sent : ReceiptTimeout(k)

\* The polls go on and the indexer catches up between two of them (MirrorCatchesUp).
Spec == Init /\ [][Next]_vars /\ \A q \in Queries : WF_vars(q \in Polled /\ Answered(q))
-------------------------------------------------------------------------------
\* Every variable has its type, and a card waits for at most one call of each function while
\* it is on the screen and for none once it is gone.
TypeOK ==
    /\ chain.level \in Levels /\ chain.refund \in 0 .. Price /\ chain.mediator \in Mediators \cup {NoOne}
    /\ {chain.buyer, chain.seller, shown.theirs, signed} \subseteq Amounts \cup {NoAmount}
    /\ chain.voted \subseteq chain.voters /\ chain.voters \subseteq Mediators
    /\ late \in BOOLEAN /\ noted \in BOOLEAN
    /\ Len(sent) <= MaxSent /\ Cardinality(asked) <= 1
    /\ page = "order" =>
          Cardinality({c \in UnderWay : c.waited}) <= (IF CardOpen(shown) THEN 1 ELSE 0)

Screens == {"order"} \X Parties \cup {"mediator"} \X Mediators \cup {<<"admin", "owner">>}

\* What everybody's up-to-date screen offers together.
OfferedNow == UNION {Offered(x[1], x[2], Answers(x[2])) : x \in Screens}

\* A button on an up-to-date screen is one the contract takes, but for four cases the
\* screens do not look at: a proposal above what the item holds, which the other party is
\* offered to accept, a ballot of a mediator who is not among the voters, a vote without
\* ballots, and an assignment of somebody who is not approved.
OffersAreTakeable ==
    \A call \in OfferedNow :
        \/ Takes(call)
        \/ call.fn = "resolveN1Amicable" /\ call.amount = Other(call.by) /\ call.amount > Price
        \/ call.fn = "submitVote" /\ call.by \notin chain.voters
        \/ call.fn = "finalizeVote" /\ chain.voted = {}
        \/ call.fn = "assignN2Mediator" /\ call.name \notin chain.approved

OnDispute(call) == call.fn # "approveMediator"

MovesOn(call) == OnDispute(call) /\ Takes(call) /\ After(call) # chain

\* Where the dispute waits for something no screen offers: the approval of a mediator, the
\* end of a vote whose voters are not parties, the owner's force close.
WaitsOffScreen ==
    CASE chain.level = "N1" -> FALSE
      [] chain.level = "N2" -> IF chain.mediator = NoOne THEN chain.approved = {}
                               ELSE chain.mediator \notin chain.approved
      [] chain.level = "N3" -> IF late THEN chain.voted = {}
                               ELSE (chain.voters \cap chain.approved \cap Parties) \ chain.voted = {}
      [] OTHER -> TRUE

\* An open dispute can be brought a step further from somebody's up-to-date screen exactly
\* when it does not wait for something off the screens.
NextStepOffered == (\E call \in OfferedNow : MovesOn(call)) <=> ~WaitsOffScreen

\* What the up-to-date screens offer together is what the contracts can take next.
OffersMatchContract == TypeOK /\ OffersAreTakeable /\ NextStepOffered

\* A dispute its parties settle is settled at the amount the party at this screen signed
\* last and the contract did not refuse, unless one is still under way: no stale display, no receipt given
\* up on and no second card brings back an amount they have replaced.
SettledAsSigned ==
    [][/\ chain.by = "nobody" /\ chain'.by = "N1" /\ me \in Parties
       /\ \A k \in DOMAIN sent' : sent'[k].call.fn # "resolveN1Amicable"
       => chain'.refund = signed]_vars

\* Once the dispute is resolved the screens eventually stop offering calls on it, whatever
\* they showed.
OffersEnd ==
    [](chain.level = "Resolved" => <>({call \in Offered(page, me, shown) : OnDispute(call)} = {}))
===============================================================================
