----------------------------- MODULE ScreenProofs -----------------------------
(***************************************************************************)
(* Proofs about two groups of screens, that share no state.                *)
(*                                                                         *)
(* The dispute screens (DisputeDesk), for any price, any mediators and any *)
(* number of transactions under way: what the screens offer together is    *)
(* what the contracts can take next, and a settlement is at the amount     *)
(* signed last.                                                            *)
(*                                                                         *)
(* The desks of the shop and of its buyers (Storefront), for any number of *)
(* wallets, runs, rows, calls and prices: what each tells is so.           *)
(***************************************************************************)
EXTENDS DisputeDesk, Storefront, FiniteSetTheorems, SequenceTheorems, WellFoundedInduction, TLAPS

(***************************************************************************)
(* The dispute on the chain.                                               *)
(***************************************************************************)
Proposals == Amounts \cup {NoAmount}
Accounts == Parties \cup Mediators \cup {"owner"}

Disputes == [level : Levels, mediator : Mediators \cup {NoOne}, buyer : Proposals,
             seller : Proposals, approved : SUBSET Mediators, voters : SUBSET Mediators,
             voted : SUBSET Mediators, by : {"nobody", "N1", "N2", "N3", "owner"}, refund : 0 .. Price]

\* The record of a dispute; a vote has its voters and ballots from N3 on, and an open dispute
\* was decided by nobody.
Sound(c) ==
    /\ c \in Disputes
    /\ c.voted \subseteq c.voters
    /\ c.level \in {"N1", "N2"} => c.voters = {}
    /\ c.level # "Resolved" => c.by = "nobody"

ChainInv == Sound(chain)

\* The calls of the screens.
CallsOf(who) ==
    {c \in [fn : {"resolveN1Amicable", "escalateToMediation", "resolveN2Mediation",
                  "escalateToVoting", "submitVote", "finalizeVote", "forceClose",
                  "assignN2Mediator", "approveMediator"},
            by : {who}, amount : Nat, name : Mediators \cup {NoOne}] :
        /\ c.fn = "resolveN1Amicable" => c.amount \in Amounts
        /\ c.fn \in {"assignN2Mediator", "approveMediator"} => c.name \in Mediators}

LEMMA AmountsAreNat == Amounts \subseteq Nat /\ 0 \in Amounts /\ 0 \in 0 .. Price
BY DisputeDeskAssumption DEF Amounts

LEMMA CallsAreCalls == ASSUME NEW who PROVE Calls(who) \subseteq CallsOf(who)
BY AmountsAreNat DEF Calls, CallsOf, Call

LEMMA OfferedAreCalls ==
  ASSUME NEW pg \in {"order", "mediator", "admin"}, NEW who, NEW s
  PROVE  Offered(pg, who, s) \subseteq CallsOf(who)
<1>1. CardCalls(who, s) \subseteq CallsOf(who)
  <2>1. AgreementCalls(who, s) \cup EscalationCalls(who, s) \subseteq CallsOf(who)
    BY AmountsAreNat DEF AgreementCalls, EscalationCalls, CallsOf, Call
  <2>2. N3StatusCalls(who, s) \subseteq CallsOf(who)
    BY AmountsAreNat DEF N3StatusCalls, BallotCalls, FinalizeCalls, CallsOf, Call
  <2>3. QED
    BY <2>1, <2>2 DEF CardCalls, N2StatusCalls
<1>2. ConsoleCalls(who, s) \subseteq CallsOf(who)
  BY AmountsAreNat DEF ConsoleCalls, CallsOf, Call
<1>3. TriageCalls(who, s) \subseteq CallsOf(who)
  BY AmountsAreNat DEF TriageCalls, CallsOf, Call
<1>4. QED
  BY <1>1, <1>2, <1>3 DEF Offered

\* What a call makes of the dispute.
LEMMA SettledIs ==
  ASSUME ChainInv, NEW by \in {"N1", "N2", "N3", "owner"}
  PROVE  /\ Settled(by) \in Disputes
         /\ Settled(by).level = "Resolved" /\ Settled(by).by = by
         /\ Settled(by).voters = {} /\ Settled(by).voted = {}
<1>1. PICK c \in Disputes : c = chain
  BY DEF ChainInv, Sound
<1> DEFINE d == [c EXCEPT !.level = "Resolved", !.by = by, !.voters = {}, !.voted = {},
                          !.buyer = NoAmount, !.seller = NoAmount]
<1>2. Settled(by) = d
  BY <1>1 DEF Settled
<1>3. d.level = "Resolved" /\ d.by = by /\ d.voters = {} /\ d.voted = {}
  BY DEF Disputes
<1>4. "Resolved" \in Levels /\ NoAmount \in Proposals
  BY DEF Levels, Proposals
<1>5. d \in Disputes
  BY <1>4 DEF Disputes
<1>6. QED
  BY <1>2, <1>3, <1>5

\* A proposal settles the dispute at its amount, or it replaces the one of its author.
LEMMA ProposalIs ==
  ASSUME ChainInv, NEW who \in Parties, NEW call \in CallsOf(who), Takes(call),
         call.fn = "resolveN1Amicable"
  PROVE  /\ After(call) \in Disputes
         /\ call.amount = Other(who) =>
                /\ After(call).level = "Resolved" /\ After(call).by = "N1"
                /\ After(call).refund = call.amount
                /\ After(call).voters = {} /\ After(call).voted = {}
         /\ call.amount # Other(who) =>
                /\ After(call).level = "N1" /\ After(call).by = chain.by
                /\ After(call).voters = chain.voters /\ After(call).voted = chain.voted
                /\ After(call)[who] = call.amount
                /\ who = "buyer" => After(call).seller = chain.seller
                /\ who = "seller" => After(call).buyer = chain.buyer
<1>1. /\ call.by = who /\ call.amount \in Amounts /\ chain.level = "N1"
      /\ call.amount = Other(who) => call.amount <= Price
  BY DEF CallsOf, Takes, TakesProposal, Agreed
<1>2. After(call) = AfterProposal(call)
  BY DEF After
<1>3. PICK c \in Disputes : c = chain
  BY DEF ChainInv, Sound
<1>4. PICK a \in Amounts : a = call.amount
  BY <1>1
<1>5. CASE a = Other(who)
  <2> a \in 0 .. Price
    BY <1>1, <1>4, <1>5, DisputeDeskAssumption DEF Amounts
  <2>1. PICK t \in Disputes : /\ t = Settled("N1") /\ t.level = "Resolved" /\ t.by = "N1"
                             /\ t.voters = {} /\ t.voted = {}
    BY SettledIs
  <2>2. After(call) = [t EXCEPT !.refund = a]
    BY <1>1, <1>2, <1>4, <1>5, <2>1 DEF AfterProposal, Agreed
  <2>3. [t EXCEPT !.refund = a] \in Disputes /\ [t EXCEPT !.refund = a].refund = a
        /\ [t EXCEPT !.refund = a].level = t.level /\ [t EXCEPT !.refund = a].by = t.by
        /\ [t EXCEPT !.refund = a].voters = t.voters /\ [t EXCEPT !.refund = a].voted = t.voted
    BY DEF Disputes
  <2>4. QED
    BY <1>4, <1>5, <2>1, <2>2, <2>3
<1>6. CASE a # Other(who)
  <2>1. After(call) = [c EXCEPT ![who] = a]
    BY <1>1, <1>2, <1>3, <1>4, <1>6 DEF AfterProposal, Agreed
  <2>2. a \in Proposals /\ who \in {"buyer", "seller"}
    BY DEF Proposals, Parties
  <2>3. CASE who = "buyer"
    <3>1. [c EXCEPT !.buyer = a] \in Disputes
          /\ [c EXCEPT !.buyer = a].buyer = a /\ [c EXCEPT !.buyer = a].seller = c.seller
          /\ [c EXCEPT !.buyer = a].level = c.level /\ [c EXCEPT !.buyer = a].by = c.by
          /\ [c EXCEPT !.buyer = a].voters = c.voters /\ [c EXCEPT !.buyer = a].voted = c.voted
      BY <2>2 DEF Disputes
    <3>2. QED
      BY <1>1, <1>3, <1>4, <1>6, <2>1, <2>3, <3>1
  <2>4. CASE who = "seller"
    <3>1. [c EXCEPT !.seller = a] \in Disputes
          /\ [c EXCEPT !.seller = a].seller = a /\ [c EXCEPT !.seller = a].buyer = c.buyer
          /\ [c EXCEPT !.seller = a].level = c.level /\ [c EXCEPT !.seller = a].by = c.by
          /\ [c EXCEPT !.seller = a].voters = c.voters /\ [c EXCEPT !.seller = a].voted = c.voted
      BY <2>2 DEF Disputes
    <3>2. QED
      BY <1>1, <1>3, <1>4, <1>6, <2>1, <2>4, <3>1
  <2>5. QED
    BY <2>2, <2>3, <2>4
<1>7. QED
  BY <1>5, <1>6

\* The calls about anything but an agreement.
LEMMA OtherCallIs ==
  ASSUME ChainInv, NEW who \in Accounts, NEW call \in CallsOf(who), Takes(call),
         call.fn # "resolveN1Amicable"
  PROVE  /\ Sound(After(call))
         /\ After(call).by # "N1" \/ After(call).by = chain.by
         /\ After(call).level = "N1" => /\ chain.level = "N1"
                                        /\ After(call).buyer = chain.buyer
                                        /\ After(call).seller = chain.seller
<1>1. PICK c \in Disputes : c = chain
  BY DEF ChainInv, Sound
<1>2. "N2" \in Levels /\ "N3" \in Levels /\ NoAmount \in Proposals
  BY DEF Levels, Proposals
<1>3. call.by = who /\ call.name \in Mediators \cup {NoOne}
  BY DEF CallsOf
<1>4. CASE call.fn = "escalateToMediation"
  <2> DEFINE d == [c EXCEPT !.level = "N2", !.buyer = NoAmount, !.seller = NoAmount]
  <2>1. After(call) = d /\ chain.level = "N1"
    BY <1>1, <1>4 DEF After, Takes
  <2>2. d \in Disputes /\ d.level = "N2" /\ d.by = c.by /\ d.voters = c.voters /\ d.voted = c.voted
    BY <1>2 DEF Disputes
  <2> HIDE DEF d
  <2>3. QED
    BY <1>1, <2>1, <2>2 DEF ChainInv, Sound
<1>5. CASE call.fn = "escalateToVoting"
  <2>1. PICK v \in SUBSET Mediators : v = chain.approved \ {chain.mediator}
    BY DEF ChainInv, Sound, Disputes
  <2> DEFINE d == [c EXCEPT !.level = "N3", !.voters = v]
  <2>2. After(call) = d /\ chain.level = "N2"
    BY <1>1, <1>5, <2>1 DEF After, Takes
  <2>3. d \in Disputes /\ d.level = "N3" /\ d.by = c.by /\ d.voters = v /\ d.voted = c.voted
    BY <1>2 DEF Disputes
  <2> HIDE DEF d
  <2>4. chain.voted = {}
    BY <2>2 DEF ChainInv, Sound
  <2>5. QED
    BY <1>1, <2>2, <2>3, <2>4 DEF ChainInv, Sound
<1>6. CASE call.fn = "submitVote"
  <2>1. chain.level = "N3" /\ who \in chain.voters
    BY <1>3, <1>6 DEF Takes
  <2>2. PICK v \in SUBSET Mediators : v = chain.voted \cup {who} /\ v \subseteq chain.voters
    <3>1. chain.voters \subseteq Mediators /\ chain.voted \subseteq chain.voters
      BY DEF ChainInv, Sound, Disputes
    <3>2. chain.voted \cup {who} \subseteq chain.voters
      BY <2>1, <3>1
    <3>3. QED
      BY <3>1, <3>2
  <2> DEFINE d == [c EXCEPT !.voted = v]
  <2>3. After(call) = d
    BY <1>1, <1>3, <1>6, <2>2 DEF After
  <2>4. d \in Disputes /\ d.level = c.level /\ d.by = c.by /\ d.voters = c.voters /\ d.voted = v
    BY DEF Disputes
  <2> HIDE DEF d
  <2>5. QED
    BY <1>1, <2>1, <2>2, <2>3, <2>4 DEF ChainInv, Sound
<1>7. CASE call.fn = "assignN2Mediator"
  <2>1. PICK x \in Mediators \cup {NoOne} : x = call.name
    BY <1>3
  <2> DEFINE d == [c EXCEPT !.mediator = x]
  <2>2. After(call) = d
    BY <1>1, <1>7, <2>1 DEF After
  <2>3. d \in Disputes /\ d.level = c.level /\ d.by = c.by /\ d.voters = c.voters
        /\ d.voted = c.voted /\ d.buyer = c.buyer /\ d.seller = c.seller
    BY DEF Disputes
  <2> HIDE DEF d
  <2>4. QED
    BY <1>1, <2>2, <2>3 DEF ChainInv, Sound
<1>8. CASE call.fn = "approveMediator"
  <2>1. PICK v \in SUBSET Mediators :
            v = IF call.amount = 1 THEN chain.approved \cup {call.name}
                ELSE chain.approved \ {call.name}
    <3>1. chain.approved \subseteq Mediators /\ call.name \in Mediators
      BY <1>8 DEF ChainInv, Sound, Disputes, CallsOf
    <3>2. /\ chain.approved \cup {call.name} \in SUBSET Mediators
          /\ chain.approved \ {call.name} \in SUBSET Mediators
      BY <3>1
    <3>3. CASE call.amount = 1
      BY <3>2, <3>3
    <3>4. CASE call.amount # 1
      BY <3>2, <3>4
    <3>5. QED
      BY <3>3, <3>4
  <2> DEFINE d == [c EXCEPT !.approved = v]
  <2>2. After(call) = d
    BY <1>1, <1>8, <2>1 DEF After
  <2>3. d \in Disputes /\ d.level = c.level /\ d.by = c.by /\ d.voters = c.voters
        /\ d.voted = c.voted /\ d.buyer = c.buyer /\ d.seller = c.seller
    BY DEF Disputes
  <2> HIDE DEF d
  <2>4. QED
    BY <1>1, <2>2, <2>3 DEF ChainInv, Sound
<1>9. CASE call.fn \in {"resolveN2Mediation", "finalizeVote", "forceClose"}
  <2>1. PICK by \in {"N2", "N3", "owner"} : After(call) = Settled(by)
    BY <1>9 DEF After
  <2>2. QED
    BY <2>1, SettledIs DEF Sound
<1>10. QED
  BY <1>4, <1>5, <1>6, <1>7, <1>8, <1>9 DEF CallsOf

\* What the account at the screen has proposed, and what it has signed.
ProposalOf(who) == IF who = "buyer" THEN chain.buyer ELSE chain.seller

LEMMA OwnIsProposal ==
  ASSUME ChainInv
  PROVE  Own(me) \in Proposals /\ (me \in Parties => Own(me) = ProposalOf(me))
BY DEF Own, ProposalOf, Parties, ChainInv, Sound, Disputes

IsProposal(c) == c.call.fn = "resolveN1Amicable"

\* A call of somebody is mined.
LEMMA ExecuteIs ==
  ASSUME ChainInv, NEW who \in Accounts, NEW call \in CallsOf(who), Execute(call)
  PROVE  /\ ChainInv'
         /\ chain.level # "N1" => chain'.level # "N1"
         /\ \A p \in Parties \ {who} : chain'.level = "N1" => ProposalOf(p)' = ProposalOf(p)
         /\ chain'.level = "N1" /\ who \in Parties => ProposalOf(who)' =
                IF call.fn = "resolveN1Amicable" /\ Takes(call) THEN call.amount ELSE ProposalOf(who)
         /\ chain.by = "nobody" /\ chain'.by = "N1" =>
                /\ call.fn = "resolveN1Amicable" /\ who \in Parties /\ chain.level = "N1"
                /\ chain'.refund = call.amount
                /\ \A p \in Parties \ {who} : call.amount = ProposalOf(p)
<1>1. CASE ~Takes(call)
  <2>1. chain' = chain
    BY <1>1 DEF Execute
  <2>2. \A p \in Parties : ProposalOf(p)' = ProposalOf(p)
    BY <2>1 DEF ProposalOf
  <2>3. ChainInv'
    BY <2>1 DEF ChainInv, Sound, Disputes, Proposals, Amounts
  <2>4. QED
    BY <1>1, <2>1, <2>2, <2>3
<1>2. CASE Takes(call) /\ call.fn = "resolveN1Amicable"
  <2>1. chain' = After(call) /\ chain.level = "N1" /\ call.by \in Parties
    BY <1>2 DEF Execute, Takes, TakesProposal
  <2>2. who \in Parties
    BY <2>1 DEF CallsOf
  <2>3. \A p \in Parties \ {who} : ProposalOf(p) = Other(who)
    BY <2>2 DEF ProposalOf, Parties, Other
  <2>4. CASE call.amount = Other(who)
    <3>1. /\ chain' \in Disputes /\ chain'.level = "Resolved" /\ chain'.by = "N1"
          /\ chain'.refund = call.amount /\ chain'.voters = {} /\ chain'.voted = {}
      BY <1>2, <2>1, <2>2, <2>4, ProposalIs
    <3>2. ChainInv'
      BY <3>1 DEF ChainInv, Sound, Disputes, Proposals, Amounts
    <3>3. QED
      BY <1>2, <2>1, <2>2, <2>3, <2>4, <3>1, <3>2
  <2>5. CASE call.amount # Other(who)
    <3>1. /\ chain' \in Disputes /\ chain'.level = "N1" /\ chain'.by = chain.by
          /\ chain'.voters = chain.voters /\ chain'.voted = chain.voted
          /\ chain'[who] = call.amount
          /\ who = "buyer" => chain'.seller = chain.seller
          /\ who = "seller" => chain'.buyer = chain.buyer
      BY <1>2, <2>1, <2>2, <2>5, ProposalIs
    <3>2. ChainInv'
      BY <2>1, <3>1 DEF ChainInv, Sound, Disputes, Proposals, Amounts
    <3>3. /\ \A p \in Parties \ {who} : ProposalOf(p)' = ProposalOf(p)
          /\ ProposalOf(who)' = call.amount
      BY <2>2, <3>1 DEF ProposalOf, Parties
    <3>4. QED
      BY <1>2, <2>1, <2>2, <3>1, <3>2, <3>3
  <2>6. QED
    BY <2>4, <2>5
<1>3. CASE Takes(call) /\ call.fn # "resolveN1Amicable"
  <2>1. chain' = After(call)
    BY <1>3 DEF Execute
  <2>2. /\ Sound(chain') /\ (chain'.by # "N1" \/ chain'.by = chain.by)
        /\ chain'.level = "N1" => /\ chain.level = "N1" /\ chain'.buyer = chain.buyer
                                  /\ chain'.seller = chain.seller
    BY <1>3, <2>1, OtherCallIs
  <2>3. ChainInv'
    BY <2>2 DEF ChainInv, Sound, Disputes, Proposals, Amounts
  <2>4. \A p \in Parties : chain'.level = "N1" => ProposalOf(p)' = ProposalOf(p)
    BY <2>2 DEF ProposalOf
  <2>5. QED
    BY <1>3, <2>2, <2>3, <2>4
<1>4. QED
  BY <1>1, <1>2, <1>3
-------------------------------------------------------------------------------
(***************************************************************************)
(* The screen.                                                             *)
(***************************************************************************)
Entries == [call : CallsOf(me), waited : BOOLEAN]
Waited == {c \in UnderWay : c.waited}

ScreenInv ==
    /\ \/ page = "order" /\ me \in Parties
       \/ page = "mediator" /\ me \in Mediators \ Parties
       \/ page = "admin" /\ me = "owner"
    /\ shown = [q \in Queries |-> shown[q]] /\ shown.theirs \in Proposals
    /\ late \in BOOLEAN /\ noted \in BOOLEAN /\ signed \in Proposals

\* One call at the wallet, and room for it among the transactions under way, which are all
\* of its kind.
OneKind == \E fn : \A c \in UnderWay : c.call.fn = fn

CallsInv ==
    /\ asked \subseteq Entries /\ sent \in Seq(Entries)
    /\ \E c : asked \subseteq {c}
    /\ Len(sent) <= MaxSent /\ (asked # {} => Len(sent) < MaxSent)
    /\ OneKind

\* A card waits for one call at a time, and for none when it is gone.
WaitInv ==
    page = "order" => /\ \E c : Waited \subseteq {c}
                      /\ ~CardOpen(shown) => Waited = {}

\* While the dispute is in N1, what a party has signed last is its last transaction under
\* way that proposes, or else its proposal on the chain.
SignedInv ==
    chain.level = "N1" /\ me \in Parties =>
        /\ (\A k \in DOMAIN sent : ~IsProposal(sent[k])) => ProposalOf(me) = signed
        /\ \A k \in DOMAIN sent :
              IsProposal(sent[k]) /\ (\A l \in DOMAIN sent : l > k => ~IsProposal(sent[l]))
              => sent[k].call.amount = signed

DeskInv == ChainInv /\ ScreenInv /\ CallsInv /\ WaitInv /\ SignedInv

LEMMA InitDesk == Init => DeskInv
<1> SUFFICES ASSUME Init PROVE DeskInv
  OBVIOUS
<1>1. 0 \in Amounts /\ 0 \in 0 .. Price
  BY AmountsAreNat
<1>2. ChainInv
  BY <1>1 DEF Init, ChainInv, Sound, Disputes, Opened, Levels, Proposals
<1>3. ScreenInv
  BY DEF Init, ScreenInv, Queries, Blank, Proposals
<1>4. CallsInv
  BY DisputeDeskAssumption DEF Init, CallsInv, OneKind, UnderWay
<1>5. WaitInv
  BY DEF Init, WaitInv, Waited, UnderWay
<1>6. SignedInv
  BY DEF Init, SignedInv, Opened, ProposalOf
<1>7. QED
  BY <1>2, <1>3, <1>4, <1>5, <1>6 DEF DeskInv

\* Nothing the desk types depends on the state, but for the account.
LEMMA SameTypes ==
  ASSUME UNCHANGED screenVars
  PROVE  /\ Entries' = Entries /\ Proposals' = Proposals /\ Amounts' = Amounts
         /\ Queries' = Queries /\ Disputes' = Disputes
BY DEF screenVars, Entries, Proposals, Amounts, Queries, Blank, Disputes, CallsOf, Levels, NoRow

LEMMA AccountsAreMe ==
  ASSUME ScreenInv
  PROVE  me \in Accounts /\ (me \in Parties <=> page = "order")
<1>1. "owner" \notin Parties
  BY DEF Parties
<1>2. QED
  BY <1>1 DEF ScreenInv, Accounts

\* A step that leaves the chain and the signatures alone.
LEMMA ScreenStep ==
  ASSUME DeskInv, UNCHANGED <<chain, screenVars, signed>>, noted' \in BOOLEAN, late' \in BOOLEAN,
         shown' = [q \in Queries |-> shown'[q]], shown'.theirs \in Proposals
  PROVE  ChainInv' /\ ScreenInv'
<1>1. ChainInv'
  BY SameTypes DEF DeskInv, ChainInv, Sound
<1>2. ScreenInv'
  BY SameTypes DEF DeskInv, ScreenInv, screenVars
<1>3. QED
  BY <1>1, <1>2

\* The same transactions under way, whoever waits for them.
LEMMA SameSigned ==
  ASSUME DeskInv, UNCHANGED <<chain, screenVars, signed>>, DOMAIN sent' = DOMAIN sent,
         \A k \in DOMAIN sent : sent'[k].call = sent[k].call
  PROVE  SignedInv'
<1>1. me' = me /\ chain' = chain /\ signed' = signed
  BY DEF screenVars
<1>2. ProposalOf(me)' = ProposalOf(me)
  BY <1>1 DEF ProposalOf
<1>3. \A k \in DOMAIN sent : IsProposal(sent'[k]) <=> IsProposal(sent[k])
  BY DEF IsProposal
<1>4. QED
  BY <1>1, <1>2, <1>3 DEF DeskInv, SignedInv

\* Nothing of another kind comes under way.
LEMMA SameKind ==
  ASSUME CallsInv, \A c \in UnderWay' : \E d \in UnderWay : c.call = d.call
  PROVE  OneKind'
<1>1. PICK fn : \A c \in UnderWay : c.call.fn = fn
  BY DEF CallsInv, OneKind
<1>2. \A c \in UnderWay' : c.call.fn = fn
  BY <1>1
<1>3. QED
  BY <1>2 DEF OneKind

\* The calls under way are as they were.
LEMMA SameCalls ==
  ASSUME CallsInv, UNCHANGED <<screenVars, asked, sent>>
  PROVE  CallsInv'
<1>1. UnderWay' = UnderWay
  BY DEF UnderWay
<1>2. OneKind'
  BY <1>1, SameKind
<1>3. QED
  BY <1>2, SameTypes DEF CallsInv

\* A new deadline for a new level.
LEMMA ExecuteLate == ASSUME NEW call, Execute(call) PROVE late' \in BOOLEAN
BY DEF Execute

LEMMA SignedStaysTyped ==
  ASSUME NEW amount \in Proposals, signed' = StillN1(amount)
  PROVE  signed' \in Proposals /\ (chain'.level = "N1" => signed' = amount)
BY DEF StillN1, ScreenInv, Proposals

\* Somebody else's call is mined.
LEMMA OthersDesk ==
  ASSUME DeskInv, Others
  PROVE  DeskInv'
<1>1. PICK who \in Accounts \ {me} : \E call \in Calls(who) : Execute(call)
  BY DEF Others, Accounts
<1>2. /\ signed' = StillN1(signed)
      /\ UNCHANGED <<page, me, shown, noted, asked, sent>> /\ UNCHANGED screenVars
  BY DEF Others, screenVars
<1>3. PICK call \in CallsOf(who) : Execute(call)
  BY <1>1, CallsAreCalls
<1>4. /\ ChainInv' /\ (chain.level # "N1" => chain'.level # "N1")
      /\ \A p \in Parties \ {who} : chain'.level = "N1" => ProposalOf(p)' = ProposalOf(p)
  BY <1>1, <1>3, ExecuteIs DEF DeskInv
<1>5. late' \in BOOLEAN
  BY <1>3, ExecuteLate
<1>6. signed' \in Proposals /\ (chain'.level = "N1" => signed' = signed)
  BY <1>2, SignedStaysTyped DEF DeskInv, ScreenInv
<1>7. ScreenInv'
  BY <1>2, <1>5, <1>6, SameTypes DEF DeskInv, ScreenInv
<1>8. CallsInv'
  BY <1>2, SameCalls DEF DeskInv
<1>9. WaitInv'
  BY <1>2 DEF DeskInv, WaitInv, Waited, UnderWay, CardOpen
<1>10. SignedInv'
  <2>1. me \in Parties /\ chain'.level = "N1" => ProposalOf(me)' = ProposalOf(me)
    <3>1. me \in Parties => me \in Parties \ {who}
      BY <1>1
    <3>2. \A p \in Parties : (ProposalOf(p)' = IF p = "buyer" THEN chain'.buyer ELSE chain'.seller)
      BY DEF ProposalOf
    <3>3. ProposalOf(me)' = IF me = "buyer" THEN chain'.buyer ELSE chain'.seller
      BY <1>2 DEF ProposalOf
    <3>4. QED
      BY <1>4, <3>1, <3>2, <3>3
  <2>2. QED
    BY <1>2, <1>4, <1>6, <2>1 DEF DeskInv, SignedInv, IsProposal
<1>11. QED
  BY <1>4, <1>7, <1>8, <1>9, <1>10 DEF DeskInv

LEMMA DeadlineDesk ==
  ASSUME DeskInv, DeadlinePasses
  PROVE  DeskInv'
<1>1. /\ UNCHANGED <<chain, screenVars, signed>> /\ late' = TRUE
      /\ UNCHANGED <<page, me, shown, noted, asked, sent>>
  BY DEF DeadlinePasses, walletVars, screenVars
<1>2. noted' \in BOOLEAN /\ shown' = [q \in Queries |-> shown'[q]] /\ shown'.theirs \in Proposals
  BY <1>1 DEF DeskInv, ScreenInv
<1>3. ChainInv' /\ ScreenInv'
  BY <1>1, <1>2, ScreenStep
<1>4. CallsInv' /\ SignedInv'
  BY <1>1, SameCalls, SameSigned DEF DeskInv
<1>5. WaitInv'
  BY <1>1 DEF DeskInv, WaitInv, Waited, UnderWay, CardOpen
<1>6. QED
  BY <1>3, <1>4, <1>5 DEF DeskInv

LEMMA TailIs ==
  ASSUME NEW S, NEW s \in Seq(S), s # <<>>
  PROVE  /\ Tail(s) \in Seq(S) /\ Len(Tail(s)) = Len(s) - 1 /\ Head(s) = s[1] /\ s[1] \in S
         /\ Len(s) \in Nat /\ Len(s) > 0 /\ DOMAIN s = 1 .. Len(s)
         /\ DOMAIN Tail(s) = 1 .. Len(s) - 1 /\ \A k \in 1 .. Len(s) - 1 : Tail(s)[k] = s[k + 1]
OBVIOUS

LEMMA AppendIs ==
  ASSUME NEW S, NEW s \in Seq(S), NEW c \in S
  PROVE  /\ Append(s, c) \in Seq(S) /\ Len(Append(s, c)) = Len(s) + 1 /\ Len(s) \in Nat
         /\ DOMAIN s = 1 .. Len(s) /\ DOMAIN Append(s, c) = 1 .. Len(s) + 1
         /\ Append(s, c)[Len(s) + 1] = c /\ \A k \in 1 .. Len(s) : Append(s, c)[k] = s[k]
OBVIOUS

\* The oldest transaction of the screen is mined.
LEMMA MineDesk ==
  ASSUME DeskInv, Mine
  PROVE  DeskInv'
<1>1. /\ sent # <<>> /\ Execute(Head(sent).call) /\ sent' = Tail(sent)
      /\ signed' = StillN1(IF RefusedLast THEN Own(me) ELSE signed)
      /\ UNCHANGED <<page, me, shown, asked>> /\ UNCHANGED screenVars
      /\ noted' = (noted \/ (page = "mediator" /\ Head(sent).waited))
  BY DEF Mine, screenVars
<1>2. /\ sent' \in Seq(Entries) /\ Len(sent') = Len(sent) - 1 /\ Head(sent) = sent[1]
      /\ sent[1] \in Entries /\ Len(sent) \in Nat /\ Len(sent) > 0
      /\ DOMAIN sent = 1 .. Len(sent) /\ DOMAIN sent' = 1 .. Len(sent) - 1
      /\ \A k \in 1 .. Len(sent) - 1 : sent'[k] = sent[k + 1]
  BY <1>1, TailIs DEF DeskInv, CallsInv
<1>3. PICK call \in CallsOf(me) : call = sent[1].call /\ Execute(call)
  BY <1>1, <1>2 DEF Entries
<1>4. me \in Accounts
  BY AccountsAreMe DEF DeskInv
<1>5. /\ ChainInv' /\ (chain.level # "N1" => chain'.level # "N1")
      /\ chain'.level = "N1" /\ me \in Parties => ProposalOf(me)' =
             IF call.fn = "resolveN1Amicable" /\ Takes(call) THEN call.amount ELSE ProposalOf(me)
  <2>1. /\ ChainInv' /\ (chain.level # "N1" => chain'.level # "N1")
        /\ \A who : who = me => (chain'.level = "N1" /\ who \in Parties => ProposalOf(who)' =
               IF call.fn = "resolveN1Amicable" /\ Takes(call) THEN call.amount ELSE ProposalOf(who))
    BY <1>3, <1>4, ExecuteIs DEF DeskInv
  <2>2. \A who : who = me => ProposalOf(who)' = ProposalOf(me)'
    BY <1>1 DEF ProposalOf
  <2>3. QED
    BY <2>1, <2>2
<1>6. late' \in BOOLEAN
  BY <1>1, ExecuteLate
<1>7. /\ signed' \in Proposals
      /\ chain'.level = "N1" => signed' = IF RefusedLast THEN Own(me) ELSE signed
  <2>1. (IF RefusedLast THEN Own(me) ELSE signed) \in Proposals
    BY OwnIsProposal DEF DeskInv, ScreenInv
  <2>2. QED
    BY <1>1, <2>1, SignedStaysTyped
<1>8. noted' \in BOOLEAN
  BY <1>1
<1>9. ScreenInv'
  BY <1>1, <1>6, <1>7, <1>8, SameTypes DEF DeskInv, ScreenInv
<1>10. CallsInv'
  <2>1. Len(sent') <= MaxSent /\ (asked' # {} => Len(sent') < MaxSent)
    BY <1>1, <1>2, DisputeDeskAssumption DEF DeskInv, CallsInv
  <2>2. asked' \subseteq Entries' /\ sent' \in Seq(Entries)' /\ \E c : asked' \subseteq {c}
    BY <1>1, <1>2, SameTypes DEF DeskInv, CallsInv
  <2>3. OneKind'
    BY <1>1, <1>2, SameKind DEF DeskInv, UnderWay
  <2>4. QED
    BY <2>1, <2>2, <2>3 DEF CallsInv
<1>11. WaitInv'
  <2>1. Waited' \subseteq Waited
    BY <1>1, <1>2 DEF Waited, UnderWay
  <2>2. QED
    BY <1>1, <2>1 DEF DeskInv, WaitInv, CardOpen
<1>12. SignedInv'
  <2>0. CASE RefusedLast
    <3>1. sent' = Tail(sent) /\ Len(sent) = 1 /\ ~Takes(call) /\ DOMAIN sent' = {}
      BY <1>1, <1>2, <1>3, <2>0 DEF RefusedLast
    <3>2. chain'.level = "N1" /\ me \in Parties => ProposalOf(me)' = signed'
      BY <1>5, <1>7, <2>0, <3>1, OwnIsProposal DEF DeskInv
    <3>3. QED
      BY <1>1, <3>1, <3>2 DEF SignedInv
  <2> SUFFICES ASSUME chain'.level = "N1", me \in Parties, ~RefusedLast
               PROVE  /\ (\A k \in DOMAIN sent' : ~IsProposal(sent'[k])) => ProposalOf(me)' = signed
                      /\ \A k \in DOMAIN sent' :
                            IsProposal(sent'[k]) /\ (\A l \in DOMAIN sent' : l > k => ~IsProposal(sent'[l]))
                            => sent'[k].call.amount = signed
    BY <1>1, <1>7, <2>0 DEF SignedInv, IsProposal
  <2>1. /\ (\A k \in DOMAIN sent : ~IsProposal(sent[k])) => ProposalOf(me) = signed
        /\ \A k \in DOMAIN sent :
              IsProposal(sent[k]) /\ (\A l \in DOMAIN sent : l > k => ~IsProposal(sent[l]))
              => sent[k].call.amount = signed
    BY <1>5 DEF DeskInv, SignedInv
  <2>2. ASSUME \A k \in DOMAIN sent' : ~IsProposal(sent'[k])
        PROVE  ProposalOf(me)' = signed
    <3>1. \A l \in DOMAIN sent : l > 1 => ~IsProposal(sent[l])
      <4>1. ASSUME NEW l \in DOMAIN sent, l > 1 PROVE ~IsProposal(sent[l])
        <5>1. l - 1 \in DOMAIN sent' /\ sent'[l - 1] = sent[l]
          BY <1>2, <4>1
        <5>2. QED
          BY <2>2, <5>1
      <4>2. QED
        BY <4>1
    <3>2. CASE IsProposal(sent[1])
      <4>1. Takes(call)
        <5>1. CASE Len(sent) = 1
          BY <1>1, <1>2, <1>3, <3>2, <5>1 DEF RefusedLast, IsProposal
        <5>2. CASE Len(sent) # 1
          <6>1. 1 \in DOMAIN sent /\ 2 \in DOMAIN sent
            BY <1>2, <5>2
          <6>2. sent[1] \in UnderWay /\ sent[2] \in UnderWay
            BY <6>1 DEF UnderWay
          <6>3. IsProposal(sent[2])
            BY <3>2, <6>2 DEF DeskInv, CallsInv, OneKind, IsProposal
          <6>4. QED
            BY <3>1, <6>1, <6>3
        <5>3. QED
          BY <5>1, <5>2
      <4>2. QED
        BY <1>2, <1>3, <1>5, <2>1, <3>1, <3>2, <4>1 DEF IsProposal
    <3>3. CASE ~IsProposal(sent[1])
      <4>1. \A k \in DOMAIN sent : ~IsProposal(sent[k])
        BY <1>2, <3>1, <3>3
      <4>2. QED
        BY <1>3, <1>5, <2>1, <3>3, <4>1 DEF IsProposal
    <3>4. QED
      BY <3>2, <3>3
  <2>3. ASSUME NEW k \in DOMAIN sent', IsProposal(sent'[k]),
               \A l \in DOMAIN sent' : l > k => ~IsProposal(sent'[l])
        PROVE  sent'[k].call.amount = signed
    <3>1. k + 1 \in DOMAIN sent /\ sent'[k] = sent[k + 1] /\ k \in Nat
      BY <1>2
    <3>2. \A l \in DOMAIN sent : l > k + 1 => ~IsProposal(sent[l])
      <4>1. ASSUME NEW l \in DOMAIN sent, l > k + 1 PROVE ~IsProposal(sent[l])
        <5>1. l - 1 \in DOMAIN sent' /\ sent'[l - 1] = sent[l] /\ l - 1 > k
          BY <1>2, <3>1, <4>1
        <5>2. QED
          BY <2>3, <5>1
      <4>2. QED
        BY <4>1
    <3>3. QED
      BY <2>1, <2>3, <3>1, <3>2
  <2>4. QED
    BY <2>2, <2>3
<1>13. QED
  BY <1>5, <1>9, <1>10, <1>11, <1>12 DEF DeskInv

\* A call nobody waits for any more.
LEMMA UnwaitedIs ==
  ASSUME NEW c \in Entries
  PROVE  /\ [c EXCEPT !.waited = FALSE] \in Entries /\ [c EXCEPT !.waited = FALSE].call = c.call
         /\ [c EXCEPT !.waited = FALSE].waited = FALSE
BY DEF Entries

LEMMA AnswersTyped ==
  ASSUME ChainInv, NEW who
  PROVE  Answers(who).theirs \in Proposals
BY DEF Answers, Other, ChainInv, Sound, Disputes

\* A query is answered.
LEMMA AnsweredDesk ==
  ASSUME DeskInv, NEW q \in Queries, Answered(q)
  PROVE  DeskInv'
<1>1. /\ UNCHANGED <<chain, screenVars, signed>> /\ UNCHANGED <<late, noted, page, me>>
      /\ shown' = [shown EXCEPT ![q] = Answers(me)[q]]
  BY DEF Answered, screenVars
<1>2. shown' = [p \in Queries |-> shown'[p]] /\ shown'.theirs \in Proposals
  <2>1. "theirs" \in Queries
    BY DEF Queries, Blank
  <2>2. shown = [p \in Queries |-> shown[p]] /\ shown.theirs \in Proposals
    BY DEF DeskInv, ScreenInv
  <2>3. shown' = [p \in Queries |-> shown'[p]]
    BY <1>1, <2>2
  <2>4. shown'["theirs"] = IF q = "theirs" THEN Answers(me)["theirs"] ELSE shown["theirs"]
    BY <1>1, <2>1, <2>2
  <2>5. Answers(me).theirs \in Proposals
    BY AnswersTyped DEF DeskInv
  <2>6. QED
    BY <2>2, <2>3, <2>4, <2>5
<1>3. ChainInv' /\ ScreenInv'
  BY <1>1, <1>2, ScreenStep DEF DeskInv, ScreenInv
<1>4. CASE ~Unmounts
  <2>1. UNCHANGED <<asked, sent>>
    BY <1>4 DEF Answered
  <2>2. CallsInv' /\ SignedInv'
    BY <1>1, <2>1, SameCalls, SameSigned DEF DeskInv
  <2>3. WaitInv'
    BY <1>1, <1>4, <2>1 DEF DeskInv, WaitInv, Waited, UnderWay, Unmounts
  <2>4. QED
    BY <1>3, <2>2, <2>3 DEF DeskInv
<1>5. CASE Unmounts
  <2>1. /\ asked' = Forgotten(asked)
        /\ sent' = [k \in DOMAIN sent |-> [sent[k] EXCEPT !.waited = FALSE]]
    BY <1>5 DEF Answered
  <2>2. asked \subseteq Entries /\ sent \in Seq(Entries) /\ DOMAIN sent = 1 .. Len(sent)
        /\ Len(sent) \in Nat
    BY DEF DeskInv, CallsInv
  <2>3. asked' \subseteq Entries /\ \A c \in asked' : c.waited = FALSE
    <3>1. ASSUME NEW d \in asked' PROVE d \in Entries /\ d.waited = FALSE
      <4>1. PICK c \in Entries : d = [c EXCEPT !.waited = FALSE]
        BY <2>1, <2>2 DEF Forgotten
      <4>2. QED
        BY <4>1, UnwaitedIs
    <3>2. QED
      BY <3>1
  <2>4. /\ DOMAIN sent' = DOMAIN sent
        /\ \A k \in DOMAIN sent : /\ sent'[k] \in Entries /\ sent'[k].call = sent[k].call
                                   /\ sent'[k].waited = FALSE
    <3>1. ASSUME NEW k \in DOMAIN sent
          PROVE  /\ sent'[k] \in Entries /\ sent'[k].call = sent[k].call
                 /\ sent'[k].waited = FALSE
      <4>1. PICK c \in Entries : c = sent[k]
        BY <2>2
      <4>2. sent'[k] = [c EXCEPT !.waited = FALSE]
        BY <2>1, <4>1
      <4>3. QED
        BY <4>1, <4>2, UnwaitedIs
    <3>2. QED
      BY <2>1, <3>1
  <2>5. sent' \in Seq(Entries) /\ Len(sent') = Len(sent)
    <3>1. sent' = [k \in 1 .. Len(sent) |-> sent'[k]]
      BY <2>1, <2>2
    <3>2. \A k \in 1 .. Len(sent) : sent'[k] \in Entries
      BY <2>2, <2>4
    <3>3. QED
      BY ONLY <2>2, <3>1, <3>2
  <2>6. CallsInv'
    <3>1. \E c : asked' \subseteq {c}
      <4>1. PICK c : asked \subseteq {c}
        BY DEF DeskInv, CallsInv
      <4>2. asked' \subseteq {[c EXCEPT !.waited = FALSE]}
        BY <2>1, <4>1 DEF Forgotten
      <4>3. QED
        BY <4>2
    <3>2. asked' # {} => asked # {}
      BY <2>1 DEF Forgotten
    <3>3. ASSUME NEW d \in UnderWay' PROVE \E c \in UnderWay : d.call = c.call
      <4>1. CASE d \in asked'
        <5>1. PICK c \in asked : d = [c EXCEPT !.waited = FALSE]
          BY <2>1, <4>1 DEF Forgotten
        <5>2. d.call = c.call /\ c \in UnderWay
          BY <2>2, <5>1, UnwaitedIs DEF UnderWay
        <5>3. QED
          BY <5>2
      <4>2. CASE d \notin asked'
        <5>1. PICK k \in DOMAIN sent : d = sent'[k]
          BY <2>4, <4>2 DEF UnderWay
        <5>2. d.call = sent[k].call /\ sent[k] \in UnderWay
          BY <2>4, <5>1 DEF UnderWay
        <5>3. QED
          BY <5>2
      <4>3. QED
        BY <4>1, <4>2
    <3>4. OneKind'
      BY <3>3, SameKind DEF DeskInv
    <3>5. QED
      BY <1>1, <2>3, <2>5, <3>1, <3>2, <3>4, SameTypes DEF DeskInv, CallsInv
  <2>7. WaitInv'
    <3>1. Waited' = {}
      BY <2>3, <2>4 DEF Waited, UnderWay
    <3>2. QED
      BY <3>1 DEF WaitInv
  <2>8. SignedInv'
    BY <1>1, <2>4, SameSigned
  <2>9. QED
    BY <1>3, <2>6, <2>7, <2>8 DEF DeskInv
<1>6. QED
  BY <1>4, <1>5

\* A step of the account at the screen: the chain and what is shown are as they were.
LEMMA AccountStep ==
  ASSUME DeskInv, UNCHANGED <<chain, late, page, me, shown, noted>>, signed' \in Proposals,
         CallsInv', WaitInv', SignedInv'
  PROVE  DeskInv'
<1>1. UNCHANGED screenVars
  BY DEF screenVars
<1>2. ChainInv'
  BY <1>1, SameTypes DEF DeskInv, ChainInv, Sound
<1>3. ScreenInv'
  BY <1>1, SameTypes DEF DeskInv, ScreenInv
<1>4. QED
  BY <1>2, <1>3 DEF DeskInv

\* A button is pressed.
LEMMA PressDesk ==
  ASSUME DeskInv, NEW call \in Offered(page, me, shown), Press(call)
  PROVE  DeskInv'
<1>1. /\ UNCHANGED <<chain, late, page, me, shown, noted, sent, signed>>
      /\ asked' = asked \cup {[call |-> call, waited |-> TRUE]}
      /\ page # "admin" /\ Room(call.fn) /\ ~InFlight(call.fn)
  BY DEF Press, screenVars
<1>2. UNCHANGED screenVars /\ UNCHANGED <<chain, screenVars, signed>>
  BY <1>1 DEF screenVars
<1>3. call \in CallsOf(me)
  BY OfferedAreCalls DEF DeskInv, ScreenInv
<1>4. PICK c : c = [call |-> call, waited |-> TRUE]
  OBVIOUS
<1>5. c \in Entries /\ c.call = call
  BY <1>3, <1>4 DEF Entries
<1>6. asked = {} /\ asked' = {c} /\ Len(sent) < MaxSent /\ \A k \in DOMAIN sent : sent[k].call.fn = call.fn
  BY <1>1, <1>4 DEF Room
<1>7. CallsInv'
  <2>1. \A d \in UnderWay' : d.call.fn = call.fn
    BY <1>1, <1>5, <1>6 DEF UnderWay
  <2>2. OneKind'
    BY <2>1 DEF OneKind
  <2>3. QED
    BY <1>1, <1>2, <1>5, <1>6, <2>2, SameTypes DEF DeskInv, CallsInv
<1>8. WaitInv'
  <2> SUFFICES ASSUME page = "order"
               PROVE  /\ \E d : Waited' \subseteq {d}
                      /\ CardOpen(shown)
    BY <1>1 DEF WaitInv, CardOpen
  <2>1. Waited = {}
    BY <1>1, <1>6 DEF Waited, UnderWay, InFlight
  <2>2. Waited' \subseteq {c}
    BY <1>1, <1>6, <2>1 DEF Waited, UnderWay
  <2>3. CardOpen(shown)
    BY DEF Offered, CardCalls
  <2>4. QED
    BY <2>2, <2>3
<1>9. SignedInv'
  BY <1>1, <1>2, SameSigned
<1>10. signed' \in Proposals
  BY <1>1 DEF DeskInv, ScreenInv
<1>11. QED
  BY <1>1, <1>7, <1>8, <1>9, <1>10, AccountStep

\* A transaction more is under way.
LEMMA AppendedSigned ==
  ASSUME DeskInv, UNCHANGED <<chain, late, page, me, shown, noted>>, NEW c \in Entries,
         sent' = Append(sent, c),
         IF IsProposal(c) /\ chain.level = "N1" THEN signed' = c.call.amount ELSE signed' = signed
  PROVE  SignedInv' /\ signed' \in Proposals
<1>1. /\ Len(sent) \in Nat /\ DOMAIN sent = 1 .. Len(sent) /\ DOMAIN sent' = 1 .. Len(sent) + 1
      /\ sent'[Len(sent) + 1] = c /\ \A k \in 1 .. Len(sent) : sent'[k] = sent[k]
  BY AppendIs DEF DeskInv, CallsInv
<1>2. signed' \in Proposals
  <2>1. IsProposal(c) => c.call.amount \in Amounts
    BY DEF Entries, CallsOf, IsProposal
  <2>2. QED
    BY <2>1 DEF DeskInv, ScreenInv, Proposals
<1>3. ProposalOf(me)' = ProposalOf(me)
  BY DEF ProposalOf
<1>4. SignedInv'
  <2> SUFFICES ASSUME chain.level = "N1", me \in Parties
               PROVE  /\ (\A k \in DOMAIN sent' : ~IsProposal(sent'[k])) => ProposalOf(me) = signed'
                      /\ \A k \in DOMAIN sent' :
                            IsProposal(sent'[k]) /\ (\A l \in DOMAIN sent' : l > k => ~IsProposal(sent'[l]))
                            => sent'[k].call.amount = signed'
    BY <1>3 DEF SignedInv, IsProposal
  <2>1. /\ (\A k \in DOMAIN sent : ~IsProposal(sent[k])) => ProposalOf(me) = signed
        /\ \A k \in DOMAIN sent :
              IsProposal(sent[k]) /\ (\A l \in DOMAIN sent : l > k => ~IsProposal(sent[l]))
              => sent[k].call.amount = signed
    BY DEF DeskInv, SignedInv
  <2>2. CASE IsProposal(c)
    <3>1. signed' = c.call.amount
      BY <2>2
    <3>2. \A k \in DOMAIN sent' :
              (\A l \in DOMAIN sent' : l > k => ~IsProposal(sent'[l])) => k = Len(sent) + 1
      BY <1>1, <2>2
    <3>3. QED
      BY <1>1, <2>2, <3>1, <3>2
  <2>3. CASE ~IsProposal(c)
    <3>1. signed' = signed
      BY <2>3
    <3>2. (\A k \in DOMAIN sent' : ~IsProposal(sent'[k])) => \A k \in DOMAIN sent : ~IsProposal(sent[k])
      BY <1>1
    <3>3. ASSUME NEW k \in DOMAIN sent', IsProposal(sent'[k]),
                 \A l \in DOMAIN sent' : l > k => ~IsProposal(sent'[l])
          PROVE  sent'[k].call.amount = signed
      <4>1. k \in DOMAIN sent /\ sent'[k] = sent[k]
        BY <1>1, <2>3, <3>3
      <4>2. \A l \in DOMAIN sent : l > k => ~IsProposal(sent[l])
        BY <1>1, <3>3
      <4>3. QED
        BY <2>1, <3>3, <4>1, <4>2
    <3>4. QED
      BY <2>1, <3>1, <3>2, <3>3
  <2>4. QED
    BY <2>2, <2>3
<1>5. QED
  BY <1>2, <1>4

LEMMA AppendedCalls ==
  ASSUME DeskInv, UNCHANGED <<page, me>>, NEW c \in Entries, sent' = Append(sent, c),
         Len(sent) < MaxSent, asked' = {}, \A d \in UnderWay : d.call.fn = c.call.fn
  PROVE  CallsInv'
<1>1. UNCHANGED screenVars
  BY DEF screenVars
<1>2. sent' \in Seq(Entries) /\ Len(sent') = Len(sent) + 1 /\ Len(sent) \in Nat
  BY AppendIs DEF DeskInv, CallsInv
<1>3. Len(sent') <= MaxSent
  BY <1>2, DisputeDeskAssumption
<1>4. ASSUME NEW k \in DOMAIN sent' PROVE sent'[k].call.fn = c.call.fn
  <2>1. /\ DOMAIN sent = 1 .. Len(sent) /\ DOMAIN sent' = 1 .. Len(sent) + 1
        /\ sent'[Len(sent) + 1] = c /\ \A l \in 1 .. Len(sent) : sent'[l] = sent[l]
    BY AppendIs DEF DeskInv, CallsInv
  <2>2. k = Len(sent) + 1 \/ k \in DOMAIN sent
    BY <1>2, <2>1
  <2>3. CASE k \in DOMAIN sent
    BY <2>1, <2>3 DEF UnderWay
  <2>4. QED
    BY <2>1, <2>2, <2>3
<1>5. OneKind'
  <2>1. \A d \in UnderWay' : d.call.fn = c.call.fn
    BY <1>4 DEF UnderWay
  <2>2. QED
    BY <2>1 DEF OneKind
<1>6. QED
  BY <1>1, <1>2, <1>3, <1>5, SameTypes DEF CallsInv

\* The triage page hands a call to the Safe.
LEMMA PrepareDesk ==
  ASSUME DeskInv, NEW call \in Offered(page, me, shown), Prepare(call)
  PROVE  DeskInv'
<1>1. PICK c : c = [call |-> call, waited |-> FALSE]
  OBVIOUS
<1>2. /\ UNCHANGED <<chain, late, page, me, shown, noted, asked, signed>>
      /\ sent' = Append(sent, c) /\ page = "admin" /\ asked = {} /\ Len(sent) < MaxSent
      /\ \A d \in UnderWay : d.call.fn = call.fn
  BY <1>1 DEF Prepare, screenVars, Room, UnderWay
<1>3. c \in Entries
  <2>1. call \in CallsOf(me)
    BY OfferedAreCalls DEF DeskInv, ScreenInv
  <2>2. QED
    BY <1>1, <2>1 DEF Entries
<1>4. CallsInv'
  BY <1>1, <1>2, <1>3, AppendedCalls
<1>5. WaitInv'
  BY <1>2 DEF WaitInv
<1>6. SignedInv'
  <2>1. me \notin Parties
    BY <1>2, AccountsAreMe DEF DeskInv
  <2>2. QED
    BY <1>2, <2>1 DEF SignedInv
<1>7. signed' \in Proposals
  BY <1>2 DEF DeskInv, ScreenInv
<1>8. QED
  BY <1>2, <1>4, <1>5, <1>6, <1>7, AccountStep

\* The wallet signs a call, or refuses it.
LEMMA WalletDesk ==
  ASSUME DeskInv, NEW c \in asked, Signed(c) \/ Refused(c)
  PROVE  DeskInv'
<1>1. c \in Entries /\ asked = {c} /\ Len(sent) < MaxSent
  BY DEF DeskInv, CallsInv
<1>2. UNCHANGED <<chain, late, page, me, shown, noted>> /\ asked' = {} /\ UNCHANGED screenVars
  BY <1>1 DEF Signed, Refused, screenVars
<1>3. ASSUME Waited' \subseteq Waited PROVE WaitInv'
  BY <1>2, <1>3 DEF DeskInv, WaitInv, CardOpen
<1>4. CASE Signed(c)
  <2>1. sent' = Append(sent, c)
    BY <1>4 DEF Signed
  <2>2. IF IsProposal(c) /\ chain.level = "N1" THEN signed' = c.call.amount ELSE signed' = signed
    BY <1>4 DEF Signed, IsProposal
  <2>3. SignedInv' /\ signed' \in Proposals
    BY <1>1, <1>2, <2>1, <2>2, AppendedSigned
  <2>4. CallsInv'
    <3>1. c \in UnderWay
      BY DEF UnderWay
    <3>2. \A d \in UnderWay : d.call.fn = c.call.fn
      BY <3>1 DEF DeskInv, CallsInv, OneKind
    <3>3. QED
      BY <1>1, <1>2, <2>1, <3>2, AppendedCalls
  <2>5. Waited' \subseteq Waited
    <3>1. UnderWay' \subseteq UnderWay
      <4>1. /\ Len(sent) \in Nat /\ DOMAIN sent = 1 .. Len(sent) /\ DOMAIN sent' = 1 .. Len(sent) + 1
            /\ sent'[Len(sent) + 1] = c /\ \A k \in 1 .. Len(sent) : sent'[k] = sent[k]
        BY <1>1, <2>1, AppendIs DEF DeskInv, CallsInv
      <4>2. ASSUME NEW k \in DOMAIN sent' PROVE sent'[k] \in UnderWay
        <5>1. CASE k = Len(sent) + 1
          BY <4>1, <5>1 DEF UnderWay
        <5>2. CASE k # Len(sent) + 1
          BY <4>1, <5>2 DEF UnderWay
        <5>3. QED
          BY <5>1, <5>2
      <4>3. QED
        BY <1>2, <4>2 DEF UnderWay
    <3>2. QED
      BY <3>1 DEF Waited
  <2>6. QED
    BY <1>2, <1>3, <2>3, <2>4, <2>5, AccountStep
<1>5. CASE Refused(c)
  <2>1. sent' = sent /\ signed' = signed
    BY <1>5 DEF Refused
  <2>2. CallsInv' /\ SignedInv'
    <3>1. UnderWay' \subseteq UnderWay
      BY <1>2, <2>1 DEF UnderWay
    <3>2. OneKind'
      BY <3>1, SameKind DEF DeskInv
    <3>3. QED
      BY <1>2, <2>1, <3>2, SameTypes, SameSigned DEF DeskInv, CallsInv
  <2>3. Waited' \subseteq Waited
    BY <1>1, <1>2, <2>1 DEF Waited, UnderWay
  <2>4. signed' \in Proposals
    BY <2>1 DEF DeskInv, ScreenInv
  <2>5. QED
    BY <1>2, <1>3, <2>2, <2>3, <2>4, AccountStep
<1>6. QED
  BY <1>4, <1>5

\* A hook gives up on a receipt.
LEMMA TimeoutDesk ==
  ASSUME DeskInv, NEW k \in DOMAIN sent, ReceiptTimeout(k)
  PROVE  DeskInv'
<1>1. /\ UNCHANGED <<chain, late, page, me, shown, noted, asked, signed>>
      /\ UNCHANGED screenVars /\ UNCHANGED <<chain, screenVars, signed>>
  BY DEF ReceiptTimeout, screenVars
<1>2. sent \in Seq(Entries) /\ DOMAIN sent = 1 .. Len(sent) /\ Len(sent) \in Nat
  BY DEF DeskInv, CallsInv
<1>3. PICK c \in Entries : c = sent[k]
  BY <1>2
<1>4. PICK d \in Entries : d = [c EXCEPT !.waited = FALSE] /\ d.call = c.call /\ d.waited = FALSE
  BY UnwaitedIs
<1>5. sent' = [sent EXCEPT ![k] = d]
  BY <1>3, <1>4 DEF ReceiptTimeout
<1>6. /\ sent' \in Seq(Entries) /\ Len(sent') = Len(sent) /\ DOMAIN sent' = DOMAIN sent
      /\ sent'[k] = d /\ \A l \in DOMAIN sent : l # k => sent'[l] = sent[l]
  BY <1>2, <1>5
<1>7. CallsInv'
  <2>1. \A l \in DOMAIN sent : sent'[l].call = sent[l].call
    BY <1>3, <1>4, <1>6
  <2>2. \A e \in UnderWay' : \E b \in UnderWay : e.call = b.call
    BY <1>1, <1>6, <2>1 DEF UnderWay
  <2>3. OneKind'
    BY <2>2, SameKind DEF DeskInv
  <2>4. QED
    BY <1>1, <1>6, <2>3, SameTypes DEF DeskInv, CallsInv
<1>8. WaitInv'
  <2>1. Waited' \subseteq Waited
    BY <1>1, <1>4, <1>6 DEF Waited, UnderWay
  <2>2. QED
    BY <1>1, <2>1 DEF DeskInv, WaitInv, CardOpen
<1>9. SignedInv'
  <2>1. \A l \in DOMAIN sent : sent'[l].call = sent[l].call
    BY <1>3, <1>4, <1>6
  <2>2. QED
    BY <1>1, <1>6, <2>1, SameSigned
<1>10. signed' \in Proposals
  BY <1>1 DEF DeskInv, ScreenInv
<1>11. QED
  BY <1>1, <1>7, <1>8, <1>9, <1>10, AccountStep

LEMMA DeskStep ==
  ASSUME DeskInv, [Next]_vars
  PROVE  DeskInv'
<1>1. CASE Others \/ DeadlinePasses \/ Mine
  BY <1>1, OthersDesk, DeadlineDesk, MineDesk
<1>2. CASE \E q \in Queries : Answered(q)
  BY <1>2, AnsweredDesk
<1>3. CASE \E call \in Offered(page, me, shown) : Press(call) \/ Prepare(call)
  BY <1>3, PressDesk, PrepareDesk
<1>4. CASE \E c \in asked : Signed(c) \/ Refused(c)
  BY <1>4, WalletDesk
<1>5. CASE \E k \in DOMAIN sent : ReceiptTimeout(k)
  BY <1>5, TimeoutDesk
<1>6. CASE UNCHANGED vars
  <2>1. /\ UNCHANGED <<chain, late, page, me, shown, noted, asked, sent, signed>>
        /\ UNCHANGED screenVars /\ UNCHANGED <<chain, screenVars, signed>>
    BY <1>6 DEF vars, screenVars, walletVars
  <2>2. CallsInv' /\ SignedInv'
    BY <2>1, SameCalls, SameSigned DEF DeskInv
  <2>3. WaitInv'
    BY <2>1 DEF DeskInv, WaitInv, Waited, UnderWay, CardOpen
  <2>4. signed' \in Proposals
    BY <2>1 DEF DeskInv, ScreenInv
  <2>5. QED
    BY <2>1, <2>2, <2>3, <2>4, AccountStep
<1>7. QED
  BY <1>1, <1>2, <1>3, <1>4, <1>5, <1>6 DEF Next

\* The record of the dispute is sound, the screen's calls are of its account, a card waits for
\* one call at a time, and what a party signed last is what counts.
THEOREM DisputeDeskInvariant == Spec => []DeskInv
BY InitDesk, DeskStep, PTL DEF Spec

\* A dispute its parties settle is settled at the amount the party at the screen signed last,
\* unless a proposal of theirs is still under way, whatever is stale, given up on or
\* overtaken.
THEOREM SettledAsSignedTheorem == Spec => SettledAsSigned
<1>1. ASSUME DeskInv, [Next]_vars, chain.by = "nobody", chain'.by = "N1", me \in Parties,
             \A k \in DOMAIN sent' : sent'[k].call.fn # "resolveN1Amicable"
      PROVE  chain'.refund = signed
  <2>1. CASE Others
    <3>1. PICK who \in Accounts \ {me} : \E call \in Calls(who) : Execute(call)
      BY <2>1 DEF Others, Accounts
    <3>2. PICK call \in CallsOf(who) : Execute(call)
      BY <3>1, CallsAreCalls
    <3>3. /\ who \in Parties /\ chain.level = "N1" /\ chain'.refund = call.amount
          /\ \A p \in Parties \ {who} : call.amount = ProposalOf(p)
      BY <1>1, <3>2, ExecuteIs DEF DeskInv
    <3>4. chain'.refund = ProposalOf(me)
      BY <1>1, <3>1, <3>3
    <3>5. \A k \in DOMAIN sent : ~IsProposal(sent[k])
      BY <1>1, <2>1 DEF Others, IsProposal
    <3>6. QED
      BY <1>1, <3>3, <3>4, <3>5 DEF DeskInv, SignedInv
  <2>2. CASE Mine
    <3>1. sent # <<>> /\ Execute(Head(sent).call) /\ sent' = Tail(sent)
      BY <2>2 DEF Mine
    <3>2. /\ Len(sent') = Len(sent) - 1 /\ Head(sent) = sent[1] /\ sent[1] \in Entries
          /\ Len(sent) \in Nat /\ Len(sent) > 0 /\ DOMAIN sent = 1 .. Len(sent)
          /\ DOMAIN sent' = 1 .. Len(sent) - 1 /\ \A k \in 1 .. Len(sent) - 1 : sent'[k] = sent[k + 1]
      BY <1>1, <3>1, TailIs DEF DeskInv, CallsInv
    <3>3. PICK call \in CallsOf(me) : call = sent[1].call /\ Execute(call)
      BY <3>1, <3>2 DEF Entries
    <3>4. me \in Accounts
      BY <1>1, AccountsAreMe DEF DeskInv
    <3>5. call.fn = "resolveN1Amicable" /\ chain.level = "N1" /\ chain'.refund = call.amount
      BY <1>1, <3>3, <3>4, ExecuteIs DEF DeskInv
    <3>6. \A l \in DOMAIN sent : l > 1 => ~IsProposal(sent[l])
      <4>1. ASSUME NEW l \in DOMAIN sent, l > 1 PROVE ~IsProposal(sent[l])
        <5>1. l - 1 \in DOMAIN sent' /\ sent'[l - 1] = sent[l]
          BY <3>2, <4>1
        <5>2. QED
          BY <1>1, <5>1 DEF IsProposal
      <4>2. QED
        BY <4>1
    <3>7. 1 \in DOMAIN sent /\ IsProposal(sent[1])
      BY <3>2, <3>3, <3>5 DEF IsProposal
    <3>8. QED
      BY <1>1, <3>3, <3>5, <3>6, <3>7 DEF DeskInv, SignedInv
  <2>3. CASE ~(Others \/ Mine)
    <3>1. chain' = chain
      BY <1>1, <2>3 DEF Next, DeadlinePasses, Answered, Press, Prepare, Signed, Refused,
         ReceiptTimeout, vars
    <3>2. QED
      BY <1>1, <3>1
  <2>4. QED
    BY <2>1, <2>2, <2>3
<1>2. DeskInv /\ [Next]_vars =>
          [/\ chain.by = "nobody" /\ chain'.by = "N1" /\ me \in Parties
           /\ \A k \in DOMAIN sent' : sent'[k].call.fn # "resolveN1Amicable"
           => chain'.refund = signed]_vars
  BY <1>1
<1>3. QED
  BY <1>2, DisputeDeskInvariant, PTL DEF Spec, SettledAsSigned
-------------------------------------------------------------------------------
(***************************************************************************)
(* What up-to-date screens offer.                                          *)
(***************************************************************************)
LEMMA SmallSet ==
  ASSUME NEW S, NEW c, S \subseteq {c}
  PROVE  Cardinality(S) \in {0, 1}
<1>1. S = {} \/ S = {c}
  OBVIOUS
<1>2. QED
  BY <1>1, FS_EmptySet, FS_Singleton

LEMMA TypeHolds == DeskInv => TypeOK
<1> SUFFICES ASSUME DeskInv PROVE TypeOK
  OBVIOUS
<1>1. /\ chain.level \in Levels /\ chain.refund \in 0 .. Price /\ chain.mediator \in Mediators \cup {NoOne}
      /\ {chain.buyer, chain.seller, shown.theirs, signed} \subseteq Amounts \cup {NoAmount}
      /\ chain.voted \subseteq chain.voters /\ chain.voters \subseteq Mediators
      /\ late \in BOOLEAN /\ noted \in BOOLEAN /\ Len(sent) <= MaxSent
  BY DEF DeskInv, ChainInv, Sound, Disputes, ScreenInv, CallsInv, Proposals
<1>2. Cardinality(asked) <= 1
  <2>1. Cardinality(asked) \in {0, 1}
    BY SmallSet DEF DeskInv, CallsInv
  <2>2. QED
    BY <2>1
<1>3. page = "order" => Cardinality({c \in UnderWay : c.waited}) <= (IF CardOpen(shown) THEN 1 ELSE 0)
  <2>1. CASE CardOpen(shown)
    <3>1. page = "order" => Cardinality(Waited) \in {0, 1}
      BY SmallSet DEF DeskInv, WaitInv
    <3>2. QED
      BY <2>1, <3>1 DEF Waited
  <2>2. CASE ~CardOpen(shown)
    <3>1. page = "order" => Cardinality(Waited) = 0
      BY <2>2, FS_EmptySet DEF DeskInv, WaitInv
    <3>2. QED
      BY <2>2, <3>1 DEF Waited
  <2>3. QED
    BY <2>1, <2>2
<1>4. QED
  BY <1>1, <1>2, <1>3 DEF TypeOK

\* The screens together, kind by kind.
LEMMA OfferedNowIs ==
  /\ \A call \in OfferedNow :
        \/ \E who \in Parties : call \in CardCalls(who, Answers(who))
        \/ \E who \in Mediators : call \in ConsoleCalls(who, Answers(who))
        \/ call \in TriageCalls("owner", Answers("owner"))
  /\ \A who \in Parties : CardCalls(who, Answers(who)) \subseteq OfferedNow
  /\ \A who \in Mediators : ConsoleCalls(who, Answers(who)) \subseteq OfferedNow
  /\ TriageCalls("owner", Answers("owner")) \subseteq OfferedNow
<1>1. \A who : /\ Offered("order", who, Answers(who)) = CardCalls(who, Answers(who))
               /\ Offered("mediator", who, Answers(who)) = ConsoleCalls(who, Answers(who))
               /\ Offered("admin", who, Answers(who)) = TriageCalls(who, Answers(who))
  BY DEF Offered
<1>2. ASSUME NEW x \in Screens
      PROVE  \/ x[1] = "order" /\ x[2] \in Parties
             \/ x[1] = "mediator" /\ x[2] \in Mediators
             \/ x[1] = "admin" /\ x[2] = "owner"
  <2>1. CASE x \in {"order"} \X Parties
    BY <2>1
  <2>2. CASE x \in {"mediator"} \X Mediators
    BY <2>2
  <2>3. CASE x \in {<<"admin", "owner">>}
    BY <2>3
  <2>4. QED
    BY <2>1, <2>2, <2>3 DEF Screens
<1>3. ASSUME NEW call \in OfferedNow
      PROVE  \/ \E who \in Parties : call \in CardCalls(who, Answers(who))
             \/ \E who \in Mediators : call \in ConsoleCalls(who, Answers(who))
             \/ call \in TriageCalls("owner", Answers("owner"))
  <2>1. PICK x \in Screens : call \in Offered(x[1], x[2], Answers(x[2]))
    BY <1>3 DEF OfferedNow
  <2>2. PICK who : who = x[2] /\ call \in Offered(x[1], who, Answers(who))
    BY <2>1
  <2>3. QED
    BY <1>1, <1>2, <2>2
<1>4. ASSUME NEW pg, NEW who, <<pg, who>> \in Screens
      PROVE  Offered(pg, who, Answers(who)) \subseteq OfferedNow
  <2>1. PICK x \in Screens : x[1] = pg /\ x[2] = who
    BY <1>4
  <2>2. Offered(x[1], x[2], Answers(x[2])) = Offered(pg, who, Answers(who))
    BY <2>1
  <2>3. Offered(x[1], x[2], Answers(x[2])) \subseteq OfferedNow
    BY DEF OfferedNow
  <2>4. QED
    BY <2>2, <2>3
<1>5. /\ \A who \in Parties : <<"order", who>> \in Screens
      /\ \A who \in Mediators : <<"mediator", who>> \in Screens
      /\ <<"admin", "owner">> \in Screens
  BY DEF Screens
<1>6. QED
  BY <1>1, <1>3, <1>4, <1>5

\* What the card of an up-to-date page offers a party.
LEMMA CardNow ==
  ASSUME ChainInv, NEW who
  PROVE  /\ chain.level = "N1" => CardCalls(who, Answers(who)) =
                AgreementCalls(who, Answers(who)) \cup EscalationCalls(who, Answers(who))
         /\ chain.level = "N3" => CardCalls(who, Answers(who)) =
                BallotCalls(who, Answers(who)) \cup FinalizeCalls(who, Answers(who))
         /\ chain.level \in {"N2", "Resolved"} => CardCalls(who, Answers(who)) = {}
         /\ LateFor(Answers(who)) <=> late
<1> DEFINE s == Answers(who)
<1>1. /\ s.item <=> chain.level # "Resolved"
      /\ s.row = RowOf(chain) /\ s.vote = VoteShown(RowOf(chain))
  BY DEF Answers
<1>2. s.row.level = chain.level /\ s.row.by = chain.by /\ s.row # NoRow
  <2>1. s.row.level = chain.level /\ s.row.by = chain.by
    BY <1>1 DEF RowOf
  <2>2. chain.level # "None" /\ NoRow.level = "None"
    BY DEF ChainInv, Sound, Disputes, Levels, NoRow
  <2>3. QED
    BY <2>1, <2>2
<1>3. chain.level = "N3" => s.vote = "open"
  BY <1>1, <1>2 DEF VoteShown, ChainInv, Sound
<1> HIDE DEF s
<1>4. CardOpen(s) <=> chain.level # "Resolved"
  BY <1>1, <1>2 DEF CardOpen
<1>5. /\ chain.level = "N1" => CardCalls(who, s) = AgreementCalls(who, s) \cup EscalationCalls(who, s)
      /\ chain.level = "N3" => CardCalls(who, s) = BallotCalls(who, s) \cup FinalizeCalls(who, s)
      /\ chain.level \in {"N2", "Resolved"} => CardCalls(who, s) = {}
  BY <1>2, <1>3, <1>4 DEF CardCalls, N2StatusCalls, N3StatusCalls
<1>6. LateFor(s) <=> late
  BY <1>2 DEF LateFor
<1>7. QED
  BY <1>5, <1>6 DEF s

\* The calls that are offered, with what made their screens offer them.
LEMMA WhatIsOffered ==
  ASSUME ChainInv, NEW call \in OfferedNow
  PROVE  \/ /\ call.fn = "resolveN1Amicable" /\ call.by \in Parties /\ chain.level = "N1"
            /\ call.amount \in Amounts
         \/ call.fn = "escalateToMediation" /\ call.by = "buyer" /\ chain.level = "N1"
         \/ /\ call.fn = "submitVote" /\ call.by \in Parties \cap chain.approved /\ chain.level = "N3"
            /\ ~late /\ call.by \notin chain.voted
         \/ call.fn = "finalizeVote" /\ chain.level = "N3" /\ late
         \/ /\ call.fn = "resolveN2Mediation" /\ chain.level = "N2"
            /\ call.by = chain.mediator /\ chain.mediator \in Mediators \cap chain.approved
         \/ /\ call.fn = "assignN2Mediator" /\ chain.level = "N2" /\ chain.mediator = NoOne
            /\ call.name \in Mediators /\ call.by = "owner"
         \/ call.fn = "approveMediator" /\ call.by = "owner"
<1>1. ASSUME NEW who \in Parties, call \in CardCalls(who, Answers(who))
      PROVE  \/ /\ call.fn = "resolveN1Amicable" /\ call.by \in Parties /\ chain.level = "N1"
                /\ call.amount \in Amounts
             \/ call.fn = "escalateToMediation" /\ call.by = "buyer" /\ chain.level = "N1"
             \/ /\ call.fn = "submitVote" /\ call.by \in Parties \cap chain.approved /\ chain.level = "N3"
                /\ ~late /\ call.by \notin chain.voted
             \/ call.fn = "finalizeVote" /\ chain.level = "N3" /\ late
  <2>1. Answers(who).isMediator <=> who \in chain.approved
    BY DEF Answers
  <2>2. Answers(who).hasVoted <=> who \in chain.voted
    BY DEF Answers
  <2>3. LateFor(Answers(who)) <=> late
    BY CardNow
  <2>4. CASE chain.level = "N1"
    <3>1. call \in AgreementCalls(who, Answers(who)) \cup EscalationCalls(who, Answers(who))
      BY <1>1, <2>4, CardNow
    <3>2. QED
      BY <2>4, <3>1 DEF AgreementCalls, EscalationCalls, Call
  <2>5. CASE chain.level = "N3"
    <3>1. call \in BallotCalls(who, Answers(who)) \cup FinalizeCalls(who, Answers(who))
      BY <1>1, <2>5, CardNow
    <3>2. QED
      BY <2>1, <2>2, <2>3, <2>5, <3>1 DEF BallotCalls, FinalizeCalls, Call
  <2>6. QED
    BY <1>1, <2>4, <2>5, CardNow DEF ChainInv, Sound, Disputes, Levels
<1>2. ASSUME NEW who \in Mediators, call \in ConsoleCalls(who, Answers(who))
      PROVE  /\ call.fn = "resolveN2Mediation" /\ chain.level = "N2"
             /\ call.by = chain.mediator /\ chain.mediator \in Mediators \cap chain.approved
  <2>1. /\ Answers(who).isMediator <=> who \in chain.approved
        /\ Answers(who).queue <=> (chain.level = "N2" /\ chain.mediator = who)
    BY DEF Answers
  <2>2. QED
    BY <1>2, <2>1 DEF ConsoleCalls, Call
<1>3. ASSUME call \in TriageCalls("owner", Answers("owner"))
      PROVE  \/ /\ call.fn = "assignN2Mediator" /\ chain.level = "N2" /\ chain.mediator = NoOne
                /\ call.name \in Mediators /\ call.by = "owner"
             \/ call.fn = "approveMediator" /\ call.by = "owner"
  <2>1. Answers("owner").row.level = chain.level /\ Answers("owner").row.mediator = chain.mediator
    BY DEF Answers, RowOf
  <2>2. QED
    BY <1>3, <2>1 DEF TriageCalls, NeedsAssignment, Call
<1>4. QED
  BY <1>1, <1>2, <1>3, OfferedNowIs

LEMMA OffersHold == DeskInv => OffersAreTakeable
<1> SUFFICES ASSUME DeskInv, NEW call \in OfferedNow
             PROVE  \/ Takes(call)
                    \/ /\ call.fn = "resolveN1Amicable" /\ call.amount = Other(call.by)
                       /\ call.amount > Price
                    \/ call.fn = "submitVote" /\ call.by \notin chain.voters
                    \/ call.fn = "finalizeVote" /\ chain.voted = {}
                    \/ call.fn = "assignN2Mediator" /\ call.name \notin chain.approved
  BY DEF OffersAreTakeable
<1>1. CASE call.fn = "resolveN1Amicable"
  <2>1. call.by \in Parties /\ chain.level = "N1" /\ call.amount \in Amounts
    BY <1>1, WhatIsOffered DEF DeskInv
  <2>2. Takes(call) <=> (call.amount = Other(call.by) => call.amount <= Price)
    BY <1>1, <2>1 DEF Takes, TakesProposal, Agreed
  <2>3. call.amount <= Price \/ call.amount > Price
    BY <2>1, DisputeDeskAssumption DEF Amounts
  <2>4. QED
    BY <1>1, <2>2, <2>3
<1>2. CASE call.fn # "resolveN1Amicable"
  BY <1>2, WhatIsOffered DEF DeskInv, Takes
<1>3. QED
  BY <1>1, <1>2

\* A call that is offered and takes effect moves the dispute somewhere, and where the dispute
\* does not wait off the screens one is offered.
LEMMA NextStepHolds == DeskInv => NextStepOffered
<1> SUFFICES ASSUME DeskInv PROVE (\E call \in OfferedNow : MovesOn(call)) <=> ~WaitsOffScreen
  BY DEF NextStepOffered
<1>1. ChainInv /\ chain.level \in {"N1", "N2", "N3", "Resolved"}
  BY DEF DeskInv, ChainInv, Sound, Disputes, Levels
<1>2. CASE chain.level = "N1"
  <2>1. ~WaitsOffScreen
    BY <1>2 DEF WaitsOffScreen
  <2>2. PICK call : call = Call("escalateToMediation", "buyer", 0, NoOne)
    OBVIOUS
  <2>3. call \in OfferedNow
    <3>1. call \in CardCalls("buyer", Answers("buyer"))
      BY <1>1, <1>2, <2>2, CardNow DEF EscalationCalls
    <3>2. QED
      BY <3>1, OfferedNowIs DEF Parties
  <2>4. MovesOn(call)
    <3>1. call.fn = "escalateToMediation" /\ call.by = "buyer"
      BY <2>2 DEF Call
    <3>2. Takes(call)
      BY <1>2, <3>1 DEF Takes
    <3>3. After(call).level = "N2"
      <4>1. PICK c \in Disputes : c = chain
        BY <1>1 DEF ChainInv, Sound
      <4>2. After(call) = [c EXCEPT !.level = "N2", !.buyer = NoAmount, !.seller = NoAmount]
        BY <3>1, <4>1 DEF After
      <4>3. QED
        BY <4>2 DEF Disputes
    <3>4. QED
      BY <1>2, <3>1, <3>2, <3>3 DEF MovesOn, OnDispute
  <2>5. QED
    BY <2>1, <2>3, <2>4
<1>3. CASE chain.level = "N2" /\ chain.mediator = NoOne
  <2>1. WaitsOffScreen <=> chain.approved = {}
    BY <1>3 DEF WaitsOffScreen
  <2>2. ASSUME NEW call \in OfferedNow, MovesOn(call) PROVE chain.approved # {}
    <3>1. call.fn = "assignN2Mediator"
      BY <1>1, <1>3, <2>2, WhatIsOffered, DisputeDeskAssumption DEF MovesOn, OnDispute
    <3>2. QED
      BY <2>2, <3>1 DEF MovesOn, Takes
  <2>3. ASSUME NEW med \in chain.approved PROVE \E call \in OfferedNow : MovesOn(call)
    <3>1. med \in Mediators /\ med # NoOne
      BY <1>1, DisputeDeskAssumption DEF ChainInv, Sound, Disputes
    <3>2. PICK call : call = Call("assignN2Mediator", "owner", 0, med)
      OBVIOUS
    <3>3. call.fn = "assignN2Mediator" /\ call.by = "owner" /\ call.name = med
      BY <3>2 DEF Call
    <3>4. call \in OfferedNow
      <4>1. NeedsAssignment(Answers("owner"))
        BY <1>3 DEF NeedsAssignment, Answers, RowOf
      <4>2. call \in TriageCalls("owner", Answers("owner"))
        BY <3>1, <3>2, <4>1 DEF TriageCalls
      <4>3. QED
        BY <4>2, OfferedNowIs
    <3>5. Takes(call)
      BY <1>3, <2>3, <3>3 DEF Takes
    <3>6. After(call).mediator = med
      <4>1. PICK c \in Disputes : c = chain
        BY <1>1 DEF ChainInv, Sound
      <4>2. After(call) = [c EXCEPT !.mediator = med]
        BY <3>3, <4>1 DEF After
      <4>3. QED
        BY <4>2 DEF Disputes
    <3>7. QED
      BY <1>3, <3>1, <3>3, <3>4, <3>5, <3>6 DEF MovesOn, OnDispute
  <2>4. QED
    BY <2>1, <2>2, <2>3
<1>4. CASE chain.level = "N2" /\ chain.mediator # NoOne
  <2>1. WaitsOffScreen <=> chain.mediator \notin chain.approved
    BY <1>4 DEF WaitsOffScreen
  <2>2. ASSUME NEW call \in OfferedNow, MovesOn(call) PROVE chain.mediator \in chain.approved
    BY <1>1, <1>4, <2>2, WhatIsOffered DEF MovesOn, OnDispute
  <2>3. ASSUME chain.mediator \in chain.approved PROVE \E call \in OfferedNow : MovesOn(call)
    <3>1. PICK who \in Mediators : who = chain.mediator
      BY <1>1, <2>3 DEF ChainInv, Sound, Disputes
    <3>2. PICK call : call = Call("resolveN2Mediation", who, 0, NoOne)
      OBVIOUS
    <3>3. call.fn = "resolveN2Mediation" /\ call.by = who
      BY <3>2 DEF Call
    <3>4. call \in OfferedNow
      <4>1. Answers(who).isMediator /\ Answers(who).queue
        BY <1>4, <2>3, <3>1 DEF Answers
      <4>2. call \in ConsoleCalls(who, Answers(who))
        BY <3>2, <4>1 DEF ConsoleCalls
      <4>3. QED
        BY <4>2, OfferedNowIs
    <3>5. Takes(call)
      BY <1>4, <3>1, <3>3 DEF Takes
    <3>6. After(call).level = "Resolved"
      BY <1>1, <3>3, SettledIs DEF After
    <3>7. QED
      BY <1>4, <3>3, <3>4, <3>5, <3>6 DEF MovesOn, OnDispute
  <2>4. QED
    BY <2>1, <2>2, <2>3
<1>5. CASE chain.level = "N3" /\ late
  <2>1. WaitsOffScreen <=> chain.voted = {}
    BY <1>5 DEF WaitsOffScreen
  <2>2. ASSUME NEW call \in OfferedNow, MovesOn(call) PROVE chain.voted # {}
    <3>1. call.fn = "finalizeVote"
      BY <1>1, <1>5, <2>2, WhatIsOffered DEF MovesOn, OnDispute
    <3>2. QED
      BY <2>2, <3>1 DEF MovesOn, Takes
  <2>3. ASSUME chain.voted # {} PROVE \E call \in OfferedNow : MovesOn(call)
    <3>1. PICK call : call = Call("finalizeVote", "buyer", 0, NoOne)
      OBVIOUS
    <3>2. call.fn = "finalizeVote"
      BY <3>1 DEF Call
    <3>3. call \in OfferedNow
      <4>1. call \in FinalizeCalls("buyer", Answers("buyer"))
        BY <1>1, <1>5, <3>1, <3>2, CardNow DEF FinalizeCalls
      <4>2. call \in CardCalls("buyer", Answers("buyer"))
        BY <1>1, <1>5, <4>1, CardNow
      <4>3. QED
        BY <4>2, OfferedNowIs DEF Parties
    <3>4. Takes(call)
      BY <1>5, <2>3, <3>2 DEF Takes
    <3>5. After(call).level = "Resolved"
      BY <1>1, <3>2, SettledIs DEF After
    <3>6. QED
      BY <1>5, <3>2, <3>3, <3>4, <3>5 DEF MovesOn, OnDispute
  <2>4. QED
    BY <2>1, <2>2, <2>3
<1>6. CASE chain.level = "N3" /\ ~late
  <2>1. WaitsOffScreen <=> (chain.voters \cap chain.approved \cap Parties) \ chain.voted = {}
    BY <1>6 DEF WaitsOffScreen
  <2>2. ASSUME NEW call \in OfferedNow, MovesOn(call)
        PROVE  \E who : who \in (chain.voters \cap chain.approved \cap Parties) \ chain.voted
    <3>1. call.fn = "submitVote" /\ call.by \in Parties \cap chain.approved
      BY <1>1, <1>6, <2>2, WhatIsOffered DEF MovesOn, OnDispute
    <3>2. call.by \in chain.voters \ chain.voted
      BY <2>2, <3>1 DEF MovesOn, Takes
    <3>3. QED
      BY <3>1, <3>2
  <2>3. ASSUME NEW who \in (chain.voters \cap chain.approved \cap Parties) \ chain.voted
        PROVE  \E call \in OfferedNow : MovesOn(call)
    <3>1. PICK call : call = Call("submitVote", who, 0, NoOne)
      OBVIOUS
    <3>2. call.fn = "submitVote" /\ call.by = who
      BY <3>1 DEF Call
    <3>3. call \in OfferedNow
      <4>1. Answers(who).isMediator /\ ~Answers(who).hasVoted
        BY <2>3 DEF Answers
      <4>2. call \in BallotCalls(who, Answers(who))
        BY <1>1, <1>6, <3>1, <4>1, CardNow DEF BallotCalls
      <4>3. call \in CardCalls(who, Answers(who))
        BY <1>1, <1>6, <4>2, CardNow
      <4>4. QED
        BY <2>3, <4>3, OfferedNowIs
    <3>4. Takes(call)
      BY <1>6, <2>3, <3>2 DEF Takes
    <3>5. who \in After(call).voted
      <4>1. PICK c \in Disputes : c = chain
        BY <1>1 DEF ChainInv, Sound
      <4>2. PICK v : v = chain.voted \cup {who}
        OBVIOUS
      <4>3. After(call) = [c EXCEPT !.voted = v]
        BY <3>2, <4>1, <4>2 DEF After
      <4>4. QED
        BY <4>2, <4>3 DEF Disputes
    <3>6. QED
      BY <2>3, <3>2, <3>3, <3>4, <3>5 DEF MovesOn, OnDispute
  <2>4. QED
    BY <2>1, <2>2, <2>3
<1>7. CASE chain.level = "Resolved"
  <2>1. WaitsOffScreen
    BY <1>7 DEF WaitsOffScreen
  <2>2. ASSUME NEW call \in OfferedNow PROVE ~MovesOn(call)
    BY <1>1, <1>7, WhatIsOffered DEF MovesOn, OnDispute
  <2>3. QED
    BY <2>1, <2>2
<1>8. QED
  BY <1>1, <1>2, <1>3, <1>4, <1>5, <1>6, <1>7

\* What the up-to-date screens offer together is what the contracts can take next: nothing
\* offered reverts but for four cases the screens do not look at, and an open dispute that
\* does not wait off the screens can be brought a step further from one of them.
THEOREM DisputeOffersTheorem == Spec => []OffersMatchContract
<1>1. DeskInv => OffersMatchContract
  BY TypeHolds, OffersHold, NextStepHolds DEF OffersMatchContract
<1>2. QED
  BY <1>1, DisputeDeskInvariant, PTL
-------------------------------------------------------------------------------
(***************************************************************************)
(* The wallet.                                                             *)
(***************************************************************************)
\* A watchdog that has rung has said so, until a retry.
WalletInv ==
    /\ NoUninvitedPrompt
    /\ watchdog = "rung" => failed \/ retried

LEMMA WalletStarts == WalletInit => WalletInv
  BY DEF WalletInit, WalletInv, NoUninvitedPrompt

\* Inside MiniPay no prompt is out of place, and outside only the gate connects unasked, what
\* has been approved.
LEMMA NobodyIsPrompted ==
  ASSUME NEW s, ~uninvited, CallsConnect(s), s = "button" \/ InMinipay \/ approved
  PROVE  ~uninvited'
  BY DEF CallsConnect

LEMMA WalletKeepsInv == WalletInv /\ [WalletNext]_gateVars => WalletInv'
  <1> SUFFICES ASSUME WalletInv, [WalletNext]_gateVars PROVE WalletInv'
    OBVIOUS
  <1> USE DEF WalletInv, NoUninvitedPrompt
  <1>1. CASE \E s \in Surfaces : WalletAccepts(s) \/ WalletRefuses(s)
    BY <1>1 DEF WalletAccepts, WalletRefuses, hookVars
  <1>2. CASE Drops \/ Probes \/ ProbeFails
    BY <1>2 DEF Drops, Probes, ProbeFails, providerVars, hookVars
  <1>3. CASE ProbeAnswers
    <2>1. UNCHANGED hookVars
      BY <1>3 DEF ProbeAnswers
    <2>2. ~uninvited'
      <3>1. CASE HasAccounts
        BY <1>3, <3>1, NobodyIsPrompted DEF ProbeAnswers, HasAccounts
      <3>2. CASE ~HasAccounts
        BY <1>3, <3>2 DEF ProbeAnswers, providerVars
      <3> QED BY <3>1, <3>2
    <2> QED BY <2>1, <2>2 DEF hookVars
  <1>4. CASE HookEffects
    <2>1. CASE AutoConnects
      BY <1>4, <2>1, NobodyIsPrompted DEF AutoConnects, Effect
    <2>2. CASE ArmsWatchdog \/ WatchdogRings \/ CallsOff \/ NoticesError
      BY <2>2 DEF ArmsWatchdog, WatchdogRings, CallsOff, NoticesError, Effect, providerVars
    <2> QED BY <1>4, <2>1, <2>2 DEF HookEffects
  <1>5. CASE RetryWallet
    BY <1>5, NobodyIsPrompted DEF RetryWallet
  <1>6. CASE PressConnect
    BY <1>6, NobodyIsPrompted DEF PressConnect, hookVars
  <1>7. CASE OpenMenu \/ CloseMenu \/ Disconnect
    BY <1>7 DEF OpenMenu, CloseMenu, Disconnect, providerVars, hookVars
  <1>8. CASE UNCHANGED gateVars
    BY <1>8 DEF gateVars, providerVars, hookVars
  <1> QED BY <1>1, <1>2, <1>3, <1>4, <1>5, <1>6, <1>7, <1>8 DEF WalletNext

LEMMA WalletIsSound == WalletInv => NoUninvitedPrompt /\ SpinnerIsWatched
  BY DEF WalletInv, SpinnerIsWatched, Behind

(***************************************************************************)
(* The profile.                                                            *)
(***************************************************************************)
ProfileTyped ==
    /\ profileRow \in [fields : [Fields -> Texts], others : BOOLEAN]
    /\ held \in [Fields -> Texts] /\ typed \in [Fields -> Texts] /\ theirs \in [Fields -> Texts]
    /\ update.sends \in [Fields -> Texts \cup {Unsent}]

\* A field that is not always sent is as the page was given it, in the form, on its way and in
\* the row, until it is touched here or a save is answered.
UntouchedFields ==
    \A f \in Fields \ {"name"} : f \notin touched /\ ~synced =>
        /\ typed[f] = held[f] /\ update.sends[f] = Unsent
        /\ profileRow.fields[f] = theirs[f]

ProfileInv ==
    /\ ProfileTyped
    /\ ~unseen => held = profileRow.fields
    /\ UntouchedFields
    /\ HandlesSurvive

LEMMA ProfileStarts == ProfileInit => ProfileInv
  BY DEF ProfileInit, ProfileInv, ProfileTyped, UntouchedFields, HandlesSurvive, NoUpdate, Fields

LEMMA WritesProfileKeepsInv == ProfileInv /\ WritesProfile => ProfileInv'
  <1> SUFFICES ASSUME ProfileInv, WritesProfile PROVE ProfileInv'
    OBVIOUS
  <1> USE DEF ProfileInv
  <1> DEFINE given == {f \in Fields : update.sends[f] # Unsent}
             fields == [f \in Fields |-> IF f \in given THEN update.sends[f] ELSE profileRow.fields[f]]
  <1>1. /\ profileRow' = [fields |-> fields, others |-> profileRow.others /\ "socials" \notin given]
        /\ update' = [update EXCEPT !.at = "written"]
        /\ unseen' = TRUE /\ UNCHANGED <<theirs, held, typed, touched, synced>>
    BY DEF WritesProfile, formVars
  <1>2. update'.sends = update.sends
    BY <1>1
  <1>3. fields \in [Fields -> Texts]
    BY DEF ProfileTyped
  <1>4. profileRow'.fields = fields
    BY <1>1
  <1>5. ProfileTyped'
    BY <1>1, <1>2, <1>3 DEF ProfileTyped
  <1>6. UntouchedFields'
    BY <1>1, <1>2, <1>4 DEF UntouchedFields
  <1>7. HandlesSurvive'
    <2>1. ASSUME ~profileRow'.others PROVE "socials" \in touched \/ synced
      <3>1. ~profileRow.others \/ "socials" \in given
        BY <1>1, <2>1
      <3>2. CASE ~profileRow.others
        BY <3>2 DEF HandlesSurvive
      <3>3. CASE "socials" \in given
        BY <3>3 DEF UntouchedFields, Fields
      <3> QED BY <3>1, <3>2, <3>3
    <2> QED BY <1>1, <2>1 DEF HandlesSurvive
  <1> QED BY <1>1, <1>5, <1>6, <1>7

LEMMA ProfileKeepsInv == ProfileInv /\ [ProfileNext]_profileVars => ProfileInv'
  <1> SUFFICES ASSUME ProfileInv, [ProfileNext]_profileVars PROVE ProfileInv'
    OBVIOUS
  <1> USE DEF ProfileInv
  <1>1. ASSUME NEW f \in Fields, NEW t \in Texts, EditProfile(f, t) PROVE ProfileInv'
    BY <1>1 DEF EditProfile, profileRowVars, ProfileTyped, UntouchedFields, HandlesSurvive
  <1>2. ASSUME NEW f \in Fields, NEW t \in Texts, SavedElsewhere(f, t) PROVE ProfileInv'
    BY <1>2 DEF SavedElsewhere, formVars, ProfileTyped, UntouchedFields, HandlesSurvive
  <1>3. CASE Discard
    BY <1>3 DEF Discard, profileRowVars, ProfileTyped, UntouchedFields, HandlesSurvive
  <1>4. CASE SaveProfile
    <2> DEFINE sends == [f \in Fields |-> IF Sends(f) THEN typed[f] ELSE Unsent]
    <2>1. update'.sends = sends /\ UNCHANGED <<profileRowVars, formVars>>
      BY <1>4 DEF SaveProfile
    <2>2. sends \in [Fields -> Texts \cup {Unsent}]
      BY DEF ProfileTyped
    <2>3. UntouchedFields'
      BY <2>1 DEF UntouchedFields, Sends, formVars, profileRowVars
    <2> QED BY <2>1, <2>2, <2>3 DEF ProfileTyped, HandlesSurvive, formVars, profileRowVars
  <1>5. CASE WritesProfile
    BY <1>5, WritesProfileKeepsInv
  <1>6. CASE ProfileSaved
    BY <1>6 DEF ProfileSaved, ProfileTyped, UntouchedFields, HandlesSurvive, NoUpdate
  <1>7. CASE UpdateFailed
    BY <1>7 DEF UpdateFailed, formVars, profileRowVars, ProfileTyped, UntouchedFields,
                HandlesSurvive, NoUpdate
  <1>8. CASE UNCHANGED profileVars
    BY <1>8 DEF profileVars, formVars, profileRowVars, ProfileTyped, UntouchedFields, HandlesSurvive
  <1> QED BY <1>1, <1>2, <1>3, <1>4, <1>5, <1>6, <1>7, <1>8 DEF ProfileNext

LEMMA ProfileIsSound == ProfileInv => CleanMeansSaved /\ UntouchedSurvives /\ HandlesSurvive
  BY DEF ProfileInv, CleanMeansSaved, Dirty, UntouchedFields, UntouchedSurvives
-------------------------------------------------------------------------------

(***************************************************************************)
(* The products.                                                           *)
(***************************************************************************)
Row == [status : {"none", "draft", "active", "deleted"}, hero : Heroes]

FormOfProduct ==
    [open : BOOLEAN, on : Slugs \cup {NoSlug}, new : BOOLEAN, status : {"none", "draft", "active", "deleted"},
     hero : Heroes, uploads : Heroes, phase : {"idle", "loading", "preview", "used"}, nudge : BOOLEAN]

SaveOfProduct ==
    [on : Slugs \cup {NoSlug}, at : {"sent", "saved", "refused"}, new : BOOLEAN, asked : BOOLEAN, row : Row]

\* A save without a variant taken or a question answered has no raw photo to publish.
ProductInv ==
    /\ row \in [Slugs -> Row] /\ list \in [Slugs -> Row]
    /\ pform \in FormOfProduct
    /\ saving = Idle \/ saving \in SaveOfProduct
    /\ saving # Idle /\ ~saving.asked => ~(saving.row.status = "active" /\ saving.row.hero = "raw")
    /\ RawHeroWasAskedAbout

productFormVars == <<row, list, unasked, saving>>

LEMMA ProductStarts == ProductInit => ProductInv
  <1> SUFFICES ASSUME ProductInit PROVE ProductInv
    OBVIOUS
  <1>1. NoListing \in Row /\ [status : {"active"}, hero : Heroes] \subseteq Row
    BY DEF NoListing, Row, Heroes
  <1>2. row \in [Slugs -> Row] /\ list \in [Slugs -> Row]
    BY <1>1 DEF ProductInit
  <1>3. pform \in FormOfProduct
    BY DEF ProductInit, Shut, FormOfProduct, Heroes
  <1> QED BY <1>2, <1>3 DEF ProductInit, ProductInv, RawHeroWasAskedAbout

LEMMA FormChanges ==
  ASSUME ProductInv, UNCHANGED productFormVars, pform' \in FormOfProduct
  PROVE  ProductInv'
  BY DEF ProductInv, productFormVars, RawHeroWasAskedAbout, Idle

LEMMA ListsKeepsInv == ProductInv /\ Lists => ProductInv'
  <1> SUFFICES ASSUME ProductInv, Lists PROVE ProductInv'
    OBVIOUS
  <1>1. NoListing \in Row
    BY DEF NoListing, Row, Heroes
  <1>2. Listed \in [Slugs -> Row]
    BY <1>1 DEF Listed, ProductInv
  <1> QED BY <1>2 DEF Lists, ProductInv, RawHeroWasAskedAbout, Idle

LEMMA OpenFormKeepsInv ==
  ASSUME ProductInv, NEW p \in Slugs, OpenForm(p)
  PROVE  ProductInv'
  <1> DEFINE isNew == list[p] = NoListing
             st == IF list[p] = NoListing THEN "draft" ELSE list[p].status
             opened == [open |-> TRUE, on |-> p, new |-> isNew, status |-> st, hero |-> list[p].hero,
                        uploads |-> list[p].hero, phase |-> "idle", nudge |-> FALSE]
  <1>1. list[p] \in Row
    BY DEF ProductInv
  <1>2. isNew \in BOOLEAN
    OBVIOUS
  <1>3. st \in {"none", "draft", "active", "deleted"} /\ list[p].hero \in Heroes
    BY <1>1 DEF Row
  <1>4. pform' = opened
    BY DEF OpenForm, Shut
  <1>5. opened \in FormOfProduct
    <2> HIDE DEF isNew, st
    <2> QED BY <1>2, <1>3 DEF FormOfProduct
  <1>6. UNCHANGED productFormVars
    BY DEF OpenForm, productFormVars
  <1> QED BY <1>4, <1>5, <1>6, FormChanges

LEMMA SavesKeepsInv ==
  ASSUME ProductInv, NEW after \in BOOLEAN, Saves(after), pform' \in FormOfProduct,
         ~after => ~(pform.status = "active" /\ pform.hero = "raw")
  PROVE  ProductInv'
  <1> DEFINE written == [status |-> pform.status, hero |-> pform.hero]
             going == [on |-> pform.on, at |-> "sent", new |-> pform.new, asked |-> after,
                         row |-> written]
  <1>1. saving' = going /\ UNCHANGED <<row, unasked, list>>
    BY DEF Saves
  <1>2. written \in Row
    BY DEF ProductInv, FormOfProduct, Row
  <1>3. going \in SaveOfProduct
    BY <1>2 DEF ProductInv, FormOfProduct, SaveOfProduct
  <1> QED BY <1>1, <1>3 DEF ProductInv, RawHeroWasAskedAbout, Idle

LEMMA SubmitFormKeepsInv == ProductInv /\ SubmitForm => ProductInv'
  <1> SUFFICES ASSUME ProductInv, SubmitForm PROVE ProductInv'
    OBVIOUS
  <1>1. CASE NeedsNudge /\ Edits([pform EXCEPT !.nudge = TRUE])
    <2>1. pform' \in FormOfProduct
      BY <1>1 DEF Edits, ProductInv, FormOfProduct
    <2> QED BY <1>1, <2>1, FormChanges DEF Edits, productFormVars
  <1>2. CASE ~NeedsNudge /\ Saves(pform.phase = "used") /\ UNCHANGED pform
    <2>1. pform.phase # "used" => ~(pform.status = "active" /\ pform.hero = "raw")
      BY <1>2 DEF NeedsNudge, HeroIsEnhanced
    <2>2. (pform.phase = "used") \in BOOLEAN
      OBVIOUS
    <2>3. pform' \in FormOfProduct
      BY <1>2 DEF ProductInv
    <2> QED BY <1>2, <2>1, <2>2, <2>3, SavesKeepsInv
  <1> QED BY <1>1, <1>2 DEF SubmitForm

LEMMA PublishAnywayKeepsInv == ProductInv /\ PublishAnyway => ProductInv'
  <1> SUFFICES ASSUME ProductInv, PublishAnyway PROVE ProductInv'
    OBVIOUS
  <1>1. Saves(TRUE)
    BY DEF PublishAnyway
  <1>2. pform' \in FormOfProduct
    BY DEF PublishAnyway, ProductInv, FormOfProduct
  <1> QED BY <1>1, <1>2, SavesKeepsInv

LEMMA SaveLandsKeepsInv == ProductInv /\ SaveLands => ProductInv'
  <1> SUFFICES ASSUME ProductInv, SaveLands PROVE ProductInv'
    OBVIOUS
  <1>1. saving \in SaveOfProduct /\ UNCHANGED <<list, pform>>
    BY DEF SaveLands, ProductInv, Idle
  <1>2. PICK at \in {"refused", "saved"} : saving' = [saving EXCEPT !.at = at]
    BY DEF SaveLands
  <1>3. /\ saving' \in SaveOfProduct
        /\ saving'.row = saving.row /\ saving'.asked = saving.asked
    BY <1>1, <1>2 DEF SaveOfProduct
  <1>4. saving # Idle /\ saving.row \in Row
    BY <1>1 DEF SaveLands, Idle, SaveOfProduct
  <1>5. row' \in [Slugs -> Row] /\ RawHeroWasAskedAbout'
    <2>1. CASE SlugIsTaken
      BY <2>1 DEF SaveLands, ProductInv, RawHeroWasAskedAbout
    <2>2. CASE ~SlugIsTaken
      <3>1. /\ row' = [row EXCEPT ![saving.on] = saving.row]
            /\ unasked' = IF saving.asked THEN unasked \ {saving.on} ELSE unasked \cup {saving.on}
        BY <2>2 DEF SaveLands
      <3>2. row' \in [Slugs -> Row]
        BY <3>1, <1>4 DEF ProductInv
      <3>3. ASSUME NEW p \in Slugs, row'[p].status = "active", row'[p].hero = "raw"
            PROVE  p \notin unasked'
        <4>1. CASE p = saving.on
          <5>1. saving.asked
            BY <3>1, <3>3, <4>1, <1>4 DEF ProductInv
          <5> QED BY <3>1, <4>1, <5>1
        <4>2. CASE p # saving.on
          <5>1. row'[p] = row[p]
            BY <3>1, <4>2 DEF ProductInv
          <5>2. p \notin unasked
            BY <3>3, <5>1 DEF ProductInv, RawHeroWasAskedAbout
          <5> QED BY <3>1, <4>2, <5>2
        <4> QED BY <4>1, <4>2
      <3> QED BY <3>2, <3>3 DEF RawHeroWasAskedAbout
    <2> QED BY <2>1, <2>2
  <1> QED BY <1>1, <1>3, <1>4, <1>5 DEF ProductInv

LEMMA DeleteLandsKeepsInv == ProductInv /\ DeleteLands => ProductInv'
  <1> SUFFICES ASSUME ProductInv, DeleteLands PROVE ProductInv'
    OBVIOUS
  <1>1. row' = [row EXCEPT ![deleting.on].status = "deleted"] /\ UNCHANGED <<unasked, list, pform, saving>>
    BY DEF DeleteLands
  <1>2. row \in [Slugs -> Row]
    BY DEF ProductInv
  <1>3. row' \in [Slugs -> Row]
    BY <1>1, <1>2 DEF Row
  <1>4. \A p \in Slugs : row'[p] = row[p] \/ row'[p].status = "deleted"
    BY <1>1, <1>2 DEF Row
  <1>5. RawHeroWasAskedAbout'
    BY <1>1, <1>4 DEF ProductInv, RawHeroWasAskedAbout
  <1> QED BY <1>1, <1>3, <1>5 DEF ProductInv, Idle

LEMMA ProductKeepsInv == ProductInv /\ [ProductNext]_productVars => ProductInv'
  <1> SUFFICES ASSUME ProductInv, [ProductNext]_productVars PROVE ProductInv'
    OBVIOUS
  <1>1. ASSUME pform' \in FormOfProduct, UNCHANGED productFormVars PROVE ProductInv'
    BY <1>1, FormChanges
  <1> USE DEF productFormVars
  <1>2. CASE Lists
    BY <1>2, ListsKeepsInv
  <1>3. CASE CloseForm \/ Enhance \/ UseVariant \/ KeepOriginal
    <2>1. pform' \in FormOfProduct
      <3>1. CASE CloseForm
        BY <3>1 DEF CloseForm, ProductInv, FormOfProduct
      <3>2. CASE Enhance
        BY <3>2 DEF Enhance, ProductInv, FormOfProduct
      <3>3. CASE UseVariant
        BY <3>3 DEF UseVariant, Edits, ProductInv, FormOfProduct, Heroes
      <3>4. CASE KeepOriginal
        BY <3>4 DEF KeepOriginal, Edits, ProductInv, FormOfProduct
      <3> QED BY <1>3, <3>1, <3>2, <3>3, <3>4
    <2> QED BY <1>1, <1>3, <2>1 DEF CloseForm, Enhance, UseVariant, KeepOriginal, Edits
  <1>4. CASE SubmitForm \/ PublishAnyway
    BY <1>4, SubmitFormKeepsInv, PublishAnywayKeepsInv
  <1>5. ASSUME NEW p \in Slugs, OpenForm(p) PROVE ProductInv'
    BY <1>5, OpenFormKeepsInv
  <1>6. ASSUME NEW p \in Slugs, Delete(p) PROVE ProductInv'
    BY <1>1, <1>6 DEF Delete, ProductInv
  <1>7. ASSUME NEW s \in {"draft", "active"}, SetStatus(s) PROVE ProductInv'
    <2>1. pform' \in FormOfProduct
      BY <1>7 DEF SetStatus, Edits, ProductInv, FormOfProduct
    <2> QED BY <1>1, <1>7, <2>1 DEF SetStatus, Edits
  <1>8. ASSUME NEW h \in {"none", "raw", pform.uploads}, ChangeImages(h) PROVE ProductInv'
    <2>1. h \in Heroes
      BY DEF ProductInv, FormOfProduct, Heroes
    <2>2. pform' \in FormOfProduct
      BY <1>8, <2>1 DEF ChangeImages, Edits, ProductInv, FormOfProduct
    <2> QED BY <1>1, <1>8, <2>2 DEF ChangeImages, Edits
  <1>9. ASSUME NEW ph \in {"preview", "idle"}, Enhanced(ph) PROVE ProductInv'
    <2>1. pform' \in FormOfProduct
      BY <1>9 DEF Enhanced, ProductInv, FormOfProduct
    <2> QED BY <1>1, <1>9, <2>1 DEF Enhanced
  <1>10. CASE SaveLands \/ DeleteLands
    BY <1>10, SaveLandsKeepsInv, DeleteLandsKeepsInv
  <1>11. CASE SaveAnswered \/ SaveLost
    <2>1. pform' \in FormOfProduct
      BY <1>11 DEF SaveAnswered, SaveLost, ProductInv, FormOfProduct
    <2> QED BY <1>11, <2>1 DEF SaveAnswered, SaveLost, ProductInv, RawHeroWasAskedAbout
  <1>12. CASE DeleteAnswered \/ UNCHANGED productVars
    BY <1>1, <1>12 DEF DeleteAnswered, productVars, ProductInv
  <1> QED BY <1>2, <1>3, <1>4, <1>5, <1>6, <1>7, <1>8, <1>9, <1>10, <1>11, <1>12 DEF ProductNext
-------------------------------------------------------------------------------

(***************************************************************************)
(* The credits.                                                            *)
(***************************************************************************)
CreditsTyped ==
    /\ packs \in Nat /\ told \in Nat /\ ledger \in [bonus : Nat, packs : Nat, spent : Nat]
    /\ packPool \in Seq([fn : Signing, awaited : BOOLEAN])
    /\ image \in [Devices -> {"off", "asked", "rendering", "consuming"}]

\* The dialog waits for one transaction, the one it has sent last, till it is mined.
AwaitedPack ==
    /\ receipt # "none" => dialog \in AwaitingReceipt
    /\ \A i \in DOMAIN packPool : packPool[i].awaited =>
           /\ receipt = "none" /\ dialog \in AwaitingReceipt
           /\ packPool[i].fn = "purchasing" <=> dialog = "awaitingPurchaseReceipt"
    /\ \A i, j \in DOMAIN packPool : packPool[i].awaited /\ packPool[j].awaited => i = j

\* A receipt that the dialog has not told of yet is of a purchase that it has not counted.
PurchasesTold ==
    /\ told <= packs /\ ledger.packs <= packs
    /\ dialog = "awaitingPurchaseReceipt" /\ receipt = "success" => told < packs

One(d) == IF image[d] = "consuming" THEN 1 ELSE 0

\* Every device between its read and its row has seen a credit that is still to be taken.
CreditsRead == Balance >= One("here") + One("there") - 1

CreditsInv == CreditsTyped /\ AwaitedPack /\ PurchasesTold /\ CreditsRead

balanceBasis == <<ledger, image>>
purchaseBasis == <<packs, ledger, told, packPool, receipt, dialog>>

LEMMA TimesSuccessor ==
  ASSUME NEW a \in Nat, NEW b \in Nat
  PROVE  a * b \in Nat /\ a * (b + 1) = a * b + a
  OBVIOUS

LEMMA BalanceIsInt == CreditsTyped => Balance \in Int
  <1> SUFFICES ASSUME CreditsTyped PROVE Balance \in Int
    OBVIOUS
  <1>1. Bonus * ledger.bonus \in Nat /\ Pack * ledger.packs \in Nat
    BY CreditsDeskAssumption, TimesSuccessor DEF CreditsTyped
  <1> QED BY <1>1 DEF Balance, CreditsTyped

LEMMA CreditsStart == CreditsInit => CreditsInv
  <1> SUFFICES ASSUME CreditsInit PROVE CreditsInv
    OBVIOUS
  <1>1. CreditsTyped /\ AwaitedPack /\ PurchasesTold
    BY DEF CreditsInit, CreditsTyped, AwaitedPack, PurchasesTold
  <1>2. Balance = 0
    BY CreditsDeskAssumption DEF CreditsInit, Balance
  <1>3. One("here") = 0 /\ One("there") = 0
    BY DEF CreditsInit, Devices, One
  <1> QED BY <1>1, <1>2, <1>3 DEF CreditsInv, CreditsRead

\* Without an image on the way to its row, more rows of bonus and of packs only add.
LEMMA GrantsAdd ==
  ASSUME CreditsInv, image' = image, NEW source \in {"bonus", "packs"},
         ledger' = [ledger EXCEPT ![source] = @ + 1]
  PROVE  CreditsRead' /\ ledger' \in [bonus : Nat, packs : Nat, spent : Nat]
  <1>1. ledger \in [bonus : Nat, packs : Nat, spent : Nat]
    BY DEF CreditsInv, CreditsTyped
  <1>2. Balance' >= Balance /\ Balance' \in Int
    <2>1. /\ Bonus \in Nat /\ Pack \in Nat
          /\ Bonus * ledger.bonus \in Nat /\ Pack * ledger.packs \in Nat
          /\ Bonus * (ledger.bonus + 1) = Bonus * ledger.bonus + Bonus
          /\ Pack * (ledger.packs + 1) = Pack * ledger.packs + Pack
      BY <1>1, CreditsDeskAssumption, TimesSuccessor
    <2>2. CASE source = "bonus"
      <3>1. ledger'.bonus = ledger.bonus + 1 /\ ledger'.packs = ledger.packs /\ ledger'.spent = ledger.spent
        BY <1>1, <2>2
      <3> QED BY <1>1, <2>1, <3>1 DEF Balance
    <2>3. CASE source = "packs"
      <3>1. ledger'.bonus = ledger.bonus /\ ledger'.packs = ledger.packs + 1 /\ ledger'.spent = ledger.spent
        BY <1>1, <2>3
      <3> QED BY <1>1, <2>1, <3>1 DEF Balance
    <2> QED BY <2>2, <2>3
  <1>3. Balance \in Int /\ One("here") \in Int /\ One("there") \in Int
    BY BalanceIsInt DEF CreditsInv, One
  <1>4. One("here")' = One("here") /\ One("there")' = One("there")
    BY DEF One
  <1> HIDE DEF One
  <1>5. CreditsRead'
    BY <1>2, <1>3, <1>4 DEF CreditsInv, CreditsRead
  <1> QED BY <1>1, <1>5

LEMMA LedgerStepKeepsInv == CreditsInv /\ (GrantsBonus \/ MirrorsPack) => CreditsInv'
  <1> SUFFICES ASSUME CreditsInv, GrantsBonus \/ MirrorsPack PROVE CreditsInv'
    OBVIOUS
  <1>1. PICK source \in {"bonus", "packs"} : ledger' = [ledger EXCEPT ![source] = @ + 1]
    BY DEF GrantsBonus, MirrorsPack
  <1>2. UNCHANGED <<packs, poolVars, imageVars, dialogVars>>
    BY DEF GrantsBonus, MirrorsPack
  <1>3. CreditsRead' /\ ledger' \in [bonus : Nat, packs : Nat, spent : Nat]
    BY <1>1, <1>2, GrantsAdd DEF imageVars
  <1>4. ledger'.packs <= packs
    BY DEF GrantsBonus, MirrorsPack, Unmirrored, CreditsInv, CreditsTyped, PurchasesTold
  <1> QED BY <1>2, <1>3, <1>4 DEF CreditsInv, CreditsTyped, AwaitedPack, PurchasesTold, poolVars,
                                   imageVars, dialogVars

LEMMA PurchaseBasisMoves ==
  ASSUME CreditsInv, UNCHANGED balanceBasis, packs' \in Nat, told' \in Nat,
         packPool' \in Seq([fn : Signing, awaited : BOOLEAN]), AwaitedPack', PurchasesTold'
  PROVE  CreditsInv'
  BY DEF CreditsInv, CreditsTyped, CreditsRead, Balance, One, balanceBasis

LEMMA SignsPackKeepsInv == CreditsInv /\ SignsPack => CreditsInv'
  <1> SUFFICES ASSUME CreditsInv, SignsPack PROVE CreditsInv'
    OBVIOUS
  <1> DEFINE tx == [fn |-> dialog, awaited |-> TRUE]
  <1>1. /\ dialog \in Signing /\ packPool' = Append(packPool, tx) /\ receipt' = "none"
        /\ dialog' = IF dialog = "approving" THEN "awaitingApproveReceipt" ELSE "awaitingPurchaseReceipt"
        /\ UNCHANGED <<told, packs, ledger, image>>
    BY DEF SignsPack, Phase, ledgerVars
  <1>2. packPool \in Seq([fn : Signing, awaited : BOOLEAN]) /\ tx \in [fn : Signing, awaited : BOOLEAN]
    BY <1>1 DEF CreditsInv, CreditsTyped
  <1>3. packPool' \in Seq([fn : Signing, awaited : BOOLEAN])
    BY <1>1, <1>2, AppendProperties
  <1>4. \A i \in DOMAIN packPool : ~packPool[i].awaited
    BY <1>1 DEF CreditsInv, AwaitedPack, Signing, AwaitingReceipt
  <1>5. /\ DOMAIN packPool' = 1 .. Len(packPool) + 1 /\ Len(packPool) \in Nat
        /\ \A i \in 1 .. Len(packPool) : packPool'[i] = packPool[i]
        /\ packPool'[Len(packPool) + 1] = tx
    BY <1>1, <1>2, AppendProperties
  <1>6. \A i \in DOMAIN packPool' : packPool'[i].awaited => i = Len(packPool) + 1
    BY <1>2, <1>4, <1>5
  <1>7. AwaitedPack'
    BY <1>1, <1>5, <1>6 DEF AwaitedPack, AwaitingReceipt, Signing
  <1>8. PurchasesTold'
    BY <1>1 DEF CreditsInv, PurchasesTold
  <1> QED BY <1>1, <1>3, <1>7, <1>8, PurchaseBasisMoves DEF CreditsInv, CreditsTyped, balanceBasis

LEMMA MinesPackKeepsInv == CreditsInv /\ MinesPack => CreditsInv'
  <1> SUFFICES ASSUME CreditsInv, MinesPack PROVE CreditsInv'
    OBVIOUS
  <1> DEFINE tx == Head(packPool)
             ok == tx.fn = "purchasing" => packAllowed
             counted == tx.fn = "purchasing" /\ ok
  <1>1. /\ packPool # <<>> /\ packPool' = Tail(packPool)
        /\ packs' = packs + (IF counted THEN 1 ELSE 0)
        /\ receipt' = IF ~tx.awaited THEN receipt ELSE IF ok THEN "success" ELSE "reverted"
        /\ UNCHANGED <<ledger, image, dialog, told>>
    BY DEF MinesPack, imageVars, dialogVars
  <1>2. packPool \in Seq([fn : Signing, awaited : BOOLEAN]) /\ told \in Nat /\ packs \in Nat
    BY DEF CreditsInv, CreditsTyped
  <1>3. /\ packPool' \in Seq([fn : Signing, awaited : BOOLEAN]) /\ tx = packPool[1]
        /\ 1 \in DOMAIN packPool
        /\ \A i \in DOMAIN packPool' : i + 1 \in DOMAIN packPool /\ packPool'[i] = packPool[i + 1]
                                       /\ i \in Nat \ {0}
    BY <1>1, <1>2, HeadTailProperties
  <1>4. packs' \in Nat /\ packs' >= packs /\ (counted => packs' = packs + 1)
    BY <1>1, <1>2
  <1>5. tx.awaited => \A i \in DOMAIN packPool' : ~packPool'[i].awaited
    BY <1>3 DEF CreditsInv, AwaitedPack
  <1> HIDE DEF tx, ok, counted
  <1>6. AwaitedPack'
    <2>1. receipt' # "none" => dialog' \in AwaitingReceipt
      BY <1>1, <1>3 DEF CreditsInv, AwaitedPack
    <2>2. ASSUME NEW i \in DOMAIN packPool', packPool'[i].awaited
          PROVE  /\ receipt' = "none" /\ dialog' \in AwaitingReceipt
                 /\ packPool'[i].fn = "purchasing" <=> dialog' = "awaitingPurchaseReceipt"
      BY <1>1, <1>3, <1>5, <2>2 DEF CreditsInv, AwaitedPack
    <2>3. \A i, j \in DOMAIN packPool' : packPool'[i].awaited /\ packPool'[j].awaited => i = j
      BY <1>3 DEF CreditsInv, AwaitedPack
    <2> QED BY <2>1, <2>2, <2>3 DEF AwaitedPack
  <1>7. PurchasesTold'
    <2>1. told <= packs /\ ledger.packs <= packs /\ ledger.packs \in Nat
      BY DEF CreditsInv, PurchasesTold, CreditsTyped
    <2>2. ASSUME dialog = "awaitingPurchaseReceipt", receipt' = "success" PROVE told < packs'
      <3>1. CASE tx.awaited
        <4>1. tx.fn = "purchasing"
          BY <1>3, <2>2, <3>1 DEF CreditsInv, AwaitedPack
        <4>2. ok
          BY <1>1, <2>2, <3>1
        <4>3. counted
          BY <4>1, <4>2 DEF counted
        <4> QED BY <1>2, <1>4, <2>1, <4>3
      <3>2. CASE ~tx.awaited
        BY <1>1, <1>2, <1>4, <2>2, <3>2 DEF CreditsInv, PurchasesTold
      <3> QED BY <3>1, <3>2
    <2> QED BY <1>1, <1>2, <1>4, <2>1, <2>2 DEF PurchasesTold
  <1> QED BY <1>1, <1>2, <1>3, <1>4, <1>6, <1>7, PurchaseBasisMoves DEF balanceBasis

LEMMA BuyFailsKeepsInv == CreditsInv /\ BuyFails => CreditsInv'
  <1> SUFFICES ASSUME CreditsInv, BuyFails PROVE CreditsInv'
    OBVIOUS
  <1>1. /\ packPool' = [i \in DOMAIN packPool |-> [packPool[i] EXCEPT !.awaited = FALSE]]
        /\ receipt' = "none" /\ dialog' = "error" /\ UNCHANGED <<told, packs, ledger, image>>
    BY DEF BuyFails, Phase, ledgerVars
  <1>2. packPool \in Seq([fn : Signing, awaited : BOOLEAN]) /\ DOMAIN packPool = 1 .. Len(packPool)
    BY LenProperties DEF CreditsInv, CreditsTyped
  <1>3. \A i \in DOMAIN packPool :
           /\ [packPool[i] EXCEPT !.awaited = FALSE] \in [fn : Signing, awaited : BOOLEAN]
           /\ [packPool[i] EXCEPT !.awaited = FALSE].awaited = FALSE
    <2> TAKE i \in DOMAIN packPool
    <2>1. packPool[i] \in [fn : Signing, awaited : BOOLEAN]
      BY <1>2, ElementOfSeq
    <2> QED BY <2>1
  <1>4. packPool' \in Seq([fn : Signing, awaited : BOOLEAN])
    <2>1. Len(packPool) \in Nat
      BY <1>2, LenProperties
    <2> QED BY <1>1, <1>2, <1>3, <2>1, IsASeq
  <1>5. AwaitedPack' /\ PurchasesTold'
    BY <1>1, <1>3 DEF AwaitedPack, CreditsInv, PurchasesTold
  <1> QED BY <1>1, <1>4, <1>5, PurchaseBasisMoves DEF CreditsInv, CreditsTyped, balanceBasis

LEMMA PurchasedKeepsInv == CreditsInv /\ Purchased => CreditsInv'
  <1> SUFFICES ASSUME CreditsInv, Purchased PROVE CreditsInv'
    OBVIOUS
  <1>1. /\ dialog = "awaitingPurchaseReceipt" /\ receipt = "success" /\ receipt' = "none"
        /\ dialog' = "success" /\ told' = told + 1 /\ UNCHANGED <<packPool, packs, ledger, image>>
    BY DEF Purchased, PurchaseReceipt, Phase, ledgerVars
  <1>2. told \in Nat /\ packs \in Nat /\ told < packs
    BY <1>1 DEF CreditsInv, CreditsTyped, PurchasesTold
  <1>3. AwaitedPack'
    BY <1>1 DEF CreditsInv, AwaitedPack
  <1>4. PurchasesTold'
    BY <1>1, <1>2 DEF CreditsInv, PurchasesTold
  <1> QED BY <1>1, <1>2, <1>3, <1>4, PurchaseBasisMoves DEF CreditsInv, CreditsTyped, balanceBasis

\* The dialog elsewhere: nothing is told, signed or mined, and no transaction is waited for.
LEMMA DialogMoves ==
  ASSUME CreditsInv, UNCHANGED <<packs, ledger, told, packPool, image>>,
         \/ dialog \notin AwaitingReceipt /\ receipt' = receipt
         \/ receipt = "success" /\ receipt' = "none"
  PROVE  CreditsInv'
  <1>1. \A i \in DOMAIN packPool : ~packPool[i].awaited
    BY DEF CreditsInv, AwaitedPack
  <1>2. receipt' = "none"
    BY DEF CreditsInv, AwaitedPack
  <1>3. AwaitedPack' /\ PurchasesTold'
    BY <1>1, <1>2 DEF CreditsInv, AwaitedPack, PurchasesTold
  <1> QED BY <1>3, PurchaseBasisMoves DEF CreditsInv, CreditsTyped, balanceBasis

LEMMA BuyStepKeepsInv == CreditsInv /\ BuyStep => CreditsInv'
  <1> SUFFICES ASSUME CreditsInv, BuyStep PROVE CreditsInv'
    OBVIOUS
  <1>1. CASE SignsPack \/ BuyFails \/ Purchased
    BY <1>1, SignsPackKeepsInv, BuyFailsKeepsInv, PurchasedKeepsInv
  <1>2. CASE ReadsPackAllowance \/ RejectsPack
    BY <1>2, DialogMoves DEF ReadsPackAllowance, RejectsPack, Phase, Signing, AwaitingReceipt, poolVars,
                             ledgerVars
  <1>3. CASE ApproveReceipt
    BY <1>3, DialogMoves DEF ApproveReceipt, Phase, ledgerVars
  <1> QED BY <1>1, <1>2, <1>3 DEF BuyStep

\* A request for an image moves, without spending: it begins to consume only what is there.
LEMMA ImageMoves ==
  ASSUME CreditsInv, NEW d \in Devices, NEW at \in {"off", "asked", "rendering", "consuming"},
         image' = [image EXCEPT ![d] = at], UNCHANGED <<ledgerVars, poolVars, dialogVars>>,
         at = "consuming" => Balance >= 1
  PROVE  CreditsInv'
  <1>1. image \in [Devices -> {"off", "asked", "rendering", "consuming"}] /\ Balance' = Balance
    BY DEF CreditsInv, CreditsTyped, ledgerVars, Balance
  <1>2. image' \in [Devices -> {"off", "asked", "rendering", "consuming"}]
    BY <1>1
  <1>3. CreditsRead'
    <2>1. Balance \in Int
      BY BalanceIsInt DEF CreditsInv
    <2>2. Balance >= One("here") + One("there") - 1
      BY DEF CreditsInv, CreditsRead
    <2>3. /\ at # "consuming" => One(d)' = 0
          /\ \A e \in Devices : (e # d => One(e)' = One(e)) /\ One(e) \in {0, 1} /\ One(e)' \in {0, 1}
      BY <1>1 DEF One
    <2> HIDE DEF One
    <2> QED BY <1>1, <2>1, <2>2, <2>3 DEF CreditsRead, Devices
  <1> QED BY <1>2, <1>3 DEF CreditsInv, CreditsTyped, AwaitedPack, PurchasesTold, ledgerVars,
                            poolVars, dialogVars

LEMMA ConsumesKeepsInv ==
  ASSUME CreditsInv, NEW d \in Devices, Consumes(d)
  PROVE  CreditsInv'
  <1>1. /\ image[d] = "consuming" /\ image' = [image EXCEPT ![d] = "off"]
        /\ ledger' = [ledger EXCEPT !.spent = @ + 1] /\ UNCHANGED <<packs, poolVars, dialogVars>>
    BY DEF Consumes
  <1>2. /\ ledger \in [bonus : Nat, packs : Nat, spent : Nat]
        /\ image \in [Devices -> {"off", "asked", "rendering", "consuming"}]
    BY DEF CreditsInv, CreditsTyped
  <1>3. /\ ledger' \in [bonus : Nat, packs : Nat, spent : Nat]
        /\ ledger'.bonus = ledger.bonus /\ ledger'.packs = ledger.packs
        /\ ledger'.spent = ledger.spent + 1
    BY <1>1, <1>2
  <1>4. Balance \in Int /\ Balance' = Balance - 1
    <2>1. Bonus * ledger.bonus \in Nat /\ Pack * ledger.packs \in Nat
      BY <1>2, CreditsDeskAssumption, TimesSuccessor
    <2> QED BY <1>2, <1>3, <2>1 DEF Balance
  <1>5. /\ One(d) = 1 /\ One(d)' = 0
        /\ \A e \in Devices : (e # d => One(e)' = One(e)) /\ One(e) \in {0, 1}
    BY <1>1, <1>2 DEF One
  <1>6. CreditsRead'
    <2> HIDE DEF One
    <2> QED BY <1>4, <1>5 DEF CreditsInv, CreditsRead, Devices
  <1>7. image' \in [Devices -> {"off", "asked", "rendering", "consuming"}]
    BY <1>1, <1>2
  <1> QED BY <1>1, <1>3, <1>6, <1>7 DEF CreditsInv, CreditsTyped, AwaitedPack, PurchasesTold,
                                        poolVars, dialogVars

LEMMA ImageStepKeepsInv ==
  ASSUME CreditsInv, NEW d \in Devices, AsksImage(d) \/ ImageStep(d)
  PROVE  CreditsInv'
  <1>1. CASE AsksImage(d)
    BY <1>1, ImageMoves DEF AsksImage
  <1>2. CASE CreditPreflight(d)
    BY <1>2, ImageMoves DEF CreditPreflight, Proceeds
  <1>3. CASE RenderFails(d)
    BY <1>3, ImageMoves DEF RenderFails, Proceeds
  <1>4. CASE ReadsCredit(d)
    <2>1. Balance \in Int
      BY BalanceIsInt DEF CreditsInv
    <2>2. CASE Balance < 1
      BY <1>4, <2>2, ImageMoves DEF ReadsCredit, Proceeds
    <2>3. CASE ~(Balance < 1)
      <3>1. Balance >= 1
        BY <2>1, <2>3
      <3> QED BY <1>4, <2>3, <3>1, ImageMoves DEF ReadsCredit, Proceeds
    <2> QED BY <2>2, <2>3
  <1>5. CASE Consumes(d)
    BY <1>5, ConsumesKeepsInv
  <1> QED BY <1>1, <1>2, <1>3, <1>4, <1>5 DEF ImageStep

LEMMA CreditsKeepInv == CreditsInv /\ [CreditsNext]_creditsVars => CreditsInv'
  <1> SUFFICES ASSUME CreditsInv, [CreditsNext]_creditsVars PROVE CreditsInv'
    OBVIOUS
  <1>1. CASE GrantsBonus \/ MirrorsPack
    BY <1>1, LedgerStepKeepsInv
  <1>2. CASE MinesPack
    BY <1>2, MinesPackKeepsInv
  <1>3. CASE BuyStep
    BY <1>3, BuyStepKeepsInv
  <1>4. CASE OpenDialog \/ Buy \/ Retry \/ Close
    BY <1>4, DialogMoves DEF OpenDialog, Buy, Retry, Close, Phase, AwaitingReceipt, poolVars, ledgerVars
  <1>5. ASSUME NEW d \in Devices, AsksImage(d) \/ ImageStep(d) PROVE CreditsInv'
    BY <1>5, ImageStepKeepsInv
  <1>6. ASSUME UNCHANGED <<purchaseBasis, balanceBasis>> PROVE CreditsInv'
    BY <1>6 DEF purchaseBasis, balanceBasis, CreditsInv, CreditsTyped, AwaitedPack, PurchasesTold,
                CreditsRead, Balance, One
  <1> USE DEF purchaseBasis, balanceBasis, ledgerVars, poolVars, imageVars, dialogVars
  <1>7. CASE FindsNoRow \/ BalanceRead \/ BalanceArrives \/ Choose
    BY <1>6, <1>7 DEF FindsNoRow, BalanceRead, BalanceArrives, Choose
  <1>8. ASSUME NEW p \in reconciling, Tick(p) \/ TickFails(p) PROVE CreditsInv'
    BY <1>6, <1>8 DEF Tick, TickFails
  <1>9. CASE UNCHANGED creditsVars
    BY <1>6, <1>9 DEF creditsVars
  <1> QED BY <1>1, <1>2, <1>3, <1>4, <1>5, <1>7, <1>8, <1>9 DEF CreditsNext

LEMMA CreditsAreSound == CreditsInv => CreditsCounted /\ OverdrawnByRacesOnly
  <1> SUFFICES ASSUME CreditsInv PROVE CreditsCounted /\ OverdrawnByRacesOnly
    OBVIOUS
  <1>1. CreditsCounted
    BY DEF CreditsInv, PurchasesTold, CreditsCounted
  <1>2. Cardinality(Devices) = 2
    <2>1. Cardinality({"here"}) = 1 /\ IsFiniteSet({"here"})
      BY FS_Singleton
    <2>2. Cardinality({"here"} \cup {"there"}) = 2
      BY <2>1, FS_AddElement
    <2>3. Devices = {"here"} \cup {"there"}
      BY DEF Devices
    <2> QED BY <2>2, <2>3
  <1>3. Balance \in Int /\ One("here") \in {0, 1} /\ One("there") \in {0, 1}
    BY BalanceIsInt DEF CreditsInv, One
  <1>4. Balance >= One("here") + One("there") - 1
    BY DEF CreditsInv, CreditsRead
  <1>5. OverdrawnByRacesOnly
    <2> HIDE DEF One
    <2> QED BY <1>2, <1>3, <1>4 DEF OverdrawnByRacesOnly
  <1> QED BY <1>1, <1>5
-------------------------------------------------------------------------------

(***************************************************************************)
(* Opening a shop.                                                         *)
(***************************************************************************)
FeeTxs == [fn : {"approving", "paying"}, wallet : Wallets \cup {NoWallet}, run : ShopRuns \cup {0}]

RunsOfShop ==
    [at : {"off", "checkingAllowance", "approving", "paying", "awaitingApproveReceipt",
           "awaitingPayReceipt", "create"},
     wallet : Wallets \cup {NoWallet}, handle : {"wish", "other"}, try : Nat,
     got : {"nothing", "success", "reverted"}]

FormOfShop ==
    [fee : BOOLEAN, phase : {"idle", "success", "error", "canceled"}, handle : {"wish", "other"},
     rejected : BOOLEAN, run : ShopRuns \cup {0}]

ShopTyped ==
    /\ wallet \in Wallets \cup {NoWallet} /\ form \in FormOfShop
    /\ feePool \in Seq(FeeTxs) /\ shopRun \in [ShopRuns -> RunsOfShop]

\* A run waits for one transaction, the one it has signed last, with the wallet it runs for.
AwaitedFee ==
    /\ \A i \in DOMAIN feePool : feePool[i].run # 0 =>
           LET here == shopRun[feePool[i].run]
           IN  /\ here.got = "nothing" /\ here.wallet = feePool[i].wallet
               /\ here.at = IF feePool[i].fn = "paying" THEN "awaitingPayReceipt" ELSE "awaitingApproveReceipt"
    /\ \A i, j \in DOMAIN feePool : feePool[i].run # 0 /\ feePool[i].run = feePool[j].run => i = j

\* A receipt of the fee that came as a success is of a wallet that has paid.
ReceiptsAreTrue ==
    \A r \in ShopRuns :
        shopRun[r].at = "awaitingPayReceipt" /\ shopRun[r].got = "success" => shopRun[r].wallet \in feePaid

ShopInv == ShopTyped /\ AwaitedFee /\ ReceiptsAreTrue /\ PaymentsReported

LEMMA ShopStarts == ShopInit => ShopInv
  <1> SUFFICES ASSUME ShopInit PROVE ShopInv
    OBVIOUS
  <1>1. NoRun \in RunsOfShop /\ NewForm \in FormOfShop
    BY DEF NoRun, RunsOfShop, NewForm, FormOfShop
  <1>2. feePool = <<>> /\ shopRun = [r \in ShopRuns |-> NoRun]
    BY DEF ShopInit
  <1>3. ShopTyped
    BY <1>1, <1>2 DEF ShopInit, ShopTyped
  <1> QED BY <1>2, <1>3 DEF ShopInv, AwaitedFee, ReceiptsAreTrue, PaymentsReported, NoRun

LEMMA FormKeptTyped == ShopTyped => FormKept \in FormOfShop
  BY DEF ShopTyped, FormKept, NewForm, FormOfShop

LEMMA TellsTyped ==
  ASSUME ShopTyped, NEW r, NEW tells \in FormOfShop
  PROVE  Tells(r, tells) \in FormOfShop
  BY DEF ShopTyped, Tells

\* No transaction is in the pool for a run that does not wait, or has its receipt.
NotAwaiting(r) ==
    \/ shopRun[r].at \notin {"awaitingApproveReceipt", "awaitingPayReceipt"}
    \/ shopRun[r].got # "nothing"

LEMMA NothingPending ==
  ASSUME ShopInv, NEW r \in ShopRuns, NotAwaiting(r)
  PROVE  \A i \in DOMAIN feePool : feePool[i].run # r
  <1> SUFFICES ASSUME NEW i \in DOMAIN feePool, feePool[i].run = r PROVE FALSE
    OBVIOUS
  <1>1. r # 0
    BY ShopDeskAssumption
  <1> QED BY <1>1 DEF ShopInv, AwaitedFee, NotAwaiting

\* A run that waits for nothing goes on to where it has not paid yet, or has been seen to pay.
LEMMA RunMoves ==
  ASSUME ShopInv, NEW r \in ShopRuns, NotAwaiting(r), NEW next \in RunsOfShop,
         shopRun' = [shopRun EXCEPT ![r] = next], UNCHANGED <<feePool, feePaid, wallet>>,
         form' \in FormOfShop,
         ~(next.at = "awaitingPayReceipt" /\ next.got = "success"),
         next.at = "create" /\ next.try > 0 => next.wallet \in feePaid
  PROVE  ShopInv'
  <1>1. shopRun \in [ShopRuns -> RunsOfShop]
    BY DEF ShopInv, ShopTyped
  <1>2. /\ shopRun'[r] = next
        /\ \A s \in ShopRuns \ {r} : shopRun'[s] = shopRun[s]
    BY <1>1
  <1>3. ShopTyped'
    BY <1>1 DEF ShopInv, ShopTyped
  <1>4. AwaitedFee'
    <2>1. \A i \in DOMAIN feePool : feePool[i].run # 0 =>
              feePool[i].run \in ShopRuns \ {r}
      <3> TAKE i \in DOMAIN feePool
      <3>1. feePool[i] \in FeeTxs
        BY ElementOfSeq, LenProperties DEF ShopInv, ShopTyped
      <3> QED BY <3>1, NothingPending DEF FeeTxs
    <2>2. \A i \in DOMAIN feePool : feePool[i].run # 0 => shopRun'[feePool[i].run] = shopRun[feePool[i].run]
      BY <1>2, <2>1
    <2> QED BY <2>2 DEF ShopInv, AwaitedFee
  <1>5. ReceiptsAreTrue' /\ PaymentsReported'
    BY <1>2 DEF ShopInv, ReceiptsAreTrue, PaymentsReported
  <1> QED BY <1>3, <1>4, <1>5 DEF ShopInv

\* What happens to the dashboard, the form and the others leaves the runs and the fee alone.
LEMMA ShopAround ==
  ASSUME ShopInv, UNCHANGED <<feePool, feePaid, shopRun>>, wallet' \in Wallets \cup {NoWallet},
         form' \in FormOfShop
  PROVE  ShopInv'
  BY DEF ShopInv, ShopTyped, AwaitedFee, ReceiptsAreTrue, PaymentsReported

LEMMA DashboardKeepsInv ==
  ASSUME ShopInv,
         \/ \E w \in Wallets : Connects(w) \/ MirrorsFee(w)
         \/ Disconnects \/ AddressBlinks \/ ProfileArrives \/ ProfileFails \/ WatchdogFires
         \/ EditHandle \/ WindowElapses \/ StrangerTakesHandle
  PROVE  ShopInv'
  <1>1. ShopTyped /\ FormKept \in FormOfShop
    BY FormKeptTyped DEF ShopInv
  <1> USE DEF feeVars, dashVars
  <1>2. ASSUME NEW w \in Wallets, Connects(w) \/ MirrorsFee(w) PROVE ShopInv'
    BY <1>1, <1>2, ShopAround DEF Connects, MirrorsFee, ShopTyped
  <1>3. CASE Disconnects \/ AddressBlinks \/ WatchdogFires
    BY <1>1, <1>3, ShopAround DEF Disconnects, AddressBlinks, WatchdogFires, ShopTyped
  <1>4. CASE ProfileArrives \/ ProfileFails
    BY <1>1, <1>4, ShopAround DEF ProfileArrives, ProfileFails, ProfileSettles, ShopTyped
  <1>5. CASE EditHandle
    <2>1. form' \in FormOfShop
      BY <1>1, <1>5 DEF EditHandle, ShopTyped, FormOfShop
    <2> QED BY <1>1, <1>5, <2>1, ShopAround DEF EditHandle, ShopTyped
  <1>6. CASE WindowElapses \/ StrangerTakesHandle
    BY <1>1, <1>6, ShopAround DEF WindowElapses, StrangerTakesHandle, ShopTyped
  <1> QED BY <1>2, <1>3, <1>4, <1>5, <1>6
-------------------------------------------------------------------------------
\* Where a run stands next, and what it is when it has ended.
Standing(r, at) == [shopRun[r] EXCEPT !.at = at, !.got = "nothing"]

LEMMA RunTyped ==
  ASSUME ShopInv, NEW r \in ShopRuns
  PROVE  shopRun[r] \in RunsOfShop /\ NoRun \in RunsOfShop
  BY DEF ShopInv, ShopTyped, NoRun, RunsOfShop

LEMMA StandingIs ==
  ASSUME ShopInv, NEW r \in ShopRuns,
         NEW at \in {"approving", "paying", "awaitingApproveReceipt", "awaitingPayReceipt", "create"}
  PROVE  /\ Stands(r, at) = [shopRun EXCEPT ![r] = Standing(r, at)]
         /\ Standing(r, at) \in RunsOfShop
         /\ Standing(r, at).at = at /\ Standing(r, at).got = "nothing"
         /\ Standing(r, at).wallet = shopRun[r].wallet /\ Standing(r, at).try = shopRun[r].try
  <1>1. shopRun \in [ShopRuns -> RunsOfShop] /\ shopRun[r] \in RunsOfShop
    BY DEF ShopInv, ShopTyped
  <1>2. /\ Standing(r, at) \in RunsOfShop
        /\ Standing(r, at).at = at /\ Standing(r, at).got = "nothing"
        /\ Standing(r, at).wallet = shopRun[r].wallet /\ Standing(r, at).try = shopRun[r].try
    BY <1>1 DEF Standing, RunsOfShop
  <1>3. Stands(r, at) = [shopRun EXCEPT ![r] = Standing(r, at)]
    BY <1>1 DEF Stands, Standing, RunsOfShop
  <1> QED BY <1>2, <1>3

\* A run that ends leaves nothing of its own behind.
LEMMA RunEnds ==
  ASSUME ShopInv, NEW r \in ShopRuns, NotAwaiting(r), shopRun' = Ended(r),
         UNCHANGED <<feePool, feePaid, wallet>>, form' \in FormOfShop
  PROVE  ShopInv'
  BY RunMoves, RunTyped DEF Ended, NoRun

LEMMA StartsKeepsInv ==
  ASSUME ShopInv, NEW r \in ShopRuns, NEW at, NEW try, Starts(r, at, try),
         (at = "create" /\ try = 0) \/ (at = "checkingAllowance" /\ try = 1)
  PROVE  ShopInv'
  <1> DEFINE next == [NoRun EXCEPT !.at = at, !.wallet = wallet, !.handle = form.handle, !.try = try]
  <1>1. /\ shopRun' = [shopRun EXCEPT ![r] = next] /\ UNCHANGED <<feePool, feePaid, wallet>>
        /\ shopRun[r] = NoRun
        /\ form' = [form EXCEPT !.run = r, !.rejected = FALSE, !.phase = "idle"]
    BY DEF Starts, feeVars, dashVars
  <1>2. form \in FormOfShop /\ wallet \in Wallets \cup {NoWallet}
    BY DEF ShopInv, ShopTyped
  <1>3. next \in RunsOfShop /\ next.at = at /\ next.try = try
    <2>1. form.handle \in {"wish", "other"}
      BY <1>2 DEF FormOfShop
    <2>2. try \in Nat /\ at \in {"create", "checkingAllowance"}
      OBVIOUS
    <2> QED BY <1>2, <2>1, <2>2 DEF RunsOfShop, NoRun
  <1>4. form' \in FormOfShop
    BY <1>1, <1>2 DEF FormOfShop
  <1>5. NotAwaiting(r)
    BY <1>1 DEF NoRun, NotAwaiting
  <1>6. next.at # "awaitingPayReceipt" /\ ~(next.at = "create" /\ next.try > 0)
    BY <1>3
  <1> HIDE DEF next
  <1> QED BY <1>1, <1>3, <1>4, <1>5, <1>6, RunMoves

LEMMA SignsKeepsInv ==
  ASSUME ShopInv, NEW r \in ShopRuns, Signs(r)
  PROVE  ShopInv'
  <1> DEFINE at == IF shopRun[r].at = "approving" THEN "awaitingApproveReceipt" ELSE "awaitingPayReceipt"
             tx == [fn |-> shopRun[r].at, wallet |-> shopRun[r].wallet, run |-> r]
  <1>1. /\ shopRun[r].at \in {"approving", "paying"} /\ feePool' = Append(feePool, tx)
        /\ shopRun' = Stands(r, at) /\ UNCHANGED <<feePaid, wallet, form>>
    BY DEF Signs, dashVars
  <1>2. /\ shopRun' = [shopRun EXCEPT ![r] = Standing(r, at)] /\ Standing(r, at) \in RunsOfShop
        /\ Standing(r, at).at = at /\ Standing(r, at).got = "nothing"
        /\ Standing(r, at).wallet = shopRun[r].wallet
    <2>1. at \in {"awaitingApproveReceipt", "awaitingPayReceipt"}
      OBVIOUS
    <2> HIDE DEF at
    <2> QED BY <1>1, <2>1, StandingIs
  <1>3. /\ feePool \in Seq(FeeTxs) /\ shopRun \in [ShopRuns -> RunsOfShop]
        /\ wallet \in Wallets \cup {NoWallet} /\ form \in FormOfShop
    BY DEF ShopInv, ShopTyped
  <1>4. tx \in FeeTxs
    BY <1>1, <1>3 DEF FeeTxs, RunsOfShop
  <1>5. /\ feePool' \in Seq(FeeTxs) /\ Len(feePool) \in Nat
        /\ DOMAIN feePool = 1 .. Len(feePool) /\ DOMAIN feePool' = 1 .. Len(feePool) + 1
        /\ \A i \in 1 .. Len(feePool) : feePool'[i] = feePool[i]
        /\ feePool'[Len(feePool) + 1] = tx
    BY <1>1, <1>3, <1>4, AppendProperties, LenProperties
  <1>6. \A i \in DOMAIN feePool : feePool[i].run # r /\ feePool[i].run \in ShopRuns \cup {0}
    <2>1. NotAwaiting(r)
      BY <1>1 DEF NotAwaiting
    <2>2. \A i \in DOMAIN feePool : feePool[i] \in FeeTxs
      BY <1>3, <1>5, ElementOfSeq
    <2> QED BY <2>1, <2>2, NothingPending DEF FeeTxs
  <1>7. /\ shopRun'[r] = Standing(r, at)
        /\ \A s \in ShopRuns \ {r} : shopRun'[s] = shopRun[s]
    BY <1>2, <1>3
  <1>8. AwaitedFee'
    <2>1. ASSUME NEW i \in DOMAIN feePool', feePool'[i].run # 0
          PROVE  /\ shopRun'[feePool'[i].run].got = "nothing"
                 /\ shopRun'[feePool'[i].run].wallet = feePool'[i].wallet
                 /\ shopRun'[feePool'[i].run].at =
                      IF feePool'[i].fn = "paying" THEN "awaitingPayReceipt" ELSE "awaitingApproveReceipt"
      <3>1. CASE i = Len(feePool) + 1
        BY <1>1, <1>2, <1>5, <1>7, <3>1
      <3>2. CASE i # Len(feePool) + 1
        <4>1. i \in DOMAIN feePool /\ feePool'[i] = feePool[i]
          BY <1>5, <3>2
        <4> QED BY <1>6, <1>7, <2>1, <4>1 DEF ShopInv, AwaitedFee
      <3> QED BY <3>1, <3>2
    <2>2. ASSUME NEW i \in DOMAIN feePool', NEW j \in DOMAIN feePool', feePool'[i].run # 0,
                 feePool'[i].run = feePool'[j].run
          PROVE  i = j
      <3>1. CASE i = Len(feePool) + 1 \/ j = Len(feePool) + 1
        BY <1>5, <1>6, <2>2, <3>1
      <3>2. CASE i \in DOMAIN feePool /\ j \in DOMAIN feePool
        BY <1>5, <2>2, <3>2 DEF ShopInv, AwaitedFee
      <3> QED BY <1>5, <3>1, <3>2
    <2> QED BY <2>1, <2>2 DEF AwaitedFee
  <1>9. ReceiptsAreTrue' /\ PaymentsReported'
    BY <1>1, <1>2, <1>7 DEF ShopInv, ReceiptsAreTrue, PaymentsReported
  <1>10. ShopTyped'
    BY <1>1, <1>2, <1>3, <1>5 DEF ShopTyped
  <1> QED BY <1>8, <1>9, <1>10 DEF ShopInv

\* Nobody waits any more for some of the transactions.
LEMMA GivenUp ==
  ASSUME ShopInv, NEW R,
         feePool' = [i \in DOMAIN feePool |->
                       IF feePool[i].run \in R THEN [feePool[i] EXCEPT !.run = 0] ELSE feePool[i]]
  PROVE  /\ feePool' \in Seq(FeeTxs) /\ DOMAIN feePool' = DOMAIN feePool
         /\ \A i \in DOMAIN feePool :
              /\ feePool'[i].run \in ShopRuns \cup {0}
              /\ feePool'[i].run # 0 => feePool[i].run \notin R /\ feePool'[i] = feePool[i]
  <1>1. feePool \in Seq(FeeTxs) /\ DOMAIN feePool = 1 .. Len(feePool) /\ Len(feePool) \in Nat
    BY LenProperties DEF ShopInv, ShopTyped
  <1>2. \A i \in DOMAIN feePool : feePool'[i] \in FeeTxs
    <2> TAKE i \in DOMAIN feePool
    <2>1. feePool[i] \in FeeTxs
      BY <1>1, ElementOfSeq
    <2> QED BY <2>1 DEF FeeTxs
  <1>3. DOMAIN feePool' = 1 .. Len(feePool)
    BY <1>1
  <1>4. feePool' \in Seq(FeeTxs)
    <2> DEFINE e(i) == IF feePool[i].run \in R THEN [feePool[i] EXCEPT !.run = 0] ELSE feePool[i]
    <2>1. feePool' = [i \in 1 .. Len(feePool) |-> e(i)]
      BY <1>1
    <2>2. \A i \in 1 .. Len(feePool) : e(i) \in FeeTxs
      BY <1>1, <1>2
    <2> HIDE DEF e
    <2> QED BY <1>1, <2>1, <2>2, IsASeq
  <1>5. \A i \in DOMAIN feePool : feePool'[i].run # 0 => feePool[i].run \notin R /\ feePool'[i] = feePool[i]
    <2> SUFFICES ASSUME NEW i \in DOMAIN feePool, feePool'[i].run # 0
                 PROVE  feePool[i].run \notin R /\ feePool'[i] = feePool[i]
      OBVIOUS
    <2>1. feePool[i] \in FeeTxs
      BY <1>1, ElementOfSeq
    <2> QED BY <2>1 DEF FeeTxs
  <1>6. \A i \in DOMAIN feePool : feePool'[i].run \in ShopRuns \cup {0}
    BY <1>2 DEF FeeTxs
  <1> QED BY <1>1, <1>3, <1>4, <1>5, <1>6

LEMMA GivenUpKeepsInv ==
  ASSUME ShopInv, NEW R, shopRun' \in [ShopRuns -> RunsOfShop],
         feePool' = [i \in DOMAIN feePool |->
                       IF feePool[i].run \in R THEN [feePool[i] EXCEPT !.run = 0] ELSE feePool[i]],
         \A s \in ShopRuns : shopRun'[s] = NoRun \/ (s \notin R /\ shopRun'[s] = shopRun[s]),
         \A i \in DOMAIN feePool : feePool[i].run # 0 /\ feePool[i].run \notin R =>
             shopRun'[feePool[i].run] = shopRun[feePool[i].run],
         UNCHANGED feePaid, wallet' \in Wallets \cup {NoWallet}, form' \in FormOfShop
  PROVE  ShopInv'
  <1>1. /\ feePool' \in Seq(FeeTxs) /\ DOMAIN feePool' = DOMAIN feePool
        /\ \A i \in DOMAIN feePool :
              feePool'[i].run # 0 => feePool[i].run \notin R /\ feePool'[i] = feePool[i]
    BY GivenUp
  <1> HIDE DEF RunsOfShop
  <1>2. ASSUME NEW i \in DOMAIN feePool', feePool'[i].run # 0
        PROVE  /\ feePool'[i] = feePool[i] /\ shopRun'[feePool[i].run] = shopRun[feePool[i].run]
               /\ i \in DOMAIN feePool
    BY <1>1, <1>2
  <1>3. AwaitedFee'
    <2>1. ASSUME NEW i \in DOMAIN feePool', feePool'[i].run # 0
          PROVE  /\ shopRun'[feePool'[i].run].got = "nothing"
                 /\ shopRun'[feePool'[i].run].wallet = feePool'[i].wallet
                 /\ shopRun'[feePool'[i].run].at =
                      IF feePool'[i].fn = "paying" THEN "awaitingPayReceipt" ELSE "awaitingApproveReceipt"
      BY <1>2, <2>1 DEF ShopInv, AwaitedFee
    <2>2. ASSUME NEW i \in DOMAIN feePool', NEW j \in DOMAIN feePool', feePool'[i].run # 0,
                 feePool'[i].run = feePool'[j].run
          PROVE  i = j
      BY <1>2, <2>2 DEF ShopInv, AwaitedFee
    <2> QED BY <2>1, <2>2 DEF AwaitedFee
  <1>4. ReceiptsAreTrue' /\ PaymentsReported'
    BY DEF ShopInv, ReceiptsAreTrue, PaymentsReported, NoRun
  <1> QED BY <1>1, <1>3, <1>4 DEF ShopInv, ShopTyped

LEMMA PayFailsKeepsInv ==
  ASSUME ShopInv, NEW r \in ShopRuns, PayFails(r)
  PROVE  ShopInv'
  <1>1. shopRun \in [ShopRuns -> RunsOfShop] /\ form \in FormOfShop /\ ShopTyped
    BY DEF ShopInv, ShopTyped
  <1>2. /\ shopRun' = [shopRun EXCEPT ![r] = NoRun]
        /\ feePool' = [i \in DOMAIN feePool |->
                        IF feePool[i].run \in {r} THEN [feePool[i] EXCEPT !.run = 0] ELSE feePool[i]]
        /\ UNCHANGED <<feePaid, wallet>>
    BY DEF PayFails, Ended, dashVars
  <1>3. form' \in FormOfShop
    <2>1. [form EXCEPT !.run = 0, !.phase = "error"] \in FormOfShop
      BY <1>1 DEF FormOfShop
    <2> QED BY <1>1, <2>1, TellsTyped DEF PayFails
  <1>4. shopRun' \in [ShopRuns -> RunsOfShop]
    BY <1>1, <1>2, RunTyped
  <1>5. \A s \in ShopRuns : shopRun'[s] = NoRun \/ (s \notin {r} /\ shopRun'[s] = shopRun[s])
    <2> TAKE s \in ShopRuns
    <2>1. CASE s = r
      BY <1>1, <1>2, <2>1
    <2>2. CASE s # r
      BY <1>1, <1>2, <2>2
    <2> QED BY <2>1, <2>2
  <1>6. \A i \in DOMAIN feePool : feePool[i].run # 0 /\ feePool[i].run \notin {r} =>
            shopRun'[feePool[i].run] = shopRun[feePool[i].run]
    BY <1>1, <1>2
  <1>7. wallet' \in Wallets \cup {NoWallet}
    BY <1>1, <1>2 DEF ShopTyped
  <1> QED BY <1>2, <1>3, <1>4, <1>5, <1>6, <1>7, GivenUpKeepsInv

LEMMA ReloadKeepsInv == ShopInv /\ Reload => ShopInv'
  <1> SUFFICES ASSUME ShopInv, Reload PROVE ShopInv'
    OBVIOUS
  <1> DEFINE R == ShopRuns \cup {0}
  <1>1. /\ shopRun' = [r \in ShopRuns |-> NoRun] /\ wallet' = NoWallet /\ form' = NewForm
        /\ feePool' = [i \in DOMAIN feePool |-> [feePool[i] EXCEPT !.run = 0]] /\ UNCHANGED feePaid
    BY DEF Reload
  <1>2. \A i \in DOMAIN feePool : feePool[i].run \in R
    <2> TAKE i \in DOMAIN feePool
    <2>1. feePool[i] \in FeeTxs
      BY ElementOfSeq, LenProperties DEF ShopInv, ShopTyped
    <2> QED BY <2>1 DEF FeeTxs
  <1>3. feePool' = [i \in DOMAIN feePool |->
                      IF feePool[i].run \in R THEN [feePool[i] EXCEPT !.run = 0] ELSE feePool[i]]
    BY <1>1, <1>2
  <1>4. shopRun' \in [ShopRuns -> RunsOfShop] /\ form' \in FormOfShop
    BY <1>1 DEF NoRun, RunsOfShop, NewForm, FormOfShop
  <1>5. \A s \in ShopRuns : shopRun'[s] = NoRun
    BY <1>1
  <1>6. \A i \in DOMAIN feePool : feePool[i].run # 0 /\ feePool[i].run \notin R =>
            shopRun'[feePool[i].run] = shopRun[feePool[i].run]
    BY <1>2
  <1> HIDE DEF R
  <1> QED BY <1>1, <1>3, <1>4, <1>5, <1>6, GivenUpKeepsInv

LEMMA FeeReceiptKeepsInv ==
  ASSUME ShopInv, NEW r \in ShopRuns, FeeReceipt(r)
  PROVE  ShopInv'
  <1> DEFINE at == IF shopRun[r].at = "awaitingApproveReceipt" THEN "paying" ELSE "create"
  <1>1. /\ shopRun[r].got = "success" /\ shopRun' = Stands(r, at) /\ UNCHANGED <<feePool, feePaid, wallet>>
        /\ shopRun[r].at \in {"awaitingApproveReceipt", "awaitingPayReceipt"}
    BY DEF FeeReceipt, Awaiting, ReceiptIsGood, feeVars, dashVars
  <1>2. at \in {"paying", "create"} /\ (at = "create" => shopRun[r].at = "awaitingPayReceipt")
    BY <1>1
  <1> HIDE DEF at
  <1>3. /\ shopRun' = [shopRun EXCEPT ![r] = Standing(r, at)] /\ Standing(r, at) \in RunsOfShop
        /\ Standing(r, at).at = at /\ Standing(r, at).got = "nothing"
        /\ Standing(r, at).wallet = shopRun[r].wallet
    BY <1>1, <1>2, StandingIs
  <1>4. form' \in FormOfShop
    <2>1. form \in FormOfShop /\ ShopTyped
      BY DEF ShopInv, ShopTyped
    <2>2. [form EXCEPT !.phase = "success"] \in FormOfShop
      BY <2>1 DEF FormOfShop
    <2> QED BY <2>1, <2>2, TellsTyped DEF FeeReceipt
  <1>5. NotAwaiting(r)
    BY <1>1 DEF NotAwaiting
  <1>6. at = "create" => shopRun[r].wallet \in feePaid
    BY <1>1, <1>2 DEF ShopInv, ReceiptsAreTrue
  <1> QED BY <1>1, <1>3, <1>4, <1>5, <1>6, RunMoves

LEMMA CreationKeepsInv ==
  ASSUME ShopInv, NEW r \in ShopRuns,
         FeeRequired(r) \/ Refuses(r) \/ HasShop(r) \/ Creates(r) \/ CreateFails(r)
  PROVE  ShopInv'
  <1>1. /\ shopRun[r].at = "create" /\ NotAwaiting(r) /\ UNCHANGED <<feePool, feePaid, wallet>>
    BY DEF FeeRequired, Refuses, HasShop, Creates, CreateFails, NotAwaiting, feeVars, dashVars
  <1>2. ShopTyped /\ form \in FormOfShop /\ FormKept \in FormOfShop /\ shopRun[r] \in RunsOfShop
    BY FormKeptTyped, RunTyped DEF ShopInv, ShopTyped
  <1>3. /\ [form EXCEPT !.run = 0] \in FormOfShop
        /\ [form EXCEPT !.run = 0, !.rejected = TRUE] \in FormOfShop
        /\ [form EXCEPT !.run = 0, !.fee = TRUE] \in FormOfShop
    BY <1>2 DEF FormOfShop
  <1>4. form' \in FormOfShop
    BY <1>2, <1>3, TellsTyped DEF FeeRequired, Refuses, HasShop, Creates, CreateFails
  <1>5. CASE shopRun' = Ended(r)
    BY <1>1, <1>4, <1>5, RunEnds
  <1>6. CASE shopRun[r].try \in 1 .. FeeTries - 1 /\ shopRun' = [shopRun EXCEPT ![r].try = @ + 1]
    <2> DEFINE next == [shopRun[r] EXCEPT !.try = @ + 1]
    <2>1. shopRun' = [shopRun EXCEPT ![r] = next]
      BY <1>6
    <2>2. /\ next \in RunsOfShop /\ next.at = "create" /\ next.wallet = shopRun[r].wallet
      BY <1>1, <1>2 DEF RunsOfShop
    <2>3. shopRun[r].wallet \in feePaid
      <3>1. shopRun[r].try > 0
        BY <1>6, ShopDeskAssumption
      <3> QED BY <1>1, <3>1 DEF ShopInv, PaymentsReported
    <2> HIDE DEF next
    <2> QED BY <1>1, <1>4, <2>1, <2>2, <2>3, RunMoves
  <1> QED BY <1>5, <1>6 DEF FeeRequired, Refuses, HasShop, Creates, CreateFails

LEMMA MinesFeeKeepsInv == ShopInv /\ MinesFee => ShopInv'
  <1> SUFFICES ASSUME ShopInv, MinesFee PROVE ShopInv'
    OBVIOUS
  <1> DEFINE tx == Head(feePool)
             ok == tx.fn = "paying" => tx.wallet \in allowed \ feePaid
             got == IF ok THEN "success" ELSE "reverted"
  <1>1. /\ feePool # <<>> /\ feePool' = Tail(feePool) /\ UNCHANGED <<wallet, form>>
        /\ shopRun' = IF tx.run = 0 THEN shopRun ELSE [shopRun EXCEPT ![tx.run].got = got]
    BY DEF MinesFee, dashVars
  <1>2. feePaid \subseteq feePaid' /\ (tx.fn = "paying" /\ ok => tx.wallet \in feePaid')
    BY DEF MinesFee
  <1>3. /\ feePool \in Seq(FeeTxs) /\ shopRun \in [ShopRuns -> RunsOfShop]
        /\ wallet \in Wallets \cup {NoWallet} /\ form \in FormOfShop
    BY DEF ShopInv, ShopTyped
  <1>4. /\ feePool' \in Seq(FeeTxs) /\ tx = feePool[1] /\ tx \in FeeTxs
        /\ 1 \in DOMAIN feePool
        /\ \A i \in DOMAIN feePool' :
              i + 1 \in DOMAIN feePool /\ feePool'[i] = feePool[i + 1] /\ i \in Nat \ {0}
    BY <1>1, <1>3, HeadTailProperties
  <1>5. ok \in BOOLEAN /\ got \in {"success", "reverted"}
    OBVIOUS
  <1>6. /\ shopRun' \in [ShopRuns -> RunsOfShop]
        /\ \A s \in ShopRuns :
             /\ s # tx.run => shopRun'[s] = shopRun[s]
             /\ s = tx.run => shopRun'[s] = [shopRun[s] EXCEPT !.got = got]
             /\ shopRun'[s].at = shopRun[s].at /\ shopRun'[s].wallet = shopRun[s].wallet
             /\ shopRun'[s].try = shopRun[s].try
             /\ s = tx.run => shopRun'[s].got = got
    <2>1. CASE tx.run = 0
      BY <1>1, <1>3, <2>1, ShopDeskAssumption
    <2>2. CASE tx.run # 0
      <3> HIDE DEF got
      <3>1. shopRun' = [shopRun EXCEPT ![tx.run].got = got] /\ tx.run \in ShopRuns
        BY <1>1, <1>4, <2>2 DEF FeeTxs
      <3>2. \A s \in ShopRuns :
               shopRun'[s] = IF s = tx.run THEN [shopRun[s] EXCEPT !.got = got] ELSE shopRun[s]
        BY <1>3, <3>1
      <3>3. \A s \in ShopRuns :
               /\ [shopRun[s] EXCEPT !.got = got] \in RunsOfShop
               /\ [shopRun[s] EXCEPT !.got = got].at = shopRun[s].at
               /\ [shopRun[s] EXCEPT !.got = got].wallet = shopRun[s].wallet
               /\ [shopRun[s] EXCEPT !.got = got].try = shopRun[s].try
               /\ [shopRun[s] EXCEPT !.got = got].got = got
        <4> TAKE s \in ShopRuns
        <4>1. shopRun[s] \in RunsOfShop
          BY <1>3
        <4> QED BY <1>5, <4>1 DEF RunsOfShop
      <3> HIDE DEF tx
      <3>4. shopRun' \in [ShopRuns -> RunsOfShop]
        BY <1>3, <3>1, <3>3
      <3> QED BY <3>2, <3>3, <3>4
    <2> QED BY <2>1, <2>2
  <1>7. \A i \in DOMAIN feePool' : feePool'[i].run # 0 => feePool'[i].run # tx.run
    BY <1>4 DEF ShopInv, AwaitedFee
  <1>8. \A i \in DOMAIN feePool' : feePool'[i].run \in ShopRuns \cup {0}
    <2> TAKE i \in DOMAIN feePool'
    <2>1. feePool'[i] \in FeeTxs
      BY <1>4, ElementOfSeq, LenProperties
    <2> QED BY <2>1 DEF FeeTxs
  <1> HIDE DEF got, ok, tx
  <1>9. AwaitedFee'
    <2>1. ASSUME NEW i \in DOMAIN feePool', feePool'[i].run # 0
          PROVE  /\ shopRun'[feePool'[i].run].got = "nothing"
                 /\ shopRun'[feePool'[i].run].wallet = feePool'[i].wallet
                 /\ shopRun'[feePool'[i].run].at =
                      IF feePool'[i].fn = "paying" THEN "awaitingPayReceipt" ELSE "awaitingApproveReceipt"
      <3>1. shopRun'[feePool'[i].run] = shopRun[feePool'[i].run]
        BY <1>6, <1>7, <1>8, <2>1
      <3> QED BY <1>4, <2>1, <3>1 DEF ShopInv, AwaitedFee
    <2>2. ASSUME NEW i \in DOMAIN feePool', NEW j \in DOMAIN feePool', feePool'[i].run # 0,
                 feePool'[i].run = feePool'[j].run
          PROVE  i = j
      <3>1. i + 1 = j + 1
        BY <1>4, <2>2 DEF ShopInv, AwaitedFee
      <3> QED BY <1>4, <3>1
    <2> QED BY <2>1, <2>2 DEF AwaitedFee
  <1>10. ReceiptsAreTrue'
    <2> SUFFICES ASSUME NEW s \in ShopRuns, shopRun'[s].at = "awaitingPayReceipt",
                        shopRun'[s].got = "success"
                 PROVE  shopRun'[s].wallet \in feePaid'
      BY DEF ReceiptsAreTrue
    <2>1. CASE s = tx.run
      <3>1. /\ shopRun[s].at = IF tx.fn = "paying" THEN "awaitingPayReceipt" ELSE "awaitingApproveReceipt"
            /\ shopRun[s].wallet = tx.wallet
        BY <1>4, <2>1, ShopDeskAssumption DEF ShopInv, AwaitedFee
      <3>2. tx.fn = "paying"
        BY <1>6, <3>1
      <3>3. ok
        <4>1. got = "success"
          BY <1>6, <2>1
        <4> QED BY <4>1 DEF got
      <3> QED BY <1>2, <1>6, <3>1, <3>2, <3>3 DEF ok
    <2>2. CASE s # tx.run
      BY <1>2, <1>6, <2>2 DEF ShopInv, ReceiptsAreTrue
    <2> QED BY <2>1, <2>2
  <1>11. PaymentsReported'
    BY <1>2, <1>6 DEF ShopInv, PaymentsReported
  <1> QED BY <1>1, <1>3, <1>4, <1>6, <1>9, <1>10, <1>11 DEF ShopInv, ShopTyped

LEMMA ShopRunStepKeepsInv ==
  ASSUME ShopInv, NEW r \in ShopRuns, Submit(r) \/ Pay(r) \/ ShopRunStep(r)
  PROVE  ShopInv'
  <1>1. CASE Submit(r)
    <2>1. Starts(r, "create", 0)
      BY <1>1 DEF Submit
    <2> QED BY <2>1, StartsKeepsInv
  <1>2. CASE Pay(r)
    <2>1. Starts(r, "checkingAllowance", 1)
      BY <1>2 DEF Pay
    <2> QED BY <2>1, StartsKeepsInv
  <1>3. CASE ReadsAllowance(r)
    <2>1. PICK at \in {"paying", "approving"} : shopRun' = Stands(r, at)
      BY <1>3 DEF ReadsAllowance
    <2>2. /\ shopRun' = [shopRun EXCEPT ![r] = Standing(r, at)] /\ Standing(r, at) \in RunsOfShop
          /\ Standing(r, at).at = at
      BY <2>1, StandingIs
    <2>3. NotAwaiting(r) /\ UNCHANGED <<feePool, feePaid, wallet, form>>
      BY <1>3 DEF ReadsAllowance, NotAwaiting, feeVars, dashVars
    <2>4. form' \in FormOfShop
      BY <2>3 DEF ShopInv, ShopTyped
    <2> QED BY <2>2, <2>3, <2>4, RunMoves
  <1>4. CASE Signs(r)
    BY <1>4, SignsKeepsInv
  <1>5. CASE Rejects(r)
    <2>1. ShopTyped /\ [form EXCEPT !.run = 0, !.phase = "canceled"] \in FormOfShop
      BY DEF ShopInv, ShopTyped, FormOfShop
    <2>2. form' \in FormOfShop
      BY <1>5, <2>1, TellsTyped DEF Rejects
    <2> QED BY <1>5, <2>2, RunEnds DEF Rejects, NotAwaiting, feeVars, dashVars
  <1>6. CASE PayFails(r)
    BY <1>6, PayFailsKeepsInv
  <1>7. CASE FeeReceipt(r)
    BY <1>7, FeeReceiptKeepsInv
  <1>8. CASE FeeRequired(r) \/ Refuses(r) \/ HasShop(r) \/ Creates(r) \/ CreateFails(r)
    BY <1>8, CreationKeepsInv
  <1> QED BY <1>1, <1>2, <1>3, <1>4, <1>5, <1>6, <1>7, <1>8 DEF ShopRunStep

LEMMA ShopKeepsInv == ShopInv /\ [ShopNext]_shopVars => ShopInv'
  <1> SUFFICES ASSUME ShopInv, [ShopNext]_shopVars PROVE ShopInv'
    OBVIOUS
  <1>1. CASE UNCHANGED shopVars
    BY <1>1, ShopAround DEF ShopInv, ShopTyped, shopVars, feeVars, dashVars
  <1>2. CASE MinesFee \/ Reload
    BY <1>2, MinesFeeKeepsInv, ReloadKeepsInv
  <1>3. ASSUME NEW r \in ShopRuns, Submit(r) \/ Pay(r) \/ ShopRunStep(r) PROVE ShopInv'
    BY <1>3, ShopRunStepKeepsInv
  <1>4. CASE \/ \E w \in Wallets : Connects(w) \/ MirrorsFee(w)
             \/ Disconnects \/ AddressBlinks \/ ProfileArrives \/ ProfileFails \/ WatchdogFires
             \/ EditHandle \/ WindowElapses \/ StrangerTakesHandle
    BY <1>4, DashboardKeepsInv
  <1> QED BY <1>1, <1>2, <1>3, <1>4 DEF ShopNext
-------------------------------------------------------------------------------

(***************************************************************************)
(* The addresses.                                                          *)
(***************************************************************************)
Reading == {"found", "decided"}

AnyRequest ==
    [at : {"off", "sent", "found", "decided", "failed", "done"},
     op : {"none", "create", "update", "delete", "set"}, on : Nat, was : BOOLEAN, with : SUBSET Nat,
     met : BOOLEAN]

RequestsOfBook == {r \in AnyRequest : r.at \in {"sent", "found", "decided"} => r.op # "none"}

BooksHeld == [all : SUBSET Nat, default : SUBSET Nat]

BookTyped ==
    /\ saved \in Nat /\ kept \subseteq 1 .. saved /\ default \subseteq Nat /\ muddled \in BOOLEAN
    /\ request \in [Callers -> RequestsOfBook]
    /\ book \in BooksHeld /\ bringing \in BooksHeld

\* What a request has read that no commit has overlapped with.
KnowsTheRows(r) ==
    /\ r.op = "create" => (r.was <=> kept = {})
    /\ r.op \in {"delete", "set"} => r.on \in kept /\ (r.was <=> r.on \in default)
    /\ r.op = "delete" /\ r.at = "decided" => r.with = Replacement(r)
    /\ r.op = "set" /\ r.at = "decided" => r.with = OtherDefaults(r)

Alone(r) == r.at \in Reading /\ r.op # "update" /\ ~r.met

ReadsAreFresh == \A c \in Callers : Alone(request[c]) => KnowsTheRows(request[c])

SoleDefault ==
    /\ kept = {} => default = {}
    /\ kept # {} => \E id \in kept : default = {id}

BookInv == BookTyped /\ ReadsAreFresh /\ (~muddled => SoleDefault)

LEMMA BookStarts == BookInit => BookInv
  <1> SUFFICES ASSUME BookInit PROVE BookInv
    OBVIOUS
  <1>1. NoAsk \in RequestsOfBook /\ Unloaded \in BooksHeld
    BY DEF NoAsk, RequestsOfBook, AnyRequest, Unloaded, BooksHeld, None
  <1>2. BookTyped
    BY <1>1 DEF BookInit, BookTyped
  <1>3. ReadsAreFresh
    BY DEF BookInit, ReadsAreFresh, Alone, Reading, NoAsk
  <1> QED BY <1>2, <1>3 DEF BookInit, BookInv, SoleDefault

LEMMA NewestIsLeft ==
  ASSUME NEW n \in Nat, NEW left \in SUBSET (1 .. n), left # {}
  PROVE  Max(left) \in left
  <1> DEFINE R == OpToRel(<, Nat)
             ages == {n - id : id \in left}
  <1>1. ages \in SUBSET Nat /\ ages # {}
    <2>1. \A id \in left : n - id \in Nat
      OBVIOUS
    <2> QED BY <2>1
  <1>2. PICK age \in ages : \A other \in ages : <<other, age>> \notin R
    <2>1. IsWellFoundedOn(R, Nat)
      BY NatLessThanWellFounded
    <2> HIDE DEF R, ages
    <2> QED BY <1>1, <2>1, WFMin
  <1>3. PICK id \in left : age = n - id
    BY <1>2
  <1>4. ASSUME NEW other \in left PROVE id >= other
    <2>1. n - other \in ages /\ n - other \in Nat /\ age \in Nat
      BY <1>1, <1>2
    <2>2. ~(n - other < age)
      BY <1>2, <2>1 DEF OpToRel
    <2> QED BY <1>3, <2>2
  <1> QED BY <1>4 DEF Max

LEMMA RowsKnown ==
  ASSUME UNCHANGED bookRowVars, NEW x, KnowsTheRows(x)
  PROVE  KnowsTheRows(x)'
  BY DEF KnowsTheRows, Replacement, OtherDefaults, bookRowVars

\* The rows stay as they are, and a request moves on.
LEMMA RequestMovesOn ==
  ASSUME BookInv, UNCHANGED bookRowVars, NEW c \in Callers, NEW r \in RequestsOfBook,
         request' = [request EXCEPT ![c] = r], Alone(r) => KnowsTheRows(r),
         book' \in BooksHeld, bringing' \in BooksHeld
  PROVE  BookInv'
  <1>1. request \in [Callers -> RequestsOfBook]
    BY DEF BookInv, BookTyped
  <1>2. \A d \in Callers : request'[d] = IF d = c THEN r ELSE request[d]
    BY <1>1
  <1>3. ReadsAreFresh'
    <2> SUFFICES ASSUME NEW d \in Callers, Alone(request[d])' PROVE KnowsTheRows(request[d])'
      BY DEF ReadsAreFresh
    <2>1. PICK x : x = request'[d]
      OBVIOUS
    <2>2. Alone(x)
      BY <2>1 DEF Alone
    <2>3. KnowsTheRows(x)
      <3>1. CASE d = c
        BY <1>2, <2>1, <2>2, <3>1
      <3>2. CASE d # c
        BY <1>2, <2>1, <2>2, <3>2 DEF BookInv, ReadsAreFresh
      <3> QED BY <3>1, <3>2
    <2>4. KnowsTheRows(x)'
      BY <2>3, RowsKnown
    <2> QED BY <2>1, <2>4 DEF KnowsTheRows, Replacement, OtherDefaults
  <1>4. BookTyped'
    BY <1>1 DEF BookInv, BookTyped, bookRowVars
  <1> QED BY <1>3, <1>4 DEF BookInv, SoleDefault, bookRowVars

LEMMA PageMovesOn ==
  ASSUME BookInv, UNCHANGED <<bookRowVars, request>>, book' \in BooksHeld, bringing' \in BooksHeld
  PROVE  BookInv'
  BY DEF BookInv, BookTyped, ReadsAreFresh, SoleDefault, KnowsTheRows, Alone, Replacement,
         OtherDefaults, bookRowVars

LEMMA BooksTyped ==
  ASSUME BookInv
  PROVE  /\ book \in BooksHeld /\ bringing \in BooksHeld /\ Unloaded \in BooksHeld
         /\ Listing \in BooksHeld
         /\ \A c \in Callers : request[c] \in RequestsOfBook
         /\ NoAsk \in RequestsOfBook /\ [NoAsk EXCEPT !.at = "failed"] \in RequestsOfBook
         /\ [NoAsk EXCEPT !.at = "done"] \in RequestsOfBook
  <1>1. Listing \in BooksHeld
    BY DEF BookInv, BookTyped, Listing, BooksHeld
  <1>2. Unloaded \in BooksHeld
    BY DEF Unloaded, BooksHeld, None
  <1>3. /\ NoAsk \in RequestsOfBook /\ [NoAsk EXCEPT !.at = "failed"] \in RequestsOfBook
        /\ [NoAsk EXCEPT !.at = "done"] \in RequestsOfBook
    BY DEF NoAsk, RequestsOfBook, AnyRequest, None
  <1> QED BY <1>1, <1>2, <1>3 DEF BookInv, BookTyped

LEMMA FindsKeepsInv ==
  ASSUME BookInv, NEW c \in Callers, Finds(c)
  PROVE  BookInv'
  <1> DEFINE r == request[c]
             found == r.op = "create" \/ r.on \in kept
             was == IF r.op = "create" THEN kept = {} ELSE r.on \in default
             next == [r EXCEPT !.at = IF found THEN "found" ELSE "failed", !.was = found /\ was]
  <1>1. request' = [request EXCEPT ![c] = next] /\ UNCHANGED <<bookRowVars, book, bringing>>
    BY DEF Finds, StepsTo, queryVars
  <1>2. r \in RequestsOfBook /\ book \in BooksHeld /\ bringing \in BooksHeld
    BY BooksTyped
  <1>3. found \in BOOLEAN /\ was \in BOOLEAN /\ (found /\ was) \in BOOLEAN
    <2>1. (kept = {}) \in BOOLEAN /\ (r.on \in default) \in BOOLEAN
      OBVIOUS
    <2>2. was \in BOOLEAN
      <3>1. CASE r.op = "create"
        BY <2>1, <3>1
      <3>2. CASE r.op # "create"
        BY <2>1, <3>2
      <3> QED BY <3>1, <3>2
    <2>3. found \in BOOLEAN
      OBVIOUS
    <2> HIDE DEF found, was
    <2> QED BY <2>2, <2>3
  <1>4. /\ next \in RequestsOfBook /\ next.op = r.op /\ next.on = r.on
        /\ next.at = IF found THEN "found" ELSE "failed"
        /\ next.was = (found /\ was)
    <2>1. r.at = "sent"
      BY DEF Finds
    <2> HIDE DEF found, was
    <2> QED BY <1>2, <1>3, <2>1 DEF RequestsOfBook, AnyRequest
  <1>5. Alone(next) => KnowsTheRows(next)
    <2> SUFFICES ASSUME Alone(next) PROVE KnowsTheRows(next)
      OBVIOUS
    <2>1. found
      BY <1>4 DEF Alone, Reading
    <2>2. next.at = "found" /\ (next.was <=> was)
      BY <1>3, <1>4, <2>1
    <2>3. next.op = "create" => (next.was <=> kept = {})
      BY <1>4, <2>2
    <2>4. next.op \in {"delete", "set"} => next.on \in kept /\ (next.was <=> next.on \in default)
      BY <1>4, <2>1, <2>2
    <2> HIDE DEF next
    <2> QED BY <2>2, <2>3, <2>4 DEF KnowsTheRows
  <1> HIDE DEF next
  <1> QED BY <1>1, <1>2, <1>4, <1>5, RequestMovesOn

LEMMA DecidesKeepsInv ==
  ASSUME BookInv, NEW c \in Callers, Decides(c)
  PROVE  BookInv'
  <1> DEFINE r == request[c]
             changed == IF r.op = "delete" THEN Replacement(r) ELSE OtherDefaults(r)
             next == [r EXCEPT !.at = "decided", !.with = changed]
  <1>1. /\ r.at = "found" /\ r.op \in {"delete", "set"}
        /\ request' = [request EXCEPT ![c] = next] /\ UNCHANGED <<bookRowVars, book, bringing>>
    BY DEF Decides, StepsTo, queryVars
  <1>2. r \in RequestsOfBook /\ book \in BooksHeld /\ bringing \in BooksHeld
    BY BooksTyped
  <1>3. changed \in SUBSET Nat
    <2>1. Replacement(r) \in SUBSET Nat
      <3> DEFINE left == kept \ {r.on}
      <3>1. saved \in Nat /\ left \in SUBSET (1 .. saved)
        BY DEF BookInv, BookTyped
      <3>2. left # {} => Max(left) \in left
        BY <3>1, NewestIsLeft
      <3> QED BY <3>1, <3>2 DEF Replacement
    <2>2. OtherDefaults(r) \in SUBSET Nat
      BY DEF BookInv, BookTyped, OtherDefaults
    <2> QED BY <2>1, <2>2
  <1>4. /\ next \in RequestsOfBook /\ next.op = r.op /\ next.on = r.on /\ next.was = r.was
        /\ next.met = r.met /\ next.at = "decided" /\ next.with = changed
    <2> HIDE DEF changed
    <2> QED BY <1>1, <1>2, <1>3 DEF RequestsOfBook, AnyRequest
  <1>5. Replacement(next) = Replacement(r) /\ OtherDefaults(next) = OtherDefaults(r)
    <2> HIDE DEF next
    <2> QED BY <1>4 DEF Replacement, OtherDefaults
  <1>6. Alone(next) => KnowsTheRows(next)
    <2> SUFFICES ASSUME Alone(next) PROVE KnowsTheRows(next)
      OBVIOUS
    <2>1. Alone(r)
      BY <1>1, <1>4 DEF Alone, Reading
    <2>2. KnowsTheRows(r)
      BY <2>1 DEF BookInv, ReadsAreFresh
    <2> HIDE DEF next
    <2> QED BY <1>1, <1>4, <1>5, <2>2 DEF KnowsTheRows
  <1> HIDE DEF next
  <1> QED BY <1>1, <1>2, <1>4, <1>6, RequestMovesOn

LEMMA AsksKeepsInv ==
  ASSUME BookInv, NEW c \in Callers, NEW op \in {"create", "update", "delete", "set"}, NEW id \in Nat,
         Asks(c, op, id)
  PROVE  BookInv'
  <1> DEFINE next == [NoAsk EXCEPT !.at = "sent", !.op = op, !.on = id]
  <1>1. request' = [request EXCEPT ![c] = next] /\ UNCHANGED <<bookRowVars, book, bringing>>
    BY DEF Asks, queryVars
  <1>2. next \in RequestsOfBook /\ next.at = "sent"
    BY DEF NoAsk, RequestsOfBook, AnyRequest
  <1>3. Alone(next) => KnowsTheRows(next)
    BY <1>2 DEF Alone, Reading
  <1> HIDE DEF next
  <1> QED BY <1>1, <1>2, <1>3, BooksTyped, RequestMovesOn

\* The book a commit makes of what it has read, when nothing has overlapped.
LEMMA CommitsSoleDefault ==
  ASSUME BookInv, NEW c \in Callers, Commits(c), request[c].op # "update", ~muddled'
  PROVE  SoleDefault'
  <1> DEFINE r == request[c]
  <1>1. saved \in Nat /\ kept \subseteq 1 .. saved /\ r \in RequestsOfBook
    BY DEF BookInv, BookTyped
  <1>2. ~r.met /\ (muddled => r.op = "set")
    BY DEF Commits
  <1>3. KnowsTheRows(r)
    <2>1. Alone(r)
      BY <1>2 DEF Alone, Reading, Commits
    <2> QED BY <2>1 DEF BookInv, ReadsAreFresh
  <1>4. CASE r.op = "create"
    <2>1. SoleDefault /\ (r.was <=> kept = {})
      BY <1>2, <1>3, <1>4 DEF BookInv, KnowsTheRows
    <2>2. /\ kept' = kept \cup {saved + 1}
          /\ default' = IF r.was THEN default \cup {saved + 1} ELSE default
      BY <1>4 DEF Commits
    <2>3. CASE kept = {}
      <3>1. default' = {saved + 1}
        BY <2>1, <2>2, <2>3 DEF SoleDefault
      <3> QED BY <2>2, <3>1 DEF SoleDefault
    <2>4. CASE kept # {}
      <3>1. default' = default
        BY <2>1, <2>2, <2>4
      <3> QED BY <2>1, <2>2, <2>4, <3>1 DEF SoleDefault
    <2> QED BY <2>3, <2>4
  <1>5. CASE r.op = "delete"
    <2> DEFINE left == kept \ {r.on}
    <2>1. SoleDefault /\ r.on \in kept /\ (r.was <=> r.on \in default) /\ r.with = Replacement(r)
      BY <1>2, <1>3, <1>5 DEF BookInv, KnowsTheRows, Commits
    <2>2. /\ kept' = left
          /\ default' = (IF r.was THEN default \ {r.on} ELSE default) \cup r.with
      BY <1>5 DEF Commits
    <2>3. PICK id \in kept : default = {id}
      BY <2>1 DEF SoleDefault
    <2>4. CASE r.was
      <3>1. default' = r.with
        BY <2>1, <2>2, <2>3, <2>4
      <3>2. CASE left = {}
        BY <2>1, <2>2, <3>1, <3>2 DEF SoleDefault, Replacement
      <3>3. CASE left # {}
        <4>1. Max(left) \in left
          BY <1>1, <3>3, NewestIsLeft
        <4>2. r.with = {Max(left)}
          BY <2>1, <2>4, <3>3 DEF Replacement
        <4> QED BY <2>2, <3>1, <4>1, <4>2 DEF SoleDefault
      <3> QED BY <3>2, <3>3
    <2>5. CASE ~r.was
      <3>1. r.with = {} /\ id \in left
        BY <2>1, <2>3, <2>5 DEF Replacement
      <3>2. default' = {id}
        BY <2>2, <2>3, <2>5, <3>1
      <3> QED BY <2>2, <3>1, <3>2 DEF SoleDefault
    <2> QED BY <2>4, <2>5
  <1>6. CASE r.op = "set"
    <2>1. r.on \in kept /\ (r.was <=> r.on \in default) /\ r.with = default \ {r.on}
      BY <1>3, <1>6 DEF KnowsTheRows, Commits, OtherDefaults
    <2>2. kept' = kept /\ default' = (default \ r.with) \cup (IF r.was THEN {} ELSE {r.on})
      BY <1>6 DEF Commits
    <2>3. default' = {r.on}
      <3>1. CASE r.was
        BY <2>1, <2>2, <3>1
      <3>2. CASE ~r.was
        BY <2>1, <2>2, <3>2
      <3> QED BY <3>1, <3>2
    <2> QED BY <2>1, <2>2, <2>3 DEF SoleDefault
  <1>7. r.op # "none"
    BY <1>1 DEF RequestsOfBook, AnyRequest, Commits
  <1> QED BY <1>1, <1>4, <1>5, <1>6, <1>7 DEF RequestsOfBook, AnyRequest

LEMMA CommitsTyped ==
  ASSUME BookInv, NEW c \in Callers, Commits(c)
  PROVE  BookTyped'
  <1> DEFINE r == request[c]
             next == [d \in Callers |->
                         IF d = c THEN [NoAsk EXCEPT !.at = "done"]
                         ELSE IF d \in InBetween(c) /\ r.op # "update" THEN [request[d] EXCEPT !.met = TRUE]
                         ELSE request[d]]
  <1>1. /\ saved \in Nat /\ kept \subseteq 1 .. saved /\ default \subseteq Nat /\ muddled \in BOOLEAN
        /\ r \in RequestsOfBook /\ r.with \subseteq Nat /\ r.on \in Nat
    BY DEF BookInv, BookTyped, RequestsOfBook, AnyRequest
  <1>2. r.op \in {"create", "update", "delete", "set"}
    BY <1>1 DEF RequestsOfBook, AnyRequest, Commits
  <1>3. saved' \in Nat /\ kept' \subseteq 1 .. saved' /\ default' \subseteq Nat
    <2>1. CASE r.op = "create"
      BY <1>1, <2>1 DEF Commits
    <2>2. CASE r.op = "update"
      BY <1>1, <2>2 DEF Commits
    <2>3. CASE r.op = "delete"
      BY <1>1, <2>3 DEF Commits
    <2>4. CASE r.op = "set"
      BY <1>1, <2>4 DEF Commits
    <2> QED BY <1>2, <2>1, <2>2, <2>3, <2>4
  <1>4. muddled' \in BOOLEAN
    <2>1. (muddled /\ r.op # "set") \in BOOLEAN
      OBVIOUS
    <2> QED BY <1>1, <2>1 DEF Commits
  <1>5. request' = next
    BY DEF Commits
  <1>6. next \in [Callers -> RequestsOfBook]
    <2>1. ASSUME NEW d \in Callers PROVE [request[d] EXCEPT !.met = TRUE] \in RequestsOfBook
      <3>1. request[d] \in RequestsOfBook
        BY BooksTyped
      <3> QED BY <3>1 DEF RequestsOfBook, AnyRequest
    <2> QED BY <2>1, BooksTyped
  <1> QED BY <1>3, <1>4, <1>5, <1>6 DEF BookTyped, BookInv, Commits, queryVars

LEMMA CommitsKeepsInv ==
  ASSUME BookInv, NEW c \in Callers, Commits(c)
  PROVE  BookInv'
  <1> DEFINE r == request[c]
  <1>1. BookTyped' /\ r \in RequestsOfBook
    BY CommitsTyped, BooksTyped
  <1>2. ~muddled' => SoleDefault'
    <2>1. CASE r.op = "update"
      BY <2>1 DEF Commits, BookInv, SoleDefault
    <2> QED BY <2>1, CommitsSoleDefault
  <1>3. ReadsAreFresh'
    <2> SUFFICES ASSUME NEW d \in Callers, Alone(request[d])' PROVE KnowsTheRows(request[d])'
      BY DEF ReadsAreFresh
    <2>1. PICK x : x = request'[d]
      OBVIOUS
    <2>2. Alone(x)
      BY <2>1 DEF Alone
    <2>3. request'[d] = IF d = c THEN [NoAsk EXCEPT !.at = "done"]
                        ELSE IF d \in InBetween(c) /\ r.op # "update" THEN [request[d] EXCEPT !.met = TRUE]
                        ELSE request[d]
      BY DEF Commits
    <2>4. d # c
      <3>1. [NoAsk EXCEPT !.at = "done"].at = "done"
        BY DEF NoAsk
      <3> QED BY <2>1, <2>2, <2>3, <3>1 DEF Alone, Reading
    <2>5. ~(d \in InBetween(c) /\ r.op # "update")
      <3>1. [request[d] EXCEPT !.met = TRUE].met
        BY BooksTyped DEF RequestsOfBook, AnyRequest
      <3> QED BY <2>1, <2>2, <2>3, <2>4, <3>1 DEF Alone
    <2>6. x = request[d]
      BY <2>1, <2>3, <2>4, <2>5
    <2>7. r.op = "update"
      BY <2>2, <2>4, <2>5, <2>6 DEF Alone, Reading, InBetween
    <2>8. KnowsTheRows(x)
      BY <2>2, <2>6 DEF BookInv, ReadsAreFresh
    <2>9. UNCHANGED bookRowVars
      BY <2>7 DEF Commits, bookRowVars
    <2>10. KnowsTheRows(x)'
      BY <2>8, <2>9, RowsKnown
    <2> QED BY <2>1, <2>10 DEF KnowsTheRows, Replacement, OtherDefaults
  <1> QED BY <1>1, <1>2, <1>3 DEF BookInv

LEMMA BookKeepsInv == BookInv /\ [BookNext]_bookVars => BookInv'
  <1> SUFFICES ASSUME BookInv, [BookNext]_bookVars PROVE BookInv'
    OBVIOUS
  <1>1. /\ book \in BooksHeld /\ bringing \in BooksHeld /\ Unloaded \in BooksHeld /\ Listing \in BooksHeld
        /\ NoAsk \in RequestsOfBook /\ [NoAsk EXCEPT !.at = "failed"] \in RequestsOfBook
        /\ ~Alone(NoAsk) /\ ~Alone([NoAsk EXCEPT !.at = "failed"])
    BY BooksTyped DEF Alone, NoAsk, Reading
  <1>2. ASSUME NEW c \in Callers, RequestMoves(c) PROVE BookInv'
    <2>1. CASE Finds(c)
      BY <2>1, FindsKeepsInv
    <2>2. CASE Decides(c)
      BY <2>2, DecidesKeepsInv
    <2>3. CASE Commits(c)
      BY <2>3, CommitsKeepsInv
    <2>4. CASE Succeeds(c) \/ Told(c)
      <3>1. request' = [request EXCEPT ![c] = NoAsk] /\ UNCHANGED bookRowVars
        BY <2>4 DEF Succeeds, Told
      <3>2. book' \in BooksHeld /\ bringing' \in BooksHeld
        BY <1>1, <2>4 DEF Succeeds, Told, queryVars
      <3> QED BY <1>1, <3>1, <3>2, RequestMovesOn
    <2> QED BY <1>2, <2>1, <2>2, <2>3, <2>4 DEF RequestMoves
  <1>3. ASSUME NEW c \in Callers, Fails(c) PROVE BookInv'
    BY <1>1, <1>3, RequestMovesOn DEF Fails, StepsTo, queryVars
  <1>4. ASSUME NEW c \in Callers, AsksElsewhere(c) PROVE BookInv'
    <2>1. CASE Asks(c, "create", None)
      BY <2>1, AsksKeepsInv DEF None
    <2>2. ASSUME NEW id \in 1 .. saved, NEW op \in {"delete", "set"}, Asks(c, op, id) PROVE BookInv'
      BY <2>2, AsksKeepsInv
    <2> QED BY <1>4, <2>1, <2>2 DEF AsksElsewhere
  <1>5. "form" \in Callers /\ "card" \in Callers
    BY AddressBookAssumption
  <1>6. ASSUME NEW id \in 1 .. MaxAddresses, DeleteAddress(id) \/ SetDefault(id) \/ EditAddress(id)
        PROVE  BookInv'
    <2>1. CASE DeleteAddress(id)
      BY <1>5, <2>1, AsksKeepsInv DEF DeleteAddress
    <2>2. CASE SetDefault(id)
      BY <1>5, <2>2, AsksKeepsInv DEF SetDefault
    <2>3. CASE EditAddress(id)
      BY <1>1, <2>3, PageMovesOn DEF EditAddress, SetEntry, queryVars
    <2> QED BY <1>6, <2>1, <2>2, <2>3
  <1>7. CASE AddAddress \/ CloseEntry
    BY <1>1, <1>7, PageMovesOn DEF AddAddress, CloseEntry, SetEntry, queryVars
  <1>8. CASE SaveAddress
    <2>1. CASE Asks("form", "create", None)
      BY <1>5, <2>1, AsksKeepsInv DEF None
    <2>2. ASSUME NEW id \in book.all \ {None}, Asks("form", "update", id) PROVE BookInv'
      <3>1. id \in Nat
        BY <1>1 DEF BooksHeld
      <3> QED BY <1>5, <2>2, <3>1, AsksKeepsInv
    <2> QED BY <1>8, <2>1, <2>2 DEF SaveAddress
  <1>9. CASE AsksBook \/ BookArrives \/ QueryFails
    BY <1>1, <1>9, PageMovesOn DEF AsksBook, BookArrives, QueryFails
  <1>10. CASE UNCHANGED bookVars
    BY <1>1, <1>10, PageMovesOn DEF bookVars, queryVars
  <1> QED BY <1>2, <1>3, <1>4, <1>6, <1>7, <1>8, <1>9, <1>10 DEF BookNext

LEMMA BookIsSound == BookInv => OneDefault
  <1> SUFFICES ASSUME BookInv, ~muddled
               PROVE  default \subseteq kept /\ Cardinality(default) = (IF kept = {} THEN 0 ELSE 1)
    BY DEF OneDefault
  <1>1. CASE kept = {}
    BY <1>1, FS_EmptySet DEF BookInv, SoleDefault
  <1>2. CASE kept # {}
    BY <1>2, FS_Singleton DEF BookInv, SoleDefault
  <1> QED BY <1>1, <1>2
-------------------------------------------------------------------------------

(***************************************************************************)
(* The marketplace.                                                        *)
(***************************************************************************)
Listings == [goods : Seq(Goods), next : 0 .. Top, steady : SUBSET Goods, pages : Nat]

Urls == [country : {"unset", "all", "home"}, narrowed : BOOLEAN, sort : {"newest", "price"}]

\* By age, a listing descends to its cursor, and has all there was all along above it.
DownToCursor(shelf) ==
    /\ \A i, j \in DOMAIN shelf.goods : i < j => shelf.goods[i] > shelf.goods[j]
    /\ \A i \in DOMAIN shelf.goods : shelf.goods[i] >= shelf.next
    /\ \A g \in shelf.steady :
           Matches(g) /\ g >= shelf.next => \E i \in DOMAIN shelf.goods : shelf.goods[i] = g

ListingInv(shelf) ==
    /\ shelf \in Listings
    /\ shelf.steady \subseteq live \cap cached
    /\ shelf.pages = 0 => shelf = Nothing
    /\ url.sort = "newest" => DownToCursor(shelf)

MarketInv ==
    /\ live \subseteq Goods /\ cached \subseteq Goods /\ url \in Urls
    /\ display \in [list : Listings, at : {"pending", "list", "failed"}]
    /\ fetch \in [on : BOOLEAN, more : BOOLEAN, left : Int, list : Listings]
    /\ ListingInv(display.list) /\ ListingInv(fetch.list)

LEMMA NothingIsSound ==
  /\ Nothing \in Listings /\ ListingInv(Nothing)
  /\ NoFetch \in [on : BOOLEAN, more : BOOLEAN, left : Int, list : Listings] /\ NoFetch.list = Nothing
  <1>1. Top \in 0 .. Top
    BY MarketplaceAssumption DEF Top
  <1>2. Nothing \in Listings
    BY <1>1 DEF Nothing, Listings
  <1>3. DownToCursor(Nothing)
    BY DEF DownToCursor, Nothing
  <1> QED BY <1>2, <1>3 DEF ListingInv, Nothing, NoFetch

LEMMA MarketStarts == MarketInit => MarketInv
  <1> SUFFICES ASSUME MarketInit PROVE MarketInv
    OBVIOUS
  <1>1. display = [list |-> Nothing, at |-> "pending"] /\ fetch = NoFetch
    BY DEF MarketInit
  <1>2. display \in [list : Listings, at : {"pending", "list", "failed"}] /\ display.list = Nothing
    BY <1>1, NothingIsSound
  <1>3. live \subseteq Goods /\ cached \subseteq Goods /\ url \in Urls
    BY DEF MarketInit, Urls
  <1> QED BY <1>1, <1>2, <1>3, NothingIsSound DEF MarketInv

(***************************************************************************)
(* A page.                                                                 *)
(***************************************************************************)
LEMMA PageOfRows ==
  ASSUME NEW found \in SUBSET Goods, NEW leaf \in Firsts(found)
  PROVE  /\ leaf \in Seq(Goods) /\ Len(leaf) \in Nat /\ DOMAIN leaf = 1 .. Len(leaf)
         /\ \A i \in DOMAIN leaf : i <= PageSize
         /\ \A i \in DOMAIN leaf : leaf[i] \in found
         /\ \A i, j \in DOMAIN leaf : i < j => Sooner(leaf[i], leaf[j])
         /\ NextOf(leaf, found) \in 0 .. Top
         /\ \A i \in DOMAIN leaf :
               NextOf(leaf, found) = NoMore \/ (PageSize \in DOMAIN leaf /\ NextOf(leaf, found) = leaf[PageSize])
         /\ \A g \in found : (\E i \in DOMAIN leaf : leaf[i] = g)
                            \/ ( /\ PageSize \in DOMAIN leaf
                                 /\ NextOf(leaf, found) = leaf[PageSize]
                                 /\ Sooner(leaf[PageSize], g) )
  <1>1. PICK n \in 0 .. PageSize : leaf \in [1 .. n -> found]
    BY DEF Firsts
  <1>2. PageSize \in Nat \ {0} /\ Newest \in Nat /\ n \in Nat
    BY <1>1, MarketplaceAssumption
  <1>3. leaf \in Seq(Goods) /\ Len(leaf) = n
    <2>1. leaf = [i \in 1 .. n |-> leaf[i]] /\ \A i \in 1 .. n : leaf[i] \in Goods
      BY <1>1
    <2>2. leaf \in Seq(Goods)
      BY <1>2, <2>1, IsASeq
    <2> QED BY <1>1, <1>2, <2>2, LenProperties
  <1>4. \A g \in found : (\E i \in DOMAIN leaf : leaf[i] = g)
                        \/ (Len(leaf) = PageSize /\ Sooner(leaf[PageSize], g))
    BY DEF Firsts, Range
  <1>5. ASSUME Range(leaf) # found PROVE Len(leaf) = PageSize /\ PageSize \in DOMAIN leaf
    <2>1. PICK g \in found : g \notin Range(leaf)
      BY <1>1, <1>5 DEF Range
    <2> QED BY <1>1, <1>2, <1>3, <2>1 DEF Firsts
  <1>6. NextOf(leaf, found) \in 0 .. Top
    <2>1. CASE Range(leaf) = found
      BY <1>2, <2>1 DEF NextOf, NoMore, Top
    <2>2. CASE Range(leaf) # found
      <3>1. leaf[PageSize] \in 1 .. Newest
        BY <1>1, <1>3, <1>5, <2>2 DEF Goods
      <3> QED BY <1>2, <2>2, <3>1 DEF NextOf, Top
    <2> QED BY <2>1, <2>2
  <1>7. ASSUME NEW g \in found, ~\E i \in DOMAIN leaf : leaf[i] = g
        PROVE  /\ PageSize \in DOMAIN leaf /\ NextOf(leaf, found) = leaf[PageSize]
               /\ Sooner(leaf[PageSize], g)
    <2>1. Range(leaf) # found
      BY <1>7 DEF Range
    <2> QED BY <1>4, <1>5, <1>7, <2>1 DEF NextOf
  <1>8. NextOf(leaf, found) = NoMore \/ (PageSize \in DOMAIN leaf /\ NextOf(leaf, found) = leaf[PageSize])
    BY <1>5 DEF NextOf
  <1>9. \A i, j \in DOMAIN leaf : i < j => Sooner(leaf[i], leaf[j])
    BY DEF Firsts
  <1>10. Len(leaf) \in Nat /\ DOMAIN leaf = 1 .. Len(leaf) /\ \A i \in DOMAIN leaf : i <= PageSize
    BY <1>1, <1>2, <1>3
  <1>11. \A i \in DOMAIN leaf : leaf[i] \in found
    BY <1>1
  <1> QED BY <1>3, <1>6, <1>7, <1>8, <1>9, <1>10, <1>11

\* A page is added to a listing.
Added(shelf, leaf, found) ==
    [goods |-> shelf.goods \o leaf, next |-> NextOf(leaf, found), pages |-> shelf.pages + 1,
     steady |-> IF shelf.pages = 0 THEN live \cap cached ELSE shelf.steady]

LEMMA PageAdds ==
  ASSUME live \subseteq Goods, cached \subseteq Goods, NEW shelf, ListingInv(shelf),
         NEW L \in {live, cached}, NEW leaf \in Firsts(RowsAfter(L, shelf.next))
  PROVE  ListingInv(Added(shelf, leaf, RowsAfter(L, shelf.next)))
  <1> DEFINE found == RowsAfter(L, shelf.next)
             goods == shelf.goods \o leaf
             next == NextOf(leaf, found)
             steady == IF shelf.pages = 0 THEN live \cap cached ELSE shelf.steady
             new == [goods |-> goods, next |-> next, pages |-> shelf.pages + 1, steady |-> steady]
  <1>1. found \in SUBSET Goods /\ \A g \in L : Matches(g) /\ g < shelf.next => g \in found
    BY DEF RowsAfter, PastCursor
  <1>2. shelf \in Listings /\ shelf.goods \in Seq(Goods) /\ shelf.next \in 0 .. Top /\ shelf.pages \in Nat
        /\ shelf.steady \subseteq live \cap cached
    BY DEF ListingInv, Listings
  <1>3. \A g \in found : g < shelf.next
    BY DEF RowsAfter, PastCursor
  <1>4. Added(shelf, leaf, found) = new
    BY DEF Added
  <1>5. leaf \in Firsts(found)
    OBVIOUS
  <1>6. steady \subseteq live \cap cached /\ steady \subseteq L /\ steady \subseteq Goods
    BY <1>2
  <1>7. ASSUME url.sort = "newest", shelf.pages = 0 PROVE shelf.next = Top
    BY <1>7 DEF ListingInv, Nothing
  <1>8. shelf.pages # 0 => steady = shelf.steady
    OBVIOUS
  <1> HIDE DEF found, steady
  <1>9. /\ leaf \in Seq(Goods) /\ Len(leaf) \in Nat /\ DOMAIN leaf = 1 .. Len(leaf)
        /\ next \in 0 .. Top
    BY <1>1, <1>5, PageOfRows
  <1>10. \A i \in DOMAIN leaf : leaf[i] \in found /\ i <= PageSize
    BY <1>1, <1>5, PageOfRows
  <1>11. \A i, j \in DOMAIN leaf : i < j => Sooner(leaf[i], leaf[j])
    BY <1>1, <1>5, PageOfRows
  <1>12. \A i \in DOMAIN leaf : next = NoMore \/ (PageSize \in DOMAIN leaf /\ next = leaf[PageSize])
    BY <1>1, <1>5, PageOfRows
  <1>13. \A g \in found : (\E i \in DOMAIN leaf : leaf[i] = g)
             \/ (PageSize \in DOMAIN leaf /\ next = leaf[PageSize] /\ Sooner(leaf[PageSize], g))
    BY <1>1, <1>5, PageOfRows
  <1> HIDE DEF next
  <1> DEFINE n == Len(shelf.goods)
             m == Len(leaf)
  <1>14. n \in Nat /\ DOMAIN shelf.goods = 1 .. n /\ m \in Nat /\ DOMAIN leaf = 1 .. m
    BY <1>2, <1>9, LenProperties
  <1>15. goods \in Seq(Goods) /\ Len(goods) = n + m
         /\ \A i \in 1 .. n + m : goods[i] = IF i <= n THEN shelf.goods[i] ELSE leaf[i - n]
    BY <1>2, <1>9, ConcatProperties
  <1>16. DOMAIN goods = 1 .. n + m
    BY <1>15, LenProperties
  <1> HIDE DEF goods, n, m
  <1>17. \A i \in DOMAIN goods : (i \in DOMAIN shelf.goods /\ goods[i] = shelf.goods[i])
                        \/ (i \notin DOMAIN shelf.goods /\ i - n \in DOMAIN leaf /\ goods[i] = leaf[i - n])
    BY <1>14, <1>15, <1>16
  <1>18. /\ \A i \in DOMAIN shelf.goods : i \in DOMAIN goods /\ goods[i] = shelf.goods[i]
         /\ \A i \in DOMAIN leaf : n + i \in DOMAIN goods /\ goods[n + i] = leaf[i]
    <2>1. ASSUME NEW i \in DOMAIN leaf PROVE n + i \in DOMAIN goods /\ goods[n + i] = leaf[i]
      <3>1. n + i \in 1 .. n + m /\ ~(n + i <= n) /\ (n + i) - n = i
        BY <1>14
      <3> QED BY <1>15, <1>16, <3>1
    <2> QED BY <1>14, <1>15, <1>16, <2>1
  <1>19. Newest \in Nat /\ PageSize \in Nat
    BY MarketplaceAssumption
  <1>20. \A i \in DOMAIN leaf : leaf[i] < shelf.next /\ leaf[i] \in 1 .. Newest
    BY <1>1, <1>3, <1>10 DEF Goods
  <1>21. \A i \in DOMAIN shelf.goods : shelf.goods[i] \in 1 .. Newest
    BY <1>2, <1>14, ElementOfSeq DEF Goods, n
  <1>22. new \in Listings
    BY <1>2, <1>6, <1>9, <1>15 DEF Listings
  <1>23. ASSUME url.sort = "newest" PROVE DownToCursor(new)
    <2>1. DownToCursor(shelf)
      BY <1>23 DEF ListingInv
    <2>2. \A g, h : Sooner(g, h) => g > h
      BY <1>23 DEF Sooner
    <2>3. shelf.next \in Int /\ next \in Int /\ next >= 0
      BY <1>2, <1>9, <1>19 DEF Top
    <2>4. ASSUME NEW i \in DOMAIN goods, NEW j \in DOMAIN goods, i < j PROVE goods[i] > goods[j]
      <3>1. CASE i \in DOMAIN shelf.goods /\ j \in DOMAIN shelf.goods
        BY <1>17, <2>1, <2>4, <3>1 DEF DownToCursor
      <3>2. CASE i \in DOMAIN shelf.goods /\ j \notin DOMAIN shelf.goods
        <4>1. goods[i] = shelf.goods[i] /\ shelf.goods[i] >= shelf.next /\ shelf.goods[i] \in Int
          BY <1>17, <1>21, <2>1, <3>2 DEF DownToCursor
        <4>2. goods[j] < shelf.next /\ goods[j] \in Int
          BY <1>17, <1>20, <3>2
        <4> QED BY <2>3, <4>1, <4>2
      <3>3. CASE i \notin DOMAIN shelf.goods
        <4>1. j \notin DOMAIN shelf.goods
          BY <1>14, <1>16, <2>4, <3>3
        <4>2. /\ i - n \in DOMAIN leaf /\ goods[i] = leaf[i - n]
              /\ j - n \in DOMAIN leaf /\ goods[j] = leaf[j - n]
          BY <1>17, <3>3, <4>1
        <4>3. i - n < j - n
          BY <1>14, <1>16, <2>4
        <4> QED BY <1>11, <2>2, <4>2, <4>3
      <3> QED BY <3>1, <3>2, <3>3
    <2>5. ASSUME NEW i \in DOMAIN leaf PROVE leaf[i] >= next /\ next < shelf.next
      <3>1. CASE next = NoMore
        BY <1>20, <2>3, <3>1 DEF NoMore
      <3>2. CASE PageSize \in DOMAIN leaf /\ next = leaf[PageSize]
        <4>1. CASE i = PageSize
          BY <1>20, <3>2, <4>1
        <4>2. CASE i # PageSize
          <5>1. i < PageSize
            BY <1>10, <1>14, <1>19, <4>2
          <5>2. leaf[i] > leaf[PageSize]
            BY <1>11, <2>2, <3>2, <5>1
          <5> QED BY <1>20, <3>2, <5>2
        <4> QED BY <4>1, <4>2
      <3> QED BY <1>12, <3>1, <3>2
    <2>6. next <= shelf.next
      <3>1. CASE DOMAIN leaf = {}
        <4>1. found = {}
          BY <1>13, <3>1
        <4>2. next = NoMore
          <5>1. Range(leaf) = found
            BY <3>1, <4>1 DEF Range
          <5> QED BY <5>1 DEF next, NextOf
        <4> QED BY <1>2, <1>19, <4>2 DEF NoMore, Top
      <3>2. CASE DOMAIN leaf # {}
        BY <2>3, <2>5, <3>2
      <3> QED BY <3>1, <3>2
    <2>7. ASSUME NEW i \in DOMAIN goods PROVE goods[i] >= next
      <3>1. CASE i \in DOMAIN shelf.goods
        <4>1. goods[i] = shelf.goods[i] /\ shelf.goods[i] >= shelf.next /\ shelf.goods[i] \in Int
          BY <1>17, <1>21, <2>1, <3>1 DEF DownToCursor
        <4> QED BY <2>3, <2>6, <4>1
      <3>2. CASE i \notin DOMAIN shelf.goods
        BY <1>17, <2>5, <3>2
      <3> QED BY <3>1, <3>2
    <2>8. ASSUME NEW g \in steady, Matches(g), g >= next PROVE \E i \in DOMAIN goods : goods[i] = g
      <3>1. g \in 1 .. Newest /\ g \in L
        BY <1>6 DEF Goods
      <3>2. CASE g >= shelf.next
        <4>1. shelf.pages # 0
          BY <1>7, <1>19, <1>23, <3>1, <3>2 DEF Top
        <4>2. PICK i \in DOMAIN shelf.goods : shelf.goods[i] = g
          BY <1>8, <2>1, <2>8, <3>2, <4>1 DEF DownToCursor
        <4> QED BY <1>18, <4>2
      <3>3. CASE ~(g >= shelf.next)
        <4>1. g \in found
          BY <1>1, <2>3, <2>8, <3>1, <3>3
        <4>2. \E i \in DOMAIN leaf : leaf[i] = g
          <5>1. ASSUME PageSize \in DOMAIN leaf, next = leaf[PageSize], Sooner(leaf[PageSize], g)
                PROVE  FALSE
            <6>1. next > g
              BY <2>2, <5>1
            <6> QED BY <2>3, <2>8, <3>1, <6>1
          <5> QED BY <1>13, <4>1, <5>1
        <4> QED BY <1>18, <4>2
      <3> QED BY <3>2, <3>3
    <2> QED BY <2>4, <2>7, <2>8 DEF DownToCursor
  <1>24. new.steady \subseteq live \cap cached /\ new.pages # 0
    BY <1>2, <1>6
  <1>25. ListingInv(new)
    BY <1>22, <1>23, <1>24 DEF ListingInv
  <1> QED BY <1>4, <1>25 DEF found

(***************************************************************************)
(* What a step leaves of a listing.                                        *)
(***************************************************************************)
LEMMA ListingKept ==
  ASSUME NEW shelf, ListingInv(shelf), live \cap cached \subseteq live' \cap cached', Key' = Key
  PROVE  ListingInv(shelf)'
  <1>1. Country' = Country /\ url.narrowed' = url.narrowed /\ url.sort' = url.sort
    BY DEF Key
  <1>2. \A g : Matches(g)' = Matches(g)
    BY <1>1 DEF Matches
  <1> QED BY <1>1, <1>2 DEF ListingInv, DownToCursor

LEMMA NothingStaysSound == ListingInv(Nothing)'
  <1>1. DownToCursor(Nothing)'
    BY DEF DownToCursor, Nothing
  <1>2. Nothing \in Listings
    BY NothingIsSound
  <1> QED BY <1>1, <1>2 DEF ListingInv, Nothing

LEMMA ListingRemembered ==
  ASSUME NEW shelf, NEW left, ListingInv(shelf), left = Remembered(shelf), UNCHANGED <<cached, url, home>>
  PROVE  ListingInv(left)'
  <1>1. shelf \in Listings /\ shelf.steady \subseteq live \cap cached
    BY DEF ListingInv
  <1>2. left = [goods |-> shelf.goods, next |-> shelf.next, steady |-> shelf.steady \cap live',
                pages |-> shelf.pages]
    BY <1>1 DEF Remembered, Listings
  <1>3. left \in Listings
    BY <1>1, <1>2 DEF Listings
  <1>4. left.steady \subseteq live' \cap cached'
    BY <1>1, <1>2
  <1>5. ASSUME left.pages = 0 PROVE left = Nothing
    <2>1. shelf = Nothing
      BY <1>2, <1>5 DEF ListingInv
    <2> QED BY <1>2, <2>1 DEF Nothing
  <1>6. url'.sort = "newest" => DownToCursor(left)'
    <2>1. \A g : Matches(g)' = Matches(g)
      BY DEF Matches, Country
    <2> QED BY <1>2, <2>1 DEF ListingInv, DownToCursor
  <1> QED BY <1>3, <1>4, <1>5, <1>6 DEF ListingInv

Displays == [list : Listings, at : {"pending", "list", "failed"}]
Fetches == [on : BOOLEAN, more : BOOLEAN, left : Int, list : Listings]

\* What is left to show of a step, with the two listings it ends with.
LEMMA MarketInvNext ==
  ASSUME NEW s, NEW f, s = display'.list, f = fetch'.list, ListingInv(s)', ListingInv(f)',
         display' \in Displays, fetch' \in Fetches,
         live' \subseteq Goods, cached' \subseteq Goods, url' \in Urls
  PROVE  MarketInv'
  BY DEF MarketInv, Displays, Fetches

LEMMA ListingsKept ==
  ASSUME MarketInv, UNCHANGED <<display, fetch>>, live' \subseteq Goods, cached' \subseteq Goods,
         url' \in Urls, live \cap cached \subseteq live' \cap cached', Key' = Key
  PROVE  MarketInv'
  <1>1. PICK s, f : s = display.list /\ f = fetch.list
    OBVIOUS
  <1>2. ListingInv(s) /\ ListingInv(f)
    BY <1>1 DEF MarketInv
  <1>3. ListingInv(s)' /\ ListingInv(f)'
    BY <1>2, ListingKept
  <1>4. display' \in Displays /\ fetch' \in Fetches /\ s = display'.list /\ f = fetch'.list
    BY <1>1 DEF MarketInv, Displays, Fetches
  <1> QED BY <1>3, <1>4, MarketInvNext

LEMMA ListingsRekeyed ==
  ASSUME MarketInv, UNCHANGED <<live, cached>>, url' \in Urls, Rekeyed
  PROVE  MarketInv'
  <1>1. live' \subseteq Goods /\ cached' \subseteq Goods
    BY DEF MarketInv
  <1>2. CASE Key' = Key
    BY <1>1, <1>2, ListingsKept DEF Rekeyed
  <1>3. CASE Key' # Key
    <2>1. display' = [list |-> Nothing, at |-> "pending"] /\ fetch' = NoFetch
      BY <1>3 DEF Rekeyed
    <2>2. display' \in Displays /\ fetch' \in Fetches /\ Nothing = display'.list /\ Nothing = fetch'.list
      BY <2>1, NothingIsSound DEF Displays, Fetches
    <2>3. PICK x : x = Nothing
      OBVIOUS
    <2> QED BY <1>1, <2>2, NothingStaysSound, MarketInvNext
  <1> QED BY <1>2, <1>3

LEMMA PageKeepsInv ==
  ASSUME MarketInv, NEW L \in {live, cached}, PageArrives(L)
  PROVE  MarketInv'
  <1>1. PICK was : was = fetch.list
    OBVIOUS
  <1>2. PICK leaf \in Firsts(RowsAfter(L, was.next)) :
           LET shelf == Added(was, leaf, RowsAfter(L, was.next))
           IN  /\ IF fetch.left = 1 \/ NextOf(leaf, RowsAfter(L, was.next)) = NoMore
                  THEN display' = [list |-> shelf, at |-> "list"] /\ fetch' = NoFetch
                  ELSE fetch' = [fetch EXCEPT !.list = shelf, !.left = @ - 1] /\ UNCHANGED display
               /\ UNCHANGED <<live, cached, url, home, turns>>
    BY <1>1 DEF PageArrives, Added
  <1>3. PICK shelf : shelf = Added(was, leaf, RowsAfter(L, was.next))
    OBVIOUS
  <1>4. \/ display' = [list |-> shelf, at |-> "list"] /\ fetch' = NoFetch
        \/ fetch' = [fetch EXCEPT !.list = shelf, !.left = @ - 1] /\ UNCHANGED display
    BY <1>2, <1>3
  <1>5. live' \subseteq Goods /\ cached' \subseteq Goods /\ url' \in Urls
        /\ live \subseteq Goods /\ cached \subseteq Goods
    BY <1>2 DEF MarketInv
  <1>6. Key' = Key /\ live \cap cached \subseteq live' \cap cached'
    BY <1>2 DEF Key, Country
  <1>7. ListingInv(shelf)
    <2>1. ListingInv(was)
      BY <1>1 DEF MarketInv
    <2> QED BY <1>3, <1>5, <2>1, PageAdds
  <1>8. ListingInv(shelf)' /\ shelf \in Listings
    BY <1>6, <1>7, ListingKept DEF ListingInv
  <1>9. fetch \in Fetches /\ display \in Displays
    BY DEF MarketInv, Fetches, Displays
  <1>10. CASE display' = [list |-> shelf, at |-> "list"] /\ fetch' = NoFetch
    <2>1. display' \in Displays /\ fetch' \in Fetches /\ shelf = display'.list /\ fetch'.list = Nothing
      BY <1>8, <1>10, NothingIsSound DEF Displays, Fetches
    <2> QED BY <1>5, <1>8, <2>1, NothingStaysSound, MarketInvNext
  <1>11. CASE fetch' = [fetch EXCEPT !.list = shelf, !.left = @ - 1] /\ UNCHANGED display
    <2>1. fetch' \in Fetches /\ fetch'.list = shelf /\ display' \in Displays
      <3>1. fetch' = [on |-> fetch.on, more |-> fetch.more, left |-> fetch.left - 1, list |-> shelf]
        BY <1>9, <1>11 DEF Fetches
      <3>2. fetch.on \in BOOLEAN /\ fetch.more \in BOOLEAN /\ fetch.left - 1 \in Int
        BY <1>9 DEF Fetches
      <3> QED BY <1>8, <1>9, <1>11, <3>1, <3>2 DEF Fetches
    <2>2. PICK s : s = display.list
      OBVIOUS
    <2>3. ListingInv(s)
      BY <2>2 DEF MarketInv
    <2>4. ListingInv(s)' /\ s = display'.list
      BY <1>6, <1>11, <2>2, <2>3, ListingKept
    <2> QED BY <1>5, <1>8, <2>1, <2>4, MarketInvNext
  <1> QED BY <1>4, <1>10, <1>11

LEMMA MarketKeepsInv == MarketInv /\ [MarketNext]_marketVars => MarketInv'
  <1> SUFFICES ASSUME MarketInv, [MarketNext]_marketVars PROVE MarketInv'
    OBVIOUS
  <1>1. live \subseteq Goods /\ cached \subseteq Goods /\ url \in Urls
        /\ display \in Displays /\ fetch \in Fetches
    BY DEF MarketInv, Displays, Fetches
  <1>2. PICK s, f : s = display.list /\ f = fetch.list
    OBVIOUS
  <1>3. ListingInv(s) /\ ListingInv(f) /\ s \in Listings
    BY <1>2 DEF MarketInv, ListingInv
  <1>4. ASSUME UNCHANGED <<live, cached, url, home>>
        PROVE  /\ ListingInv(s)' /\ ListingInv(f)'
               /\ live' \subseteq Goods /\ cached' \subseteq Goods /\ url' \in Urls
    BY <1>1, <1>3, <1>4, ListingKept DEF Key, Country
  <1>5. CASE Refetch
    <2>1. UNCHANGED <<live, cached, url, home>> /\ display' = display
          /\ fetch' \in Fetches /\ fetch'.list = Nothing
      <3>1. display.list.pages \in Nat
        BY <1>2, <1>3 DEF Listings
      <3> QED BY <1>5, <3>1, NothingIsSound DEF Refetch, Fetches
    <2> QED BY <1>1, <1>2, <1>4, <2>1, NothingStaysSound, MarketInvNext
  <1>6. CASE LoadMore
    <2>1. UNCHANGED <<live, cached, url, home>> /\ display' = display /\ fetch' \in Fetches /\ fetch'.list = s
      BY <1>2, <1>3, <1>6 DEF LoadMore, Fetches
    <2> QED BY <1>1, <1>2, <1>4, <2>1, MarketInvNext
  <1>7. CASE FetchFails
    <2>1. UNCHANGED <<live, cached, url, home>> /\ fetch' \in Fetches /\ fetch'.list = Nothing
      BY <1>7, NothingIsSound DEF FetchFails, Fetches
    <2>2. display' \in Displays /\ display'.list = s
      <3>1. display' = IF display.at = "list" THEN display ELSE [display EXCEPT !.at = "failed"]
        BY <1>7 DEF FetchFails
      <3> QED BY <1>1, <1>2, <3>1 DEF Displays
    <2> QED BY <1>4, <2>1, <2>2, NothingStaysSound, MarketInvNext
  <1>8. CASE \E L \in {live, cached} : PageArrives(L)
    BY <1>8, PageKeepsInv
  <1>9. CASE CacheExpires
    <2>1. UNCHANGED <<live, url, home, display, fetch>> /\ cached' = live /\ Key' = Key
      BY <1>9 DEF CacheExpires, Key, Country
    <2> QED BY <1>1, <2>1, ListingsKept
  <1>10. CASE SaveCountry
    <2>1. url' \in Urls
      BY <1>1, <1>10 DEF SaveCountry, Urls
    <2> QED BY <1>10, <2>1, ListingsRekeyed DEF SaveCountry
  <1>11. ASSUME NEW u \in Urls, Replaces(u) PROVE MarketInv'
    BY <1>11, ListingsRekeyed DEF Replaces
  <1>12. CASE \E c \in {"all", "home"} : SetCountry(c)
    <2>1. PICK c \in {"all", "home"} : Replaces([url EXCEPT !.country = c])
      BY <1>12 DEF SetCountry
    <2>2. [url EXCEPT !.country = c] \in Urls
      BY <1>1 DEF Urls
    <2>3. PICK u : u = [url EXCEPT !.country = c]
      OBVIOUS
    <2> QED BY <1>11, <2>1, <2>2
  <1>13. CASE \E o \in {"newest", "price"} : SetSort(o)
    <2>1. PICK o \in {"newest", "price"} : Replaces([url EXCEPT !.sort = o])
      BY <1>13 DEF SetSort
    <2>2. [url EXCEPT !.sort = o] \in Urls
      BY <1>1 DEF Urls
    <2> QED BY <1>11, <2>1, <2>2
  <1>14. CASE \E b \in BOOLEAN : Narrow(b)
    <2>1. PICK b \in BOOLEAN : Replaces([url EXCEPT !.narrowed = b])
      BY <1>14 DEF Narrow
    <2>2. [url EXCEPT !.narrowed = b] \in Urls
      BY <1>1 DEF Urls
    <2> QED BY <1>11, <2>1, <2>2
  <1>15. CASE \E h \in {"none", "home"} : ProfileKnown(h)
    BY <1>1, <1>15, ListingsRekeyed DEF ProfileKnown
  <1>16. CASE \E g \in Goods : Publishes(g)
    <2>1. PICK g \in Goods : Publishes(g)
      BY <1>16
    <2>2. live' \subseteq Goods /\ UNCHANGED <<cached, url, home>>
      BY <1>1, <2>1 DEF Publishes
    <2>3. PICK leftS, leftF : leftS = Remembered(s) /\ leftF = Remembered(f)
      OBVIOUS
    <2>4. ListingInv(leftS)' /\ ListingInv(leftF)'
      BY <1>3, <2>2, <2>3, ListingRemembered
    <2>5. leftS \in Listings /\ leftF \in Listings
      BY <2>4 DEF ListingInv
    <2>6. display' = [display EXCEPT !.list = leftS] /\ fetch' = [fetch EXCEPT !.list = leftF]
      BY <1>2, <2>1, <2>3 DEF Publishes
    <2>7. display' \in Displays /\ fetch' \in Fetches /\ leftS = display'.list /\ leftF = fetch'.list
      BY <1>1, <2>5, <2>6 DEF Displays, Fetches
    <2> QED BY <1>1, <2>2, <2>4, <2>7, MarketInvNext
  <1>17. CASE UNCHANGED marketVars
    BY <1>1, <1>17, ListingsKept DEF marketVars, Key, Country
  <1> QED BY <1>5, <1>6, <1>7, <1>8, <1>9, <1>10, <1>12, <1>13, <1>14, <1>15, <1>16, <1>17
          DEF MarketNext, PageSettles

LEMMA MarketIsSound == MarketInv => NothingLostBetweenPages
  <1> SUFFICES ASSUME MarketInv, url.sort = "newest" PROVE NothingLostBetweenPages
    BY DEF NothingLostBetweenPages
  <1>1. PICK shelf : shelf = display.list
    OBVIOUS
  <1>2. shelf \in Listings /\ DownToCursor(shelf) /\ shelf.steady \subseteq live /\ live \subseteq Goods
    BY <1>1 DEF MarketInv, ListingInv
  <1>3. shelf.next \in Int /\ \A g \in shelf.steady : g \in Int
    BY <1>2, MarketplaceAssumption DEF Listings, Goods, Top
  <1>4. \A g \in shelf.steady : g > shelf.next => g >= shelf.next
    BY <1>3
  <1> QED BY <1>1, <1>2, <1>4 DEF NothingLostBetweenPages, DownToCursor

(***************************************************************************)
(* The desks together: a step is one of one desk, the others at rest.      *)
(***************************************************************************)
StoreInv == ShopInv /\ CreditsInv /\ ProductInv /\ ProfileInv /\ MarketInv /\ BookInv /\ WalletInv

LEMMA StoreStarts == StoreInit => StoreInv
  BY ShopStarts, CreditsStart, ProductStarts, ProfileStarts, MarketStarts, BookStarts, WalletStarts
     DEF StoreInit, StoreInv

LEMMA StoreKeepsInv == StoreInv /\ [StoreNext]_storeVars => StoreInv'
  <1> SUFFICES ASSUME StoreInv, [StoreNext]_storeVars PROVE StoreInv'
    OBVIOUS
  <1>1. /\ [ShopNext]_shopVars /\ [CreditsNext]_creditsVars /\ [ProductNext]_productVars
        /\ [ProfileNext]_profileVars /\ [MarketNext]_marketVars /\ [BookNext]_bookVars
        /\ [WalletNext]_gateVars
    BY DEF StoreNext, SellerNext, BuyerNext, storeVars, sellerVars, buyerVars
  <1>2. ShopInv' /\ CreditsInv' /\ ProductInv' /\ ProfileInv'
    BY <1>1, ShopKeepsInv, CreditsKeepInv, ProductKeepsInv, ProfileKeepsInv DEF StoreInv
  <1>3. MarketInv' /\ BookInv' /\ WalletInv'
    BY <1>1, MarketKeepsInv, BookKeepsInv, WalletKeepsInv DEF StoreInv
  <1> QED BY <1>2, <1>3 DEF StoreInv

\* Every desk keeps its invariant, whichever of them is at work.
THEOREM StoreInvariant == StoreSpec => []StoreInv
  BY StoreStarts, StoreKeepsInv, PTL DEF StoreSpec

\* What the desks tell the seller and the buyer is so: payments and credits are counted once
\* and reported, a raw photo was asked about, a profile without a save bar is saved, a listing
\* loses nothing between two pages, a book has one default but for races, and no wallet asks
\* a permission nobody pressed for.
THEOREM StoreSound == StoreSpec => []StoreIsSound
  <1>1. StoreInv => StoreIsSound
    BY CreditsAreSound, ProfileIsSound, MarketIsSound, BookIsSound, WalletIsSound
       DEF StoreInv, StoreIsSound, ShopInv, ProductInv
  <1> QED BY StoreInvariant, <1>1, PTL
===============================================================================
