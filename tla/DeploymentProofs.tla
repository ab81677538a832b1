---------------------------- MODULE DeploymentProofs ----------------------------
(***************************************************************************)
(* Proofs about Deployment, for any number of mishaps, orders and faults:  *)
(* what the scripts write down is there, what they leave undone can still  *)
(* be signed, and the old escrow is drained before it is left.             *)
(***************************************************************************)
EXTENDS Deployment, SequenceTheorems, FiniteSetTheorems, TLAPS

(***************************************************************************)
(* The rollout: the inductive invariant.                                   *)
(***************************************************************************)
Holdings == Ownables \cup Treasuries
Sides == {"deployer", "safe"}

Txs == [do : {"build"}, of : Ownables, by : {"deployer"}, fresh : {TRUE}]
       \cup [do : {"wire"}, of : Setters, by : {"deployer"}, fresh : {TRUE}]
       \cup [do : {"own"}, of : Ownables, by : Sides, fresh : BOOLEAN]
       \cup [do : {"fund"}, of : Treasuries, by : Sides, fresh : BOOLEAN]

RolloutTypeOK ==
    /\ net \in {"mainnet", "sepolia"} /\ file \in {"none", "partial", "rejected", "final"}
    /\ built \in 0 .. 6 /\ wired \subseteq Setters /\ resumeFrom \in {7, 8}
    /\ safeLive \in BOOLEAN /\ waits \in BOOLEAN
    /\ owner \in [Ownables -> Sides] /\ treasury \in [Treasuries -> Sides \cup {"env"}]
    /\ script \in {"none", "deploy", "resume", "transfer", "restore", "verify"}
    /\ at \in Nat \ {0} /\ plan \subseteq Holdings /\ pool \in Seq(Txs)
    /\ home \in Sides \cup {"nobody"} /\ last \in {"none", "transfer", "restore"}

IsHand(tx) == tx.do \in {"own", "fund"}

\* A script waits for a transaction of its own, the last of the pool.
Awaited ==
    waits =>
        /\ pool # <<>> /\ script \in {"deploy", "resume", "transfer", "restore"}
        /\ LET tx == pool[Len(pool)]
           IN /\ script = "deploy" => Len(pool) = 1 /\ tx.do = IF at <= 6 THEN "build" ELSE "wire"
              /\ script = "resume" => tx.do = "wire"
              /\ script = "transfer" => /\ at \in DOMAIN HandOrder /\ IsHand(tx)
                                        /\ tx.of = HandOrder[at] /\ tx.by = "deployer"
              /\ script = "restore" => /\ at \in DOMAIN HandOrder /\ IsHand(tx)
                                       /\ tx.of = HandOrder[at] /\ tx.by = "safe"

\* Six contracts are built, one after the other, and only then is the first reference set.
BuiltThenWired ==
    /\ \A i \in DOMAIN pool : pool[i].do = "build" =>
          built <= 5 /\ \A j \in DOMAIN pool : pool[j].do = "build" => j = i
    /\ 1 \in wired => built = 6
    /\ \A i \in DOMAIN pool : pool[i].do = "wire" /\ pool[i].of = 1 => built = 6
    /\ script = "deploy" =>
          /\ file # "final" /\ built = IF at <= 6 THEN at - 1 ELSE 6
          /\ ~waits => pool = <<>>
    /\ script = "resume" => at >= 7 /\ file # "final"
    /\ file = "final" => wired = Setters /\ built = 6

\* Before the file is final nothing is handed over.
NothingHandedYet ==
    file # "final" =>
        /\ \A c \in Ownables : owner[c] = "deployer"
        /\ \A t \in Treasuries : treasury[t] = "env"
        /\ \A i \in DOMAIN pool : ~IsHand(pool[i])
        /\ last = "none" /\ home = "nobody" /\ script \notin {"transfer", "restore"}

\* Whatever is handed goes the way that was begun last.
OneWay ==
    /\ \A i \in DOMAIN pool : IsHand(pool[i]) =>
          /\ last = "transfer" => pool[i].by = "deployer"
          /\ last = "restore" => pool[i].by = "safe"
    /\ last = "none" => /\ \A c \in Ownables : owner[c] = "deployer"
                        /\ \A i \in DOMAIN pool : ~IsHand(pool[i])
    /\ script \in {"transfer", "restore"} => last = script
    /\ net = "mainnet" /\ last # "none" => safeLive

OwnsEscrow(tx, side) == tx.do = "own" /\ tx.of = "Escrow" /\ tx.by = side

\* The escrow's owner is the last to be handed, in both directions.
EscrowLast ==
    /\ script = "transfer" => \A i \in DOMAIN HandOrder : i < at => HolderOf(HandOrder[i]) = "safe"
    /\ script = "restore" =>
          /\ \A x \in Holdings : HolderOf(x) # "deployer" => x \in plan
          /\ \A i \in DOMAIN HandOrder : i < at => HolderOf(HandOrder[i]) = "deployer"
    /\ \A i \in DOMAIN pool : OwnsEscrow(pool[i], "deployer") =>
          \A x \in Holdings \ {"Escrow"} : HolderOf(x) = "safe"
    /\ \A i \in DOMAIN pool : OwnsEscrow(pool[i], "safe") =>
          \A x \in Holdings \ {"Escrow"} : HolderOf(x) = "deployer"

\* The escrow belongs to the side that last held all of it.
EscrowAtHome == /\ home # "nobody" => owner["Escrow"] = home
                /\ file = "final" => home # "nobody"

RolloutInv ==
    /\ RolloutTypeOK /\ Awaited /\ BuiltThenWired /\ NothingHandedYet
    /\ OneWay /\ EscrowLast /\ EscrowAtHome

(***************************************************************************)
(* The replacement of the escrow, and the contracts that stand alone.      *)
(***************************************************************************)
OrderStates == {"none", "created", "funded", "disputed", "closed"}

CutoverTypeOK ==
    /\ order \in [Escrows -> [Ids -> OrderStates]]
    /\ monitor \in {"off", "reading", "drained", "busy"}
    /\ monitorAt \in [next : Nat \ {0}, count : Nat] /\ strays \subseteq Ids
    /\ unset \subseteq Wires /\ safeTxs \in 0 .. 4
    /\ pointer \in Escrows /\ intake \in Escrows \cup {"frozen"} /\ escrowRun \in {"off", "wiring", "done"}

\* The ids are given out one after the other.
CountsFromOne == \A e \in Escrows : \E n \in 0 .. MaxOrders : {i \in Ids : order[e][i] # "none"} = 1 .. n

HoldsFunds(i) == order["old"][i] \in InFlight

\* What the monitor has passed, and what came after it counted, holds funds only if it was paid
\* since it began.
NothingPassesTheMonitor ==
    /\ monitor = "reading" =>
          \A i \in Ids : HoldsFunds(i) /\ (i < monitorAt.next \/ i > monitorAt.count) => i \in strays
    /\ monitor = "drained" => \A i \in Ids : HoldsFunds(i) => i \in strays

\* The Safe begins once the new escrow was read back and the old one was found empty.
MovesWhenReady ==
    /\ safeTxs > 0 => MayCutOver
    /\ pointer = "new" => safeTxs > 0
    /\ intake = "new" => safeTxs > 2

CutoverInv == CutoverTypeOK /\ CountsFromOne /\ NothingPassesTheMonitor /\ MovesWhenReady

SatTypeOK ==
    /\ sat \in [of : {"credits-sepolia", "credits-mainnet", "billing"}, pc : {"off", "read", "record", "end"}]
    /\ onChain \in Nat /\ inFile \in Nat /\ crashes \in Nat

\* Only the contract that is about to be recorded, or that a crash lost, is not in the file.
SatCounts ==
    /\ sat.of = "credits-mainnet" =>
          onChain - inFile <= crashes + (IF sat.pc = "record" THEN 1 ELSE 0)
    /\ sat.of = "credits-sepolia" => inFile <= IF sat.pc \in {"read", "record"} THEN 0 ELSE 1

SatInv == SatTypeOK /\ SatCounts

DeploymentInv == RolloutInv /\ CutoverInv /\ SatInv

(***************************************************************************)
(* What is handed over, and in which order.                                *)
(***************************************************************************)
LEMMA SixContracts ==
    /\ Len(Deployed) = 6 /\ DOMAIN Deployed = 1 .. 6 /\ Cardinality(Setters) = 17
    /\ Ownables = {"Reputation", "Stake", "Voting", "Dispute", "Escrow", "Credits"}
    /\ \A i \in 1 .. 6 : Deployed[i] \in Ownables
<1>1. Len(Deployed) = 6 /\ DOMAIN Deployed = 1 .. 6 BY DEF Deployed
<1>2. Ownables = {"Reputation", "Stake", "Voting", "Dispute", "Escrow", "Credits"}
  BY <1>1 DEF Ownables, Deployed
<1>3. Cardinality(Setters) = 17
  <2>1. Cardinality(1 .. 17) = IF 1 > 17 THEN 0 ELSE 17 - 1 + 1
    <3>1. 1 \in Int /\ 17 \in Int OBVIOUS
    <3> QED BY <3>1, FS_Interval, Zenon
  <2>2. Cardinality(1 .. 17) = 17 BY <2>1
  <2> QED BY <2>2 DEF Setters
<1>4. \A i \in 1 .. 6 : Deployed[i] \in Ownables BY <1>1 DEF Ownables
<1> QED BY <1>1, <1>2, <1>3, <1>4

LEMMA NineHoldings ==
    /\ DOMAIN HandOrder = 1 .. 9 /\ Len(HandOrder) = 9
    /\ \A i \in 1 .. 9 : HandOrder[i] \in Holdings /\ (HandOrder[i] = "Escrow" <=> i = 9)
    /\ \A x \in Holdings : \E i \in 1 .. 9 : HandOrder[i] = x
    /\ "Escrow" \in Ownables /\ Ownables \cap Treasuries = {}
<1>1. DOMAIN HandOrder = 1 .. 9 /\ Len(HandOrder) = 9 BY DEF HandOrder
<1>2. /\ HandOrder[1] = "Reputation" /\ HandOrder[2] = "Stake" /\ HandOrder[3] = "Voting"
      /\ HandOrder[4] = "Dispute" /\ HandOrder[5] = "Credits" /\ HandOrder[6] = "commission"
      /\ HandOrder[7] = "credits" /\ HandOrder[8] = "community" /\ HandOrder[9] = "Escrow"
  BY DEF HandOrder
<1>3. \A i \in 1 .. 9 : i = 1 \/ i = 2 \/ i = 3 \/ i = 4 \/ i = 5 \/ i = 6 \/ i = 7 \/ i = 8 \/ i = 9
  OBVIOUS
<1>4. Holdings = {"Reputation", "Stake", "Voting", "Dispute", "Escrow", "Credits",
                  "commission", "credits", "community"}
  BY SixContracts DEF Holdings, Treasuries
<1>5. ASSUME NEW i \in 1 .. 9 PROVE HandOrder[i] \in Holdings /\ (HandOrder[i] = "Escrow" <=> i = 9)
  <2>1. HandOrder[i] \in Holdings BY <1>2, <1>3, <1>4
  <2>2. HandOrder[i] = "Escrow" <=> i = 9 BY <1>2, <1>3
  <2> QED BY <2>1, <2>2
<1>6. ASSUME NEW x \in Holdings PROVE \E i \in 1 .. 9 : HandOrder[i] = x
  <2>1. 1 \in 1 .. 9 /\ 2 \in 1 .. 9 /\ 3 \in 1 .. 9 /\ 4 \in 1 .. 9 /\ 5 \in 1 .. 9
        /\ 6 \in 1 .. 9 /\ 7 \in 1 .. 9 /\ 8 \in 1 .. 9 /\ 9 \in 1 .. 9
    OBVIOUS
  <2> QED BY <1>2, <1>4, <2>1
<1>7. "Escrow" \in Ownables /\ Ownables \cap Treasuries = {} BY SixContracts DEF Treasuries
<1> QED BY <1>1, <1>5, <1>6, <1>7

\* A holding that is handed to the other side is there; the others stay.
LEMMA HandedOver ==
    ASSUME RolloutTypeOK, NEW tx \in Txs, IsHand(tx), Takes(tx)
    PROVE  /\ tx.of \in Holdings /\ UNCHANGED <<built, wired>>
           /\ \A x \in Holdings : HolderOf(x)' = IF x = tx.of THEN Other(tx.by) ELSE HolderOf(x)
           /\ owner' \in [Ownables -> Sides] /\ treasury' \in [Treasuries -> Sides \cup {"env"}]
<1>1. /\ tx.do = "own" => tx.of \in Ownables
      /\ tx.do = "fund" => tx.of \in Treasuries
      /\ tx.by \in Sides /\ Other(tx.by) \in Sides
  BY DEF Txs, IsHand, Sides, Other
<1>2. tx.of \in Holdings BY <1>1 DEF IsHand, Holdings
<1>3. UNCHANGED <<built, wired>> BY DEF IsHand, Takes
<1>4. owner' \in [Ownables -> Sides] /\ treasury' \in [Treasuries -> Sides \cup {"env"}]
  BY <1>1 DEF Takes, RolloutTypeOK
<1>5. ASSUME NEW x \in Holdings
      PROVE  HolderOf(x)' = IF x = tx.of THEN Other(tx.by) ELSE HolderOf(x)
  <2>1. CASE tx.do = "own"
    <3>1. owner' = [owner EXCEPT ![tx.of] = Other(tx.by)] /\ treasury' = treasury
      BY <2>1 DEF Takes
    <3>2. x \in Treasuries => x # tx.of BY <1>1, <2>1, NineHoldings
    <3>3. x \notin Treasuries => x \in Ownables BY DEF Holdings
    <3> QED BY <1>1, <2>1, <3>1, <3>2, <3>3 DEF HolderOf, RolloutTypeOK
  <2>2. CASE tx.do = "fund"
    <3>1. treasury' = [treasury EXCEPT ![tx.of] = Other(tx.by)] /\ owner' = owner
      BY <2>2 DEF Takes
    <3>2. x \notin Treasuries => x # tx.of BY <1>1, <2>2
    <3> QED BY <1>1, <2>2, <3>1, <3>2 DEF HolderOf, RolloutTypeOK
  <2> QED BY <2>1, <2>2 DEF IsHand
<1> QED BY <1>2, <1>3, <1>4, <1>5

\* All nine are with one side, or not.
LEMMA WholeSides ==
    /\ Rotated <=> \A x \in Holdings : HolderOf(x) = "safe"
    /\ Restored <=> \A x \in Holdings : HolderOf(x) = "deployer"
    /\ HolderOf("Escrow") = owner["Escrow"]
BY NineHoldings DEF Rotated, Restored, HolderOf

LEMMA WholeSidesNext ==
    /\ Rotated' <=> \A x \in Holdings : HolderOf(x)' = "safe"
    /\ Restored' <=> \A x \in Holdings : HolderOf(x)' = "deployer"
    /\ HolderOf("Escrow")' = owner'["Escrow"]
BY NineHoldings DEF Rotated, Restored, HolderOf

(***************************************************************************)
(* The pool.                                                               *)
(***************************************************************************)
LEMMA PoolGrows ==
    ASSUME pool \in Seq(Txs), NEW tx \in Txs, pool' = Append(pool, tx)
    PROVE  /\ pool' \in Seq(Txs) /\ pool' # <<>> /\ pool'[Len(pool')] = tx
           /\ Len(pool') = Len(pool) + 1 /\ Len(pool) \in Nat
           /\ DOMAIN pool = 1 .. Len(pool) /\ Len(pool) + 1 \in DOMAIN pool'
           /\ \A i \in DOMAIN pool' : \/ i \in DOMAIN pool /\ pool'[i] = pool[i]
                                      \/ i = Len(pool) + 1 /\ pool'[i] = tx
           /\ pool = <<>> => DOMAIN pool = {}
OBVIOUS

\* The head is gone; what is left is as it was, but for the signatures of the Safe.
SameTx(t, u) == t.do = u.do /\ t.of = u.of /\ t.by = u.by

LEMMA OutdatedIsSame ==
    ASSUME NEW txs \in Seq(Txs)
    PROVE  /\ Outdated(txs) \in Seq(Txs) /\ Len(Outdated(txs)) = Len(txs)
           /\ DOMAIN Outdated(txs) = DOMAIN txs /\ (txs # <<>> => Outdated(txs) # <<>>)
           /\ \A i \in DOMAIN txs : SameTx(Outdated(txs)[i], txs[i])
<1> DEFINE out == Outdated(txs)
<1>1. DOMAIN txs = 1 .. Len(txs) /\ Len(txs) \in Nat /\ \A i \in DOMAIN txs : txs[i] \in Txs
  OBVIOUS
<1>2. ASSUME NEW i \in DOMAIN txs PROVE out[i] \in Txs /\ SameTx(out[i], txs[i])
  <2>1. out[i] = IF txs[i].by = "safe" THEN [txs[i] EXCEPT !.fresh = FALSE] ELSE txs[i]
    BY DEF Outdated
  <2>2. txs[i] \in Txs BY <1>1
  <2> HIDE DEF out
  <2> QED BY <2>1, <2>2 DEF Txs, SameTx, Sides
<1>3. out = [i \in 1 .. Len(txs) |-> out[i]] BY <1>1 DEF Outdated
<1> HIDE DEF out
<1>4. out \in Seq(Txs) /\ Len(out) = Len(txs) BY <1>1, <1>2, <1>3
<1>5. DOMAIN out = DOMAIN txs /\ (txs # <<>> => out # <<>>) BY <1>1, <1>4
<1> QED BY <1>2, <1>4, <1>5 DEF out

LEMMA PoolShrinks ==
    ASSUME pool \in Seq(Txs), pool # <<>>,
           pool' = Tail(pool) \/ pool' = Outdated(Tail(pool))
    PROVE  /\ pool' \in Seq(Txs) /\ Len(pool) \in Nat \ {0} /\ Len(pool') = Len(pool) - 1
           /\ DOMAIN pool = 1 .. Len(pool) /\ DOMAIN pool' = 1 .. (Len(pool) - 1)
           /\ Head(pool) = pool[1] /\ pool[1] \in Txs
           /\ \A i \in DOMAIN pool' : i + 1 \in DOMAIN pool /\ SameTx(pool'[i], pool[i + 1])
           /\ Len(pool) = 1 => pool' = <<>>
           /\ Len(pool) > 1 => pool' # <<>> /\ SameTx(pool'[Len(pool')], pool[Len(pool)])
<1> DEFINE rest == Tail(pool)
<1>1. /\ rest \in Seq(Txs) /\ Len(pool) \in Nat \ {0} /\ Len(rest) = Len(pool) - 1
      /\ DOMAIN pool = 1 .. Len(pool) /\ DOMAIN rest = 1 .. (Len(pool) - 1)
      /\ Head(pool) = pool[1] /\ pool[1] \in Txs
      /\ \A i \in DOMAIN rest : i + 1 \in DOMAIN pool /\ rest[i] = pool[i + 1] /\ rest[i] \in Txs
  OBVIOUS
<1> HIDE DEF rest
<1>2. /\ pool' \in Seq(Txs) /\ Len(pool') = Len(rest) /\ DOMAIN pool' = DOMAIN rest
      /\ \A i \in DOMAIN rest : SameTx(pool'[i], rest[i])
  <2>1. CASE pool' = rest BY <1>1, <2>1 DEF SameTx
  <2>2. CASE pool' = Outdated(rest) BY <1>1, <2>2, OutdatedIsSame
  <2> QED BY <2>1, <2>2 DEF rest
<1>3. \A i \in DOMAIN pool' : i + 1 \in DOMAIN pool /\ SameTx(pool'[i], pool[i + 1])
  BY <1>1, <1>2
<1>4. Len(pool) = 1 => pool' = <<>> BY <1>1, <1>2
<1>5. Len(pool) > 1 => pool' # <<>> /\ SameTx(pool'[Len(pool')], pool[Len(pool)])
  BY <1>1, <1>2
<1> QED BY <1>1, <1>2, <1>3, <1>4, <1>5

(***************************************************************************)
(* The rollout: every step keeps the invariant.                            *)
(***************************************************************************)
LEMMA RolloutInitInv == RolloutInit => RolloutInv
<1> SUFFICES ASSUME RolloutInit PROVE RolloutInv OBVIOUS
<1>1. pool = <<>> /\ DOMAIN pool = {} /\ ~waits /\ script = "none" BY DEF RolloutInit
<1>2. RolloutTypeOK
  <2>1. net \in {"mainnet", "sepolia"} /\ resumeFrom \in {7, 8}
    BY RolloutAssumption DEF RolloutInit, FirstResumed
  <2>2. owner \in [Ownables -> Sides] /\ treasury \in [Treasuries -> Sides \cup {"env"}]
    BY DEF RolloutInit, Sides
  <2>3. pool \in Seq(Txs) BY <1>1
  <2>4. safeLive \in BOOLEAN /\ waits \in BOOLEAN BY <1>1 DEF RolloutInit
  <2>5. built \in 0 .. 6 /\ at \in Nat \ {0} /\ wired \subseteq Setters /\ plan \subseteq Holdings
    BY DEF RolloutInit
  <2>6. /\ file = "none" /\ home = "nobody" /\ last = "none" BY DEF RolloutInit
  <2> QED BY <1>1, <2>1, <2>2, <2>3, <2>4, <2>5, <2>6 DEF RolloutTypeOK
<1>3. Awaited BY <1>1 DEF Awaited
<1>4. BuiltThenWired BY <1>1 DEF RolloutInit, BuiltThenWired
<1>5. NothingHandedYet BY <1>1 DEF RolloutInit, NothingHandedYet
<1>6. OneWay BY <1>1 DEF RolloutInit, OneWay
<1>7. EscrowLast BY <1>1 DEF EscrowLast
<1>8. EscrowAtHome BY DEF RolloutInit, EscrowAtHome
<1> QED BY <1>2, <1>3, <1>4, <1>5, <1>6, <1>7, <1>8 DEF RolloutInv

\* A script sends its next transaction.
LEMMA SendKeepsInv ==
    ASSUME RolloutInv, NEW tx \in Txs, Send(tx), ~waits,
           script \in {"deploy", "resume", "transfer", "restore"},
           script = "deploy" => tx.do = IF at <= 6 THEN "build" ELSE "wire",
           script = "resume" => tx.do = "wire" /\ tx.of # 1,
           script = "transfer" => at \in DOMAIN HandOrder /\ IsHand(tx) /\ tx.of = HandOrder[at] /\ tx.by = "deployer",
           script = "restore" => at \in DOMAIN HandOrder /\ IsHand(tx) /\ tx.of = HandOrder[at] /\ tx.by = "safe"
    PROVE  RolloutInv'
<1>1. /\ pool' = Append(pool, tx) /\ waits' = TRUE
      /\ UNCHANGED <<net, file, resumeFrom, built, wired, safeLive, owner, treasury>>
      /\ UNCHANGED <<script, at, plan, home, last, audit, mishaps>>
  BY DEF Send
<1>2. /\ pool' \in Seq(Txs) /\ pool' # <<>> /\ pool'[Len(pool')] = tx
      /\ Len(pool') = Len(pool) + 1 /\ Len(pool) \in Nat /\ DOMAIN pool = 1 .. Len(pool)
      /\ \A i \in DOMAIN pool' : \/ i \in DOMAIN pool /\ pool'[i] = pool[i]
                                 \/ i = Len(pool) + 1 /\ pool'[i] = tx
      /\ pool = <<>> => DOMAIN pool = {}
  BY <1>1, PoolGrows DEF RolloutInv, RolloutTypeOK
<1>3. script = "deploy" => pool = <<>> BY DEF RolloutInv, BuiltThenWired
<1>4. RolloutTypeOK' BY <1>1, <1>2 DEF RolloutInv, RolloutTypeOK
<1>5. Awaited'
  <2>1. script = "deploy" => Len(pool') = 1 BY <1>2, <1>3
  <2> QED BY <1>1, <1>2, <2>1 DEF Awaited
<1>6. BuiltThenWired'
  <2>1. tx.do = "build" => script = "deploy" /\ built <= 5 /\ DOMAIN pool = {}
    BY <1>2, <1>3 DEF RolloutInv, BuiltThenWired, RolloutTypeOK, IsHand
  <2>2. tx.do = "wire" /\ tx.of = 1 => built = 6
    BY DEF RolloutInv, BuiltThenWired, RolloutTypeOK, IsHand
  <2>3. ASSUME NEW i \in DOMAIN pool', pool'[i].do = "build"
        PROVE  built' <= 5 /\ \A j \in DOMAIN pool' : pool'[j].do = "build" => j = i
    BY <1>1, <1>2, <2>1, <2>3 DEF RolloutInv, BuiltThenWired
  <2>4. ASSUME NEW i \in DOMAIN pool', pool'[i].do = "wire", pool'[i].of = 1 PROVE built' = 6
    BY <1>1, <1>2, <2>2, <2>4 DEF RolloutInv, BuiltThenWired
  <2> QED BY <1>1, <2>3, <2>4 DEF RolloutInv, BuiltThenWired
<1>7. NothingHandedYet'
  <2>1. file # "final" => ~IsHand(tx) BY DEF RolloutInv, NothingHandedYet, IsHand
  <2> QED BY <1>1, <1>2, <2>1 DEF RolloutInv, NothingHandedYet
<1>8. OneWay'
  <2>1. IsHand(tx) => /\ last = script
                      /\ script = "transfer" => tx.by = "deployer"
                      /\ script = "restore" => tx.by = "safe"
                      /\ script \in {"transfer", "restore"}
    <3>1. IsHand(tx) => script \in {"transfer", "restore"} BY DEF IsHand
    <3> QED BY <3>1 DEF RolloutInv, OneWay
  <2> QED BY <1>1, <1>2, <2>1 DEF RolloutInv, OneWay
<1>9. EscrowLast'
  <2>1. \A x : HolderOf(x)' = HolderOf(x) BY <1>1 DEF HolderOf
  <2>2. ASSUME OwnsEscrow(tx, "deployer"), NEW x \in Holdings \ {"Escrow"} PROVE HolderOf(x) = "safe"
    <3>1. script = "transfer" /\ at = 9 BY <2>2, NineHoldings DEF OwnsEscrow
    <3>2. PICK i \in 1 .. 9 : HandOrder[i] = x BY NineHoldings
    <3>3. i < 9 BY <2>2, <3>2, NineHoldings
    <3> QED BY <3>1, <3>2, <3>3, NineHoldings DEF RolloutInv, EscrowLast
  <2>3. ASSUME OwnsEscrow(tx, "safe"), NEW x \in Holdings \ {"Escrow"} PROVE HolderOf(x) = "deployer"
    <3>1. script = "restore" /\ at = 9 BY <2>3, NineHoldings DEF OwnsEscrow
    <3>2. PICK i \in 1 .. 9 : HandOrder[i] = x BY NineHoldings
    <3>3. i < 9 BY <2>3, <3>2, NineHoldings
    <3> QED BY <3>1, <3>2, <3>3, NineHoldings DEF RolloutInv, EscrowLast
  <2>4. ASSUME NEW i \in DOMAIN pool', OwnsEscrow(pool'[i], "deployer"), NEW x \in Holdings \ {"Escrow"}
        PROVE  HolderOf(x) = "safe"
    BY <1>2, <2>2, <2>4 DEF RolloutInv, EscrowLast
  <2>5. ASSUME NEW i \in DOMAIN pool', OwnsEscrow(pool'[i], "safe"), NEW x \in Holdings \ {"Escrow"}
        PROVE  HolderOf(x) = "deployer"
    BY <1>2, <2>3, <2>5 DEF RolloutInv, EscrowLast
  <2> QED BY <1>1, <2>1, <2>4, <2>5 DEF RolloutInv, EscrowLast
<1>10. EscrowAtHome' BY <1>1 DEF RolloutInv, EscrowAtHome
<1> QED BY <1>4, <1>5, <1>6, <1>7, <1>8, <1>9, <1>10 DEF RolloutInv

\* What a mined transaction does to the holdings.
LEMMA MinedHandsOver ==
    ASSUME RolloutInv, Mine
    PROVE  /\ \A x \in Holdings : last = "transfer" /\ HolderOf(x) = "safe" => HolderOf(x)' = "safe"
           /\ \A x \in Holdings : last = "restore" /\ HolderOf(x) = "deployer" => HolderOf(x)' = "deployer"
           /\ \A x \in Holdings : HolderOf(x)' # HolderOf(x) =>
                 /\ IsHand(Head(pool)) /\ Head(pool).of = x /\ Succeeds(Head(pool))
                 /\ HolderOf(x)' = Other(Head(pool).by)
           /\ IsHand(Head(pool)) /\ Succeeds(Head(pool)) =>
                 /\ Head(pool).of \in Holdings
                 /\ \A x \in Holdings : x = Head(pool).of => HolderOf(x)' = Other(Head(pool).by)
           /\ owner' \in [Ownables -> Sides] /\ treasury' \in [Treasuries -> Sides \cup {"env"}]
           /\ ~IsHand(Head(pool)) => UNCHANGED <<owner, treasury>>
<1> DEFINE tx == Head(pool)
<1>1. tx \in Txs /\ tx = pool[1] /\ 1 \in DOMAIN pool /\ tx.by \in Sides
  <2>1. tx \in Txs /\ tx = pool[1] /\ 1 \in DOMAIN pool BY DEF RolloutInv, RolloutTypeOK, Mine
  <2> QED BY <2>1 DEF Txs, Sides
<1>2. IF Succeeds(tx) THEN Takes(tx) ELSE UNCHANGED <<built, wired, owner, treasury>> BY DEF Mine
<1>3. IsHand(tx) => /\ last = "transfer" => tx.by = "deployer"
                    /\ last = "restore" => tx.by = "safe"
  BY <1>1 DEF RolloutInv, OneWay
<1> HIDE DEF tx
<1>4. CASE IsHand(tx) /\ Succeeds(tx)
  <2>1. /\ tx.of \in Holdings
        /\ \A x \in Holdings : HolderOf(x)' = IF x = tx.of THEN Other(tx.by) ELSE HolderOf(x)
        /\ owner' \in [Ownables -> Sides] /\ treasury' \in [Treasuries -> Sides \cup {"env"}]
    BY <1>1, <1>2, <1>4, HandedOver DEF RolloutInv
  <2>2. \A x \in Holdings : last = "transfer" /\ HolderOf(x) = "safe" => HolderOf(x)' = "safe"
    BY <1>3, <1>4, <2>1 DEF Other
  <2>3. \A x \in Holdings : last = "restore" /\ HolderOf(x) = "deployer" => HolderOf(x)' = "deployer"
    BY <1>3, <1>4, <2>1 DEF Other
  <2>4. \A x \in Holdings : x = tx.of => HolderOf(x)' = Other(tx.by) BY <2>1
  <2>5. \A x \in Holdings : HolderOf(x)' # HolderOf(x) => tx.of = x /\ HolderOf(x)' = Other(tx.by)
    BY <2>1
  <2> QED BY <1>4, <2>1, <2>2, <2>3, <2>4, <2>5 DEF tx
<1>5. CASE ~(IsHand(tx) /\ Succeeds(tx))
  <2>1. UNCHANGED <<owner, treasury>> BY <1>2, <1>5 DEF Takes, IsHand
  <2>2. \A x : HolderOf(x)' = HolderOf(x) BY <2>1 DEF HolderOf
  <2> QED BY <1>5, <2>1, <2>2 DEF RolloutInv, RolloutTypeOK, tx
<1> QED BY <1>4, <1>5

\* A transaction is mined, and takes effect or reverts.
LEMMA MineKeepsInv == RolloutInv /\ Mine => RolloutInv'
<1> SUFFICES ASSUME RolloutInv, Mine PROVE RolloutInv' OBVIOUS
<1> DEFINE tx == Head(pool)
           told == waits /\ Len(pool) = 1
<1>1. /\ pool # <<>> /\ UNCHANGED <<net, file, resumeFrom, safeLive, plan, last, mishaps>>
      /\ IF Succeeds(tx) THEN Takes(tx) ELSE UNCHANGED <<built, wired, owner, treasury>>
      /\ pool' = Tail(pool) \/ pool' = Outdated(Tail(pool))
      /\ waits' = (waits /\ ~told)
      /\ at' = IF told /\ Succeeds(tx) THEN at + 1 ELSE at
      /\ script' = IF told /\ ~Succeeds(tx) THEN "none" ELSE script
      /\ home' = IF Rotated' THEN "safe" ELSE IF Restored' THEN "deployer" ELSE home
  BY DEF Mine
<1>2. /\ pool' \in Seq(Txs) /\ Len(pool) \in Nat \ {0} /\ Len(pool') = Len(pool) - 1
      /\ DOMAIN pool = 1 .. Len(pool) /\ DOMAIN pool' = 1 .. (Len(pool) - 1)
      /\ tx = pool[1] /\ tx \in Txs /\ 1 \in DOMAIN pool
      /\ \A i \in DOMAIN pool' : i + 1 \in DOMAIN pool /\ SameTx(pool'[i], pool[i + 1])
      /\ Len(pool) = 1 => pool' = <<>>
      /\ Len(pool) > 1 => pool' # <<>> /\ SameTx(pool'[Len(pool')], pool[Len(pool)])
  BY <1>1, PoolShrinks DEF RolloutInv, RolloutTypeOK
<1>3. tx.do \in {"build", "wire", "own", "fund"} /\ (tx.do = "wire" => tx.of \in Setters) BY <1>2 DEF Txs
<1>4. /\ \A x \in Holdings : last = "transfer" /\ HolderOf(x) = "safe" => HolderOf(x)' = "safe"
      /\ \A x \in Holdings : last = "restore" /\ HolderOf(x) = "deployer" => HolderOf(x)' = "deployer"
      /\ \A x \in Holdings : HolderOf(x)' # HolderOf(x) =>
            IsHand(tx) /\ tx.of = x /\ Succeeds(tx) /\ HolderOf(x)' = Other(tx.by)
      /\ IsHand(tx) /\ Succeeds(tx) => \A x \in Holdings : x = tx.of => HolderOf(x)' = Other(tx.by)
      /\ owner' \in [Ownables -> Sides] /\ treasury' \in [Treasuries -> Sides \cup {"env"}]
      /\ ~IsHand(tx) => UNCHANGED <<owner, treasury>>
  BY MinedHandsOver
<1>5. /\ built' = built \/ (tx.do = "build" /\ built' = built + 1 /\ Succeeds(tx))
      /\ wired' = wired \/ (tx.do = "wire" /\ wired' = wired \cup {tx.of})
      /\ Succeeds(tx) /\ tx.do = "build" => built' = built + 1
      /\ tx.do # "build" => built' = built
      /\ tx.do = "build" => wired' = wired
      /\ tx.do = "build" => built <= 5
  BY <1>1, <1>2 DEF Takes, RolloutInv, BuiltThenWired
<1>6. told => pool[Len(pool)] = tx /\ pool' = <<>> /\ ~waits' BY <1>1, <1>2
<1>7. ASSUME waits' PROVE waits /\ Len(pool) > 1 /\ at' = at /\ script' = script
  <2>1. waits /\ ~told BY <1>1, <1>7
  <2>2. Len(pool) # 1 BY <2>1
  <2> QED BY <1>1, <1>2, <2>1, <2>2
<1>8. waits' \in BOOLEAN BY <1>1 DEF RolloutInv, RolloutTypeOK
<1> HIDE DEF tx, told
<1>9. RolloutTypeOK'
  <2>1. built' \in 0 .. 6 BY <1>5 DEF RolloutInv, RolloutTypeOK
  <2>2. wired' \subseteq Setters BY <1>3, <1>5 DEF RolloutInv, RolloutTypeOK
  <2>3. home' \in Sides \cup {"nobody"} BY <1>1 DEF RolloutInv, RolloutTypeOK, Sides
  <2>4. at' \in Nat \ {0} BY <1>1 DEF RolloutInv, RolloutTypeOK
  <2>5. script' \in {"none", "deploy", "resume", "transfer", "restore", "verify"}
    BY <1>1 DEF RolloutInv, RolloutTypeOK
  <2> QED BY <1>1, <1>2, <1>4, <1>8, <2>1, <2>2, <2>3, <2>4, <2>5 DEF RolloutInv, RolloutTypeOK
<1>10. Awaited'
  <2> SUFFICES ASSUME waits' PROVE Awaited' BY Zenon DEF Awaited
  <2>1. waits /\ Len(pool) > 1 /\ UNCHANGED <<at, script>> BY <1>7
  <2>2. pool' # <<>> /\ SameTx(pool'[Len(pool')], pool[Len(pool)]) BY <1>2, <2>1
  <2>3. script # "deploy" BY <1>2, <2>1 DEF RolloutInv, Awaited
  <2> QED BY <2>1, <2>2, <2>3 DEF RolloutInv, Awaited, SameTx, IsHand
<1>11. BuiltThenWired'
  <2>1. ASSUME NEW i \in DOMAIN pool', pool'[i].do = "build"
        PROVE  built' <= 5 /\ \A j \in DOMAIN pool' : pool'[j].do = "build" => j = i
    <3>1. i + 1 \in DOMAIN pool /\ pool[i + 1].do = "build" BY <1>2, <2>1 DEF SameTx
    <3>2. built <= 5 /\ \A j \in DOMAIN pool : pool[j].do = "build" => j = i + 1
      BY <3>1 DEF RolloutInv, BuiltThenWired
    <3>3. tx.do # "build" BY <1>2, <3>2
    <3>4. ASSUME NEW j \in DOMAIN pool', pool'[j].do = "build" PROVE j = i
      <4>1. j + 1 \in DOMAIN pool /\ pool[j + 1].do = "build" BY <1>2, <3>4 DEF SameTx
      <4>2. j + 1 = i + 1 BY <3>2, <4>1
      <4> QED BY <1>2, <4>2
    <3> QED BY <1>5, <3>2, <3>3, <3>4
  <2>2. ASSUME 1 \in wired' PROVE built' = 6
    <3>1. tx.do = "build" => built = 6 BY <1>5, <2>2 DEF RolloutInv, BuiltThenWired
    <3>2. tx.do # "build" BY <1>5, <3>1 DEF RolloutInv, RolloutTypeOK
    <3>3. 1 \in wired \/ (tx.do = "wire" /\ tx.of = 1) BY <1>5, <2>2
    <3>4. built = 6 BY <1>2, <3>3 DEF RolloutInv, BuiltThenWired
    <3> QED BY <1>5, <3>2, <3>4
  <2>3. ASSUME NEW i \in DOMAIN pool', pool'[i].do = "wire", pool'[i].of = 1 PROVE built' = 6
    <3>1. i + 1 \in DOMAIN pool /\ pool[i + 1].do = "wire" /\ pool[i + 1].of = 1
      BY <1>2, <2>3 DEF SameTx
    <3>2. built = 6 BY <3>1 DEF RolloutInv, BuiltThenWired
    <3>3. tx.do # "build" BY <1>5, <3>2
    <3> QED BY <1>5, <3>2, <3>3
  <2>4. ASSUME script' = "deploy"
        PROVE  /\ file' # "final" /\ built' = IF at' <= 6 THEN at' - 1 ELSE 6
               /\ ~waits' => pool' = <<>>
    <3>1. script = "deploy" /\ file # "final" /\ built = IF at <= 6 THEN at - 1 ELSE 6
      BY <1>1, <2>4 DEF RolloutInv, BuiltThenWired
    <3>2. waits BY <1>1, <3>1 DEF RolloutInv, BuiltThenWired
    <3>3. Len(pool) = 1 /\ pool[1].do = IF at <= 6 THEN "build" ELSE "wire"
      BY <3>1, <3>2 DEF RolloutInv, Awaited
    <3>4. told /\ Succeeds(tx) /\ at' = at + 1
      <4>1. told BY <3>2, <3>3 DEF told
      <4>2. Succeeds(tx) BY <1>1, <2>4, <4>1
      <4> QED BY <1>1, <4>1, <4>2
    <3>5. at \in Nat \ {0} BY DEF RolloutInv, RolloutTypeOK
    <3>6. built' = IF at' <= 6 THEN at' - 1 ELSE 6
      <4>1. CASE at <= 6
        <5>1. built' = built + 1 BY <1>2, <1>5, <3>3, <3>4, <4>1
        <5> QED BY <3>1, <3>4, <3>5, <4>1, <5>1
      <4>2. CASE ~(at <= 6) BY <1>2, <1>5, <3>1, <3>3, <3>4, <3>5, <4>2
      <4> QED BY <4>1, <4>2
    <3> QED BY <1>1, <1>6, <3>1, <3>4, <3>6
  <2>5. script' = "resume" => at' >= 7 /\ file' # "final"
    BY <1>1 DEF RolloutInv, BuiltThenWired, RolloutTypeOK
  <2>6. ASSUME file' = "final" PROVE wired' = Setters /\ built' = 6
    <3>1. wired = Setters /\ built = 6 BY <1>1, <2>6 DEF RolloutInv, BuiltThenWired
    <3>2. tx.do # "build" BY <1>5, <3>1
    <3> QED BY <1>3, <1>5, <3>1, <3>2
  <2> QED BY <2>1, <2>2, <2>3, <2>4, <2>5, <2>6 DEF BuiltThenWired
<1>12. NothingHandedYet'
  <2> SUFFICES ASSUME file' # "final" PROVE NothingHandedYet' BY Zenon DEF NothingHandedYet
  <2>1. /\ file # "final" /\ \A c \in Ownables : owner[c] = "deployer"
        /\ \A t \in Treasuries : treasury[t] = "env"
        /\ last = "none" /\ home = "nobody"
        /\ \A i \in DOMAIN pool : ~IsHand(pool[i])
        /\ script \notin {"transfer", "restore"}
    BY <1>1 DEF RolloutInv, NothingHandedYet
  <2>2. UNCHANGED <<owner, treasury>> BY <1>2, <1>4, <2>1
  <2>3. "commission" \in Treasuries /\ "commission" \in Holdings BY DEF Treasuries, Holdings
  <2>4. HolderOf("commission")' = "env" BY <2>1, <2>2, <2>3 DEF HolderOf
  <2>5. ~Rotated' /\ ~Restored' BY <2>3, <2>4, WholeSidesNext
  <2>6. \A i \in DOMAIN pool' : ~IsHand(pool'[i]) BY <1>2, <2>1 DEF SameTx, IsHand
  <2>7. last' = "none" /\ home' = "nobody"
    <3>1. home' = IF Rotated' THEN "safe" ELSE IF Restored' THEN "deployer" ELSE home BY <1>1
    <3>2. home' = home BY <2>5, <3>1, Zenon
    <3> QED BY <1>1, <2>1, <3>2
  <2>8. script' \notin {"transfer", "restore"} BY <1>1, <2>1
  <2>9. /\ \A c \in Ownables : owner'[c] = "deployer"
        /\ \A t \in Treasuries : treasury'[t] = "env"
    BY <2>1, <2>2
  <2> QED BY <2>6, <2>7, <2>8, <2>9 DEF NothingHandedYet
<1>13. OneWay'
  <2>1. ASSUME NEW i \in DOMAIN pool', IsHand(pool'[i])
        PROVE  /\ i + 1 \in DOMAIN pool /\ IsHand(pool[i + 1]) /\ pool'[i].by = pool[i + 1].by
    BY <1>2, <2>1 DEF SameTx, IsHand
  <2>2. last = "none" => ~IsHand(tx) BY <1>2 DEF RolloutInv, OneWay
  <2>3. script' \in {"transfer", "restore"} => script' = script BY <1>1
  <2> QED BY <1>1, <1>4, <2>1, <2>2, <2>3 DEF RolloutInv, OneWay
<1>14. EscrowLast'
  <2>1. script' = "transfer" => script = "transfer" /\ last = "transfer"
    BY <1>1 DEF RolloutInv, OneWay
  <2>2. script' = "restore" => script = "restore" /\ last = "restore"
    BY <1>1 DEF RolloutInv, OneWay
  <2>3. \A i \in DOMAIN HandOrder : HandOrder[i] \in Holdings BY NineHoldings
  <2>4. at' # at => told /\ Succeeds(tx) /\ at' = at + 1 /\ waits BY <1>1 DEF told
  <2>5. at \in Nat BY DEF RolloutInv, RolloutTypeOK
  <2>6. ASSUME script' = "transfer", NEW i \in DOMAIN HandOrder, i < at'
        PROVE  HolderOf(HandOrder[i])' = "safe"
    <3>1. CASE i < at BY <1>4, <2>1, <2>3, <2>6, <3>1 DEF RolloutInv, EscrowLast
    <3>2. CASE ~(i < at)
      <4>1. i = at /\ told /\ Succeeds(tx) /\ waits BY <2>4, <2>5, <2>6, <3>2, NineHoldings
      <4>2. IsHand(tx) /\ tx.of = HandOrder[i] /\ tx.by = "deployer"
        BY <1>6, <2>1, <2>6, <4>1 DEF RolloutInv, Awaited
      <4> QED BY <1>4, <2>3, <4>1, <4>2 DEF Other
    <3> QED BY <3>1, <3>2
  <2>7. ASSUME script' = "restore", NEW i \in DOMAIN HandOrder, i < at'
        PROVE  HolderOf(HandOrder[i])' = "deployer"
    <3>1. CASE i < at BY <1>4, <2>2, <2>3, <2>7, <3>1 DEF RolloutInv, EscrowLast
    <3>2. CASE ~(i < at)
      <4>1. i = at /\ told /\ Succeeds(tx) /\ waits BY <2>4, <2>5, <2>7, <3>2, NineHoldings
      <4>2. IsHand(tx) /\ tx.of = HandOrder[i] /\ tx.by = "safe"
        BY <1>6, <2>2, <2>7, <4>1 DEF RolloutInv, Awaited
      <4> QED BY <1>4, <2>3, <4>1, <4>2 DEF Other
    <3> QED BY <3>1, <3>2
  <2>8. ASSUME script' = "restore", NEW x \in Holdings, HolderOf(x)' # "deployer" PROVE x \in plan'
    BY <1>1, <1>4, <2>2, <2>8 DEF RolloutInv, EscrowLast
  <2>9. ASSUME NEW i \in DOMAIN pool', OwnsEscrow(pool'[i], "deployer"), NEW x \in Holdings \ {"Escrow"}
        PROVE  HolderOf(x)' = "safe"
    <3>1. i + 1 \in DOMAIN pool /\ OwnsEscrow(pool[i + 1], "deployer") /\ IsHand(pool[i + 1])
      BY <1>2, <2>9 DEF SameTx, OwnsEscrow, IsHand
    <3>2. HolderOf(x) = "safe" BY <3>1 DEF RolloutInv, EscrowLast
    <3>3. last = "transfer" BY <3>1 DEF RolloutInv, OneWay, RolloutTypeOK, OwnsEscrow
    <3> QED BY <1>4, <3>2, <3>3
  <2>10. ASSUME NEW i \in DOMAIN pool', OwnsEscrow(pool'[i], "safe"), NEW x \in Holdings \ {"Escrow"}
         PROVE  HolderOf(x)' = "deployer"
    <3>1. i + 1 \in DOMAIN pool /\ OwnsEscrow(pool[i + 1], "safe") /\ IsHand(pool[i + 1])
      BY <1>2, <2>10 DEF SameTx, OwnsEscrow, IsHand
    <3>2. HolderOf(x) = "deployer" BY <3>1 DEF RolloutInv, EscrowLast
    <3>3. last = "restore" BY <3>1 DEF RolloutInv, OneWay, RolloutTypeOK, OwnsEscrow
    <3> QED BY <1>4, <3>2, <3>3
  <2> QED BY <2>6, <2>7, <2>8, <2>9, <2>10 DEF EscrowLast
<1>15. EscrowAtHome'
  <2>1. "Escrow" \in Holdings /\ HolderOf("Escrow") = owner["Escrow"] /\ HolderOf("Escrow")' = owner'["Escrow"]
    BY NineHoldings, WholeSides, WholeSidesNext DEF Holdings
  <2>2. ASSUME owner'["Escrow"] # owner["Escrow"] PROVE Rotated' \/ Restored'
    <3>1. IsHand(tx) /\ tx.of = "Escrow" /\ Succeeds(tx) /\ owner'["Escrow"] = Other(tx.by)
      BY <1>4, <2>1, <2>2
    <3>2. tx.by \in Sides /\ tx.do = "own"
      BY <1>2, <3>1, NineHoldings DEF Txs, IsHand, Sides, Treasuries
    <3>3. CASE tx.by = "deployer"
      <4>1. last = "transfer" BY <1>2, <3>1, <3>3 DEF RolloutInv, OneWay, RolloutTypeOK
      <4>2. OwnsEscrow(tx, "deployer") BY <3>1, <3>2, <3>3 DEF OwnsEscrow
      <4>3. \A x \in Holdings \ {"Escrow"} : HolderOf(x)' = "safe"
        BY <1>2, <1>4, <4>1, <4>2 DEF RolloutInv, EscrowLast
      <4>4. HolderOf("Escrow")' = "safe" BY <2>1, <3>1, <3>3 DEF Other
      <4> QED BY <4>3, <4>4, WholeSidesNext
    <3>4. CASE tx.by = "safe"
      <4>1. last = "restore" BY <1>2, <3>1, <3>4 DEF RolloutInv, OneWay, RolloutTypeOK
      <4>2. OwnsEscrow(tx, "safe") BY <3>1, <3>2, <3>4 DEF OwnsEscrow
      <4>3. \A x \in Holdings \ {"Escrow"} : HolderOf(x)' = "deployer"
        BY <1>2, <1>4, <4>1, <4>2 DEF RolloutInv, EscrowLast
      <4>4. HolderOf("Escrow")' = "deployer" BY <2>1, <3>1, <3>4 DEF Other
      <4> QED BY <4>3, <4>4, WholeSidesNext
    <3> QED BY <3>2, <3>3, <3>4 DEF Sides
  <2>3. Rotated' => owner'["Escrow"] = "safe" BY <2>1, WholeSidesNext
  <2>4. Restored' => owner'["Escrow"] = "deployer" BY <2>1, WholeSidesNext
  <2>5. CASE Rotated' BY <1>1, <2>3, <2>5 DEF EscrowAtHome
  <2>6. CASE Restored' /\ ~Rotated' BY <1>1, <2>4, <2>6 DEF EscrowAtHome
  <2>7. CASE ~Restored' /\ ~Rotated' BY <1>1, <2>2, <2>7 DEF RolloutInv, EscrowAtHome
  <2> QED BY <2>5, <2>6, <2>7
<1> QED BY <1>9, <1>10, <1>11, <1>12, <1>13, <1>14, <1>15 DEF RolloutInv

\* The steps that leave the chain, the pool and the holdings alone.
LEMMA HoldersStay ==
    ASSUME UNCHANGED <<owner, treasury>>
    PROVE  /\ \A x : HolderOf(x)' = HolderOf(x)
           /\ Rotated' <=> Rotated
           /\ Restored' <=> Restored
<1>1. \A x : HolderOf(x)' = HolderOf(x) BY DEF HolderOf
<1> QED BY <1>1 DEF Rotated, Restored, HandOrder

LEMMA HandTxIsHand ==
    ASSUME NEW x \in Holdings, NEW side \in Sides
    PROVE  /\ HandTx(x, side) \in Txs /\ IsHand(HandTx(x, side))
           /\ HandTx(x, side).of = x /\ HandTx(x, side).by = side
<1>1. CASE x \in Treasuries
  <2>1. HandTx(x, side) = [do |-> "fund", of |-> x, by |-> side, fresh |-> TRUE] BY <1>1 DEF HandTx, Tx
  <2> QED BY <1>1, <2>1 DEF Txs, IsHand
<1>2. CASE x \notin Treasuries
  <2>1. x \in Ownables BY <1>2 DEF Holdings
  <2>2. HandTx(x, side) = [do |-> "own", of |-> x, by |-> side, fresh |-> TRUE] BY <1>2 DEF HandTx, Tx
  <2> QED BY <2>1, <2>2 DEF Txs, IsHand
<1> QED BY <1>1, <1>2

LEMMA SkipKeepsInv ==
    ASSUME RolloutInv, Skip, ~waits, script \in {"resume", "transfer", "restore"},
           script = "transfer" => at \in DOMAIN HandOrder /\ HolderOf(HandOrder[at]) = "safe",
           script = "restore" => at \in DOMAIN HandOrder /\ HolderOf(HandOrder[at]) = "deployer"
    PROVE  RolloutInv'
<1>1. /\ at' = at + 1 /\ UNCHANGED <<net, file, resumeFrom, built, wired, safeLive, owner, treasury, pool>>
      /\ UNCHANGED <<script, plan, waits, home, last, audit, mishaps>>
  BY DEF Skip, chainVars
<1>2. \A x : HolderOf(x)' = HolderOf(x) BY <1>1, HoldersStay
<1>3. at \in Nat \ {0} BY DEF RolloutInv, RolloutTypeOK
<1>4. RolloutTypeOK' BY <1>1, <1>3 DEF RolloutInv, RolloutTypeOK
<1>5. Awaited' BY <1>1, Zenon DEF Awaited
<1>6. BuiltThenWired' BY <1>1, <1>3 DEF RolloutInv, BuiltThenWired
<1>7. NothingHandedYet' BY <1>1 DEF RolloutInv, NothingHandedYet
<1>8. OneWay' BY <1>1 DEF RolloutInv, OneWay
<1>9. EscrowLast'
  <2>1. ASSUME script = "transfer", NEW i \in DOMAIN HandOrder, i < at'
        PROVE  HolderOf(HandOrder[i]) = "safe"
    <3>1. i < at \/ i = at BY <1>1, <1>3, <2>1, NineHoldings
    <3> QED BY <2>1, <3>1 DEF RolloutInv, EscrowLast
  <2>2. ASSUME script = "restore", NEW i \in DOMAIN HandOrder, i < at'
        PROVE  HolderOf(HandOrder[i]) = "deployer"
    <3>1. i < at \/ i = at BY <1>1, <1>3, <2>2, NineHoldings
    <3> QED BY <2>2, <3>1 DEF RolloutInv, EscrowLast
  <2> QED BY <1>1, <1>2, <2>1, <2>2 DEF RolloutInv, EscrowLast
<1>10. EscrowAtHome' BY <1>1 DEF RolloutInv, EscrowAtHome
<1> QED BY <1>4, <1>5, <1>6, <1>7, <1>8, <1>9, <1>10 DEF RolloutInv

LEMMA EndedKeepsInv ==
    ASSUME RolloutInv, script' = "none", plan' = {}, ~waits', waits' \in BOOLEAN,
           UNCHANGED <<net, file, resumeFrom, built, wired, safeLive, owner, treasury, pool>>,
           UNCHANGED <<at, home, last>>
    PROVE  RolloutInv'
<1>1. \A x : HolderOf(x)' = HolderOf(x) BY HoldersStay
<1>2. RolloutTypeOK' BY DEF RolloutInv, RolloutTypeOK
<1>3. Awaited' BY Zenon DEF Awaited
<1>4. BuiltThenWired' BY DEF RolloutInv, BuiltThenWired
<1>5. NothingHandedYet' BY DEF RolloutInv, NothingHandedYet
<1>6. OneWay' BY DEF RolloutInv, OneWay
<1>7. EscrowLast' BY <1>1 DEF RolloutInv, EscrowLast
<1>8. EscrowAtHome' BY DEF RolloutInv, EscrowAtHome
<1> QED BY <1>2, <1>3, <1>4, <1>5, <1>6, <1>7, <1>8 DEF RolloutInv

\* A script that ends leaves nothing it would wait for.
LEMMA EndsKeepsInv ==
    ASSUME RolloutInv, (~waits /\ Ends(file, home, audit)) \/ VerifyStep \/ Crash
    PROVE  RolloutInv'
<1>1. /\ UNCHANGED <<net, file, resumeFrom, built, wired, safeLive, owner, treasury, pool>>
      /\ UNCHANGED <<at, home, last>> /\ script' = "none" /\ plan' = {} /\ ~waits' /\ waits' \in BOOLEAN
  <2>1. VerifyStep => ~waits BY DEF VerifyStep, RolloutInv, Awaited
  <2>2. waits \in BOOLEAN BY DEF RolloutInv, RolloutTypeOK
  <2>3. CASE Crash BY <2>3 DEF Crash, chainVars
  <2>4. CASE ~waits /\ Ends(file, home, audit) BY <2>2, <2>4 DEF Ends, chainVars
  <2>5. CASE VerifyStep BY <2>1, <2>2, <2>5 DEF VerifyStep, Ends, chainVars
  <2> QED BY <2>3, <2>4, <2>5
<1> QED BY <1>1, EndedKeepsInv

\* The file is written where all is wired.
LEMMA SavesKeepsInv ==
    ASSUME RolloutInv, SavesIfWired, ~waits, file # "final", AllWired => built = 6
    PROVE  RolloutInv'
<1>1. /\ UNCHANGED <<net, resumeFrom, built, wired, safeLive, owner, treasury, pool, at, last, waits>>
      /\ script' = "none" /\ plan' = {}
      /\ IF AllWired THEN file' = "final" /\ home' = "deployer"
         ELSE file' \in {"rejected", file} /\ home' = home
  BY DEF SavesIfWired, Ends, chainVars
<1>2. /\ \A c \in Ownables : owner[c] = "deployer"
      /\ \A i \in DOMAIN pool : ~IsHand(pool[i])
      /\ last = "none" /\ home = "nobody"
  BY DEF RolloutInv, NothingHandedYet
<1>3. RolloutTypeOK' BY <1>1 DEF RolloutInv, RolloutTypeOK, Sides
<1>4. Awaited' BY <1>1, Zenon DEF Awaited
<1>5. BuiltThenWired' BY <1>1 DEF RolloutInv, BuiltThenWired, AllWired
<1>6. NothingHandedYet'
  <2>1. file' # "final" => home' = home BY <1>1
  <2> QED BY <1>1, <2>1 DEF RolloutInv, NothingHandedYet
<1>7. OneWay' BY <1>1, <1>2 DEF RolloutInv, OneWay
<1>8. EscrowLast'
  <2>1. \A i \in DOMAIN pool : ~OwnsEscrow(pool[i], "deployer") /\ ~OwnsEscrow(pool[i], "safe")
    BY <1>2 DEF OwnsEscrow, IsHand
  <2> QED BY <1>1, <2>1 DEF EscrowLast
<1>9. EscrowAtHome'
  <2>1. owner["Escrow"] = "deployer" BY <1>2, NineHoldings
  <2> QED BY <1>1, <1>2, <2>1 DEF EscrowAtHome
<1> QED BY <1>3, <1>4, <1>5, <1>6, <1>7, <1>8, <1>9 DEF RolloutInv

LEMMA DeployStepKeepsInv == RolloutInv /\ DeployStep => RolloutInv'
<1> SUFFICES ASSUME RolloutInv, DeployStep PROVE RolloutInv' OBVIOUS
<1>1. script = "deploy" /\ ~waits /\ at \in Nat \ {0} /\ pool = <<>> /\ file # "final"
  BY DEF DeployStep, RolloutInv, RolloutTypeOK, BuiltThenWired
<1>2. CASE at <= Len(Deployed) /\ Send(Tx("build", Deployed[at], "deployer"))
  <2> DEFINE tx == Tx("build", Deployed[at], "deployer")
  <2>1. at \in 1 .. 6 BY <1>1, <1>2, SixContracts
  <2>2. tx \in Txs /\ tx.do = "build" BY <2>1, SixContracts DEF Tx, Txs
  <2>3. Send(tx) BY <1>2
  <2> HIDE DEF tx
  <2> QED BY <1>1, <2>1, <2>2, <2>3, SendKeepsInv
<1>3. CASE at - Len(Deployed) \in Setters /\ Send(Tx("wire", at - Len(Deployed), "deployer"))
  <2> DEFINE tx == Tx("wire", at - Len(Deployed), "deployer")
  <2>1. ~(at <= 6) BY <1>1, <1>3, SixContracts DEF Setters
  <2>2. tx \in Txs /\ tx.do = "wire" BY <1>3 DEF Tx, Txs
  <2>3. Send(tx) BY <1>3
  <2> HIDE DEF tx
  <2> QED BY <1>1, <2>1, <2>2, <2>3, SendKeepsInv
<1>4. CASE at > Len(Deployed) + Cardinality(Setters) /\ SavesIfWired
  <2>1. ~(at <= 6) BY <1>1, <1>4, SixContracts
  <2>2. built = 6 BY <1>1, <2>1 DEF RolloutInv, BuiltThenWired
  <2> QED BY <1>1, <1>4, <2>2, SavesKeepsInv
<1> QED BY <1>2, <1>3, <1>4 DEF DeployStep

LEMMA ResumeStepKeepsInv == RolloutInv /\ ResumeStep => RolloutInv'
<1> SUFFICES ASSUME RolloutInv, ResumeStep PROVE RolloutInv' OBVIOUS
<1>1. script = "resume" /\ ~waits /\ at \in Nat /\ at >= 7 /\ file # "final"
  BY DEF ResumeStep, RolloutInv, RolloutTypeOK, BuiltThenWired
<1>2. CASE at \in Setters /\ at \notin wired /\ Send(Tx("wire", at, "deployer"))
  <2> DEFINE tx == Tx("wire", at, "deployer")
  <2>1. tx \in Txs /\ tx.do = "wire" /\ tx.of # 1 BY <1>1, <1>2 DEF Tx, Txs
  <2>2. Send(tx) BY <1>2
  <2> HIDE DEF tx
  <2> QED BY <1>1, <2>1, <2>2, SendKeepsInv
<1>3. CASE Skip BY <1>1, <1>3, SkipKeepsInv
<1>4. CASE SavesIfWired
  <2>1. AllWired => built = 6 BY DEF RolloutInv, BuiltThenWired, AllWired, Setters
  <2> QED BY <1>1, <1>4, <2>1, SavesKeepsInv
<1> QED BY <1>2, <1>3, <1>4 DEF ResumeStep

LEMMA HandStepKeepsInv == RolloutInv /\ (TransferStep \/ RestoreStep) => RolloutInv'
<1>1. ASSUME RolloutInv, TransferStep PROVE RolloutInv'
  <2>1. script = "transfer" /\ ~waits BY <1>1 DEF TransferStep
  <2>2. CASE at > Len(HandOrder) /\ Ends(file, home, audit) BY <1>1, <2>1, <2>2, EndsKeepsInv
  <2>3. CASE at \in DOMAIN HandOrder /\ HolderOf(HandOrder[at]) = "safe" /\ Skip
    BY <1>1, <2>1, <2>3, SkipKeepsInv
  <2>4. CASE at \in DOMAIN HandOrder /\ Send(HandTx(HandOrder[at], "deployer"))
    <3> DEFINE tx == HandTx(HandOrder[at], "deployer")
    <3>1. tx \in Txs /\ IsHand(tx) /\ tx.of = HandOrder[at] /\ tx.by = "deployer"
      BY <2>4, NineHoldings, HandTxIsHand DEF Sides
    <3>2. Send(tx) BY <2>4
    <3> HIDE DEF tx
    <3> QED BY <1>1, <2>1, <2>4, <3>1, <3>2, SendKeepsInv
  <2> QED BY <1>1, <2>2, <2>3, <2>4 DEF TransferStep
<1>2. ASSUME RolloutInv, RestoreStep PROVE RolloutInv'
  <2>1. script = "restore" /\ ~waits BY <1>2 DEF RestoreStep
  <2>2. CASE at > Len(HandOrder) /\ Ends(file, home, audit) BY <1>2, <2>1, <2>2, EndsKeepsInv
  <2>3. CASE at \in DOMAIN HandOrder /\ HandOrder[at] \notin plan /\ Skip
    <3>1. HolderOf(HandOrder[at]) = "deployer"
      BY <1>2, <2>1, <2>3, NineHoldings DEF RolloutInv, EscrowLast
    <3> QED BY <1>2, <2>1, <2>3, <3>1, SkipKeepsInv
  <2>4. CASE at \in DOMAIN HandOrder /\ Send(HandTx(HandOrder[at], "safe"))
    <3> DEFINE tx == HandTx(HandOrder[at], "safe")
    <3>1. tx \in Txs /\ IsHand(tx) /\ tx.of = HandOrder[at] /\ tx.by = "safe"
      BY <2>4, NineHoldings, HandTxIsHand DEF Sides
    <3>2. Send(tx) BY <2>4
    <3> HIDE DEF tx
    <3> QED BY <1>2, <2>1, <2>4, <3>1, <3>2, SendKeepsInv
  <2> QED BY <1>2, <2>2, <2>3, <2>4 DEF RestoreStep
<1> QED BY <1>1, <1>2

\* The person begins a script.
LEMMA LaunchKeepsInv == RolloutInv /\ (Launch \/ Divert) => RolloutInv'
<1>1. ASSUME RolloutInv, StartDeploy PROVE RolloutInv'
  <2>1. /\ script = "none" /\ file # "final" /\ script' = "deploy" /\ at' = 1 /\ plan' = {}
        /\ built' = 0 /\ wired' = {} /\ pool' = <<>> /\ file' = "none"
        /\ UNCHANGED <<net, resumeFrom, safeLive, owner, treasury, waits, home, audit, last>>
    BY <1>1 DEF StartDeploy, Runs
  <2>2. ~waits /\ waits' \in BOOLEAN BY <1>1, <2>1 DEF RolloutInv, Awaited, RolloutTypeOK
  <2>3. DOMAIN pool' = {} BY <2>1
  <2>4. RolloutTypeOK' BY <1>1, <2>1, <2>2 DEF RolloutInv, RolloutTypeOK
  <2>5. Awaited' BY <2>1, <2>2 DEF Awaited
  <2>6. BuiltThenWired' BY <2>1, <2>3 DEF BuiltThenWired
  <2>7. NothingHandedYet' BY <1>1, <2>1, <2>3 DEF RolloutInv, NothingHandedYet
  <2>8. OneWay' BY <1>1, <2>1, <2>3 DEF RolloutInv, OneWay
  <2>9. EscrowLast' BY <2>1, <2>3 DEF EscrowLast
  <2>10. EscrowAtHome' BY <1>1, <2>1 DEF RolloutInv, EscrowAtHome
  <2> QED BY <2>4, <2>5, <2>6, <2>7, <2>8, <2>9, <2>10 DEF RolloutInv
<1>2. ASSUME RolloutInv, script = "none", script' \in {"resume", "transfer", "restore", "verify"},
             at' \in Nat \ {0}, plan' \subseteq Holdings, last' \in {"none", "transfer", "restore"},
             UNCHANGED <<net, file, resumeFrom, built, wired, safeLive, owner, treasury, pool, waits, home>>,
             script' = "resume" => at' >= 7 /\ file # "final",
             script' \in {"transfer", "restore"} => last' = script' /\ file = "final" /\ (net = "mainnet" => safeLive),
             script' \in {"transfer", "restore"} => at' = 1,
             script' = "restore" => plan' = RestorePlan,
             last' # last => last' = script' /\ (last = "none" \/ pool = <<>>)
      PROVE  RolloutInv'
  <2>1. ~waits /\ waits \in BOOLEAN BY <1>2 DEF RolloutInv, Awaited, RolloutTypeOK
  <2>2. \A x : HolderOf(x)' = HolderOf(x) BY <1>2, HoldersStay
  <2>3. last' # last => \A i \in DOMAIN pool : ~IsHand(pool[i])
    BY <1>2 DEF RolloutInv, OneWay
  <2>4. RolloutTypeOK' BY <1>2 DEF RolloutInv, RolloutTypeOK
  <2>5. Awaited' BY <1>2, <2>1 DEF Awaited
  <2>6. BuiltThenWired' BY <1>2 DEF RolloutInv, BuiltThenWired
  <2>7. NothingHandedYet'
    <3>1. file # "final" => last' = last /\ script' \notin {"transfer", "restore"}
      BY <1>2
    <3> QED BY <1>2, <3>1 DEF RolloutInv, NothingHandedYet
  <2>8. OneWay'
    <3>1. last' = "none" => last = "none" BY <1>2
    <3>2. last' # "none" /\ net = "mainnet" => safeLive BY <1>2 DEF RolloutInv, OneWay
    <3> QED BY <1>2, <2>3, <3>1, <3>2 DEF RolloutInv, OneWay
  <2>9. EscrowLast'
    <3>1. \A x \in Holdings : HolderOf(x) # "deployer" => x \in RestorePlan
      BY DEF RestorePlan, Holdings
    <3>2. DOMAIN HandOrder = 1 .. 9 BY NineHoldings
    <3>3. script' \in {"transfer", "restore"} => \A i \in DOMAIN HandOrder : ~(i < at')
      BY <1>2, <3>2
    <3> QED BY <1>2, <2>2, <3>1, <3>3 DEF RolloutInv, EscrowLast
  <2>10. EscrowAtHome' BY <1>2 DEF RolloutInv, EscrowAtHome
  <2> QED BY <2>4, <2>5, <2>6, <2>7, <2>8, <2>9, <2>10 DEF RolloutInv
<1>3. ASSUME RolloutInv, StartResume PROVE RolloutInv'
  <2>1. resumeFrom \in {7, 8} /\ last \in {"none", "transfer", "restore"}
    BY <1>3 DEF RolloutInv, RolloutTypeOK
  <2>2. /\ script = "none" /\ script' = "resume" /\ at' = resumeFrom /\ plan' = {}
        /\ file \in {"partial", "rejected"}
        /\ UNCHANGED <<net, file, resumeFrom, built, wired, safeLive, owner, treasury, pool, waits, home, last>>
    BY <1>3 DEF StartResume, Runs
  <2>3. last' = last BY <2>2
  <2> QED BY <1>2, <1>3, <2>1, <2>2, <2>3
<1>4. ASSUME RolloutInv, StartTransfer PROVE RolloutInv'
  <2>1. last \in {"none", "transfer", "restore"} BY <1>4 DEF RolloutInv, RolloutTypeOK
  <2>2. /\ script = "none" /\ script' = "transfer" /\ at' = 1 /\ plan' = {} /\ file = "final"
        /\ (net = "mainnet" => safeLive) /\ (last = "restore" => pool = <<>>) /\ last' = "transfer"
        /\ UNCHANGED <<net, file, resumeFrom, built, wired, safeLive, owner, treasury, pool, waits, home>>
    BY <1>4 DEF StartTransfer, Runs
  <2> QED BY <1>2, <1>4, <2>1, <2>2
<1>5. ASSUME RolloutInv, StartRestore PROVE RolloutInv'
  <2>1. last \in {"none", "transfer", "restore"} BY <1>5 DEF RolloutInv, RolloutTypeOK
  <2>2. /\ script = "none" /\ script' = "restore" /\ at' = 1 /\ plan' = RestorePlan /\ file = "final"
        /\ safeLive /\ (last = "transfer" => pool = <<>>) /\ last' = "restore"
        /\ UNCHANGED <<net, file, resumeFrom, built, wired, safeLive, owner, treasury, pool, waits, home>>
    BY <1>5 DEF StartRestore, Runs
  <2>3. RestorePlan \subseteq Holdings BY DEF RestorePlan, Holdings
  <2> QED BY <1>2, <1>5, <2>1, <2>2, <2>3
<1>6. ASSUME RolloutInv, StartVerify PROVE RolloutInv'
  <2>1. last \in {"none", "transfer", "restore"} BY <1>6 DEF RolloutInv, RolloutTypeOK
  <2>2. /\ script = "none" /\ script' = "verify" /\ at' = 1 /\ plan' = {}
        /\ UNCHANGED <<net, file, resumeFrom, built, wired, safeLive, owner, treasury, pool, waits, home, last>>
    BY <1>6 DEF StartVerify, Runs
  <2>3. last' = last BY <2>2
  <2> QED BY <1>2, <1>6, <2>1, <2>2, <2>3
<1> QED BY <1>1, <1>3, <1>4, <1>5, <1>6 DEF Launch, Divert

\* The contracts of a broken run are written down by hand; the Safe is created; the mempool
\* and other business of the Safe.
LEMMA AroundKeepsInv ==
    RolloutInv /\ (HandOver \/ CreateSafe \/ SafeTxElsewhere \/ Evicted) => RolloutInv'
<1>1. ASSUME RolloutInv, HandOver PROVE RolloutInv'
  <2>1. /\ script = "none" /\ file = "none" /\ built = 6 /\ file' = "partial"
        /\ UNCHANGED <<net, built, wired, safeLive, owner, treasury, pool, script, at, plan, waits>>
        /\ UNCHANGED <<home, last, audit>>
    BY <1>1, SixContracts DEF HandOver, chainVars, runVars
  <2>2. resumeFrom' \in {7, 8} BY <1>1 DEF HandOver, FirstResumed, RolloutInv, RolloutTypeOK
  <2>3. RolloutTypeOK' BY <1>1, <2>1, <2>2 DEF RolloutInv, RolloutTypeOK
  <2>4. Awaited' BY <1>1, <2>1, Zenon DEF RolloutInv, Awaited
  <2>5. BuiltThenWired' BY <1>1, <2>1 DEF RolloutInv, BuiltThenWired
  <2>6. NothingHandedYet' BY <1>1, <2>1 DEF RolloutInv, NothingHandedYet
  <2>7. OneWay' BY <1>1, <2>1 DEF RolloutInv, OneWay
  <2>8. EscrowLast'
    <3>1. \A x : HolderOf(x)' = HolderOf(x) BY <2>1, HoldersStay
    <3> QED BY <1>1, <2>1, <3>1 DEF RolloutInv, EscrowLast
  <2>9. EscrowAtHome' BY <1>1, <2>1 DEF RolloutInv, EscrowAtHome
  <2> QED BY <2>3, <2>4, <2>5, <2>6, <2>7, <2>8, <2>9 DEF RolloutInv
<1>2. ASSUME RolloutInv, safeLive' \in BOOLEAN, safeLive => safeLive',
             UNCHANGED <<net, file, resumeFrom, built, wired, owner, treasury, script, at, plan, waits, home, last>>,
             pool' \in Seq(Txs), Len(pool') = Len(pool), pool # <<>> => pool' # <<>>,
             \A i \in DOMAIN pool' : i \in DOMAIN pool /\ SameTx(pool'[i], pool[i]),
             script = "deploy" /\ ~waits => pool' = <<>>
      PROVE  RolloutInv'
  <2>1. \A x : HolderOf(x)' = HolderOf(x) BY <1>2, HoldersStay
  <2>2. RolloutTypeOK' BY <1>2 DEF RolloutInv, RolloutTypeOK
  <2>3. Awaited'
    <3>1. waits => pool # <<>> /\ pool' # <<>> BY <1>2 DEF RolloutInv, Awaited
    <3>2. pool' # <<>> => Len(pool') \in DOMAIN pool' BY <1>2
    <3>3. waits => SameTx(pool'[Len(pool')], pool[Len(pool)]) BY <1>2, <3>1, <3>2
    <3> QED BY <1>2, <3>1, <3>3 DEF RolloutInv, Awaited, SameTx, IsHand
  <2>4. BuiltThenWired' BY <1>2 DEF RolloutInv, BuiltThenWired, SameTx
  <2>5. NothingHandedYet' BY <1>2 DEF RolloutInv, NothingHandedYet, SameTx, IsHand
  <2>6. OneWay' BY <1>2 DEF RolloutInv, OneWay, SameTx, IsHand
  <2>7. EscrowLast' BY <1>2, <2>1 DEF RolloutInv, EscrowLast, SameTx, OwnsEscrow
  <2>8. EscrowAtHome' BY <1>2 DEF RolloutInv, EscrowAtHome
  <2> QED BY <2>2, <2>3, <2>4, <2>5, <2>6, <2>7, <2>8 DEF RolloutInv
<1>3. ASSUME RolloutInv, CreateSafe PROVE RolloutInv'
  <2>1. /\ safeLive' = TRUE
        /\ UNCHANGED <<net, file, resumeFrom, built, wired, owner, treasury, script, at, plan, waits, home, last>>
        /\ pool' = pool
    BY <1>3 DEF CreateSafe, runVars
  <2>2. \A i \in DOMAIN pool : SameTx(pool[i], pool[i]) BY DEF SameTx
  <2>3. pool \in Seq(Txs) BY <1>3 DEF RolloutInv, RolloutTypeOK
  <2>4. script = "deploy" /\ ~waits => pool = <<>> BY <1>3 DEF RolloutInv, BuiltThenWired
  <2>5. safeLive' \in BOOLEAN /\ (safeLive => safeLive') BY <2>1
  <2> QED BY <1>2, <1>3, <2>1, <2>2, <2>3, <2>4, <2>5
<1>4. ASSUME RolloutInv, SafeTxElsewhere PROVE RolloutInv'
  <2>1. /\ safeLive' = safeLive
        /\ UNCHANGED <<net, file, resumeFrom, built, wired, owner, treasury, script, at, plan, waits, home, last>>
        /\ pool' = Outdated(pool) /\ pool # <<>>
    BY <1>4 DEF SafeTxElsewhere, runVars
  <2>2. pool \in Seq(Txs) /\ safeLive \in BOOLEAN BY <1>4 DEF RolloutInv, RolloutTypeOK
  <2>3. /\ pool' \in Seq(Txs) /\ Len(pool') = Len(pool) /\ pool' # <<>>
        /\ \A i \in DOMAIN pool' : i \in DOMAIN pool /\ SameTx(pool'[i], pool[i])
    BY <2>1, <2>2, OutdatedIsSame
  <2>4. script = "deploy" /\ ~waits => pool = <<>> BY <1>4 DEF RolloutInv, BuiltThenWired
  <2>5. safeLive' \in BOOLEAN /\ (safeLive => safeLive') BY <2>1, <2>2
  <2> QED BY <1>2, <1>4, <2>1, <2>3, <2>4, <2>5
<1>5. ASSUME RolloutInv, Evicted PROVE RolloutInv'
  <2>1. /\ ~waits /\ pool' = <<>>
        /\ UNCHANGED <<net, file, resumeFrom, built, wired, safeLive, owner, treasury>>
        /\ UNCHANGED <<script, at, plan, waits, home, last>>
    BY <1>5 DEF Evicted, runVars
  <2>2. DOMAIN pool' = {} BY <2>1
  <2>3. \A x : HolderOf(x)' = HolderOf(x) BY <2>1, HoldersStay
  <2>4. RolloutTypeOK' BY <1>5, <2>1 DEF RolloutInv, RolloutTypeOK
  <2>5. Awaited' BY <2>1, Zenon DEF Awaited
  <2>6. BuiltThenWired' BY <1>5, <2>1, <2>2 DEF RolloutInv, BuiltThenWired
  <2>7. NothingHandedYet' BY <1>5, <2>1, <2>2 DEF RolloutInv, NothingHandedYet
  <2>8. OneWay' BY <1>5, <2>1, <2>2 DEF RolloutInv, OneWay
  <2>9. EscrowLast' BY <1>5, <2>1, <2>2, <2>3 DEF RolloutInv, EscrowLast
  <2>10. EscrowAtHome' BY <1>5, <2>1 DEF RolloutInv, EscrowAtHome
  <2> QED BY <2>4, <2>5, <2>6, <2>7, <2>8, <2>9, <2>10 DEF RolloutInv
<1> QED BY <1>1, <1>3, <1>4, <1>5

LEMMA RolloutNextKeepsInv == RolloutInv /\ [RolloutNext]_rolloutVars => RolloutInv'
<1>1. ASSUME RolloutInv, UNCHANGED rolloutVars PROVE RolloutInv'
  <2>1. /\ UNCHANGED <<net, file, resumeFrom, built, wired, safeLive, owner, treasury, pool>>
        /\ UNCHANGED <<script, at, plan, waits, home, last, audit, mishaps>>
    BY <1>1 DEF rolloutVars, chainVars, runVars
  <2>2. \A x : HolderOf(x)' = HolderOf(x) BY <2>1, HoldersStay
  <2>3. RolloutTypeOK' BY <1>1, <2>1 DEF RolloutInv, RolloutTypeOK
  <2>4. Awaited' BY <1>1, <2>1 DEF RolloutInv, Awaited
  <2>5. BuiltThenWired' BY <1>1, <2>1 DEF RolloutInv, BuiltThenWired
  <2>6. NothingHandedYet' BY <1>1, <2>1 DEF RolloutInv, NothingHandedYet
  <2>7. OneWay' BY <1>1, <2>1 DEF RolloutInv, OneWay
  <2>8. EscrowLast' BY <1>1, <2>1, <2>2 DEF RolloutInv, EscrowLast
  <2>9. EscrowAtHome' BY <1>1, <2>1 DEF RolloutInv, EscrowAtHome
  <2> QED BY <2>3, <2>4, <2>5, <2>6, <2>7, <2>8, <2>9 DEF RolloutInv
<1> QED BY <1>1, MineKeepsInv, DeployStepKeepsInv, ResumeStepKeepsInv, HandStepKeepsInv, EndsKeepsInv,
           LaunchKeepsInv, AroundKeepsInv DEF RolloutNext, ScriptStep

(***************************************************************************)
(* The replacement of the escrow.                                          *)
(***************************************************************************)
LEMMA CutoverInitInv == CutoverInit => CutoverInv
<1> SUFFICES ASSUME CutoverInit PROVE CutoverInv OBVIOUS
<1>1. CutoverTypeOK
  BY CutoverAssumption DEF CutoverInit, CutoverTypeOK, OrderStates, Escrows, Wires
<1>2. CountsFromOne
  <2>1. \A e \in Escrows : {i \in Ids : order[e][i] # "none"} = 1 .. 0 BY DEF CutoverInit
  <2> QED BY <2>1, CutoverAssumption DEF CountsFromOne
<1>3. NothingPassesTheMonitor /\ MovesWhenReady
  BY DEF CutoverInit, NothingPassesTheMonitor, MovesWhenReady
<1> QED BY <1>1, <1>2, <1>3 DEF CutoverInv

\* The orders of an escrow are numbered from one to their count.
LEMMA CountIsLast ==
    ASSUME CountsFromOne, NEW e \in Escrows
    PROVE  /\ Count(e) \in 0 .. MaxOrders
           /\ \A i \in Ids : order[e][i] # "none" <=> i <= Count(e)
<1>1. PICK n \in 0 .. MaxOrders : {i \in Ids : order[e][i] # "none"} = 1 .. n BY DEF CountsFromOne
<1>2. Cardinality(1 .. n) = n
  <2>1. Cardinality(1 .. n) = IF 1 > n THEN 0 ELSE n - 1 + 1
    <3>1. 1 \in Int /\ n \in Int BY CutoverAssumption
    <3> QED BY <3>1, FS_Interval, Zenon
  <2> QED BY <2>1, CutoverAssumption
<1>3. Count(e) = n BY <1>1, <1>2 DEF Count
<1>4. ASSUME NEW i \in Ids PROVE order[e][i] # "none" <=> i <= n
  <2>1. order[e][i] # "none" <=> i \in 1 .. n BY <1>1
  <2> QED BY <2>1, CutoverAssumption DEF Ids
<1> QED BY <1>3, <1>4

\* An order changes its state; nothing holds funds in the old escrow that did not before, but
\* what is noted as paid since.
LEMMA OrderStepKeepsInv ==
    ASSUME CutoverInv, NEW e \in Escrows, NEW i \in Ids, NEW s \in OrderStates, SetOrder(e, i, s),
           s # "none", order[e][i] = "none" => i = Count(e) + 1,
           UNCHANGED <<moveVars, monitor, monitorAt, intake, pointer>>,
           strays \subseteq strays', strays' \subseteq Ids,
           e = "old" /\ s \in InFlight => order[e][i] \in InFlight \/ i \in strays'
    PROVE  CutoverInv'
<1>1. /\ order' = [order EXCEPT ![e][i] = s]
      /\ UNCHANGED <<escrowRun, unset, safeTxs, monitor, monitorAt, intake, pointer>>
  BY DEF SetOrder, moveVars
<1>2. order \in [Escrows -> [Ids -> OrderStates]] BY DEF CutoverInv, CutoverTypeOK
<1>3. \A f \in Escrows, j \in Ids : order'[f][j] = IF f = e /\ j = i THEN s ELSE order[f][j]
  BY <1>1, <1>2
<1>4. CutoverTypeOK'
  <2>1. order' \in [Escrows -> [Ids -> OrderStates]] BY <1>1, <1>2
  <2> QED BY <1>1, <2>1 DEF CutoverInv, CutoverTypeOK
<1>5. CountsFromOne'
  <2> SUFFICES ASSUME NEW f \in Escrows
               PROVE  \E n \in 0 .. MaxOrders : {j \in Ids : order'[f][j] # "none"} = 1 .. n
    BY DEF CountsFromOne
  <2>1. /\ Count(f) \in 0 .. MaxOrders
        /\ \A j \in Ids : order[f][j] # "none" <=> j <= Count(f)
    BY CountIsLast DEF CutoverInv
  <2>2. CASE f = e /\ order[e][i] = "none"
    <3>1. i = Count(f) + 1 BY <2>2
    <3>2. \A j \in Ids : order'[f][j] # "none" <=> j <= i
      BY <1>3, <2>1, <2>2, <3>1, CutoverAssumption DEF Ids
    <3>3. {j \in Ids : order'[f][j] # "none"} = 1 .. i
      BY <3>2, CutoverAssumption DEF Ids
    <3>4. i \in 0 .. MaxOrders BY CutoverAssumption DEF Ids
    <3> QED BY <3>3, <3>4
  <2>3. CASE ~(f = e /\ order[e][i] = "none")
    <3>1. {j \in Ids : order'[f][j] # "none"} = {j \in Ids : order[f][j] # "none"}
      BY <1>3, <2>3
    <3>2. PICK n \in 0 .. MaxOrders : {j \in Ids : order[f][j] # "none"} = 1 .. n
      BY DEF CutoverInv, CountsFromOne
    <3> QED BY <3>1, <3>2
  <2> QED BY <2>2, <2>3
<1>6. NothingPassesTheMonitor'
  <2>1. \A j \in Ids : HoldsFunds(j)' => HoldsFunds(j) \/ j \in strays'
    BY <1>3 DEF HoldsFunds, Escrows
  <2>2. monitor' = monitor /\ monitorAt' = monitorAt BY <1>1
  <2> QED BY <2>1, <2>2 DEF CutoverInv, NothingPassesTheMonitor
<1>7. MovesWhenReady' BY <1>1 DEF CutoverInv, MovesWhenReady, MayCutOver
<1> QED BY <1>4, <1>5, <1>6, <1>7 DEF CutoverInv

LEMMA OrdersKeepInv ==
    /\ CutoverInv /\ Create => CutoverInv'
    /\ CutoverInv /\ Settlement => CutoverInv'
    /\ \A e \in Escrows, i \in Ids : CutoverInv /\ (Fund(e, i) \/ OpenDispute(e, i)) => CutoverInv'
<1>1. ASSUME CutoverInv, Create PROVE CutoverInv'
  <2>1. PICK e \in Escrows : /\ Count(e) < MaxOrders /\ SetOrder(e, Count(e) + 1, "created")
                             /\ UNCHANGED <<dispute, pointer, authorized, intake, moveVars, monitorVars, faults>>
    BY <1>1 DEF Create
  <2>2. Count(e) + 1 \in Ids BY <1>1, <2>1, CountIsLast, CutoverAssumption DEF CutoverInv, Ids
  <2>3. /\ UNCHANGED <<moveVars, monitor, monitorAt, intake, pointer>> /\ strays' = strays
    BY <2>1 DEF monitorVars
  <2>4. "created" \in OrderStates /\ "created" \notin InFlight BY DEF OrderStates, InFlight
  <2>5. strays \subseteq Ids BY <1>1 DEF CutoverInv, CutoverTypeOK
  <2> QED BY <1>1, <2>1, <2>2, <2>3, <2>4, <2>5, OrderStepKeepsInv
<1>2. ASSUME CutoverInv, NEW e \in Escrows, NEW i \in Ids, NEW s \in {"funded", "disputed", "closed"},
             SetOrder(e, i, s), order[e][i] \in {"created", "funded", "disputed"},
             UNCHANGED <<pointer, intake, moveVars, monitor, monitorAt>>,
             IF s = "funded" /\ e = "old" THEN strays' = strays \cup {i} ELSE strays' = strays,
             s = "disputed" => order[e][i] = "funded"
      PROVE  CutoverInv'
  <2>1. s \in OrderStates /\ s # "none" /\ order[e][i] # "none" BY <1>2 DEF OrderStates
  <2>2. strays \subseteq Ids /\ strays \subseteq strays' /\ strays' \subseteq Ids
    BY <1>2 DEF CutoverInv, CutoverTypeOK
  <2>3. UNCHANGED <<moveVars, monitor, monitorAt, intake, pointer>> BY <1>2
  <2>4. e = "old" /\ s \in InFlight => order[e][i] \in InFlight \/ i \in strays'
    BY <1>2 DEF InFlight
  <2> QED BY <1>2, <2>1, <2>2, <2>3, <2>4, OrderStepKeepsInv
<1>3. ASSUME CutoverInv, Settlement PROVE CutoverInv'
  <2>1. PICK i \in Ids : Resolve(i) \/ \E e \in Escrows : Settle(e, i) BY <1>3 DEF Settlement
  <2>2. CASE Resolve(i)
    <3>1. /\ order[pointer][i] = "disputed" /\ SetOrder(pointer, i, "closed") /\ strays' = strays
          /\ UNCHANGED <<pointer, intake, moveVars, monitor, monitorAt>>
      BY <2>2 DEF Resolve, shopSideVars, monitorVars
    <3>2. pointer \in Escrows BY <1>3 DEF CutoverInv, CutoverTypeOK
    <3> QED BY <1>2, <1>3, <3>1, <3>2
  <2>3. ASSUME NEW e \in Escrows, Settle(e, i) PROVE CutoverInv'
    <3>1. /\ order[e][i] = "funded" /\ SetOrder(e, i, "closed") /\ strays' = strays
          /\ UNCHANGED <<pointer, intake, moveVars, monitor, monitorAt>>
      BY <2>3 DEF Settle, shopSideVars, monitorVars
    <3> QED BY <1>2, <1>3, <3>1
  <2> QED BY <2>1, <2>2, <2>3
<1>4. ASSUME NEW e \in Escrows, NEW i \in Ids, CutoverInv, Fund(e, i) PROVE CutoverInv'
  <2>1. /\ order[e][i] = "created" /\ SetOrder(e, i, "funded")
        /\ strays' = IF e = "old" THEN strays \cup {i} ELSE strays
        /\ UNCHANGED <<pointer, intake, moveVars, monitor, monitorAt>>
    BY <1>4 DEF Fund, shopSideVars
  <2> QED BY <1>2, <1>4, <2>1
<1>5. ASSUME NEW e \in Escrows, NEW i \in Ids, CutoverInv, OpenDispute(e, i) PROVE CutoverInv'
  <2>1. /\ order[e][i] = "funded" /\ SetOrder(e, i, "disputed") /\ strays' = strays
        /\ UNCHANGED <<pointer, intake, moveVars, monitor, monitorAt>>
    BY <1>5 DEF OpenDispute, shopSideVars, monitorVars
  <2> QED BY <1>2, <1>5, <2>1
<1> QED BY <1>1, <1>3, <1>4, <1>5

\* Who leaves the orders alone: the scripts, the monitor, the Safe and the shop.
LEMMA MoveKeepsInv ==
    CutoverInv /\ (MigrationStep \/ CutOver \/ ResumeIntake \/ EscrowRunBreaks \/ Rollback) => CutoverInv'
<1>1. ASSUME CutoverInv, order' = order, CutoverTypeOK', NothingPassesTheMonitor', MovesWhenReady'
      PROVE  CutoverInv'
  BY <1>1 DEF CutoverInv, CountsFromOne
<1>2. ASSUME CutoverInv, UNCHANGED <<order, monitor, monitorAt, strays>> PROVE NothingPassesTheMonitor'
  BY <1>2 DEF CutoverInv, NothingPassesTheMonitor, HoldsFunds
<1>3. ASSUME CutoverInv, DeployEscrow \/ WireEscrow \/ EscrowRunBreaks \/ DeployAgain PROVE CutoverInv'
  <2>1. /\ UNCHANGED <<order, pointer, intake, safeTxs, monitor, monitorAt, strays>>
        /\ escrowRun' \in {"off", "wiring", "done"} /\ unset' \subseteq Wires /\ safeTxs = 0
    <3>1. CASE DeployEscrow
      BY <1>3, <3>1 DEF DeployEscrow, escrowVars, shopSideVars, monitorVars, CutoverInv, MovesWhenReady, CutoverTypeOK, MayCutOver
    <3>2. CASE WireEscrow
      BY <1>3, <3>2 DEF WireEscrow, escrowVars, shopSideVars, monitorVars, CutoverInv, MovesWhenReady, CutoverTypeOK, MayCutOver
    <3>3. CASE EscrowRunBreaks
      BY <1>3, <3>3 DEF EscrowRunBreaks, escrowVars, shopSideVars, monitorVars, CutoverInv, MovesWhenReady, CutoverTypeOK, MayCutOver
    <3>4. CASE DeployAgain
      BY <1>3, <3>4 DEF DeployAgain, escrowVars, shopSideVars, monitorVars
    <3> QED BY <1>3, <3>1, <3>2, <3>3, <3>4
  <2>2. CutoverTypeOK' BY <1>3, <2>1 DEF CutoverInv, CutoverTypeOK
  <2>3. MovesWhenReady' BY <1>3, <2>1 DEF CutoverInv, MovesWhenReady
  <2> QED BY <1>1, <1>2, <1>3, <2>1, <2>2, <2>3
<1>4. ASSUME CutoverInv, Freeze PROVE CutoverInv'
  <2>1. /\ UNCHANGED <<order, pointer, escrowRun, unset, safeTxs, monitor, monitorAt, strays>>
        /\ intake' = "frozen"
    BY <1>4 DEF Freeze, escrowVars, moveVars, monitorVars
  <2>2. CutoverTypeOK' BY <1>4, <2>1 DEF CutoverInv, CutoverTypeOK
  <2>3. MovesWhenReady' BY <1>4, <2>1 DEF CutoverInv, MovesWhenReady, MayCutOver
  <2> QED BY <1>1, <1>2, <1>4, <2>1, <2>2, <2>3
<1>5. ASSUME CutoverInv, MonitorStarts PROVE CutoverInv'
  <2>1. /\ UNCHANGED <<order, pointer, intake, escrowRun, unset, safeTxs>> /\ safeTxs = 0
        /\ monitor' \in {"busy", "reading"} /\ monitorAt' = [next |-> 1, count |-> Count("old")]
        /\ strays' = {}
    BY <1>5 DEF MonitorStarts, escrowVars, moveVars, shopSideVars
  <2>2. Count("old") \in 0 .. MaxOrders /\ \A i \in Ids : order["old"][i] # "none" <=> i <= Count("old")
    BY <1>5, CountIsLast DEF CutoverInv, Escrows
  <2>3. CutoverTypeOK' BY <1>5, <2>1, <2>2, CutoverAssumption DEF CutoverInv, CutoverTypeOK
  <2>4. MovesWhenReady' BY <1>5, <2>1 DEF CutoverInv, MovesWhenReady
  <2>5. ASSUME NEW i \in Ids PROVE ~(HoldsFunds(i)' /\ (i < monitorAt'.next \/ i > monitorAt'.count))
    <3>1. HoldsFunds(i)' => i <= Count("old") BY <2>1, <2>2 DEF HoldsFunds, InFlight
    <3> QED BY <2>1, <2>2, <3>1, CutoverAssumption DEF Ids
  <2>6. NothingPassesTheMonitor' BY <2>1, <2>5 DEF NothingPassesTheMonitor
  <2> QED BY <1>1, <1>5, <2>1, <2>3, <2>4, <2>6
<1>6. ASSUME CutoverInv, MonitorReads PROVE CutoverInv'
  <2>1. /\ UNCHANGED <<order, pointer, intake, escrowRun, unset, safeTxs, strays>> /\ monitor = "reading"
    BY <1>6 DEF MonitorReads, escrowVars, moveVars, shopSideVars
  <2>2. /\ monitorAt \in [next : Nat \ {0}, count : Nat]
        /\ \A i \in Ids : HoldsFunds(i) /\ (i < monitorAt.next \/ i > monitorAt.count) => i \in strays
    BY <1>6, <2>1 DEF CutoverInv, CutoverTypeOK, NothingPassesTheMonitor
  <2>3. safeTxs = 0 BY <1>6, <2>1 DEF CutoverInv, MovesWhenReady, MayCutOver, CutoverTypeOK
  <2>4. MovesWhenReady' BY <1>6, <2>1, <2>3 DEF CutoverInv, MovesWhenReady
  <2>5. \A i \in Ids : HoldsFunds(i)' <=> HoldsFunds(i) BY <2>1 DEF HoldsFunds
  <2>6. CASE monitorAt.next > monitorAt.count
    <3>1. monitor' = "drained" /\ monitorAt' = monitorAt BY <1>6, <2>6 DEF MonitorReads
    <3>2. CutoverTypeOK' BY <1>6, <2>1, <3>1 DEF CutoverInv, CutoverTypeOK
    <3>3. \A i \in Ids : i < monitorAt.next \/ i > monitorAt.count
      BY <2>2, <2>6, CutoverAssumption DEF Ids
    <3>4. NothingPassesTheMonitor' BY <2>1, <2>2, <2>5, <3>1, <3>3 DEF NothingPassesTheMonitor
    <3> QED BY <1>1, <1>6, <2>1, <2>4, <3>2, <3>4
  <2>7. CASE ~(monitorAt.next > monitorAt.count)
    <3>1. /\ monitor' = IF order["old"][monitorAt.next] \in InFlight THEN "busy" ELSE "reading"
          /\ monitorAt' = [monitorAt EXCEPT !.next = @ + 1]
      BY <1>6, <2>7 DEF MonitorReads
    <3>2. monitorAt' \in [next : Nat \ {0}, count : Nat] BY <2>2, <3>1
    <3>3. CutoverTypeOK' BY <1>6, <2>1, <3>1, <3>2 DEF CutoverInv, CutoverTypeOK
    <3>4. ASSUME monitor' = "reading", NEW i \in Ids, HoldsFunds(i)',
                 i < monitorAt'.next \/ i > monitorAt'.count
          PROVE  i \in strays'
      <4>1. order["old"][monitorAt.next] \notin InFlight BY <3>1, <3>4
      <4>2. i # monitorAt.next BY <2>5, <3>4, <4>1 DEF HoldsFunds
      <4>3. monitorAt'.next = monitorAt.next + 1 /\ monitorAt'.count = monitorAt.count BY <2>2, <3>1
      <4>4. i < monitorAt.next \/ i > monitorAt.count
        BY <2>2, <3>4, <4>2, <4>3, CutoverAssumption DEF Ids
      <4> QED BY <2>1, <2>2, <2>5, <3>4, <4>4
    <3>5. NothingPassesTheMonitor' BY <3>1, <3>4 DEF NothingPassesTheMonitor
    <3> QED BY <1>1, <1>6, <2>1, <2>4, <3>3, <3>5
  <2> QED BY <2>6, <2>7
<1>7. ASSUME CutoverInv, CutOver PROVE CutoverInv'
  <2>1. /\ UNCHANGED <<order, intake, escrowRun, unset, monitor, monitorAt, strays>>
        /\ MayCutOver /\ safeTxs < 4 /\ safeTxs' = safeTxs + 1
        /\ pointer' = IF safeTxs = 0 THEN "new" ELSE pointer
    BY <1>7 DEF CutOver, shopSideVars, monitorVars
  <2>2. CutoverTypeOK' BY <1>7, <2>1 DEF CutoverInv, CutoverTypeOK, Escrows
  <2>3. MovesWhenReady' BY <1>7, <2>1 DEF CutoverInv, CutoverTypeOK, MovesWhenReady, MayCutOver
  <2> QED BY <1>1, <1>2, <1>7, <2>1, <2>2, <2>3
<1>8. ASSUME CutoverInv, ResumeIntake PROVE CutoverInv'
  <2>1. /\ UNCHANGED <<order, pointer, escrowRun, unset, safeTxs, monitor, monitorAt, strays>>
        /\ intake' = "new" /\ safeTxs = 3
    BY <1>8 DEF ResumeIntake, escrowVars, moveVars, monitorVars
  <2>2. CutoverTypeOK' BY <1>8, <2>1 DEF CutoverInv, CutoverTypeOK, Escrows
  <2>3. MovesWhenReady' BY <1>8, <2>1 DEF CutoverInv, MovesWhenReady, MayCutOver
  <2> QED BY <1>1, <1>2, <1>8, <2>1, <2>2, <2>3
<1>9. ASSUME CutoverInv, Rollback PROVE CutoverInv'
  <2>1. /\ UNCHANGED <<order, escrowRun, unset, monitorAt, strays>>
        /\ pointer' = "old" /\ intake' = "old" /\ safeTxs' = 0 /\ monitor' = "off"
    BY <1>9 DEF Rollback
  <2>2. CutoverTypeOK' BY <1>9, <2>1 DEF CutoverInv, CutoverTypeOK, Escrows
  <2>3. MovesWhenReady' /\ NothingPassesTheMonitor' BY <2>1 DEF MovesWhenReady, NothingPassesTheMonitor
  <2> QED BY <1>1, <1>9, <2>1, <2>2, <2>3
<1> QED BY <1>3, <1>4, <1>5, <1>6, <1>7, <1>8, <1>9 DEF MigrationStep

LEMMA CutoverNextKeepsInv == CutoverInv /\ [CutoverNext]_cutoverVars => CutoverInv'
<1>1. ASSUME CutoverInv, UNCHANGED cutoverVars PROVE CutoverInv'
  BY <1>1 DEF cutoverVars, escrowVars, shopSideVars, moveVars, monitorVars, CutoverInv, CutoverTypeOK,
     CountsFromOne, NothingPassesTheMonitor, HoldsFunds, MovesWhenReady, MayCutOver
<1> QED BY <1>1, OrdersKeepInv, MoveKeepsInv DEF CutoverNext

(***************************************************************************)
(* The contracts that stand alone.                                         *)
(***************************************************************************)
LEMMA SatInitInv == SatInit => SatInv
BY DEF SatInit, SatInv, SatTypeOK, SatCounts

LEMMA SatNextKeepsInv == SatInv /\ [SatNext]_satVars => SatInv'
<1> SUFFICES ASSUME SatInv, [SatNext]_satVars PROVE SatInv' OBVIOUS
<1>1. CASE SatStarts BY <1>1 DEF SatStarts, GoesTo, RecordsFirst, SatInv, SatTypeOK, SatCounts
<1>2. CASE SatReads BY <1>2 DEF SatReads, GoesTo, RecordsFirst, SatInv, SatTypeOK, SatCounts
<1>3. CASE SatReadFails BY <1>3 DEF SatReadFails, GoesTo, RecordsFirst, SatInv, SatTypeOK, SatCounts
<1>4. CASE SatRecords BY <1>4 DEF SatRecords, GoesTo, RecordsFirst, SatInv, SatTypeOK, SatCounts
<1>5. CASE SatCrashes BY <1>5 DEF SatCrashes, GoesTo, SatInv, SatTypeOK, SatCounts
<1>6. CASE UNCHANGED satVars BY <1>6 DEF satVars, SatInv, SatTypeOK, SatCounts
<1> QED BY <1>1, <1>2, <1>3, <1>4, <1>5, <1>6 DEF SatNext

(***************************************************************************)
(* The theorems.                                                           *)
(***************************************************************************)
LEMMA DeploymentInitInv == DeploymentInit => DeploymentInv
BY RolloutInitInv, CutoverInitInv, SatInitInv DEF DeploymentInit, DeploymentInv

LEMMA DeploymentNextKeepsInv == DeploymentInv /\ [DeploymentNext]_deploymentVars => DeploymentInv'
<1> SUFFICES ASSUME DeploymentInv, [DeploymentNext]_deploymentVars PROVE DeploymentInv' OBVIOUS
<1>1. /\ [RolloutNext]_rolloutVars /\ [CutoverNext]_cutoverVars /\ [SatNext]_satVars
  BY DEF DeploymentNext, deploymentVars
<1> QED BY <1>1, RolloutNextKeepsInv, CutoverNextKeepsInv, SatNextKeepsInv DEF DeploymentInv

\* In every state of a deployment the scripts' files, the contracts' owners and the transactions
\* under way are related as the invariant says, for any number of mishaps, orders and faults.
THEOREM DeploymentInvariant == DeploymentSpec => []DeploymentInv
<1>1. DeploymentSpec => DeploymentInit /\ [][DeploymentNext]_deploymentVars BY DEF DeploymentSpec
<1> QED BY <1>1, DeploymentInitInv, DeploymentNextKeepsInv, PTL

\* The deployment file never names contracts that are not wired, what a run left undone can still
\* be signed by who owns the escrow, nothing goes to a Safe that does not exist, the dispute
\* contract leaves the old escrow once nothing is in flight there for one that is wired, and no
\* failing read loses an address that is recorded first: whatever runs break off, are begun again
\* or turned round, and whichever transactions are stuck or dropped.
THEOREM DeploymentSound == DeploymentSpec => []DeploymentIsSound
<1>1. ASSUME DeploymentInv PROVE DeploymentIsSound
  <2>1. RecordedIsWired
    BY <1>1, SixContracts DEF DeploymentInv, RolloutInv, BuiltThenWired, RecordedIsWired, AllWired
  <2>2. HandOverCanFinish
    BY <1>1 DEF DeploymentInv, RolloutInv, EscrowAtHome, HandOverCanFinish, CanRotate, CanRestore
  <2>3. HandedToSomebody
    BY <1>1 DEF DeploymentInv, RolloutInv, OneWay, HandedToSomebody
  <2>4. DrainedBeforeMove
    BY <1>1 DEF DeploymentInv, CutoverInv, MovesWhenReady, MayCutOver, NothingPassesTheMonitor,
       HoldsFunds, DrainedBeforeMove
  <2>5. InServiceIsWired
    BY <1>1 DEF DeploymentInv, CutoverInv, CutoverTypeOK, MovesWhenReady, MayCutOver, InServiceIsWired, ReadBack
  <2>6. NothingForgotten
    BY <1>1 DEF DeploymentInv, SatInv, SatTypeOK, SatCounts, NothingForgotten
  <2> QED BY <2>1, <2>2, <2>3, <2>4, <2>5, <2>6 DEF DeploymentIsSound
<1> QED BY <1>1, DeploymentInvariant, PTL
================================================================================
