-------------------------------- MODULE Rollout --------------------------------
(***************************************************************************)
(* The scripts that put the contracts on a chain and hand them to the Safe *)
(* (packages/contracts/scripts): deploy.mainnet.ts and deploy.v2.ts deploy *)
(* six contracts, set the 17 references between them, read them back and   *)
(* only then write the deployment file; resume-wiring.ts takes over a run  *)
(* of Sepolia that broke off, after check-resume-state.ts;                 *)
(* create-safe-mainnet.ts makes the Safe; transfer-ownership.ts hands it   *)
(* the six owners and the escrow's three treasuries, verify-ownership.ts   *)
(* reads them, restore-ownership.ts takes them back, and safe-tx-exec.ts   *)
(* executes any other transaction of the Safe.                             *)
(*                                                                         *)
(* One person runs one script at a time from one account.  A script sends  *)
(* a transaction and waits for its receipt; when it breaks off in between  *)
(* the transaction stays in the mempool, where the account's nonces keep   *)
(* the order, and lands, or is dropped, later.  A read and the send it     *)
(* decides are one step: what is ahead in the mempool lands before it.     *)
(***************************************************************************)
EXTENDS Integers, Sequences, FiniteSets

CONSTANTS Networks, MaxMishaps     \* which networks; bound on crashes, lost transactions and changes of mind

ASSUME RolloutAssumption == Networks \subseteq {"mainnet", "sepolia"} /\ MaxMishaps \in Nat

Deployed == <<"Reputation", "Stake", "Voting", "Dispute", "Escrow", "Credits">>
Ownables == {Deployed[i] : i \in DOMAIN Deployed}
Treasuries == {"commission", "credits", "community"}    \* of the escrow
Setters == 1 .. 17          \* in the order of the deploy script
FirstResumed == 8           \* Dispute.setEscrow, the first setter resume-wiring.ts repeats

VARIABLES
    net,        \* the network of this deployment
    file,       \* the deployment file: "none", "partial" (written by hand), "rejected" (so,
                \* and the verification has failed on it) or "final"
    built,      \* contracts of this attempt that are on the chain; an attempt begun again has new addresses
    wired,      \* setters of these contracts that took effect
    resumeFrom, \* the first setter on the list of resume-wiring.ts
    safeLive,   \* the Safe is deployed
    owner,      \* of each contract: "deployer" or "safe"
    treasury,   \* "env" (from .env), "deployer" or "safe"
    script,     \* the script that runs, or "none"
    at,         \* its step
    plan,       \* what the batch of restore-ownership.ts takes back
    waits,      \* it waits for its transaction, the last of the pool
    pool,       \* transactions broadcast and not mined
    home,       \* the side that last held all of it: "nobody", "deployer" or "safe"
    last,       \* the direction last run
    audit,      \* the last word of verify-ownership.ts
    mishaps

chainVars == <<built, wired, safeLive, owner, treasury, pool>>
runVars == <<script, at, plan, waits>>
rolloutVars == <<net, file, resumeFrom, chainVars, runVars, home, last, audit, mishaps>>

RolloutInit ==
    /\ net \in Networks /\ file = "none" /\ built = 0 /\ wired = {} /\ resumeFrom = FirstResumed
    /\ safeLive = FALSE /\ owner = [c \in Ownables |-> "deployer"] /\ treasury = [t \in Treasuries |-> "env"]
    /\ script = "none" /\ at = 1 /\ plan = {} /\ waits = FALSE /\ pool = <<>>
    /\ home = "nobody" /\ last = "none" /\ audit = "none" /\ mishaps = MaxMishaps
-------------------------------------------------------------------------------
(***************************************************************************)
(* Transactions.  The Safe's carry the signatures of two owners over its   *)
(* nonce: another one executed first makes them invalid (GS026).           *)
(***************************************************************************)
\* Mutant: the order of the first rehearsal, the escrow with the other owners.
EscrowWithTheOthers ==
    <<"Reputation", "Stake", "Voting", "Dispute", "Escrow", "Credits", "commission", "credits", "community">>

\* Five owners, the treasuries, and the escrow's owner last: its setters are for its owner.
HandOrder ==
    <<"Reputation", "Stake", "Voting", "Dispute", "Credits", "commission", "credits", "community", "Escrow">>

HolderOf(x) == IF x \in Treasuries THEN treasury[x] ELSE owner[x]

Rotated == \A i \in DOMAIN HandOrder : HolderOf(HandOrder[i]) = "safe"
Restored == \A i \in DOMAIN HandOrder : HolderOf(HandOrder[i]) = "deployer"

Tx(do, of, by) == [do |-> do, of |-> of, by |-> by, fresh |-> TRUE]

HandTx(x, by) == Tx(IF x \in Treasuries THEN "fund" ELSE "own", x, by)

Held(tx) == IF tx.do = "fund" THEN "Escrow" ELSE tx.of
Other(side) == IF side = "safe" THEN "deployer" ELSE "safe"

\* Every setter is onlyOwner; a call the Safe makes that reverts reverts the Safe's transaction.
Succeeds(tx) ==
    /\ tx.do \in {"own", "fund"} => owner[Held(tx)] = tx.by
    /\ tx.by = "safe" => tx.fresh

\* Whoever signs hands over to the other side.
Takes(tx) ==
    /\ built' = IF tx.do = "build" THEN built + 1 ELSE built
    /\ wired' = IF tx.do = "wire" THEN wired \cup {tx.of} ELSE wired
    /\ owner' = IF tx.do = "own" THEN [owner EXCEPT ![tx.of] = Other(tx.by)] ELSE owner
    /\ treasury' = IF tx.do = "fund" THEN [treasury EXCEPT ![tx.of] = Other(tx.by)] ELSE treasury

Outdated(txs) == [i \in DOMAIN txs |-> IF txs[i].by = "safe" THEN [txs[i] EXCEPT !.fresh = FALSE] ELSE txs[i]]

\* The next transaction of the account is mined; the script that waits for it reads the receipt:
\* the next step, or an error that ends it.
Mine ==
    /\ pool # <<>>
    /\ LET tx == Head(pool)
           ok == Succeeds(tx)
           told == waits /\ Len(pool) = 1
       IN /\ IF ok THEN Takes(tx) ELSE UNCHANGED <<built, wired, owner, treasury>>
          /\ pool' = IF ok /\ tx.by = "safe" THEN Outdated(Tail(pool)) ELSE Tail(pool)
          /\ audit' = IF ok /\ tx.do \in {"own", "fund"} THEN "none" ELSE audit
          /\ waits' = (waits /\ ~told)
          /\ at' = IF told /\ ok THEN at + 1 ELSE at
          /\ script' = IF told /\ ~ok THEN "none" ELSE script
          /\ home' = IF Rotated' THEN "safe" ELSE IF Restored' THEN "deployer" ELSE home
    /\ UNCHANGED <<net, file, resumeFrom, safeLive, plan, last, mishaps>>

Send(tx) ==
    /\ pool' = Append(pool, tx) /\ waits' = TRUE
    /\ UNCHANGED <<net, file, resumeFrom, built, wired, safeLive, owner, treasury, script, at, plan, home, last, audit, mishaps>>

\* A step that finds its work done.
Skip == at' = at + 1 /\ UNCHANGED <<net, file, resumeFrom, chainVars, script, plan, waits, home, last, audit, mishaps>>

Ends(f, h, a) ==
    /\ script' = "none" /\ plan' = {} /\ file' = f /\ home' = h /\ audit' = a
    /\ UNCHANGED <<net, resumeFrom, chainVars, at, waits, last, mishaps>>
-------------------------------------------------------------------------------
(***************************************************************************)
(* Deploying and wiring.                                                   *)
(***************************************************************************)
AllWired == wired = Setters

\* The last step writes the file; a mismatch ends the run without one, and leaves what was
\* written by hand.
SavesIfWired ==
    IF AllWired THEN Ends("final", "deployer", audit)
    ELSE Ends(IF script = "resume" THEN "rejected" ELSE file, home, audit)

DeployStep ==
    /\ script = "deploy" /\ ~waits
    /\ \/ at <= Len(Deployed) /\ Send(Tx("build", Deployed[at], "deployer"))
       \/ at - Len(Deployed) \in Setters /\ Send(Tx("wire", at - Len(Deployed), "deployer"))
       \/ at > Len(Deployed) + Cardinality(Setters) /\ SavesIfWired

\* Each getter is read first: a setter that took effect after all is not sent again.
ResumeStep ==
    /\ script = "resume" /\ ~waits
    /\ \/ at \in Setters /\ at \notin wired /\ Send(Tx("wire", at, "deployer"))
       \/ at \in wired /\ Skip
       \/ at > Cardinality(Setters) /\ SavesIfWired

\* check-resume-state.ts: with no transaction stuck, setter 7 is on the list or not.  The file
\* names all six contracts.  To go by hand without the check is a mishap.
HandOver ==
    /\ script = "none" /\ net = "sepolia" /\ file = "none" /\ built = Len(Deployed)
    /\ \/ /\ pool = <<>> /\ 1 .. FirstResumed - 2 \subseteq wired
          /\ resumeFrom' = IF FirstResumed - 1 \in wired THEN FirstResumed ELSE FirstResumed - 1
          /\ UNCHANGED mishaps
       \/ mishaps > 0 /\ mishaps' = mishaps - 1 /\ UNCHANGED resumeFrom
    /\ file' = "partial"
    /\ UNCHANGED <<net, chainVars, runVars, home, last, audit>>
-------------------------------------------------------------------------------
(***************************************************************************)
(* Handing over and taking back.                                           *)
(***************************************************************************)
TransferStep ==
    /\ script = "transfer" /\ ~waits
    /\ \/ /\ at \in DOMAIN HandOrder
          /\ IF HolderOf(HandOrder[at]) = "safe" THEN Skip ELSE Send(HandTx(HandOrder[at], "deployer"))
       \/ at > Len(HandOrder) /\ Ends(file, home, audit)

\* The batch is built once; each of it is a transaction of the Safe, signed for the nonce read then.
RestoreStep ==
    /\ script = "restore" /\ ~waits
    /\ \/ /\ at \in DOMAIN HandOrder
          /\ IF HandOrder[at] \in plan THEN Send(HandTx(HandOrder[at], "safe")) ELSE Skip
       \/ at > Len(HandOrder) /\ Ends(file, home, audit)

\* The six owners and three treasuries must be the Safe; that the Safe exists is a warning.
VerifyStep == script = "verify" /\ Ends(file, home, IF Rotated THEN "ok" ELSE "failed")

\* Mutant: the batch is built without reading what is restored already.
RestoreEverything == Ownables \cup Treasuries

RestorePlan == {x \in Ownables \cup Treasuries : HolderOf(x) # "deployer"}

\* Three distinct owners, threshold two; the file it leaves is read by hand.
CreateSafe ==
    /\ ~safeLive /\ safeLive' = TRUE
    /\ UNCHANGED <<net, file, resumeFrom, built, wired, owner, treasury, pool, runVars, home, last, audit, mishaps>>

\* Other business of the Safe, with the same signers.
SafeTxElsewhere ==
    /\ safeLive /\ mishaps > 0 /\ \E i \in DOMAIN pool : pool[i].by = "safe" /\ pool[i].fresh
    /\ pool' = Outdated(pool) /\ mishaps' = mishaps - 1
    /\ UNCHANGED <<net, file, resumeFrom, built, wired, safeLive, owner, treasury, runVars, home, last, audit>>
-------------------------------------------------------------------------------
(***************************************************************************)
(* The person at the keyboard.                                             *)
(***************************************************************************)
Runs(s, first, p) ==
    /\ script = "none" /\ script' = s /\ at' = first /\ plan' = p
    /\ UNCHANGED <<net, resumeFrom, safeLive, owner, treasury, waits, home, audit>>

\* A deploy begins with new contracts, whatever became of the earlier ones, whose file written
\* by hand is put away; on mainnet it is the only way on.
StartDeploy ==
    /\ file # "final" /\ file' = "none" /\ Runs("deploy", 1, {})
    /\ built' = 0 /\ wired' = {} /\ pool' = <<>>
    /\ UNCHANGED <<last, mishaps>>

\* The file stays until its contracts are verified.  To resume where the verification has
\* failed already is a mishap: nothing on the list of setters is left to do.
StartResume ==
    /\ \/ file = "partial" /\ UNCHANGED mishaps
       \/ file = "rejected" /\ mishaps > 0 /\ mishaps' = mishaps - 1
    /\ Runs("resume", resumeFrom, {}) /\ UNCHANGED <<file, built, wired, pool, last>>

\* A Safe without code is fatal on mainnet only.  Who turns round waits until nothing is stuck.
StartTransfer ==
    /\ file = "final" /\ (net = "mainnet" => safeLive) /\ (last = "restore" => pool = <<>>)
    /\ Runs("transfer", 1, {}) /\ last' = "transfer" /\ UNCHANGED <<file, built, wired, pool>>

StartRestore ==
    /\ file = "final" /\ safeLive /\ (last = "transfer" => pool = <<>>)
    /\ Runs("restore", 1, RestorePlan) /\ last' = "restore" /\ UNCHANGED <<file, built, wired, pool>>

StartVerify ==
    /\ Rotated /\ pool = <<>> /\ audit # "ok"
    /\ Runs("verify", 1, {}) /\ UNCHANGED <<file, built, wired, pool, last, mishaps>>

\* The script that leads on from here: what was begun is finished before it is undone.
Launch ==
    \/ StartDeploy \/ StartResume \/ StartVerify
    \/ home = "deployer" /\ ~Rotated /\ StartTransfer /\ UNCHANGED mishaps
    \/ home = "safe" /\ ~Rotated /\ StartRestore /\ UNCHANGED mishaps

\* The other direction, at any point: an emergency, or the wrong script.
Divert ==
    /\ mishaps > 0 /\ mishaps' = mishaps - 1
    /\ \/ home = "deployer" /\ StartRestore
       \/ home = "safe" /\ (StartRestore \/ StartTransfer)

Crash ==
    /\ script # "none" /\ mishaps > 0 /\ mishaps' = mishaps - 1
    /\ script' = "none" /\ plan' = {} /\ waits' = FALSE
    /\ UNCHANGED <<net, file, resumeFrom, chainVars, at, home, last, audit>>

\* The mempool forgets what nobody waits for.
Evicted ==
    /\ pool # <<>> /\ ~waits /\ mishaps > 0 /\ mishaps' = mishaps - 1 /\ pool' = <<>>
    /\ UNCHANGED <<net, file, resumeFrom, built, wired, safeLive, owner, treasury, runVars, home, last, audit>>

ScriptStep == DeployStep \/ ResumeStep \/ TransferStep \/ RestoreStep \/ VerifyStep

RolloutNext ==
    \/ ScriptStep \/ Mine \/ Launch \/ HandOver \/ CreateSafe
    \/ SafeTxElsewhere \/ Divert \/ Crash \/ Evicted
-------------------------------------------------------------------------------
(***************************************************************************)
(* Properties.                                                             *)
(***************************************************************************)
\* The deployment file names contracts whose 17 references are set.
RecordedIsWired == file = "final" => AllWired /\ built = Len(Deployed)

\* What the scripts still have to do can be signed by who owns the contract now, wherever a run
\* broke off: the direction that was begun from one side's holding all of it can be finished.
CanRotate == (\E t \in Treasuries : treasury[t] # "safe") => owner["Escrow"] = "deployer"
CanRestore == (\E t \in Treasuries : treasury[t] # "deployer") => owner["Escrow"] = "safe"
HandOverCanFinish ==
    /\ home = "deployer" => CanRotate
    /\ home = "safe" => CanRestore

\* On mainnet nothing is handed to a Safe that does not exist.
HandedToSomebody == net = "mainnet" => safeLive \/ \A c \in Ownables : owner[c] = "deployer"

\* The rotation comes to its end, and the audit says so.
RolloutEnds == <>[](Rotated /\ audit = "ok")
===============================================================================
