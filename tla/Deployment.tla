------------------------------ MODULE Deployment ------------------------------
(***************************************************************************)
(* The life of the contracts' addresses: the first deployment and the hand *)
(* over to the Safe (Rollout), the replacement of the escrow (Cutover),    *)
(* and the contracts that are deployed alone, modelled here.  Each is the  *)
(* work of other days, on contracts the others have left settled: a        *)
(* behaviour is one of them, chosen at the beginning.                      *)
(***************************************************************************)
EXTENDS Integers, Rollout, Cutover

(***************************************************************************)
(* The contracts that stand alone, EtaloCredits and EtaloBoutiqueBilling,  *)
(* and the scripts that deploy one, read it back and record it in the      *)
(* deployment file (packages/contracts/scripts).                           *)
(* deploy-credits-v2-mainnet.ts writes the file before it reads, the       *)
(* others after; of these deploy-credits.ts begins only where none is      *)
(* recorded.                                                               *)
(***************************************************************************)
CONSTANT MaxReadFaults     \* bound on the reads that fail and the crashes

ASSUME SatellitesAssumption == MaxReadFaults \in Nat

VARIABLES
    sat,         \* the script: which one, and its step
    onChain,     \* contracts it has put on the chain
    inFile,      \* those of them the deployment file names, now or among the previous ones
    crashes,     \* of the script, between the receipt and its end
    readFaults

satVars == <<sat, onChain, inFile, crashes, readFaults>>

SatInit ==
    /\ sat \in [of : {"credits-sepolia", "credits-mainnet", "billing"}, pc : {"off"}]
    /\ onChain = 0 /\ inFile = 0 /\ crashes = 0 /\ readFaults = MaxReadFaults

RecordsFirst == sat.of = "credits-mainnet"
GoesTo(pc) == sat' = [sat EXCEPT !.pc = pc]

\* Its guards passed, the contract is deployed and its receipt is there.
SatStarts ==
    /\ sat.pc = "off" /\ (sat.of = "credits-sepolia" => inFile = 0)
    /\ onChain' = onChain + 1 /\ GoesTo(IF RecordsFirst THEN "record" ELSE "read")
    /\ UNCHANGED <<inFile, crashes, readFaults>>

SatReads ==
    /\ sat.pc = "read" /\ GoesTo(IF RecordsFirst THEN "end" ELSE "record")
    /\ UNCHANGED <<onChain, inFile, crashes, readFaults>>

\* A node that does not know the new code yet: the mainnet script of the credits tries six times
\* and goes on without; for the others the error is the end.
SatReadFails ==
    /\ sat.pc = "read" /\ readFaults > 0 /\ readFaults' = readFaults - 1
    /\ GoesTo(IF RecordsFirst THEN "end" ELSE "off")
    /\ UNCHANGED <<onChain, inFile, crashes>>

\* The one it replaces moves to the previous deployments.
SatRecords ==
    /\ sat.pc = "record" /\ inFile' = inFile + 1 /\ GoesTo(IF RecordsFirst THEN "read" ELSE "end")
    /\ UNCHANGED <<onChain, crashes, readFaults>>

SatCrashes ==
    /\ sat.pc \in {"read", "record"} /\ readFaults > 0 /\ readFaults' = readFaults - 1
    /\ crashes' = crashes + 1 /\ GoesTo("off")
    /\ UNCHANGED <<onChain, inFile>>

SatNext == SatStarts \/ SatReads \/ SatReadFails \/ SatRecords \/ SatCrashes

\* deploy-credits-v2-mainnet.ts:105-107: a read can never lose the deployed address.  Once it has
\* ended or begins again, only a crash has left a contract of its that the file does not name.
\* deploy-credits.ts:95-100: never two in the file.
NothingForgotten ==
    /\ sat.of = "credits-mainnet" /\ sat.pc \in {"off", "end"} => onChain - inFile <= crashes
    /\ sat.of = "credits-sepolia" => inFile <= 1
-------------------------------------------------------------------------------
VARIABLE stage

deploymentVars == <<stage, rolloutVars, cutoverVars, satVars>>

\* A stage at rest is in one of its initial states.
DeploymentInit ==
    /\ stage \in {"rollout", "cutover", "satellite"}
    /\ RolloutInit /\ (stage # "rollout" => net = CHOOSE n \in Networks : TRUE)
    /\ CutoverInit
    /\ SatInit /\ (stage # "satellite" => sat.of = "billing")

DeploymentNext ==
    /\ UNCHANGED stage
    /\ \/ stage = "rollout" /\ RolloutNext /\ UNCHANGED <<cutoverVars, satVars>>
       \/ stage = "cutover" /\ CutoverNext /\ UNCHANGED <<rolloutVars, satVars>>
       \/ stage = "satellite" /\ SatNext /\ UNCHANGED <<rolloutVars, cutoverVars>>

\* The scripts run to their end but for the crashes, the chain mines, and the person comes back;
\* keepers and mediators settle the old orders, and the migration goes on.
DeploymentFairness ==
    /\ WF_rolloutVars(stage = "rollout" /\ ScriptStep) /\ WF_rolloutVars(stage = "rollout" /\ Mine)
    /\ WF_rolloutVars(stage = "rollout" /\ Launch) /\ WF_rolloutVars(stage = "rollout" /\ CreateSafe)
    /\ WF_cutoverVars(stage = "cutover" /\ Settlement) /\ WF_cutoverVars(stage = "cutover" /\ MigrationStep)
    /\ WF_cutoverVars(stage = "cutover" /\ (CutOver \/ ResumeIntake))

DeploymentSpec == DeploymentInit /\ [][DeploymentNext]_deploymentVars /\ DeploymentFairness

\* The replacement of the escrow alone, for the claim of its plan.
CutoverSpec == DeploymentInit /\ stage = "cutover" /\ [][DeploymentNext]_deploymentVars
-------------------------------------------------------------------------------
(***************************************************************************)
(* Properties.                                                             *)
(***************************************************************************)
\* The deployment file never names contracts that are not wired; what a run has left undone can
\* still be signed by who owns the contract; nothing is handed to nobody; the dispute contract
\* leaves the old escrow when nothing is in flight there, for an escrow that is wired; and no
\* failing read loses an address that is recorded first.
DeploymentIsSound ==
    /\ RecordedIsWired /\ HandOverCanFinish /\ HandedToSomebody
    /\ DrainedBeforeMove /\ InServiceIsWired
    /\ NothingForgotten

\* For all the crashes, lost transactions and changes of mind, the Safe ends with all of it and
\* the audit says so; the migration ends with orders taken on the new escrow.
DeploymentEnds ==
    /\ stage = "rollout" => RolloutEnds
    /\ stage = "cutover" => CutoverEnds
===============================================================================
