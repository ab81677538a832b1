-------------------------------- MODULE Cutover --------------------------------
(***************************************************************************)
(* A new escrow in place of the old one, with the dispute contract kept,   *)
(* by the maintenance window of docs/MIGRATION_ESCROW_ADR057.md and the    *)
(* scripts it names (packages/contracts/scripts):                          *)
(* deploy-escrow-v2.ts wires it and hands it to the Safe; new orders are   *)
(* frozen off the chain; escrow-drain-monitor.ts looks for orders of the   *)
(* old escrow that still hold funds, drain-trigger.ts and the keepers      *)
(* settle them; the transactions of escrow-cutover-calldata.ts, signed by  *)
(* the Safe one after the other, point the dispute, stake and reputation   *)
(* contracts to the new escrow; and orders are taken there.  An order is   *)
(* its id, each escrow counting from one, and has one item of the same id. *)
(***************************************************************************)
EXTENDS Integers, FiniteSets

CONSTANTS MaxOrders,     \* bound on the orders of an escrow
          MaxFaults      \* bound on setters that revert, crashes and rollbacks

ASSUME CutoverAssumption == MaxOrders \in Nat \ {0} /\ MaxFaults \in Nat

Ids == 1 .. MaxOrders
Escrows == {"old", "new"}
Wires == {"commission", "credits", "community", "reputation", "stake", "dispute"}
ReadBack == {"commission", "reputation", "dispute"}    \* of the setters of the new escrow

VARIABLES
    order,       \* of each escrow, by id: "none", "created", "funded", "disputed" or "closed"
    dispute,     \* of the dispute contract, by id: "none", "open" or "resolved"
    pointer,     \* EtaloDispute.escrow
    authorized,  \* escrows that may write to the reputation contract
    intake,      \* where the shop sends its orders: an escrow, or "frozen"
    tokens,      \* orders still to come of checkouts begun before the freeze
    escrowRun,   \* deploy-escrow-v2.ts: "off", "wiring" or "done"
    unset,       \* setters of the new escrow that reverted or were not reached
    safeTxs,     \* transactions of the cutover executed
    monitor,     \* the drain monitor: "off", "reading", "drained" or "busy"
    monitorAt,   \* the order it reads next, and how many there were when it began
    strays,      \* orders of the old escrow funded since the monitor last began
    faults

escrowVars == <<order, dispute, pointer, authorized>>
shopSideVars == <<intake, tokens>>
moveVars == <<escrowRun, unset, safeTxs>>
monitorVars == <<monitor, monitorAt, strays>>
cutoverVars == <<escrowVars, shopSideVars, moveVars, monitorVars, faults>>

CutoverInit ==
    /\ order = [e \in Escrows |-> [i \in Ids |-> "none"]] /\ dispute = [i \in Ids |-> "none"]
    /\ pointer = "old" /\ authorized = {"old"} /\ intake = "old" /\ tokens = 0
    /\ escrowRun = "off" /\ unset = Wires /\ safeTxs = 0
    /\ monitor = "off" /\ monitorAt = [next |-> 1, count |-> 0] /\ strays = {}
    /\ faults = MaxFaults
-------------------------------------------------------------------------------
(***************************************************************************)
(* Orders of the two escrows, and the dispute contract between them.       *)
(***************************************************************************)
InFlight == {"funded", "disputed"}
Count(e) == Cardinality({i \in Ids : order[e][i] # "none"})
SetOrder(e, i, s) == order' = [order EXCEPT ![e][i] = s]

\* Creating is open to everyone on the chain; only the shop stops offering it.  A checkout begun
\* before the freeze still may.
Create ==
    \E e \in Escrows :
        /\ Count(e) < MaxOrders /\ SetOrder(e, Count(e) + 1, "created")
        /\ \/ intake = e /\ UNCHANGED tokens
           \/ intake # e /\ e = "old" /\ tokens > 0 /\ tokens' = tokens - 1
        /\ UNCHANGED <<dispute, pointer, authorized, intake, moveVars, monitorVars, faults>>

Fund(e, i) ==
    /\ order[e][i] = "created" /\ SetOrder(e, i, "funded")
    /\ strays' = IF e = "old" THEN strays \cup {i} ELSE strays
    /\ UNCHANGED <<dispute, pointer, authorized, shopSideVars, moveVars, monitor, monitorAt, faults>>

\* One dispute ever for an order's item, looked up by their ids in whatever escrow is set.
MayOpen(e, i) == pointer = e /\ dispute[i] = "none"

OpenDispute(e, i) ==
    /\ order[e][i] = "funded" /\ MayOpen(e, i)
    /\ SetOrder(e, i, "disputed") /\ dispute' = [dispute EXCEPT ![i] = "open"]
    /\ UNCHANGED <<pointer, authorized, shopSideVars, moveVars, monitorVars, faults>>

\* The verdict goes to the escrow that is set, where the item must be disputed.
Resolve(i) ==
    /\ dispute[i] = "open" /\ order[pointer][i] = "disputed"
    /\ SetOrder(pointer, i, "closed") /\ dispute' = [dispute EXCEPT ![i] = "resolved"]
    /\ UNCHANGED <<pointer, authorized, shopSideVars, moveVars, monitorVars, faults>>

\* Confirmed, released or refunded, by a party, a keeper or drain-trigger.ts; a release writes to
\* the reputation contract, and reverts where it may not.
Settle(e, i) ==
    /\ order[e][i] = "funded" /\ e \in authorized /\ SetOrder(e, i, "closed")
    /\ UNCHANGED <<dispute, pointer, authorized, shopSideVars, moveVars, monitorVars, faults>>
-------------------------------------------------------------------------------
(***************************************************************************)
(* The new escrow.                                                         *)
(***************************************************************************)
\* The six setters; a receipt that says "reverted" is not looked at.
DeployEscrow ==
    /\ escrowRun = "off" /\ escrowRun' = "wiring" /\ unset' = Wires
    /\ UNCHANGED <<escrowVars, shopSideVars, safeTxs, monitorVars, faults>>

WireEscrow ==
    /\ escrowRun = "wiring" /\ escrowRun' = "done"
    /\ \E failed \in SUBSET Wires :
        /\ Cardinality(failed) <= faults
        /\ unset' = failed /\ faults' = faults - Cardinality(failed)
    /\ UNCHANGED <<escrowVars, shopSideVars, safeTxs, monitorVars>>

EscrowRunBreaks ==
    /\ escrowRun = "wiring" /\ faults > 0 /\ faults' = faults - 1 /\ escrowRun' = "off" /\ unset' = Wires
    /\ UNCHANGED <<escrowVars, shopSideVars, safeTxs, monitorVars>>

\* Whoever reads a mismatch deploys another one; what is not read back goes unseen.
DeployAgain ==
    /\ escrowRun = "done" /\ unset \cap ReadBack # {} /\ safeTxs = 0 /\ escrowRun' = "off" /\ unset' = Wires
    /\ UNCHANGED <<escrowVars, shopSideVars, safeTxs, monitorVars, faults>>

\* ORDERS_FROZEN: no checkout token from now on; those given out may still be spent.
Freeze ==
    /\ intake = "old" /\ intake' = "frozen" /\ tokens' \in {0, 1}
    /\ UNCHANGED <<escrowVars, moveVars, monitorVars, faults>>

\* The total first, then the orders one by one; "created" does not count as in flight.
MonitorStarts ==
    /\ intake = "frozen" /\ safeTxs = 0 /\ monitor \in {"off", "busy"}
    /\ monitor' = IF \E i \in Ids : order["old"][i] \in InFlight THEN "busy" ELSE "reading"
    /\ monitorAt' = [next |-> 1, count |-> Count("old")] /\ strays' = {}
    /\ UNCHANGED <<escrowVars, shopSideVars, moveVars, faults>>

MonitorReads ==
    /\ monitor = "reading"
    /\ IF monitorAt.next > monitorAt.count
       THEN monitor' = "drained" /\ UNCHANGED monitorAt
       ELSE /\ monitor' = IF order["old"][monitorAt.next] \in InFlight THEN "busy" ELSE "reading"
            /\ monitorAt' = [monitorAt EXCEPT !.next = @ + 1]
    /\ UNCHANGED <<escrowVars, shopSideVars, moveVars, strays, faults>>

MayCutOver == escrowRun = "done" /\ unset \cap ReadBack = {} /\ monitor = "drained"

\* 1. the dispute contract; 2. the stake contract, dormant; 3. the reputation contract, besides
\* the old escrow; 4. the old escrow off the reputation contract, once it has nothing to write.
CutOver ==
    /\ MayCutOver /\ safeTxs < 4 /\ safeTxs' = safeTxs + 1
    /\ safeTxs < 3 => intake = "frozen"
    /\ safeTxs = 3 => intake = "new" /\ \A i \in Ids : order["old"][i] \notin InFlight
    /\ pointer' = IF safeTxs = 0 THEN "new" ELSE pointer
    /\ authorized' = CASE safeTxs = 2 -> authorized \cup {"new"} [] safeTxs = 3 -> authorized \ {"old"}
                       [] OTHER -> authorized
    /\ UNCHANGED <<order, dispute, shopSideVars, escrowRun, unset, monitorVars, faults>>

ResumeIntake ==
    /\ safeTxs = 3 /\ intake = "frozen" /\ intake' = "new"
    /\ UNCHANGED <<escrowVars, tokens, moveVars, monitorVars, faults>>

\* Before orders are taken again the way back is to point everything at the old escrow.
Rollback ==
    /\ intake = "frozen" /\ faults > 0 /\ faults' = faults - 1
    /\ pointer' = "old" /\ intake' = "old" /\ safeTxs' = 0 /\ monitor' = "off"
    /\ UNCHANGED <<order, dispute, authorized, tokens, escrowRun, unset, monitorAt, strays>>
-------------------------------------------------------------------------------
Settlement == \E i \in Ids : Resolve(i) \/ \E e \in Escrows : Settle(e, i)

MigrationStep == DeployEscrow \/ WireEscrow \/ DeployAgain \/ Freeze \/ MonitorStarts \/ MonitorReads

CutoverNext ==
    \/ Create \/ Settlement \/ MigrationStep \/ CutOver \/ ResumeIntake
    \/ \E e \in Escrows, i \in Ids : Fund(e, i) \/ OpenDispute(e, i)
    \/ EscrowRunBreaks \/ Rollback
-------------------------------------------------------------------------------
(***************************************************************************)
(* Properties.                                                             *)
(***************************************************************************)
\* When the dispute contract turns to the new escrow, an order of the old one still holds funds
\* only if it was paid after the drain monitor had begun to look.
DrainedBeforeMove == pointer = "new" => \A i \in Ids : order["old"][i] \in InFlight => i \in strays

\* An escrow that takes orders has what a release and a dispute need.
InServiceIsWired == intake = "new" => unset \cap {"commission", "reputation", "dispute"} = {}

\* Orders are taken on the new escrow in the end.
CutoverEnds == <>[](intake = "new")

\* docs/MIGRATION_ESCROW_ADR057.md:23-24, 122: the new contract's counters start again from 0,
\* "which is correct", and a dispute on a new order opens and is resolved.  An order of the new
\* escrow whose money is there can be disputed.
NewOrdersDisputable ==
    \A i \in Ids : pointer = "new" /\ order["new"][i] = "funded" => MayOpen("new", i)
===============================================================================
