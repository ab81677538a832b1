# Etalo: TLA+ modules, model checks and proofs

Etalo is a non-custodial marketplace for sellers on social networks. Solidity
contracts on Celo hold the buyers' USDT between payment and delivery; a FastAPI
backend mirrors the contracts' events in a database and sends the transactions
nobody else has a reason to send; a Next.js application signs the buyers' and
the sellers' transactions.

This directory holds TLA+ modules translated from that code, the TLC
configurations that check them on small instances and the proofs TLAPS checks.
Source paths below are relative to the repository; contracts named without a path
are in `packages/contracts/contracts/`. `PROJECT.json` names, for every definition
of the model, the lines it stands for, and for every hazard the properties about it.

## 1. The system

### On chain

| Component | State | Operations | Calls |
|---|---|---|---|
| `EtaloEscrow` | orders, items, shipment groups, the two escrow counters, the weekly volumes, pause, legal holds | create, fund, cancel, ship a group, request early release, confirm item or group, auto-release, auto-refund, mark / resolve disputed item, force refund, pause, setters | Reputation (reads the Top Seller flag, records completions), Stake (cross-border only), USDT |
| `EtaloDispute` | one dispute per item ever, its level and deadlines, the N1 proposals, the mediator registry | open, escalate to N2 and N3, assign mediator, resolve at N1, N2, N3, force close | Escrow (mark, resolve), Stake (pause, resume, slash), Voting (create), Reputation |
| `EtaloVoting` | votes, eligibility, ballots | create, submit, finalise | Dispute (`resolveFromVote`) |
| `EtaloStake` | stake, tier, active sales, freeze counter, pending withdrawal | deposit, upgrade, top up, initiate / execute / cancel withdrawal, pause, resume, slash | USDT, Reputation |
| `EtaloReputation` | counters, score, Top Seller badge, sanction | record order, record dispute, sanction, check Top Seller | none |
| `EtaloCredits`, `EtaloBoutiqueBilling` | prices, pause flags | purchase, setters | USDT |

Every external call is synchronous and a revert anywhere undoes the whole
transaction, so **one transaction is one atomic step**, across contracts too. What
is not atomic is the life of an order: at each moment the buyer, the seller, a
mediator, the keepers, anyone and the owner may send the next transaction, the
timers run between them, and the contracts do not see each other's later changes.

### Off chain

| Component | State | Operations | Hard behaviour |
|---|---|---|---|
| Indexer (`packages/backend/app/services/indexer.py`, `indexer_handlers.py`) | a checkpoint per contract, the processed events, the mirror tables | poll, chunk, handle, commit | a handler that fails takes earlier events back with it; a checkpoint that moves over unread blocks; handlers that read a chain ahead of their event |
| Keepers (`auto_refund_keeper.py`, `auto_release_keeper.py`) | none of their own | scan the mirror, send the permissionless trigger | a mirror that lags; a scan whose first rows always revert |
| Relayer (`relayer.py`) | the last nonce sent, a lock | number, broadcast, wait, replace by fee | two keepers on one account; receipts that come late; a restart |
| Cart (`routers/cart.py`) and checkout (`packages/web/src/hooks/useSequentialCheckout.ts`) | stock, cart token; one phase per seller | lock the cart, approve, create and fund one order per seller, finalise | receipts that do not come, rejected signatures, two taps, closed tabs, a finalisation whose answer is lost |
| Order and dispute screens (`packages/web/src`) | what was last fetched, the calls in flight | offer a button, prepare, sign, wait, report | the chain moves between what is shown and what is signed |
| Seller's desks: shop, credits, products, profile, dashboard | forms, runs in flight, caches; rows of the backend | submit, pay, retry, reconcile | answers that arrive after the form was closed or reopened; a payment not mirrored yet |
| Buyer's desks: marketplace, address book, wallet | URL, listing pages, requests in flight | filter, page, save, connect | a listing that changes between two pages; concurrent saves; two owners of one connection |
| Deployment scripts (`packages/contracts/scripts`) | the deployment file, the mempool | deploy, wire, record, hand over to the Safe, restore, drain, cut over | a script that breaks off between any two transactions and is run again |

### What makes each part correct

* **Escrow.** The counters are the sum of what is held. An item is paid out once, in
  full, to the parties, whichever of confirmation, timer, dispute or refund closes it.
  The buyer keeps a window to dispute after shipment. A pause stops the parties and
  not the dispute contract. The weekly cap counts what was shipped. No accounting
  underflow can lock an exit.
* **Dispute, voting and stake.** An item is `Disputed` exactly while a dispute about it is
  open; the outcome recorded was decided by somebody entitled to it and is the outcome paid;
  a vote is decided by the ballots cast; the seller's withdrawal is frozen once per open
  dispute and its cooldown does not run meanwhile; the stake stays for the verdict.
* **Reputation.** The score is the one of the counts, and nobody keeps a badge that they
  would not be given now.
* **Indexer.** No event is lost in silence; a mirror that has seen every event of an order
  agrees with the chain; the mirror catches up.
* **Keepers and relayer.** One trigger has one effect, nonces are neither shared nor skipped,
  and what is due is eventually settled.
* **Screens.** A button is offered when the contract takes the call; what is called paid,
  shipped, saved or settled is; a run ends and says truly how.
* **Deployment.** What the file records is wired; a broken-off hand-over can be
  finished; the old escrow is left only when nothing is in flight there.

## 2. Modules

| Module | Kind | Models |
|---|---|---|
| `EtaloClock`, `EtaloOrders` | base | `block.timestamp` and `uint256`; who buys which items from whom at which price |
| `EtaloCommission` | arithmetic | basis points, the pro-rata split over the items with the dust on the last one, the shares of a dispute |
| `EtaloEscrow` | component | every entry point of `EtaloEscrow.sol` an order of this version can reach |
| `ItemCustody` | abstract | what the escrow promises of each item's USDT |
| `OrderLifecycle` | abstract | what the off-chain programs may assume of the escrow: how statuses and timers move |
| `EtaloStake`, `EtaloReputation` | component | the two contracts that keep something of a seller |
| `EtaloVoting`, `EtaloDispute` | component | the dispute contract with its calls to the escrow, the stake and the vote |
| `EtaloProtocol` | composition | escrow, dispute, voting and stake together, and the properties that relate them |
| `Indexer`, `Keepers` | component | the polling loop and its handlers; both keepers with the relayer they share |
| `Checkout` | component | the cart, the checkout hook, the wallet, the chain's pool and the cart routes |
| `OrderDesk`, `DisputeDesk` | component | the order on its parties' screens; the dispute on those of parties, mediators and owners |
| `ShopDesk`, `CreditsDesk`, `ProductDesk`, `ProfileDesk` | component | opening a shop; buying and spending credits; the product form; the profile |
| `Marketplace`, `AddressBook`, `WalletGate` | component | the paged listing; the addresses; the connection of a wallet |
| `Storefront` | composition | the seven modules above, of which a page shows one at a time |
| `SellerFigures`, `SellerAlerts`, `MarketPage` | component | the dashboard's figures and its product list; its news; the marketplace page around the listing |
| `Rollout`, `Cutover` | component | deployment and hand-over; the replacement of the escrow |
| `Deployment` | composition | the two, and the scripts of the contracts that stand alone |
| `MC*` | model checking | instances and bounded inputs; `MCLedger` also puts the pages and books that share no state with anything in one run |
| `FiniteSums` | proofs | finite sums: what the proofs about counters need; the split of a commission |
| `EtaloProtocolProofs` | proofs | the escrow: invariants, action properties and refinements, counters, weekly volumes; the stake; the composition: refinement of the escrow and of the stake, disputes, votes, verdicts, freezes |
| `BackendProofs` | proofs | the indexer: the shape of the log, the rows, the checkpoint; the relayer's nonces |
| `CheckoutProofs` | proofs | the checkout: what is charged, shown and taken from the stock |
| `OrderDeskProofs` | proofs | the screens of an order: what they offer and announce |
| `ScreenProofs` | proofs | the screens of a dispute: what they offer and sign; the desks of the storefront: what they tell |
| `LedgerProofs` | proofs | the books and pages of `MCLedger`: the commission item by item, a seller's reputation, the dashboard's figures, news and product list, the marketplace page |
| `DeploymentProofs` | proofs | deployment, hand-over and cutover |

`EtaloDispute` extends the escrow, the voting and the stake, because a transaction of the
dispute contract is one step of up to four contracts: its actions conjoin the others' actions.
`EtaloProtocol` adds what everybody else sends. The off-chain modules of an order extend
`OrderLifecycle`, which `EtaloEscrow` is shown to implement: what they assume of the
chain is what the contract does.

### How the contracts' modules correspond

* Who buys what from whom at which price is chosen in the calldata of
  `createOrderWithItems`. The modules fix it with constant functions (`BuyerOf`,
  `SellerOf`, `OrderOf`, `PriceOf`): a behaviour of the program is a behaviour of the
  module for the constants that name its orders, and the theorems hold for all of them.
* `Order.globalStatus` is `orderStatus`, with `"None"` before the id is used, and so on:
  each variable's comment names its field. `refundedAmount` and `commissionPaid` stand for the
  transfers to buyer and treasury, which the contract does not store per item.
* One action per entry point. A `require` is a conjunct of the guard, an internal helper is an
  operator that the action calls. A call by the wrong sender reverts, which is no step.
* `uint256` arithmetic is checked: a subtraction below zero is a disabled action (`x \in
  Uint`), not a wrapped value.
* `shipItemsGrouped` takes an array: the action takes a sequence of item ids, in which one may
  occur twice, because the code validates all ids before it changes the first.
* `isTopSeller` is what `EtaloReputation` answers during the call: a free Boolean. So is
  `eligible` in `DepositStake` and `UpgradeTier`.
* `createOrderWithItems` requires `!isCrossBorder`, so the 20/70/10 staged releases, the
  arrival confirmation and the stake check behind it are unreachable; they are not modelled.
* The parties have the allowances and balances they need; USDT transfers do not fail.
* Alone (`Spec`), the escrow runs under *any* dispute contract: `DisputeHook` lets it
  mark and resolve whatever the escrow accepts. In `EtaloProtocol` those calls are the ones
  `EtaloDispute` makes.
* `resumeWithdrawal` and `slashStake` are only ever called together, by `_applyResolution`:
  `ResumeAndSlash` is that pair. A slash above the stake reverts the resolution.
* `_disputeByItem` is never reset, so an item is disputed at most once; a dispute, and
  its vote, are named by their item. An escalation depends on its sender only before the
  deadline: `Callers` tells the buyer from anyone else. `assignedLog` collects the
  `MediatorAssigned` events of a dispute.
* `SetContract` is the three setters of the owner. A reference is unset and set again; a second
  contract at the other end, with a state of its own, is not modelled.
* `EtaloReputation` has its callers' calls as its actions. The calls count and never revert, so
  nothing of `EtaloProtocol` depends on them and the two are not composed.

### How the off-chain modules correspond

* A coroutine, a hook or a handler is one step between two awaits. What it holds across an
  await (a nonce, a snapshot, the address of the wallet it started with) is a field of its record.
* In `Indexer` a poll of one contract is one database session: `ses` is what it sees, `db` what
  is committed. A handler that reads the chain reads its latest state, not the event's.
* In `Keepers`, nonces are counted from the number of mined transactions, so that 0 is
  the next to be mined. What a node answers about its pool is at most what the pool holds.
* In `Checkout`, `OrderDesk` and `DisputeDesk` a screen acts on its last fetch, a fetch finds the
  mirror where the last one did or caught up, and a receipt may be late, lost or of a
  transaction that reverted. The wait for it may fail at any time, by its timeout or by an error of the RPC,
  and leaves the transaction where it is: the outer `catch` of each hook treats all errors of a wait alike.
* In `Checkout` each activation of `start()` is a run, and `Raced` is what follows when a second one
  passed the test of `startedRef` before the first had set it. `finalize_cart` is two steps: it reads the row
  and lets a request through (`Finalize`), and takes the stock and commits (`Commit`); in between, the answer may
  be lost (`AnswerFails`), with the request carried out or not. Of the wait's errors `classifyError` is taken to
  make a message of their own: the words it searches for ("rejected", "denied") are not looked for in what
  an RPC might answer.
* In `OrderDesk` a pause of the escrow starts and ends at any time, and reverts what it gates; the requests for early
  release only move a timer and are not followed further.
* In `DisputeDesk` an amount may be one more than the price, since the card's input has no maximum and a proposal is
  stored unchecked; the one that matches it reverts in `resolveItemDispute`.
* In `SellerFigures` and `MarketPage` a sort is what it promises: `Ranked` is any order of the rows in which none
  comes after one that belongs before it, where the code leaves ties to the database or the engine; `First` is
  ORDER BY with LIMIT, for an order without ties.
* `Storefront` and `Deployment` put modules side by side that share no state: a behaviour is one
  of them, chosen at the beginning, the others at rest in an initial state.
* Faults (a crash, a refusal, a lost answer, a lagging node) are actions of their own,
  counted by `faults` (the keepers: `faultKinds`) or `MaxFaults` so that TLC ends.

Operators whose comment begins with *Mutant* are what plausible errors in the definition below
them would be; no definition of the model uses them.

## 3. Runs

| Run | Instance | What it shows |
|---|---|---|
| `ledger` | one seller's stake with tiers at 2, 3 and 5 and two overlapping freezes; one seller's record; three items at every price up to 8 and four rates; the dashboard, product list and marketplace page over a few rows; one of these at a time | the stake is covered and its cooldown runs only unfrozen; the split is sound; record, figures, alerts, list and page are what they claim |
| `escrow_order` | one order, two items of prices 2 and 1, four instants, two groups | custody, accounting, both refinements, the pause, the dispute window, the weekly credit |
| `protocol` | one item of a staked seller, three mediators, all three levels, slashes, an owner who switches the voting reference, holds and refunds by force | the contracts agree on what is disputed, by whom and how it was decided; the stake stays; a finished vote can be closed |
| `indexer` | one order of two items, four blocks, chunks of two, a fault of any kind | nothing is lost in silence; the mirror agrees, keeps the disputes and catches up |
| `keepers` | one order of two items, scans of one row, a pool of two, a fault of any kind | nonces stay in step; silence settles |
| `checkout` | two accounts, two sellers, two visits, two taps, a fault | what the page says was paid was paid, once; stock only goes for what was paid; runs end unless the wallet is never answered |
| `order_desk` | one order of two items, either desk, pauses, one call at a time | a button is offered exactly when the contract takes it, but for a pause and the ship dialog; notes are true; screens move on |
| `dispute_desk` | one dispute, one mediator and a party who is one, two calls in flight | offers match the contract but in four cases; agreements are at the amount signed last; every level has a way on |
| `storefront` | one wallet, one product form, a listing of three products, two addresses | what the desks tell is so; who has paid is served |
| `deployment` | mainnet and Sepolia, three mishaps, a failed verification; two orders across the cut-over; three failed reads | records are wired; hand-overs and migrations end |
| `claim_cutover_dispute` | one order on each escrow | refuted: an order of the new escrow whose ids were disputed on the old one cannot be disputed |
| `claim_connecting_ends` | MiniPay, approved before | refuted: the page can say "Connecting to MiniPay…" for ever |

**Bounds.** Amounts are small, with a denominator of 100 (10 in `ledger`) and rates that leave
rounding dust at the instance's prices. The durations keep their order (early-release
window <= Top Seller timer < intra timer; a pause shorter than its cooldown) at one or two ticks,
and time goes far enough for every timer to fire, the window to roll, a pause to start and
end, and a dispute to pass all its levels. Two items per order are what the order's status
tells apart (none, some, all); two groups are what one order of two items can use; two freezes
are what the first and the last one tell apart. A scan of one row and two rows due is a scan that
cannot take everything. Off chain one or two faults are what the code's own retries are written
for, and each kind is tried at every step. Three mediators are the assigned one and a panel of two, which can
tie and can split; the owner's doings, proposals and the stake, which meet no panel, are explored with one.
The runs visit between 150 thousand (`deployment`) and a million (`checkout`) distinct states, each in less than
four minutes. What these bounds cannot show, several orders
that share counters, several disputes of one seller, larger panels, is what the
theorems of section 4 are for: they have no bounds.

| Bound | Stands for |
|---|---|
| `MaxTime`, `MaxBlock` | the end of the explored time |
| `MaxUint` | 2^256 - 1 |
| `MaxGroups`, `MaxUsdt`, `MaxSlash`, `MaxRecords` | groups ever created, USDT for stakes, the largest slash, the records of a seller |
| `MaxActiveSales`, `MaxFreezes` | the calls of the escrow and of the dispute contract in `StakeSpec`; `EtaloProtocol` needs neither |
| `Rewirable` | the references the owner changes |
| `OwnerNeverPauses` (a `CONSTRAINT` of `protocol`) | no pause there; `escrow_order` has it |
| `PanelInQuietTimes` (a `CONSTRAINT` of `protocol`) | more than one mediator is seen only where the parties made no proposal, the seller has no stake and the owner changes nothing |
| `MaxTaps` | activations of `start()` in a visit; the second on the first visit, for one unit, and no visit follows it |
| `MaxFaults`, `MaxFaultKinds`, `MaxMishaps`, `MaxReadFaults`, `MaxLag` | faults of a behaviour |
| `MaxPool`, `MaxSent`, `MaxCalls`, `MaxVisits`, `MaxTurns`, `MaxSaves`, `MaxTyped`, ... | calls in flight and operations of a user |

Deadlock is checked in `escrow_order`, `protocol`, `keepers`, `dispute_desk` and wherever else the
system cannot stop; the configurations that switch it off are those of programs that end (a
checkout, a script, a page at rest, a chain at `MaxBlock`).

**Fairness.** None on chain: nothing obliges anyone to call a contract, and the only
progress stated there is that a way out is enabled (`FinishedVoteCanClose`). Off chain:

* the indexer's task polls for ever and is restarted (`WF(Poller)`); a handler that fails for ever
  is excluded by the bound on faults;
* both keepers' tasks run for ever, their sender waits with a timeout, blocks are mined and a
  pause ends by itself, since the contract bounds it; nothing is assumed of the parties;
* a promise that a program awaits with a timeout of its own settles: an HTTP request, a query that polls, the wait
  for a receipt (`TX_TIMEOUT_MS`). In `Checkout` nothing is assumed of the wallet, whose prompts have no timeout, nor of
  the mining: `RunsEnd` says that a run ends or stays for ever at an open prompt. The same in `OrderDesk`:
  `Receipt(k) \/ ReceiptTimeout(k)` is fair, neither is alone, and the wallet and the user owe nothing;
* for the shop and the credits, a transaction in the pool is mined and a purchase is mirrored; the seller connects the
  wallet, submits a form that can be submitted and reloads a page that offers nothing else (`SellerGoesOn`). A seller
  who keeps losing the form although it offers something (`SellerLeaves`) is excepted by `PaidShopOpens`
  itself. On the path where the retries after a payment run out (`CreateShopForm.tsx:252`) the form offers
  nothing more, and what is shown is that a reload and a plain submission then open the shop;
* a script that was broken off is started again, and a verification of its wiring that failed keeps the file written by
  hand; a resume from the wrong setter is a mishap, and counted.

`SF` appears where a step is disabled again and again by something harmless (a form that is
rendered anew, a refetch in between).

### What the code does and a document denies

Shown by a run:

* `claim_cutover_dispute`: `openDispute` refuses ids it has seen disputed, whatever escrow they were
  of, and the new escrow counts from 1 again (`EtaloDispute.sol:170`; against
  `docs/MIGRATION_ESCROW_ADR057.md:22-24`).
* `claim_connecting_ends`: `SilentReconnectGate` connects inside MiniPay beside `useMinipay`, which
  takes the watchdog back (`SilentReconnectGate.tsx:69`; against `useMinipay.ts:22-24`).

Seen while modelling; the passing runs and the theorems hold with them, because their statements are about
what the code does. On chain:

* A refund of an item shipped in an earlier week lowers the counter of the current one, and the
  seller ships above the cap (`EtaloEscrow.sol:1175`). `SMART_CONTRACTS.md` counts "at fundOrder", the code
  at shipment.
* After the first group is delivered the order is `PartiallyDelivered` and a second group cannot be
  shipped (`EtaloEscrow.sol:404`, against `docs/SPEC_SMART_CONTRACT_V2.md:308`). `shipItemsGrouped([a, a])` counts
  two shipped items: the order is `AllShipped` with `b` pending and no longer shippable (`:461`).
* `forceRefund` leaves an open dispute without its item, which can then never be resolved, and the seller's withdrawal
  frozen (`EtaloEscrow.sol:821`): what the comment at `:756` says of the automatic refund and ADR-031 closed there.
  `forceRefund` on a partly delivered order leaves `Refunded` with a released item (`:853`). After a dispute
  on one item is resolved, the auto-refund stays closed for the others, because the order is no
  longer `Funded` (`:745`).
* A withdrawal requested before a slash is executed after it, and the seller keeps a tier the stake
  does not cover (`EtaloStake.sol:253`, ADR-028). A slash recomputes the tier upwards too (`:337`). What a
  slash or a late withdrawal leaves below the first tier is overwritten by the next deposit
  (`EtaloStake.sol:156-170`), although the comment at `:316-345` calls it recoverable by
  `initiateWithdrawal(None)`; ADR-033 documents the overwriting. `StakeStaysForDisputes` names
  it (`ResidualOverwritten`).
* `adminForceCloseN3IfNoQuorum` does not look at the vote's deadline (`EtaloDispute.sol:414`). A mediator
  who is replaced at N2 may vote at N3: only the last one assigned is excluded.
* `ordersCompleted` counts released items, not orders (`EtaloEscrow.sol:1269`, against the 50 orders of
  `SMART_CONTRACTS.md:179` and the 20 of `ARCHITECTURE.md:9`). Before the first completion a lost dispute scores
  50, so completing the first order can lower the score. The sanction's cooldown counts from the
  sanction, not from its end, and `applySanction(Active)` does not look at the badge again.

In the backend and the scripts:

* `consume_credits` says it never overdraws; two concurrent requests do (`credit_service.py:91-100`). Two
  first requests both grant the welcome bonus.
* `OrderCancelled` and `ForceRefundExecuted` have no handler; the head becomes the checkpoint even when a stop
  left blocks unread (`indexer.py:158`, against its docstring and `docs/BACKEND.md`); one failing handler
  rolls its predecessors of the session back (`indexer.py:248`). A transaction the node drops leaves a gap in the relayer's
  nonces (`relayer.py:82`); a hundred items whose release keeps reverting fill every scan
  (`auto_release_keeper.py:127`).
* The cap of an item's commission drops "a few wei of commission into perpetual escrow", says the comment
  (`EtaloEscrow.sol:293-295`). Nothing stays: what the cap drops goes to the seller with the item, and
  `EscrowAccounting` and `PaidExactlyOnce` are exact.
* The refund keeper does not filter disputed orders; `relayer.py:22-24` promises more than `:184-189` does.
* `finalize` is undone when the indexer lags, and two concurrent ones of one order are not locked (`cart.py:276`
  calls it idempotent); that the hook repeats no failed request is what `StockOnlyForPaid` rests on. The
  "15-minute" token lives for 60. A `PUT` resurrects a deleted product, whose slug stays taken.
* Two concurrent address creations, or set-defaults, leave two defaults; a deletion beside a
  set-default leaves none.
* `Stake.communityFund` and `Credits.creditsTreasury` are neither rotated nor verified
  (`deploy.mainnet.ts:23-27` says so); a restore from a half-done rotation fails at the treasuries every
  time; `verify-ownership` can say OK with a transaction still in the mempool; the drain monitor does
  not count `Created` orders; `deploy.mainnet.ts` cannot be resumed.

On the screens:

* A transaction hook takes a mined transaction for a success without reading its status
  (`useTxWriteHook.ts:209`). "Mark shipped" on a `PartiallyShipped` order, or on one with a disputed item,
  always reverts, because the dialog asks for all items. A late receipt closes whichever ship dialog is open. No
  screen looks at `pausedUntil`.
* `start()` called twice orders twice from every seller: `startedRef` is tested before two awaits and set
  after them (`useSequentialCheckout.ts:264`, against the comment at `:133-134` that calls it idempotent).
  A `fundOrder` whose wait failed by an error of the RPC is told with that error's text, and may be mined
  afterwards. `clearCart` on success drops what was added after the token.
* The input of `N1ResolutionCard` has no maximum, although the comment on `itemPriceRawUsdt` says that it "sets the input
  max" (`N1ResolutionCard.tsx:62`): "Accept their proposal" of more than the item holds always reverts
  (`EtaloEscrow.sol:988`), and is reported as a success; the older proposal stands.
* No screen calls `escalateToVoting`; a mediator revoked after the assignment leaves a case without a
  screen; calldata prepared from a stale row can replace a mediator.
* A price sort is paged with a `created_at` cursor (`marketplace.py:175-190`); "Reset all" clears only the
  search; two filters chosen before the first navigation arrives lose the first.
* The optimistic credit balance can count a pack twice; a late `onCreated` shows wallet A's shop on
  B's dashboard (`SellerDashboardInner.tsx:331`); a stale enhanced photo lands in a reopened form;
  a profile update replaces the whole dictionary of socials; "Waiting for your first sale" is shown to
  sellers with older sales; after a wallet switch the bell and the toasts keep the former wallet's marks.

## 4. Proofs

The theorems hold for every set of orders, items, parties, mediators and log events, every number of them
at once, and every value of the prices, rates, caps, stakes, durations, chunks, limits and faults that satisfies the named
assumptions of `EtaloClock`, `EtaloOrders`, `EtaloCommission`, `EtaloEscrow`, `EtaloStake`, `EtaloReputation`,
`EtaloDispute`, `Indexer`, `Keepers`, `Checkout`, `OrderDesk`, `DisputeDesk`, the seven desks of `Storefront`,
`Rollout`, `Cutover`, `SellerFigures`, `SellerAlerts`, `MarketPage` and `MCLedger`. These are what the constructors, the literals and the checked
arithmetic give: prices are naturals, rates are at most 100 %, durations are ordered as the contract's
literals are, tiers ascend, the chain is older than a week and than the pause cooldown, and there
are finitely many items and sellers (`FinitenessAssumption`), orders, products and listings on a page, and a chart's
week has more than one day. TLC evaluates each of them in a run.

| Module | Theorem | Statement |
|---|---|---|
| `EtaloProtocolProofs` | `EscrowInvariant` | `Spec => []IInv` |
| | `EscrowTypeCorrect` | types |
| | `EscrowPaysExactlyOnce` | a closed item was paid out once and in full, an open one not at all |
| | `EscrowFundedUntouched`, `EscrowOrderFollowsItems` | order status and item statuses agree |
| | `EscrowDisputeWindow` | the buyer keeps the early-release window |
| | `EscrowSettledIsFinal` | no step moves a settled item or a closed order |
| | `EscrowPauseFreezesItems` | what moves an item during a pause |
| | `EscrowReleaseNeverPostponed` | no step postpones a group's automatic release |
| | `EscrowImplementsCustody` | the escrow refines `ItemCustody` |
| | `EscrowImplementsLifecycle` | the escrow refines `OrderLifecycle`, on which the off-chain modules are built |
| | `EscrowAccountingExact` | the counters are the exact sums of what is held |
| | `EscrowExitNeverReverts` | no subtraction of a release, refund or settlement underflows |
| | `EscrowWeeklyCredit` | within a week a seller's volume only falls with a refund of what was shipped |
| | `StakeTypeCorrect`, `StakeFreezesConsistent` | types; frozen or running, never both |
| | `StakeCooldownExact` | disputes neither shorten nor lengthen a cooldown |
| | `StakeUncoveredOnlyLate` | only a withdrawal requested before a slash leaves a tier uncovered |
| | `StakeSolvent` | the contract holds what the sellers have deposited |
| | `ProtocolImplementsEscrow` | `ProtocolSpec => Spec` |
| | `ProtocolKeepsEscrowPromises` | the escrow's books, payouts, credit and refinements under the real dispute contract |
| | `ProtocolDisputedIffOpen` | an item is `Disputed` exactly while a dispute over it is open, but for the step of a forced refund |
| | `ProtocolOnlyResolutionEndsDispute` | nothing else takes an item out of its dispute |
| | `ProtocolMediatorDoesNotVote` | the mediator assigned last is not among the voters |
| | `ProtocolPanelDecides` | a vote counts every ballot once and is decided by them, and that mediator is not on the panel |
| | `ProtocolVerdictHasAuthority` | who decided, the owner only where no ballot was cast, and that it is what was paid |
| | `ProtocolOneFreezePerOpenDispute` | two contracts count the same disputes |
| | `ProtocolImplementsStake` | `ProtocolSpec => StakeSpec` |
| | `ProtocolCooldownExact`, `ProtocolSolvent`, `ProtocolUncoveredOnlyLate` | the stake's theorems, in the composition |
| | `ProtocolStakeStaysForDisputes` | while a dispute is open only a mediator's slash takes from the stake |
| `BackendProofs` | `IndexerTyped` | types and bounds |
| | `IndexerLosesNothingSilently` | an event that no poll reads again was processed, or lost to a failing handler or a shutdown, if no node lags more than `REORG_DEPTH` blocks |
| | `IndexerMirrorAgrees` | once every event of an order is processed, none of them late, its rows show its status on chain |
| | `IndexerKeepsDisputes` | as long as no handler failed and no shutdown cut a cycle, every processed dispute has its row, if no node lags more than two blocks |
| `BackendProofs` | `KeepersNoncesInStep` | the keepers share the relayer's nonces without sharing one or skipping one |
| `CheckoutProofs` | `CheckoutInvariant` | cart, screen, transactions, allowance, orders and stock are in step until a second tap overtakes the first; what a run keeps by itself always holds |
| | `ChargedOnceTheorem` | a unit put in the cart is paid at most once, over all visits, and once more for what no page saw the end of |
| | `LastScreenTheorem` | what the last screen says was paid was, and nothing else is or will be, but one payment whose wait failed, which is told |
| | `PageTheorem` | the progress shown is true and the cart private, also after a race; the allowance covers what is left |
| | `StockTheorem` | stock is taken only for what is paid, and once, also after a race |
| | `CancelTheorem` | after "Cancel remaining" no further prompt, also after a race |
| `OrderDeskProofs` | `DeskInvariant` | order, calls, dialogs and notes are in step |
| | `OffersTheorem` | an up-to-date page offers a button exactly when the contract takes its call but for a pause, an up-to-date list offers to ship whenever the contract takes that, and it warns of every refund anyone may trigger |
| | `ShippedNoteTheorem` | the optimistic "shipped" is said of a shipped order only |
| `ScreenProofs` | `DisputeDeskInvariant` | the dispute's record, the calls of the screen and the amount signed are in step |
| | `SettledAsSignedTheorem` | an agreement is at the amount signed last, once no proposal is under way |
| | `DisputeOffersTheorem` | what the up-to-date screens offer together is what the contracts can take next, but in four named cases |
| | `StoreInvariant` | what each desk has in flight is in step with the rows it was made from |
| | `StoreSound` | what the desks of the shop and of its buyers tell is so: payments, credits, photos, profiles, listings, addresses, prompts |
| `FiniteSums` | `CommissionSplitSound` | the split of a commission over any number of items, at any prices, adds up and stays within every price; so do the shares of a dispute |
| `LedgerProofs` | `ReputationTopSellerEarned` | nobody keeps a badge that they would not be given now |
| | `ReputationScoreOfRecord` | the score is the one of the counts, and in 10..90 |
| | `ReputationScoreMovesRight` | a completion does not lower it, a dispute does not raise it |
| | `LedgerSplitIsSound` | the commission of three items, at any prices and rate |
| | `LedgerFiguresAgree` | the dashboard's periods nest and its chart adds up; who is told to be caught up is; tiles and pick list tell the same |
| | `LedgerAlertsAreSound` | an order is announced once, the badge counts what was, what was looked at is not unread |
| | `LedgerListIsSound` | the chips count the cards below them, every match is in reach |
| | `LedgerMarketPageIsSound` | what the buyer chose last is what the page shows |
| | `LedgerReputationIsSound`, `LedgerRecordsAreSound` | the reputation among the other accounts; all of them |
| `DeploymentProofs` | `DeploymentInvariant` | files, owners, the mempool and the monitor are in step |
| | `DeploymentSound` | what is recorded is wired, a broken hand-over can be finished, the old escrow is drained before it is left |

**Escrow.** The safety properties are not inductive alone. `PaidExactlyOnce` needs to know
that a `Funded` order is untouched (the auto-refund pays `PriceOf`, not what remains);
that needs the items of an unfunded order to be fresh (`UnfundedMeansFresh`), and the release
of a group needs its items to be of one order (`GroupsHandedOut`). `IInv` is their
conjunction. The proof has one lemma per entry point and, where actions share a helper
(`ReleaseItemsFully`, `RefundItems`), one for the helper.

**Steps and refinements.** What anyone but the dispute contract can do to one item is one of four
effects (`ItemEffect`: untouched, shipped, closed, refunded by force), and the lemma that says so is
the only place where the entry points are opened. The action properties follow from it,
from the effect of the two dispute hooks, and from `IInv`. To `ItemCustody` a step that funds an
order is a `Deposit` of its items and every other step is the `Settle` of the set of items it
closes, whose payment `PaidExactlyOnce` gives in the next state. To `OrderLifecycle` each entry point is one
of its steps, with timers that are functions of the clock and the deadlines, or changes nothing it sees.

**Sums.** Counters are sums over sets of items or sellers, and a sum is a fold, defined by
recursion over subsets. The library's induction theorems take an operator as a parameter, which the
provers cannot instantiate, so `FiniteSums` has its own principle as a statement about a *set* of
subsets: a family that contains a set as soon as it contains its strict subsets
contains every finite set (`FiniteInduction`, by a minimal counterexample). From it follow that the
fold's recursion has exactly one solution, and then how a sum splits, grows and changes with a few
of its terms (`SumSplit`, `SumUnion`, `SumChange`, `SumAffine`), and that the order in which terms are added, or the
groups they are added in, do not matter (`SumImage`, `SumGroups`).

**Accounting.** `BooksBalance` is inductive with `IInv`: each entry point changes what is held of the
items of one order, and both counters by the same difference (`BooksMove`). The auto-refund
subtracts the order's total and zeroes all of its items, which is the same amount
because a `Funded` order is untouched. The commission of an item is its share of at most the order's total,
rounded down, plus the dust for the last one; the dust is less than the number of items and fits
because a rate is at most 100 % and every item costs at least one unit. `CommissionFits` carries that
bound through every step.

**Stake and reputation.** `StakeInv` adds to the types and to `FreezeConsistent` that the present is
not before the deployment. The action properties go seller by seller: a step of one
leaves the others alone (`OthersUntouched`), and of the step's own seller each action is a lemma;
solvency is `SumChange` at that seller. For the reputation, the score is a monotone function of the counts
in each argument although its divisions round, by cross-multiplication (`CompletionHelps`, `DisputeHurts`).

**Protocol.** Every step of the dispute contract is one of three kinds to the escrow (`Opens`,
`Resolves`, `Escalates`) or leaves it alone, so every step of `ProtocolNext` is a step of
the escrow or a stutter, and the escrow's theorems carry over; the same for the stake. The mirror between
`level` and `itemStatus` (`MirrorInv`) is inductive with `IInv`: an orphan, a dispute still open over an item that
was refunded, stays one because closed orders and settled items are final, and is made by no step but the owner's forced
refund of that item's order, which `ProtocolDisputedIffOpen` says of the step and not of the state it leaves. `MediationInv` adds that nobody is a voter
before N3, since no mediator is assigned from N3 on. `BallotInv` counts ballots: the set of voters who
voted for a side has the cardinality of that side's count, so that an owner who decides decides where both counts,
and with them the set of those who voted, are empty. `VerdictInv` keeps the ruling of a resolved dispute
with the proposals, the mediator or the vote it came from, none of which moves any more.
`FreezeInv` says that both contracts' counters are the cardinality of the seller's open disputes.

**Indexer.** `IndexerInv` has three parts. `ChainInv` is the shape of the log of each order: it begins with
`OrderCreated`, disputes come later, while the order is not shipped its events say nothing of its status
that a handler could get wrong (`Quiet`), and otherwise the last event that moves the order, or the last
one that touches an item, says what the chain says. It needs the lifecycle's own invariant (an order not
funded yet is untouched). `MirrorInv`, of the committed rows and of those of the open
session, says that rows follow the processed events: a row exists when its creating event is processed, and
holds what the greatest processed event that touches it told, or the chain itself for a
handler that reads it. `PollInv` accounts for every block: behind a checkpoint, behind the next chunk of
the open poll, among the fetched events, or in `undone`, `late` or `skipped`. An event that a lagging
node hid is in the blocks the next poll reads again, as long as the lag is at most
`REORG_DEPTH` (3 by default, `config.py:205`): that is the hypothesis of the first and the last theorem. The
last one also needs a lag of at most two. A dispute is opened at least two blocks after its order, funding
and shipment between them, so a node three blocks behind can hide the order from the poll of
the escrow while the poll of the dispute contract that follows sees the dispute, whose handler then
drops it: with `MaxLag = 3` TLC finds that. Some of the proofs choose a least or a greatest event,
which is `NatLessThanWellFounded` on finite sets of positions.

**Keepers.** `OneCallPerNonce` is inductive only with what the sender and the keepers know: as long as
no restart and no lost answer made the sender forget a nonce, all the nonces in the pool are at most the
last one sent (`SentIsGreatest`), the one being signed under the lock is greater (`SignedIsFresh`),
and two keepers that wait for a receipt wait for different nonces, each for the only call that has
its nonce (`FlightsAreApart`), which is what a replacement by fee relies on. That nothing is skipped
needs none of that but the lock: the nonces before the one being signed are in the pool, because a node's
count is at most the first nonce that the pool misses (`NodeCountsThePool`, by the pigeonhole), and
the mining of a nonce moves everything down by one. `ScanIsLimited` bounds what a scan takes.

**Checkout.** What is charged and what is shown can only be related through the whole way of a payment,
and `CheckoutInv` has a part for each leg of it. `ScreenSound`: the phase and the status of every seller
are functions of where the run is, and until the run ends the locked units are still in the
cart. `PoolSound`: a transaction that the run waits for is the one it has just asked for, and a payment that
no run waits for is of an earlier visit or of a seller whose failed wait the buyer is told of, be it a timeout or a node that
did not answer (`Warned`). `BooksSound`: such a seller is left open (`OpenSound`: one payment of the locked quantity at
most, made or under way), and any other seller of the open page is paid by exactly one order or by none, and by one exactly if the status says so or the run
is at the seller's last requests. `ChargedSound` adds to the units in the cart those that are paid, or may yet be by a payment that no run
waits for (`Orphaned`): the sum is at most what was put in, plus what is paid and leaves the cart when the run ends, plus
`lost`, the units whose end no page saw. It is inductive
only with the locked units still in the cart. `AllowanceSound`: the allowance covers the locked
total less what is settled, as long as no earlier page left a transaction behind. `StockSound`:
what is missing from the stock is covered by the stamped orders, which are paid. It holds
although `finalize_cart` does not lock the row it has checked, because there is never a second request
for an order under way: an order has one run, which repeats a request only if it was told that there is no row (`ServingSound`). Of `RunsEnd` the action
property is `CancelTheorem`; that the run ends stays with TLC.

Nothing is assumed of the taps. `start()` tests `startedRef` before two awaits and sets it after them, so two
taps pass both and the seller gets two orders (section 3, on the screens). `CheckoutInvariant` is therefore
`Spec => [](EveryRun /\ (Raced \/ CheckoutInv))`: what is above follows the first activation for as long as no
second one has raced it, and `EveryRun` is what every activation keeps by itself, any number of them at once. No two are at
the same order (`Apart`), a transaction that one waits for is the one it asked for (`WalletSound`), the
backend's requests that passed the check and have not committed name paid orders that are not stamped, one request
for an order (`ServingSound`), and a tick on the screen stands for an order paid (`ShownSound`). From
`EveryRun` alone follow `StockTheorem`, `CancelTheorem` and of `PageTheorem` all but the allowance;
`LastScreenIsTrue` and `ChargedOncePerUnit` name `Raced` as their exception, and are the reason why the double tap is
listed as a bug of the screen and not as a property.

**Order screens.** `OffersMatchContract` compares two tables, what the page derives from a row and what the
contract requires, and they agree only on orders whose parts agree: a closed order has settled items, an unpaid
one has untouched items and no deadline (`LifeInv`, which every step of `OrderLifecycle` keeps). The page does not know
of the pause, so what it offers is takeable or `Gated`; the seller's half (`ShippingIsTakeable`) also names the orders of
which one item was shipped or disputed already, since the dialog asks for all of them. The shipped note
is as true as the call it follows: a "ship" that took has shipped the order (`CallsInv`), and no
later step, of this desk or of anyone else, makes it shippable again (`PastShipping`).

**Dispute screens.** `SettledAsSigned` relates a signature to a later block. In between, the account's transactions
are mined in nonce order, so that the last proposal under way, or else the one on the chain, is what was
signed last (`SignedInv`), however often the card gave up on a receipt or was replaced by another. A settlement
in somebody else's transaction is then at the chain's proposal, one in the account's own at that of the head of
the queue, which is the last one if no other is left behind it. A proposal that the contract refuses, because it agrees with the
other party's on more than the item still holds, leaves the one before it standing (`RefusedLast`), and what was
signed last is then that one. `NextStepOffered` goes level by level: `WhatIsOffered` lists
every call that an up-to-date screen offers with what the screen looked at, and the rest is what
the contract looks at.

**Storefront.** A step is one of one desk, so `StoreInv` is a conjunction of seven invariants, each
inductive for its own desk. `ShopInv`: every transaction a run waits for is the one that run signed last, with the
wallet it runs for, and a success it was told of is of a wallet that has paid. `CreditsInv`: a receipt that
has come but was not told is of a purchase not counted yet, and the balance covers what the devices between
their read and their row will take, but for one of them (`CreditsRead`), which is how far a race of two
devices can overdraw the ledger. `ProductInv`: a save under way that nobody was asked about has no
raw photo to publish. `ProfileInv`: a field that is not always sent is as the page was given it,
in the form, on its way and in the row, until it is touched or a save is answered. `MarketInv` looks at a
page as the relation that ORDER BY and LIMIT are (`Firsts`): what is not on it comes
after its last row, so a listing descends to its cursor and has all above it that has been for sale all along
(`DownToCursor`), whichever of the database and the cache a page comes from (`PageAdds`).
`BookInv`: a request that no other commit overlapped since its read knows the rows as they are
(`ReadsAreFresh`), hence writes exactly one default. `WalletInv`: a watchdog that has rung
has been shown to have, until a retry.

**Deployment.** Three invariants that share no variable. In the rollout, setter 1 is only ever sent once six
contracts are built, so a run that finds all 17 references set has all of them
(`BuiltThenWired`), also when the run before it was broken off and its transactions landed late. A hand-over
can be finished because the escrow is with the side that last held all of it
(`EscrowAtHome`): its owner is the last to be handed in both directions, and what is in the mempool
goes one way only, since who turns round waits until nothing is stuck (`EscrowLast`, `OneWay`). In
the cutover, what the monitor has read, and what is numbered after its count, holds funds only if it was
paid since it began; that the numbers run from one without a gap is `CountsFromOne`.

**Ledger.** The accounts of the run share nothing but the clock (`LedgerStep`), so that each has an invariant
of its own. Of the book of orders it is little, `BookInv`: no order was made or funded in the future. The rest
is arithmetic over a state, and the hard part is that two parts of the program add the same lines in
different orders. The tiles add the pieces of each order and then the orders; the pick list adds the orders of each
product and its rows are ranked: both are sums over (order, product) pairs (`PiecesByOrder`,
`PiecesByProduct`, regrouped by `SumGroups`). The chart buckets by date what the week's revenue takes by the hour; that
a chart without a sale means a day without one needs a `Week` of at least two days, or the sale could be on the
date before the chart's first. A sorted list of rows is a choice that the definition leaves open,
so what is said of it holds for every order the rows can come in: one exists, because a finite set has a last
element by any strict order (`RankingExists`), and it shows each row once (`RankingOnto`). `ListInv` says that more
than a page is shown only after "Load more"; `AlertsInv` and `BellInv` place the instants (the baseline, the last fetch, the
last look) in order, behind the clock; `PageInv` follows a choice from the press of a button to the address that carries
it, past the ones that overtake it. The commission walk is `CommissionSplitSound` at its three items.

**Only model-checked.** Liveness and fairness, and `FinishedVoteCanClose`, which is about
`ENABLED`: neither is in the provers' reach. Every other invariant that a run checks is a theorem above, and so is every
action property and every refinement.

## 5. Plan

The contracts, the programs around them, the screens, the deployment and the books have their safety
invariants proved. What remains is to model what section 6 leaves out.

## 6. Not modelled

Access control by address, reentrancy (every entry point that transfers is `nonReentrant` and writes before it
transfers), the token itself, views, the two-step ownership transfer of OpenZeppelin, URIs and strings;
reorganisations deeper than the indexer reads again; a transaction that the buyer replaces in the wallet; uploads, one-time codes, WhatsApp messages, image,
language and pinning services; layout, legal pages, the UI kit. The note of each component in
`PROJECT.json` says what of it is left out.
