# NovaPanda: verification project

NovaPanda is a node for exchanges between agents: a client and a provider agree
on terms, the client's money is put in escrow, the provider delivers a resource
with a signed document (VDC), the delivery is verified and confirmed, and the
money is paid or given back. This directory holds TLA+ models of the node, the
TLC configurations that check them on small instances, and proofs for TLAPS.

Run `tlc -config X.cfg M` for a run and `tlapm M.tla` for the proofs.
`PROJECT.json` lists runs, mutants, the source lines of every definition,
findings, hazards and theorems.

## 1. Inventory of the system

| part | state it keeps | operations | what must be right |
|---|---|---|---|
| lifecycle table (`state_machine.py`) | none | `can_transition`, `assert_transition` | terminal states are final; the table is the only way to change a state |
| exchange engine (`exchange.py`) | a copy of one exchange per request | propose, contract, escrow, deliver, verify, confirm, dispute, resolve, cancel, expire, sweep, recover, attach_witness | money moves once, in a state that permits it; nothing that happened is lost; recovery finishes what a crash cut |
| exchange store (`store.py`) | SQLite tables of exchanges, VDCs, idempotency keys, nonces, stakes | get, save under an optimistic lock, add, vdc_upsert, remember_nonce | no lost update; a row never refers to a missing VDC; a nonce serves once |
| settlement rail (`settlement.py`, `http_gateway_base.py`, gateways) | holds, at a partner | authorize, capture, void, with retries | idempotent by handle; a lost answer is harmless |
| request gate (`node/app.py`, `node_auth.py`) | nonces | authenticate, admit, serve in a thread | a request that is delivered twice acts once |
| verifiers and judges (`verifier.py`, `v1/`, `v3/`) | metering sessions | verify, consensus, remote judge, reverify | a verdict says what the rule says, and a third party finds the same |
| reputation log (`reputation.py`) | hash chain of entries | append, record_settlement, record_outcome, import | the chain verifies; each closed exchange is recorded once |
| start of a node (`config.py`, `hardening/`) | the environment, the files | validate, load, seed, recover | a node has what was answered for under its paths, and the rail of every open intent |
| claims (`node/claim_registry.py`) | claims in a JSON file | issue, assign, reserve, capture, release, redeem | no claim is spent twice |
| operators (`node/operators.py`, `operator_persist.py`) | accounts, sessions, bindings, quotas | register, verify_email, login, bind, consume_propose | an account belongs to who proved its address; the quota is never exceeded |
| delegation (`delegate.py`) | delegations and their use | issue, validate_action, revoke | the limits hold over all actions |
| dispute tickets, certifications, reconciliation (`node/`) | tickets; certificates in a file; none | open, close; grant, change of status; export, RB-04 scan | the reports miss no money; a number is given once |
| rail negotiation (`rail_registry.py`) | registered rails | negotiate, quote, finalize the binding | quote, contract and money name one rail |
| stakes and witnesses (`v2/`) | stakes, witnesses of a document | lock, release, slash, attach | a stake ends once; an attached witness stays |
| settlement contract (`VDCSettlement.sol`) | records by exchange, trusted verifiers, its balance | createVDC, fulfillVDCWithProof, settlePayment, initiateDispute, resolveDispute, refundIfTimedOut | each value is paid once; a payee that calls back changes nothing |
| gateway and orchestrator (`verification_gateway/`) | jobs and credentials in memory | create, fulfill_with_proof, settle, dispute, sweep_timeouts | engine and chain pay the same party |
| marketplace (`marketplace/`, `depin/offline_sync.py`) | listings and their commitments, scores, risk windows, a device's queue | register, import, revoke, search; observers of closed exchanges | cached scores follow the trades; no better offer is missed |
| bundles and composer (`bundle.py`, `composer.py`) | the run of a bundle | order, run a leg, capture its claim | legs run in order; a claim is spent for a settled leg |
| autonomy (`autonomy/`) | task graph and report | split, auction, run, poll | a leg is paid once, within the budget, however often the goal is run |
| wallet (`wallet/`, `depin/gas_router.py`) | balances, escrows | transfer, paymaster, bumps, fall-back | no fee or fund taken twice |
| adopter (`adopter/`) | outbox, vault, anchors, drafts, outcomes | enqueue, flush, patrol, charge | what was queued takes effect once |
| agent tools (`agent_skill/`, rails of partners) | what an agent was told | tools over rail, supply chain and paymaster; advice | following the advice loses no money |
| consoles, CLI, manifests, wire formats, blobs, key histories | none over time | rendering, translation | not modelled |

How they interact: an HTTP endpoint is a plain `def`, so the server runs it in a
pool of threads; each calls the engine, which reads a private copy of the row
(`get`), calls the rail, and writes the whole copy back (`save`). The store locks
single methods only; between `get` and `save` only the version number protects
an exchange. After the final save the engine appends to the reputation log and
calls the terminal observers. `lifespan` runs `recover()` before the node serves;
an administrator can run recovery and the sweep while requests run.

Hard behaviours: interleaved requests on stale copies; the rail called between
two saves, its answer lost, its request repeated; crashes between any two steps;
recovery with less information than the request had; deadlines decided on a list
that is no longer current; the VDC stored in a transaction of its own. The
hazards of `PROJECT.json` name each at its line, with the properties about it.

## 2. The modules

| module | models | source under `src/novapanda` |
|---|---|---|
| `StateMachine` | the lifecycle table | `state_machine.py` |
| `Lifecycle` | abstract: the promise about one exchange | what `exchange.py` must keep |
| `ExchangeEngine` | one exchange, its row, its VDCs, the threads, the rail, the ledger, crashes | `exchange.py`, `store.py`, `settlement.py`, `http_gateway_base.py`, `reputation.py` |
| `ExchangeSafety` | the properties, the refinement mapping, the inductive invariant, fairness | |
| `MCExchange`, `ExchangeProofs`, `LifecycleProofs` | instances for TLC, theorems | |
| `ServerThreads` | what the registries' thread pools share: idle threads, `raced` | `node/app.py` |
| `ReputationLog`, `ReputationProofs` | the hash chain of reputation entries, its appends and imports | `reputation.py`, `v2/federation.py` |
| `Propose` | `POST /exchanges`: quota, idempotency key, new exchange | `exchange.py`, `store.py`, `node/operators.py` |
| `Delegation` | delegated credentials and their limit by period | `delegate.py`, `node/app.py` |
| `ClaimRegistry` | claims, their lineage and their file | `node/claim_registry.py`, `node/app.py` |
| `Certifications` | numbers, states and file of the certificates | `node/certifications.py` |
| `MCRegistries`, `RegistryProofs` | the five registries above, one per behaviour; theorems about all but the log | |
| `VDCSettlement`, `MCSettlement`, `SettlementProofs` | the contract, with calls from inside its payments; theorems about it and the wallet | `../bindings/evm/` |
| `AutoSettle`, `MCAutoSettle`, `AutoSettleProofs` | one exchange settled in the engine and on the chain | `verification_gateway/`, `depin/pod_tpm.py` |
| `Bundle`, `Composer` | documents of bundles; the run of a bundle and its claims | `bundle.py`, `composer.py` |
| `AdopterRuntime` | outbox, vault, anchors, backups of one agent | `adopter/runtime.py`, `outbox.py`, `vault.py`, `anchor.py`, ... |
| `SitePatrol` | a goal of three exchanges and a charge | `adopter/patrol.py`, `charge.py`, `draft.py` |
| `SupplyChain` | split, auction and run of a goal | `autonomy/` |
| `Wallet` | ledger, escrows and paymasters | `wallet/`, `depin/gas_router.py` |
| `AgentTools` | the toolbox and its advice over three kinds of rail | `agent_skill/`, `fiat_stripe_settlement.py`, `partner_http_gateway.py` |
| `Verdicts` | verifiers, judges, metering sessions, replay | `verifier.py`, `v1/`, `v3/` |
| `RequestGate` | nonces, admission, service, the shared database connection | `node/app.py`, `node_auth.py`, `store.py`, `blobs.py`, `reputation.py` |
| `MCAgents`, `AgentProofs` | the eight parts from `Composer` on, one per behaviour; theorems about all but the wallet | |
| `MarketScores` | the terminal sink, scores, risk, a device's queue | `marketplace/`, `depin/offline_sync.py` |
| `MarketListings` | listings, commitments, imports, search | `marketplace/` |
| `Stake` | stakes, witnesses, the reputation gate | `v2/stake.py`, `v2/witness.py`, `reputation_gate.py` |
| `RailTerms` | negotiation, quote, binding, use of the rail | `rail_registry.py`, `terms.py`, `settlement.py` |
| `NodeAccounts` | accounts, one-time passwords, sessions, bindings, their file | `node/operators.py`, `operator_persist.py` |
| `NodeDesk` | sweep over several exchanges, tickets, export, RB-04 | `exchange.py`, `node/dispute_tickets.py`, `reconcile.py`, `rb04.py` |
| `NodeStart` | a start from the environment | `config.py`, `hardening/env_validator.py`, `node/app.py` |
| `MCServices`, `ServiceProofs` | the seven parts from `MarketScores` on, one per behaviour; theorems about all of them | |
| `Sums` | the sum of a family of amounts, for the contract and the wallet | |

`PROJECT.json` has the exact files and lines of every definition.

The parts meet in a few places. The engine's `Record` is one step for what
`ReputationLog` splits into its reads and inserts. `Propose` ends where
`ExchangeEngine` begins, with the row of a proposed exchange. `Delegation!Act`
stands for the propose and the escrow that a delegation lets through. `AutoSettle`
uses the lifecycle table with the engine's operations as single steps and the
contract's twin as the chain; so do `SitePatrol`, `SupplyChain` and
`AdopterRuntime` with the exchanges of their legs, and `NodeDesk` with those that
the sweep meets, there split into the copy and the save. `RequestGate` ends where an
operation of `ExchangeEngine` begins.

Some parts share a file. `NodeAccounts` has the proposals of `Propose` where they
rewrite the operators' file (`ConsumePropose`: `consume_propose` dumps and writes all of
it, whoever else is writing). `RequestGate` has the three connections to the engine's
database file: the store's, the reputation log's (`LogRefused`, `LogWritten`) and the
blobs' (`StoreBlob`). `MarketScores` reads the log of `ReputationLog`, imports included.
The other parts have their state to themselves.
`MCRegistries`, `MCAgents` and `MCServices` therefore put several parts into one run:
`part` is chosen at the start, one part moves and the others rest, so that the run
checks each part as it would alone.

### ExchangeEngine

State: `row` is the row in SQLite; `vdc` the table of VDCs and the id that the
row refers to; `holds` the rail's record; `th` the threads, each with the step it
is at, its operation, its private copy of the row and of the VDC, and the version
it read (`_pv`); `passed` the phases whose deadline is over; `ledger` how often
each reputation entry was appended; `node` whether start-up recovery is through.

A request is split where another thread can see or change something:

1. `Contract` ... `Recover`: the read and all checks before the first effect. A
   request that is refused there is no step.
2. `Capture`: the save of the pending intent (`_capture_intent`).
3. `Authorize`, `CallAnswered`, `CallFailed`: the rail. A call may do its work and
   still fail (timeout after the effect); `authorize` may reach the rail several
   times and make a hold each time.
4. `Commit`: the final save. A save first writes the VDC in its own transaction,
   then the row if the version is the one the thread knows (`Fresh`).
5. `Record`: the appends to the reputation log.

`SweepFinds`/`SweepExpires` are the list of `sweep` and the second read of
`expire`. `Crash` ends all threads, possibly between the two transactions of a
save. `Recover` runs alone at start-up and next to other requests from
`/admin/recover`. A delivery brings a VDC with an id that no other has (`Unused`); the code
does not look at the id, and `vdc_upsert` lets a later document replace an earlier one of
the same id.

Abstracted: amounts and terms (the checks on them come before any effect),
signatures (who signed is kept), time (a deadline passes at any moment), the
payload of a delivery, wording, logging and trace. `Entry` counts entries; the
hash chain itself is in `ReputationLog`. An exchange of quantity and price is one; other
exchanges do not touch its row. The in-memory store, which hands out the object
itself and not a copy, is not modelled.

Two exceptions in the promise are deliberate and named in `Lifecycle!Closed`:
an exchange with refunded money may be closed in any terminal state, because the
code reaches SETTLED with refunded money (`FindSettledUnpaid`), and money may move
before a state changes, since the rail is called before the final save.

### The registries beside the engine

These are models of a pool of threads over state that is read, checked and
written in separate steps. What one bytecode-level operation on a dictionary does
is one step; so is a transaction of SQLite.

- `ReputationLog`: `table` is the table by primary key, `th` the jobs of the
  threads: the items still to append and what was read. An append is `ReadLast`,
  `ReadCount`, `Insert` or `InsertFails`, because `append` reads the last entry
  and counts the rows before it inserts, and only the insert is locked. The hash
  of an entry stands for the entry, so `prev` names a number.
- `Propose`: `ReadQuota`, `CountQuota` (the snapshot and the write of
  `consume_propose`), `LookUp`, `Add`, `SetKey` (three transactions). `Midnight`
  begins a new day between any two; `Crash` keeps the counters or loses them,
  since their file is optional.
- `Delegation`: `Validate` is everything that `validate_action` reads, `Charge` the
  write of the sum, `Act` or `ActFails` what the request was for. A propose is charged
  the price of its terms, an escrow the amount in its body (`Asked`), which may be any
  integer and is compared with the price only after it was charged. `credited` is
  history: what such bodies took off the sum. `Restart` empties the registry, which is
  in memory.
- `ClaimRegistry`: `Check` and `Change` are the two halves of each operation, on the
  record as it is at that time; an assignment changes it in three, `ReadGiver`, `AppendEntry`
  and `PassOn`, because it reads the holder, appends to the lineage and writes the holder
  without a lock. `Dump`, `Truncate` and `Write` are `_persist`. Two writers may leave a mixture in the file, and a process
  that finds an unreadable file does not start.

- `Certifications`: a grant reads the list for its number and then enters the record;
  a change of status looks the record up and then marks it; the file is rewritten as
  in `ClaimRegistry`, with the last write and the answer as one step (`WriteList`): a crash between them
  leaves more in the file than was answered, which nothing here forbids. The numbers of the series COMP count on from the greatest,
  those of CERT from the number of records.

Each has the history variable `raced`, TRUE once two threads were at work at the
same time. Properties that need a lock the code does not take say `~raced => ...`:
they show that the missing lock is all that is missing, with crashes, repeated
requests and midnights. Without `~raced` TLC refutes them.

### The chain beside the engine

- `VDCSettlement`: a transaction is a step as long as it runs the contract's code
  only. A payment calls the payee's code: `Pay` closes the record and puts the
  world before it on the stack `calls`; then any function may be called, at any
  depth, until `PayeeReturns` or `PayeeReverts`, which restores that world.
  `moved` is history: what was put in for an exchange and paid to each party. The
  stack is what a re-entrant caller works on, so `Committed`, its bottom, is what
  the chain keeps if everything under way is undone.
- `AutoSettle`: `ex` is the exchange in the engine, `chain` the record of
  `EvmSettlementRail`, `job` the gateway's, `th` where each caller of the
  orchestrator is. Every call of the engine, the backend or the chain is one step,
  so callers, failures and crashes fall between them; `ExchangeEngine` has what
  happens inside a call of the engine. `verdict` is drawn with the delivery:
  `SchemaBackend` are the pairs (gateway, engine) that a backend with the engine's
  verifier gives, `PodBackend` those of `HardwarePodBackend`. `DirectCall` is the
  chain used past the orchestrator, `Resolve` the arbitration, which the
  orchestrator does not pass on. The twin differs from the contract in that a
  disputed record may be settled by `settle_payment` and that the arbitrator may
  dispute; the model has the twin's rules. The record on the chain gets the deadlines that
  the orchestrator read after the escrow (`read`), whatever they have become. A confirm
  that comes too early (`ConfirmEarly`) pays at the rail before the engine looks at the
  state, and then raises.

### The programs of a party, and what they meet at a node

- `Composer` draws what became of a leg from all that `run_fn` can return or raise,
  before and after it had its effect, with or without the exchange in its result; any
  leg may have several parents. The registry of claims is the one in `ClaimRegistry`,
  reduced to one claim a leg. `begun` and `lapse` are history: how often the work of a leg
  was begun, and how a leg settled without `run_all` learning of it.
  `batch` is what a round has still to run, always in the topological order
  (`Foremost`).
- `AdopterRuntime` writes one file or sends one request per step and can end between
  any two; an answer can be lost. `effects` counts how often the request of an item
  changed the exchange.
- `SitePatrol` runs the requests of a leg one by one; each can raise before or after
  it had its effect. `plan` is what the running call still has to do.
- `SupplyChain` takes a leg as one step to any state that `start_leg` can leave it
  in, keyed by the idempotency key of goal and subtask; `mode` is the runner's.
- `Wallet` splits a sponsored operation into its calls: estimate, fee, transfer,
  bump, fall-back.
- `AgentTools` describes a failure by those words of its message that
  `classify_exception` looks for; the agent may obey the advice or not (`obeys`).
- `Verdicts` reads the copy and judges in one step, except for a remote judge, whom
  the request waits for while the exchange moves on. A verdict that passes is one save
  (`StorePass`); a refusal is stored with the intent to refund while the exchange is still
  delivered (`StoreRefusal`), then the rail is called, which may raise (`RefundFails`), and
  then the exchange is rejected (`Reject`). In between another verification, the sweep or
  `recover` may come.
- `RequestGate`: `seen` is what the store's connection sees, `kept` what is
  committed, `locker` the connection whose open transaction locks the file. Admission is
  one step, because the event loop does not wait in it; service is the copy, the
  deliverable and the save. With the store in memory the state of the one shared object
  is compared and then changed (`Compare`, `ChangeShared`).

### The services around the engine

- `MarketScores` splits the end of an exchange into the log, the sink's signals, and
  the invalidation of caches; a reader computes a view in one step and stores it in
  another. A settled trade has an entry of each party, a rejected one the provider's only;
  `ImportEntry` adds one of another node's. A trade that a device started without a network is told to the sink from
  its queue.
- `MarketListings` is the registry with its index. Each call changes the cache first and
  then, as a step of its own (`owes`), the index; an update may bring any status and any
  seller. `Discover` and `Route` are the
  pure functions of the search, checked against "no better offer is left out". A sorted
  list is given by the rank of each of its members, which is a count of those before it.
- `Stake` names a stake by agent and second; each call reads, then writes. An operation
  on the exchange writes back the document that it read, a confirmation the one that the
  client sent (`BeginConfirm`).
- `RailTerms` has the eligible rails, their ranking, quote and binding as operators,
  and restarts that register other rails. The price has a currency, and the settlement
  may name another (`CurrencyOf`). A rail without a gateway keeps its holds in memory and
  starts empty.
- `NodeAccounts` numbers what a call makes; the dump of the accounts, that of the
  sessions, the write and its swallowed error are steps of their own after each change,
  and of each proposal.
- `NodeDesk` has two threads, one of a user and one of the sweep, over several rows
  and the mock rail or a partner's, whose answer may be lost (`Unanswered`). `RecoverDesk`
  is recovery after a restart. A dispute draws the id of its ticket, which another may
  have. Its reports are operators over rows and holds.
- `NodeStart` goes through `create_app_from_config` and the lifespan step by step:
  validation, stores, claims, accounts, and each pending intent at its own rail. The
  process may end at any step, a write may fail or leave its file torn, and the
  environment may change between two starts. A running node has one request at a time
  here; those that overlap are in `NodeAccounts` and `ClaimRegistry`.

## 3. The runs

| run | shows | bounds |
|---|---|---|
| `MCExchange` | the safety properties and the refinement, for all HTTP operations, sweep and recovery | 2 threads, 2 handles, 2 VDCs, `MaxAuth` 2, `MaxVersion` 7, deadlines for verify and confirm |
| `MCRecovery` | the inductive invariant with the in-process `confirm` added, and that recovery completes | 2 threads, 1 handle, 1 VDC, `MaxVersion` 8, fairness |
| `MCRegistries` | proposals, delegations, claims, the reputation log, certificates: what holds under every race, and what holds without overlap or crash | 2 threads; 2 keys, limit 2, 2 days, 3 exchanges, 4 requests; 1 credential, a price of 2 and escrow bodies of 2 and -1 under a limit of 3, 2 periods, 3 grants; 2 claims, 2 agents, 5 requests, 1 crash; 2 closing exchanges, a foreign chain of 2, 2 imports; 2 numbers in each series, 3 calls, 1 restart |
| `MCSettlement` | values paid once and as decided, the balance covers the records, decisions are final | 2 exchanges, 3 accounts, values 0 and 1, 2 nested payments, 2 blocks |
| `MCAutoSettle` | what is payable was verified; the chain follows the engine; both pay the same party | 2 callers, a timeout of 1 or none in each phase, a gateway limit of 1, time up to 4 |
| `MCAgents` | the programs of a party, the gate and the judges | 2 outbox items, 3 queued requests, 1 backup; 3 legs, one optional, every shape of graph, 2 runs; 3 calls of a patrol; 2 subtasks, 2 providers, 2 runs; 1 deal, 2 handles, 3 bumps, 2 sponsored operations; 4 tool calls, 2 attempts; 8 verifiers, 5 rules, 2 clerks, 3 saves, 2 starts; 4 requests, window 1, clock 2, 3 admissions, 1 crash, both stores |
| `MCServices` | the services around the engine | 3 dust trades of 3 agents, one from a device, 1 foreign entry; 2 listings, 2 sellers, 2 offers, at most 2 of them looked at, 2 callers; 1 witness, 2 seconds; 3 amounts, prices in dollars, 3 sets of rails, 1 restart; 2 threads, 1 address, 4 calls, 1 restart; 2 exchanges, 3 holds, 2 operations, 2 ticket ids; 3 starts, 1 stored fact |
| `FindSettledUnpaid`, `FindUnsigned` | an exchange settled with refunded money; a signature lost | up to `MaxVersion` 10 |
| `FindPaidTwice` | a claim redeemed twice | smallest instance |
| `FindRejectedPayable` | a delivery rejected by the engine and payable on the chain | 1 caller, the hardware backend |
| `FindUnbootable` | a validated environment in which the node does not start | 3 starts |

What the safety properties of the engine say: `MoneyIsJournalled` (moved money is
the money of the row's escrow and has a receipt or an intent to replay),
`ReceiptIsTruthful` (a saved receipt is what the rail did), `ClosedIsAccounted` (a
closed exchange leaves nothing to recovery and no escrow without a receipt),
`LedgerIsJustified` (no entry without its outcome, none twice), `DeliveryIsStored`
(the row refers to a stored VDC from delivery on), `NothingIsLost` (an action
property: no save undoes another's), `ImplementsLifecycle` (refinement of
`Lifecycle`).

What the other invariants say, beside the registries' and the chain's that carry
their meaning in their names:

- `ProposalsAreSound`: an answer names a stored exchange; a key has one exchange and a
  day no more than its quota without overlap and crash; a charge is never lost twice.
- `LimitIsKept`, `RevokedLetsNothingBegin`: what a delegation lets through stays within
  its limit, but for what bodies with amounts below zero gave back to it, and it is
  charged for no more than that; a revoked or expired one lets nothing begin.
- `ClaimsAreSound`: under every race and crash, nobody gives a claim away who never held
  it; without overlap the lineage leads to the holder, also when the file is read again,
  a claim is paid once and what callers were told survives.
- `EntriesLeadBack`, `EntriesStandOnce`, `VerifiesWhenSerial`, `AppendOnly`: the log
  has no gap, whatever races; an exchange's entries stand in their order and an import
  that was cut short and sent again adds nothing twice; the chain verifies when
  appends do not overlap.
- `CertificatesStand`: a number that no steward asked for in the series CERT is given
  once; a status that was answered stays, without overlap.
- `OutboxIsHonest`: a queued request takes effect at most once and is done only if it
  did; the vault holds no document the node never had.
- `ComposerIsSound`: a leg begins after all those it depends on settled, and its work
  begins once however often its leg is run again; its claim is spent only if it settled,
  and not spent then only if its run raised after it had settled.
- `PatrolIsBacked`, `SupplyChainIsSound`: legs run after those they depend on, over all
  retries each is paid once, and a goal that is declared reached has all its legs settled.
- `WalletIsSound`: the ledger is conserved, escrows are backed, a fee is charged once.
- `ToolsAreSound`: an answer of success is true; every hold is known to the agent or
  was a lost answer; a conflict is not advised to be repeated; an agent that obeys
  meets no conflict, except at Stripe (below).
- `VerdictsAreSound`: the state of an exchange and the verdict in its row agree, whoever
  asks and whatever moves in between, and a refusal is never in the row without the
  intent to refund; a third party that has only the schema finds the same when only the schema
  judged; the meter refutes what it remembers; a panel decides as its votes fall.
- `GateIsSound`: one copy of a signed request is admitted in a window, also across a
  crash; what was admitted is committed; what acts is of a party, and in a database it
  acts once and is not written over; the file is locked only after a refused nonce, a
  lost save or a refused entry of the log, each of which leaves a transaction open.
- `ScoresAreHonest`: a cached view is that of the log and the signals, save for the four
  excuses named in `excused`: an imported entry, a cluster made by the trades of others, a
  slow reader, and a trade the sink had been told of before; a penalty comes from an
  agent's own trades.
- `ListingsAreSound`: the index commits to what the cache holds, once the calls of an id
  do not overlap; an answer is ranked, allowed, and leaves out no better offer of those
  found.
- `StakeIsSound`: an ended stake stays ended unless the release began before; an
  attached witness stays unless a save overlapped or a confirmation left it out; stakes
  lift a score by the cap.
- `RailsAgree`: the bound rail is one the terms allow and the quote promised, it takes the
  money of the price unless the settlement names another currency, and money is on no
  other rail and never in two places.
- `AccountsAreSound`: without overlap, accounts and sessions belong to who proved the
  address, and what was answered survives the process if no write failed.
- `DeskIsSound`: the export and the RB-04 scan miss no money and no interrupted
  settlement, of a partner's rail none with a receipt or an intent; a sweep that returned
  closed all it found overdue; a dispute has its ticket unless another drew its id.
- `StartIsSound`: what was answered under a path, and not kept from its file by a failed
  write, is there in every later run with that path; a node that serves has the rail of
  every pending intent; strict production has every account it answered for on disk,
  unless its write failed.

Why the bounds are enough. For the engine: the shortest complete history ends at
version 7 (two acknowledgements, escrow, delivery, verification, intent,
settlement), one with a dispute at 8; an operation may start at version 6 and so
reach 8. Every race the code has is between two copies of the row, so two threads
show it; a third thread would hold a third copy that conflicts in the same way,
and the proofs cover any number. Two handles give one that the row keeps and one
that is orphaned; two VDCs a delivery and one whose save failed. Larger instances
(`MaxVersion` 11, three handles) were checked for the part without VDCs.
`MaxVersion` also bounds how often a failing recovery is noted in the row.
Threads, handles and VDCs are symmetric in the runs without liveness.

For the registries: two threads, because a lost update needs two; two keys,
claims or exchanges, so that an operation on one can meet one on another; two days
or periods, so that a request is checked in one and charged in the other; one
crash, after which the system goes on from its file; limits that the enumerated
requests exceed. An escrow body of -1 makes room for a second escrow of 2 below a limit
of 3, so three grants show what it is for. Where `CHECK_DEADLOCK FALSE` stands the bounds end the behaviour.

For the agents: three legs make every shape of dependency (chain, fork, join) with one
of them optional; two runs or calls are the first that can repeat a leg, three calls
of a patrol the first that go on after a repeated one; two outbox items show the
order; a fee and one bump are the first that can be charged twice. For verdicts, two
clerks race for one delivery and a second start forgets its meters; three saves let a
second refusal follow one whose refund failed. A nonce is seen
again inside the window at clock 1 and after it at 2. For the services: three agents
are the smallest cluster and three trades its edges; two offers can be ranked, one
of them without a commitment; two callers overlap at one listing, and while two are known
one is at work, for listings meet in a search only (`MaxBusy`). A registration, its
confirmation, a login and a binding are four calls, and so are a registration, its
confirmation and a proposal that writes beside the next. Two exchanges give the sweep one
that fails and one behind it, and two ticket ids let both draw the same, as two of the
65536 of a day may. A start tells one fact from none, whatever file it is in: one fact,
and three starts, a first one, one with another environment, and one with the first
again. The environment has a switch on only where it makes a difference. `RailTerms` has
prices in dollars, with a settlement in each currency or none. Both runs take the parts
one at a time, so their bounds are independent.

For the chain: two nested payments are the first that can be undone in part, two
exchanges share the balance, and the arbitrator may be a party. Three ticks take an
exchange through all its deadlines, the last of them past the one on the chain; two
callers make the race of a verification with the sweep.

`MoneyAgrees` says what both sides have paid, not what is open. The code leaves
these differences, which are in the model: an exchange that is refunded because no
confirmation came has a record that stays FULFILLED and can be settled directly; a
rejected one stays FUNDED on the chain until its deadline; an arbitration reaches
only the engine; a delivery in time can be refunded on the chain while the engine
waits for its verification, because the record is FUNDED until then.

Fairness (`MCRecovery`): a thread that is running goes on (the server's pool runs
it to its end; the HTTP client has a timeout and so every call ends), and a
starting node runs its recovery (`lifespan`). No request needs to come, and no
rail needs to work: a failing rail is noted and the node serves all the same. The
property assumes that crashes cease, and that the start-up does not fail with an
exception other than `SettlementError`, which would end the process too.

### Where the code and its documents disagree

`PROJECT.json` quotes the statement that each of the five `Find*` runs refutes.
Further disagreements were met while modelling. For those of the engine the
property is in `ExchangeSafety`; put it in a copy of `FindSettledUnpaid.cfg` with
the constants named here and TLC prints the behaviour.

| property | constants | what happens |
|---|---|---|
| `RefundReleasesHolds` | 2 threads | `escrow` freezes money before it looks at the state (`exchange.py:294`); a hold on a closed exchange stays frozen. NP-SM-03 of `spec/CORE.md` |
| `SettledIsRecorded` | | a crash after the final save and before the ledger's appends (`exchange.py:401`) leaves a settled exchange without entries |
| `RecoveredIsClosed` | | `recover` replays the refund of a disputed exchange and cannot close it (`exchange.py:588`) |
| `RejectedVerdictRejects` | | a rejected delivery whose refund `recover` completes ends as EXPIRED_REFUNDED (`exchange.py:584`) |
| `SweepTakesOnlyOverdue` | 2 threads, `HttpOps`, `VerifyAndConfirm` | a verification commits between the sweep's list and `expire` (`exchange.py:605`) |
| `UnverifiedIsUnpaid` | `EveryOp` | the in-process confirm pays and then meets the illegal transition (`exchange.py:455`) |
| `RefundedIsNotDualSigned` | 2 threads, `RequestOps`, `MaxVersion` 10 | a confirmation stores its VDC as SETTLED with both signatures before the rail is called (`exchange.py:396`); the refund that may follow leaves it, and `GET /vdc` serves what `vdc.py:171` calls a valid terminal delivery |

Two more are refuted on small instances of the registries: `ChainVerifies` of
`ReputationLog` (with the part "log" of `MCRegistries`; a thread reads the last entry before and the
count after another's insert, `reputation.py:105`, and the chain never verifies
again) and `RevokedForGood` of `Delegation` (with the part "delegation"; the revoked ids
are in memory, `delegate.py:42`, so after a restart the credential is registered
again, against NP-DLG-01 of `profiles/NP-DELEGATE.md`).

In the registries, dropping the premise from a property shows: `QuotaIsKept`,
`consume_propose` is not the "原子检查并 +1" of its docstring
(`node/operators.py:183`); `OneExchangePerKey`, a crash or a race between the two
inserts makes a second exchange for a key (`exchange.py:257`); `LimitIsKept`, two
requests lose one amount of the sum (`delegate.py:142`), and without `credited`, an
escrow body below zero lowers the sum before the engine refuses it (`node/app.py:107`);
`LineageLeadsToHolder`, two assignments of one claim are both entered, the second under a
holder that did not sign it or beside the first, and the lineage ends elsewhere than at
the holder (`node/claim_registry.py:112`); `ToldIsKept`, two threads write the file in the
other order (`node/claim_registry.py:204`). Seen in the model and not stated as
properties: a delegation is charged for the propose and again for the escrow of
one exchange, and for actions that fail; an assignment can be used again when the
claim is back at its giver, because nonces are not remembered; a crash inside
`write_text` leaves a file that keeps the node from starting.

In the parties' programs and the services the models have these behaviours, which
the properties exclude by a named premise or leave open:

- Certificates: a number that a steward asked for in the series CERT is given again,
  and its record replaced, because that series counts records
  (`node/certifications.py:78`); a number granted again revives a revoked certificate.
- Outbox and patrol: an answer lost after SETTLED leaves a leg that can never be
  recorded; `run_all` cannot be repeated once its first leg settled; a charge whose
  confirm is offline vaults a document that is not settled.
- Composer: an optional leg that fails is run again for ever; a run or a capture that
  raises leaves the claim released and the leg failed although its exchange settled
  (`composer.py:101`); a result without an exchange is not noted, and its leg stays ready.
- Supply chain: each bid is within the budget, their sum need not be;
  `_to_bundle_view` (`autonomy/orchestrator.py:201`) writes exchange ids where
  `validate_bundle` expects those of subtasks.
- Wallet: the fee is kept when the transfer raises (`wallet/manager.py:251`); a second
  escrow of an exchange is not backed.
- Agent tools: Stripe refuses a repeated capture or cancel, so a lost answer followed
  by a replay (also `recover`'s) fails although the money moved, against
  `settlement.py:79`; a conflict there is advised as "adjust and retry"; the
  exhaustion of gas, read again as text, is advised as "retry the same"; repeating a
  timed-out escrow as advised makes a second hold.
- Verdicts: a refusal whose refund failed stays in the row of a delivered exchange; another
  verification may let the delivery pass with the intent to refund still pending, and then
  recovery refunds it. `reverify` replays the schema only, so an honest rejection by a physical
  check or a judge is reported as a mismatch; the stub judge passes a rule without a
  rubric; a remote judge's "passed" is taken by truthiness; sessions a restart forgot
  refute nothing; the resource type that is checked is the rule's.
- Gate: a request refused for its nonce, a save refused for its version or an entry
  refused for its number (`reputation.py:50`) leaves the connection inside a write
  transaction; until its next commit a delivery cannot write its document
  (`store.py:257`, `blobs.py:60`), and after the log's, no request can write at all; a nonce is spent even if the request then
  fails.
- Scores: nothing drops the view of an agent whose entries are imported
  (`reputation.py:201`); the sink drops the views of the two parties only, so a third
  member of a cluster keeps its old one, and a slow reader stores what is stale; a leg told from a
  device's queue counts as settled for nothing, and the real end is then overlooked.
- Listings: two registrations of one id may leave cache and index apart; an update with
  the status "revoked" publishes a commitment (`marketplace/registry.py:89`).
- Search: the list is cut before it is ranked (`marketplace/registry.py`), and the
  router subtracts a penalty that the reputation already holds.
- Stakes: ids have a resolution of a second; `slash` ignores the status and makes
  unknown stakes; a witness attached while another save runs is dropped, and so is every
  witness that the document of a confirmation does not have (`exchange.py:385`).
- Rails: the currency of the settlement comes before that of the price
  (`rail_registry.py:520`) while escrow freezes money in that of the price, so the bound
  rail may be one that does not declare the money it holds; a stub rail forgets its holds
  at a restart.
- Accounts: one-time passwords and bindings are not in the file, save errors are
  swallowed, and the file takes accounts and sessions at different moments, with every
  proposal too; `verify_email` racing itself raises after it verified.
- Desk: an exchange whose expiry raises ends the sweep for those behind it; a crash
  between the save of a dispute and its ticket leaves no ticket; two disputes of a day may
  draw one id, and the second takes the ticket of the first (`dispute_tickets.py:15`); the
  export covers the holds of the active rail only, and a partner's without a receipt not
  at all.
- Start: a pending intent whose rail is not registered any more ends the start; `NOVAPANDA_AUTH=no` switches authentication off while the validator flags only
  0, false and off; a missing `NOVAPANDA_DB` in production is a warning; without a
  database claims are in memory though NP-CLAIM-XFER is announced; seeds are read once.

## 4. The proofs

Every theorem holds for all values of the constants that satisfy the named
assumption of its module; TLC evaluates those assumptions in the runs. Each proof has
the same shape: an inductive invariant (which TLC checked on a run before it was
proved), one lemma per action or kind of action, and a last step that combines them.

| module | theorem | what holds |
|---|---|---|
| `ExchangeProofs` | `EngineIsSound` | `TypeOK /\ EngineInv`, the inductive invariant |
| | `TypeIsCorrect`, `MoneyIsAlwaysJournalled`, `ReceiptsAreTruthful`, `ClosedExchangesAreAccounted` | invariants of the runs |
| | `NothingIsEverLost` | the action property `NothingIsLost` |
| `LifecycleProofs` | `SavesFollowTheTable`, `PaymentsAreVerified` | `PathInv`, `PaymentInv` |
| | `DeliveriesAreStored`, `LedgerIsAlwaysJustified` | `DeliveryIsStored`, `LedgerIsJustified` |
| | `EngineImplementsLifecycle` | the refinement `ImplementsLifecycle` |
| `AutoSettleProofs` | `TypesAreKept`, `OperationsKnow`, `CalmOperationsFit` | `TypeOK`, `AutoInv`, `CalmInv` |
| | `PayableIsVerified`, `ChainFollows`, `MoneyAlwaysAgrees` | `ProofIsBacked`, `OrchestratorFollows`, `MoneyAgrees` |
| `ReputationProofs` | `ChainIsSound` | `ChainInv` |
| | `EntriesAlwaysLeadBack`, `LogIsAppendOnly`, `SerialChainVerifies`, `EntriesAlwaysStandOnce` | all properties of the log |
| `RegistryProofs` | `ProposeIsSound`, `DelegationBooksAreSound`, `ClaimRegistryIsSound`, `CertificationsAreSound` | the inductive invariants |
| | `ProposalsStaySound`, `LimitIsAlwaysKept`, `RevokedBeginsNothing`, `ClaimsStaySound`, `CertificatesAlwaysStand` | all properties of the four registries |
| `SettlementProofs` | `ContractIsSound`, `ContractIsSolvent` | `SettlementInv`, `SolvencyInv` |
| | `ValueIsPaidOnce`, `DecisionsAreFinal`, `AlwaysSolvent`, `DebtsAreHeld` | all properties of the contract, and that no payment fails for want of money |
| | `WalletAlwaysSound` | `WalletIsSound` |
| `AgentProofs` | `GateAlwaysSound`, `SupplyChainAlwaysSound`, `OutboxAlwaysHonest`, `ComposerAlwaysSound` | `GateIsSound`, `SupplyChainIsSound`, `OutboxIsHonest`, `ComposerIsSound` |
| | `VerdictsAlwaysSound`, `ToolsAlwaysSound`, `PatrolAlwaysBacked` | `VerdictsAreSound`, `ToolsAreSound`, `PatrolIsBacked` |
| `ServiceProofs` | `StakesAlwaysSound`, `RailsAlwaysAgree`, `StartAlwaysSound`, `DeskAlwaysSound` | `StakeIsSound`, `RailsAgree`, `StartIsSound`, `DeskIsSound` |
| | `AccountsAlwaysSound`, `ListingsAlwaysSound`, `ScoresAlwaysHonest` | `AccountsAreSound`, `ListingsAreSound`, `ScoresAreHonest` |

Three theorems have a hypothesis beyond those assumptions.
`PaymentsAreVerified` and `EngineImplementsLifecycle` assume
`"confirm_local" \notin Ops`: no HTTP endpoint offers the in-process confirm, and with
it `UnverifiedIsUnpaid` is false (section 3). The theorems about `AutoSettle` assume that
the backend passes nothing the engine rejects (`SameVerdict`; without it
`FindRejectedPayable`), and for `MoneyAgrees` that both judge alike (`JudgeAlike`). The
lemma `SchemaJudgesAlike` shows the latter for every backend with the engine's own
verifier; `HardwarePodBackend` is none, and under it `MoneyAgrees` is false.

### The engine

`MoneyIsJournalled` speaks of the database, but a thread writes
back a copy it read long before; so the invariant must speak of copies.
`RowOK(r, holds)` says that a row agrees with itself and with the rail (an intent
is about the row's handle, a receipt is what the rail did, a terminal row leaves
nothing open) and is kept for the row and for every copy. `Keeps(e, r)` says that
copy `e` has everything achieved in `r`. `TaskOK` then says: a thread whose
version is still the row's has a copy that keeps the row (so its save loses
nothing), versions only grow (so after a save all other copies are stale), and a
thread that calls the rail has its intent in the row or in what replaced it.
Every step either changes one thread and perhaps the holds (`LocalStep`) or saves
a thread's copy (`SaveStep`); the two lemmas carry all actions. Receipts survive
other calls because a hold moves once (`RowOKStable`).

The refinement needs more about copies: which states a copy at each step can have.
`PathInv` says that a save which the optimistic lock still accepts follows the
transition table (`Follows`), and that row and copies have the hold and the VDC that
their state calls for; `LedgerInv`, that only the thread whose save closed the exchange
has entries to append, and the row is in their state; `PaymentInv`, that money is paid
or meant to be paid only for a row that is verified, disputed or closed, whatever others
saved. With these, a save is a step of `Lifecycle` when it changes the state or the
money, and every other step a stutter (`PromisedStep`).

### The registries

- The log. A racing thread may hold an old last entry, but it counted the rows
  after it read that entry and inserts under that count or not at all; so what it
  saw is always older than its number (`TaskOK`), the insert that the primary key
  accepts has exactly the next number, and its `prev` is smaller. That is
  `ChainInv`, which `InsertStep` and `QuietStep` keep. `LoneInv` adds that what a
  thread read is still the newest; a step keeps it if no other thread is at work
  before and after, which is what `~raced` says. For the items, `RecordInv` says that
  an exchange is recorded by one thread, whose job has what is not yet in the table;
  `MirrorInv`, that a lone import knows every mirror.
- `Propose`: `ProposeInv` bounds each counter by what was admitted, whatever races; a
  thread that is alone (`ProposeAlone`) has read what is still so.
- `Delegation`: the sums of a period cover what was granted, except for what a thread is
  about to charge (`ChargeIsCovered`, `BooksAgree`).
- `ClaimRegistry`: `LineageInv` holds under every race, in memory, in the file and in
  what a thread is about to write; `ClaimAlone` says for a lone thread what memory, file
  and answers have to do with each other at each of its steps.
- `Certifications`: as for claims (`StandInv`); in addition the numbers of the series
  CERT have no gap, so that counting finds the next (`FreshInv`), until a steward asks
  for one of them. For the series COMP, that a non-empty set of numbers has a greatest
  is the lemma `Greatest`.

### The contract, the orchestrator and the wallet

`PaidOnceAsDecided` speaks of the present world only, and a payee that
fails brings an old one back; so `SettlementInv` accounts for every world on the
stack too, and says that a record final in a world is the same in all later ones
(`Kept`, which is transitive). `Pay` closes the record before the payee's code runs,
hence the world it leaves behind is older and the new one accounted for; returning
and reverting only shorten the stack.

`Solvent` compares the balance with a sum over all exchanges. A fold would need an
induction, which is out of the prover's reach, so `Sums` counts a sum unit by unit, as
the cardinality of the pairs of an exchange and a unit of its value. That a change of
one value changes the sum by as much (`TotalChanges`) then follows from the
cardinality of disjoint unions. `SolvencyInv` says it for every world on the stack.
`DebtsAreHeld` follows: a single record is never above the balance. The wallet's
ledger is the same kind of sum: each movement takes and gives one amount
(`MoneyMoves`), and `WalletInv` says how often an operation was charged where it stands
and that each held deal has money of its own.

Between its calls an operation of the orchestrator relies on what it did before: a caller
that is about to pay on the chain has seen the engine settle, one about to refund
has seen it expire, one about to anchor has a passed verdict. `Knows` says so of
each step; others cannot make it false, because a closed exchange stays closed and
the verdict is fixed with the delivery (`OthersKnow`). `MoneyAgrees` needs the converse
too: while nothing failed and no one interfered (`calm`), the step at which the one
operation under way stands determines what engine and chain hold (`Fits`), and with
no operation under way they have paid alike (`Standing`).

### The agents and the services

- `RequestGate`: `GateInv` numbers the admissions, and says that a nonce of the window
  is among those that the next request is compared with and, with SQLite, survives a
  crash (`Memory`), and that an admission has one job. The window is any number.
- `SupplyChain`: `PaidAsSettled` ties each payment to the state of its leg, whatever the
  run, so a leg that is run again finds its exchange.
- `AdopterRuntime`: a request that took effect lies behind the exchange, whose
  state never returns to where the request is possible (`Past`); so a replay cannot
  act twice. `TaskKept` says what the files have at each step of a flush.
- `Composer`: what is noted as settled did settle (`NotedIsTrue`), and what a round has
  still to run has only settled parents and is not settled itself (`BatchMayRun`). It
  needs no fact about the order of the legs: a round's legs never depend on each other.
- `Verdicts`: a verdict that is stored, or that an operation under way may still store, is
  one about the delivery as it is (`Stands`): its verifier is the contract's, its panel
  had its majority, and the meters that the node remembers cannot come to refute what
  passed, because no session is reopened with another reading.
- `AgentTools`: of each hold the invariant says whether the agent was told of its move or
  is still owed the answer (`Obedience`, `Pending`); so an agent that follows the advice
  never asks for the other direction, and a text that reports a conflict is escalated.
- `SitePatrol`: the step of the leg in work tells what the exchange and the vaults have
  (`WorkIsBacked`). Money is frozen only on the way from CONTRACTED to ESCROWED, which no
  exchange goes twice (`FrozenOnTheWay`). A finished goal is made of outcomes, so the
  proof needs no fact about the tour's order.
- `Stake`: a release that begins after an end was answered sees it; a copy of the
  document has every witness answered before it was read.
- `RailTerms`: a quote is honoured because quote and contract negotiate alike when the
  terms state the class of their amount or none (`NegotiateAlike`, `QuotesAreHonoured`); an
  eligible rail suits (`EligibleSuits`), and the ranking has a best one (`BestExists`,
  from the lemma `Least` about numbers). `RailsInv`
  carries it from the contract to the money, across restarts under other rails.
- `NodeStart`: a node writes only a file that it loaded, so nothing told is overwritten
  by an empty memory (`FilesHold`, `LoadedIsKept`); a strict start that came
  past the validator found it clean (`StrictIsClean`).
- `NodeDesk`: rows and copies agree with the rail (`Truthful`); money that moved is the
  hold of a row with the intent or the receipt (`Noted`); a copy whose save would still be
  accepted is the row, but for the money its operation moved (`Underway`). What the
  sweep found overdue is closed, being closed or on its list (`SweepInv`). That a row
  keeps its intent from `_capture_intent` to the rail's answer whatever others save
  (`Journalled` in `Underway`) is what the proof of `Move` needs of the version check.
- `NodeAccounts`: for calls that do not overlap the invariant says what the one call
  under way has read (`Registered`, `SeenAndDone`), and that memory and file differ only
  in what that call is about to write (`AnswersSurvive`). That the numbers of calls are
  never reused is what ties an answer to the state it was given in.
- `MarketListings`: that cache and index agree is inductive with the types alone. What a
  search answers is a fact about any typed state: the ranks of the offers that may be
  answered are the numbers from 1 on, each once (`RanksAreNumbers`), so an answer that is
  cut is cut behind its best (`BestIsAnswered`).
- `MarketScores`: a view depends on the log, the volumes, the legs told of and the signals
  of its agent only (`SameView`), so a step that touches other agents leaves it
  (`ViewStays`). What has ended is with the sink until the views of its parties are
  dropped (`EndsAreSeen`). The risk store and the graph know settled trades
  (`SignalsFollow`), and a member of a cluster is a party of one of the dust trades it is
  made of (`ClustersAreEdged`); so a penalty has a trade of one's own behind it, which a
  log that only grows keeps (`EarnedStays`).

### Only model-checked

- `RecoveryIsCompleted`: liveness under fairness is out of the prover's reach, and
  so is ENABLED. The theorems of safety hold without fairness.
- That `TopologicalOrder` returns an order: it is a recursive function, and only
  the run checks it.
- What the `Find*` runs refute, and the further disagreements of section 3.

## 5. Plan

All components that keep a state over time are modelled, most of them with every
operation; section 6 and the notes of `PROJECT.json` say what is left out. All safety
properties of the passing runs are theorems. Left are liveness and what the `Find*` runs
refute, both TLC's, and a proof about `TopologicalOrder` for an order that is given
without recursion.

## 6. Not modelled

- Consoles, dashboards, command line, demonstrations, the TypeScript client, the other
  endpoints: they render or translate, and what they call is modelled.
- Bytes: canonical form, hashes, signatures, key histories, DID documents, manifests,
  the wire formats of partners and chains. Models keep who signed what and which
  document is meant; that two documents with one hash are equal is assumed.
- `aggregate_reputation_bundles` and physical bids: formulas over what they are given,
  without state.
- The in-memory exchange store hands out the object itself, so threads share it; only
  `RequestGate` has it. Everything else is about SQLite, the store of production.
- Administration that empties registries (`clear`, baseline reset), rotation of
  keys, and the filters and layouts of reports.
- Real time: a deadline is over or it is not; seconds are counted only where a name or
  a window is made of them.
