# Holdfast protocol: a TLA+ verification project

Holdfast lets two software agents make a *pact*: the initiator puts a payment (and
possibly a stake) into an escrow, the beneficiary may stake too, an arbiter they
both accept settles disputes, and every pact that ends leaves its mark on both
agents' on-chain reputations. Around the two Solana programs run an oracle, an
indexer, a keeper, an alert bot, an SDK with a plugin and a wizard, and the
operators' scripts. This directory holds TLA+ models of all of these, the TLC
configurations that check them on small instances, and TLAPS proofs of most of the
safety properties for every value of the constants. `PROJECT.json` lists runs,
mutants, the map from definitions to source lines, findings, hazards and theorems.

Paths below are relative to `src/`; `E` is `holdfast/programs/vaultpact-escrow/src`,
`V` is `holdfast/programs/vaultpact/src/lib.rs`.

## 1. Inventory

| Component | Where | State it keeps | Operations | Modelled by |
|---|---|---|---|---|
| Escrow program | `E` | EscrowAccount + PactRecord, DisputeRecord, vault token account, each a PDA of the escrow id | 15 instructions (`E/lib.rs:84`) | `Escrow` |
| Reputation program | `V` | ReputationAccount: score, counters, decay cursor, nonce, 20-entry history | init, update, validate | `ReputationAccount`, `ReputationHistory`, `Oracle` |
| Agent registry | `V` | AgentWallet per secp256r1 key, AttestationRegistry (protocol and oracle authority, layout) | register, set status, rotate key, deregister, close, set authorities, migrate | `AgentRegistry` |
| Oracle | `holdfast/oracle/src` | in-memory pending queue, log subscription, calls under way | watch disputes, two updates per verdict, retry | `Oracle` |
| Oracle's ATOM bridge | `holdfast/oracle/src/agent-registry` | a sequence counter in memory | trust signals on a timer, validation responses | `TrustSignals` (signals only) |
| Indexer | `holdfast/indexer/src` | SQLite tables of events, websocket and back-fill calls under way | ingestion by two paths, paged queries | `Indexer`, `EventStore` |
| Keeper | `holdfast/keeper/src` | a candidate list per poll | list, crank `auto_release` | `Keeper` |
| Alert bot | `holdfast/alert-bot/src` | state per alert category, ticks under way | poll, route with cooldown, post | `AlertBot` |
| SDK, ElizaOS plugin, create-pact wizard | `holdfast/sdk/src`, `holdfast/eliza-plugin/src`, `app/dashboard/create-pact` | calls under way | one method per instruction, pre-reads, retry | `SdkCalls` |
| Operator scripts | `holdfast/scripts` | what a run first read | rotate, transfer, migrate, register, and tests of these | `OperatorScripts` |
| Other pages, orchestration helpers, harnesses | `app`, `lib`, `holdfast/fuzz`, ... | none that the protocol depends on | | section 7 |

**How they interact.** The escrow program calls the reputation program by CPI: the
gate (`validate_reputation_for_pact`) when an escrow is created, staked and locked,
and two `update_reputation` calls in every settlement. It reads AgentWallet
statuses as accounts. A Solana transaction is atomic, so instructions interleave as
wholes, but their *order* is open: parties, the arbiter, the protocol authority,
keepers and anyone at all (`auto_release` and `refund` are permissionless) act on
the same accounts, and two escrows of the same agents share reputations, wallets
and token balances. Off chain, every component reads an account, decides, sends and
waits while all others do the same: the oracle competes with the escrow program for
an account's nonce, the indexer follows program logs over a lossy websocket and a
back-fill, the keeper acts on a list that is stale by the time it acts, the SDK
resends a transaction that may yet land, and two operators' scripts rotate the same
authority.

**What is hard.** Which of several enabled settlements lands first; deadlines
compared with `<`, `>` and `>=` against windows that another instruction set;
payout rules that trust a flag checked by an earlier instruction; the dispute
record, whose lifetime is not the escrow's; wallets that are frozen, blacklisted,
closed or re-registered half way; u64 arithmetic in splits; tokens sent to a vault
from outside; and, off chain, overlapping timers, retries of what was already done,
crashes between two steps, and data read at another time than the event it belongs
to. `PROJECT.json` lists each at its line under "hazards", with the properties that
cover it or the reason none does.

**What makes it correct.**
*Escrow*: a vault holds what the parties are owed; a settlement happens once, pays
it all out, to the parties and, on a claim, the fee; the windows and grace periods
are respected; a locked pact is settled in the end; both reputations record it once.
*Reputation*: nonces are consumed in order, the history holds the last 20 updates.
*Registry*: the agent count is right, a verdict on a wallet survives its owner's
instructions, the oracle authority changes only by a rotation.
*Oracle*: each verdict reaches each of its two agents at most once, and a dispute
that is not finished stays in the queue.
*Indexer*: every confirmed event is stored once, about the right account, with data
that is not older than the event; recent events are stored in the end; pages are complete.
*Clients*: a retried call takes effect at most once, says "ok" only when it did,
and returns; with a keeper that can crank, an expired pact does not stay locked (the
repository's cannot: section 6).
*Alert bot*: no repetition within the cooldown, no recovery without a failure, no
silence while a failure lasts.
*Scripts*: a test that passes leaves no ephemeral key of its own behind.

## 2. Modules

| Module | What it is |
|---|---|
| `ReputationAccount` | Pure operators: decay (`apply_decay`, the table of 0.99^n, division that truncates towards zero), `update_reputation`, the gate |
| `ReputationHistory` | The ring of the last updates, and the arithmetic of its three readers (websocket handler, back-fill, SDK) |
| `Escrow` | The escrow program: one action per instruction, and the surroundings it depends on (clock, wallet status changes, reputation accounts being created, tokens sent to a vault) |
| `EscrowPromise`, `EscrowRefinement` | The abstract specification of what two parties may rely on, and the mapping under which `Escrow` implements it |
| `EscrowClaims` | A statement of the SDK that the escrow program does not keep (section 6) |
| `Oracle` | The daemon (handlers, queue, retries, crash) against the accounts it writes, the escrow program's own updates and rotations of the authority |
| `TrustSignals` | The timer that numbers and submits ATOM trust signals |
| `EventStore` | The indexer's table: insert-or-ignore with its unique keys, pages, cursors |
| `Indexer` | Both subscribers over `EventStore` and `ReputationHistory`: websocket handlers, overlapping back-fills, crash and restart |
| `EventIndex`, `IndexerProperties` | The abstract index (a growing subset of committed events); the properties, and the mapping under which `Indexer` implements it |
| `AlertBot` | Pollers on timers, the router, the webhook |
| `SdkCalls` | EXTENDS `Escrow`: SDK calls as processes of pre-read, send, confirm and retry; the plugin's `withRetry`; the wizard |
| `Keeper` | EXTENDS `Escrow`: the poll cycle |
| `Clients` | `Escrow` composed with `SdkCalls` and `Keeper`, with the fairness of all three |
| `AgentRegistry` | The registry's instructions and wallets |
| `OperatorScripts` | EXTENDS `AgentRegistry`: seven kinds of script runs as processes, with failures between any two steps |
| `MCEscrow`, `MCOracle`, `MCIndexer`, `MCClients`, `MCOperators` | Instances for TLC |
| `EscrowProofs`, `DisputeProofs`, `PromiseProofs`, `OracleProofs`, `AlertProofs`, `IndexerProofs`, `RegistryProofs`, `ClientsProofs` | Theorems and proofs |

### How `Escrow` corresponds to the code

* `escrow[e]` is EscrowAccount and PactRecord together (created and closed by the
  same instructions); `terms` holds the parameters of `initialize_escrow`. A status
  `Absent` is the account that does not exist; the program's own `Closed` is never
  written. Timestamps no instruction reads are left out, and so are evidence, URIs,
  hashes, bumps, mints and the identity of token accounts.
* `dispute[e]` is the DisputeRecord. `created_at = 0` is no record, the test
  `protocol_freeze_pact` itself uses on a zeroed account. It is a variable of its own because
  `close_escrow` may or may not delete it.
* `vault`, `tok` are token balances; `stray` is a ghost: what was sent to the vault
  by a plain token transfer.
* `wallet[w]` is AgentWallet.status. An instruction accepts *a* wallet whose
  authority is the party, so the guards say "there is such a wallet with ...".
* `rep[a]` is the part of ReputationAccount that the escrow program can see.
* Each instruction is one action, the whole handler: guards in the code's order of
  conditions, the account constraints (`has_one`, `init`, `Option`), transfers that
  fail and abort when the vault is short, and both reputation CPIs. `Refund`,
  `AutoRelease`, `MutualCancelEscrow` and `ClaimReleased` pay the beneficiary's
  stake without looking at `beneficiary_staked`, as the code does.
* Arithmetic: `u64` overflow is a guard wherever the code has a checked operation
  (`FitsU64`), with `U64_MAX` a constant; the claim fee is computed in `u128` and
  has none.
* Nonces: the escrow program reads the nonce in the same transaction in which it
  uses it, so the reputation program's check always passes here. It does not for the
  oracle: see `Oracle`.

### How the other modules correspond to the code

* **A process is a record with a place.** Off-chain code is cut at its awaits: a
  handler, job, tick, call or script run is a record that names the request it waits
  for and what it has read so far, and each action is the code between two awaits.
  A request that can fail has an action for each way it does. Where a timer or a
  subscription starts a call without waiting for the last one, there are several records.
* `Oracle`: `handlers[d]` is the call of `index.ts:36-53` for dispute `d`; `txs` is the
  set of transactions sent, every retry a new one (fresh blockhash, same nonce, `voter.ts:55`
  before the retry loop), each executed at most once and at any later time. `written[a]`
  is the account: who wrote nonce i. `ListsRegistry` is a constant because the voter's
  instruction lacks an account (section 6): `FALSE` is the code, `TRUE` the same code with
  the account listed, so that the rest can be examined at all.
* `Indexer`: a signature is the place of its transaction in `chain`. `rows` is the table
  in insertion order, a row's id its index. `program` says which of the two
  subscribers a behaviour follows; they share nothing but code. The unique keys of
  `store.ts` are `Clash`; the data of a reputation row is the nonce of the ring entry it
  was read from.
* `AlertBot`: `tick[p][i]` is the i-th overlapping call of a poller. The router writes its
  state before it awaits the post. `posts` is a ghost: the last post begun per category.
  What can be wrong with the world is a set of conditions that change at any time.
* `SdkCalls`: `calls[c]` is one method call; `sent` the attempt it waits for, `adrift`
  the attempts it gave up that may yet land. `effects` (a ghost) lists what landed, each
  by the number of the pact it acted on: `pacts[e]` (a ghost) counts the pacts created
  under an id. What lands is an action of `Escrow` with all its guards, and a transaction is
  refused (`Refuses`) when that action is not enabled. A method whose instruction lists
  too few accounts is always refused. A request says which optional parameters were given:
  an arbiter with or without a wallet, a reputation threshold, empty or not.
* `Keeper`: `keeper` is what is left of this cycle's candidates. The two SDK methods
  it calls are declared in a shim and are in no source of the SDK, so at this commit every poll
  throws and cranks nothing: `SdkHasCrank = FALSE`. `TRUE` is the same loop over the client it
  is typed against, so that the rest of it can be examined at all.
* `AgentRegistry`: a wallet's address is its secp256r1 key, so `wallets` is a
  function of keys; the signature over the challenge is the holder's agreement.
  `holds_rent` says that the registry's lamports are the rent of 81 bytes. The migration means to
  top it up from the authority's account (`V:497`), which the system program owns: the runtime
  fails a transaction that debits it so, and only a registry that already holds the rent migrates.
* `OperatorScripts`: `script[s]` has a program counter and what the run first read;
  `Break` is a kill or an RPC error at any point, after which a transaction already
  sent may still land (`LateLanding`).
* `TrustSignals`: `submissions` are overlapping `submitTrustSignal` calls.

Operators whose comment begins "Variant" are deliberate bugs: each is the mutated
form of a definition after it, and shows that some property notices.

## 3. Runs

| Run | Question | Distinct states |
|---|---|---|
| `escrow_lifecycle` | One escrow, every instruction, ten sets of terms (seven that must be refused), wallets changed on the way, bob without a reputation account at first, one stray token | 540 557 |
| `escrow_reuse` | A second escrow under the id of a closed one, the first record closed or left behind: is a dispute judged by its own record, do scores that decay between settlements stay earned, and is every committed pact settled? | 386 057 |
| `oracle` | Two disputes of the same two agents in opposite roles, two troubles (updates by the escrow program, RPC errors, rotations, a crash) | 165 118 |
| `indexer` | Either subscriber on a chain of two transactions, failed ones included; dropped notifications, RPC errors, one crash | 81 204 |
| `client` | One SDK, plugin or wizard call on an id that is used for two pacts in turn, so that attempts meant for the first may land on the second, all other parties and a keeper that can crank acting at any time: does a call act twice on a pact, does an "ok" stay true, does every call return, is every expired pact unlocked? | 574 054 |
| `alerts` | The RPC poller with two overlapping ticks, conditions and the webhook failing at will | 166 480 |
| `operators` | Any two of ten script runs, two oracle tests and two upgrade tests among them, with the admin and the agents, one fault | 1 606 832 |
| `claim_timed`, `oracle_accounts`, `claim_keeper`, `claim_restores`, `claim_sequence` | Statements of documents, comments and tests, refuted (section 6) | |

**Properties.** *Escrow*: `VaultAccounted` (vault = what is owed + what strangers sent,
through every path), `CommittedPayable` (why the unchecked payouts are safe),
`DisputeIsFresh` (the record that judges an escrow is this dispute's),
`SettlementCountedOnce` (each pact that ends is counted once for each of its parties),
`SettlementShares` (a settlement hands out exactly what was owed; who may lose a stake;
when the protocol earns), `ClaimWaitsForWindow` and `FallbackRefundWaits` (windows
measured from the events that start them, not from the stored deadlines),
`FreezeSparesTheUnlisted`, `FollowsStatusGraph` (no re-entry), `ScoresAreEarned` (an
agent's distance from the neutral score is what the outcomes counted in its account can
explain; nobody gains or loses a standing by waiting), `KeepsPromise`
(refinement of `EscrowPromise`: money goes in while the pact is open, does not move
while it is committed, leaves in one settlement to its own parties, treasury at most
25 basis points), `CommittedSettles` (liveness).
*Oracle*: `VerdictsWrittenOnce`, `QueueHoldsUnfinished`, `HandlersEnd` (liveness).
*Indexer*: `OneRowPerEvent`, `RightSubject`, `EntryIsNotOlder`, `HistoryInOrder`,
`PagesAreComplete` (following cursors while rows are inserted yields each earlier row
once), `KeepsIndex` (refinement of `EventIndex`), `RecentIndexed` (liveness: what the
websocket dropped is stored as long as it is among the latest `PollLimit` signatures).
*Clients*: `RetriesTakeEffectOnce` (a call acts at most once on any one pact),
`SuccessStaysTrue` (an "ok" had its effect, and the pact it was had on stays past the
operation until it is closed), `CallsReturn` and
`ExpiredLeaveLocked` (liveness). *Alert bot*: `QuietWithinCooldown`,
`RecoveryAnswersFailure`, `LastingFailureIsPosted` (liveness). *Scripts*:
`CountMatches`, `VerdictSticks`, `PassLeavesNoTestKey`, `OracleChangesAreRotations`.
Each run that passes also checks a type invariant where the module has one.

**Bounds, and why they are enough.**

* *Escrow runs.* Three agents with one wallet each, windows in ticks. `MaxCreations`: one
  escrow exercises every instruction, two are needed for reuse. `MaxStart` bounds the
  instant of creation (3 in `escrow_reuse`: late enough for a first pact to be disputed
  and escalated before the second is created); afterwards the clock runs only while a recorded
  deadline has still to pass (`NextDeadline`), and no guard tells later instants apart.
  Windows of one to three ticks leave room before, at and after each deadline;
  `SECS_PER_DAY` of 4 ticks lets decay set in, and `MAX_DECAY_DAYS` = 10 is never reached.
  `MaxAdminSteps` = 2 reaches every wallet status, two blacklisted parties and a closed
  wallet (1 in the reuse run, where it is not the question). `MaxStray` = 1: a vault is exact or not. Amounts are chosen so
  that fee and split shares have remainders (1203, splits of 33.33 %), and `U64_MAX` =
  20 000 000 so that one set of terms (`Whale`) overflows an even split; 10001 basis
  points must be refused. Two escrows *at once* are not run: what they share, the
  reputations and the balances, is covered by theorems over any set of ids (section 4).
* *oracle.* Two disputes are what races for one account's nonce; `Attempts` = 2 stands
  for four, one retry being what doubles a transaction; `MaxTroubles` = 2.
* *indexer.* One back-fill at a time (`Jobs = {j1}`): overlap with websocket handlers is explored,
  overlap of back-fills is left to the theorems, which hold for any set of jobs. `RING` = 2 with one update
  before the chain starts lets the ring wrap between an event and its read;
  `PollLimit` = 2 covers the chain, so `RecentIndexed` has no excuse; `MAX_LIMIT` = 2
  with limits 0 to 3 asked for.
* *client.* `MAX_ATTEMPTS` = `MAX_TRIES` = 2 (3 in the code), one attempt adrift, one
  call of any of eleven kinds: the seven that can take effect, three the SDK refuses before it sends
  (a threshold not met, an arbiter without a wallet, for `createPact` and for `lockEscrow`) and one
  the program always refuses. Two concurrent calls are
  two transactions of the program, which the surrounding `Escrow` actions already are; overlapping
  calls proper are in the theorems, which hold for any number of them. `MaxCreations` = 2: the id
  has a second pact for late attempts to land on. To keep that small, `InitialTokens` = 2203 is
  all a pact takes from either party and `U64_MAX` = 6 000 000 lets no split be computed, so the
  second pact is funded and staked only when the first gave both their money back.
* *alerts.* `rpc` is the only poller with categories that depend on each other and on
  an earlier poll; pollers share no state but the router, which keeps its state by
  category. `COOLDOWN` = 1 elapse.
* *operators.* `MaxStarted` = 2: any two of the ten runs interleave, the two oracle tests and the two upgrade tests
  too; `MaxFaults` = 1, `MaxAdminSteps` = 1. A missing registry and a legacy one, with or without
  the rent of the new layout, are initial states; two programs can be named as the escrow program.

`CHECK_DEADLOCK FALSE` everywhere: with clocks and counters bounded, a run really ends.

**Fairness.**

* `escrow_reuse`: weak fairness of the clock; of `AutoRelease \/ Refund` per escrow, which
  anyone may crank and the party that gets the money does (not the keeper, which cranks nothing at
  this commit: section 6); of the parties' own ways to their money (`ClaimReleased`,
  `EscalateDispute`, re-registering a closed wallet); and of the authority freezing pacts
  of parties it has blacklisted. Nothing is assumed of the arbiter, of locking, or of the
  initiator. Without the authority's fairness the property fails: a beneficiary
  blacklisted after the release cannot claim, and only a freeze settles that pact.
* `client`: weak fairness of the clock and of a started call's own steps (an RPC answers
  or throws in the end); strong fairness of listing each locked pact and of a crank that is sent
  again and again landing: the keeper polls forever (`holdfast/keeper/src/index.ts:187`) and the network loses any
  one crank, not all of them. That is fairness of a keeper whose client has a listing and a crank
  (`SdkHasCrank` = `TRUE`), which the repository's SDK does not give it. `claim_keeper` has the same
  fairness and the SDK as it is: no poll lists anything, the two strong conditions ask for nothing,
  and the property fails. `ExpiredLeaveLocked` uses no other party's fairness.
* `oracle`: every await ends, in an answer or an error, and what the network accepted is executed; nothing forces
  a success or a restart.
* `indexer`: the process is restarted, its timer fires, calls end, and a request
  repeated by every poll is answered some time. Nothing is asked of the websocket.
* `alerts`: timers fire, requests return, time passes, and not every post throws.
* `operators`, `claim_sequence`: none, only safety is claimed.

## 4. Proofs

Every theorem below holds for all values of the constants that satisfy the named
assumptions of its module (any set of escrows, agents, jobs, ticks, scripts, any ring
size and any window), which TLC also evaluates for the instances.

* **`EscrowProofs`**: `TypeCorrect`, `VaultsAreAccounted`, `CommittedArePayable`, by one inductive
  invariant `IInv`: the three with `PactsAreValid` (the terms of an existing escrow passed
  `ValidInitParams`; else both parties might be one agent and two payouts would not
  add up) and `NothingStakedEarly` (a pending escrow is not marked staked; else the
  deposit would not equal the liability it creates). The three depend on each other: that
  `vault = liability + stray` survives a refund needs `beneficiary_staked`, which is
  `CommittedPayable`; that a settlement finds both reputation accounts needs the gates
  of `StakeBeneficiary` and `LockEscrow`. Lemmas: arithmetic of each payout kind, the shared
  steps of a settlement, one per instruction. `DecayTowardsNeutral` is about the arithmetic
  alone: for any table of factors between 0 and 1 (`ReputationAssumption`), an idle score
  moves towards neutral and never past it, and two scores as far above and below neutral
  stay mirror images. That is what truncation gives and rounding down would not.
* **`DisputeProofs`**: `DisputesAreFresh` by `DInv` (`IInv`, the dispute property, and
  "a release lies in the past"), then `StatusesFollowGraph`, `FallbackRefundsWait`,
  `ClaimsWaitForWindow` and `SettlementsCountOnce` as action properties of `DInv`: a lemma lists
  which instruction makes which status move, and each property follows from the
  moves that settle. That a step counts *exactly* the pacts it settles needs the other
  direction too: a step that settles none counts none. `SettlementsShare` and
  `FreezesSpareTheUnlisted` are about money: `SettlingActions` lists the six ways to settle,
  `PaidOut` says that the parties and the treasury are three accounts (`PactsAreValid` again),
  and each payout rule has a lemma on its parts, so no choice of amounts, stakes or basis points
  takes a share from the wrong party. `ScoresEarned` adds to the score's two bounds that
  disputes are among the pacts counted: only then does neutral lie between them, and only
  then does a decayed score stay there. `Scored` says of every settlement which deltas it
  may pass for its outcome.
* **`PromiseProofs`**: `PromiseIsKept`, the refinement. The mapping reads the promise's state off
  the accounts; a step touches one escrow id, each instruction has a lemma that names the
  abstract step it is, and steps of the surroundings are stutters.
* **`OracleProofs`**: `OracleTypeCorrect`, `WrittenOnce`, `UnfinishedAreQueued`. A handler starts
  once per dispute; all transactions for one party of one dispute carry one nonce; an account's
  entry i was written by a transaction with nonce i. Two executed attempts would then be one entry.
* **`AlertProofs`**: `BotTypeCorrect`, `CooldownIsQuiet`, `RecoveriesAnswerFailures`. The router's
  state always equals the record of posts begun, because it is written before the await:
  the reason overlapping ticks do no harm.
* **`IndexerProofs`**: `IndexerTypeCorrect`, `IndexedOnce`, `RowsHaveTheRightSubject`,
  `EntriesAreNotOlder`, `HistoriesAreInOrder` by one invariant, and `IndexIsKept`, the
  refinement of `EventIndex`. It begins with the ring: `RecordUpdate` keeps its invariant
  and the three readers return what they should, for any ring size. For
  `ReadersMissNothing`, a page is the newest rows below its cursor and ids only grow, so
  whatever is inserted later lies above every cursor already given out, and the pages from a
  cursor on collect exactly what is below it. Two inductions (over the history an indexer
  starts from, and over the pages) go by the well-foundedness of `<`, since the library's
  induction theorems cannot be instantiated.
* **`RegistryProofs`**: `OperatorTypeCorrect`, `AgentsAreCounted`, `VerdictsStick`,
  `NoTestKeyAfterPass`, `OracleRotates`. The invariant `RInv` adds where an ephemeral key can be
  while its test runs, that only tests restore, that what an upgrade test restores is the key it
  was started with, and that an oracle test finds another's key only after that one has sent it.
  `ScriptsAssumption` asks that ephemeral keys are distinct and nobody else's. Oracle tests may
  overlap in any number; two that do can both pass and leave one's key in the registry, so
  `PassLeavesNoTestKey` names the one way in which that happens: another oracle test has put it back.
* **`ClientsProofs`**: `ClientsRefineEscrow`: for the accounts, a behaviour of calls, keeper
  and everyone else is a behaviour of `Escrow`, so its invariants hold of the composition.
  `ClientsTypeCorrect`, `RetriesTakeEffectAtMostOnce` and `SuccessesStayTrue` follow from `CallsInv`:
  `CallOK` says which attempts a call can have out in each phase, `EffectsOK` that no two
  effects were on one pact, and that the id's present pact, if an effect was on it, has
  got past the operation or was closed. `AchievementsLast` is the reason: what an operation achieves, no
  instruction undoes short of closing the escrow, so the program refuses the second attempt.
  ENABLED appears only behind `Refuses`, which the proofs never open. `SdkAssumption`
  says that retry limits are positive, that something is requested, and that the plugin
  wraps the three methods it does.

**Only model-checked**: liveness (`CommittedSettles`, `HandlersEnd`, `RecentIndexed`,
`CallsReturn`, `ExpiredLeaveLocked`, `LastingFailureIsPosted`), which is outside the
prover. Every safety property of every passing run is proved. That `GenDecayTable` has
the values `ReputationAssumption` asks for is a recursion over data: TLC evaluates it.

## 5. What the checks show

*On chain.* No path through the fifteen instructions, in any order, overdraws a vault or leaves an
owed remainder; every settlement is single, complete and recorded once for each
party; the dispute window and the arbiter's deadline plus grace period are kept to the
tick; a stale dispute record never judges a later escrow, and even then the later pact is
settled. The registry's count and verdicts survive every sequence of its instructions.
Two limits of the design are visible and violate nothing the code promises: a token sent to
a vault from outside blocks `lock_escrow` (the balance must be exact) and, after settlement,
`close_escrow` (it must be zero); and `cancel_pending_escrow` needs the beneficiary's
reputation account, which nothing before `stake_beneficiary` requires.

*Off chain.* The nonce is what makes retries safe: however many attempts land, a verdict is
written once. The program's guards, not the SDK's retry, make a resent call take effect
at most once, and the price is that a call may be reported as failed although an
earlier attempt landed. The indexer is exactly-once for what it sees, and sees what is
among the last 20 signatures of a poll; its websocket path may attach a later update's
delta to an earlier event, never an older one. What a restart costs: the oracle forgets its queue and
hears nothing of disputes settled while it was down; the indexer catches up from the
newest row, so an older gap beyond the poll limit stays.

## 6. Where documents and code disagree

Five statements are refuted by a run (`findings` in `PROJECT.json`): that an expired timed pact releases to the beneficiary
(whoever cranks first decides); that the oracle's updates reach the program (its
instruction lists two of three accounts); that a keeper crank releases timed pacts (every poll
calls a method its SDK does not have); that the upgrade-authority test always restores;
that trust-signal numbers increase (a restart begins again). Others were met on the way
and need no run, the code being plain:

* `holdfast/sdk/docs/quickstart.md:209` and `holdfast/scripts/auto-release-keeper.ts:12` have the
  program reject `auto_release` on a task or milestone pact ("no funds are at risk"); the
  handler's else branch (`auto_release.rs:122`) refunds it and lowers both scores by 10.
* `holdfast/docs/THREAT_MODEL.md:570` (INV-M1) requires every payout that reads
  `beneficiary_stake` to check `beneficiary_staked`; four instructions do not. They are
  safe all the same: that is `CommittedPayable`, proved here.
* `holdfast/docs/THREAT_MODEL.md:295` and `:471` have `cancel_pending_escrow` in status Pending; the
  code requires Funded (`cancel_pending_escrow.rs:83`).
* `holdfast/docs/THREAT_MODEL.md:566` (M-3) says a DisputeRecord persists until
  `close_escrow`; the record is an optional account there, and left out it stays for good: no
  later escrow of the id can raise a dispute.
* `docs/dev/invariants.md:340` has a claim pay 100 %, and `sdk/src/escrow/index.ts:893`
  `escrow_amount + beneficiary_stake`; the code takes 25 basis points.
* `docs/dev/invariants.md:316` has a freeze lead to Disputed; the code settles on the spot.
* `docs/dev/invariants.md`, ES-7, lists other closable statuses than `close_escrow.rs:48-54`.
* `V:425` says `set_protocol_authority` "Enables authority migration without program
  redeployment"; status changes, migration and the instruction itself stay gated by the compiled-in `INITIAL_AUTHORITY`.
* SDK: the instructions of `claimReleased`, `cancelPact`, `cancelAndClose` and
  `cancelPendingEscrow` list fewer accounts than the program asks for and are always refused,
  and so is `lockEscrow` with the default arbiter.
* `sdk/src/escrow/index.ts:310`: an `escrowId` is "for idempotent retry"; the second `createPact` with it throws.
* `sdk/src/reputation/index.ts:160`: `meetsRequirements` "mirrors" the program's gate, without its decay.
* `sdk/src/registration/index.ts:160`: `registerAgentWallet` is "idempotent"; the wallet it
  returns may have been registered by another signer, and of two calls at once one throws.
* Wizard: `confirmTransaction`'s error value is not read (`app/dashboard/create-pact/page.tsx:592`), nor
  in the oracle: a transaction that was refused on chain counts as done.
* Plugin: RELEASE_PACT reports "Funds transferred to counterparty"; a release opens
  the dispute window. The listener is said to report disputes and releases; it polls Funded pacts only.
* Indexer: `subscriber.ts:97` promises that start-up misses nothing up to 1000 signatures
  back; it starts from the newest row, which may be later than a gap. Histories are documented "oldest →
  newest" (`docs/dev/reputation-composability.md:253`) and pages "descending by slot"
  (`holdfast/docs/indexer-api.md:491`); rows come newest-inserted first, and a back-fill inserts backwards.
  `pact_cancelled_pending` (`indexer-api.md:473`) has no log pattern. A `closed` event is filed under the first
  instruction's account, in `cancelAndClose` a party. The live reputation handler does not
  strip the "Program log: " prefix, so only polls feed that table when lines carry it.
* Alert bot: dispute and freeze alerts never fire, the patterns being anchored at the start of a line that begins
  "Program log: " (`escrow-poller.ts:11-13`). "Recovery alerts fire automatically" (`alert-bot/README.md:15`): a lost
  recovery post is not repeated, and `rpc` and `escrow-rpc` never report recovery.
* `holdfast/docs/mainnet-attestation-registry-migration-runbook.md:23`: the migration "Tops up lamports for the 32-byte size
  increase". It debits the authority's account directly (`V:497`), which a program that does not own
  that account may not: a registry created with the rent of 49 bytes has to be sent the difference first.
* Scripts: `test-oracle-rotation-devnet.ts` has no guard on the oracle key it finds (119-135) and restores
  what it read (171): two oracle tests at once can both pass and leave the ephemeral key of the first;
  the devnet migration reports FAILED when a registration lands between its transaction and its
  read-back; the mainnet `--verify` fails after a legitimate rotation.

## 7. Not modelled

* **secp256r1 and WebAuthn verification**: byte parsing and cryptography; a signature
  is its holder's consent. Instruction and account encoding likewise.
* **The validation responder** of the oracle's bridge: stateless, a constant answer.
* **Cancel-intent endpoints** of the indexer: no program in the repository calls them.
* **Site and dashboards** other than the wizard's submit: static pages and displays of what
  an RPC node or the indexer returns, most of the repository's TypeScript. This is
  why the map covers a small share of its lines though every stateful service is modelled.
* **The plugin's event listener**: it logs and emits to a host runtime that is not here.
* **`plugin-vaultpact`**: stubs. **Orchestration helpers** (`lib/`): development tooling.
* **Demos, smoke, fuzz and stress harnesses**: linear sequences of calls; the older keeper
  script polls a route that does not exist.
