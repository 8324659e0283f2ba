# Helix Protocol: TLA+ models and proofs

Formal models of the on-chain programs of this repository, the TLC runs that
check them on small instances, and TLAPS proofs of the properties that matter
most, for every value of the parameters. Operators and actions carry the names
of the Rust functions they translate; `PROJECT.json` maps each to its lines.

## 1. Inventory

| part | state it keeps | operations | interacts with |
|---|---|---|---|
| **staking** (`programs/staking`) | the `Pool` account (totals, rate, accumulator, lifetime counters, pause, authority), one `Position` per stake, the stake vault and the reward vault | initialize_pool, stake, unstake, claim, close_position, fund_rewards, set_reward_rate, set_paused, propose_authority, accept_authority | token program by CPI; read by governance |
| **governance** (`programs/governance`) | the `Realm` (authority, guardian, thresholds, delays), one `Proposal` per id, one `VoteRecord` per proposal and position | initialize_realm, update_realm_params, create, activate, cancel, cast_vote, finalize, queue, fifteen execute_* | reads the pool and its positions; its executor PDA signs CPIs into treasury, staking and token-manager |
| **treasury** (`programs/treasury`) | the `Treasury` (cap, epoch, spent, committed), a vault, one `VestingStream` per id | initialize, deposit, spend, set_spend_cap, set_governance_executor, create/claim/revoke stream | called by governance's executor |
| **token-manager** (`programs/token-manager`) | `TokenConfig` (admin, pause, totals, minter_count), one `Minter` per authority, the mint's supply | initialize_token, mint_to, burn, register/update/revoke minter, propose/cancel/accept admin, set_paused | called by governance's executor once it is admin |
| **indexer** (`indexer`) | finalised and head projections, replay buffer, cursor; Postgres rows | poll, backfill, commit, load | reads the chain through RPC; the API reads it |
| **ops** (`ops`) | the plan, and what the operator has read of it | plan (one transaction of three initialisers), audit of four authorities | initialises the programs; gates the use of the system |
| **app** (`app`) | the transaction flow's state, its `prepared` reference and the promise it awaits; the pickers; what was read of the pool | preview, confirm, reset, edits, change of wallet or cluster | RPC and wallet |

What is hard here:

- **Interleaving.** Anyone may send any instruction at any time, so two
  programs' instructions interleave freely. Within a transaction everything is
  atomic: a failed check, a failed transfer or a failed CPI reverts it all.
- **Time.** The reward accumulator, locks, voting windows, timelocks and epochs
  are all read from a clock that jumps between transactions.
- **Truncation.** Weights, the accumulator and each position's earnings are
  truncated at different moments, and the sums must still be covered.
- **Stale parameters.** Thresholds and delays are read at finalisation and at
  queueing, and may have changed since a proposal was activated.
- **Divided authority.** Each program obeys an authority that a key may hold,
  hand on and get back; only together do they make governance the one that
  decides.
- **Loss and reordering.** The indexer sees forks, a node that forgets, cut-off
  pages and crashes, and reads each batch and each page in several requests.
- **Awaits.** The app's flow is suspended between a click and an answer, and
  anything on the page may change meanwhile.

Correctness, per part: staking owes its stakers principal and rewards (solvency,
exact books, fair shares, open exits) and owes governance a stable electorate;
governance owes that only what a majority of a fixed electorate carried, after
its timelock, takes effect; treasury owes its streams; token-manager its caps;
the deployed system owes that nobody but governance decides; the indexer the
same projection the finalised chain gives, and all of its history; the app that
what is signed is what was shown. `PROJECT.json` lists the hazards line by line
with the properties aimed at them.

## 2. Modules

| module | what it is |
|---|---|
| `FiniteSums`, `FiniteSumLemmas` | sums over `0 .. n-1` as a recursive function, and the proved facts about them: type, order, the effect of changing one entry, a bound |
| `StakingPool` | `programs/staking`, whole: state, ten instructions, direct transfers, the clock, and its properties |
| `StakingShares` | `StakingPool` next to the exact distribution it approximates, per position |
| `Electorate` | abstract specification of what staking promises governance |
| `StakingElectorate` | the refinement mapping from `StakingPool` to `Electorate` |
| `Governance` | `programs/governance` over an `Electorate`: realm, proposals, votes, execution |
| `Mandate` | abstract specification of what governance promises the programs it owns |
| `Treasury` | `programs/treasury`, whole: vault, epoch budget, vesting streams, direct transfers, the clock |
| `Escrow` | abstract specification of the treasury's vault: every token is free or owed to one stream |
| `TokenManager` | `programs/token-manager`, whole: config, minter registry, epoch caps, the mint's supply, the clock |
| `Helix` | the deployed system: `StakingPool`, `Treasury` and `TokenManager` instantiated under the realm, with bootstrap, audit and every execute_* as one transaction |
| `Selections` | a filter and a stable sort of a sequence, as recursive functions |
| `Cluster` | what the indexer reads from, a cluster that confirms, takes back and finalises, and the locals of a reader that asks it one request at a time |
| `Ingest` | the loop of `helix-index` over `RpcLogSource`, `Ingestor` and `Store`, over a `Cluster` whose node also forgets |
| `Backfill` | the descent from the tip to the beginning of history, page by page, over a `Cluster` |
| `Flow` | the app's path from intent to signature: `useFlow`, `simulate` and `send` with the page around them |
| `StakingProofs`, `GovernanceProofs`, `TreasuryProofs`, `TokenManagerProofs`, `HelixProofs`, `FlowProofs`, `IndexerProofs` | theorems |
| `MC...` | small instances for TLC |

How they fit together:

    StakingPool --implements--> Electorate <--extends-- Governance --implements--> Mandate
         |                                                                            |
         +------------------ instantiated by ---- Helix ---------- extends -----------+
    Treasury, TokenManager -- instantiated by ------^       Treasury --implements--> Escrow
    Cluster <--extends-- Ingest, Backfill

### How state and actions correspond to the code

An instruction is one action. Its guard collects the handler's `require!`s, the
Anchor account constraints (`has_one`, `init`, seeds), the failures of checked
arithmetic that some state can reach, and the failure of the token transfer.
Accounts at a PDA are functions from the id in their seeds: an address with no
account holds `NoPosition`, `NoProposal` or `NoVote`, and Anchor's `init` is the
guard that the address is still empty. Events, bumps, titles and `created_at`
are left out: no program reads them.

`update_rewards`, `earned`, `settle` and `apply_weight` are pure operators with
the truncating division of the code. A fee-bearing mint is the set `Credits`:
the vault observes the amount less one of `Fees`. Tokens sent to a vault's
address outside the program are the actions `DonateStake` and `DonateReward`.

`Electorate` has four actions: a position opens at the counter, loses weight
after its lock, is closed when it has none, and the clock advances. `Governance`
extends it, so that its instructions interleave with everything the pool can do
to a voter, and `StakingElectorate` with its proof in `StakingProofs` shows that the pool does
nothing else: checking governance over the electorate covers the real pool
without carrying rewards and vaults through every state.

`Treasury` stands alone: its executor is whoever `governance_executor` names and
signs at any moment, which allows more than governance does. `Escrow` is what it
implements: tokens arrive, free tokens are disbursed or promised to a stream,
owed ones are paid to their stream or released, and there is no other step. The
mapping is `free = vault - committed_to_streams` and
`owed[id] = (vested at revocation, or total_amount) - claimed`. The history
variable `spent_at` records what `spend` sent and when, since the cap was last
set; the program keeps only a counter and an epoch index, and the budget
property compares the two. An address without a stream holds `NoStream`.
`VestingComputable` is the pair of checked subtractions in `vested_at`.

`TokenManager` numbers the addresses that may be minters, so that what the
entries say can be summed; `minters[a]` is the entry at the PDA of `a`, and an
address without one holds `NoMinter`. `update_minter` and `revoke_minter` take
any entry of the config, as the account constraints do. The history variable
`issued` records what each entry issued and when, which the program reduces to
a counter and an epoch index. `BurnDirectly` is a holder who burns through the
token program, which only the mint's supply sees.

In `Governance` three actions change the realm itself or nothing
(`execute_signal`, `execute_update_realm_params`, `execute_set_realm_authority`)
and are modelled whole. The rest are CPIs; `execute_external` is the governance
side they share. `Mandate` is what is left of governance when how a proposal
came to pass is forgotten: a proposal is granted something at a moment, with a
delay, and is then carried out once inside its window, or voided. The mapping is
in `Governance` (`Standing`, `Mandates`), and `ImplementsMandate` is checked and proved.

`Helix` extends `Mandate` and instantiates the three programs with one set of
parties: the keys, and the executor, for which only an execute_* signs. An
execute_* instruction is the conjunction of `ExecuteOn(p, here)` and the called
program's own action with the executor as signer, so the mark on the proposal
and the effect of the CPI happen together or not at all, and a refusal of the
called program is a refusal of the whole.

The arguments are the proposal's, the accounts the sender's. A transfer fixes its
treasury through its destination, which is a token account of one mint, and the
realm fixes its pool by `has_one`. For the rest the handlers take any treasury or
token config, and the called program only asks that it obeys the executor, which an
account of another mint does if whoever initialised it named the executor there.
So every other execute_* into the treasury and the token manager has a parameter
`here`: either the called program's action on this system's account, or
`OnAnotherMint`, which uses the proposal up and changes nothing here. Accounts of
other mints are not kept. `OnAnotherMint` has as its guard what the called program
asks of the arguments (`ArgumentsAccepted`) and takes the account for suitable, as
anybody can initialise and arrange one: a treasury with a stream of the wanted id, a
config with the executor pending. The history variable `elsewhere` holds
the proposals that were used so.

What keys do by themselves
(`pool_instruction`, `treasury_instruction`, `token_instruction`) is the same
actions with a key as signer. Bootstrap is `plan`, one transaction of the three
initialisers, each of which `initialize_alone` lets anybody call first, with
what authority they like, since the accounts are seeded from the mint. The audit
is `observe`, once per authority and with anything between, and `verify`.
What `Helix` assumes or leaves out: nothing is deposited and no time passes
before a clean audit, and no proposal is queued before it (step 5 of the
runbook); the reward vault is full enough for any rate (whether it is is a
question of `StakingPool`); stakers, `mint_to`, `burn` and the realm's
parameters are not here, since they touch no authority.

`StakingShares` adds to `StakingPool` a history variable, `due`: what each
position is entitled to, computed second by second with neither accumulator nor
truncation, times a common multiple of the weights. `Distribute` is conjoined to
every step and constrains none.

`Ingest` has three parts. The `Cluster` (external) confirms blocks, takes back
what is not final and finalises; its node forgets its oldest transactions. The process
is at one place of its loop (`pc`): it opens the store, asks for the finalised
slot, then for each program's signatures, then for the logs of the batch, folds
it, and commits. Each request is a step, so the cluster moves between any two of
them, and `Crash` may take the process, with its memory, at every one. The store
changes in one step because `commit` and `load` are SQL transactions. A
projection is the sequence of transactions folded into it with its applied set,
which tells apart every way of folding too much, too little or in another order.
`merged`, the batch before it is cut, is what `fetch` holds between two requests.
One address's signatures are one request (they are paged above 1000), a node
does not forget what was never read (an indexer that far behind has lost it),
and `FellBehind`, which ends the process like any source error, is left out.

`Backfill` is the other reader of a `Cluster`. A step of the descent is one request of
the finalised slot (`step_finality`) and one per program (`page_address`), then `step`
or `reach_genesis`; the page is sorted by slot,
cut at the limit, its oldest entry becomes the next bound, and what succeeded
and is final is yielded. `rows` is what was yielded: rows are idempotent, so a
set. A bound that a fork took away is unknown to the node, which then serves
from the tip as `ScriptedSource` does, and `Refused` is the check that notices.
The descent is in memory only, so a caller that ends by an error or a crash
starts again; `owed` records what was final when it began.

`Flow` makes a click, the settling of a promise, and a change of wallet, cluster
or form one action each: between two of them React has rendered. `call` is the
promise being awaited, `prepared` the ref, and `state` what is on screen. The
cluster is a counter of positions, which is a seed of the account a stake
creates and the part of a transaction that goes stale. `approved` and `sent` are
history: the preview whose Sign and send was pressed, and what the wallet was
given.

## 3. Runs

| run | expects | question |
|---|---|---|
| `staking` | pass | books, solvency, liability, exact shares, exits, and the refinement to `Electorate` |
| `governance` | pass | turnout, backing of votes, majority, timelock, lifecycle, self-government, the refinement to `Mandate`, and that every vote resolves |
| `treasury` | pass | funding of streams, epoch budget, vesting through revocation, claims never blocked, refinement to `Escrow` |
| `token_manager` | pass | issuance within the epoch's cap, lifetime totals, burns never blocked |
| `helix` | pass | who can do what in the deployed system, from an empty cluster through bootstrap, audit and two executed proposals |
| `ingest` | pass | what is folded and stored, under forks, finality, pruning, crashes and restarts; and that it is stored at last |
| `backfill` | pass | what a descent yields and passes, under forks, failed transactions and crashes; and that it ends |
| `flow` | pass | what the wallet is given, under edits, other stakers, late answers and changes of wallet and cluster |
| `treasury_long_stream` | violation | a stream accepted by `create_stream` that cannot be evaluated |
| `helix_caller_choice` | violation | a proposal executed on an account its sender chose |
| `flow_other_cluster` | violation | a transaction simulated on one cluster and sent to another |
| `backfill_gap` | violation | a transaction that no page yields |

### What the properties say

- `BooksBalance` (INVARIANTS 1.1, 1.3, 1.4): totals are the sums over the open
  positions; the vault holds at least the principal. The document states
  equality for the vault; a direct transfer to its address makes it an
  inequality, which is what is checked.
- `EveryClaimIsPayable`, `Solvent`, `LiabilityCoversClaims` (1.2, 3.2): the
  reward vault covers all claims at once, and covers liability plus everything
  the current rate still promises.
- `ExitNeverBlocked` (6.2, 6.4): an unlocked position can leave in full. What an
  instruction needs is an operator of its own, `CanUnstake`, `CanClaim`, `CanBurn`,
  which the action has as its guard: the property asks it of a state, and the runs'
  mutants show that it is the guard the instruction really has.
- `SharesExactToDust` (3.3 to 3.9, per position): no instruction moves value from
  or to any position, its own included; time alone does, and then each position
  gets its exact share of the emission less at most a unit and its weight's part
  of the accumulator's truncation. The document's own check is of the sum over
  positions, from above; this one is of each, from both sides, so it also sees a
  withdrawal settled at the weight that remains, which underpays and breaks no
  other property.
- `ImplementsElectorate` (5.11): what governance relies on. That an id is never
  recycled is part of it, and a theorem of its own.
- `TurnoutWithinSnapshot` (4.3), `VotesStayBacked` (4.2), `CarriedByMajority`,
  `TimelockServed` (4.4), `LifecycleRespected` (4.5, 4.6), `SelfGoverning`
  (4.14, 4.15): see the comment above each in `Governance.tla`.
- `ImplementsMandate` (4.4, 4.6, 4.7, and the arguments' half of 4.11): what is
  executed was granted, its action unaltered, once, in its window, and never after a
  veto. On which account it is executed is finding 2.
- `VotingResolves`: no proposal is stranded in Voting.
- `StreamsFunded` (1.6): `committed_to_streams` is exactly what the streams are
  owed and the vault holds it. The document writes the owed amount as
  `total_amount - claimed`; for a revoked stream that includes the unvested part,
  which has been released and may be spent, so as written it is false after a
  revoke and a spend. What is checked counts a revoked stream at what had vested.
- `EpochBudgetHolds` (5.7): between two settings of the cap, spends within one
  epoch stay within it. `set_spend_cap` renumbers the epochs but resets neither
  counter nor index: for the epochs as they are numbered from then on, that can only
  cost allowance. The history begins at the setting too, so the property does not add
  up what was spent before and after it in one window of the calendar, where a
  renumbering may well give a second allowance. It is the governance executor who sets.
- `VestedNeverClawedBack` (7.1 to 7.6), `ClaimNeverBlocked` (7.2),
  `ImplementsEscrow`: see the comments in `Treasury.tla`.
- `IssuanceWithinCap` (5.2, 5.6): measured on the history, not on the counter
  the program keeps. It is an action property because a cap may be lowered below
  what was issued: what must not happen is that more is issued then.
- `SupplyReconciles`: the config's total is the sum of the entries, each entry
  tells what it really issued, and the supply is at most issued less burned
  (less, because holders may burn elsewhere).
- `BurnNeverBlocked` (6.4): no pause and no full counter. It rests on
  `SupplyReconciles`: what can be burned was minted, and `total_minted` has the
  same width as `total_burned`.
- `KeysOnlyByMandate` (5.8 and the mitigation of F-1): after a clean audit no key
  has the pool, and none gets the realm, the treasury or, once governance accepted
  it, the mint's admin but by an executed proposal that named one. Accepted and
  executed mean on this system's accounts: a proposal to accept the admin that was
  used up on another mint's config leaves the key where it was, and counts for
  nothing here. The four reads of the audit are not one
  moment; it holds because an authority that was read as the executor cannot be
  handed back by a key.
- `ExactlyAsApproved` (4.6, and "the proposal is never consumed by a failed
  execution"): as long as governance has not given the treasury away, the
  treasury's books and the pool's rate are what the proposals say that were executed
  on them, whatever a cap or an empty vault refused and whatever was executed on
  another mint's accounts. That every executed proposal was executed on them is not
  claimed, and is not so: finding 2.
- `FinalizedExactly`: what is final in memory and in the database is what the
  cluster finalised, each transaction once, nothing below the cursor left out.
  It rests on three things: finality is read before the batch, the cursor and
  the rows are one SQL transaction, and the applied set is loaded back. The last
  matters when the node has forgotten the cursor's own signature and serves the
  rest of its slot again. It does not rest on the slot `logs_for` takes from the
  transaction rather than from the listing: whatever is promoted was final
  before it was listed, and a slot listed too early is corrected by the next
  poll. `Contradiction` is never reached, since one cluster never contradicts
  itself.
- `HeadIsFinalizedPlusPending`, `StoreOnlyExtends`: the two claims `ingest.rs`
  makes of a rollback, in memory and in the database.
- `CatchesUp`: a final transaction is stored some day, though the batch is cut
  off inside a slot.
- `RowsAreHistory`: a page is fetched in several requests, and the finalised slot
  in an earlier one; what is yielded is final and happened. It is because finality
  only grows that the earlier reading is safe.
- `NothingSteppedOver`: what was final when the descent began has been yielded or
  is still below its bound, through pages of failures, forks and restarts.
- `Completes`: a caller that loops reaches the beginning of history.
- `SendsWhatWasShown`: what the wallet is given is the transaction that had been
  simulated, with success, and was on screen when Sign and send was pressed; once
  per press. It is about the transaction and not the cluster: see finding 3.
- `AnswersFindTheirFlow`: the controls are disabled exactly while an answer is
  due, so that none arrives at a flow that was dismissed or begun again and none
  is waited for in vain.

### Findings

1. **Streams that cannot be evaluated** (`treasury_long_stream`). `create_stream`
   validates a schedule's span with `saturating_sub`, `vested_at` computes it with
   `checked_sub`. A span above `i64::MAX` (it takes a `start_ts` billions of years
   in the past) is accepted, and from the cliff to the end both `claim_stream` and
   `revoke_stream` fail, so its tokens stay committed. The configuration reaches it
   with a small `I64_MAX`; in `Treasury.cfg` every schedule fits.
2. **On whose account** (`helix_caller_choice`). INVARIANTS 4.11 says that execution
   parameters come from the action and not from the caller. The arguments do. The
   accounts do not: the treasury (`execute.rs:221-222`, `331-332`, `414-415`) and the
   token config (`execute_token.rs:55-56`, `215-216`, `301-302`) are whatever the
   sender passes, bound by no seeds, `has_one` or field of the proposal.
   `initialize_treasury` and `initialize_token` are open to anybody for another mint
   and take the executor or the admin unsigned, so an account that obeys the executor
   is easily had, and an approved proposal can be used up on it while this system
   stays as it was. That concerns `CreateVestingStream`, `RevokeVestingStream` (of
   which the id is compared, but not whose stream it is), `SetTreasurySpendCap`,
   `SetGovernanceExecutor` and every kind of the token manager's. Within a config
   `UpdateMinter` and `RevokeMinter` name no authority besides, and
   `ExecuteModifyMinter` takes any entry. Bound are `TreasuryTransfer`, by the
   destination's mint, and `SetStakingRewardRate`, by `has_one`. The run's
   counterexample is a `RevokeMinter` that is due and can be executed on the one entry
   of this registry, or on another mint's.
3. **The other cluster** (`flow_other_cluster`). The cluster's picker is not disabled
   while a preview is on screen, a change of cluster does not reset the flow, and
   `confirm` sends over the connection of the click. What was simulated on one
   cluster goes to another.
4. **A gap inside a slot** (`backfill_gap`). A page of a descent is merged by slot
   only and cut at the limit; inside a slot its oldest entry, which bounds the next
   page, may be older than a transaction of another program that was cut off. That
   one is below no later bound. The comment in `fetch_before` says nothing is
   stepped over. TLC finds the same gap between slots when `Page < Limit`:
   `signatures_before` asks for `limit.min(page)` per program but the page is cut
   at `limit`, so the list of a busy program may end above the oldest entry, of
   another program, that bounds the next page.

Seen while modelling, and true of the models, without a run of its own:

- **The lifetime counter.** `total_rewards_accrued` is a `u64` that only grows, and
  `update_rewards` fails when it is full; everything that settles then fails,
  `unstake` among it, though INVARIANTS 6.2 promises that it succeeds while the
  vault is solvent. At the largest permitted rate the counter lasts about 213 days,
  at realistic rates far longer. In `StakingPool.cfg` it never fills, and
  `ExitIsNeverBlocked` assumes that it does not (`InflowFits`): no property guards
  against it.
- **Dormant proposals.** `constants.rs` gives the expiry as the reason why a passed
  proposal cannot sit dormant. It is counted from `eta`, and `eta` from the call of
  `queue_proposal`, which has no deadline.
- **The registry's bound.** `minter_count` is lowered by a revocation and not raised
  when `update_minter` enables the entry again, though a revocation is documented
  as permanent and `MAX_MINTERS` as a bound. Each minter still has its own cap. The
  counter itself stays in range, so that `TypeOK` does not see it.
- **Order within a slot.** `fetch` too merges by slot only, where `LogSource::fetch`
  promises ledger order. A claim followed in its slot by the execution that
  revokes the stream is folded after it, and the projection's total of that stream,
  computed from the claimed amount of that moment, is short by the claim. The
  replay of stored events, `ORDER BY slot, signature`, has the same limit.
- **The pause under governance.** RUNBOOK's first step in an incident is `set_paused`
  on the staking pool, but under the planned bootstrap the pool's authority is the
  executor, and no `ProposalAction` calls `set_paused`, `propose_authority` or
  `accept_authority` of staking. In `Helix` those actions exist and no key can ever
  take one after a clean audit (`KeysOnlyByMandate`).
- **What the audit compares.** Four authorities: not the realm's parameters, nor the
  treasury's cap, which whoever initialised the accounts first may have chosen.
  `opening.cap` is in `ExactlyAsApproved` for that reason.
- **Editing after a preview.** `preview.tsx` says a preview holds "until the inputs
  change"; a change of the inputs does not dismiss it. What is sent is still what
  was shown (`SendsWhatWasShown`), not what the form says now.

### Bounds, and why they are enough

- `StakingPool.cfg`: two owners and two positions, the least at which shares,
  truncation and the order of claims matter; two tiers, one without a lock and one
  with; an amount whose weights truncate, a fee, one direct transfer to either
  vault, a partial withdrawal; `PRECISION = 8`, so small that truncation happens at
  almost every step (a larger scale only hides it); `SCALE` is a common multiple of
  the weights, which `ScaleIsExact` checks; clock steps that straddle the period
  end.
- `Governance.cfg`: one owner, two positions and one proposal; periods and delays
  of one or two ticks, three parameter sets of which one is below the timelock's
  floor, and an initial authority that is a key or the executor. Two positions are
  the least at which a late one can be counted against an earlier snapshot; votes
  are per position, and whose they are is only compared for equality with the
  signer, so that a second owner adds renamings. A second proposal would add
  another source of parameter changes, which the authority's direct changes
  already provide at any moment. `Horizon` is where the clock stops:
  `VotingResolves` speaks of votes that end by then.
- `Treasury.cfg`: two streams, the least that can compete; one beneficiary (the
  streams differ by id, not by owner); two executors; one good schedule, that began
  before the treasury did, truncates, and has its cliff between start and end, plus
  one too short and one out of order for the refusals; caps of one and two and
  epochs of one and two ticks, so that a change of length makes the epoch index jump
  both ways; a fee of one on every deposit; a horizon of three ticks, past the
  schedule's end (executors are symmetric).
- `TokenManager.cfg`: two addresses and a registry of one, so that its limit is met
  and a revoked minter can be replaced; caps of one and two, epochs of one and two
  ticks and one too short, over three moments, so that an epoch is re-entered,
  skipped and shared; a `u64` of two, so that the lifetime counters and the supply
  really fill (admins are symmetric).
- `Helix.cfg`: one key, which plays every role a key may have (creator of the mint,
  guardian, whoever comes first); one act of each of the fourteen kinds, each asking
  for something that can be refused; two proposals, so that an execution meets the
  effects of another and a handover can be followed by a return; two ticks, enough
  for both to be queued, wait and expire; each executed here or, where the sender may
  choose, on another mint's account. `HelixCallerChoice.cfg` has two minters and the
  two acts that matter.
- `Ingest.cfg`: three transactions, two programs and a batch of two, so that a slot
  can be cut off, re-read and finished; blocks of one or two transactions in two
  slots; two rollbacks, after which a transaction may land in another slot, in
  another order, or never; one crash, at any step. One of the three transactions
  touches both programs.
- `Backfill.cfg`: three transactions, one of them failed and one under both programs,
  three slots, pages of two, one rollback and one crash, at any step. A slot holds
  transactions of one program and `Limit = Page`: without either, finding 4.
  `BackfillGap.cfg` lets a slot hold both programs' and has pages of one.
- `Flow.cfg`: two clusters, wallets and inputs, two positions per cluster and two
  sends, so that a second operation meets the leftovers of a first (all symmetric).
- `CHECK_DEADLOCK FALSE`: at the horizon or with the bounds used up, a treasury whose
  cap is spent, a governance whose proposals are terminal, a `Helix` whose two
  proposals are used, a descent that is complete or a page that waits for a wallet
  that may send no more has no further step.
- Proofs hold for every value of these constants, so the bounds limit TLC only.

### Fairness

Governance's `FairSpec` asks two things. The clock advances: a cluster's does. A
`finalize_proposal` that stays possible is eventually sent: it is permissionless
and its caller needs nothing but a fee, so it takes one interested party, which
is the argument `lifecycle.rs` makes for having no signer check. No fairness is
assumed of voters, guardian, proposers or stakers.

`Ingest` assumes that the loop runs on and that an indexer that ended is started
again, which the binary leaves to whoever runs it: it exits on every source
error. Nothing is assumed of the cluster. `[]<><<Progress>>_vars` is
`WF_vars(Process)`, since exactly one disjunct of `Process` is enabled in every
state, in a form TLC evaluates quickly; the crashes, which also make progress,
are finitely many.

`Backfill` assumes the same of its caller (`WF_backfill_vars(Caller)`): it loops until
complete, as the comment on `step` describes, and is started again when it ends.
Rollbacks and crashes are finitely many, which is what makes a bound that a fork
took away a finite nuisance.

## 4. Proofs

All theorems are proved by TLAPS for arbitrary constants satisfying the named
`ASSUME`s, which type the parameters and say which identities differ.

**`StakingProofs`, the books.** The inductive invariant `IInv` strengthens the checked
invariants with what makes them inductive:

- the pool's totals equal the sums, and each weight is its tier's multiple of
  the principal;
- no watermark is ahead of the accumulator, and `last_update_ts` is not ahead
  of the clock;
- in units of `1/PRECISION`: the sum over positions of
  `weight * (accumulator - watermark) + PRECISION * pending` is at most
  `PRECISION * (accrued - paid)`. One update adds at most
  `total_weighted * floor(emitted * PRECISION / total_weighted)` to the left and
  exactly `emitted * PRECISION` to the right, a settlement only truncates the
  left, and a claim takes the same from both sides;
- liability plus remaining emission is at most the reward vault.

`EveryClaimIsPayable` and `LiabilityCoversClaims` speak of what could be claimed
after an update, so they follow by applying the third fact to the updated pool.
The theorems: `TypeCorrect`, `BooksAlwaysBalance`, `AlwaysSolvent`,
`LiabilityAlwaysCovers`, `ClaimsAlwaysPayable`, `NeverRewinds`, `NeverRecycled`, and
`ExitIsNeverBlocked`: under `IInv`, and while all rewards that ever reached the vault
fit a `u64` (`InflowFits`), an unlocked position passes every check of `unstake`. The
hypothesis is the first remark under what was seen besides the findings, seen from the
proof: the accrued total is at most what reached the vault, so that its checked addition
cannot fail; without it the counter can fill and close the exit. It says nothing of
`total_weighted`, because a withdrawal never raises it.

**The electorate.** `PoolImplementsElectorate`: initial states map to initial states,
and under the invariant every instruction maps to one electorate step or to a stutter.

**The exact shares.** `SharesAlwaysExactToDust` is of `StakingShares`, for pools of any
size. `due` is a multiple of the exact entitlement by `SCALE`, which makes it an
integer; `ScaleSuffices` asks that every total a `u64` holds divides `SCALE` (a
factorial does), so it excludes no pool and no history. Under `IInv`, an instruction
that is not an update leaves what a position could claim, plus what it was paid, where
it was: that is what a settlement before every change of weight buys. An update adds
`weight * floor(emitted * PRECISION / total)` to each position and `due` grows by the
same without the floor; the two differ by less than the weight, and the claim's own
division by less than one.

**`GovernanceProofs`.** The properties are about different moments: the
snapshot is taken at activation, a vote cast later, a withdrawal made between
them, the outcome computed after all of these. `IInv` carries what links them,
per proposal:

- `Covered` and `Tallied`: the *potential* of a position is the weight it voted
  with, or its present weight if it could still vote, or nothing if it opened
  after the boundary. The sum of the potentials is the snapshot at activation. A
  vote turns potential into tally, a withdrawal lowers it, a position opened
  later has none, and a closed address is not reopened below the boundary; so
  the sum never rises, and the tally, which is at most that sum, never exceeds
  the snapshot. This needs the pool's total to be the sum of the weights and ids
  to be unused at and above the counter (`ElectorateInv`).
- `Backed`: a position that voted also keeps its lock past the end of the vote;
  without the lock in it the property is not inductive.
- `Served`: a queued proposal's `eta` is the timelock's floor past the end of
  the vote. It rests on `validate(realm)`, that the realm's parameters are
  always within bounds on every route by which they change.
- `Carried`: an approval threshold of 5001 basis points of a nonzero number of
  decisive votes is a strict majority.

The theorems: `TypeCorrect`, `TurnoutAlwaysWithinSnapshot`, `VotesAlwaysBacked`,
`AlwaysCarriedByMajority`, `TimelockAlwaysServed`, and the action properties
`LifecycleAlwaysRespected` and `AlwaysSelfGoverning`. With
`PoolImplementsElectorate` they hold of governance over the real pool.

`GovernanceImplementsMandate` is the refinement to `Mandate`. Per step it needs
that a proposal moves along one edge of its lifecycle (`OneEdge`), that its
action never changes, and, for a grant, that the delay is within bounds, which
is `validate(realm)` again.

**`TreasuryProofs`.** `IInv` adds to the checked invariants:

- `StreamInv`: every stream has a schedule `create_stream` accepts, with a start
  strictly before its end (the minimum duration is positive, and saturation
  cannot make a short span look long); what was paid had vested; a revocation is
  not in the future; addresses at and above `stream_count` are empty.
- `BudgetInv`: no epoch's recorded spends exceed the cap; those of
  `current_epoch` are at most `spent_this_epoch`; and an epoch with any spend is
  at most `current_epoch`, which is at most the clock's epoch. The last part is
  what makes the lazy reset sound: when the counter restarts at zero, the epoch
  it restarts for has seen no spend.

The arithmetic is in `DivMono`, `ShareBound` and `CurveRises`: the truncated
schedule is monotone and stays within its total, so `claimable_at` never
underflows. `OwedMoves` says that changing one stream moves the sum of what is
owed by that stream's difference. The theorems: `TypeCorrect`,
`StreamsAlwaysFunded`, `EpochBudgetAlwaysHolds`, `NeverClawedBack`,
`TreasuryImplementsEscrow` and `ClaimIsNeverBlocked`. The last has a hypothesis,
`SpansFit`: no schedule is longer than an `i64` holds. Finding 1 is what happens to one
that is, and the proof shows that it is the only obstacle: what is claimable is owed,
what is owed is committed, and what is committed is in the vault.

**`TokenManagerProofs`.** `IInv` is `TypeOK`, `SupplyReconciles` and, per
address, `MinterInv`: the counter covers what was issued in `current_epoch`,
`current_epoch` is not ahead of the clock, nothing was issued in a later epoch,
and an address without an entry never issued. The third part makes the lazy
rollover sound, as in the treasury; it survives revocation and re-enabling
because neither touches the counter or the epoch's length. `TotalsMove` says
that changing one entry moves the sum of the totals by that entry's difference.
The theorems: `TypeCorrect`, `SupplyAlwaysReconciles`, `IssuanceAlwaysWithinCap`, and
`BurnIsNeverBlocked`, which adds that `total_minted` never leaves its `u64`: what is
burned and what remains of the supply were minted.

**`HelixProofs`.** First who holds what. `Moves` says what any one step can do to the
authorities, proposals and observations: one lemma per program, from that program's
own actions. `KInv` then carries:

- `PoolKept`, the heart of it: when the executor has the pool, no successor is
  pending. Only the authority names one, and no execute_* does; so what was read as
  the executor's before the audit is the executor's at it, and for ever (`ReadStays`
  says the same of each of the four reads).
- `Granted`: nothing is queued before a clean audit. So `Released`, which asks for an
  executed proposal, is monotone from there on.
- `SuccessorNamed`: while governance is the mint's admin, a pending key was named by an
  executed proposal. This is why a key that proposed itself before governance
  accepted cannot come back: accepting clears what was pending.
- `SpentElsewhere`: whatever was executed on another mint's account is executed, so
  that `Executed` counts a proposal on one side of `elsewhere` and for good.

An execution with a choice of accounts is split by `HereOrElsewhere`: here it is the
case it always was, and elsewhere `ElsewhereMoves` shows that neither the books nor
what `Executed` counts move.

Then what was done. `BookMoves` says how each book moves with the approvals: either
neither moves, or one execution moves both by what its proposal says, or governance
had given the treasury away. `SInv` adds that before the audit the programs hold
nothing (`Untouched`), so that when it opens both sides are zero. That a CPI that
fails consumes nothing is not an assumption of the proof but of the model, where an
execution is one step as it is one transaction; what is proved is that no refusal,
order or repetition of such steps leaves books and approvals apart. The theorems:
`TypeCorrect`, `KeysAlwaysByMandate`, `AlwaysExactlyAsApproved`.

**`FlowProofs`.** `FInv` links the four places a transaction is in: exactly one answer is
due when the controls are disabled, and it is of the kind the screen says
(`OneAnswerDue`); the preview on screen, the transaction being simulated and the
ref are the same (`PreparedIsShown`); and what is on the way to the wallet is what was
approved (`ApprovedIsSent`). Neither picker is mentioned: the theorems hold whatever
they do. `AnswersAlwaysFindTheirFlow`, `AlwaysSendsWhatWasShown`.

**`IndexerProofs`, the operators.** The filter, the stable sort and the folding of a
batch are recursive functions, and a theorem that takes an operator for a parameter is
out of reach. `RecursionExists` states once, over a *set* of values and a step given as
a function, that such a recursion defines what it seems to; the rest is induction over
the length as a property of a set of numbers. From it come contracts, and nothing
after them looks inside: what a selection or a sort contains and in which order
(`SelectContract`, `SortByContract`), that folding two parts is folding the whole and
that folding what was never seen appends it (`ApplyParts`, `ApplyFolds`).

**The ingestor.** `FinalizedExactly` is not inductive: a poll that is cut off by the limit
inside a slot leaves a cursor of which the slot number says too little. `IInv` says
what it means:

- `LedgerInv`: the chain is ordered by slot and holds a transaction once, and the node
  has forgotten only what the database has.
- `FoldedTo`: everything below the cursor's slot is folded, and in the cursor's own slot
  everything up to the cursor *in the order in which it is listed* (`AppliedBefore`: by
  the first program that lists a transaction, then as the chain has it). That order is
  what makes it sound to drop a batch up to the cursor's signature. It holds of memory
  and database separately (`FinalizedInv`, `StoreInv`).
- `FinalizedInv` also says that whatever the cursor's slot can serve again is in the
  applied set, which is where `load` bringing it back is needed.
- `FetchInv`, between the requests of one batch: what the programs asked so far list,
  up to the finality read before the first of them, is complete, real, and in the order
  of `AppliedBefore`; above it nothing is claimed, since the cluster may still take it
  back.
- `HeadInv` and `LoopInv`: head is the replay over the finalised projection, and memory
  is the database between a commit and the next promotion, and extends it from there.

The poll is the step that needs them all: `NothingBeforeIsLeftOut` shows that what it
promotes leaves no gap below the new cursor, though the batch was merged, dropped from,
cut, and split by a finality that has moved since. The theorems: `IngestTypeCorrect`,
`FinalizedExactlyAlways`, `HeadAlwaysFollows` and `StoreAlwaysExtends`, for any
transactions, programs, blocks, limit, and number of forks, restarts and forgotten
transactions.

**The descent.** `RowsAreAlwaysHistory` needs little: finality only grows, what is final
stays, and `logs_for` reads the slot from the chain of that moment. It holds with no
hypothesis. `NothingIsEverSteppedOver` is about a page that is put together from several
answers, each of a different moment, and cut: `PageInv` says of a transaction `x` that
was final when the page was begun, is below the bound and whose first program has been
asked, that it is `Screened`: the answers hold `x`, or else `Limit` transactions, none
of which the page can rank behind anything older than `x`. The answer of that program
gives as many; answers that follow rank nothing before them; and when the page is cut at
`Limit`, `PageStepsOverNothing` counts: were its oldest entry older than `x`, all
`Limit` of them would be on the page ahead of it, and a page of `Limit` has no room.

Its two hypotheses are exactly the two halves of finding 4, and with either dropped TLC
finds a counterexample. `NoSlotIsShared`: without it "ranks behind" fails inside a slot.
`Limit <= Page`: without it an answer is shorter than the page, there are not `Limit` to
count, and another program's older list fills what is left. `RpcLogSource` asks for at
most 1000, and nothing in `step` keeps its caller's limit within that.

### Only model-checked

- `VotingResolves`, `CatchesUp` and `Completes`: liveness under fairness.

## 5. Not modelled

- **Indexer API** (`api.rs`, `server.rs`, `helix-api`): read-only HTTP over the
  projection; it changes no state.
- **What an event does to the projection's rows, and the parsing of log text**: pure
  functions of one transaction, unit-tested there. In the models a projection is the
  sequence of what was folded, which is what can be lost, repeated or reordered.
- **The store's columns and migrations**, the list of orphans, the in-memory sink and
  `--once`. `commit` and `load`, where a crash matters, are in `Ingest`.
- **The paging of one program's new signatures** (above 1000) in `signatures_after`,
  JSON and the transport.
- **Other panels of the app** use the same flow with other builders; the builders and
  views are pure.
- **Bumps, events, titles, URIs, `created_at`** in the programs: nothing reads them.
- **Generated IDL, test harness and scripts.**
