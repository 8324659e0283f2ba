----------------------------- MODULE StakingPool -----------------------------
(***************************************************************************)
(* programs/staking: one pool, its positions, its two vaults and the clock *)
(* every instruction reads.  An instruction is one atomic transaction, so  *)
(* it is one action: the guard collects its require! checks, its account   *)
(* constraints, the failures of its checked arithmetic and of its token    *)
(* transfer; any of them failing reverts the whole transaction.            *)
(*                                                                         *)
(* Operators keep the names of the Rust functions they translate.          *)
(***************************************************************************)
EXTENDS Integers, FiniteSums

CONSTANTS
    Accounts,           \* the keys that sign: stakers and pool authorities
    Nobody,             \* the absence of a key (None, or a closed account)
    SECONDS_PER_DAY,    \* constants.rs, scaled down in the small instances
    PRECISION,
    MAX_REWARD_RATE,
    MIN_STAKE_AMOUNT,
    U64_MAX,            \* the largest token amount, and the largest counter
    Tiers,              \* tiers a caller may pass to stake
    Amounts,            \* amounts a caller may pass to stake
    Fundings,           \* amounts a caller may pass to fund_rewards
    Donations,          \* amounts sent to a vault outside the program
    Withdrawals,        \* partial amounts a caller may pass to unstake
    Fees,               \* what a Token-2022 transfer fee may withhold
    Rates,              \* rates a caller may pass to set_reward_rate
    PeriodEnds,         \* period ends a caller may pass to set_reward_rate
    TimeSteps,          \* seconds the clock may jump between transactions
    MaxTime,            \* bound on the clock
    MaxPositions,       \* bound on position_count
    MaxFunded,          \* bound on total_rewards_funded
    MaxDonated          \* bound on what the two vaults receive in Donations

ASSUME AccountsAssumption == Nobody \notin Accounts

ASSUME ScaleAssumption ==
    /\ SECONDS_PER_DAY \in Nat
    /\ PRECISION \in Nat \ {0}
    /\ MAX_REWARD_RATE \in Nat
    /\ MIN_STAKE_AMOUNT \in Nat
    /\ U64_MAX \in Nat

ASSUME InputAssumption ==
    /\ Amounts \subseteq Nat
    /\ Fundings \subseteq Nat
    /\ Donations \subseteq Nat
    /\ Withdrawals \subseteq Nat
    /\ Fees \subseteq Nat
    /\ Rates \subseteq Nat
    /\ PeriodEnds \subseteq Nat
    /\ TimeSteps \subseteq Nat

ASSUME BoundAssumption ==
    /\ MaxTime \in Nat
    /\ MaxPositions \in Nat
    /\ MaxFunded \in Nat
    /\ MaxDonated \in Nat

VARIABLES
    pool,           \* the Pool account
    positions,      \* position id -> the Position account at that PDA
    stake_vault,    \* balance of the stake vault's token account
    reward_vault,   \* balance of the reward vault's token account
    now             \* Clock::unix_timestamp

vars == <<pool, positions, stake_vault, reward_vault, now>>

PositionIds == 0 .. MaxPositions - 1

-----------------------------------------------------------------------------
(* Lock tiers. *)

LockTier == {"Flexible", "Bronze", "Silver", "Gold"}

ASSUME TiersAssumption == Tiers \subseteq LockTier

duration ==
    [Flexible |-> 0,
     Bronze   |-> 30 * SECONDS_PER_DAY,
     Silver   |-> 90 * SECONDS_PER_DAY,
     Gold     |-> 180 * SECONDS_PER_DAY]

BPS_DENOMINATOR == 10000

weight_bps ==
    [Flexible |-> 10000, Bronze |-> 12500, Silver |-> 15000, Gold |-> 20000]

apply_weight(tier, amount) == (amount * weight_bps[tier]) \div BPS_DENOMINATOR

-----------------------------------------------------------------------------
(* State. *)

Pool ==
    [authority             : Accounts,
     pending_authority     : Accounts \cup {Nobody},
     total_staked          : Nat,
     total_weighted        : Nat,
     reward_rate           : Nat,
     reward_period_end     : Nat,
     reward_per_token      : Nat,
     last_update_ts        : Nat,
     total_rewards_funded  : Nat,
     total_rewards_accrued : Nat,
     total_rewards_paid    : Nat,
     position_count        : Nat,
     paused                : BOOLEAN]

Position ==
    [owner                 : Accounts \cup {Nobody},
     amount                : Nat,
     weighted_amount       : Nat,
     tier                  : LockTier,
     lock_end              : Nat,
     reward_per_token_paid : Nat,
     pending_rewards       : Nat]

\* An address no position occupies: never opened, or closed.
NoPosition ==
    [owner |-> Nobody, amount |-> 0, weighted_amount |-> 0, tier |-> "Flexible",
     lock_end |-> 0, reward_per_token_paid |-> 0, pending_rewards |-> 0]

Exists(id) == positions[id].owner # Nobody

-----------------------------------------------------------------------------
(* Reward accounting. *)

min(a, b) == IF a <= b THEN a ELSE b
max(a, b) == IF a <= b THEN b ELSE a

\* Mutants of Elapsed: emissions that run on after the period, and an interval
\* that may be negative once the period is over.
Elapsed_uncapped(p, t) ==
    IF t > p.last_update_ts /\ p.total_weighted > 0 THEN t - p.last_update_ts ELSE 0

Elapsed_unordered(p, t) ==
    IF p.total_weighted > 0 THEN min(t, p.reward_period_end) - p.last_update_ts ELSE 0

\* The seconds update_rewards distributes for: none after the period ends and
\* none while nothing is staked, when the interval is forfeited.
Elapsed(p, t) ==
    LET effective_now == min(t, p.reward_period_end)
    IN  IF effective_now > p.last_update_ts /\ p.total_weighted > 0
        THEN effective_now - p.last_update_ts
        ELSE 0

Emitted(p, t) == Elapsed(p, t) * p.reward_rate

\* A mutant of RewardDelta: it rounds up.
RewardDelta_up(p, t) ==
    IF Elapsed(p, t) > 0
    THEN (Emitted(p, t) * PRECISION + p.total_weighted - 1) \div p.total_weighted
    ELSE 0

\* The truncated advance of the accumulator.
RewardDelta(p, t) ==
    IF Elapsed(p, t) > 0 THEN (Emitted(p, t) * PRECISION) \div p.total_weighted ELSE 0

update_rewards(p, t) ==
    [p EXCEPT !.reward_per_token      = @ + RewardDelta(p, t),
              !.total_rewards_accrued = @ + Emitted(p, t),
              !.last_update_ts        = max(@, t)]

unpaid_liability(p) == p.total_rewards_accrued - p.total_rewards_paid

\* A mutant of emission_for: one second's emission instead of the period's.
emission_for_a_second(p, rate, from) ==
    IF p.reward_period_end <= from THEN 0 ELSE rate

emission_for(p, rate, from) ==
    IF p.reward_period_end <= from THEN 0 ELSE (p.reward_period_end - from) * rate

earned(position, reward_per_token) ==
    (position.weighted_amount * (reward_per_token - position.reward_per_token_paid))
        \div PRECISION
      + position.pending_rewards

\* A mutant of CanSettle: nothing new to settle is refused.
CanSettle_strict(position, reward_per_token) ==
    reward_per_token > position.reward_per_token_paid

\* settle fails when the accumulator is behind the position's watermark.
CanSettle(position, reward_per_token) ==
    reward_per_token >= position.reward_per_token_paid

settle(position, reward_per_token) ==
    [position EXCEPT !.pending_rewards = earned(position, reward_per_token),
                     !.reward_per_token_paid = reward_per_token]

\* A mutant of is_unlocked: a pause lets everyone out early.
is_unlocked_when_paused(position) == now >= position.lock_end \/ pool.paused

is_unlocked(position) == now >= position.lock_end

can_vote_until(position, voting_ends_at) == position.lock_end >= voting_ends_at

is_closable(position) ==
    /\ position.amount = 0
    /\ position.weighted_amount = 0
    /\ position.pending_rewards = 0

-----------------------------------------------------------------------------
(* The instructions.                                                       *)
(*                                                                         *)
(* Checked u64 arithmetic is a guard where a transaction can really reach  *)
(* it: on the lifetime counters and on weights.  Every other overflow is   *)
(* excluded by the token program, which keeps balances within a u64.       *)

Fits(n) == n <= U64_MAX

\* update_rewards reverts the transaction when the lifetime counter overflows.
CanAdvance(p, t) == Fits(update_rewards(p, t).total_rewards_accrued)

initial_pool(authority, t) ==
    [authority             |-> authority,
     pending_authority     |-> Nobody,
     total_staked          |-> 0,
     total_weighted        |-> 0,
     reward_rate           |-> 0,
     reward_period_end     |-> t,
     reward_per_token      |-> 0,
     last_update_ts        |-> t,
     total_rewards_funded  |-> 0,
     total_rewards_accrued |-> 0,
     total_rewards_paid    |-> 0,
     position_count        |-> 0,
     paused                |-> FALSE]

\* initialize_pool has run; its caller chose the authority.
Init ==
    /\ \E authority \in Accounts : pool = initial_pool(authority, 0)
    /\ positions = [id \in PositionIds |-> NoPosition]
    /\ stake_vault = 0
    /\ reward_vault = 0
    /\ now = 0

\* What a vault observes of a transfer of amount: a fee-bearing mint withholds
\* part of it.  Both callers refuse a transfer that credits nothing.
Credits(amount) == {amount - fee : fee \in {f \in Fees : f < amount}}

new_position(owner, credited, tier, p) ==
    [owner |-> owner,
     amount |-> credited,
     weighted_amount |-> apply_weight(tier, credited),
     tier |-> tier,
     lock_end |-> now + duration[tier],
     reward_per_token_paid |-> p.reward_per_token,
     pending_rewards |-> 0]

stake(owner, id, amount, credited, tier) ==
    LET settled == update_rewards(pool, now)
        weighted == apply_weight(tier, credited)
    IN  /\ ~pool.paused
        /\ amount >= MIN_STAKE_AMOUNT
        /\ id = pool.position_count
        /\ ~Exists(id)
        /\ CanAdvance(pool, now)
        /\ Fits(stake_vault + credited)
        /\ Fits(settled.total_weighted + weighted)
        /\ stake_vault' = stake_vault + credited
        /\ positions' = [positions EXCEPT ![id] = new_position(owner, credited, tier, settled)]
        /\ pool' = [settled EXCEPT !.total_staked   = @ + credited,
                                   !.total_weighted = @ + weighted,
                                   !.position_count = @ + 1]
        /\ UNCHANGED <<reward_vault, now>>

\* A mutant of withdrawn: the weight is not recomputed.
withdrawn_keeps_weight(position, amount, reward_per_token) ==
    [settle(position, reward_per_token) EXCEPT !.amount = @ - amount]

\* A mutant of withdrawn: settled at the weight that remains.
withdrawn_then_settled(position, amount, reward_per_token) ==
    settle([position EXCEPT
                !.amount = @ - amount,
                !.weighted_amount = apply_weight(position.tier, position.amount - amount)],
           reward_per_token)

\* The position after amount leaves it: settled at the old weight, its weight
\* recomputed from what remains.
withdrawn(position, amount, reward_per_token) ==
    [settle(position, reward_per_token) EXCEPT
        !.amount = @ - amount,
        !.weighted_amount = apply_weight(position.tier, position.amount - amount)]

\* Everything a withdrawal can fail on; the pause is not among it.
CanUnstake(signer, id, amount) ==
    LET settled == update_rewards(pool, now)
        before == positions[id]
        after == withdrawn(before, amount, settled.reward_per_token)
        weight_removed == before.weighted_amount - after.weighted_amount
    IN  /\ Exists(id) /\ signer = before.owner
        /\ amount > 0
        /\ is_unlocked(before)
        /\ amount <= before.amount
        /\ CanAdvance(pool, now)
        /\ CanSettle(before, settled.reward_per_token)
        /\ amount <= stake_vault
        /\ 0 <= weight_removed /\ weight_removed <= settled.total_weighted
        /\ amount <= settled.total_staked

unstake(signer, id, amount) ==
    LET settled == update_rewards(pool, now)
        before == positions[id]
        after == withdrawn(before, amount, settled.reward_per_token)
        weight_removed == before.weighted_amount - after.weighted_amount
    IN  /\ CanUnstake(signer, id, amount)
        /\ positions' = [positions EXCEPT ![id] = after]
        /\ stake_vault' = stake_vault - amount
        /\ pool' = [settled EXCEPT !.total_staked   = @ - amount,
                                   !.total_weighted = @ - weight_removed]
        /\ UNCHANGED <<reward_vault, now>>

\* The transfer and the zeroing are one transaction: pending_rewards is never
\* seen between them.
claim(signer, id) ==
    LET settled == update_rewards(pool, now)
        amount == earned(positions[id], settled.reward_per_token)
    IN  /\ Exists(id) /\ signer = positions[id].owner
        /\ CanAdvance(pool, now)
        /\ CanSettle(positions[id], settled.reward_per_token)
        /\ amount > 0
        /\ amount <= reward_vault
        /\ reward_vault' = reward_vault - amount
        /\ positions' = [positions EXCEPT
             ![id] = [settle(@, settled.reward_per_token) EXCEPT !.pending_rewards = 0]]
        /\ pool' = [settled EXCEPT !.total_rewards_paid = @ + amount]
        /\ UNCHANGED <<stake_vault, now>>

\* A mutant of close_position: the id is given back.
close_position_recycles(signer, id) ==
    /\ Exists(id) /\ signer = positions[id].owner
    /\ is_closable(positions[id])
    /\ positions' = [positions EXCEPT ![id] = NoPosition]
    /\ pool' = [pool EXCEPT !.position_count = @ - 1]
    /\ UNCHANGED <<stake_vault, reward_vault, now>>

\* The pool account is read-only here: position_count in particular stays.
close_position(signer, id) ==
    /\ Exists(id) /\ signer = positions[id].owner
    /\ is_closable(positions[id])
    /\ positions' = [positions EXCEPT ![id] = NoPosition]
    /\ UNCHANGED <<pool, stake_vault, reward_vault, now>>

fund_rewards(credited) ==
    /\ Fits(reward_vault + credited)
    /\ Fits(pool.total_rewards_funded + credited)
    /\ reward_vault' = reward_vault + credited
    /\ pool' = [pool EXCEPT !.total_rewards_funded = @ + credited]
    /\ UNCHANGED <<positions, stake_vault, now>>

set_reward_rate(signer, new_rate, period_end) ==
    LET settled == [update_rewards(pool, now) EXCEPT !.reward_period_end = period_end]
        outstanding == unpaid_liability(settled)
        committed == emission_for(settled, new_rate, now)
    IN  /\ signer = pool.authority
        /\ new_rate <= MAX_REWARD_RATE
        /\ period_end >= now
        /\ CanAdvance(pool, now)
        /\ outstanding >= 0
        /\ outstanding + committed <= reward_vault
        /\ pool' = [settled EXCEPT !.reward_rate = new_rate]
        /\ UNCHANGED <<positions, stake_vault, reward_vault, now>>

set_paused(signer, paused) ==
    /\ signer = pool.authority
    /\ pool' = [pool EXCEPT !.paused = paused]
    /\ UNCHANGED <<positions, stake_vault, reward_vault, now>>

propose_authority(signer, new_authority) ==
    /\ signer = pool.authority
    /\ pool' = [pool EXCEPT !.pending_authority = new_authority]
    /\ UNCHANGED <<positions, stake_vault, reward_vault, now>>

accept_authority(signer) ==
    /\ pool.pending_authority # Nobody
    /\ signer = pool.pending_authority
    /\ pool' = [pool EXCEPT !.authority = signer, !.pending_authority = Nobody]
    /\ UNCHANGED <<positions, stake_vault, reward_vault, now>>

-----------------------------------------------------------------------------
(* The environment: the cluster's clock, and tokens anyone may send to a   *)
(* vault's address without going through the program (MaxDonated in all).  *)

Tick(step) ==
    /\ step > 0
    /\ now + step <= MaxTime
    /\ now' = now + step
    /\ UNCHANGED <<pool, positions, stake_vault, reward_vault>>

Donated == (stake_vault - pool.total_staked)
             + (reward_vault + pool.total_rewards_paid - pool.total_rewards_funded)

DonateStake(amount) ==
    /\ Fits(stake_vault + amount)
    /\ Donated + amount <= MaxDonated
    /\ stake_vault' = stake_vault + amount
    /\ UNCHANGED <<pool, positions, reward_vault, now>>

\* A treasury transfer paid straight to the reward vault is one of these.
DonateReward(amount) ==
    /\ Fits(reward_vault + amount)
    /\ Donated + amount <= MaxDonated
    /\ reward_vault' = reward_vault + amount
    /\ UNCHANGED <<pool, positions, stake_vault, now>>

Next ==
    \/ \E owner \in Accounts, id \in PositionIds, amount \in Amounts, tier \in Tiers :
         \E credited \in Credits(amount) : stake(owner, id, amount, credited, tier)
    \/ \E signer \in Accounts, id \in PositionIds :
         \E amount \in Withdrawals \cup {positions[id].amount} : unstake(signer, id, amount)
    \/ \E signer \in Accounts, id \in PositionIds : claim(signer, id)
    \/ \E signer \in Accounts, id \in PositionIds : close_position(signer, id)
    \/ \E amount \in Fundings : \E credited \in Credits(amount) :
         /\ pool.total_rewards_funded + credited <= MaxFunded
         /\ fund_rewards(credited)
    \/ \E signer \in Accounts, rate \in Rates, end \in PeriodEnds :
         set_reward_rate(signer, rate, end)
    \/ \E signer \in Accounts, paused \in BOOLEAN : set_paused(signer, paused)
    \/ \E signer, successor \in Accounts : propose_authority(signer, successor)
    \/ \E signer \in Accounts : accept_authority(signer)
    \/ \E step \in TimeSteps : Tick(step)
    \/ \E amount \in Donations : DonateStake(amount)
    \/ \E amount \in Donations : DonateReward(amount)

Spec == Init /\ [][Next]_vars

-----------------------------------------------------------------------------
(* Properties. *)

TypeOK ==
    /\ pool \in Pool
    /\ positions \in [PositionIds -> Position]
    /\ stake_vault \in Nat
    /\ reward_vault \in Nat
    /\ now \in Nat

\* Every position's principal and weight, as functions of the position id.
Principal == [id \in PositionIds |-> positions[id].amount]
Weight == [id \in PositionIds |-> positions[id].weighted_amount]

\* INVARIANTS.md 1.1, 1.3, 1.4: after any sequence of deposits on fee-bearing
\* mints, partial withdrawals and closes, the pool's two totals are exactly the
\* sums over the open positions, each position's weight is exactly its tier's
\* multiple of its remaining principal, and the vault holds the principal.
BooksBalance ==
    /\ pool.total_staked = SumTo(Principal, MaxPositions)
    /\ pool.total_weighted = SumTo(Weight, MaxPositions)
    /\ \A id \in PositionIds :
         Weight[id] = apply_weight(positions[id].tier, positions[id].amount)
    /\ pool.total_staked <= stake_vault

\* What each position could claim if it claimed now.
Claimable ==
    [id \in PositionIds |->
        earned(positions[id], update_rewards(pool, now).reward_per_token)]

\* INVARIANTS.md 1.2: whatever the order of claims, withdrawals and rate changes,
\* the vault can pay every position everything it has earned up to now.
EveryClaimIsPayable == SumTo(Claimable, MaxPositions) <= reward_vault

\* The promise set_reward_rate checks once holds ever after: what has accrued
\* and is unpaid, plus all the emissions the current rate still commits to.
Solvent ==
    unpaid_liability(pool)
      + emission_for(pool, pool.reward_rate, pool.last_update_ts) <= reward_vault

\* INVARIANTS.md 3.2: booked liability never understates what is claimable, so
\* accrued - paid can never underflow in set_reward_rate.
LiabilityCoversClaims ==
    SumTo(Claimable, MaxPositions) <= unpaid_liability(update_rewards(pool, now))

\* INVARIANTS.md 6.2, 6.4: an unlocked position can always be withdrawn in full
\* by its owner: no pause, book, watermark or vault balance stands in the way.
ExitNeverBlocked ==
    \A id \in PositionIds :
        Exists(id) /\ is_unlocked(positions[id]) /\ positions[id].amount > 0
            => CanUnstake(positions[id].owner, id, positions[id].amount)

\* close_position.rs: an id is never recycled.  A position appears only at the
\* counter, above every id ever used, whatever was closed before; governance's
\* electorate boundary rests on it.
IdsNeverRecycled ==
    [][/\ pool'.position_count >= pool.position_count
       /\ \A id \in PositionIds :
            ~Exists(id) /\ Exists(id)' => /\ id >= pool.position_count
                                          /\ id < pool'.position_count]_vars

\* INVARIANTS.md 3.1, 3.6: the accumulator, its clock and the lifetime totals
\* never move backwards.
AccumulatorNeverRewinds ==
    [][/\ pool'.reward_per_token >= pool.reward_per_token
       /\ pool'.last_update_ts >= pool.last_update_ts
       /\ pool'.total_rewards_accrued >= pool.total_rewards_accrued
       /\ pool'.total_rewards_paid >= pool.total_rewards_paid]_vars
=============================================================================
