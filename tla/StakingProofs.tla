---------------------------- MODULE StakingProofs ----------------------------
(***************************************************************************)
(* What holds of the staking pool for every value of its constants: the    *)
(* books and the vaults, what governance's electorate sees of it, and what *)
(* its truncating accumulator is worth next to the exact distribution.     *)
(***************************************************************************)
EXTENDS StakingShares, FiniteSumLemmas, TLAPS

-----------------------------------------------------------------------------
(* Arithmetic. *)

\* Truncating division of naturals: the quotient never exceeds its share.
LEMMA DivNat ==
    ASSUME NEW a \in Nat, NEW b \in Nat \ {0}
    PROVE  a \div b \in Nat /\ b * (a \div b) <= a
  OBVIOUS

LEMMA TimesNat ==
    ASSUME NEW a \in Nat, NEW b \in Nat
    PROVE  a * b \in Nat
  OBVIOUS

\* Splitting an interval splits what is emitted over it.
LEMMA SplitEmission ==
    ASSUME NEW rate \in Nat, NEW a \in Int, NEW b \in Int, NEW c \in Int
    PROVE  (c - a) * rate = (b - a) * rate + (c - b) * rate
  OBVIOUS

LEMMA WeightType ==
    ASSUME NEW tier \in LockTier, NEW amount \in Nat
    PROVE  apply_weight(tier, amount) \in Nat
  BY DivNat DEF apply_weight, weight_bps, BPS_DENOMINATOR, LockTier

\* More principal never weighs less.
LEMMA WeightMono ==
    ASSUME NEW tier \in LockTier, NEW a \in Nat, NEW b \in Nat, a <= b
    PROVE  apply_weight(tier, a) <= apply_weight(tier, b)
  BY DEF apply_weight, weight_bps, BPS_DENOMINATOR, LockTier

LEMMA WeightOfNothing ==
    ASSUME NEW tier \in LockTier
    PROVE  apply_weight(tier, 0) = 0
  BY DEF apply_weight, weight_bps, BPS_DENOMINATOR, LockTier

LEMMA DurationType == \A tier \in LockTier : duration[tier] \in Nat
  BY ScaleAssumption DEF duration, LockTier

-----------------------------------------------------------------------------
(* update_rewards. *)

LEMMA ElapsedType ==
    ASSUME NEW p \in Pool, NEW t \in Nat
    PROVE  /\ Elapsed(p, t) \in Nat
           /\ Elapsed(p, t) > 0 =>
                /\ p.total_weighted > 0
                /\ Elapsed(p, t) = min(t, p.reward_period_end) - p.last_update_ts
  BY DEF Pool, Elapsed, min

LEMMA EmittedType ==
    ASSUME NEW p \in Pool, NEW t \in Nat
    PROVE  Emitted(p, t) \in Nat
<1>1. p.reward_rate \in Nat
  BY DEF Pool
<1>. QED BY <1>1, ElapsedType, TimesNat DEF Emitted

\* What the accumulator distributes is never more than what was emitted.
LEMMA DeltaBound ==
    ASSUME NEW p \in Pool, NEW t \in Nat
    PROVE  /\ RewardDelta(p, t) \in Nat
           /\ RewardDelta(p, t) * p.total_weighted <= PRECISION * Emitted(p, t)
<1>1. p.total_weighted \in Nat /\ Emitted(p, t) \in Nat
  BY EmittedType DEF Pool
<1>2. Emitted(p, t) * PRECISION \in Nat
  BY <1>1, ScaleAssumption, TimesNat
<1>3. Emitted(p, t) * PRECISION = PRECISION * Emitted(p, t)
  BY <1>1, ScaleAssumption
<1>4. CASE Elapsed(p, t) > 0
  <2>1. p.total_weighted \in Nat \ {0}
    BY <1>1, <1>4, ElapsedType
  <2> DEFINE q == (Emitted(p, t) * PRECISION) \div p.total_weighted
  <2>2. q \in Nat /\ p.total_weighted * q <= Emitted(p, t) * PRECISION
    BY <1>2, <2>1, DivNat
  <2>3. RewardDelta(p, t) = q
    BY <1>4 DEF RewardDelta
  <2> HIDE DEF q
  <2>4. q * p.total_weighted = p.total_weighted * q
    BY <2>1, <2>2
  <2>. QED BY <2>2, <2>3, <2>4, <1>3
<1>5. CASE ~(Elapsed(p, t) > 0)
  <2>1. RewardDelta(p, t) = 0
    BY <1>5 DEF RewardDelta
  <2>2. 0 * p.total_weighted = 0
    BY <1>1
  <2>. QED BY <2>1, <2>2, <1>2, <1>3
<1>. QED BY <1>4, <1>5

\* update_rewards field by field.
LEMMA UpdateFields ==
    ASSUME NEW p \in Pool, NEW t \in Nat
    PROVE  LET q == update_rewards(p, t) IN
           /\ q \in Pool
           /\ q.reward_per_token = p.reward_per_token + RewardDelta(p, t)
           /\ q.total_rewards_accrued = p.total_rewards_accrued + Emitted(p, t)
           /\ q.last_update_ts = max(p.last_update_ts, t)
           /\ q.total_staked = p.total_staked
           /\ q.total_weighted = p.total_weighted
           /\ q.total_rewards_paid = p.total_rewards_paid
           /\ q.reward_rate = p.reward_rate
           /\ q.reward_period_end = p.reward_period_end
           /\ q.position_count = p.position_count
<1>1. /\ RewardDelta(p, t) \in Nat
      /\ Emitted(p, t) \in Nat
      /\ max(p.last_update_ts, t) \in Nat
  BY DeltaBound, EmittedType DEF Pool, max
<1>2. update_rewards(p, t) =
        [p EXCEPT !.reward_per_token      = @ + RewardDelta(p, t),
                  !.total_rewards_accrued = @ + Emitted(p, t),
                  !.last_update_ts        = max(p.last_update_ts, t)]
  BY Zenon DEF update_rewards
<1> DEFINE d == RewardDelta(p, t)
           e == Emitted(p, t)
           m == max(p.last_update_ts, t)
<1> HIDE DEF d, e, m
<1> DEFINE r == [p EXCEPT !.reward_per_token = @ + d, !.total_rewards_accrued = @ + e,
                          !.last_update_ts = m]
<1>3. d \in Nat /\ e \in Nat /\ m \in Nat
  BY <1>1 DEF d, e, m
<1>4. update_rewards(p, t) = r
  BY <1>2, Zenon DEF d, e, m
<1>5. r \in Pool
  <2>1. /\ p.reward_per_token + d \in Nat
        /\ p.total_rewards_accrued + e \in Nat
    BY <1>3 DEF Pool
  <2>. QED BY <1>3, <2>1, Zenon DEF Pool
<1>6. /\ r.reward_per_token = p.reward_per_token + d
      /\ r.total_rewards_accrued = p.total_rewards_accrued + e
      /\ r.last_update_ts = m
      /\ r.total_staked = p.total_staked
      /\ r.total_weighted = p.total_weighted
      /\ r.total_rewards_paid = p.total_rewards_paid
      /\ r.reward_rate = p.reward_rate
      /\ r.reward_period_end = p.reward_period_end
      /\ r.position_count = p.position_count
  BY DEF Pool
<1> HIDE DEF r
<1>. QED BY <1>4, <1>5, <1>6 DEF d, e, m

-----------------------------------------------------------------------------
(* Positions. *)

\* What a position may claim once settled at rpt, scaled by PRECISION and
\* without truncation: the quantity the liability invariant adds up.
Debt(position, rpt) ==
    PRECISION * position.pending_rewards
      + position.weighted_amount * (rpt - position.reward_per_token_paid)

LEMMA EarnedBound ==
    ASSUME NEW position \in Position, NEW rpt \in Nat, CanSettle(position, rpt)
    PROVE  /\ earned(position, rpt) \in Nat
           /\ Debt(position, rpt) \in Nat
           /\ PRECISION * earned(position, rpt) <= Debt(position, rpt)
<1> DEFINE w == position.weighted_amount
           gap == rpt - position.reward_per_token_paid
           pending == position.pending_rewards
           share == (w * gap) \div PRECISION
<1>1. w \in Nat /\ gap \in Nat /\ pending \in Nat
  BY DEF Position, CanSettle
<1>2. w * gap \in Nat
  BY <1>1, TimesNat
<1>3. share \in Nat /\ PRECISION * share <= w * gap
  BY <1>2, ScaleAssumption, DivNat
<1>4. earned(position, rpt) = share + pending
  BY DEF earned
<1>5. Debt(position, rpt) = PRECISION * pending + w * gap
  BY DEF Debt
<1>6. PRECISION * pending \in Nat /\ PRECISION \in Nat
  BY <1>1, ScaleAssumption, TimesNat
<1> HIDE DEF w, gap, pending, share
<1>7. PRECISION * (share + pending) = PRECISION * share + PRECISION * pending
  BY <1>1, <1>3, <1>6
<1>8. PRECISION * share \in Nat
  BY <1>3, <1>6, TimesNat
<1> DEFINE x == w * gap
           y == PRECISION * pending
           z == PRECISION * share
<1> HIDE DEF x, y, z
<1>9. z + y <= y + x /\ y + x \in Nat
  BY <1>2, <1>3, <1>6, <1>8 DEF x, y, z
<1>. QED BY <1>1, <1>3, <1>4, <1>5, <1>7, <1>9 DEF x, y, z

LEMMA SettleFields ==
    ASSUME NEW position \in Position, NEW rpt \in Nat, CanSettle(position, rpt)
    PROVE  /\ settle(position, rpt) \in Position
           /\ settle(position, rpt).pending_rewards = earned(position, rpt)
           /\ settle(position, rpt).reward_per_token_paid = rpt
           /\ settle(position, rpt).weighted_amount = position.weighted_amount
           /\ settle(position, rpt).amount = position.amount
           /\ settle(position, rpt).owner = position.owner
           /\ settle(position, rpt).tier = position.tier
<1>1. earned(position, rpt) \in Nat
  BY EarnedBound
<1>2. settle(position, rpt) \in Position
  BY <1>1, Zenon DEF settle, Position
<1> DEFINE e == earned(position, rpt)
<1>3. settle(position, rpt) =
        [position EXCEPT !.pending_rewards = e, !.reward_per_token_paid = rpt]
  BY DEF settle
<1> HIDE DEF e
<1>4. /\ settle(position, rpt).pending_rewards = e
      /\ settle(position, rpt).reward_per_token_paid = rpt
      /\ settle(position, rpt).weighted_amount = position.weighted_amount
      /\ settle(position, rpt).amount = position.amount
      /\ settle(position, rpt).owner = position.owner
      /\ settle(position, rpt).tier = position.tier
  BY <1>3 DEF Position
<1>. QED BY <1>2, <1>4 DEF e

LEMMA WithdrawnFields ==
    ASSUME NEW position \in Position, NEW rpt \in Nat, CanSettle(position, rpt),
           NEW amount \in Nat, amount <= position.amount
    PROVE  LET after == withdrawn(position, amount, rpt) IN
           /\ after \in Position
           /\ after.pending_rewards = earned(position, rpt)
           /\ after.reward_per_token_paid = rpt
           /\ after.amount = position.amount - amount
           /\ after.weighted_amount = apply_weight(position.tier, position.amount - amount)
           /\ after.owner = position.owner
           /\ after.tier = position.tier
<1>1. position.amount - amount \in Nat /\ position.tier \in LockTier
  BY DEF Position
<1>2. apply_weight(position.tier, position.amount - amount) \in Nat
  BY <1>1, WeightType
<1> DEFINE s == settle(position, rpt)
           w == apply_weight(position.tier, position.amount - amount)
<1>3. /\ s \in Position
      /\ s.pending_rewards = earned(position, rpt)
      /\ s.reward_per_token_paid = rpt
      /\ s.amount = position.amount
      /\ s.owner = position.owner
      /\ s.tier = position.tier
  BY SettleFields
<1>4. withdrawn(position, amount, rpt) =
        [s EXCEPT !.amount = @ - amount, !.weighted_amount = w]
  BY DEF withdrawn
<1>5. w \in Nat
  BY <1>2
<1> HIDE DEF s, w
<1>6. withdrawn(position, amount, rpt) \in Position
  <2>1. s.amount - amount \in Nat
    BY <1>1, <1>3
  <2>. QED BY <1>3, <1>4, <1>5, <2>1, Zenon DEF Position
<1>7. /\ withdrawn(position, amount, rpt).pending_rewards = s.pending_rewards
      /\ withdrawn(position, amount, rpt).reward_per_token_paid = s.reward_per_token_paid
      /\ withdrawn(position, amount, rpt).amount = s.amount - amount
      /\ withdrawn(position, amount, rpt).weighted_amount = w
      /\ withdrawn(position, amount, rpt).owner = s.owner
      /\ withdrawn(position, amount, rpt).tier = s.tier
  BY <1>3, <1>4 DEF Position
<1>. QED BY <1>3, <1>6, <1>7 DEF w

-----------------------------------------------------------------------------
(* What each instruction leaves behind, field by field. *)

\* p and q agree on everything the reward accounting reads, but for what was paid.
SameAccrual(p, q) ==
    /\ p.reward_per_token = q.reward_per_token
    /\ p.total_rewards_accrued = q.total_rewards_accrued
    /\ p.last_update_ts = q.last_update_ts
    /\ p.reward_rate = q.reward_rate
    /\ p.reward_period_end = q.reward_period_end

LEMMA StakeEffect ==
    ASSUME TypeOK, NEW owner \in Accounts, NEW id \in PositionIds, NEW amount \in Nat,
           NEW credited \in Nat, NEW tier \in LockTier,
           stake(owner, id, amount, credited, tier)
    PROVE  /\ TypeOK'
           /\ SameAccrual(pool', update_rewards(pool, now))
           /\ pool'.total_rewards_paid = pool.total_rewards_paid
           /\ pool'.total_staked = pool.total_staked + credited
           /\ pool'.total_weighted = pool.total_weighted + apply_weight(tier, credited)
           /\ positions'[id] = new_position(owner, credited, tier, update_rewards(pool, now))
           /\ positions'[id] \in Position
<1> DEFINE q == update_rewards(pool, now)
           weighted == apply_weight(tier, credited)
<1>1. /\ q \in Pool
      /\ q.total_staked = pool.total_staked
      /\ q.total_weighted = pool.total_weighted
      /\ q.total_rewards_paid = pool.total_rewards_paid
  BY UpdateFields DEF TypeOK
<1>2. weighted \in Nat
  BY WeightType
<1>3. /\ pool' = [q EXCEPT !.total_staked = @ + credited,
                           !.total_weighted = @ + weighted,
                           !.position_count = @ + 1]
      /\ positions' = [positions EXCEPT ![id] = new_position(owner, credited, tier, q)]
      /\ stake_vault' = stake_vault + credited
      /\ reward_vault' = reward_vault
      /\ now' = now
  BY DEF stake
<1>4. new_position(owner, credited, tier, q) \in Position
  <2>1. now + duration[tier] \in Nat /\ q.reward_per_token \in Nat
    BY <1>1, DurationType DEF TypeOK, Pool
  <2>. QED BY <1>2, <2>1 DEF new_position, Position
<1> HIDE DEF q, weighted
<1>5. pool' \in Pool
  <2>1. /\ q.total_staked + credited \in Nat
        /\ q.total_weighted + weighted \in Nat
        /\ q.position_count + 1 \in Nat
    BY <1>1, <1>2 DEF Pool
  <2>. QED BY <1>1, <1>3, <2>1, Zenon DEF Pool
<1>6. /\ pool'.total_staked = q.total_staked + credited
      /\ pool'.total_weighted = q.total_weighted + weighted
      /\ pool'.total_rewards_paid = q.total_rewards_paid
      /\ SameAccrual(pool', q)
  BY <1>1, <1>3 DEF Pool, SameAccrual
<1>7. positions' \in [PositionIds -> Position]
  BY <1>3, <1>4 DEF TypeOK
<1>8. stake_vault' \in Nat /\ reward_vault' \in Nat /\ now' \in Nat
  BY <1>3 DEF TypeOK
<1>9. positions'[id] = new_position(owner, credited, tier, q)
  BY <1>3 DEF TypeOK
<1>. QED BY <1>1, <1>4, <1>5, <1>6, <1>7, <1>8, <1>9 DEF TypeOK, q, weighted

LEMMA UnstakeEffect ==
    ASSUME TypeOK, NEW signer \in Accounts, NEW id \in PositionIds, NEW amount \in Nat,
           unstake(signer, id, amount)
    PROVE  LET rpt == update_rewards(pool, now).reward_per_token
               before == positions[id]
               after == withdrawn(before, amount, rpt)
           IN  /\ TypeOK'
               /\ SameAccrual(pool', update_rewards(pool, now))
               /\ pool'.total_rewards_paid = pool.total_rewards_paid
               /\ pool'.total_staked = pool.total_staked - amount
               /\ pool'.total_weighted =
                    pool.total_weighted - (before.weighted_amount - after.weighted_amount)
               /\ positions'[id] = after
               /\ rpt \in Nat /\ before \in Position /\ CanSettle(before, rpt)
<1> DEFINE q == update_rewards(pool, now)
           before == positions[id]
           after == withdrawn(before, amount, q.reward_per_token)
           removed == before.weighted_amount - after.weighted_amount
<1>1. /\ q \in Pool
      /\ q.total_staked = pool.total_staked
      /\ q.total_weighted = pool.total_weighted
      /\ q.total_rewards_paid = pool.total_rewards_paid
  BY UpdateFields DEF TypeOK
<1>2. before \in Position
  BY DEF TypeOK
<1>3. /\ CanSettle(before, q.reward_per_token)
      /\ amount <= before.amount /\ amount <= stake_vault
      /\ amount <= q.total_staked
      /\ 0 <= removed /\ removed <= q.total_weighted
      /\ pool' = [q EXCEPT !.total_staked = @ - amount, !.total_weighted = @ - removed]
      /\ positions' = [positions EXCEPT ![id] = after]
      /\ stake_vault' = stake_vault - amount
      /\ reward_vault' = reward_vault
      /\ now' = now
  BY DEF unstake, CanUnstake
<1>4. q.reward_per_token \in Nat
  BY <1>1 DEF Pool
<1>5. after \in Position
  BY <1>2, <1>3, <1>4, WithdrawnFields
<1>6. removed \in Int
  BY <1>2, <1>5 DEF Position
<1> HIDE DEF q, before, after, removed
<1>7. q.total_staked - amount \in Nat /\ q.total_weighted - removed \in Nat
  BY <1>1, <1>3, <1>6 DEF Pool
<1>8. pool' \in Pool
  BY <1>1, <1>3, <1>7, Zenon DEF Pool
<1>9. /\ pool'.total_staked = q.total_staked - amount
      /\ pool'.total_weighted = q.total_weighted - removed
      /\ pool'.total_rewards_paid = q.total_rewards_paid
      /\ SameAccrual(pool', q)
  BY <1>1, <1>3 DEF Pool, SameAccrual
<1>10. positions' \in [PositionIds -> Position] /\ positions'[id] = after
  BY <1>3, <1>5 DEF TypeOK
<1>11. stake_vault' \in Nat /\ reward_vault' \in Nat /\ now' \in Nat
  BY <1>3 DEF TypeOK
<1>. QED BY <1>1, <1>2, <1>3, <1>4, <1>8, <1>9, <1>10, <1>11
         DEF TypeOK, q, before, after, removed

LEMMA ClaimEffect ==
    ASSUME TypeOK, NEW signer \in Accounts, NEW id \in PositionIds, claim(signer, id)
    PROVE  LET rpt == update_rewards(pool, now).reward_per_token
               amount == earned(positions[id], rpt)
           IN  /\ TypeOK'
               /\ SameAccrual(pool', update_rewards(pool, now))
               /\ pool'.total_rewards_paid = pool.total_rewards_paid + amount
               /\ pool'.total_staked = pool.total_staked
               /\ pool'.total_weighted = pool.total_weighted
               /\ positions'[id].pending_rewards = 0
               /\ positions'[id].reward_per_token_paid = rpt
               /\ positions'[id].weighted_amount = positions[id].weighted_amount
               /\ positions'[id].amount = positions[id].amount
               /\ positions'[id].owner = positions[id].owner
               /\ positions'[id].tier = positions[id].tier
               /\ rpt \in Nat /\ positions[id] \in Position /\ CanSettle(positions[id], rpt)
               /\ reward_vault' = reward_vault - amount
<1> DEFINE q == update_rewards(pool, now)
           before == positions[id]
           amount == earned(before, q.reward_per_token)
           settled == settle(before, q.reward_per_token)
           after == [settled EXCEPT !.pending_rewards = 0]
<1>1. /\ q \in Pool
      /\ q.total_staked = pool.total_staked
      /\ q.total_weighted = pool.total_weighted
      /\ q.total_rewards_paid = pool.total_rewards_paid
  BY UpdateFields DEF TypeOK
<1>2. before \in Position /\ q.reward_per_token \in Nat
  BY <1>1 DEF TypeOK, Pool
<1>3. /\ CanSettle(before, q.reward_per_token)
      /\ amount <= reward_vault
      /\ pool' = [q EXCEPT !.total_rewards_paid = @ + amount]
      /\ positions' = [positions EXCEPT ![id] = after]
      /\ reward_vault' = reward_vault - amount
      /\ stake_vault' = stake_vault
      /\ now' = now
  BY DEF claim
<1>4. amount \in Nat
  BY <1>2, <1>3, EarnedBound
<1>5. /\ settled \in Position
      /\ settled.reward_per_token_paid = q.reward_per_token
      /\ settled.weighted_amount = before.weighted_amount
      /\ settled.amount = before.amount
      /\ settled.owner = before.owner
      /\ settled.tier = before.tier
  BY <1>2, <1>3, SettleFields
<1> HIDE DEF q, amount, settled
<1>6. /\ after \in Position
      /\ after.pending_rewards = 0
      /\ after.reward_per_token_paid = settled.reward_per_token_paid
      /\ after.weighted_amount = settled.weighted_amount
      /\ after.amount = settled.amount
      /\ after.owner = settled.owner
      /\ after.tier = settled.tier
  BY <1>5 DEF Position
<1> HIDE DEF after
<1>7. pool' \in Pool
  <2>1. q.total_rewards_paid + amount \in Nat
    BY <1>1, <1>4 DEF Pool
  <2>. QED BY <1>1, <1>3, <2>1, Zenon DEF Pool
<1>8. /\ pool'.total_rewards_paid = q.total_rewards_paid + amount
      /\ pool'.total_staked = q.total_staked
      /\ pool'.total_weighted = q.total_weighted
      /\ SameAccrual(pool', q)
  BY <1>1, <1>3 DEF Pool, SameAccrual
<1>9. positions' \in [PositionIds -> Position] /\ positions'[id] = after
  BY <1>3, <1>6 DEF TypeOK
<1>10. stake_vault' \in Nat /\ reward_vault' \in Nat /\ now' \in Nat
  BY <1>3, <1>4 DEF TypeOK
<1>11. TypeOK'
  BY <1>7, <1>9, <1>10 DEF TypeOK
<1>. QED BY <1>1, <1>2, <1>3, <1>5, <1>6, <1>8, <1>9, <1>11 DEF q, amount

LEMMA CloseEffect ==
    ASSUME TypeOK, NEW signer \in Accounts, NEW id \in PositionIds,
           close_position(signer, id)
    PROVE  TypeOK' /\ positions'[id] = NoPosition
<1>1. NoPosition \in Position
  BY DEF NoPosition, Position, LockTier
<1>. QED BY <1>1 DEF close_position, TypeOK

LEMMA FundEffect ==
    ASSUME TypeOK, NEW credited \in Nat, fund_rewards(credited)
    PROVE  /\ TypeOK'
           /\ SameAccrual(pool', pool)
           /\ pool'.total_rewards_paid = pool.total_rewards_paid
           /\ pool'.total_staked = pool.total_staked
           /\ pool'.total_weighted = pool.total_weighted
<1>1. pool.total_rewards_funded + credited \in Nat /\ reward_vault + credited \in Nat
  BY DEF TypeOK, Pool
<1>2. pool' = [pool EXCEPT !.total_rewards_funded = @ + credited]
  BY DEF fund_rewards
<1>3. pool' \in Pool
  BY <1>1, <1>2, Zenon DEF TypeOK, Pool
<1>4. /\ SameAccrual(pool', pool)
      /\ pool'.total_rewards_paid = pool.total_rewards_paid
      /\ pool'.total_staked = pool.total_staked
      /\ pool'.total_weighted = pool.total_weighted
  BY <1>2 DEF TypeOK, Pool, SameAccrual
<1>5. UNCHANGED <<positions, stake_vault, now>> /\ reward_vault' \in Nat
  BY <1>1 DEF fund_rewards
<1>. QED BY <1>3, <1>4, <1>5 DEF TypeOK

LEMMA SetRateEffect ==
    ASSUME TypeOK, NEW signer \in Accounts, NEW new_rate \in Nat, NEW period_end \in Nat,
           set_reward_rate(signer, new_rate, period_end)
    PROVE  LET q == update_rewards(pool, now) IN
           /\ TypeOK'
           /\ pool'.reward_per_token = q.reward_per_token
           /\ pool'.total_rewards_accrued = q.total_rewards_accrued
           /\ pool'.last_update_ts = q.last_update_ts
           /\ pool'.total_rewards_paid = pool.total_rewards_paid
           /\ pool'.total_staked = pool.total_staked
           /\ pool'.total_weighted = pool.total_weighted
           /\ unpaid_liability(pool') + emission_for(pool', pool'.reward_rate, now)
                <= reward_vault
<1> DEFINE q == update_rewards(pool, now)
           settled == [q EXCEPT !.reward_period_end = period_end]
<1>1. /\ q \in Pool
      /\ q.total_staked = pool.total_staked
      /\ q.total_weighted = pool.total_weighted
      /\ q.total_rewards_paid = pool.total_rewards_paid
  BY UpdateFields DEF TypeOK
<1>2. /\ unpaid_liability(settled) + emission_for(settled, new_rate, now) <= reward_vault
      /\ pool' = [settled EXCEPT !.reward_rate = new_rate]
      /\ UNCHANGED <<positions, stake_vault, reward_vault, now>>
  BY DEF set_reward_rate
<1> HIDE DEF q
<1>3. settled \in Pool
  BY <1>1, Zenon DEF Pool
<1>4. /\ settled.reward_per_token = q.reward_per_token
      /\ settled.total_rewards_accrued = q.total_rewards_accrued
      /\ settled.last_update_ts = q.last_update_ts
      /\ settled.total_rewards_paid = q.total_rewards_paid
      /\ settled.total_staked = q.total_staked
      /\ settled.total_weighted = q.total_weighted
  BY <1>1 DEF Pool
<1> HIDE DEF settled
<1>5. pool' \in Pool
  BY <1>2, <1>3, Zenon DEF Pool
<1>6. /\ pool'.reward_per_token = settled.reward_per_token
      /\ pool'.total_rewards_accrued = settled.total_rewards_accrued
      /\ pool'.last_update_ts = settled.last_update_ts
      /\ pool'.total_rewards_paid = settled.total_rewards_paid
      /\ pool'.total_staked = settled.total_staked
      /\ pool'.total_weighted = settled.total_weighted
      /\ pool'.reward_period_end = settled.reward_period_end
      /\ pool'.reward_rate = new_rate
  BY <1>2, <1>3 DEF Pool
<1>7. /\ unpaid_liability(pool') = unpaid_liability(settled)
      /\ emission_for(pool', pool'.reward_rate, now) = emission_for(settled, new_rate, now)
  BY <1>6 DEF unpaid_liability, emission_for
<1>8. TypeOK'
  BY <1>2, <1>5 DEF TypeOK
<1>. QED BY <1>1, <1>2, <1>4, <1>6, <1>7, <1>8 DEF q

\* The three authority instructions touch nothing the accounting reads.
LEMMA AdminEffect ==
    ASSUME TypeOK, NEW signer \in Accounts,
           \/ \E paused \in BOOLEAN : set_paused(signer, paused)
           \/ \E successor \in Accounts : propose_authority(signer, successor)
           \/ accept_authority(signer)
    PROVE  /\ TypeOK'
           /\ SameAccrual(pool', pool)
           /\ pool'.total_rewards_paid = pool.total_rewards_paid
           /\ pool'.total_staked = pool.total_staked
           /\ pool'.total_weighted = pool.total_weighted
           /\ UNCHANGED <<positions, stake_vault, reward_vault, now>>
<1>1. CASE \E paused \in BOOLEAN : set_paused(signer, paused)
  <2>1. PICK paused \in BOOLEAN : set_paused(signer, paused)
    BY <1>1
  <2>2. pool' = [pool EXCEPT !.paused = paused] /\ pool \in Pool
    BY <2>1 DEF set_paused, TypeOK
  <2>3. pool' \in Pool
    BY <2>2, Zenon DEF Pool
  <2>4. UNCHANGED <<positions, stake_vault, reward_vault, now>>
    BY <2>1 DEF set_paused
  <2>. QED BY <2>2, <2>3, <2>4 DEF TypeOK, Pool, SameAccrual
<1>2. CASE \E successor \in Accounts : propose_authority(signer, successor)
  <2>1. PICK successor \in Accounts : propose_authority(signer, successor)
    BY <1>2
  <2>2. pool' = [pool EXCEPT !.pending_authority = successor] /\ pool \in Pool
    BY <2>1 DEF propose_authority, TypeOK
  <2>3. pool' \in Pool
    BY <2>2, Zenon DEF Pool
  <2>4. UNCHANGED <<positions, stake_vault, reward_vault, now>>
    BY <2>1 DEF propose_authority
  <2>. QED BY <2>2, <2>3, <2>4 DEF TypeOK, Pool, SameAccrual
<1>3. CASE accept_authority(signer)
  <2>2. /\ pool' = [pool EXCEPT !.authority = signer, !.pending_authority = Nobody]
        /\ pool \in Pool
    BY <1>3 DEF accept_authority, TypeOK
  <2>3. pool' \in Pool
    BY <2>2, Zenon DEF Pool
  <2>4. UNCHANGED <<positions, stake_vault, reward_vault, now>>
    BY <1>3 DEF accept_authority
  <2>. QED BY <2>2, <2>3, <2>4 DEF TypeOK, Pool, SameAccrual
<1>. QED BY <1>1, <1>2, <1>3

-----------------------------------------------------------------------------
(* The inductive invariant. *)

Debts(rpt) == [id \in PositionIds |-> Debt(positions[id], rpt)]

\* The accumulator was never advanced past the clock.
ClockBehind == pool.last_update_ts <= now

\* A position's watermark is a past value of the accumulator.
WatermarksBehind ==
    \A id \in PositionIds : CanSettle(positions[id], pool.reward_per_token)

\* An address without an owner holds nothing, so it weighs on no sum.
AbsentHoldNothing ==
    \A id \in PositionIds : ~Exists(id) => positions[id] = NoPosition

\* Liability covers the untruncated claims at the accumulator's current value.
DebtCovered ==
    SumTo(Debts(pool.reward_per_token), MaxPositions)
      <= PRECISION * unpaid_liability(pool)

IInv ==
    /\ TypeOK
    /\ ClockBehind
    /\ WatermarksBehind
    /\ AbsentHoldNothing
    /\ BooksBalance
    /\ DebtCovered
    /\ Solvent

LEMMA DebtType ==
    ASSUME TypeOK, NEW rpt \in Nat
    PROVE  /\ \A id \in PositionIds : Debt(positions[id], rpt) \in Int
           /\ Debts(rpt) \in [0..MaxPositions-1 -> Int]
           /\ SumTo(Debts(rpt), MaxPositions) \in Int
<1>1. ASSUME NEW id \in PositionIds PROVE Debt(positions[id], rpt) \in Int
  <2> DEFINE w == positions[id].weighted_amount
             gap == rpt - positions[id].reward_per_token_paid
             pending == positions[id].pending_rewards
  <2>1. w \in Nat /\ gap \in Int /\ pending \in Nat /\ PRECISION \in Nat
    BY ScaleAssumption DEF TypeOK, Position
  <2>2. Debt(positions[id], rpt) = PRECISION * pending + w * gap
    BY DEF Debt
  <2> HIDE DEF w, gap, pending
  <2>. QED BY <2>1, <2>2
<1>2. Debts(rpt) \in [0..MaxPositions-1 -> Int]
  BY <1>1 DEF Debts, PositionIds
<1>. QED BY <1>1, <1>2, SumType, BoundAssumption

LEMMA BookTypes ==
    ASSUME TypeOK
    PROVE  /\ Principal \in [0..MaxPositions-1 -> Nat]
           /\ Principal \in [0..MaxPositions-1 -> Int]
           /\ Weight \in [0..MaxPositions-1 -> Nat]
           /\ Weight \in [0..MaxPositions-1 -> Int]
  BY DEF TypeOK, Position, Principal, Weight, PositionIds

\* What the accumulator's advance adds to what is owed is covered by what the
\* advance books as accrued: the truncated share never exceeds the emission.
LEMMA AdvanceCovered ==
    ASSUME IInv
    PROVE  LET q == update_rewards(pool, now) IN
           /\ \A id \in PositionIds : CanSettle(positions[id], q.reward_per_token)
           /\ SumTo(Debts(q.reward_per_token), MaxPositions)
                <= PRECISION * unpaid_liability(q)
<1> DEFINE q == update_rewards(pool, now)
           rpt == pool.reward_per_token
           d == RewardDelta(pool, now)
           e == Emitted(pool, now)
           tw == pool.total_weighted
           owed == pool.total_rewards_accrued - pool.total_rewards_paid
<1> USE DEF IInv
<1>1. /\ q.reward_per_token = rpt + d
      /\ unpaid_liability(q) = owed + e
      /\ rpt \in Nat /\ d \in Nat /\ e \in Nat /\ tw \in Nat /\ owed \in Int
      /\ d * tw <= PRECISION * e
      /\ PRECISION \in Nat
  <2>1. pool \in Pool /\ now \in Nat
    BY DEF TypeOK
  <2>2. /\ q.reward_per_token = rpt + d
        /\ q.total_rewards_accrued = pool.total_rewards_accrued + e
        /\ q.total_rewards_paid = pool.total_rewards_paid
    BY <2>1, UpdateFields
  <2>3. d \in Nat /\ d * tw <= PRECISION * e
    BY <2>1, DeltaBound
  <2>4. e \in Nat
    BY <2>1, EmittedType
  <2>5. rpt \in Nat /\ tw \in Nat /\ owed \in Int
        /\ pool.total_rewards_accrued \in Nat /\ pool.total_rewards_paid \in Nat
    BY <2>1 DEF Pool
  <2> HIDE DEF q, rpt, d, e, tw
  <2>6. unpaid_liability(q) = owed + e
    BY <2>2, <2>4, <2>5 DEF unpaid_liability
  <2>. QED BY <2>2, <2>3, <2>4, <2>5, <2>6, ScaleAssumption
<1>2. ASSUME NEW id \in PositionIds
      PROVE  /\ CanSettle(positions[id], q.reward_per_token)
             /\ Debt(positions[id], rpt + d) = Debt(positions[id], rpt) + d * Weight[id]
  <2> DEFINE w == positions[id].weighted_amount
             paid == positions[id].reward_per_token_paid
             pp == PRECISION * positions[id].pending_rewards
  <2>1. w \in Nat /\ paid \in Nat /\ positions[id].pending_rewards \in Nat
    BY DEF TypeOK, Position
  <2>2. pp \in Nat
    BY <1>1, <2>1, TimesNat
  <2>3. paid <= rpt
    BY DEF WatermarksBehind, CanSettle
  <2>4. /\ Debt(positions[id], rpt + d) = pp + w * ((rpt + d) - paid)
        /\ Debt(positions[id], rpt) = pp + w * (rpt - paid)
        /\ Weight[id] = w
    BY DEF Debt, Weight
  <2> HIDE DEF q, rpt, d, w, paid, pp
  <2>5. w * ((rpt + d) - paid) = w * (rpt - paid) + d * w
    BY <1>1, <2>1
  <2>6. Debt(positions[id], rpt + d) = Debt(positions[id], rpt) + d * w
    <3>1. w * (rpt - paid) \in Int /\ d * w \in Int
      BY <1>1, <2>1
    <3>. QED BY <2>2, <2>4, <2>5, <3>1
  <2>7. paid <= q.reward_per_token
    BY <1>1, <2>1, <2>3
  <2>. QED BY <2>4, <2>6, <2>7 DEF CanSettle, paid
<1> HIDE DEF q, rpt, d, e, tw, owed
<1>3. SumTo(Debts(rpt + d), MaxPositions)
        = SumTo(Debts(rpt), MaxPositions) + d * SumTo(Weight, MaxPositions)
  <2>1. /\ Debts(rpt) \in [0..MaxPositions-1 -> Int]
        /\ Debts(rpt + d) \in [0..MaxPositions-1 -> Int]
    BY <1>1, DebtType
  <2>2. \A id \in 0..MaxPositions-1 : Debts(rpt + d)[id] = Debts(rpt)[id] + d * Weight[id]
    BY <1>2 DEF Debts, PositionIds
  <2>3. d \in Int
    BY <1>1
  <2>. QED BY <2>1, <2>2, <2>3, BookTypes, BoundAssumption, SumShift
<1>4. /\ SumTo(Weight, MaxPositions) = tw
      /\ SumTo(Debts(rpt), MaxPositions) <= PRECISION * owed
      /\ SumTo(Debts(rpt), MaxPositions) \in Int
  <2>1. SumTo(Weight, MaxPositions) = tw
    BY DEF BooksBalance, tw
  <2>2. SumTo(Debts(rpt), MaxPositions) <= PRECISION * owed
    BY DEF DebtCovered, unpaid_liability, rpt, owed
  <2>. QED BY <2>1, <2>2, <1>1, DebtType
<1> DEFINE sum == SumTo(Debts(rpt), MaxPositions)
<1> HIDE DEF sum
<1>5. sum + d * tw <= PRECISION * (owed + e)
  <2>1. PRECISION * (owed + e) = PRECISION * owed + PRECISION * e
    BY <1>1
  <2>2. d * tw \in Int /\ PRECISION * owed \in Int /\ PRECISION * e \in Int
    BY <1>1
  <2>. QED BY <1>1, <1>4, <2>1, <2>2 DEF sum
<1>. QED BY <1>1, <1>2, <1>3, <1>4, <1>5 DEF sum, q

\* Advancing turns the emissions of the interval into liability one for one, or
\* forfeits them; it never creates any.
LEMMA AdvanceSolvent ==
    ASSUME IInv
    PROVE  LET q == update_rewards(pool, now) IN
           unpaid_liability(q) + emission_for(q, q.reward_rate, now) <= reward_vault
<1> DEFINE q == update_rewards(pool, now)
           last == pool.last_update_ts
           end == pool.reward_period_end
           rate == pool.reward_rate
           e == Emitted(pool, now)
           owed == pool.total_rewards_accrued - pool.total_rewards_paid
<1> USE DEF IInv
<1>1. /\ last \in Nat /\ end \in Nat /\ rate \in Nat /\ owed \in Int /\ now \in Nat
      /\ pool.total_rewards_accrued \in Nat /\ pool.total_rewards_paid \in Nat
      /\ reward_vault \in Nat /\ last <= now
  BY DEF TypeOK, Pool, ClockBehind
<1>2. /\ q.total_rewards_accrued = pool.total_rewards_accrued + e
      /\ q.total_rewards_paid = pool.total_rewards_paid
      /\ q.reward_rate = rate
      /\ q.reward_period_end = end
  BY UpdateFields DEF TypeOK
<1>3. e \in Nat
  BY EmittedType DEF TypeOK
<1>4. owed + (IF end <= last THEN 0 ELSE (end - last) * rate) <= reward_vault
  BY DEF Solvent, unpaid_liability, emission_for
<1>5. e + (IF end <= now THEN 0 ELSE (end - now) * rate)
        <= IF end <= last THEN 0 ELSE (end - last) * rate
  <2>1. CASE Elapsed(pool, now) > 0
    <3>1. e = (min(now, end) - last) * rate /\ min(now, end) > last
      BY <2>1, <1>1, ElapsedType DEF Emitted, TypeOK, min
    <3>2. CASE end <= now
      <4>1. min(now, end) = end
        BY <1>1, <3>2 DEF min
      <4>2. e = (end - last) * rate /\ ~(end <= last)
        BY <1>1, <3>1, <4>1
      <4>3. (end - last) * rate \in Int
        BY <1>1
      <4>. QED BY <3>2, <4>2, <4>3
    <3>3. CASE ~(end <= now)
      <4>1. min(now, end) = now
        BY <1>1, <3>3 DEF min
      <4>2. e = (now - last) * rate /\ ~(end <= last)
        BY <1>1, <3>1, <3>3, <4>1
      <4> HIDE DEF last, end, rate, e
      <4>3. (end - last) * rate = (now - last) * rate + (end - now) * rate
        BY <1>1, SplitEmission
      <4>4. /\ (end - last) * rate \in Int
            /\ (now - last) * rate \in Int
            /\ (end - now) * rate \in Int
        BY <1>1
      <4>. QED BY <3>3, <4>2, <4>3, <4>4
    <3>. QED BY <3>2, <3>3
  <2>2. CASE ~(Elapsed(pool, now) > 0)
    <3>1. e = 0
      <4>1. Elapsed(pool, now) = 0
        BY <2>2, ElapsedType DEF TypeOK
      <4>. QED BY <4>1, <1>1 DEF Emitted
    <3> HIDE DEF last, end, rate, e
    <3>2. CASE end <= now
      <4>1. ~(end <= last) => (end - last) * rate \in Nat
        BY <1>1
      <4>. QED BY <3>1, <3>2, <4>1
    <3>3. CASE ~(end <= now)
      <4>1. ~(end <= last)
        BY <1>1, <3>3
      <4>2. (end - last) * rate = (now - last) * rate + (end - now) * rate
        BY <1>1, SplitEmission
      <4>3. (now - last) * rate \in Nat
        BY <1>1, TimesNat
      <4>4. (end - now) * rate \in Int
        BY <1>1
      <4>. QED BY <3>1, <3>3, <4>1, <4>2, <4>3, <4>4
    <3>. QED BY <3>2, <3>3
  <2>. QED BY <2>1, <2>2
<1>6. /\ unpaid_liability(q) = owed + e
      /\ emission_for(q, q.reward_rate, now) = IF end <= now THEN 0 ELSE (end - now) * rate
  <2> HIDE DEF q, last, end, rate, e
  <2>1. unpaid_liability(q) = owed + e
    BY <1>1, <1>2, <1>3 DEF unpaid_liability
  <2>. QED BY <1>2, <2>1 DEF emission_for
<1> DEFINE x == IF end <= now THEN 0 ELSE (end - now) * rate
           y == IF end <= last THEN 0 ELSE (end - last) * rate
<1>7. x \in Int /\ y \in Int
  <2> HIDE DEF last, end, rate
  <2>. QED BY <1>1
<1>8. e + x <= y /\ owed + y <= reward_vault
  BY <1>4, <1>5
<1> HIDE DEF q, last, end, rate, e, owed, x, y
<1>9. (owed + e) + x <= reward_vault
  BY <1>1, <1>3, <1>7, <1>8 DEF owed
<1>. QED BY <1>6, <1>9 DEF x, q

-----------------------------------------------------------------------------
(* The invariant is inductive. *)

\* How the three sums move when one position changes and no other does.
LEMMA SlotSums ==
    ASSUME NEW ps \in [PositionIds -> Position], NEW qs \in [PositionIds -> Position],
           NEW id \in PositionIds, \A i \in PositionIds : i # id => qs[i] = ps[i],
           NEW rpt \in Nat
    PROVE  /\ SumTo([i \in PositionIds |-> qs[i].amount], MaxPositions)
                = SumTo([i \in PositionIds |-> ps[i].amount], MaxPositions)
                    + qs[id].amount - ps[id].amount
           /\ SumTo([i \in PositionIds |-> qs[i].weighted_amount], MaxPositions)
                = SumTo([i \in PositionIds |-> ps[i].weighted_amount], MaxPositions)
                    + qs[id].weighted_amount - ps[id].weighted_amount
           /\ SumTo([i \in PositionIds |-> Debt(qs[i], rpt)], MaxPositions)
                = SumTo([i \in PositionIds |-> Debt(ps[i], rpt)], MaxPositions)
                    + Debt(qs[id], rpt) - Debt(ps[id], rpt)
<1>1. PositionIds = 0..MaxPositions-1 /\ MaxPositions \in Nat
  BY BoundAssumption DEF PositionIds
<1>2. ASSUME NEW f \in [PositionIds -> Int], NEW g \in [PositionIds -> Int],
             \A i \in PositionIds : i # id => g[i] = f[i]
      PROVE  SumTo(g, MaxPositions) = SumTo(f, MaxPositions) + g[id] - f[id]
  BY <1>1, <1>2, SumUpdate
<1>3. ASSUME NEW position \in Position
      PROVE  /\ position.amount \in Int
             /\ position.weighted_amount \in Int
             /\ Debt(position, rpt) \in Int
  <2> DEFINE w == position.weighted_amount
             gap == rpt - position.reward_per_token_paid
             pending == position.pending_rewards
  <2>1. w \in Nat /\ gap \in Int /\ pending \in Nat /\ PRECISION \in Nat
        /\ position.amount \in Nat
    BY ScaleAssumption DEF Position
  <2>2. Debt(position, rpt) = PRECISION * pending + w * gap
    BY DEF Debt
  <2> HIDE DEF gap, pending
  <2>. QED BY <2>1, <2>2
<1>4. SumTo([i \in PositionIds |-> qs[i].amount], MaxPositions)
        = SumTo([i \in PositionIds |-> ps[i].amount], MaxPositions)
            + qs[id].amount - ps[id].amount
  <2> DEFINE f == [i \in PositionIds |-> ps[i].amount]
             g == [i \in PositionIds |-> qs[i].amount]
  <2>1. f \in [PositionIds -> Int] /\ g \in [PositionIds -> Int]
    BY <1>3
  <2>2. \A i \in PositionIds : i # id => g[i] = f[i]
    OBVIOUS
  <2>3. g[id] = qs[id].amount /\ f[id] = ps[id].amount
    OBVIOUS
  <2> HIDE DEF f, g
  <2>4. SumTo(g, MaxPositions) = SumTo(f, MaxPositions) + g[id] - f[id]
    BY <1>2, <2>1, <2>2
  <2>. QED BY <2>3, <2>4 DEF f, g
<1>5. SumTo([i \in PositionIds |-> qs[i].weighted_amount], MaxPositions)
        = SumTo([i \in PositionIds |-> ps[i].weighted_amount], MaxPositions)
            + qs[id].weighted_amount - ps[id].weighted_amount
  <2> DEFINE f == [i \in PositionIds |-> ps[i].weighted_amount]
             g == [i \in PositionIds |-> qs[i].weighted_amount]
  <2>1. f \in [PositionIds -> Int] /\ g \in [PositionIds -> Int]
    BY <1>3
  <2>2. \A i \in PositionIds : i # id => g[i] = f[i]
    OBVIOUS
  <2>3. g[id] = qs[id].weighted_amount /\ f[id] = ps[id].weighted_amount
    OBVIOUS
  <2> HIDE DEF f, g
  <2>4. SumTo(g, MaxPositions) = SumTo(f, MaxPositions) + g[id] - f[id]
    BY <1>2, <2>1, <2>2
  <2>. QED BY <2>3, <2>4 DEF f, g
<1>6. SumTo([i \in PositionIds |-> Debt(qs[i], rpt)], MaxPositions)
        = SumTo([i \in PositionIds |-> Debt(ps[i], rpt)], MaxPositions)
            + Debt(qs[id], rpt) - Debt(ps[id], rpt)
  <2> DEFINE f == [i \in PositionIds |-> Debt(ps[i], rpt)]
             g == [i \in PositionIds |-> Debt(qs[i], rpt)]
  <2>1. f \in [PositionIds -> Int] /\ g \in [PositionIds -> Int]
    BY <1>3
  <2>2. \A i \in PositionIds : i # id => g[i] = f[i]
    OBVIOUS
  <2>3. g[id] = Debt(qs[id], rpt) /\ f[id] = Debt(ps[id], rpt)
    OBVIOUS
  <2> HIDE DEF f, g
  <2>4. SumTo(g, MaxPositions) = SumTo(f, MaxPositions) + g[id] - f[id]
    BY <1>2, <2>1, <2>2
  <2>. QED BY <2>3, <2>4 DEF f, g
<1>. QED BY <1>4, <1>5, <1>6

\* Steps that leave the positions and the reward accounting alone, and take
\* nothing out of the vaults.
LEMMA QuietStep ==
    ASSUME IInv, TypeOK', positions' = positions, SameAccrual(pool', pool),
           pool'.total_rewards_paid = pool.total_rewards_paid,
           pool'.total_staked = pool.total_staked,
           pool'.total_weighted = pool.total_weighted,
           now <= now', stake_vault <= stake_vault', reward_vault <= reward_vault'
    PROVE  IInv'
<1> USE DEF IInv
<1>1. ClockBehind'
  BY DEF ClockBehind, SameAccrual, TypeOK, Pool
<1>2. WatermarksBehind'
  BY DEF WatermarksBehind, CanSettle, SameAccrual
<1>3. AbsentHoldNothing'
  BY DEF AbsentHoldNothing, Exists
<1>4. BooksBalance'
  <2>1. Principal' = Principal /\ Weight' = Weight
    BY DEF Principal, Weight
  <2>2. pool.total_staked \in Nat /\ stake_vault \in Nat /\ stake_vault' \in Nat
    BY DEF TypeOK, Pool
  <2>. QED BY <2>1, <2>2 DEF BooksBalance
<1>5. DebtCovered'
  <2>1. Debts(pool.reward_per_token)' = Debts(pool.reward_per_token)
    BY DEF Debts, SameAccrual
  <2>2. unpaid_liability(pool)' = unpaid_liability(pool)
    BY DEF unpaid_liability, SameAccrual
  <2>. QED BY <2>1, <2>2 DEF DebtCovered
<1>6. Solvent'
  <2> DEFINE owed(p) == unpaid_liability(p)
                         + emission_for(p, p.reward_rate, p.last_update_ts)
  <2>1. owed(pool') = owed(pool)
    BY DEF unpaid_liability, emission_for, SameAccrual
  <2>2. owed(pool) \in Int /\ owed(pool) <= reward_vault
    <3>1. /\ pool.total_rewards_accrued \in Nat /\ pool.total_rewards_paid \in Nat
          /\ pool.reward_period_end \in Nat /\ pool.last_update_ts \in Nat
          /\ pool.reward_rate \in Nat
      BY DEF TypeOK, Pool
    <3>2. (pool.reward_period_end - pool.last_update_ts) * pool.reward_rate \in Int
      BY <3>1
    <3>. QED BY <3>1, <3>2 DEF Solvent, unpaid_liability, emission_for
  <2>3. reward_vault \in Nat /\ reward_vault' \in Nat
    BY DEF TypeOK
  <2> HIDE DEF owed
  <2>4. owed(pool') <= reward_vault'
    BY <2>1, <2>2, <2>3
  <2>. QED BY <2>4 DEF owed, Solvent
<1>. QED BY <1>1, <1>2, <1>3, <1>4, <1>5, <1>6

\* Steps that advance the accumulator, settle one position, and pay amount out
\* of the reward vault: what the position is still owed drops by that amount.
LEMMA AccrualStep ==
    ASSUME IInv, TypeOK', NEW id \in PositionIds, NEW amount \in Nat,
           \A i \in PositionIds : i # id => positions'[i] = positions[i],
           positions'[id].owner \in Accounts,
           SameAccrual(pool', update_rewards(pool, now)),
           positions'[id].reward_per_token_paid = update_rewards(pool, now).reward_per_token,
           PRECISION * amount + Debt(positions'[id], update_rewards(pool, now).reward_per_token)
             <= Debt(positions[id], update_rewards(pool, now).reward_per_token),
           pool'.total_rewards_paid = pool.total_rewards_paid + amount,
           reward_vault' = reward_vault - amount,
           now' = now,
           positions'[id].weighted_amount
             = apply_weight(positions'[id].tier, positions'[id].amount),
           pool'.total_staked
             = pool.total_staked + positions'[id].amount - positions[id].amount,
           pool'.total_weighted
             = pool.total_weighted + positions'[id].weighted_amount
                 - positions[id].weighted_amount,
           stake_vault' - pool'.total_staked >= stake_vault - pool.total_staked
    PROVE  IInv'
<1> DEFINE q == update_rewards(pool, now)
           rpt == q.reward_per_token
<1> USE DEF IInv
<1>1. /\ q \in Pool
      /\ q.last_update_ts = max(pool.last_update_ts, now)
      /\ q.total_rewards_paid = pool.total_rewards_paid
      /\ q.reward_rate = pool.reward_rate
      /\ q.reward_period_end = pool.reward_period_end
  BY UpdateFields DEF TypeOK
<1>2. /\ \A i \in PositionIds : CanSettle(positions[i], rpt)
      /\ SumTo(Debts(rpt), MaxPositions) <= PRECISION * unpaid_liability(q)
  BY AdvanceCovered
<1>3. unpaid_liability(q) + emission_for(q, q.reward_rate, now) <= reward_vault
  BY AdvanceSolvent
<1>4. /\ pool'.reward_per_token = rpt
      /\ pool'.total_rewards_accrued = q.total_rewards_accrued
      /\ pool'.last_update_ts = q.last_update_ts
      /\ pool'.reward_rate = q.reward_rate
      /\ pool'.reward_period_end = q.reward_period_end
  BY DEF SameAccrual
<1>5. rpt \in Nat /\ q.total_rewards_accrued \in Nat /\ q.total_rewards_paid \in Nat
      /\ q.reward_period_end \in Nat /\ q.reward_rate \in Nat
  BY <1>1 DEF Pool
<1>6. q.last_update_ts = now /\ now \in Nat
  BY <1>1 DEF ClockBehind, TypeOK, Pool, max
<1>7. /\ PRECISION * amount + Debt(positions'[id], rpt) <= Debt(positions[id], rpt)
      /\ positions'[id].reward_per_token_paid = rpt
  OBVIOUS
<1> HIDE DEF q, rpt
<1>8. ClockBehind'
  BY <1>4, <1>6 DEF ClockBehind
<1>9. WatermarksBehind'
  BY <1>2, <1>4, <1>5, <1>7 DEF WatermarksBehind, CanSettle
<1>10. AbsentHoldNothing'
  BY AccountsAssumption DEF AbsentHoldNothing, Exists
<1>11. /\ positions \in [PositionIds -> Position]
       /\ positions' \in [PositionIds -> Position]
  BY DEF TypeOK
<1>12. /\ SumTo([i \in PositionIds |-> positions'[i].amount], MaxPositions)
            = SumTo([i \in PositionIds |-> positions[i].amount], MaxPositions)
                + positions'[id].amount - positions[id].amount
       /\ SumTo([i \in PositionIds |-> positions'[i].weighted_amount], MaxPositions)
            = SumTo([i \in PositionIds |-> positions[i].weighted_amount], MaxPositions)
                + positions'[id].weighted_amount - positions[id].weighted_amount
       /\ SumTo([i \in PositionIds |-> Debt(positions'[i], rpt)], MaxPositions)
            = SumTo([i \in PositionIds |-> Debt(positions[i], rpt)], MaxPositions)
                + Debt(positions'[id], rpt) - Debt(positions[id], rpt)
  BY <1>5, <1>11, SlotSums
<1>13. BooksBalance'
  <2>1. /\ pool'.total_staked = SumTo(Principal', MaxPositions)
        /\ pool'.total_weighted = SumTo(Weight', MaxPositions)
    BY <1>12 DEF BooksBalance, Principal, Weight
  <2>2. \A i \in PositionIds :
          Weight'[i] = apply_weight(positions'[i].tier, positions'[i].amount)
    BY DEF BooksBalance, Weight
  <2>3. pool'.total_staked <= stake_vault'
    <3>1. /\ pool.total_staked \in Nat /\ pool'.total_staked \in Nat
          /\ stake_vault \in Nat /\ stake_vault' \in Nat
      BY DEF TypeOK, Pool
    <3>. QED BY <3>1 DEF BooksBalance
  <2>. QED BY <2>1, <2>2, <2>3 DEF BooksBalance
<1>14. unpaid_liability(pool') = unpaid_liability(q) - amount
       /\ unpaid_liability(q) \in Int
  BY <1>1, <1>4, <1>5 DEF unpaid_liability
<1>15. DebtCovered'
  <2> DEFINE old == SumTo(Debts(rpt), MaxPositions)
             was == Debt(positions[id], rpt)
             is == Debt(positions'[id], rpt)
             owed == unpaid_liability(q)
  <2>1. old \in Int /\ was \in Int
    BY <1>5, DebtType
  <2>2. is \in Int
    <3>1. /\ positions'[id] \in Position
      BY <1>11
    <3>2. CanSettle(positions'[id], rpt)
      BY <1>5, <1>7 DEF CanSettle
    <3>. QED BY <1>5, <3>1, <3>2, EarnedBound
  <2>3. SumTo(Debts(pool.reward_per_token)', MaxPositions) = old + is - was
    BY <1>4, <1>12 DEF Debts
  <2>4. PRECISION * amount + is <= was /\ old <= PRECISION * owed
    BY <1>2, <1>7
  <2>5. unpaid_liability(pool') = owed - amount /\ owed \in Int
    BY <1>14
  <2> HIDE DEF old, was, is, owed
  <2>6. PRECISION * (owed - amount) = PRECISION * owed - PRECISION * amount
    BY <2>5, ScaleAssumption
  <2>7. PRECISION * owed \in Int /\ PRECISION * amount \in Int
    BY <2>5, ScaleAssumption
  <2>8. old + is - was <= PRECISION * owed - PRECISION * amount
    BY <2>1, <2>2, <2>4, <2>7
  <2>. QED BY <2>3, <2>5, <2>6, <2>8 DEF DebtCovered
<1>16. Solvent'
  <2>1. emission_for(pool', pool'.reward_rate, pool'.last_update_ts)
          = emission_for(q, q.reward_rate, now)
    BY <1>4, <1>6 DEF emission_for
  <2>2. emission_for(q, q.reward_rate, now) \in Int
    <3>1. (q.reward_period_end - now) * q.reward_rate \in Int
      BY <1>5, <1>6
    <3>. QED BY <3>1 DEF emission_for
  <2>3. reward_vault \in Nat
    BY DEF TypeOK
  <2>. QED BY <1>3, <1>14, <2>1, <2>2, <2>3 DEF Solvent
<1>. QED BY <1>8, <1>9, <1>10, <1>13, <1>15, <1>16

LEMMA StakeStep ==
    ASSUME IInv, NEW owner \in Accounts, NEW id \in PositionIds, NEW amount \in Nat,
           NEW credited \in Nat, NEW tier \in LockTier,
           stake(owner, id, amount, credited, tier)
    PROVE  IInv'
<1> DEFINE q == update_rewards(pool, now)
           rpt == q.reward_per_token
           after == new_position(owner, credited, tier, q)
<1>1. /\ TypeOK /\ TypeOK'
      /\ SameAccrual(pool', q)
      /\ pool'.total_rewards_paid = pool.total_rewards_paid
      /\ pool'.total_staked = pool.total_staked + credited
      /\ pool'.total_weighted = pool.total_weighted + apply_weight(tier, credited)
      /\ positions'[id] = after
  BY StakeEffect DEF IInv
<1>2. positions[id] = NoPosition
  BY DEF stake, IInv, AbsentHoldNothing
<1>3. /\ \A i \in PositionIds : i # id => positions'[i] = positions[i]
      /\ stake_vault' = stake_vault + credited
      /\ reward_vault' = reward_vault
      /\ now' = now
  BY <1>1 DEF stake, TypeOK
<1>4. rpt \in Nat
  BY <1>1, UpdateFields DEF TypeOK, Pool
<1>5. apply_weight(tier, credited) \in Nat
  BY WeightType
<1>6. /\ after.owner = owner
      /\ after.tier = tier
      /\ after.amount = credited
      /\ after.weighted_amount = apply_weight(tier, credited)
      /\ after.reward_per_token_paid = rpt
      /\ after.pending_rewards = 0
  BY DEF new_position
<1>7. /\ positions[id].amount = 0
      /\ positions[id].weighted_amount = 0
      /\ positions[id].pending_rewards = 0
      /\ positions[id].reward_per_token_paid = 0
  BY <1>2 DEF NoPosition
<1> HIDE DEF q, rpt, after
<1>8. Debt(after, rpt) = 0
  <2>1. rpt - rpt = 0 /\ apply_weight(tier, credited) * 0 = 0 /\ PRECISION * 0 = 0
    BY <1>4, <1>5, ScaleAssumption
  <2>. QED BY <1>6, <2>1 DEF Debt
<1>9. Debt(positions[id], rpt) = 0
  <2>1. 0 * (rpt - 0) = 0 /\ PRECISION * 0 = 0
    BY <1>4, ScaleAssumption
  <2>. QED BY <1>7, <2>1 DEF Debt
<1>10. /\ pool.total_staked \in Nat /\ pool.total_weighted \in Nat
       /\ pool.total_rewards_paid \in Nat /\ stake_vault \in Nat /\ reward_vault \in Nat
  BY <1>1 DEF TypeOK, Pool
<1>11. PRECISION * 0 + Debt(positions'[id], rpt) <= Debt(positions[id], rpt)
  BY <1>1, <1>8, <1>9, ScaleAssumption
<1>12. /\ pool'.total_rewards_paid = pool.total_rewards_paid + 0
       /\ reward_vault' = reward_vault - 0
       /\ pool'.total_staked
            = pool.total_staked + positions'[id].amount - positions[id].amount
       /\ pool'.total_weighted
            = pool.total_weighted + positions'[id].weighted_amount
                - positions[id].weighted_amount
       /\ stake_vault' - pool'.total_staked >= stake_vault - pool.total_staked
  BY <1>1, <1>3, <1>5, <1>6, <1>7, <1>10
<1>. QED BY <1>1, <1>3, <1>6, <1>11, <1>12, AccrualStep DEF q, rpt

LEMMA UnstakeStep ==
    ASSUME IInv, NEW signer \in Accounts, NEW id \in PositionIds, NEW amount \in Nat,
           unstake(signer, id, amount)
    PROVE  IInv'
<1> DEFINE q == update_rewards(pool, now)
           rpt == q.reward_per_token
           before == positions[id]
           after == withdrawn(before, amount, rpt)
           left == before.amount - amount
<1>1. /\ TypeOK /\ TypeOK'
      /\ SameAccrual(pool', q)
      /\ pool'.total_rewards_paid = pool.total_rewards_paid
      /\ pool'.total_staked = pool.total_staked - amount
      /\ pool'.total_weighted =
           pool.total_weighted - (before.weighted_amount - after.weighted_amount)
      /\ positions'[id] = after
      /\ rpt \in Nat /\ before \in Position /\ CanSettle(before, rpt)
  BY UnstakeEffect DEF IInv
<1>2. /\ amount <= before.amount
      /\ before.owner = signer
      /\ \A i \in PositionIds : i # id => positions'[i] = positions[i]
      /\ stake_vault' = stake_vault - amount
      /\ reward_vault' = reward_vault
      /\ now' = now
  BY <1>1 DEF unstake, CanUnstake, TypeOK
<1>3. /\ after \in Position
      /\ after.pending_rewards = earned(before, rpt)
      /\ after.reward_per_token_paid = rpt
      /\ after.amount = left
      /\ after.weighted_amount = apply_weight(before.tier, left)
      /\ after.owner = before.owner
      /\ after.tier = before.tier
  BY <1>1, <1>2, WithdrawnFields
<1>4. /\ earned(before, rpt) \in Nat
      /\ PRECISION * earned(before, rpt) <= Debt(before, rpt)
      /\ Debt(before, rpt) \in Nat
  BY <1>1, EarnedBound
<1>5. /\ pool.total_staked \in Nat /\ pool.total_weighted \in Nat
      /\ pool.total_rewards_paid \in Nat /\ stake_vault \in Nat /\ reward_vault \in Nat
      /\ before.amount \in Nat /\ before.weighted_amount \in Nat
      /\ after.weighted_amount \in Nat
  BY <1>1, <1>3 DEF TypeOK, Pool, Position
<1> HIDE DEF q, rpt, before, after, left
<1>6. Debt(after, rpt) = PRECISION * earned(before, rpt)
  <2>1. after.weighted_amount * (rpt - rpt) = 0
    BY <1>1, <1>5
  <2>2. PRECISION * earned(before, rpt) \in Nat
    BY <1>4, ScaleAssumption, TimesNat
  <2>. QED BY <1>3, <2>1, <2>2 DEF Debt
<1>7. PRECISION * 0 + Debt(positions'[id], rpt) <= Debt(positions[id], rpt)
  <2>1. PRECISION * earned(before, rpt) \in Nat /\ PRECISION * 0 = 0
    BY <1>4, ScaleAssumption, TimesNat
  <2>. QED BY <1>1, <1>4, <1>6, <2>1 DEF before
<1>8. /\ pool'.total_rewards_paid = pool.total_rewards_paid + 0
      /\ reward_vault' = reward_vault - 0
      /\ pool'.total_staked = pool.total_staked + after.amount - before.amount
      /\ pool'.total_weighted
           = pool.total_weighted + after.weighted_amount - before.weighted_amount
      /\ stake_vault' - pool'.total_staked >= stake_vault - pool.total_staked
  BY <1>1, <1>2, <1>3, <1>5 DEF left
<1>. QED BY <1>1, <1>2, <1>3, <1>7, <1>8, AccrualStep DEF q, rpt, before

LEMMA ClaimStep ==
    ASSUME IInv, NEW signer \in Accounts, NEW id \in PositionIds, claim(signer, id)
    PROVE  IInv'
<1> DEFINE q == update_rewards(pool, now)
           rpt == q.reward_per_token
           before == positions[id]
           amount == earned(before, rpt)
<1>1. /\ TypeOK /\ TypeOK'
      /\ SameAccrual(pool', q)
      /\ pool'.total_rewards_paid = pool.total_rewards_paid + amount
      /\ pool'.total_staked = pool.total_staked
      /\ pool'.total_weighted = pool.total_weighted
      /\ positions'[id].pending_rewards = 0
      /\ positions'[id].reward_per_token_paid = rpt
      /\ positions'[id].weighted_amount = before.weighted_amount
      /\ positions'[id].amount = before.amount
      /\ positions'[id].owner = before.owner
      /\ positions'[id].tier = before.tier
      /\ rpt \in Nat /\ before \in Position /\ CanSettle(before, rpt)
      /\ reward_vault' = reward_vault - amount
  BY ClaimEffect DEF IInv
<1>2. /\ before.owner = signer
      /\ \A i \in PositionIds : i # id => positions'[i] = positions[i]
      /\ stake_vault' = stake_vault
      /\ now' = now
  BY <1>1 DEF claim, TypeOK
<1>3. /\ amount \in Nat
      /\ PRECISION * amount <= Debt(before, rpt)
      /\ Debt(before, rpt) \in Nat
  BY <1>1, EarnedBound
<1>4. /\ pool.total_staked \in Nat /\ pool.total_weighted \in Nat
      /\ stake_vault \in Nat
      /\ before.amount \in Nat /\ before.weighted_amount \in Nat
  BY <1>1 DEF TypeOK, Pool, Position
<1>5. before.weighted_amount = apply_weight(before.tier, before.amount)
  BY DEF IInv, BooksBalance, Weight
<1> HIDE DEF q, rpt, before, amount
<1>6. PRECISION * amount + Debt(positions'[id], rpt) <= Debt(positions[id], rpt)
  <2>1. before.weighted_amount * (rpt - rpt) = 0 /\ PRECISION * 0 = 0
    BY <1>1, <1>4, ScaleAssumption
  <2>2. Debt(positions'[id], rpt) = 0
    BY <1>1, <2>1 DEF Debt
  <2>3. PRECISION * amount \in Nat
    BY <1>3, ScaleAssumption, TimesNat
  <2>. QED BY <1>3, <2>2, <2>3 DEF before
<1>7. /\ pool'.total_staked
           = pool.total_staked + positions'[id].amount - before.amount
      /\ pool'.total_weighted
           = pool.total_weighted + positions'[id].weighted_amount - before.weighted_amount
      /\ stake_vault' - pool'.total_staked >= stake_vault - pool.total_staked
  BY <1>1, <1>2, <1>4
<1>. QED BY <1>1, <1>2, <1>3, <1>5, <1>6, <1>7, AccrualStep DEF q, rpt, before

\* A closable position is owed nothing at any accumulator, so erasing it moves
\* no sum.
LEMMA CloseStep ==
    ASSUME IInv, NEW signer \in Accounts, NEW id \in PositionIds,
           close_position(signer, id)
    PROVE  IInv'
<1> DEFINE rpt == pool.reward_per_token
<1>1. TypeOK /\ TypeOK' /\ positions'[id] = NoPosition
  BY CloseEffect DEF IInv
<1>2. /\ \A i \in PositionIds : i # id => positions'[i] = positions[i]
      /\ UNCHANGED <<pool, stake_vault, reward_vault, now>>
      /\ positions[id].amount = 0
      /\ positions[id].weighted_amount = 0
      /\ positions[id].pending_rewards = 0
  BY <1>1 DEF close_position, is_closable, TypeOK
<1>3. /\ NoPosition.amount = 0 /\ NoPosition.weighted_amount = 0
      /\ NoPosition.pending_rewards = 0 /\ NoPosition.reward_per_token_paid = 0
      /\ NoPosition.tier = "Flexible" /\ NoPosition.owner = Nobody
  BY DEF NoPosition
<1>4. /\ rpt \in Nat
      /\ positions \in [PositionIds -> Position]
      /\ positions' \in [PositionIds -> Position]
      /\ positions[id].reward_per_token_paid \in Nat
  BY <1>1 DEF TypeOK, Pool, Position
<1> HIDE DEF rpt
<1>5. Debt(positions[id], rpt) = 0 /\ Debt(positions'[id], rpt) = 0
  <2>1. /\ PRECISION * 0 = 0
        /\ 0 * (rpt - positions[id].reward_per_token_paid) = 0
        /\ 0 * (rpt - 0) = 0
    BY <1>4, ScaleAssumption
  <2>. QED BY <1>1, <1>2, <1>3, <2>1 DEF Debt
<1>6. /\ SumTo([i \in PositionIds |-> positions'[i].amount], MaxPositions)
           = SumTo([i \in PositionIds |-> positions[i].amount], MaxPositions) + 0 - 0
      /\ SumTo([i \in PositionIds |-> positions'[i].weighted_amount], MaxPositions)
           = SumTo([i \in PositionIds |-> positions[i].weighted_amount], MaxPositions) + 0 - 0
      /\ SumTo([i \in PositionIds |-> Debt(positions'[i], rpt)], MaxPositions)
           = SumTo([i \in PositionIds |-> Debt(positions[i], rpt)], MaxPositions) + 0 - 0
  <2>1. /\ positions'[id].amount = 0 /\ positions'[id].weighted_amount = 0
    BY <1>1, <1>3
  <2>2. \A i \in PositionIds : i # id => positions'[i] = positions[i]
    BY <1>2
  <2>3. /\ SumTo([i \in PositionIds |-> positions'[i].amount], MaxPositions)
             = SumTo([i \in PositionIds |-> positions[i].amount], MaxPositions)
                 + positions'[id].amount - positions[id].amount
        /\ SumTo([i \in PositionIds |-> positions'[i].weighted_amount], MaxPositions)
             = SumTo([i \in PositionIds |-> positions[i].weighted_amount], MaxPositions)
                 + positions'[id].weighted_amount - positions[id].weighted_amount
        /\ SumTo([i \in PositionIds |-> Debt(positions'[i], rpt)], MaxPositions)
             = SumTo([i \in PositionIds |-> Debt(positions[i], rpt)], MaxPositions)
                 + Debt(positions'[id], rpt) - Debt(positions[id], rpt)
    BY <1>4, <2>2, SlotSums
  <2>. QED BY <1>2, <1>5, <2>1, <2>3, Zenon
<1>7. BooksBalance'
  <2>1. /\ SumTo(Principal, MaxPositions) = pool.total_staked
        /\ SumTo(Weight, MaxPositions) = pool.total_weighted
        /\ pool.total_staked \in Nat /\ pool.total_weighted \in Nat
        /\ pool.total_staked <= stake_vault
    BY <1>1 DEF IInv, BooksBalance, TypeOK, Pool
  <2>2. /\ SumTo(Principal', MaxPositions) = pool.total_staked
        /\ SumTo(Weight', MaxPositions) = pool.total_weighted
    BY <1>6, <2>1 DEF Principal, Weight
  <2>3. \A i \in PositionIds :
          Weight'[i] = apply_weight(positions'[i].tier, positions'[i].amount)
    <3>1. apply_weight("Flexible", 0) = 0
      BY WeightOfNothing DEF LockTier
    <3>. QED BY <1>1, <1>2, <1>3, <3>1 DEF IInv, BooksBalance, Weight
  <2>. QED BY <1>2, <2>1, <2>2, <2>3 DEF BooksBalance
<1>8. DebtCovered'
  <2>1. SumTo(Debts(rpt), MaxPositions) \in Int
    BY <1>1, <1>4, DebtType
  <2>2. SumTo(Debts(pool.reward_per_token)', MaxPositions) = SumTo(Debts(rpt), MaxPositions)
    BY <1>2, <1>6, <2>1 DEF Debts, rpt
  <2>. QED BY <1>2, <2>2 DEF IInv, DebtCovered, rpt
<1>9. WatermarksBehind'
  BY <1>1, <1>2, <1>3, <1>4 DEF IInv, WatermarksBehind, CanSettle, rpt
<1>10. AbsentHoldNothing'
  BY <1>1, <1>2 DEF IInv, AbsentHoldNothing, Exists
<1>11. ClockBehind' /\ Solvent'
  BY <1>2 DEF IInv, ClockBehind, Solvent
<1>. QED BY <1>1, <1>7, <1>8, <1>9, <1>10, <1>11 DEF IInv

LEMMA SetRateStep ==
    ASSUME IInv, NEW signer \in Accounts, NEW new_rate \in Nat, NEW period_end \in Nat,
           set_reward_rate(signer, new_rate, period_end)
    PROVE  IInv'
<1> DEFINE q == update_rewards(pool, now)
<1>1. /\ TypeOK /\ TypeOK'
      /\ pool'.reward_per_token = q.reward_per_token
      /\ pool'.total_rewards_accrued = q.total_rewards_accrued
      /\ pool'.last_update_ts = q.last_update_ts
      /\ pool'.total_rewards_paid = pool.total_rewards_paid
      /\ pool'.total_staked = pool.total_staked
      /\ pool'.total_weighted = pool.total_weighted
      /\ unpaid_liability(pool') + emission_for(pool', pool'.reward_rate, now)
           <= reward_vault
  BY SetRateEffect DEF IInv
<1>2. /\ q.last_update_ts = max(pool.last_update_ts, now)
      /\ q.total_rewards_paid = pool.total_rewards_paid
  BY <1>1, UpdateFields DEF TypeOK
<1>3. UNCHANGED <<positions, stake_vault, reward_vault, now>>
  BY DEF set_reward_rate
<1>4. pool'.last_update_ts = now
  BY <1>1, <1>2 DEF IInv, ClockBehind, TypeOK, Pool, max
<1>5. ClockBehind' /\ Solvent'
  BY <1>1, <1>3, <1>4 DEF ClockBehind, Solvent, TypeOK
<1>6. /\ \A i \in PositionIds : CanSettle(positions[i], q.reward_per_token)
      /\ SumTo(Debts(q.reward_per_token), MaxPositions) <= PRECISION * unpaid_liability(q)
  BY AdvanceCovered
<1> HIDE DEF q
<1>7. WatermarksBehind'
  BY <1>1, <1>3, <1>6 DEF WatermarksBehind
<1>8. DebtCovered'
  <2>1. unpaid_liability(pool') = unpaid_liability(q)
    BY <1>1, <1>2 DEF unpaid_liability
  <2>2. Debts(pool.reward_per_token)' = Debts(q.reward_per_token)
    BY <1>1, <1>3 DEF Debts
  <2>. QED BY <1>6, <2>1, <2>2 DEF DebtCovered
<1>9. AbsentHoldNothing'
  BY <1>3 DEF IInv, AbsentHoldNothing, Exists
<1>10. BooksBalance'
  BY <1>1, <1>3 DEF IInv, BooksBalance, Principal, Weight
<1>. QED BY <1>1, <1>5, <1>7, <1>8, <1>9, <1>10 DEF IInv

LEMMA CreditsType ==
    ASSUME NEW amount \in Nat, NEW credited \in Credits(amount)
    PROVE  credited \in Nat
<1>1. PICK fee \in Fees : fee < amount /\ credited = amount - fee
  BY DEF Credits
<1>. QED BY <1>1, InputAssumption

LEMMA InitEstablishesIInv == Init => IInv
<1> SUFFICES ASSUME Init PROVE IInv
  OBVIOUS
<1>1. PICK authority \in Accounts : pool = initial_pool(authority, 0)
  BY DEF Init
<1>2. /\ positions = [id \in PositionIds |-> NoPosition]
      /\ stake_vault = 0 /\ reward_vault = 0 /\ now = 0
  BY DEF Init
<1>3. NoPosition \in Position
  BY DEF NoPosition, Position, LockTier
<1>4. TypeOK
  <2>1. pool \in Pool
    BY <1>1 DEF initial_pool, Pool
  <2>. QED BY <1>2, <1>3, <2>1 DEF TypeOK
<1>5. /\ pool.total_staked = 0 /\ pool.total_weighted = 0
      /\ pool.reward_per_token = 0 /\ pool.reward_rate = 0
      /\ pool.last_update_ts = 0 /\ pool.reward_period_end = 0
      /\ pool.total_rewards_accrued = 0 /\ pool.total_rewards_paid = 0
  BY <1>1 DEF initial_pool
<1>6. ASSUME NEW id \in PositionIds
      PROVE  /\ positions[id] = NoPosition
             /\ positions[id].amount = 0 /\ positions[id].weighted_amount = 0
             /\ positions[id].tier = "Flexible"
             /\ positions[id].reward_per_token_paid = 0
             /\ positions[id].pending_rewards = 0
  BY <1>2 DEF NoPosition
<1>7. ClockBehind /\ WatermarksBehind /\ AbsentHoldNothing
  BY <1>2, <1>5, <1>6 DEF ClockBehind, WatermarksBehind, CanSettle, AbsentHoldNothing
<1>8. BooksBalance
  <2>1. SumTo(Principal, MaxPositions) = 0 /\ SumTo(Weight, MaxPositions) = 0
    <3>1. \A id \in 0..MaxPositions-1 : Principal[id] = 0 /\ Weight[id] = 0
      BY <1>6 DEF Principal, Weight, PositionIds
    <3>. QED BY <1>4, <3>1, BookTypes, BoundAssumption, SumOfZeros
  <2>2. apply_weight("Flexible", 0) = 0
    BY WeightOfNothing DEF LockTier
  <2>. QED BY <1>2, <1>5, <1>6, <2>1, <2>2 DEF BooksBalance, Weight
<1>9. DebtCovered
  <2>1. \A id \in 0..MaxPositions-1 : Debts(0)[id] = 0
    <3>1. 0 * (0 - 0) = 0 /\ PRECISION * 0 = 0
      BY ScaleAssumption
    <3>. QED BY <1>6, <3>1 DEF Debts, Debt, PositionIds
  <2>2. SumTo(Debts(0), MaxPositions) = 0
    BY <1>4, <2>1, DebtType, BoundAssumption, SumOfZeros
  <2>3. unpaid_liability(pool) = 0 /\ PRECISION * 0 = 0
    BY <1>5, ScaleAssumption DEF unpaid_liability
  <2>. QED BY <1>5, <2>2, <2>3 DEF DebtCovered
<1>10. Solvent
  BY <1>2, <1>5 DEF Solvent, unpaid_liability, emission_for
<1>. QED BY <1>4, <1>7, <1>8, <1>9, <1>10 DEF IInv

LEMMA NextPreservesIInv == IInv /\ [Next]_vars => IInv'
<1> SUFFICES ASSUME IInv, [Next]_vars PROVE IInv'
  OBVIOUS
<1>0. TypeOK /\ stake_vault \in Nat /\ reward_vault \in Nat /\ now \in Nat
  BY DEF IInv, TypeOK
<1>1. CASE \E owner \in Accounts, id \in PositionIds, amount \in Amounts, tier \in Tiers :
             \E credited \in Credits(amount) : stake(owner, id, amount, credited, tier)
  <2>1. PICK owner \in Accounts, id \in PositionIds, amount \in Amounts, tier \in Tiers :
          \E credited \in Credits(amount) : stake(owner, id, amount, credited, tier)
    BY <1>1
  <2>2. PICK credited \in Credits(amount) : stake(owner, id, amount, credited, tier)
    BY <2>1
  <2>3. amount \in Nat /\ tier \in LockTier
    BY InputAssumption, TiersAssumption
  <2>4. credited \in Nat
    BY <2>3, CreditsType
  <2>. QED BY <2>2, <2>3, <2>4, StakeStep
<1>2. CASE \E signer \in Accounts, id \in PositionIds :
             \E amount \in Withdrawals \cup {positions[id].amount} : unstake(signer, id, amount)
  <2>1. PICK signer \in Accounts, id \in PositionIds :
          \E amount \in Withdrawals \cup {positions[id].amount} : unstake(signer, id, amount)
    BY <1>2
  <2>2. PICK amount \in Withdrawals \cup {positions[id].amount} : unstake(signer, id, amount)
    BY <2>1
  <2>3. amount \in Nat
    BY <1>0, InputAssumption DEF TypeOK, Position
  <2>. QED BY <2>2, <2>3, UnstakeStep
<1>3. CASE \E signer \in Accounts, id \in PositionIds : claim(signer, id)
  BY <1>3, ClaimStep
<1>4. CASE \E signer \in Accounts, id \in PositionIds : close_position(signer, id)
  BY <1>4, CloseStep
<1>5. CASE \E amount \in Fundings : \E credited \in Credits(amount) :
             /\ pool.total_rewards_funded + credited <= MaxFunded
             /\ fund_rewards(credited)
  <2>1. PICK amount \in Fundings : \E credited \in Credits(amount) : fund_rewards(credited)
    BY <1>5
  <2>2. PICK credited \in Credits(amount) : fund_rewards(credited)
    BY <2>1
  <2>3. credited \in Nat
    BY InputAssumption, CreditsType
  <2>4. /\ positions' = positions /\ now' = now /\ stake_vault' = stake_vault
        /\ reward_vault' = reward_vault + credited
    BY <2>2 DEF fund_rewards
  <2>5. now <= now' /\ stake_vault <= stake_vault' /\ reward_vault <= reward_vault'
    BY <1>0, <2>3, <2>4
  <2>. QED BY <1>0, <2>2, <2>3, <2>4, <2>5, FundEffect, QuietStep
<1>6. CASE \E signer \in Accounts, rate \in Rates, end \in PeriodEnds :
             set_reward_rate(signer, rate, end)
  BY <1>6, InputAssumption, SetRateStep
<1>7. CASE \E signer \in Accounts :
             \/ \E paused \in BOOLEAN : set_paused(signer, paused)
             \/ \E successor \in Accounts : propose_authority(signer, successor)
             \/ accept_authority(signer)
  <2>1. /\ TypeOK'
        /\ SameAccrual(pool', pool)
        /\ pool'.total_rewards_paid = pool.total_rewards_paid
        /\ pool'.total_staked = pool.total_staked
        /\ pool'.total_weighted = pool.total_weighted
        /\ UNCHANGED <<positions, stake_vault, reward_vault, now>>
    BY <1>0, <1>7, AdminEffect
  <2>2. now <= now' /\ stake_vault <= stake_vault' /\ reward_vault <= reward_vault'
    BY <1>0, <2>1
  <2>. QED BY <2>1, <2>2, QuietStep
<1>8. ASSUME pool' = pool, positions' = positions,
             now' \in Nat, now <= now',
             stake_vault' \in Nat, stake_vault <= stake_vault',
             reward_vault' \in Nat, reward_vault <= reward_vault'
      PROVE  IInv'
  <2>1. TypeOK'
    BY <1>0, <1>8 DEF TypeOK
  <2>. QED BY <1>8, <2>1, QuietStep DEF SameAccrual
<1>9. CASE \E step \in TimeSteps : Tick(step)
  BY <1>0, <1>8, <1>9, InputAssumption DEF Tick
<1>10. CASE \E amount \in Donations : DonateStake(amount)
  BY <1>0, <1>8, <1>10, InputAssumption DEF DonateStake
<1>11. CASE \E amount \in Donations : DonateReward(amount)
  BY <1>0, <1>8, <1>11, InputAssumption DEF DonateReward
<1>12. CASE UNCHANGED vars
  BY <1>0, <1>8, <1>12 DEF vars
<1>. QED
  BY <1>1, <1>2, <1>3, <1>4, <1>5, <1>6, <1>7, <1>9, <1>10, <1>11, <1>12 DEF Next

\* The inductive invariant holds in every reachable state.
THEOREM Invariance == Spec => []IInv
<1>1. Init => IInv
  BY InitEstablishesIInv
<1>2. IInv /\ [Next]_vars => IInv'
  BY NextPreservesIInv
<1>. QED BY <1>1, <1>2, PTL DEF Spec

-----------------------------------------------------------------------------
(* What the invariant gives. *)

\* Every account keeps its type; in particular no book, watermark, liability or
\* balance is ever driven below zero by any sequence of instructions.
THEOREM TypeCorrect == Spec => []TypeOK
<1>1. IInv => TypeOK
  BY DEF IInv
<1>. QED BY <1>1, Invariance, PTL

\* The pool's totals are exactly the sums over its open positions and the stake
\* vault holds the principal (INVARIANTS.md 1.1, 1.3, 1.4).
THEOREM BooksAlwaysBalance == Spec => []BooksBalance
<1>1. IInv => BooksBalance
  BY DEF IInv
<1>. QED BY <1>1, Invariance, PTL

\* What set_reward_rate checked stays true: liability and the emissions still
\* committed to are held by the reward vault at every moment after.
THEOREM AlwaysSolvent == Spec => []Solvent
<1>1. IInv => Solvent
  BY DEF IInv
<1>. QED BY <1>1, Invariance, PTL

\* Everything that ever entered the reward vault fits a u64.
InflowFits == reward_vault + pool.total_rewards_paid <= U64_MAX

\* An unlocked position can be withdrawn in full by its owner, at any time and
\* whatever is paused, as long as what ever entered the reward vault fits a u64.
\* The lifetime counter is then never full: solvency keeps what it will hold
\* after the settlement under what came in.
THEOREM ExitIsNeverBlocked == Spec => [](InflowFits => ExitNeverBlocked)
<1>1. IInv => (InflowFits => ExitNeverBlocked)
  <2> SUFFICES ASSUME IInv, InflowFits, NEW id \in PositionIds, Exists(id),
                      is_unlocked(positions[id]), positions[id].amount > 0
               PROVE  CanUnstake(positions[id].owner, id, positions[id].amount)
    BY DEF ExitNeverBlocked
  <2> DEFINE q == update_rewards(pool, now)
             before == positions[id]
             after == withdrawn(before, before.amount, q.reward_per_token)
             removed == before.weighted_amount - after.weighted_amount
  <2>1. /\ pool \in Pool /\ before \in Position /\ now \in Nat
        /\ before.amount \in Nat /\ before.weighted_amount \in Nat
        /\ stake_vault \in Nat /\ reward_vault \in Nat
        /\ pool.total_rewards_paid \in Nat /\ pool.total_rewards_accrued \in Nat
        /\ pool.total_staked \in Nat /\ pool.total_weighted \in Nat
        /\ pool.reward_rate \in Nat /\ pool.reward_period_end \in Nat
    BY DEF IInv, TypeOK, Pool, Position
  <2>2. /\ q \in Pool
        /\ q.total_staked = pool.total_staked
        /\ q.total_weighted = pool.total_weighted
        /\ q.total_rewards_paid = pool.total_rewards_paid
        /\ q.reward_rate = pool.reward_rate
        /\ q.reward_period_end = pool.reward_period_end
    BY <2>1, UpdateFields
  <2>3. q.reward_per_token \in Nat /\ q.total_rewards_accrued \in Nat
    BY <2>2 DEF Pool
  <2>4. CanSettle(before, q.reward_per_token)
    BY AdvanceCovered
  <2>5. CanAdvance(pool, now)
    <3>1. unpaid_liability(q) + emission_for(q, q.reward_rate, now) <= reward_vault
      BY AdvanceSolvent
    <3>2. emission_for(q, q.reward_rate, now) \in Nat
      <4>1. CASE q.reward_period_end <= now
        BY <4>1 DEF emission_for
      <4>2. CASE ~(q.reward_period_end <= now)
        <5>1. q.reward_period_end - now \in Nat
          BY <2>1, <2>2, <4>2
        <5>2. (q.reward_period_end - now) * q.reward_rate \in Nat
          BY <2>1, <2>2, <5>1, TimesNat
        <5>. QED BY <4>2, <5>2 DEF emission_for
      <4>. QED BY <4>1, <4>2
    <3> HIDE DEF q
    <3>3. q.total_rewards_accrued - q.total_rewards_paid <= reward_vault
      BY <2>1, <2>2, <2>3, <3>1, <3>2 DEF unpaid_liability
    <3>4. q.total_rewards_accrued <= U64_MAX
      BY <2>1, <2>2, <2>3, <3>3, ScaleAssumption DEF InflowFits
    <3>. QED BY <3>4 DEF CanAdvance, Fits, q
  <2>6. before.amount <= pool.total_staked /\ pool.total_staked <= stake_vault
    <3>1. Principal[id] <= SumTo(Principal, MaxPositions)
      BY BookTypes, BoundAssumption, SumTerm DEF IInv, PositionIds
    <3>. QED BY <3>1 DEF IInv, BooksBalance, Principal
  <2>7. before.weighted_amount <= pool.total_weighted
    <3>1. Weight[id] <= SumTo(Weight, MaxPositions)
      BY BookTypes, BoundAssumption, SumTerm DEF IInv, PositionIds
    <3>. QED BY <3>1 DEF IInv, BooksBalance, Weight
  <2>8. removed = before.weighted_amount
    <3>1. after.weighted_amount = apply_weight(before.tier, before.amount - before.amount)
      BY <2>1, <2>3, <2>4, WithdrawnFields
    <3>2. before.amount - before.amount = 0 /\ before.tier \in LockTier
      BY <2>1 DEF Position
    <3>3. after.weighted_amount = 0
      BY <3>1, <3>2, WeightOfNothing
    <3> HIDE DEF before, after
    <3>. QED BY <2>1, <3>3
  <2> HIDE DEF q, before, after, removed
  <2>9. /\ before.amount <= stake_vault /\ before.amount <= q.total_staked
        /\ 0 <= removed /\ removed <= q.total_weighted
        /\ before.amount <= before.amount
    BY <2>1, <2>2, <2>6, <2>7, <2>8
  <2>10. Exists(id) /\ is_unlocked(before) /\ before.amount > 0
    BY DEF before
  <2>. QED BY <2>4, <2>5, <2>9, <2>10 DEF CanUnstake, q, before, after, removed
<1>. QED BY <1>1, Invariance, PTL

\* The claims payable now never add up to more than the liability booked now,
\* nor to more than the vault holds.
LEMMA ClaimsCovered ==
    ASSUME IInv
    PROVE  LiabilityCoversClaims /\ EveryClaimIsPayable
<1> DEFINE q == update_rewards(pool, now)
           rpt == q.reward_per_token
           owed == unpaid_liability(q)
           sum == SumTo(Claimable, MaxPositions)
           debts == SumTo(Debts(rpt), MaxPositions)
<1>1. TypeOK /\ q \in Pool
  BY UpdateFields DEF IInv, TypeOK
<1>2. rpt \in Nat /\ owed \in Int /\ reward_vault \in Nat
  BY <1>1 DEF TypeOK, Pool, unpaid_liability
<1>3. /\ \A id \in PositionIds : CanSettle(positions[id], rpt)
      /\ debts <= PRECISION * owed
  BY AdvanceCovered
<1>4. owed + emission_for(q, q.reward_rate, now) <= reward_vault
  BY AdvanceSolvent
<1>5. emission_for(q, q.reward_rate, now) \in Nat
  <2>1. q.reward_period_end \in Nat /\ q.reward_rate \in Nat /\ now \in Nat
    BY <1>1 DEF TypeOK, Pool
  <2>2. CASE q.reward_period_end <= now
    BY <2>2 DEF emission_for
  <2>3. CASE ~(q.reward_period_end <= now)
    <3>1. q.reward_period_end - now \in Nat
      BY <2>1, <2>3
    <3>2. (q.reward_period_end - now) * q.reward_rate \in Nat
      BY <2>1, <3>1, TimesNat
    <3>. QED BY <2>3, <3>2 DEF emission_for
  <2>. QED BY <2>2, <2>3
<1>6. ASSUME NEW id \in PositionIds
      PROVE  /\ Claimable[id] \in Nat
             /\ PRECISION * Claimable[id] <= Debts(rpt)[id]
             /\ Debts(rpt)[id] \in Nat
  <2>1. positions[id] \in Position
    BY <1>1 DEF TypeOK
  <2>2. Claimable[id] = earned(positions[id], rpt) /\ Debts(rpt)[id] = Debt(positions[id], rpt)
    BY DEF Claimable, Debts
  <2>. QED BY <1>2, <1>3, <2>1, <2>2, EarnedBound
<1> HIDE DEF q, rpt, owed
<1> DEFINE scaled == [id \in PositionIds |-> PRECISION * Claimable[id]]
           zeros == [id \in PositionIds |-> 0]
<1>7. /\ PositionIds = 0..MaxPositions-1 /\ MaxPositions \in Nat
      /\ PRECISION \in Nat \ {0}
  BY BoundAssumption, ScaleAssumption DEF PositionIds
<1>8. /\ Claimable \in [PositionIds -> Int]
      /\ Debts(rpt) \in [PositionIds -> Int]
      /\ scaled \in [PositionIds -> Int]
      /\ zeros \in [PositionIds -> Int]
  <2>1. \A id \in PositionIds : PRECISION * Claimable[id] \in Int
    BY <1>6, <1>7
  <2>2. Claimable \in [PositionIds -> Int]
    BY <1>6 DEF Claimable
  <2>3. Debts(rpt) \in [PositionIds -> Int]
    BY <1>6 DEF Debts
  <2>. QED BY <2>1, <2>2, <2>3
<1>9. SumTo(scaled, MaxPositions) = PRECISION * sum
  <2>1. \A id \in 0..MaxPositions-1 : scaled[id] = zeros[id] + PRECISION * Claimable[id]
    <3>1. \A id \in PositionIds : PRECISION * Claimable[id] \in Int
      BY <1>6, <1>7
    <3>. QED BY <1>7, <3>1
  <2>2. SumTo(zeros, MaxPositions) = 0
    BY <1>7, <1>8, SumOfZeros
  <2> HIDE DEF scaled, zeros
  <2>3. SumTo(scaled, MaxPositions) = SumTo(zeros, MaxPositions) + PRECISION * sum
    <3>1. /\ zeros \in [0..MaxPositions-1 -> Int]
          /\ scaled \in [0..MaxPositions-1 -> Int]
          /\ Claimable \in [0..MaxPositions-1 -> Int]
          /\ MaxPositions \in Nat /\ PRECISION \in Int
      BY <1>7, <1>8
    <3>. QED BY <2>1, <3>1, SumShift
  <2>4. sum \in Int
    BY <1>7, <1>8, SumType
  <2>5. PRECISION * sum \in Int
    BY <1>7, <2>4
  <2>. QED BY <2>2, <2>3, <2>5
<1>10. SumTo(scaled, MaxPositions) <= debts
  <2>1. \A id \in 0..MaxPositions-1 : scaled[id] <= Debts(rpt)[id]
    BY <1>6, <1>7
  <2> HIDE DEF scaled
  <2>. QED BY <1>7, <1>8, <2>1, SumMono
<1>11. sum \in Int /\ debts \in Int
  BY <1>7, <1>8, SumType
<1>12. sum <= owed
  <2> HIDE DEF scaled, sum, debts
  <2>1. PRECISION * sum <= PRECISION * owed
    <3>1. PRECISION * sum \in Int /\ PRECISION * owed \in Int
      BY <1>2, <1>7, <1>11
    <3>. QED BY <1>3, <1>9, <1>10, <1>11, <3>1
  <2>2. ASSUME owed < sum PROVE FALSE
    <3>1. sum - owed \in Nat \ {0} /\ PRECISION * sum = PRECISION * owed + PRECISION * (sum - owed)
      BY <1>2, <1>7, <1>11, <2>2
    <3>2. PRECISION * (sum - owed) > 0
      BY <1>7, <3>1
    <3>3. PRECISION * owed \in Int /\ PRECISION * (sum - owed) \in Int
      BY <1>2, <1>7, <3>1
    <3>. QED BY <2>1, <3>1, <3>2, <3>3
  <2>. QED BY <1>2, <1>11, <2>2
<1>13. sum <= reward_vault
  BY <1>2, <1>4, <1>5, <1>11, <1>12
<1>. QED BY <1>12, <1>13 DEF LiabilityCoversClaims, EveryClaimIsPayable, owed, q

\* Nobody's claim can ever be refused for want of rewards: the vault always holds
\* the sum of what all positions could claim at once (INVARIANTS.md 1.2).
THEOREM ClaimsAlwaysPayable == Spec => []EveryClaimIsPayable
<1>1. IInv => EveryClaimIsPayable
  BY ClaimsCovered
<1>. QED BY <1>1, Invariance, PTL

\* Truncation only ever under-pays: liability as booked is an upper bound of the
\* claims (INVARIANTS.md 3.2).
THEOREM LiabilityAlwaysCovers == Spec => []LiabilityCoversClaims
<1>1. IInv => LiabilityCoversClaims
  BY ClaimsCovered
<1>. QED BY <1>1, Invariance, PTL

-----------------------------------------------------------------------------
(* What a step may never do. *)

\* The accrual fields of a step that advances the accumulator only grow.
LEMMA AdvanceGrows ==
    ASSUME TypeOK, SameAccrual(pool', update_rewards(pool, now))
    PROVE  /\ pool'.reward_per_token >= pool.reward_per_token
           /\ pool'.last_update_ts >= pool.last_update_ts
           /\ pool'.total_rewards_accrued >= pool.total_rewards_accrued
<1> DEFINE q == update_rewards(pool, now)
           d == RewardDelta(pool, now)
           e == Emitted(pool, now)
<1>1. pool \in Pool /\ now \in Nat
  BY DEF TypeOK
<1>2. d \in Nat /\ e \in Nat
  BY <1>1, DeltaBound, EmittedType
<1>3. /\ q.reward_per_token = pool.reward_per_token + d
      /\ q.total_rewards_accrued = pool.total_rewards_accrued + e
      /\ q.last_update_ts = max(pool.last_update_ts, now)
  BY <1>1, UpdateFields
<1>4. /\ pool'.reward_per_token = q.reward_per_token
      /\ pool'.total_rewards_accrued = q.total_rewards_accrued
      /\ pool'.last_update_ts = q.last_update_ts
  BY DEF SameAccrual
<1>5. /\ pool.reward_per_token \in Nat /\ pool.total_rewards_accrued \in Nat
      /\ pool.last_update_ts \in Nat
  BY <1>1 DEF Pool
<1> HIDE DEF q, d, e
<1>. QED BY <1>1, <1>2, <1>3, <1>4, <1>5 DEF max

LEMMA StepNeverRewinds ==
    ASSUME IInv, [Next]_vars
    PROVE  /\ pool'.reward_per_token >= pool.reward_per_token
           /\ pool'.last_update_ts >= pool.last_update_ts
           /\ pool'.total_rewards_accrued >= pool.total_rewards_accrued
           /\ pool'.total_rewards_paid >= pool.total_rewards_paid
<1>1. /\ TypeOK
      /\ pool.reward_per_token \in Nat /\ pool.total_rewards_accrued \in Nat
      /\ pool.last_update_ts \in Nat /\ pool.total_rewards_paid \in Nat
  BY DEF IInv, TypeOK, Pool
<1>2. ASSUME SameAccrual(pool', pool), pool'.total_rewards_paid = pool.total_rewards_paid
      PROVE  /\ pool'.reward_per_token >= pool.reward_per_token
             /\ pool'.last_update_ts >= pool.last_update_ts
             /\ pool'.total_rewards_accrued >= pool.total_rewards_accrued
             /\ pool'.total_rewards_paid >= pool.total_rewards_paid
  BY <1>1, <1>2 DEF SameAccrual
<1>3. ASSUME SameAccrual(pool', update_rewards(pool, now)),
             NEW paid \in Nat, pool'.total_rewards_paid = pool.total_rewards_paid + paid
      PROVE  /\ pool'.reward_per_token >= pool.reward_per_token
             /\ pool'.last_update_ts >= pool.last_update_ts
             /\ pool'.total_rewards_accrued >= pool.total_rewards_accrued
             /\ pool'.total_rewards_paid >= pool.total_rewards_paid
  BY <1>1, <1>3, AdvanceGrows
<1>4. pool.total_rewards_paid = pool.total_rewards_paid + 0
  BY <1>1
<1>5. CASE \E owner \in Accounts, id \in PositionIds, amount \in Amounts, tier \in Tiers :
             \E credited \in Credits(amount) : stake(owner, id, amount, credited, tier)
  <2>1. PICK owner \in Accounts, id \in PositionIds, amount \in Amounts, tier \in Tiers :
          \E credited \in Credits(amount) : stake(owner, id, amount, credited, tier)
    BY <1>5
  <2>2. PICK credited \in Credits(amount) : stake(owner, id, amount, credited, tier)
    BY <2>1
  <2>3. amount \in Nat /\ tier \in LockTier /\ credited \in Nat
    BY InputAssumption, TiersAssumption, CreditsType
  <2>4. /\ SameAccrual(pool', update_rewards(pool, now))
        /\ pool'.total_rewards_paid = pool.total_rewards_paid
    BY <1>1, <2>2, <2>3, StakeEffect
  <2>. QED BY <1>3, <1>4, <2>4
<1>6. CASE \E signer \in Accounts, id \in PositionIds :
             \E amount \in Withdrawals \cup {positions[id].amount} : unstake(signer, id, amount)
  <2>1. PICK signer \in Accounts, id \in PositionIds :
          \E amount \in Withdrawals \cup {positions[id].amount} : unstake(signer, id, amount)
    BY <1>6
  <2>2. PICK amount \in Withdrawals \cup {positions[id].amount} : unstake(signer, id, amount)
    BY <2>1
  <2>3. amount \in Nat
    BY <1>1, InputAssumption DEF TypeOK, Position
  <2>4. /\ SameAccrual(pool', update_rewards(pool, now))
        /\ pool'.total_rewards_paid = pool.total_rewards_paid
    BY <1>1, <2>2, <2>3, UnstakeEffect
  <2>. QED BY <1>3, <1>4, <2>4
<1>7. CASE \E signer \in Accounts, id \in PositionIds : claim(signer, id)
  <2>1. PICK signer \in Accounts, id \in PositionIds : claim(signer, id)
    BY <1>7
  <2> DEFINE rpt == update_rewards(pool, now).reward_per_token
             amount == earned(positions[id], rpt)
  <2>2. /\ SameAccrual(pool', update_rewards(pool, now))
        /\ pool'.total_rewards_paid = pool.total_rewards_paid + amount
        /\ rpt \in Nat /\ positions[id] \in Position /\ CanSettle(positions[id], rpt)
    BY <1>1, <2>1, ClaimEffect
  <2>3. amount \in Nat
    BY <2>2, EarnedBound
  <2> HIDE DEF amount
  <2>. QED BY <1>3, <2>2, <2>3
<1>8. CASE \E signer \in Accounts, id \in PositionIds : close_position(signer, id)
  BY <1>2, <1>8 DEF close_position, SameAccrual
<1>9. CASE \E amount \in Fundings : \E credited \in Credits(amount) :
             /\ pool.total_rewards_funded + credited <= MaxFunded
             /\ fund_rewards(credited)
  <2>1. PICK amount \in Fundings : \E credited \in Credits(amount) : fund_rewards(credited)
    BY <1>9
  <2>2. PICK credited \in Credits(amount) : fund_rewards(credited)
    BY <2>1
  <2>3. credited \in Nat
    BY InputAssumption, CreditsType
  <2>. QED BY <1>1, <1>2, <2>2, <2>3, FundEffect
<1>10. CASE \E signer \in Accounts, rate \in Rates, end \in PeriodEnds :
              set_reward_rate(signer, rate, end)
  <2>1. PICK signer \in Accounts, rate \in Rates, end \in PeriodEnds :
          set_reward_rate(signer, rate, end)
    BY <1>10
  <2>2. rate \in Nat /\ end \in Nat
    BY InputAssumption
  <2> DEFINE q == update_rewards(pool, now)
  <2>3. /\ pool'.reward_per_token = q.reward_per_token
        /\ pool'.total_rewards_accrued = q.total_rewards_accrued
        /\ pool'.last_update_ts = q.last_update_ts
        /\ pool'.total_rewards_paid = pool.total_rewards_paid
    BY <1>1, <2>1, <2>2, SetRateEffect
  <2>4. /\ q.reward_per_token = pool.reward_per_token + RewardDelta(pool, now)
        /\ q.total_rewards_accrued = pool.total_rewards_accrued + Emitted(pool, now)
        /\ q.last_update_ts = max(pool.last_update_ts, now)
    BY <1>1, UpdateFields DEF TypeOK
  <2>5. RewardDelta(pool, now) \in Nat /\ Emitted(pool, now) \in Nat /\ now \in Nat
    BY <1>1, DeltaBound, EmittedType DEF TypeOK
  <2> HIDE DEF q
  <2>. QED BY <1>1, <2>3, <2>4, <2>5 DEF max
<1>11. CASE \E signer \in Accounts :
              \/ \E paused \in BOOLEAN : set_paused(signer, paused)
              \/ \E successor \in Accounts : propose_authority(signer, successor)
              \/ accept_authority(signer)
  BY <1>1, <1>2, <1>11, AdminEffect
<1>12. CASE UNCHANGED pool
  BY <1>2, <1>12 DEF SameAccrual
<1>13. ASSUME \/ \E step \in TimeSteps : Tick(step)
              \/ \E amount \in Donations : DonateStake(amount)
              \/ \E amount \in Donations : DonateReward(amount)
              \/ UNCHANGED vars
       PROVE  UNCHANGED pool
  BY <1>13 DEF Tick, DonateStake, DonateReward, vars
<1>. QED BY <1>5, <1>6, <1>7, <1>8, <1>9, <1>10, <1>11, <1>12, <1>13 DEF Next

\* The accumulator, its clock and the lifetime totals never move backwards
\* (INVARIANTS.md 3.1, 3.6).
THEOREM NeverRewinds == Spec => AccumulatorNeverRewinds
<1> DEFINE Grows == /\ pool'.reward_per_token >= pool.reward_per_token
                    /\ pool'.last_update_ts >= pool.last_update_ts
                    /\ pool'.total_rewards_accrued >= pool.total_rewards_accrued
                    /\ pool'.total_rewards_paid >= pool.total_rewards_paid
<1>1. IInv /\ [Next]_vars => [Grows]_vars
  BY StepNeverRewinds
<1>. QED BY <1>1, Invariance, PTL DEF Spec, AccumulatorNeverRewinds

\* A step that opens no position leaves every address's occupancy and the
\* counter alone; stake opens exactly the one at the counter.
LEMMA StepNeverRecycles ==
    ASSUME IInv, [Next]_vars
    PROVE  /\ pool'.position_count >= pool.position_count
           /\ \A id \in PositionIds :
                ~Exists(id) /\ Exists(id)' => /\ id >= pool.position_count
                                              /\ id < pool'.position_count
<1> DEFINE q == update_rewards(pool, now)
<1>1. /\ TypeOK
      /\ q \in Pool /\ q.position_count = pool.position_count
      /\ pool.position_count \in Nat
      /\ positions \in [PositionIds -> Position]
  BY UpdateFields DEF IInv, TypeOK, Pool
<1>2. ASSUME pool'.position_count = pool.position_count,
             \A id \in PositionIds : Exists(id)' => Exists(id)
      PROVE  /\ pool'.position_count >= pool.position_count
             /\ \A id \in PositionIds :
                  ~Exists(id) /\ Exists(id)' => /\ id >= pool.position_count
                                                /\ id < pool'.position_count
  BY <1>1, <1>2
<1> HIDE DEF q
<1>3. CASE \E owner \in Accounts, id \in PositionIds, amount \in Amounts, tier \in Tiers :
             \E credited \in Credits(amount) : stake(owner, id, amount, credited, tier)
  <2>1. PICK owner \in Accounts, slot \in PositionIds, amount \in Amounts, tier \in Tiers :
          \E credited \in Credits(amount) : stake(owner, slot, amount, credited, tier)
    BY <1>3
  <2>2. PICK credited \in Credits(amount) : stake(owner, slot, amount, credited, tier)
    BY <2>1
  <2> DEFINE weighted == apply_weight(tier, credited)
             opened == new_position(owner, credited, tier, q)
  <2>3. /\ pool' = [q EXCEPT !.total_staked = @ + credited,
                             !.total_weighted = @ + weighted,
                             !.position_count = @ + 1]
        /\ positions' = [positions EXCEPT ![slot] = opened]
        /\ slot = pool.position_count
    BY <2>2 DEF stake, q
  <2> HIDE DEF weighted, opened
  <2>4. pool'.position_count = pool.position_count + 1
    BY <1>1, <2>3 DEF Pool
  <2>5. \A id \in PositionIds : id # slot => positions'[id] = positions[id]
    BY <1>1, <2>3
  <2>. QED BY <1>1, <2>3, <2>4, <2>5 DEF Exists
<1>4. CASE \E signer \in Accounts, id \in PositionIds :
             \E amount \in Withdrawals \cup {positions[id].amount} : unstake(signer, id, amount)
  <2>1. PICK signer \in Accounts, slot \in PositionIds :
          \E amount \in Withdrawals \cup {positions[slot].amount} :
            unstake(signer, slot, amount)
    BY <1>4
  <2>2. PICK amount \in Withdrawals \cup {positions[slot].amount} :
          unstake(signer, slot, amount)
    BY <2>1
  <2> DEFINE after == withdrawn(positions[slot], amount, q.reward_per_token)
             removed == positions[slot].weighted_amount - after.weighted_amount
  <2>3. /\ pool' = [q EXCEPT !.total_staked = @ - amount, !.total_weighted = @ - removed]
        /\ positions' = [positions EXCEPT ![slot] = after]
        /\ Exists(slot)
    BY <2>2 DEF unstake, CanUnstake, q
  <2> HIDE DEF after, removed
  <2>4. pool'.position_count = pool.position_count
    BY <1>1, <2>3 DEF Pool
  <2>5. \A id \in PositionIds : id # slot => positions'[id] = positions[id]
    BY <1>1, <2>3
  <2>. QED BY <1>2, <2>3, <2>4, <2>5 DEF Exists
<1>5. CASE \E signer \in Accounts, id \in PositionIds : claim(signer, id)
  <2>1. PICK signer \in Accounts, slot \in PositionIds : claim(signer, slot)
    BY <1>5
  <2> DEFINE amount == earned(positions[slot], q.reward_per_token)
             after == [settle(positions[slot], q.reward_per_token) EXCEPT
                         !.pending_rewards = 0]
  <2>3. /\ pool' = [q EXCEPT !.total_rewards_paid = @ + amount]
        /\ positions' = [positions EXCEPT ![slot] = after]
        /\ Exists(slot)
    BY <2>1 DEF claim, q
  <2> HIDE DEF amount, after
  <2>4. pool'.position_count = pool.position_count
    BY <1>1, <2>3 DEF Pool
  <2>5. \A id \in PositionIds : id # slot => positions'[id] = positions[id]
    BY <1>1, <2>3
  <2>. QED BY <1>2, <2>3, <2>4, <2>5 DEF Exists
<1>6. CASE \E signer \in Accounts, id \in PositionIds : close_position(signer, id)
  <2>1. PICK signer \in Accounts, slot \in PositionIds : close_position(signer, slot)
    BY <1>6
  <2>2. pool' = pool /\ positions' = [positions EXCEPT ![slot] = NoPosition]
        /\ Exists(slot)
    BY <2>1 DEF close_position
  <2>3. \A id \in PositionIds : id # slot => positions'[id] = positions[id]
    BY <1>1, <2>2
  <2>. QED BY <1>2, <2>2, <2>3 DEF Exists
<1>7. CASE \E signer \in Accounts, rate \in Rates, end \in PeriodEnds :
             set_reward_rate(signer, rate, end)
  <2>1. PICK signer \in Accounts, rate \in Rates, end \in PeriodEnds :
          set_reward_rate(signer, rate, end)
    BY <1>7
  <2> DEFINE settled == [q EXCEPT !.reward_period_end = end]
  <2>2. pool' = [settled EXCEPT !.reward_rate = rate] /\ positions' = positions
    BY <2>1 DEF set_reward_rate, q
  <2>3. settled \in [authority : Accounts,
                     pending_authority : Accounts \cup {Nobody},
                     total_staked : Nat, total_weighted : Nat, reward_rate : Nat,
                     reward_period_end : {end}, reward_per_token : Nat,
                     last_update_ts : Nat, total_rewards_funded : Nat,
                     total_rewards_accrued : Nat, total_rewards_paid : Nat,
                     position_count : Nat, paused : BOOLEAN]
        /\ settled.position_count = q.position_count
    BY <1>1 DEF Pool
  <2> HIDE DEF settled
  <2>4. pool'.position_count = settled.position_count
    BY <2>2, <2>3
  <2>. QED BY <1>1, <1>2, <2>2, <2>3, <2>4 DEF Exists
<1>8. CASE \/ \E credited \in Nat : fund_rewards(credited)
           \/ \E signer \in Accounts :
                \/ \E paused \in BOOLEAN : set_paused(signer, paused)
                \/ \E successor \in Accounts : propose_authority(signer, successor)
                \/ accept_authority(signer)
  <2>1. positions' = positions
    BY <1>8 DEF fund_rewards, set_paused, propose_authority, accept_authority
  <2>2. pool \in Pool
    BY <1>1 DEF TypeOK
  <2>3. pool'.position_count = pool.position_count
    BY <1>8, <2>2 DEF fund_rewards, set_paused, propose_authority, accept_authority, Pool
  <2>. QED BY <1>2, <2>1, <2>3 DEF Exists
<1>9. CASE UNCHANGED <<pool, positions>>
  BY <1>2, <1>9 DEF Exists
<1>10. ASSUME \/ \E step \in TimeSteps : Tick(step)
              \/ \E amount \in Donations : DonateStake(amount)
              \/ \E amount \in Donations : DonateReward(amount)
              \/ UNCHANGED vars
       PROVE  UNCHANGED <<pool, positions>>
  BY <1>10 DEF Tick, DonateStake, DonateReward, vars
<1>11. (\E amount \in Fundings : \E credited \in Credits(amount) :
             /\ pool.total_rewards_funded + credited <= MaxFunded
             /\ fund_rewards(credited))
         => \E credited \in Nat : fund_rewards(credited)
  BY InputAssumption, CreditsType
<1>. QED BY <1>3, <1>4, <1>5, <1>6, <1>7, <1>8, <1>9, <1>10, <1>11 DEF Next

\* A position id is used once: a position appears only at the counter, above
\* every id used before, and the counter never goes down (close_position.rs).
THEOREM NeverRecycled == Spec => IdsNeverRecycled
<1> DEFINE Fresh == /\ pool'.position_count >= pool.position_count
                    /\ \A id \in PositionIds :
                         ~Exists(id) /\ Exists(id)' => /\ id >= pool.position_count
                                                       /\ id < pool'.position_count
<1>1. IInv /\ [Next]_vars => [Fresh]_vars
  BY StepNeverRecycles
<1>. QED BY <1>1, Invariance, PTL DEF Spec, IdsNeverRecycled

-----------------------------------------------------------------------------
(* The electorate governance sees. *)

\* Some weight goes with every unit of principal that goes.
LEMMA WeightStrict ==
    ASSUME NEW tier \in LockTier, NEW a \in Nat, NEW b \in Nat, a < b
    PROVE  apply_weight(tier, a) < apply_weight(tier, b)
  BY DEF apply_weight, weight_bps, BPS_DENOMINATOR, LockTier

LEMMA VotersShape ==
    ASSUME TypeOK, NEW id \in PositionIds
    PROVE  /\ Voters[id].owner = positions[id].owner
           /\ Voters[id].weight = positions[id].weighted_amount
           /\ Voters[id].lock_end = positions[id].lock_end
           /\ Voters[id].weight \in Nat
  BY DEF Voters, TypeOK, Position

\* How the mapping moves when one position changes.
LEMMA OneVoterMoves ==
    ASSUME TypeOK, NEW id \in PositionIds,
           \A i \in PositionIds : i # id => positions'[i] = positions[i]
    PROVE  Voters' = [Voters EXCEPT ![id] =
                        [owner    |-> positions'[id].owner,
                         weight   |-> positions'[id].weighted_amount,
                         lock_end |-> positions'[id].lock_end]]
  BY DEF Voters

LEMMA StakeSimulates ==
    ASSUME IInv, NEW owner \in Accounts, NEW id \in PositionIds, NEW amount \in Amounts,
           NEW tier \in Tiers, NEW credited \in Credits(amount),
           stake(owner, id, amount, credited, tier)
    PROVE  Votes!ElectorateNext
<1> DEFINE q == update_rewards(pool, now)
           w == apply_weight(tier, credited)
<1>1. amount \in Nat /\ tier \in LockTier /\ credited \in Nat
  BY InputAssumption, TiersAssumption, CreditsType
<1>2. TypeOK /\ q \in Pool /\ q.position_count = pool.position_count
  BY UpdateFields DEF IInv, TypeOK
<1>3. /\ pool'.total_weighted = pool.total_weighted + w
      /\ positions'[id] = new_position(owner, credited, tier, q)
  BY <1>1, <1>2, StakeEffect
<1>4. /\ id = pool.position_count /\ ~Exists(id) /\ now' = now
      /\ positions' = [positions EXCEPT ![id] = new_position(owner, credited, tier, q)]
      /\ pool' = [q EXCEPT !.total_staked   = @ + credited,
                           !.total_weighted = @ + w,
                           !.position_count = @ + 1]
  BY DEF stake
<1>5. w \in OpeningWeights /\ duration[tier] \in TierLocks
  <2>1. credited \in UNION {Credits(a) : a \in Amounts}
    OBVIOUS
  <2>. QED BY <2>1 DEF OpeningWeights, TierLocks
<1>6. /\ positions'[id].owner = owner
      /\ positions'[id].weighted_amount = w
      /\ positions'[id].lock_end = now + duration[tier]
  BY <1>3 DEF new_position
<1> HIDE DEF q, w
<1>7. pool'.position_count = pool.position_count + 1
  BY <1>2, <1>4 DEF Pool
<1>8. \A i \in PositionIds : i # id => positions'[i] = positions[i]
  BY <1>2, <1>4 DEF TypeOK
<1>9. Voters' = [Voters EXCEPT ![id] =
                   [owner |-> owner, weight |-> w, lock_end |-> now + duration[tier]]]
  BY <1>2, <1>6, <1>8, OneVoterMoves
<1>10. ~Votes!Present(id)
  BY <1>2, <1>4, VotersShape DEF Votes!Present, Exists
<1>11. Votes!Open(owner, id, w, duration[tier])
  BY <1>3, <1>4, <1>7, <1>9, <1>10, Zenon DEF Votes!Open
<1>. QED BY <1>5, <1>11, Zenon DEF Votes!ElectorateNext, Votes!VoterIds, PositionIds

LEMMA UnstakeSimulates ==
    ASSUME IInv, NEW signer \in Accounts, NEW id \in PositionIds, NEW amount \in Nat,
           unstake(signer, id, amount)
    PROVE  Votes!ElectorateNext
<1> DEFINE q == update_rewards(pool, now)
           before == positions[id]
           after == withdrawn(before, amount, q.reward_per_token)
           left == after.weighted_amount
           removed == before.weighted_amount - left
<1>1. TypeOK /\ q \in Pool /\ q.position_count = pool.position_count
  BY UpdateFields DEF IInv, TypeOK
<1>2. /\ pool'.total_weighted = pool.total_weighted - removed
      /\ positions'[id] = after
      /\ q.reward_per_token \in Nat /\ before \in Position
      /\ CanSettle(before, q.reward_per_token)
  BY <1>1, UnstakeEffect
<1>3. /\ Exists(id) /\ amount > 0 /\ is_unlocked(before) /\ amount <= before.amount
      /\ now' = now
      /\ positions' = [positions EXCEPT ![id] = after]
      /\ pool' = [q EXCEPT !.total_staked = @ - amount, !.total_weighted = @ - removed]
  BY DEF unstake, CanUnstake
<1>4. /\ after \in Position
      /\ left = apply_weight(before.tier, before.amount - amount)
      /\ after.owner = before.owner
  BY <1>2, <1>3, WithdrawnFields
<1>5. after.lock_end = before.lock_end
  BY <1>2 DEF withdrawn, settle, Position
<1>6. left \in 0 .. before.weighted_amount - 1
  <2>1. before.weighted_amount = apply_weight(before.tier, before.amount)
    BY DEF IInv, BooksBalance, Weight
  <2>2. /\ before.tier \in LockTier /\ before.amount \in Nat
        /\ before.amount - amount \in Nat /\ before.amount - amount < before.amount
        /\ before.weighted_amount \in Nat
    BY <1>2, <1>3 DEF Position
  <2>3. left \in Nat
    BY <1>4 DEF Position
  <2> HIDE DEF before, left
  <2>4. left < before.weighted_amount
    BY <1>4, <2>1, <2>2, WeightStrict
  <2>. QED BY <2>2, <2>3, <2>4
<1> HIDE DEF q, after, removed
<1>7. pool'.position_count = pool.position_count
  BY <1>1, <1>3 DEF Pool
<1>8. \A i \in PositionIds : i # id => positions'[i] = positions[i]
  BY <1>1, <1>3 DEF TypeOK
<1>9. /\ Voters[id].owner = before.owner
      /\ Voters[id].weight = before.weighted_amount
      /\ Voters[id].lock_end = before.lock_end
  BY <1>1, VotersShape
<1>10. Voters' = [Voters EXCEPT ![id].weight = left]
  <2>1. Voters' = [Voters EXCEPT ![id] =
                     [owner |-> before.owner, weight |-> left, lock_end |-> before.lock_end]]
    BY <1>1, <1>2, <1>4, <1>5, <1>8, OneVoterMoves
  <2>2. [Voters[id] EXCEPT !.weight = left]
          = [owner |-> before.owner, weight |-> left, lock_end |-> before.lock_end]
    BY DEF Voters
  <2>. QED BY <2>1, <2>2
<1>11. /\ Votes!Present(id)
       /\ now >= Voters[id].lock_end
       /\ left < Voters[id].weight
       /\ pool'.total_weighted = pool.total_weighted - (Voters[id].weight - left)
       /\ left \in 0 .. Voters[id].weight - 1
  <2>1. before.owner # Nobody /\ now >= before.lock_end
    BY <1>3 DEF Exists, is_unlocked
  <2>2. before.weighted_amount \in Nat
    BY <1>2 DEF Position
  <2>3. pool'.total_weighted = pool.total_weighted - (before.weighted_amount - left)
    BY <1>2 DEF removed
  <2> HIDE DEF before, left
  <2>4. left < before.weighted_amount
    BY <1>6, <2>2
  <2>. QED BY <1>6, <1>9, <2>1, <2>3, <2>4 DEF Votes!Present
<1> HIDE DEF left, before
<1>12. Votes!Shrink(id, left)
  BY <1>3, <1>7, <1>10, <1>11 DEF Votes!Shrink
<1>. QED BY <1>11, <1>12 DEF Votes!ElectorateNext, Votes!VoterIds, PositionIds

LEMMA CloseSimulates ==
    ASSUME IInv, NEW signer \in Accounts, NEW id \in PositionIds,
           close_position(signer, id)
    PROVE  Votes!ElectorateNext
<1>1. TypeOK
  BY DEF IInv
<1>2. /\ Exists(id) /\ positions[id].weighted_amount = 0
      /\ positions' = [positions EXCEPT ![id] = NoPosition]
      /\ pool' = pool /\ now' = now
  BY DEF close_position, is_closable
<1>3. \A i \in PositionIds : i # id => positions'[i] = positions[i]
  BY <1>1, <1>2 DEF TypeOK
<1>4. /\ positions'[id].owner = Nobody /\ positions'[id].weighted_amount = 0
      /\ positions'[id].lock_end = 0
  BY <1>1, <1>2 DEF TypeOK, NoPosition
<1>5. Voters' = [Voters EXCEPT ![id] = Votes!NoVoter]
  BY <1>1, <1>3, <1>4, OneVoterMoves DEF Votes!NoVoter
<1>6. Votes!Present(id) /\ Voters[id].weight = 0
  BY <1>1, <1>2, VotersShape DEF Votes!Present, Exists
<1>7. Votes!Close(id)
  BY <1>2, <1>5, <1>6 DEF Votes!Close
<1>. QED BY <1>7 DEF Votes!ElectorateNext, Votes!VoterIds, PositionIds

LEMMA ClaimSimulates ==
    ASSUME IInv, NEW signer \in Accounts, NEW id \in PositionIds, claim(signer, id)
    PROVE  UNCHANGED <<Voters, pool.total_weighted, pool.position_count, now>>
<1> DEFINE q == update_rewards(pool, now)
           amount == earned(positions[id], q.reward_per_token)
           after == [settle(positions[id], q.reward_per_token) EXCEPT !.pending_rewards = 0]
<1>1. TypeOK /\ q \in Pool /\ q.position_count = pool.position_count
  BY UpdateFields DEF IInv, TypeOK
<1>2. /\ pool'.total_weighted = pool.total_weighted
      /\ positions'[id].weighted_amount = positions[id].weighted_amount
      /\ positions'[id].owner = positions[id].owner
  BY <1>1, ClaimEffect
<1>3. /\ pool' = [q EXCEPT !.total_rewards_paid = @ + amount]
      /\ positions' = [positions EXCEPT ![id] = after]
      /\ now' = now
  BY DEF claim
<1>4. after.lock_end = positions[id].lock_end
  BY <1>1 DEF settle, TypeOK, Position
<1> HIDE DEF q, amount, after
<1>5. pool'.position_count = pool.position_count
  BY <1>1, <1>3 DEF Pool
<1>6. /\ \A i \in PositionIds : i # id => positions'[i] = positions[i]
      /\ positions'[id].lock_end = positions[id].lock_end
  BY <1>1, <1>3, <1>4 DEF TypeOK
<1>7. Voters' = Voters
  BY <1>1, <1>2, <1>6 DEF Voters
<1>. QED BY <1>2, <1>3, <1>5, <1>7

LEMMA RewardsInvisible ==
    ASSUME IInv,
           \/ \E credited \in Nat : fund_rewards(credited)
           \/ \E signer \in Accounts, rate \in Nat, end \in Nat :
                set_reward_rate(signer, rate, end)
           \/ \E signer \in Accounts :
                \/ \E paused \in BOOLEAN : set_paused(signer, paused)
                \/ \E successor \in Accounts : propose_authority(signer, successor)
                \/ accept_authority(signer)
    PROVE  UNCHANGED <<Voters, pool.total_weighted, pool.position_count, now>>
<1> DEFINE q == update_rewards(pool, now)
<1>1. /\ TypeOK /\ pool \in Pool /\ q \in Pool
      /\ q.position_count = pool.position_count
      /\ q.total_weighted = pool.total_weighted
  BY UpdateFields DEF IInv, TypeOK
<1> HIDE DEF q
<1>2. UNCHANGED <<positions, now>>
  BY DEF fund_rewards, set_reward_rate, set_paused, propose_authority, accept_authority
<1>3. Voters' = Voters
  BY <1>2 DEF Voters
<1>4. CASE \E signer \in Accounts, rate \in Nat, end \in Nat :
             set_reward_rate(signer, rate, end)
  <2>1. PICK signer \in Accounts, rate \in Nat, end \in Nat :
          set_reward_rate(signer, rate, end)
    BY <1>4
  <2> DEFINE settled == [q EXCEPT !.reward_period_end = end]
  <2>2. pool' = [settled EXCEPT !.reward_rate = rate]
    BY <2>1 DEF set_reward_rate, q
  <2>3. settled \in Pool
    BY <1>1, Zenon DEF Pool
  <2>4. /\ settled.position_count = q.position_count
        /\ settled.total_weighted = q.total_weighted
    BY <1>1 DEF Pool
  <2> HIDE DEF settled
  <2>5. /\ pool'.position_count = settled.position_count
        /\ pool'.total_weighted = settled.total_weighted
    BY <2>2, <2>3 DEF Pool
  <2>. QED BY <1>1, <1>2, <1>3, <2>4, <2>5
<1>5. CASE \E credited \in Nat : fund_rewards(credited)
  <2>1. PICK credited \in Nat : fund_rewards(credited)
    BY <1>5
  <2>2. pool' = [pool EXCEPT !.total_rewards_funded = @ + credited]
    BY <2>1 DEF fund_rewards
  <2>3. /\ pool'.position_count = pool.position_count
        /\ pool'.total_weighted = pool.total_weighted
    BY <1>1, <2>2 DEF Pool
  <2>. QED BY <1>2, <1>3, <2>3
<1>6. CASE \E signer \in Accounts :
             \/ \E paused \in BOOLEAN : set_paused(signer, paused)
             \/ \E successor \in Accounts : propose_authority(signer, successor)
             \/ accept_authority(signer)
  <2>1. /\ pool'.position_count = pool.position_count
        /\ pool'.total_weighted = pool.total_weighted
    BY <1>1, <1>6 DEF Pool, set_paused, propose_authority, accept_authority
  <2>. QED BY <1>2, <1>3, <2>1
<1>. QED BY <1>4, <1>5, <1>6

LEMMA InitSimulates == Init => Votes!ElectorateInit
<1> SUFFICES ASSUME Init PROVE Votes!ElectorateInit
  OBVIOUS
<1>1. pool.total_weighted = 0 /\ pool.position_count = 0 /\ now = 0
  BY DEF Init, initial_pool
<1>2. Voters = [id \in PositionIds |-> Votes!NoVoter]
  BY DEF Init, NoPosition, Voters, Votes!NoVoter
<1>. QED BY <1>1, <1>2 DEF Votes!ElectorateInit, Votes!VoterIds, PositionIds

LEMMA StepSimulates ==
    IInv /\ [Next]_vars => [Votes!ElectorateNext]_(Votes!electorate_vars)
<1> SUFFICES ASSUME IInv, [Next]_vars
             PROVE  \/ Votes!ElectorateNext
                    \/ UNCHANGED <<Voters, pool.total_weighted, pool.position_count, now>>
  BY DEF Votes!electorate_vars
<1>1. CASE \E owner \in Accounts, id \in PositionIds, amount \in Amounts, tier \in Tiers :
             \E credited \in Credits(amount) : stake(owner, id, amount, credited, tier)
  BY <1>1, StakeSimulates
<1>2. CASE \E signer \in Accounts, id \in PositionIds :
             \E amount \in Withdrawals \cup {positions[id].amount} : unstake(signer, id, amount)
  <2>1. PICK signer \in Accounts, id \in PositionIds :
          \E amount \in Withdrawals \cup {positions[id].amount} : unstake(signer, id, amount)
    BY <1>2
  <2>2. PICK amount \in Withdrawals \cup {positions[id].amount} : unstake(signer, id, amount)
    BY <2>1
  <2>3. amount \in Nat
    BY InputAssumption DEF IInv, TypeOK, Position
  <2>. QED BY <2>2, <2>3, UnstakeSimulates
<1>3. CASE \E signer \in Accounts, id \in PositionIds : claim(signer, id)
  BY <1>3, ClaimSimulates
<1>4. CASE \E signer \in Accounts, id \in PositionIds : close_position(signer, id)
  BY <1>4, CloseSimulates
<1>5. CASE \/ \E amount \in Fundings : \E credited \in Credits(amount) :
                /\ pool.total_rewards_funded + credited <= MaxFunded
                /\ fund_rewards(credited)
           \/ \E signer \in Accounts, rate \in Rates, end \in PeriodEnds :
                set_reward_rate(signer, rate, end)
           \/ \E signer \in Accounts, paused \in BOOLEAN : set_paused(signer, paused)
           \/ \E signer, successor \in Accounts : propose_authority(signer, successor)
           \/ \E signer \in Accounts : accept_authority(signer)
  <2>1. \/ \E credited \in Nat : fund_rewards(credited)
        \/ \E signer \in Accounts, rate \in Nat, end \in Nat :
             set_reward_rate(signer, rate, end)
        \/ \E signer \in Accounts :
             \/ \E paused \in BOOLEAN : set_paused(signer, paused)
             \/ \E successor \in Accounts : propose_authority(signer, successor)
             \/ accept_authority(signer)
    BY <1>5, InputAssumption, CreditsType
  <2>. QED BY <2>1, RewardsInvisible
<1>6. CASE \E step \in TimeSteps : Tick(step)
  <2>1. PICK step \in TimeSteps : Tick(step)
    BY <1>6
  <2>2. UNCHANGED <<Voters, pool.total_weighted, pool.position_count>>
    BY <2>1 DEF Tick, Voters
  <2>3. Votes!Advance(step)
    BY <2>1, <2>2 DEF Tick, Votes!Advance
  <2>. QED BY <2>3 DEF Votes!ElectorateNext
<1>7. CASE \/ \E amount \in Donations : DonateStake(amount)
           \/ \E amount \in Donations : DonateReward(amount)
           \/ UNCHANGED vars
  BY <1>7 DEF DonateStake, DonateReward, vars, Voters
<1>. QED BY <1>1, <1>2, <1>3, <1>4, <1>5, <1>6, <1>7 DEF Next

\* The pool implements the electorate governance counts on.
THEOREM PoolImplementsElectorate == Spec => ImplementsElectorate
<1>1. Init => Votes!ElectorateInit
  BY InitSimulates
<1>2. IInv /\ [Next]_vars => [Votes!ElectorateNext]_(Votes!electorate_vars)
  BY StepSimulates
<1>. QED BY <1>1, <1>2, Invariance, PTL DEF Spec, ImplementsElectorate, Votes!ElectorateSpec


-----------------------------------------------------------------------------
(* The exact distribution.  What follows is about SharesSpec, the pool next *)
(* to the entitlement each position really earned.                         *)

LEMMA TimesMono ==
    ASSUME NEW a \in Int, NEW b \in Int, NEW c \in Nat, a <= b
    PROVE  c * a <= c * b
  OBVIOUS

LEMMA TimesCancel ==
    ASSUME NEW a \in Int, NEW b \in Int, NEW c \in Nat \ {0}, c * a <= c * b
    PROVE  a <= b
<1>1. ASSUME b < a PROVE FALSE
  <2>1. b + 1 <= a
    BY <1>1
  <2>2. c * (b + 1) <= c * a
    BY <2>1, TimesMono
  <2>3. c * (b + 1) = c * b + c
    OBVIOUS
  <2>4. c * b \in Int /\ c * a \in Int
    OBVIOUS
  <2>. QED BY <2>2, <2>3, <2>4
<1>. QED BY <1>1

\* Truncation loses less than a unit.
LEMMA DivBounds ==
    ASSUME NEW a \in Nat, NEW b \in Nat \ {0}
    PROVE  /\ a \div b \in Nat
           /\ b * (a \div b) <= a
           /\ a + 1 <= b * (a \div b) + b
  OBVIOUS

LEMMA DivExact ==
    ASSUME NEW a \in Nat, NEW b \in Nat \ {0}, a % b = 0
    PROVE  a \div b \in Nat /\ a = b * (a \div b)
  OBVIOUS

\* The quotient is the greatest integer under the fraction.
LEMMA DivGreatest ==
    ASSUME NEW a \in Nat, NEW b \in Nat \ {0}, NEW x \in Int, b * x <= a
    PROVE  x <= a \div b
<1> DEFINE q == a \div b
<1>1. q \in Nat /\ a + 1 <= b * q + b
  BY DivBounds
<1> HIDE DEF q
<1>2. b * (q + 1) = b * q + b /\ b * x \in Int /\ b * q \in Int
  BY <1>1
<1>3. b * x <= b * (q + 1)
  BY <1>1, <1>2
<1>4. ASSUME q + 1 <= x PROVE FALSE
  <2>1. b * (q + 1) <= b * x
    BY <1>1, <1>4, TimesMono
  <2>. QED BY <1>1, <1>2, <2>1
<1>. QED BY <1>1, <1>4 DEF q

\* The share of a position in so many seconds, with the pool an argument.
ShareOf(p, position, seconds) ==
    IF p.total_weighted = 0 THEN 0
    ELSE seconds * p.reward_rate * position.weighted_amount * (SCALE \div p.total_weighted)

\* Its claim at the accumulator's present value and its share of the time since
\* are covered by what it is entitled to.
Covers(p, position, t, owed) ==
    SCALE * Debt(position, p.reward_per_token)
      + PRECISION * ShareOf(p, position, Elapsed(p, t)) <= PRECISION * owed

Exact(p) == p.total_weighted > 0 => SCALE % p.total_weighted = 0

LEMMA ShareType ==
    ASSUME NEW p \in Pool, NEW position \in Position, NEW seconds \in Int
    PROVE  ShareOf(p, position, seconds) \in Int
<1>1. p.reward_rate \in Nat /\ p.total_weighted \in Nat /\ position.weighted_amount \in Nat
  BY DEF Pool, Position
<1>2. CASE p.total_weighted = 0
  BY <1>2 DEF ShareOf
<1>3. CASE p.total_weighted # 0
  <2> DEFINE k == SCALE \div p.total_weighted
             r == p.reward_rate
             w == position.weighted_amount
  <2>1. k \in Nat
    BY <1>1, <1>3, SharesAssumption, DivBounds
  <2>2. ShareOf(p, position, seconds) = seconds * r * w * k
    BY <1>3 DEF ShareOf
  <2> HIDE DEF k, r, w
  <2>3. r \in Nat /\ w \in Nat
    BY <1>1 DEF r, w
  <2>4. seconds * r \in Int
    BY <2>3
  <2>5. seconds * r * w \in Int
    BY <2>3, <2>4
  <2>. QED BY <2>1, <2>2, <2>5
<1>. QED BY <1>2, <1>3

\* Advancing the accumulator turns the share of the elapsed time into claim, and
\* rounds against the position.
LEMMA AdvanceCovers ==
    ASSUME NEW p \in Pool, NEW t \in Nat, NEW position \in Position, NEW owed \in Int,
           Exact(p), Covers(p, position, t, owed)
    PROVE  SCALE * Debt(position, p.reward_per_token + RewardDelta(p, t)) <= PRECISION * owed
<1> DEFINE tw == p.total_weighted
           w == position.weighted_amount
           r == p.reward_rate
           e == Elapsed(p, t)
           d == RewardDelta(p, t)
           rpt == p.reward_per_token
           gap == rpt - position.reward_per_token_paid
           pp == PRECISION * position.pending_rewards
           sh == ShareOf(p, position, e)
<1>1. /\ tw \in Nat /\ w \in Nat /\ r \in Nat /\ e \in Nat /\ d \in Nat /\ rpt \in Nat
      /\ position.reward_per_token_paid \in Nat /\ position.pending_rewards \in Nat
      /\ SCALE \in Nat \ {0} /\ PRECISION \in Nat \ {0}
  BY ElapsedType, DeltaBound, SharesAssumption, ScaleAssumption DEF Pool, Position
<1>2. gap \in Int /\ pp \in Nat
  BY <1>1, TimesNat
<1>3. d * tw <= PRECISION * (e * r)
  BY DeltaBound DEF Emitted
<1>4. /\ Debt(position, rpt) = pp + w * gap
      /\ Debt(position, rpt + d) = pp + w * ((rpt + d) - position.reward_per_token_paid)
  BY DEF Debt
<1>5. SCALE * Debt(position, rpt) + PRECISION * sh <= PRECISION * owed
  BY DEF Covers
<1>6. sh \in Int
  BY <1>1, ShareType
<1>7. tw = 0 => e = 0 /\ d = 0 /\ sh = 0
  BY ElapsedType DEF RewardDelta, ShareOf
<1>8. tw > 0 => /\ SCALE \div tw \in Nat
                /\ SCALE = tw * (SCALE \div tw)
                /\ sh = e * r * w * (SCALE \div tw)
  <2> SUFFICES ASSUME tw > 0
               PROVE  /\ SCALE \div tw \in Nat
                      /\ SCALE = tw * (SCALE \div tw)
                      /\ sh = e * r * w * (SCALE \div tw)
    OBVIOUS
  <2>1. sh = e * r * w * (SCALE \div tw)
    BY DEF ShareOf
  <2>2. SCALE % tw = 0 /\ tw \in Nat \ {0} /\ SCALE \in Nat
    BY <1>1 DEF Exact
  <2> HIDE DEF tw, w, r, e, sh
  <2>3. SCALE \div tw \in Nat /\ SCALE = tw * (SCALE \div tw)
    BY <2>2, DivExact
  <2>. QED BY <2>1, <2>3
<1>9. (rpt + d) - position.reward_per_token_paid = gap + d
  BY <1>1
<1> HIDE DEF tw, w, r, e, d, rpt, gap, pp, sh
<1>10. Debt(position, rpt + d) = Debt(position, rpt) + w * d
  <2>1. w * (gap + d) = w * gap + w * d
    BY <1>1, <1>2
  <2>2. w * gap \in Int /\ w * d \in Int
    BY <1>1, <1>2
  <2>. QED BY <1>2, <1>4, <1>9, <2>1, <2>2
<1>11. Debt(position, rpt) \in Int
  <2>1. w * gap \in Int
    BY <1>1, <1>2
  <2>. QED BY <1>2, <1>4, <2>1
<1>12. SCALE * (w * d) <= PRECISION * sh
  <2>1. CASE tw = 0
    <3>1. w * d = 0
      BY <1>1, <1>7, <2>1
    <3>2. SCALE * (w * d) = 0 /\ PRECISION * sh = 0
      BY <1>1, <1>7, <2>1, <3>1
    <3>. QED BY <3>2
  <2>2. CASE tw > 0
    <3> DEFINE k == SCALE \div tw
    <3>1. k \in Nat /\ SCALE = tw * k /\ sh = e * r * w * k
      BY <1>8, <2>2
    <3> HIDE DEF k
    <3>2. k * w \in Nat /\ e * r \in Nat
      BY <1>1, <3>1, TimesNat
    <3>3. d * tw \in Int /\ PRECISION * (e * r) \in Int
      BY <1>1, <3>2
    <3>4. (k * w) * (d * tw) <= (k * w) * (PRECISION * (e * r))
      BY <1>3, <3>2, <3>3, TimesMono
    <3>5. SCALE * (w * d) = (k * w) * (d * tw)
      BY <1>1, <3>1
    <3>6. PRECISION * sh = (k * w) * (PRECISION * (e * r))
      BY <1>1, <3>1
    <3>. QED BY <3>4, <3>5, <3>6
  <2>. QED BY <1>1, <2>1, <2>2
<1>13. SCALE * Debt(position, rpt + d) = SCALE * Debt(position, rpt) + SCALE * (w * d)
  <2>1. w * d \in Int
    BY <1>1
  <2>. QED BY <1>1, <1>10, <1>11, <2>1
<1>14. /\ SCALE * Debt(position, rpt) \in Int /\ SCALE * (w * d) \in Int
       /\ PRECISION * sh \in Int /\ PRECISION * owed \in Int
  <2>1. w * d \in Int
    BY <1>1
  <2>. QED BY <1>1, <1>6, <1>11, <2>1
<1>15. SCALE * Debt(position, rpt + d) <= PRECISION * owed
  BY <1>5, <1>12, <1>13, <1>14
<1>. QED BY <1>15 DEF rpt, d

\* What a position's claim is covered by, its truncated earnings are.
LEMMA EarnedCovered ==
    ASSUME NEW position \in Position, NEW rpt \in Nat, CanSettle(position, rpt),
           NEW owed \in Int, SCALE * Debt(position, rpt) <= PRECISION * owed
    PROVE  SCALE * earned(position, rpt) <= owed
<1> DEFINE x == earned(position, rpt)
           y == Debt(position, rpt)
<1>1. x \in Nat /\ y \in Nat /\ PRECISION * x <= y
  BY EarnedBound
<1>2. SCALE \in Nat /\ PRECISION \in Nat \ {0} /\ SCALE * y <= PRECISION * owed
  BY SharesAssumption, ScaleAssumption
<1> HIDE DEF x, y
<1>3. PRECISION * x \in Int /\ SCALE * x \in Int /\ SCALE * y \in Int /\ PRECISION * owed \in Int
  BY <1>1, <1>2
<1>4. SCALE * (PRECISION * x) <= SCALE * y
  BY <1>1, <1>2, <1>3, TimesMono
<1>5. PRECISION * (SCALE * x) = SCALE * (PRECISION * x) /\ SCALE * (PRECISION * x) \in Int
  BY <1>1, <1>2
<1>6. PRECISION * (SCALE * x) <= PRECISION * owed
  BY <1>2, <1>3, <1>4, <1>5
<1>7. SCALE * x <= owed
  BY <1>2, <1>3, <1>6, TimesCancel
<1>. QED BY <1>7 DEF x

\* What the accumulator has gained is the emission's truncated share, also when
\* there is nothing to distribute.
LEMMA DeltaBounds ==
    ASSUME NEW p \in Pool, NEW t \in Nat, p.total_weighted > 0
    PROVE  LET emitted == (Elapsed(p, t) * p.reward_rate) * PRECISION
               d == RewardDelta(p, t)
           IN  /\ emitted \in Nat /\ d \in Nat
               /\ p.total_weighted * d <= emitted
               /\ emitted + 1 <= p.total_weighted * d + p.total_weighted
<1> DEFINE e == Elapsed(p, t)
           r == p.reward_rate
           tw == p.total_weighted
           emitted == (e * r) * PRECISION
<1>1. e \in Nat /\ r \in Nat /\ tw \in Nat \ {0} /\ PRECISION \in Nat
  BY ElapsedType, ScaleAssumption DEF Pool
<1>2. RewardDelta(p, t) = IF e > 0 THEN emitted \div tw ELSE 0
  BY DEF RewardDelta, Emitted
<1> HIDE DEF e, r, tw
<1>3. emitted \in Nat
  BY <1>1, TimesNat
<1>4. e = 0 => emitted = 0
  BY <1>1
<1> HIDE DEF emitted
<1>5. emitted \div tw \in Nat /\ (emitted = 0 => emitted \div tw = 0)
  BY <1>1, <1>3
<1>6. RewardDelta(p, t) = emitted \div tw
  BY <1>1, <1>2, <1>4, <1>5
<1>7. /\ tw * (emitted \div tw) <= emitted
      /\ emitted + 1 <= tw * (emitted \div tw) + tw
  BY <1>1, <1>3, DivBounds
<1>. QED BY <1>3, <1>5, <1>6, <1>7 DEF emitted, e, r, tw

\* The arithmetic of a tick.  g is what the accumulator gains, h what the
\* position's truncated earnings gain, ev the emission of the time that passed.
LEMMA TickArithmetic ==
    ASSUME NEW tw \in Nat \ {0}, NEW k \in Nat, SCALE = tw * k, NEW w \in Nat,
           NEW ev \in Nat, NEW g \in Int, NEW h \in Int,
           ev * PRECISION + 1 <= tw * g + tw,
           w * g + 1 <= PRECISION * h + PRECISION
    PROVE  ev * w * k - SCALE * h <= SCALE + (SCALE * w) \div PRECISION
<1> DEFINE P == PRECISION
           sh == ev * w * k
<1>1. P \in Nat \ {0} /\ SCALE \in Nat \ {0}
  BY ScaleAssumption, SharesAssumption
<1> HIDE DEF P
<1>2. sh \in Nat
  BY TimesNat
<1>3. P * sh <= SCALE * (w * g) + SCALE * w
  <2>1. k * w \in Nat /\ ev * P \in Nat /\ tw * g \in Int
    BY <1>1, TimesNat
  <2>2. ev * P <= tw * g + tw
    BY <2>1 DEF P
  <2>3. (k * w) * (ev * P) <= (k * w) * (tw * g + tw)
    BY <2>1, <2>2, TimesMono
  <2>4. (k * w) * (ev * P) = P * sh
    BY <1>1
  <2>5. (k * w) * (tw * g + tw) = (tw * k) * (w * g) + (tw * k) * w
    OBVIOUS
  <2>. QED BY <2>3, <2>4, <2>5
<1>4. SCALE * (w * g) <= SCALE * (P * h) + SCALE * P
  <2>1. w * g \in Int /\ P * h \in Int
    BY <1>1
  <2>2. w * g <= P * h + P
    BY <1>1, <2>1 DEF P
  <2>3. SCALE * (w * g) <= SCALE * (P * h + P)
    BY <1>1, <2>1, <2>2, TimesMono
  <2>4. SCALE * (P * h + P) = SCALE * (P * h) + SCALE * P
    BY <1>1, <2>1
  <2>. QED BY <2>3, <2>4
<1>5. /\ P * sh \in Int /\ SCALE * (w * g) \in Int /\ SCALE * w \in Nat
      /\ SCALE * (P * h) \in Int /\ SCALE * P \in Int /\ SCALE * h \in Int
  <2>1. w * g \in Int /\ P * h \in Int
    BY <1>1
  <2>. QED BY <1>1, <1>2, <2>1, TimesNat
<1>6. P * (sh - SCALE * h - SCALE) = P * sh - SCALE * (P * h) - SCALE * P
  <2>1. P * (sh - SCALE * h - SCALE) = P * sh - P * (SCALE * h) - P * SCALE
    BY <1>1, <1>2, <1>5
  <2>2. P * (SCALE * h) = SCALE * (P * h) /\ P * SCALE = SCALE * P
    BY <1>1
  <2>. QED BY <2>1, <2>2
<1>7. P * (sh - SCALE * h - SCALE) <= SCALE * w
  BY <1>3, <1>4, <1>5, <1>6
<1> DEFINE x == sh - SCALE * h - SCALE
<1>8. x \in Int
  BY <1>1, <1>2, <1>5
<1>9. x <= (SCALE * w) \div P /\ (SCALE * w) \div P \in Nat
  BY <1>1, <1>5, <1>7, <1>8, DivGreatest, DivBounds
<1> HIDE DEF sh
<1>10. sh - SCALE * h <= SCALE + (SCALE * w) \div P
  BY <1>1, <1>2, <1>5, <1>9
<1>. QED BY <1>10 DEF sh, P

\* When time passes a position's truncated earnings keep up with its share, but
\* for a unit and the truncated advance of its weight.
LEMMA TickShare ==
    ASSUME NEW p \in Pool, NEW t \in Nat, NEW u \in Nat, NEW position \in Position,
           NEW seconds \in Nat, Elapsed(p, u) = Elapsed(p, t) + seconds,
           CanSettle(position, p.reward_per_token), Exact(p)
    PROVE  ShareOf(p, position, seconds)
             - SCALE * (earned(position, p.reward_per_token + RewardDelta(p, u))
                          - earned(position, p.reward_per_token + RewardDelta(p, t)))
             <= SCALE + (SCALE * position.weighted_amount) \div PRECISION
<1> DEFINE tw == p.total_weighted
           w == position.weighted_amount
           r == p.reward_rate
           rpt == p.reward_per_token
           gap == rpt - position.reward_per_token_paid
           du == RewardDelta(p, u)
           dt == RewardDelta(p, t)
           eu == earned(position, rpt + du)
           et == earned(position, rpt + dt)
<1>1. /\ tw \in Nat /\ w \in Nat /\ r \in Nat /\ rpt \in Nat /\ du \in Nat /\ dt \in Nat
      /\ position.reward_per_token_paid \in Nat /\ position.pending_rewards \in Nat
      /\ SCALE \in Nat \ {0} /\ PRECISION \in Nat \ {0}
  BY DeltaBound, SharesAssumption, ScaleAssumption DEF Pool, Position
<1>2. gap \in Nat
  BY <1>1 DEF CanSettle
<1>3. /\ eu = (w * (gap + du)) \div PRECISION + position.pending_rewards
      /\ et = (w * (gap + dt)) \div PRECISION + position.pending_rewards
  <2>1. /\ (rpt + du) - position.reward_per_token_paid = gap + du
        /\ (rpt + dt) - position.reward_per_token_paid = gap + dt
    BY <1>1
  <2>. QED BY <2>1 DEF earned
<1>4. w * (gap + du) \in Nat /\ w * (gap + dt) \in Nat
  <2> HIDE DEF w, gap, du, dt
  <2>. QED BY <1>1, <1>2, TimesNat
<1> DEFINE fu == (w * (gap + du)) \div PRECISION
           ft == (w * (gap + dt)) \div PRECISION
           g == du - dt
           h == fu - ft
<1>5. /\ fu \in Nat /\ ft \in Nat
      /\ w * (gap + du) + 1 <= PRECISION * fu + PRECISION
      /\ PRECISION * ft <= w * (gap + dt)
  BY <1>1, <1>4, DivBounds
<1>6. eu - et = h
  BY <1>1, <1>3, <1>5
<1>7. w * g + 1 <= PRECISION * h + PRECISION
  <2> HIDE DEF w, gap, du, dt, fu, ft
  <2>1. w * (gap + du) = w * (gap + dt) + w * g
    BY <1>1, <1>2
  <2>2. PRECISION * h = PRECISION * fu - PRECISION * ft
    BY <1>1, <1>5
  <2>3. w * g \in Int /\ PRECISION * fu \in Int /\ PRECISION * ft \in Int
    BY <1>1, <1>5
  <2>. QED BY <1>1, <1>4, <1>5, <2>1, <2>2, <2>3
<1>8. CASE tw = 0
  <2>1. du = 0 /\ dt = 0
    BY <1>8, ElapsedType DEF RewardDelta
  <2>2. ShareOf(p, position, seconds) = 0
    BY <1>8 DEF ShareOf
  <2>3. eu - et = 0
    BY <1>1, <1>3, <1>4, <1>5, <2>1
  <2>4. SCALE * (eu - et) = 0
    BY <1>1, <2>3
  <2>5. (SCALE * w) \div PRECISION \in Nat
    BY <1>1, TimesNat, DivBounds
  <2> HIDE DEF eu, et, w
  <2>6. ShareOf(p, position, seconds) - SCALE * (eu - et) <= SCALE + (SCALE * w) \div PRECISION
    BY <1>1, <2>2, <2>4, <2>5
  <2>. QED BY <2>6 DEF eu, et, w, du, dt, rpt
<1>9. CASE tw > 0
  <2> DEFINE k == SCALE \div tw
             xu == (Elapsed(p, u) * r) * PRECISION
             xt == (Elapsed(p, t) * r) * PRECISION
             ev == seconds * r
  <2>1. /\ xu \in Nat /\ xt \in Nat
        /\ xu + 1 <= tw * du + tw
        /\ tw * dt <= xt
    BY <1>9, DeltaBounds
  <2>2. ShareOf(p, position, seconds) = seconds * r * w * k
    BY <1>9 DEF ShareOf
  <2>3. SCALE % tw = 0 /\ tw \in Nat \ {0} /\ SCALE \in Nat
    BY <1>1, <1>9 DEF Exact
  <2>4. Elapsed(p, t) \in Nat
    BY ElapsedType
  <2> HIDE DEF tw, w, r, du, dt, eu, et
  <2>5. k \in Nat /\ SCALE = tw * k
    BY <2>3, DivExact
  <2> HIDE DEF k
  <2>6. ev \in Nat
    BY <1>1, TimesNat
  <2>7. xu = xt + ev * PRECISION
    <3> DEFINE e == Elapsed(p, t)
    <3>1. xu = ((e + seconds) * r) * PRECISION /\ xt = (e * r) * PRECISION /\ e \in Nat
      BY <2>4
    <3> HIDE DEF e, xu, xt
    <3>. QED BY <1>1, <3>1
  <2> HIDE DEF xu, xt, ev
  <2>8. ev * PRECISION + 1 <= tw * g + tw
    <3>1. tw * g = tw * du - tw * dt /\ tw * du \in Int /\ tw * dt \in Int
      BY <1>1
    <3>2. ev * PRECISION \in Int
      BY <1>1, <2>6
    <3>. QED BY <1>1, <2>1, <2>7, <3>1, <3>2
  <2>9. g \in Int /\ h \in Int
    BY <1>1, <1>5
  <2> HIDE DEF g, h
  <2>10. ev * w * k - SCALE * h <= SCALE + (SCALE * w) \div PRECISION
    BY <1>1, <1>7, <2>3, <2>5, <2>6, <2>8, <2>9, TickArithmetic
  <2>11. ShareOf(p, position, seconds) - SCALE * (eu - et) <= SCALE + (SCALE * w) \div PRECISION
    BY <1>6, <2>2, <2>10, Zenon DEF ev
  <2>. QED BY <2>11 DEF eu, et, w, du, dt, rpt
<1>. QED BY <1>1, <1>8, <1>9

LEMMA ShareSplits ==
    ASSUME NEW p \in Pool, NEW position \in Position, NEW a \in Int, NEW b \in Int
    PROVE  ShareOf(p, position, a + b) = ShareOf(p, position, a) + ShareOf(p, position, b)
<1>1. p.reward_rate \in Nat /\ p.total_weighted \in Nat /\ position.weighted_amount \in Nat
  BY DEF Pool, Position
<1>2. CASE p.total_weighted = 0
  BY <1>2 DEF ShareOf
<1>3. CASE p.total_weighted # 0
  <2> DEFINE k == SCALE \div p.total_weighted
             r == p.reward_rate
             w == position.weighted_amount
  <2>1. k \in Nat
    BY <1>1, <1>3, SharesAssumption, DivBounds
  <2>2. /\ ShareOf(p, position, a + b) = (a + b) * r * w * k
        /\ ShareOf(p, position, a) = a * r * w * k
        /\ ShareOf(p, position, b) = b * r * w * k
    BY <1>3 DEF ShareOf
  <2> HIDE DEF k, r, w
  <2>3. r \in Nat /\ w \in Nat
    BY <1>1 DEF r, w
  <2>4. (a + b) * r * w * k = a * r * w * k + b * r * w * k
    BY <2>1, <2>3
  <2>. QED BY <2>2, <2>4
<1>. QED BY <1>2, <1>3

LEMMA ShareOfNothing ==
    ASSUME NEW p \in Pool, NEW position \in Position
    PROVE  ShareOf(p, position, 0) = 0
<1>1. ShareOf(p, position, 0) \in Int
  BY ShareType
<1>2. ShareOf(p, position, 0) = ShareOf(p, position, 0) + ShareOf(p, position, 0)
  <2>1. ShareOf(p, position, 0 + 0) = ShareOf(p, position, 0) + ShareOf(p, position, 0)
    BY ShareSplits
  <2>2. 0 + 0 = 0
    OBVIOUS
  <2>. QED BY <2>1, <2>2, Zenon
<1>. QED BY <1>1, <1>2

\* The seconds between two times that count, given the last update is behind both.
LEMMA ElapsedSplits ==
    ASSUME NEW p \in Pool, NEW t \in Nat, NEW u \in Nat, t <= u, p.last_update_ts <= t,
           p.total_weighted > 0
    PROVE  LET seconds == min(u, p.reward_period_end) - min(t, p.reward_period_end)
           IN  seconds \in Nat /\ Elapsed(p, u) = Elapsed(p, t) + seconds
  BY DEF Pool, Elapsed, min

\* Nothing has elapsed in a pool that has just been updated.
LEMMA NothingElapsed ==
    ASSUME NEW p \in Pool, NEW t \in Nat, p.last_update_ts = t
    PROVE  Elapsed(p, t) = 0 /\ RewardDelta(p, t) = 0
  BY DEF Pool, Elapsed, min, RewardDelta

-----------------------------------------------------------------------------

\* Every position's entitlement covers its claim and its share of the time since
\* the last update; an address without a position is owed nothing.
SharesInv ==
    /\ due \in [PositionIds -> Int]
    /\ \A id \in PositionIds :
         /\ Exists(id) => Covers(pool, positions[id], now, due[id])
         /\ ~Exists(id) => due[id] = 0

\* The body of SharesExactToDust, for one step.
SharesKept ==
    \A id \in PositionIds :
        Exists(id) /\ Exists(id)' =>
          ShareKept(id, Shortfall(due[id], positions[id], Accumulated),
                        Shortfall(due'[id], positions'[id], Accumulated'))

LEMMA AccumulatedIsAdvanced ==
    ASSUME TypeOK
    PROVE  /\ Accumulated \in Nat
           /\ Accumulated = update_rewards(pool, now).reward_per_token
<1>1. pool \in Pool /\ now \in Nat
  BY DEF TypeOK
<1>2. RewardDelta(pool, now) \in Nat /\ pool.reward_per_token \in Nat
  BY <1>1, DeltaBound DEF Pool
<1>3. update_rewards(pool, now).reward_per_token
        = pool.reward_per_token + RewardDelta(pool, now)
  BY <1>1, UpdateFields
<1>. QED BY <1>2, <1>3 DEF Accumulated

LEMMA EarnedAfterSettling ==
    ASSUME NEW position \in Position, NEW rpt \in Nat, position.reward_per_token_paid = rpt
    PROVE  /\ earned(position, rpt) = position.pending_rewards
           /\ Debt(position, rpt) = PRECISION * position.pending_rewards
<1> DEFINE w == position.weighted_amount
<1>1. w \in Nat /\ position.pending_rewards \in Nat /\ PRECISION \in Nat \ {0}
  BY ScaleAssumption DEF Position
<1>2. /\ earned(position, rpt) = (w * (rpt - rpt)) \div PRECISION + position.pending_rewards
      /\ Debt(position, rpt) = PRECISION * position.pending_rewards + w * (rpt - rpt)
  BY DEF earned, Debt
<1> HIDE DEF w
<1>3. w * (rpt - rpt) = 0
  BY <1>1
<1>4. 0 \div PRECISION = 0 /\ PRECISION * position.pending_rewards \in Nat
  BY <1>1, TimesNat
<1>. QED BY <1>1, <1>2, <1>3, <1>4

\* What Distribute makes of an entitlement while no time passes.
LEMMA DueAtOnce ==
    ASSUME TypeOK, Distribute, now' = now, due \in [PositionIds -> Int], NEW id \in PositionIds,
           Paid(id) \in Nat
    PROVE  due'[id] = IF Exists(id)' THEN due[id] - Paid(id) * SCALE ELSE 0
<1>1. Rewarded(now, now') = 0
  BY DEF Rewarded, TypeOK, Pool, min
<1>2. Share(id, 0) = 0
  <2>1. Share(id, 0) = ShareOf(pool, positions[id], 0)
    BY DEF Share, ShareOf
  <2>2. ShareOf(pool, positions[id], 0) = 0
    BY ShareOfNothing DEF TypeOK
  <2>. QED BY <2>1, <2>2
<1>4. due'[id] = IF Exists(id)' THEN due[id] + Share(id, Rewarded(now, now')) - Paid(id) * SCALE
                 ELSE 0
  BY Zenon DEF Distribute
<1>5. due[id] + Share(id, Rewarded(now, now')) - Paid(id) * SCALE = due[id] - Paid(id) * SCALE
  <2> DEFINE x == Paid(id) * SCALE
  <2>1. x \in Nat
    BY SharesAssumption, TimesNat
  <2> HIDE DEF x
  <2>2. due[id] + 0 - x = due[id] - x
    BY <2>1
  <2>. QED BY <1>1, <1>2, <2>2, Zenon DEF x
<1>. QED BY <1>4, <1>5, Zenon

\* An instruction that neither settles nor touches a position it leaves open.
LEMMA QuietShares ==
    ASSUME IInv, SharesInv, TypeOK', Distribute, now' = now,
           SameAccrual(pool', pool),
           pool'.total_weighted = pool.total_weighted,
           pool'.total_rewards_paid = pool.total_rewards_paid,
           \A id \in PositionIds : Exists(id)' => positions'[id] = positions[id]
    PROVE  SharesInv' /\ SharesKept
<1>1. TypeOK /\ pool \in Pool /\ pool' \in Pool /\ now \in Nat /\ now' = now
  BY DEF IInv, TypeOK
<1>2. /\ Elapsed(pool', now) = Elapsed(pool, now)
      /\ RewardDelta(pool', now) = RewardDelta(pool, now)
  BY DEF Elapsed, RewardDelta, Emitted, SameAccrual
<1>3. Accumulated' = Accumulated
  BY <1>1, <1>2 DEF Accumulated, SameAccrual
<1>4. ASSUME NEW id \in PositionIds
      PROVE  due'[id] = IF Exists(id)' THEN due[id] ELSE 0
  <2>1. Paid(id) = 0
    BY <1>1 DEF Paid, Pool
  <2>2. due[id] - 0 * SCALE = due[id]
    BY SharesAssumption DEF SharesInv
  <2>. QED BY <1>1, <2>1, <2>2, DueAtOnce DEF SharesInv
<1>5. ASSUME NEW id \in PositionIds, Exists(id)'
      PROVE  /\ Exists(id) /\ due'[id] = due[id] /\ positions'[id] = positions[id]
             /\ Covers(pool', positions'[id], now', due'[id])
  <2>1. Exists(id) /\ due'[id] = due[id] /\ positions'[id] = positions[id]
    BY <1>4, <1>5 DEF Exists
  <2>2. Covers(pool, positions[id], now, due[id])
    BY <2>1 DEF SharesInv
  <2>3. ShareOf(pool', positions[id], Elapsed(pool, now))
          = ShareOf(pool, positions[id], Elapsed(pool, now))
    BY DEF ShareOf, SameAccrual
  <2>. QED BY <1>1, <1>2, <2>1, <2>2, <2>3 DEF Covers, SameAccrual
<1>6. due' \in [PositionIds -> Int]
  <2>1. due' = [id \in PositionIds |-> due'[id]]
    BY Zenon DEF Distribute
  <2>2. \A id \in PositionIds : due'[id] \in Int
    BY <1>4 DEF SharesInv
  <2>. QED BY <2>1, <2>2
<1>7. SharesInv'
  BY <1>1, <1>4, <1>5, <1>6 DEF SharesInv
<1>8. SharesKept
  BY <1>3, <1>5 DEF SharesKept, ShareKept
<1>. QED BY <1>7, <1>8

\* What a settling instruction does to a position it leaves open: nothing, or it
\* settles it and pays x of what it earned, or it opens it.
Settles(id) ==
    \/ Exists(id) /\ positions'[id] = positions[id] /\ due'[id] = due[id]
    \/ /\ Exists(id)
       /\ positions'[id].reward_per_token_paid = Accumulated
       /\ \E x \in Nat :
            /\ x + positions'[id].pending_rewards = earned(positions[id], Accumulated)
            /\ due'[id] = due[id] - x * SCALE
    \/ /\ ~Exists(id)
       /\ positions'[id].reward_per_token_paid = Accumulated
       /\ positions'[id].pending_rewards = 0
       /\ due'[id] = 0

LEMMA SettlingShares ==
    ASSUME IInv, SharesInv, ScaleIsExact, TypeOK', Distribute, now' = now,
           pool'.reward_per_token = Accumulated,
           pool'.last_update_ts = now,
           \A id \in PositionIds : Exists(id)' => Settles(id)
    PROVE  SharesInv' /\ SharesKept
<1>1. TypeOK /\ pool \in Pool /\ pool' \in Pool /\ now \in Nat /\ now' = now
  BY DEF IInv, TypeOK
<1>2. Accumulated \in Nat /\ Exact(pool)
  BY <1>1, AccumulatedIsAdvanced DEF ScaleIsExact, Exact
<1>3. Elapsed(pool', now) = 0 /\ RewardDelta(pool', now) = 0
  BY <1>1, NothingElapsed
<1>4. Accumulated' = Accumulated
  BY <1>1, <1>2, <1>3 DEF Accumulated
<1>5. ASSUME NEW id \in PositionIds, Exists(id)
      PROVE  /\ SCALE * Debt(positions[id], Accumulated) <= PRECISION * due[id]
             /\ SCALE * earned(positions[id], Accumulated) <= due[id]
             /\ earned(positions[id], Accumulated) \in Nat
             /\ due[id] \in Int
  <2>1. positions[id] \in Position /\ due[id] \in Int
    BY <1>1 DEF TypeOK, SharesInv
  <2>2. Covers(pool, positions[id], now, due[id])
    BY <1>5 DEF SharesInv
  <2>3. SCALE * Debt(positions[id], Accumulated) <= PRECISION * due[id]
    BY <1>1, <1>2, <2>1, <2>2, AdvanceCovers DEF Accumulated
  <2>4. CanSettle(positions[id], Accumulated)
    BY <1>1, AdvanceCovered, AccumulatedIsAdvanced
  <2>. QED BY <1>2, <2>1, <2>3, <2>4, EarnedCovered, EarnedBound
<1>6. ASSUME NEW id \in PositionIds, Exists(id)'
      PROVE  /\ due'[id] \in Int
             /\ SCALE * Debt(positions'[id], Accumulated) <= PRECISION * due'[id]
             /\ Exists(id) => Shortfall(due'[id], positions'[id], Accumulated)
                                = Shortfall(due[id], positions[id], Accumulated)
  <2>1. positions'[id] \in Position
    BY DEF TypeOK
  <2>2. CASE Exists(id) /\ positions'[id] = positions[id] /\ due'[id] = due[id]
    BY <1>5, <2>2 DEF Shortfall
  <2>3. ASSUME Exists(id), positions'[id].reward_per_token_paid = Accumulated,
               NEW x \in Nat,
               x + positions'[id].pending_rewards = earned(positions[id], Accumulated),
               due'[id] = due[id] - x * SCALE
        PROVE  /\ due'[id] \in Int
               /\ SCALE * Debt(positions'[id], Accumulated) <= PRECISION * due'[id]
               /\ Shortfall(due'[id], positions'[id], Accumulated)
                    = Shortfall(due[id], positions[id], Accumulated)
    <3> DEFINE y == positions'[id].pending_rewards
               z == earned(positions[id], Accumulated)
               o == due[id]
    <3>1. /\ y \in Nat /\ z \in Nat /\ o \in Int /\ SCALE * z <= o /\ x + y = z
          /\ SCALE \in Nat /\ PRECISION \in Nat /\ x \in Nat
      BY <1>5, <2>1, <2>3, SharesAssumption, ScaleAssumption DEF Position
    <3>2. /\ earned(positions'[id], Accumulated) = y
          /\ Debt(positions'[id], Accumulated) = PRECISION * y
      BY <1>2, <2>1, <2>3, EarnedAfterSettling
    <3>3. due'[id] = o - x * SCALE
      BY <2>3
    <3> HIDE DEF y, z, o
    <3>4. x * SCALE \in Int /\ SCALE * y \in Int /\ SCALE * z = x * SCALE + SCALE * y
      BY <3>1
    <3>5. SCALE * y <= o - x * SCALE /\ o - x * SCALE \in Int
      BY <3>1, <3>4
    <3>6. PRECISION * (SCALE * y) <= PRECISION * (o - x * SCALE)
      BY <3>1, <3>4, <3>5, TimesMono
    <3>7. SCALE * (PRECISION * y) = PRECISION * (SCALE * y)
      BY <3>1
    <3>8. (o - x * SCALE) - SCALE * y = o - SCALE * z
      BY <3>1, <3>4
    <3>. QED BY <3>2, <3>3, <3>5, <3>6, <3>7, <3>8 DEF Shortfall, o, z
  <2>4. CASE /\ ~Exists(id)
             /\ positions'[id].reward_per_token_paid = Accumulated
             /\ positions'[id].pending_rewards = 0
             /\ due'[id] = 0
    <3>1. Debt(positions'[id], Accumulated) = PRECISION * 0
      BY <1>2, <2>1, <2>4, EarnedAfterSettling
    <3>2. SCALE * (PRECISION * 0) = 0 /\ PRECISION * 0 = 0
      BY SharesAssumption, ScaleAssumption
    <3>. QED BY <2>4, <3>1, <3>2
  <2>5. Settles(id)
    BY <1>6
  <2>. QED BY <2>2, <2>3, <2>4, <2>5, Zenon DEF Settles
<1>7. ASSUME NEW id \in PositionIds, Exists(id)'
      PROVE  Covers(pool', positions'[id], now', due'[id])
  <2>1. positions'[id] \in Position
    BY DEF TypeOK
  <2>2. ShareOf(pool', positions'[id], 0) = 0
    BY <1>1, <2>1, ShareOfNothing
  <2>3. /\ SCALE * Debt(positions'[id], Accumulated) \in Int
        /\ PRECISION * 0 = 0
    <3> DEFINE w == positions'[id].weighted_amount
               gap == Accumulated - positions'[id].reward_per_token_paid
               y == positions'[id].pending_rewards
    <3>1. w \in Nat /\ gap \in Int /\ y \in Nat /\ PRECISION \in Nat /\ SCALE \in Nat
      BY <1>2, <2>1, ScaleAssumption, SharesAssumption DEF Position
    <3>2. Debt(positions'[id], Accumulated) = PRECISION * y + w * gap
      BY DEF Debt
    <3> HIDE DEF w, gap, y
    <3>. QED BY <3>1, <3>2
  <2>. QED BY <1>1, <1>3, <1>6, <1>7, <2>2, <2>3 DEF Covers
<1>8. ASSUME NEW id \in PositionIds, ~Exists(id)'
      PROVE  due'[id] = 0
  BY <1>8, Zenon DEF Distribute
<1>9. due' \in [PositionIds -> Int]
  <2>1. due' = [id \in PositionIds |-> due'[id]]
    BY Zenon DEF Distribute
  <2>2. \A id \in PositionIds : due'[id] \in Int
    BY <1>6, <1>8
  <2>. QED BY <2>1, <2>2
<1>10. SharesInv'
  BY <1>7, <1>8, <1>9 DEF SharesInv
<1>11. SharesKept
  BY <1>4, <1>6 DEF SharesKept, ShareKept
<1>. QED BY <1>10, <1>11

-----------------------------------------------------------------------------
(* The instructions, each one of the shapes above. *)

\* A claim pays its own position only.
LEMMA ClaimPaid ==
    ASSUME IInv, NEW signer \in Accounts, NEW slot \in PositionIds, claim(signer, slot),
           NEW id \in PositionIds
    PROVE  Paid(id) = IF id = slot THEN earned(positions[slot], Accumulated) ELSE 0
<1> DEFINE rpt == update_rewards(pool, now).reward_per_token
<1>1. TypeOK /\ Accumulated = rpt /\ rpt \in Nat
  BY AccumulatedIsAdvanced DEF IInv
<1>2. CASE id = slot
  <2>1. signer = positions[slot].owner /\ earned(positions[slot], rpt) > 0
    BY DEF claim
  <2>2. /\ pool'.total_rewards_paid = pool.total_rewards_paid + earned(positions[slot], rpt)
        /\ earned(positions[slot], rpt) \in Nat
    BY <1>1, ClaimEffect, EarnedBound
  <2>3. pool.total_rewards_paid \in Nat
    BY <1>1 DEF TypeOK, Pool
  <2>4. pool'.total_rewards_paid > pool.total_rewards_paid
    BY <2>1, <2>2, <2>3
  <2>5. claim(positions[slot].owner, slot)
    BY <2>1
  <2>. QED BY <1>1, <1>2, <2>4, <2>5 DEF Paid
<1>3. CASE id # slot
  <2>1. ASSUME claim(positions[id].owner, id) PROVE FALSE
    <3>1. positions[id].owner \in Accounts /\ positions[id] \in Position
      BY <1>1, <2>1 DEF claim, Exists, TypeOK, Position
    <3>2. positions'[id].pending_rewards = 0 /\ positions'[id].reward_per_token_paid = rpt
      BY <1>1, <2>1, <3>1, ClaimEffect
    <3>3. positions'[id] = positions[id]
      BY <1>1, <1>3 DEF claim, TypeOK
    <3>4. earned(positions[id], rpt) = 0
      BY <1>1, <3>1, <3>2, <3>3, EarnedAfterSettling
    <3>5. earned(positions[id], rpt) > 0
      BY <2>1 DEF claim
    <3>. QED BY <3>4, <3>5
  <2>. QED BY <1>3, <2>1 DEF Paid
<1>. QED BY <1>2, <1>3

LEMMA NothingPaid ==
    ASSUME TypeOK, pool'.total_rewards_paid = pool.total_rewards_paid, NEW id \in PositionIds
    PROVE  Paid(id) = 0
  BY DEF Paid, TypeOK, Pool

\* The accumulator after an instruction that updated it.
LEMMA UpdatedPool ==
    ASSUME IInv, SameAccrual(pool', update_rewards(pool, now))
    PROVE  /\ pool'.reward_per_token = Accumulated
           /\ pool'.last_update_ts = now
<1>1. /\ TypeOK /\ pool \in Pool /\ now \in Nat
      /\ pool.last_update_ts \in Nat /\ pool.last_update_ts <= now
  BY DEF IInv, TypeOK, ClockBehind, Pool
<1>2. update_rewards(pool, now).last_update_ts = max(pool.last_update_ts, now)
  BY <1>1, UpdateFields
<1>3. max(pool.last_update_ts, now) = now
  BY <1>1 DEF max
<1>. QED BY <1>1, <1>2, <1>3, AccumulatedIsAdvanced DEF SameAccrual

LEMMA StakeShares ==
    ASSUME IInv, SharesInv, ScaleIsExact, Distribute,
           NEW owner \in Accounts, NEW slot \in PositionIds, NEW amount \in Nat,
           NEW credited \in Nat, NEW tier \in LockTier,
           stake(owner, slot, amount, credited, tier)
    PROVE  SharesInv' /\ SharesKept
<1> DEFINE q == update_rewards(pool, now)
<1>1. TypeOK /\ due \in [PositionIds -> Int] /\ Accumulated = q.reward_per_token
  BY AccumulatedIsAdvanced DEF IInv, SharesInv
<1>2. /\ TypeOK' /\ SameAccrual(pool', q)
      /\ pool'.total_rewards_paid = pool.total_rewards_paid
      /\ positions'[slot] = new_position(owner, credited, tier, q)
  BY <1>1, StakeEffect
<1>3. /\ now' = now /\ ~Exists(slot)
      /\ \A id \in PositionIds : id # slot => positions'[id] = positions[id]
  BY <1>1 DEF stake, TypeOK
<1>4. ASSUME NEW id \in PositionIds, Exists(id)' PROVE Settles(id)
  <2>1. due'[id] = due[id] - 0 * SCALE /\ due[id] \in Int
    BY <1>1, <1>2, <1>3, <1>4, NothingPaid, DueAtOnce
  <2>2. due'[id] = due[id]
    BY <2>1, SharesAssumption
  <2>3. CASE id = slot
    <3>1. due[id] = 0
      BY <1>3, <2>3 DEF SharesInv
    <3>2. /\ positions'[id].reward_per_token_paid = q.reward_per_token
          /\ positions'[id].pending_rewards = 0
      BY <1>2, <2>3 DEF new_position
    <3>. QED BY <1>1, <1>3, <2>2, <2>3, <3>1, <3>2 DEF Settles
  <2>4. CASE id # slot
    BY <1>3, <1>4, <2>2, <2>4 DEF Settles, Exists
  <2>. QED BY <2>3, <2>4
<1>. QED BY <1>2, <1>3, <1>4, UpdatedPool, SettlingShares

LEMMA UnstakeShares ==
    ASSUME IInv, SharesInv, ScaleIsExact, Distribute,
           NEW signer \in Accounts, NEW slot \in PositionIds, NEW amount \in Nat,
           unstake(signer, slot, amount)
    PROVE  SharesInv' /\ SharesKept
<1> DEFINE q == update_rewards(pool, now)
           after == withdrawn(positions[slot], amount, q.reward_per_token)
<1>1. TypeOK /\ due \in [PositionIds -> Int] /\ Accumulated = q.reward_per_token
  BY AccumulatedIsAdvanced DEF IInv, SharesInv
<1>2. /\ TypeOK' /\ SameAccrual(pool', q)
      /\ pool'.total_rewards_paid = pool.total_rewards_paid
      /\ positions'[slot] = after
      /\ q.reward_per_token \in Nat /\ positions[slot] \in Position
      /\ CanSettle(positions[slot], q.reward_per_token)
  BY <1>1, UnstakeEffect
<1>3. /\ now' = now /\ Exists(slot) /\ amount <= positions[slot].amount
      /\ \A id \in PositionIds : id # slot => positions'[id] = positions[id]
  BY <1>1 DEF unstake, CanUnstake, TypeOK
<1>4. /\ after.pending_rewards = earned(positions[slot], q.reward_per_token)
      /\ after.reward_per_token_paid = q.reward_per_token
      /\ earned(positions[slot], q.reward_per_token) \in Nat
  BY <1>2, <1>3, WithdrawnFields, EarnedBound
<1> HIDE DEF after, q
<1>5. ASSUME NEW id \in PositionIds, Exists(id)' PROVE Settles(id)
  <2>1. due'[id] = due[id] - 0 * SCALE /\ due[id] \in Int
    BY <1>1, <1>2, <1>3, <1>5, NothingPaid, DueAtOnce
  <2>2. due'[id] = due[id]
    BY <2>1, SharesAssumption
  <2>3. CASE id = slot
    <3>1. 0 + positions'[id].pending_rewards = earned(positions[id], Accumulated)
      BY <1>1, <1>2, <1>4, <2>3
    <3>. QED BY <1>1, <1>2, <1>3, <1>4, <2>1, <2>3, <3>1 DEF Settles
  <2>4. CASE id # slot
    BY <1>3, <1>5, <2>2, <2>4 DEF Settles, Exists
  <2>. QED BY <2>3, <2>4
<1>. QED BY <1>2, <1>3, <1>5, UpdatedPool, SettlingShares DEF q

LEMMA ClaimShares ==
    ASSUME IInv, SharesInv, ScaleIsExact, Distribute,
           NEW signer \in Accounts, NEW slot \in PositionIds, claim(signer, slot)
    PROVE  SharesInv' /\ SharesKept
<1> DEFINE q == update_rewards(pool, now)
           x == earned(positions[slot], q.reward_per_token)
<1>1. TypeOK /\ due \in [PositionIds -> Int] /\ Accumulated = q.reward_per_token
  BY AccumulatedIsAdvanced DEF IInv, SharesInv
<1>2. /\ TypeOK' /\ SameAccrual(pool', q)
      /\ positions'[slot].pending_rewards = 0
      /\ positions'[slot].reward_per_token_paid = q.reward_per_token
      /\ q.reward_per_token \in Nat /\ positions[slot] \in Position
      /\ CanSettle(positions[slot], q.reward_per_token)
  BY <1>1, ClaimEffect
<1>3. /\ now' = now /\ Exists(slot)
      /\ \A id \in PositionIds : id # slot => positions'[id] = positions[id]
  BY <1>1 DEF claim, TypeOK
<1>4. x \in Nat
  BY <1>2, EarnedBound
<1>5. \A id \in PositionIds : Paid(id) = IF id = slot THEN x ELSE 0
  BY <1>1, ClaimPaid
<1> HIDE DEF x, q
<1>6. ASSUME NEW id \in PositionIds, Exists(id)' PROVE Settles(id)
  <2>1. Paid(id) \in Nat
    BY <1>4, <1>5
  <2>2. due'[id] = due[id] - Paid(id) * SCALE /\ due[id] \in Int
    BY <1>1, <1>3, <1>6, <2>1, DueAtOnce
  <2>3. CASE id = slot
    <3>1. x + positions'[id].pending_rewards = earned(positions[id], Accumulated)
      BY <1>1, <1>2, <1>4, <2>3 DEF x
    <3>. QED BY <1>1, <1>2, <1>3, <1>4, <1>5, <2>2, <2>3, <3>1 DEF Settles
  <2>4. CASE id # slot
    <3>1. due'[id] = due[id] - 0 * SCALE
      BY <1>5, <2>2, <2>4
    <3>2. due'[id] = due[id]
      BY <2>2, <3>1, SharesAssumption
    <3>. QED BY <1>3, <1>6, <2>4, <3>2 DEF Settles, Exists
  <2>. QED BY <2>3, <2>4
<1>. QED BY <1>2, <1>3, <1>6, UpdatedPool, SettlingShares DEF q

LEMMA SetRateShares ==
    ASSUME IInv, SharesInv, ScaleIsExact, Distribute,
           NEW signer \in Accounts, NEW new_rate \in Nat, NEW period_end \in Nat,
           set_reward_rate(signer, new_rate, period_end)
    PROVE  SharesInv' /\ SharesKept
<1> DEFINE q == update_rewards(pool, now)
<1>1. TypeOK /\ due \in [PositionIds -> Int] /\ Accumulated = q.reward_per_token
      /\ pool \in Pool /\ now \in Nat
  BY AccumulatedIsAdvanced DEF IInv, SharesInv, TypeOK
<1>2. /\ TypeOK'
      /\ pool'.reward_per_token = q.reward_per_token
      /\ pool'.last_update_ts = q.last_update_ts
      /\ pool'.total_rewards_paid = pool.total_rewards_paid
  BY <1>1, SetRateEffect
<1>3. UNCHANGED <<positions, now>>
  BY DEF set_reward_rate
<1>4. q.last_update_ts = now
  <2>1. q.last_update_ts = max(pool.last_update_ts, now)
    BY <1>1, UpdateFields
  <2>. QED BY <1>1, <2>1 DEF max, IInv, ClockBehind, Pool
<1>5. ASSUME NEW id \in PositionIds, Exists(id)' PROVE Settles(id)
  <2>1. due'[id] = due[id] - 0 * SCALE /\ due[id] \in Int
    BY <1>1, <1>2, <1>3, <1>5, NothingPaid, DueAtOnce
  <2>2. due'[id] = due[id]
    BY <2>1, SharesAssumption
  <2>. QED BY <1>3, <1>5, <2>2 DEF Settles, Exists
<1>. QED BY <1>1, <1>2, <1>3, <1>4, <1>5, SettlingShares

\* Time alone moves value, by the shares of the time.
LEMMA TickShares ==
    ASSUME IInv, SharesInv, ScaleIsExact, Distribute,
           NEW step \in TimeSteps, Tick(step)
    PROVE  SharesInv' /\ SharesKept
<1>1. /\ TypeOK /\ pool \in Pool /\ now \in Nat /\ now' \in Nat /\ now <= now'
      /\ pool' = pool /\ positions' = positions /\ now' # now
      /\ pool.last_update_ts <= now /\ pool.last_update_ts \in Nat
      /\ due \in [PositionIds -> Int]
  BY InputAssumption DEF IInv, TypeOK, ClockBehind, Tick, SharesInv, Pool
<1>2. Exact(pool)
  BY DEF ScaleIsExact, Exact
<1> DEFINE tw == pool.total_weighted
           seconds == IF tw = 0 THEN 0 ELSE Rewarded(now, now')
<1>3. seconds \in Nat /\ Elapsed(pool, now') = Elapsed(pool, now) + seconds
  <2>1. CASE tw = 0
    <3>1. Elapsed(pool, now) = 0 /\ Elapsed(pool, now') = 0
      BY <1>1, <2>1, ElapsedType
    <3>. QED BY <2>1, <3>1
  <2>2. CASE tw # 0
    <3>1. tw > 0
      BY <1>1, <2>2 DEF Pool
    <3>. QED BY <1>1, <2>2, <3>1, ElapsedSplits DEF Rewarded
  <2>. QED BY <2>1, <2>2
<1>4. \A id \in PositionIds : Share(id, Rewarded(now, now')) = ShareOf(pool, positions[id], seconds)
  BY DEF Share, ShareOf
<1>5. Elapsed(pool, now) \in Nat
  BY <1>1, ElapsedType
<1> HIDE DEF seconds, tw
<1>6. ASSUME NEW id \in PositionIds, Exists(id)
      PROVE  /\ due'[id] = due[id] + ShareOf(pool, positions[id], seconds)
             /\ due'[id] \in Int
             /\ Covers(pool, positions[id], now', due'[id])
             /\ ShareKept(id, Shortfall(due[id], positions[id], Accumulated),
                              Shortfall(due'[id], positions[id], Accumulated'))
  <2> DEFINE position == positions[id]
             sh == ShareOf(pool, position, seconds)
             before == ShareOf(pool, position, Elapsed(pool, now))
             owed == due[id]
             debt == SCALE * Debt(position, pool.reward_per_token)
             w == position.weighted_amount
  <2>1. position \in Position /\ owed \in Int /\ sh \in Int /\ before \in Int
    BY <1>1, <1>3, <1>5, ShareType DEF TypeOK
  <2>2. due'[id] = owed + sh
    <3>1. Paid(id) = 0 /\ Exists(id)'
      BY <1>1, <1>6, NothingPaid DEF Exists
    <3>2. due'[id] = owed + sh - 0 * SCALE
      BY <1>4, <3>1, Zenon DEF Distribute
    <3> HIDE DEF owed, sh
    <3>. QED BY <2>1, <3>2, SharesAssumption
  <2>3. Covers(pool, position, now, owed)
    BY <1>6 DEF SharesInv
  <2>4. ShareOf(pool, position, Elapsed(pool, now')) = before + sh
    BY <1>1, <1>3, <1>5, <2>1, ShareSplits
  <2>5. debt \in Int
    <3>1. CanSettle(position, pool.reward_per_token) /\ pool.reward_per_token \in Nat
      BY <1>1 DEF IInv, WatermarksBehind, Pool
    <3>2. Debt(position, pool.reward_per_token) \in Nat
      BY <2>1, <3>1, EarnedBound
    <3>. QED BY <3>2, SharesAssumption, TimesNat
  <2>6. debt + PRECISION * before <= PRECISION * owed
    BY <2>3 DEF Covers
  <2> HIDE DEF sh, before, owed, debt
  <2>7. debt + PRECISION * (before + sh) <= PRECISION * (owed + sh)
    <3>1. /\ PRECISION * (before + sh) = PRECISION * before + PRECISION * sh
          /\ PRECISION * (owed + sh) = PRECISION * owed + PRECISION * sh
          /\ PRECISION * before \in Int /\ PRECISION * owed \in Int /\ PRECISION * sh \in Int
      BY <2>1, ScaleAssumption
    <3>. QED BY <2>5, <2>6, <3>1
  <2>8. Covers(pool, position, now', due'[id])
    BY <2>2, <2>4, <2>7 DEF Covers, debt
  <2> DEFINE at == pool.reward_per_token + RewardDelta(pool, now)
             then == pool.reward_per_token + RewardDelta(pool, now')
             e == earned(position, at)
             f == earned(position, then)
  <2>9. Accumulated = at /\ Accumulated' = then
    BY <1>1 DEF Accumulated
  <2>10. /\ at \in Nat /\ then \in Nat
         /\ CanSettle(position, pool.reward_per_token)
         /\ CanSettle(position, at) /\ CanSettle(position, then)
    <3>1. CanSettle(position, pool.reward_per_token) /\ pool.reward_per_token \in Nat
      BY <1>1 DEF IInv, WatermarksBehind, Pool
    <3>2. RewardDelta(pool, now) \in Nat /\ RewardDelta(pool, now') \in Nat
      BY <1>1, DeltaBound
    <3>3. position.reward_per_token_paid \in Nat
      BY <2>1 DEF Position
    <3>. QED BY <3>1, <3>2, <3>3 DEF CanSettle
  <2>11. e \in Nat /\ f \in Nat
    BY <2>1, <2>10, EarnedBound
  <2>12. SCALE * f <= owed + sh
    <3>1. owed + sh \in Int
      BY <2>1
    <3>2. SCALE * Debt(position, then) <= PRECISION * (owed + sh)
      BY <1>1, <1>2, <2>1, <2>2, <2>8, <3>1, AdvanceCovers
    <3>. QED BY <2>1, <2>10, <3>1, <3>2, EarnedCovered
  <2>13. sh - SCALE * (f - e) <= SCALE + (SCALE * w) \div PRECISION
    BY <1>1, <1>2, <1>3, <2>1, <2>10, TickShare DEF sh
  <2>14. w \in Nat /\ (SCALE * w) \div PRECISION \in Nat /\ SCALE \in Nat
    BY <2>1, SharesAssumption, ScaleAssumption, TimesNat, DivBounds DEF Position
  <2>15. ShareKept(id, owed - SCALE * e, (owed + sh) - SCALE * f)
    <3> DEFINE c == (SCALE * w) \div PRECISION
    <3>1. c \in Nat /\ sh - SCALE * (f - e) <= SCALE + c
      BY <2>13, <2>14
    <3> HIDE DEF e, f, c, w
    <3>2. SCALE * (f - e) = SCALE * f - SCALE * e /\ SCALE * f \in Int /\ SCALE * e \in Int
      BY <2>11, <2>14
    <3>3. (owed + sh) - SCALE * f \in 0 .. (owed - SCALE * e) + SCALE + c
      BY <2>1, <2>12, <2>14, <3>1, <3>2
    <3>. QED BY <1>1, <3>3 DEF ShareKept, c, w
  <2>. QED BY <2>1, <2>2, <2>8, <2>9, <2>15 DEF Shortfall, owed, sh
<1>7. SharesKept
  BY <1>1, <1>6, Zenon DEF SharesKept
<1>8. ASSUME NEW id \in PositionIds
      PROVE  /\ Exists(id)' <=> Exists(id)
             /\ ~Exists(id) => due'[id] = 0
  <2>1. Exists(id)' <=> Exists(id)
    BY <1>1 DEF Exists
  <2>2. ~Exists(id)' => due'[id] = 0
    BY Zenon DEF Distribute
  <2>. QED BY <2>1, <2>2
<1>9. due' \in [PositionIds -> Int]
  <2>1. due' = [id \in PositionIds |-> due'[id]]
    BY Zenon DEF Distribute
  <2>2. \A id \in PositionIds : due'[id] \in Int
    BY <1>6, <1>8
  <2>. QED BY <2>1, <2>2
<1>10. SharesInv'
  BY <1>1, <1>6, <1>8, <1>9 DEF SharesInv
<1>. QED BY <1>7, <1>10

-----------------------------------------------------------------------------

LEMMA SharesStep ==
    IInv /\ SharesInv /\ ScaleIsExact /\ [SharesNext]_<<vars, due>>
      => SharesInv' /\ ([SharesKept]_<<vars, due>>)
<1> SUFFICES ASSUME IInv, SharesInv, ScaleIsExact, [SharesNext]_<<vars, due>>
             PROVE  SharesInv' /\ ([SharesKept]_<<vars, due>>)
  OBVIOUS
<1>0. TypeOK /\ now \in Nat
  BY DEF IInv, TypeOK
<1>1. CASE UNCHANGED <<vars, due>>
  <2>1. SharesInv'
    BY <1>1 DEF vars, SharesInv, Covers, ShareOf, Debt, Elapsed, Exists
  <2>. QED BY <1>1, <2>1
<1> SUFFICES ASSUME Next, Distribute PROVE SharesInv' /\ SharesKept
  BY <1>1 DEF SharesNext
<1>2. CASE \E owner \in Accounts, id \in PositionIds, amount \in Amounts, tier \in Tiers :
             \E credited \in Credits(amount) : stake(owner, id, amount, credited, tier)
  <2>1. PICK owner \in Accounts, id \in PositionIds, amount \in Amounts, tier \in Tiers :
          \E credited \in Credits(amount) : stake(owner, id, amount, credited, tier)
    BY <1>2
  <2>2. PICK credited \in Credits(amount) : stake(owner, id, amount, credited, tier)
    BY <2>1
  <2>3. amount \in Nat /\ tier \in LockTier
    BY InputAssumption, TiersAssumption
  <2>4. credited \in Nat
    BY <2>3, CreditsType
  <2>. QED BY <2>2, <2>3, <2>4, StakeShares
<1>3. CASE \E signer \in Accounts, id \in PositionIds :
             \E amount \in Withdrawals \cup {positions[id].amount} : unstake(signer, id, amount)
  <2>1. PICK signer \in Accounts, id \in PositionIds :
          \E amount \in Withdrawals \cup {positions[id].amount} : unstake(signer, id, amount)
    BY <1>3
  <2>2. PICK amount \in Withdrawals \cup {positions[id].amount} : unstake(signer, id, amount)
    BY <2>1
  <2>3. amount \in Nat
    BY <1>0, InputAssumption DEF TypeOK, Position
  <2>. QED BY <2>2, <2>3, UnstakeShares
<1>4. CASE \E signer \in Accounts, id \in PositionIds : claim(signer, id)
  BY <1>4, ClaimShares
<1>5. CASE \E signer \in Accounts, id \in PositionIds : close_position(signer, id)
  <2>1. PICK signer \in Accounts, id \in PositionIds : close_position(signer, id)
    BY <1>5
  <2>2. TypeOK' /\ positions'[id] = NoPosition
    BY <1>0, <2>1, CloseEffect
  <2>3. ~Exists(id)'
    BY <2>2 DEF Exists, NoPosition
  <2>4. /\ pool' = pool /\ now' = now
        /\ \A other \in PositionIds : other # id => positions'[other] = positions[other]
    BY <1>0, <2>1 DEF close_position, TypeOK
  <2>5. SameAccrual(pool', pool)
    BY <2>4 DEF SameAccrual
  <2>6. \A other \in PositionIds : Exists(other)' => positions'[other] = positions[other]
    BY <2>3, <2>4
  <2>. QED BY <2>2, <2>4, <2>5, <2>6, QuietShares
<1>6. CASE \E amount \in Fundings : \E credited \in Credits(amount) :
             /\ pool.total_rewards_funded + credited <= MaxFunded
             /\ fund_rewards(credited)
  <2>1. PICK amount \in Fundings : \E credited \in Credits(amount) : fund_rewards(credited)
    BY <1>6
  <2>2. PICK credited \in Credits(amount) : fund_rewards(credited)
    BY <2>1
  <2>3. credited \in Nat
    BY InputAssumption, CreditsType
  <2>4. positions' = positions /\ now' = now
    BY <2>2 DEF fund_rewards
  <2>5. /\ TypeOK' /\ SameAccrual(pool', pool)
        /\ pool'.total_rewards_paid = pool.total_rewards_paid
        /\ pool'.total_weighted = pool.total_weighted
    BY <1>0, <2>2, <2>3, FundEffect
  <2>. QED BY <2>4, <2>5, QuietShares
<1>7. CASE \E signer \in Accounts, rate \in Rates, end \in PeriodEnds :
             set_reward_rate(signer, rate, end)
  BY <1>7, InputAssumption, SetRateShares
<1>8. CASE \E signer \in Accounts :
             \/ \E paused \in BOOLEAN : set_paused(signer, paused)
             \/ \E successor \in Accounts : propose_authority(signer, successor)
             \/ accept_authority(signer)
  <2>1. /\ TypeOK' /\ SameAccrual(pool', pool)
        /\ pool'.total_rewards_paid = pool.total_rewards_paid
        /\ pool'.total_weighted = pool.total_weighted
        /\ positions' = positions /\ now' = now
    BY <1>0, <1>8, AdminEffect
  <2>. QED BY <2>1, QuietShares
<1>9. CASE \E step \in TimeSteps : Tick(step)
  BY <1>9, TickShares
<1>10. CASE \E amount \in Donations : DonateStake(amount) \/ DonateReward(amount)
  <2>1. pool' = pool /\ positions' = positions /\ now' = now
    BY <1>10 DEF DonateStake, DonateReward
  <2>2. TypeOK'
    BY <1>0, <1>10, InputAssumption DEF DonateStake, DonateReward, TypeOK
  <2>. QED BY <2>1, <2>2, QuietShares DEF SameAccrual
<1>. QED BY <1>2, <1>3, <1>4, <1>5, <1>6, <1>7, <1>8, <1>9, <1>10 DEF Next

\* A withdrawal never raises the pool's weight: it rounds the remaining
\* principal's weight down, as the weight it replaces was.
LEMMA StepKeepsTotal == IInv /\ Fits(pool.total_weighted) /\ [Next]_vars
                          => Fits(pool.total_weighted)'
<1> SUFFICES ASSUME IInv, Fits(pool.total_weighted), [Next]_vars
             PROVE  Fits(pool'.total_weighted)
  BY DEF Fits
<1>0. TypeOK /\ pool \in Pool /\ now \in Nat
  BY DEF IInv, TypeOK
<1>1. CASE \E owner \in Accounts, id \in PositionIds, amount \in Amounts, tier \in Tiers :
             \E credited \in Credits(amount) : stake(owner, id, amount, credited, tier)
  <2>1. PICK owner \in Accounts, id \in PositionIds, amount \in Amounts, tier \in Tiers :
          \E credited \in Credits(amount) : stake(owner, id, amount, credited, tier)
    BY <1>1
  <2>2. PICK credited \in Credits(amount) : stake(owner, id, amount, credited, tier)
    BY <2>1
  <2>3. amount \in Nat /\ tier \in LockTier /\ credited \in Nat
    BY InputAssumption, TiersAssumption, CreditsType
  <2>4. pool'.total_weighted = pool.total_weighted + apply_weight(tier, credited)
    BY <1>0, <2>2, <2>3, StakeEffect
  <2>5. update_rewards(pool, now).total_weighted = pool.total_weighted
    BY <1>0, UpdateFields
  <2>6. Fits(update_rewards(pool, now).total_weighted + apply_weight(tier, credited))
    BY <2>2 DEF stake
  <2>. QED BY <2>4, <2>5, <2>6
<1>2. CASE \E signer \in Accounts, id \in PositionIds :
             \E amount \in Withdrawals \cup {positions[id].amount} : unstake(signer, id, amount)
  <2>1. PICK signer \in Accounts, id \in PositionIds :
          \E amount \in Withdrawals \cup {positions[id].amount} : unstake(signer, id, amount)
    BY <1>2
  <2>2. PICK amount \in Withdrawals \cup {positions[id].amount} : unstake(signer, id, amount)
    BY <2>1
  <2>3. amount \in Nat
    BY <1>0, InputAssumption DEF TypeOK, Position
  <2> DEFINE q == update_rewards(pool, now)
             before == positions[id]
             after == withdrawn(before, amount, q.reward_per_token)
  <2>4. /\ TypeOK'
        /\ pool'.total_weighted
             = pool.total_weighted - (before.weighted_amount - after.weighted_amount)
        /\ q.reward_per_token \in Nat /\ before \in Position
        /\ CanSettle(before, q.reward_per_token)
    BY <1>0, <2>2, <2>3, UnstakeEffect
  <2>5. amount <= before.amount /\ before.amount \in Nat /\ before.tier \in LockTier
    BY <2>2, <2>4 DEF unstake, CanUnstake, Position
  <2>6. after.weighted_amount = apply_weight(before.tier, before.amount - amount)
    BY <2>3, <2>4, <2>5, WithdrawnFields
  <2>7. before.weighted_amount = apply_weight(before.tier, before.amount)
    BY DEF IInv, BooksBalance, Weight
  <2> HIDE DEF q, before, after
  <2>8. before.amount - amount \in Nat /\ before.amount - amount <= before.amount
    BY <2>3, <2>5
  <2>9. /\ apply_weight(before.tier, before.amount - amount)
             <= apply_weight(before.tier, before.amount)
        /\ apply_weight(before.tier, before.amount - amount) \in Nat
        /\ apply_weight(before.tier, before.amount) \in Nat
    BY <2>5, <2>8, WeightMono, WeightType
  <2>. QED BY <1>0, <2>4, <2>6, <2>7, <2>9, ScaleAssumption DEF Fits, Pool
<1>3. CASE pool'.total_weighted = pool.total_weighted
  BY <1>3
<1>4. CASE \E signer \in Accounts, id \in PositionIds : claim(signer, id)
  BY <1>0, <1>3, <1>4, ClaimEffect
<1>5. CASE \E signer \in Accounts, id \in PositionIds : close_position(signer, id)
  BY <1>3, <1>5 DEF close_position
<1>6. CASE \E amount \in Fundings : \E credited \in Credits(amount) : fund_rewards(credited)
  BY <1>0, <1>3, <1>6, InputAssumption, CreditsType, FundEffect
<1>7. CASE \E signer \in Accounts, rate \in Rates, end \in PeriodEnds :
             set_reward_rate(signer, rate, end)
  BY <1>0, <1>3, <1>7, InputAssumption, SetRateEffect
<1>8. CASE \E signer \in Accounts :
             \/ \E paused \in BOOLEAN : set_paused(signer, paused)
             \/ \E successor \in Accounts : propose_authority(signer, successor)
             \/ accept_authority(signer)
  BY <1>0, <1>3, <1>8, AdminEffect
<1>9. CASE \/ \E step \in TimeSteps : Tick(step)
           \/ \E amount \in Donations : DonateStake(amount) \/ DonateReward(amount)
           \/ UNCHANGED vars
  BY <1>3, <1>9 DEF Tick, DonateStake, DonateReward, vars
<1>. QED BY <1>1, <1>2, <1>4, <1>5, <1>6, <1>7, <1>8, <1>9 DEF Next

LEMMA SharesInitially == SharesInit => SharesInv /\ Fits(pool.total_weighted)
<1> SUFFICES ASSUME SharesInit PROVE SharesInv /\ Fits(pool.total_weighted)
  OBVIOUS
<1>1. /\ due = [id \in PositionIds |-> 0] /\ pool.total_weighted = 0
      /\ \A id \in PositionIds : positions[id] = NoPosition
  BY DEF SharesInit, Init, initial_pool
<1>2. \A id \in PositionIds : ~Exists(id)
  BY <1>1 DEF Exists, NoPosition
<1>3. SharesInv
  BY <1>1, <1>2 DEF SharesInv
<1>4. 0 <= U64_MAX
  BY BoundAssumption, ScaleAssumption
<1>. QED BY <1>1, <1>3, <1>4 DEF Fits

\* SCALE is a multiple of every total weight a u64 holds.
ScaleSuffices == \A n \in 1 .. U64_MAX : SCALE % n = 0

\* Whatever the instructions and however they interleave with time, no
\* instruction moves value between positions, and time gives each position its
\* exact share of the rate, never more and at most one unit and its weight's
\* truncated advance less (INVARIANTS.md 3.3 to 3.9), for pools of any size.
THEOREM SharesAlwaysExactToDust ==
    ASSUME ScaleSuffices
    PROVE  SharesSpec => SharesExactToDust
<1> DEFINE Total == Fits(pool.total_weighted)
<1>1. SharesInit => IInv /\ SharesInv /\ Total
  BY InitEstablishesIInv, SharesInitially DEF SharesInit
<1>2. IInv /\ Total => ScaleIsExact
  BY ScaleSuffices DEF ScaleIsExact, Fits, ScaleSuffices, IInv, TypeOK, Pool
<1>3. [SharesNext]_<<vars, due>> => [Next]_vars
  BY DEF SharesNext
<1>4. IInv /\ SharesInv /\ Total /\ [SharesNext]_<<vars, due>>
        => IInv' /\ SharesInv' /\ Total'
  BY <1>2, <1>3, NextPreservesIInv, SharesStep, StepKeepsTotal
<1>5. IInv /\ SharesInv /\ Total /\ [SharesNext]_<<vars, due>>
        => [ScaleIsExact /\ SharesKept]_<<vars, due>>
  BY <1>2, SharesStep
<1>6. SharesSpec => [][ScaleIsExact /\ SharesKept]_<<vars, due>>
  <2> HIDE DEF Total
  <2>. QED BY <1>1, <1>4, <1>5, PTL DEF SharesSpec
<1>7. [ScaleIsExact /\ SharesKept]_<<vars, due>> =>
        [/\ ScaleIsExact
         /\ LET rewards == Accumulated
                rewards_after == Accumulated'
            IN  \A id \in PositionIds :
                  Exists(id) /\ Exists(id)' =>
                    ShareKept(id, Shortfall(due[id], positions[id], rewards),
                                  Shortfall(due'[id], positions'[id], rewards_after))]_<<vars, due>>
  BY DEF SharesKept
<1>. QED BY <1>6, <1>7, PTL DEF SharesExactToDust

=============================================================================
