---------------------------- MODULE StakingShares ----------------------------
(***************************************************************************)
(* StakingPool next to the exact distribution it approximates, the one     *)
(* docs/INVARIANTS.md 3.3 compares it with: each second of a reward period *)
(* the rate is split in proportion to the weights of that second, with no  *)
(* accumulator, no watermark and no truncation.  due is a history          *)
(* variable: nothing the pool does looks at it.                            *)
(***************************************************************************)
EXTENDS StakingElectorate

CONSTANT SCALE      \* a multiple of every total weight the pool can have

ASSUME SharesAssumption == SCALE \in Nat \ {0}

VARIABLE due        \* position id -> SCALE times what it is entitled to and was not paid

SharesInit == Init /\ due = [id \in PositionIds |-> 0]

\* Seconds of the reward period from one time to another.
Rewarded(from, to) == min(to, pool.reward_period_end) - min(from, pool.reward_period_end)

Share(id, seconds) ==
    IF pool.total_weighted = 0 THEN 0
    ELSE seconds * pool.reward_rate * positions[id].weighted_amount
           * (SCALE \div pool.total_weighted)

\* The accumulator as any instruction would find it now.
Accumulated == pool.reward_per_token + RewardDelta(pool, now)

Paid(id) ==
    IF pool'.total_rewards_paid > pool.total_rewards_paid /\ claim(positions[id].owner, id)
    THEN earned(positions[id], Accumulated)
    ELSE 0

\* Time earns, a claim takes, and what a position is closed with is forfeited.
Distribute ==
    due' = [id \in PositionIds |->
        IF Exists(id)' THEN due[id] + Share(id, Rewarded(now, now')) - Paid(id) * SCALE ELSE 0]

SharesNext == Next /\ Distribute

SharesSpec == SharesInit /\ [][SharesNext]_<<vars, due>>

-----------------------------------------------------------------------------
(* Properties. *)

ScaleIsExact == pool.total_weighted > 0 => SCALE % pool.total_weighted = 0

\* What a position's truncated earnings are short of its exact entitlement.
Shortfall(owed, position, reward_per_token) ==
    owed - SCALE * earned(position, reward_per_token)

ShareKept(id, before, after) ==
    IF now' = now THEN after = before
    ELSE after \in 0 .. before + SCALE + (SCALE * positions[id].weighted_amount) \div PRECISION

\* INVARIANTS.md 3.3 to 3.9, per position: nobody's instruction, a stake, a
\* withdrawal, a claim or a new rate, moves value from or to any position; time
\* alone does, by the position's exact share of that time, idle seconds and those
\* outside the period included; it never gets more than that, and at most a unit
\* and its weight's truncated advance less.
SharesExactToDust ==
    [][/\ ScaleIsExact
       /\ LET rewards == Accumulated
              rewards_after == Accumulated'
          IN  \A id \in PositionIds :
                Exists(id) /\ Exists(id)' =>
                  ShareKept(id, Shortfall(due[id], positions[id], rewards),
                                Shortfall(due'[id], positions'[id], rewards_after))]_<<vars, due>>
=============================================================================
