-------------------------- MODULE StakingElectorate --------------------------
(***************************************************************************)
(* The refinement mapping from a staking pool to the electorate governance *)
(* sees: a position's owner, weight and lock, the pool's total weight and  *)
(* its position counter.                                                   *)
(***************************************************************************)
EXTENDS StakingPool

Voters ==
    [id \in PositionIds |->
        [owner    |-> positions[id].owner,
         weight   |-> positions[id].weighted_amount,
         lock_end |-> positions[id].lock_end]]

\* The weights and locks stake can give a position.
OpeningWeights ==
    {apply_weight(tier, credited) :
        tier \in Tiers, credited \in UNION {Credits(amount) : amount \in Amounts}}

TierLocks == {duration[tier] : tier \in Tiers}

Votes == INSTANCE Electorate WITH
    Owners         <- Accounts,
    NoOwner        <- Nobody,
    Weights        <- OpeningWeights,
    Locks          <- TierLocks,
    Steps          <- TimeSteps,
    Horizon        <- MaxTime,
    Capacity       <- MaxPositions,
    voters         <- Voters,
    total_weighted <- pool.total_weighted,
    position_count <- pool.position_count

\* cast_vote and activate_proposal read a position's weight and lock and the
\* pool's total and counter; they are sound because no instruction of the pool,
\* in any order, moves those in a way the electorate does not allow: an id is
\* never reused, a locked weight never moves, the total moves with the weights.
ImplementsElectorate == Votes!ElectorateSpec
=============================================================================
