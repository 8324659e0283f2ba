------------------------------ MODULE Electorate ------------------------------
(***************************************************************************)
(* What programs/staking promises to programs/governance: positions are    *)
(* numbered by a counter that never goes back, a position's weight is      *)
(* fixed until its lock ends and only shrinks afterwards, and the pool's   *)
(* total is the sum of the weights.  Rewards, vaults and authorities are   *)
(* forgotten.  StakingPool implements this module (MCStakingPool and       *)
(* StakingProofs), and Governance votes with it.                           *)
(***************************************************************************)
EXTENDS Integers

CONSTANTS
    Owners,         \* the keys that may own a position
    NoOwner,        \* the owner of an address no position occupies
    Weights,        \* weights a position may open with, all positive
    Locks,          \* how far ahead of the clock a lock may end
    Steps,          \* seconds the clock may jump
    Horizon,        \* bound on the clock
    Capacity        \* bound on position_count

ASSUME ElectorateAssumption ==
    /\ NoOwner \notin Owners
    /\ Weights \subseteq Nat \ {0}
    /\ Locks \subseteq Nat
    /\ Steps \subseteq Nat
    /\ Horizon \in Nat
    /\ Capacity \in Nat

VARIABLES
    voters,         \* position id -> [owner, weight, lock_end]
    total_weighted, \* pool.total_weighted
    position_count, \* pool.position_count
    now

electorate_vars == <<voters, total_weighted, position_count, now>>

VoterIds == 0 .. Capacity - 1

Voter == [owner : Owners \cup {NoOwner}, weight : Nat, lock_end : Nat]

NoVoter == [owner |-> NoOwner, weight |-> 0, lock_end |-> 0]

Present(id) == voters[id].owner # NoOwner

\* Mutant: a lock one second short still votes.
can_vote_until_nearly(id, voting_ends_at) == voters[id].lock_end + 1 >= voting_ends_at

can_vote_until(id, voting_ends_at) == voters[id].lock_end >= voting_ends_at

ElectorateInit ==
    /\ voters = [id \in VoterIds |-> NoVoter]
    /\ total_weighted = 0
    /\ position_count = 0
    /\ now = 0

\* stake
Open(owner, id, weight, lock) ==
    /\ id = position_count
    /\ ~Present(id)
    /\ voters' = [voters EXCEPT
         ![id] = [owner |-> owner, weight |-> weight, lock_end |-> now + lock]]
    /\ total_weighted' = total_weighted + weight
    /\ position_count' = position_count + 1
    /\ UNCHANGED now

\* Mutant: a partial withdrawal takes the whole weight off the total.
Shrink_whole(id, left) ==
    /\ Present(id)
    /\ now >= voters[id].lock_end
    /\ left < voters[id].weight
    /\ voters' = [voters EXCEPT ![id].weight = left]
    /\ total_weighted' = total_weighted - voters[id].weight
    /\ UNCHANGED <<position_count, now>>

\* unstake: all that leaves after the lock is part or all of the weight.
Shrink(id, left) ==
    /\ Present(id)
    /\ now >= voters[id].lock_end
    /\ left < voters[id].weight
    /\ voters' = [voters EXCEPT ![id].weight = left]
    /\ total_weighted' = total_weighted - (voters[id].weight - left)
    /\ UNCHANGED <<position_count, now>>

\* close_position: the address is freed, the id is not.
Close(id) ==
    /\ Present(id)
    /\ voters[id].weight = 0
    /\ voters' = [voters EXCEPT ![id] = NoVoter]
    /\ UNCHANGED <<total_weighted, position_count, now>>

Advance(step) ==
    /\ step > 0
    /\ now + step <= Horizon
    /\ now' = now + step
    /\ UNCHANGED <<voters, total_weighted, position_count>>

ElectorateNext ==
    \/ \E owner \in Owners, id \in VoterIds, weight \in Weights, lock \in Locks :
         Open(owner, id, weight, lock)
    \/ \E id \in VoterIds : \E left \in 0 .. voters[id].weight - 1 : Shrink(id, left)
    \/ \E id \in VoterIds : Close(id)
    \/ \E step \in Steps : Advance(step)

ElectorateSpec == ElectorateInit /\ [][ElectorateNext]_electorate_vars
=============================================================================
