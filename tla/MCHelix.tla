------------------------------- MODULE MCHelix -------------------------------
(* Small instances of Helix for TLC. *)
EXTENDS Helix

CONSTANTS k, dao, ann

Schedule == [start_ts |-> 0, cliff_ts |-> 0, end_ts |-> 2]

\* One act of each kind a proposal may carry, each asking for what may be refused.
MCActs ==
    {[kind |-> "Signal"],
     [kind |-> "TreasuryTransfer", amount |-> 1, to_vault |-> FALSE],
     [kind |-> "CreateVestingStream", beneficiary |-> ann, amount |-> 2, schedule |-> Schedule],
     [kind |-> "RevokeVestingStream", stream_id |-> 0],
     [kind |-> "SetTreasurySpendCap", new_cap |-> 2, epoch_duration |-> 1],
     [kind |-> "SetGovernanceExecutor", new_executor |-> k],
     [kind |-> "SetStakingRewardRate", new_rate |-> 1, reward_period_end |-> 2],
     [kind |-> "AcceptTokenManagerAdmin"],
     [kind |-> "RegisterMinter", authority |-> 0, epoch_cap |-> 1, epoch_duration |-> 1],
     [kind |-> "UpdateMinter", epoch_cap |-> 1, enabled |-> TRUE],
     [kind |-> "RevokeMinter"],
     [kind |-> "SetTokenPaused", paused |-> TRUE],
     [kind |-> "ProposeTokenAdmin", new_admin |-> k],
     [kind |-> "SetRealmAuthority", new_authority |-> k]}

MCMinterActs ==
    {[kind |-> "AcceptTokenManagerAdmin"], [kind |-> "RevokeMinter"]}

MCNoAct == [kind |-> "None"]
MCSchedules == {Schedule}
=============================================================================
