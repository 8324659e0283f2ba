---------------------------- MODULE MCGovernance ----------------------------
(* Small instances of Governance for TLC. *)
EXTENDS Governance

\* A lenient and a strict set of parameters, and one validate refuses.
Lenient ==
    [quorum_bps |-> 1, approval_bps |-> 5001, voting_period |-> 1,
     timelock_delay |-> 1, min_weight_to_propose |-> 1]
Strict ==
    [quorum_bps |-> 10000, approval_bps |-> 10000, voting_period |-> 2,
     timelock_delay |-> 2, min_weight_to_propose |-> 2]
NoDelay == [Lenient EXCEPT !.timelock_delay = 0]

Signal == [kind |-> "Signal"]
External == [kind |-> "External"]
Update(params) == [kind |-> "UpdateRealmParams", params |-> params]
HandOver(authority) == [kind |-> "SetRealmAuthority", new_authority |-> authority]

MCParamChoices == {Lenient, Strict, NoDelay}
MCActions == {Signal, External, Update(NoDelay), Update(Strict), HandOver(Executor)}
=============================================================================
