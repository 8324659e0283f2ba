------------------------------ MODULE Governance ------------------------------
(***************************************************************************)
(* programs/governance: one realm, its proposals and their vote records,   *)
(* over the electorate the staking pool provides.  Instructions of the two *)
(* programs interleave freely; each is one atomic transaction.             *)
(*                                                                         *)
(* Three proposal actions change state of this program and are modelled    *)
(* whole.  The others are a CPI into another program, whose state is not   *)
(* here: execute_external is the governance side of all of them, and a     *)
(* CPI that fails reverts it, so it may be refused but never half done.    *)
(***************************************************************************)
EXTENDS Electorate, FiniteSums

CONSTANTS
    Executor,               \* the realm's executor PDA: no key signs for it
    MIN_VOTING_PERIOD,      \* constants.rs, scaled down in the small instances
    MAX_VOTING_PERIOD,
    MIN_TIMELOCK_DELAY,
    MAX_TIMELOCK_DELAY,
    EXECUTION_GRACE_PERIOD,
    ParamChoices,           \* the RealmParams anyone may put forward
    Actions,                \* the actions a proposal may carry
    MaxProposals            \* bound on proposal_count

BPS_DENOMINATOR == 10000
MAX_BPS == 10000
MIN_APPROVAL_BPS == 5001

RealmParams ==
    [quorum_bps : Nat, approval_bps : Nat, voting_period : Nat,
     timelock_delay : Nat, min_weight_to_propose : Nat]

ProposalAction ==
    [kind : {"Signal", "External"}]
      \cup [kind : {"UpdateRealmParams"}, params : ParamChoices]
      \cup [kind : {"SetRealmAuthority"}, new_authority : Owners \cup {Executor}]

ASSUME GovernanceAssumption ==
    /\ Executor \notin Owners
    /\ MIN_VOTING_PERIOD \in Nat /\ MAX_VOTING_PERIOD \in Nat
    /\ MIN_TIMELOCK_DELAY \in Nat /\ MAX_TIMELOCK_DELAY \in Nat
    /\ EXECUTION_GRACE_PERIOD \in Nat
    /\ ParamChoices \subseteq RealmParams
    /\ MaxProposals \in Nat

ASSUME ActionsAssumption == Actions \subseteq ProposalAction

VARIABLES
    realm,          \* the Realm account
    proposals,      \* proposal id -> the Proposal account at that PDA
    vote_records    \* proposal id -> position id -> the VoteRecord at that PDA

realm_vars == <<realm, proposals, vote_records>>
vars == <<realm, proposals, vote_records, electorate_vars>>

ProposalIds == 0 .. MaxProposals - 1

VoteChoice == {"For", "Against", "Abstain"}

\* An address without an account: no proposal created, no vote cast.
NoProposal ==
    [state |-> "None", action |-> [kind |-> "Signal"],
     voting_starts_at |-> 0, voting_ends_at |-> 0, eta |-> 0,
     for_votes |-> 0, against_votes |-> 0, abstain_votes |-> 0,
     total_weight_snapshot |-> 0, position_count_snapshot |-> 0]

NoVote == [choice |-> "None", weight |-> 0]

Voted(p, id) == vote_records[p][id].choice # "None"

-----------------------------------------------------------------------------
(* Realm parameters. *)

\* Mutant: the timelock has no floor.
validate_without_floor(params) ==
    /\ params.quorum_bps > 0 /\ params.quorum_bps <= MAX_BPS
    /\ params.approval_bps >= MIN_APPROVAL_BPS /\ params.approval_bps <= MAX_BPS
    /\ params.voting_period \in MIN_VOTING_PERIOD .. MAX_VOTING_PERIOD
    /\ params.timelock_delay <= MAX_TIMELOCK_DELAY

validate(params) ==
    /\ params.quorum_bps > 0 /\ params.quorum_bps <= MAX_BPS
    /\ params.approval_bps >= MIN_APPROVAL_BPS /\ params.approval_bps <= MAX_BPS
    /\ params.voting_period \in MIN_VOTING_PERIOD .. MAX_VOTING_PERIOD
    /\ params.timelock_delay \in MIN_TIMELOCK_DELAY .. MAX_TIMELOCK_DELAY

with_params(r, params) ==
    [r EXCEPT !.quorum_bps            = params.quorum_bps,
              !.approval_bps          = params.approval_bps,
              !.voting_period         = params.voting_period,
              !.timelock_delay        = params.timelock_delay,
              !.min_weight_to_propose = params.min_weight_to_propose]

initial_realm(authority, guardian, params) ==
    [authority             |-> authority,
     guardian              |-> guardian,
     quorum_bps            |-> params.quorum_bps,
     approval_bps          |-> params.approval_bps,
     voting_period         |-> params.voting_period,
     timelock_delay        |-> params.timelock_delay,
     min_weight_to_propose |-> params.min_weight_to_propose,
     proposal_count        |-> 0]

Init ==
    /\ ElectorateInit
    /\ \E authority \in Owners \cup {Executor}, guardian \in Owners, params \in ParamChoices :
         /\ validate(params)
         /\ realm = initial_realm(authority, guardian, params)
    /\ proposals = [p \in ProposalIds |-> NoProposal]
    /\ vote_records = [p \in ProposalIds |-> [id \in VoterIds |-> NoVote]]

update_realm_params(signer, params) ==
    /\ signer = realm.authority
    /\ validate(params)
    /\ realm' = with_params(realm, params)
    /\ UNCHANGED <<proposals, vote_records, electorate_vars>>

-----------------------------------------------------------------------------
(* Proposals. *)

create_proposal(proposer, p, position, action) ==
    /\ Present(position) /\ voters[position].owner = proposer
    /\ p = realm.proposal_count
    /\ voters[position].weight >= realm.min_weight_to_propose
    /\ proposals' = [proposals EXCEPT
         ![p] = [NoProposal EXCEPT !.state = "Draft", !.action = action]]
    /\ realm' = [realm EXCEPT !.proposal_count = @ + 1]
    /\ UNCHANGED <<vote_records, electorate_vars>>

\* The denominator and the electorate are both taken here and never re-read.
activate_proposal(p) ==
    /\ proposals[p].state = "Draft"
    /\ total_weighted > 0
    /\ proposals' = [proposals EXCEPT
         ![p] = [@ EXCEPT !.state                   = "Voting",
                          !.voting_starts_at        = now,
                          !.voting_ends_at          = now + realm.voting_period,
                          !.total_weight_snapshot   = total_weighted,
                          !.position_count_snapshot = position_count]]
    /\ UNCHANGED <<realm, vote_records, electorate_vars>>

\* Mutant: a veto after the effect has happened.
is_cancellable_when_executed(state) ==
    state \in {"Draft", "Voting", "Succeeded", "Queued", "Executed"}

is_cancellable(state) == state \in {"Draft", "Voting", "Succeeded", "Queued"}

cancel_proposal(signer, p) ==
    /\ signer = realm.guardian
    /\ is_cancellable(proposals[p].state)
    /\ proposals' = [proposals EXCEPT ![p].state = "Cancelled"]
    /\ UNCHANGED <<realm, vote_records, electorate_vars>>

\* Its checked additions cannot overflow: TurnoutWithinSnapshot bounds the
\* tallies by a u64 the pool held.
tally(proposal, choice, weight) ==
    CASE choice = "For"     -> [proposal EXCEPT !.for_votes = @ + weight]
      [] choice = "Against" -> [proposal EXCEPT !.against_votes = @ + weight]
      [] choice = "Abstain" -> [proposal EXCEPT !.abstain_votes = @ + weight]

\* Mutant: no electorate gate.
cast_vote_by_anyone(voter, p, position, choice) ==
    /\ proposals[p].state = "Voting"
    /\ now >= proposals[p].voting_starts_at
    /\ now < proposals[p].voting_ends_at
    /\ Present(position) /\ voters[position].owner = voter
    /\ can_vote_until(position, proposals[p].voting_ends_at)
    /\ voters[position].weight > 0
    /\ ~Voted(p, position)
    /\ proposals' = [proposals EXCEPT ![p] = tally(@, choice, voters[position].weight)]
    /\ vote_records' = [vote_records EXCEPT
         ![p][position] = [choice |-> choice, weight |-> voters[position].weight]]
    /\ UNCHANGED <<realm, electorate_vars>>

\* The vote record's init is the double-vote check.
cast_vote(voter, p, position, choice) ==
    /\ proposals[p].state = "Voting"
    /\ now >= proposals[p].voting_starts_at
    /\ now < proposals[p].voting_ends_at
    /\ Present(position) /\ voters[position].owner = voter
    /\ can_vote_until(position, proposals[p].voting_ends_at)
    /\ position < proposals[p].position_count_snapshot
    /\ voters[position].weight > 0
    /\ ~Voted(p, position)
    /\ proposals' = [proposals EXCEPT ![p] = tally(@, choice, voters[position].weight)]
    /\ vote_records' = [vote_records EXCEPT
         ![p][position] = [choice |-> choice, weight |-> voters[position].weight]]
    /\ UNCHANGED <<realm, electorate_vars>>

total_votes(proposal) ==
    proposal.for_votes + proposal.against_votes + proposal.abstain_votes

decisive_votes(proposal) == proposal.for_votes + proposal.against_votes

quorum_reached(proposal, quorum_bps) ==
    total_votes(proposal) * BPS_DENOMINATOR >= proposal.total_weight_snapshot * quorum_bps

\* Mutant: nothing decisive counts as approval, 0 >= 0.
approval_reached_by_nobody(proposal, approval_bps) ==
    proposal.for_votes * BPS_DENOMINATOR >= decisive_votes(proposal) * approval_bps

approval_reached(proposal, approval_bps) ==
    /\ decisive_votes(proposal) # 0
    /\ proposal.for_votes * BPS_DENOMINATOR >= decisive_votes(proposal) * approval_bps

outcome(proposal, quorum_bps, approval_bps) ==
    IF quorum_reached(proposal, quorum_bps) /\ approval_reached(proposal, approval_bps)
    THEN "Succeeded"
    ELSE "Defeated"

\* Mutant: a vote short of quorum cannot be closed.
finalize_proposal_at_quorum(p) ==
    /\ proposals[p].state = "Voting"
    /\ now >= proposals[p].voting_ends_at
    /\ quorum_reached(proposals[p], realm.quorum_bps)
    /\ proposals' = [proposals EXCEPT
         ![p].state = outcome(proposals[p], realm.quorum_bps, realm.approval_bps)]
    /\ UNCHANGED <<realm, vote_records, electorate_vars>>

\* Judged by the realm's thresholds of this moment, not of activation.
finalize_proposal(p) ==
    /\ proposals[p].state = "Voting"
    /\ now >= proposals[p].voting_ends_at
    /\ proposals' = [proposals EXCEPT
         ![p].state = outcome(proposals[p], realm.quorum_bps, realm.approval_bps)]
    /\ UNCHANGED <<realm, vote_records, electorate_vars>>

queue_proposal(p) ==
    /\ proposals[p].state = "Succeeded"
    /\ proposals' = [proposals EXCEPT
         ![p] = [@ EXCEPT !.state = "Queued", !.eta = now + realm.timelock_delay]]
    /\ UNCHANGED <<realm, vote_records, electorate_vars>>

-----------------------------------------------------------------------------
(* Execution. *)

expires_at(proposal) == proposal.eta + EXECUTION_GRACE_PERIOD

\* Mutant: the grace period is never looked at.
authorize_execution_dormant(p) ==
    /\ proposals[p].state = "Queued"
    /\ now >= proposals[p].eta
    /\ proposals' = [proposals EXCEPT ![p].state = "Executed"]

authorize_execution(p) ==
    /\ proposals[p].state = "Queued"
    /\ now >= proposals[p].eta
    /\ now <= expires_at(proposals[p])
    /\ proposals' = [proposals EXCEPT ![p].state = "Executed"]

execute_signal(p) ==
    /\ proposals[p].action.kind = "Signal"
    /\ authorize_execution(p)
    /\ UNCHANGED <<realm, vote_records, electorate_vars>>

\* Mutant: a proposal may carry what the direct instruction refuses.
execute_update_realm_params_unvalidated(p) ==
    /\ proposals[p].action.kind = "UpdateRealmParams"
    /\ authorize_execution(p)
    /\ realm' = with_params(realm, proposals[p].action.params)
    /\ UNCHANGED <<vote_records, electorate_vars>>

execute_update_realm_params(p) ==
    /\ proposals[p].action.kind = "UpdateRealmParams"
    /\ validate(proposals[p].action.params)
    /\ authorize_execution(p)
    /\ realm' = with_params(realm, proposals[p].action.params)
    /\ UNCHANGED <<vote_records, electorate_vars>>

execute_set_realm_authority(p) ==
    /\ proposals[p].action.kind = "SetRealmAuthority"
    /\ authorize_execution(p)
    /\ realm' = [realm EXCEPT !.authority = proposals[p].action.new_authority]
    /\ UNCHANGED <<vote_records, electorate_vars>>

execute_external(p) ==
    /\ proposals[p].action.kind = "External"
    /\ authorize_execution(p)
    /\ UNCHANGED <<realm, vote_records, electorate_vars>>

GovernanceNext ==
    \/ \E signer \in Owners, params \in ParamChoices : update_realm_params(signer, params)
    \/ \E proposer \in Owners, p \in ProposalIds, position \in VoterIds, action \in Actions :
         create_proposal(proposer, p, position, action)
    \/ \E p \in ProposalIds : activate_proposal(p)
    \/ \E signer \in Owners, p \in ProposalIds : cancel_proposal(signer, p)
    \/ \E voter \in Owners, p \in ProposalIds, position \in VoterIds, choice \in VoteChoice :
         cast_vote(voter, p, position, choice)
    \/ \E p \in ProposalIds : finalize_proposal(p)
    \/ \E p \in ProposalIds : queue_proposal(p)
    \/ \E p \in ProposalIds : execute_signal(p)
    \/ \E p \in ProposalIds : execute_update_realm_params(p)
    \/ \E p \in ProposalIds : execute_set_realm_authority(p)
    \/ \E p \in ProposalIds : execute_external(p)

StakingNext == ElectorateNext /\ UNCHANGED realm_vars

Next == GovernanceNext \/ StakingNext

Spec == Init /\ [][Next]_vars

-----------------------------------------------------------------------------
(* Properties. *)

Realm ==
    [authority : Owners \cup {Executor}, guardian : Owners, quorum_bps : Nat,
     approval_bps : Nat, voting_period : Nat, timelock_delay : Nat,
     min_weight_to_propose : Nat, proposal_count : Nat]

ProposalState ==
    {"None", "Draft", "Voting", "Succeeded", "Defeated", "Queued", "Executed", "Cancelled"}

Proposal ==
    [state : ProposalState, action : ProposalAction,
     voting_starts_at : Nat, voting_ends_at : Nat, eta : Nat,
     for_votes : Nat, against_votes : Nat, abstain_votes : Nat,
     total_weight_snapshot : Nat, position_count_snapshot : Nat]

VoteRecord == [choice : VoteChoice \cup {"None"}, weight : Nat]

TypeOK ==
    /\ voters \in [VoterIds -> Voter]
    /\ total_weighted \in Nat
    /\ position_count \in Nat
    /\ now \in Nat
    /\ realm \in Realm
    /\ proposals \in [ProposalIds -> Proposal]
    /\ vote_records \in [ProposalIds -> [VoterIds -> VoteRecord]]

\* INVARIANTS.md 4.3: no more weight is ever counted than the quorum denominator
\* was measured over, whatever was staked, withdrawn, closed and re-opened
\* between activation and the last vote.
TurnoutWithinSnapshot ==
    \A p \in ProposalIds :
        total_votes(proposals[p]) <= proposals[p].total_weight_snapshot

\* cast_vote's "stake you are contractually unable to withdraw before the vote
\* closes": while a vote is open every vote cast in it is still backed by the
\* position it came from, at full weight.
VotesStayBacked ==
    \A p \in ProposalIds, id \in VoterIds :
        (/\ proposals[p].state = "Voting"
         /\ now < proposals[p].voting_ends_at
         /\ Voted(p, id))
            => Present(id) /\ voters[id].weight = vote_records[p][id].weight

\* MIN_APPROVAL_BPS: whatever the thresholds were changed to while it was being
\* voted on, no proposal passes with as much weight against it as for it.
CarriedByMajority ==
    \A p \in ProposalIds :
        proposals[p].state \in {"Succeeded", "Queued", "Executed"}
            => proposals[p].for_votes > proposals[p].against_votes

\* INVARIANTS.md 4.4 against every change of the delay: nothing executes sooner
\* after its vote closed than the timelock's floor.
TimelockServed ==
    \A p \in ProposalIds :
        proposals[p].state = "Executed"
            => now >= proposals[p].voting_ends_at + MIN_TIMELOCK_DELAY

\* INVARIANTS.md 4.5, 4.6: the lifecycle is walked forwards, one state at a time,
\* and once a proposal is executed, defeated or vetoed nothing moves it, not
\* even a tally.
Lifecycle ==
    [None      |-> {"Draft"},
     Draft     |-> {"Voting", "Cancelled"},
     Voting    |-> {"Succeeded", "Defeated", "Cancelled"},
     Succeeded |-> {"Queued", "Cancelled"},
     Queued    |-> {"Executed", "Cancelled"},
     Executed  |-> {},
     Defeated  |-> {},
     Cancelled |-> {}]

LifecycleRespected ==
    [][\A p \in ProposalIds :
         proposals'[p] # proposals[p]
           => \/ proposals'[p].state \in Lifecycle[proposals[p].state]
              \/ /\ proposals[p].state = "Voting" /\ proposals'[p].state = "Voting"
                 /\ now < proposals[p].voting_ends_at]_vars

\* INVARIANTS.md 4.14, 4.15 and the migration of F-11: once the executor owns the
\* realm, what passing means changes only by executing a proposal that carried
\* exactly that change, past its vote and its timelock, and only to parameters
\* the direct instruction accepts.
SelfGoverning ==
    [][realm.authority = Executor /\ with_params(realm', realm) # realm'
         => \E p \in ProposalIds :
              /\ proposals[p].state = "Queued" /\ proposals'[p].state = "Executed"
              /\ proposals[p].action.kind = "UpdateRealmParams"
              /\ realm' = with_params(realm, proposals[p].action.params)
              /\ validate(proposals[p].action.params)
              /\ now >= proposals[p].voting_ends_at + MIN_TIMELOCK_DELAY]_vars

Committed(proposal) ==
    CASE proposal.state \in {"Queued", "Executed"} ->
           [status |-> proposal.state, act |-> proposal.action, eta |-> proposal.eta]
      [] proposal.state \in {"Defeated", "Cancelled"} -> [status |-> "Void", act |-> NoProposal.action, eta |-> 0]
      [] OTHER -> [status |-> "None", act |-> NoProposal.action, eta |-> 0]

Standing == [p \in ProposalIds |-> Committed(proposals[p])]

Mandates ==
    INSTANCE Mandate WITH
        Acts     <- ProposalAction,
        NoAct    <- NoProposal.action,
        mandates <- Standing

\* What governance promises the programs it owns (INVARIANTS.md 4.4, 4.6, 4.7, and of
\* 4.11 the arguments; on which accounts is Helix's): seen through what is queued, a
\* proposal authorises one act, carried out at most once, unaltered, inside the window
\* its timelock and the grace period leave,
\* whatever voting, vetoes and changes of parameters happened around it.
ImplementsMandate == Mandates!MandateSpec

-----------------------------------------------------------------------------
(* Liveness.  finalize_proposal is permissionless, so somebody may always    *)
(* send it; the cluster's clock advances.                                    *)

FairSpec ==
    /\ Spec
    /\ WF_vars(\E step \in Steps : Advance(step) /\ UNCHANGED realm_vars)
    /\ \A p \in ProposalIds : WF_vars(finalize_proposal(p))

\* lifecycle.rs: nobody can strand a proposal they dislike in Voting forever,
\* whatever the turnout and whatever happens to the pool and the parameters.
\* Horizon is where this instance's clock stops.
VotingResolves ==
    \A p \in ProposalIds :
        (proposals[p].state = "Voting" /\ proposals[p].voting_ends_at <= Horizon)
            ~> proposals[p].state # "Voting"
=============================================================================
