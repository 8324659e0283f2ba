-------------------------- MODULE GovernanceProofs --------------------------
(***************************************************************************)
(* Safety of Governance for every value of the constants.                  *)
(*                                                                         *)
(* Turnout is bounded by a potential: what each position has voted, or     *)
(* could still vote, with.  A cast vote turns one into the other, a        *)
(* withdrawal only lowers it, and a position opened later has none; so its *)
(* sum, the snapshot at activation, bounds the tally ever after.           *)
(***************************************************************************)
EXTENDS Governance, FiniteSumLemmas, TLAPS

VoterWeight == [id \in VoterIds |-> voters[id].weight]

\* What the position has voted with on p.
Cast(p) == [id \in VoterIds |-> vote_records[p][id].weight]

\* What the position has voted with on p, or could still.
Potential(p) ==
    [id \in VoterIds |->
        IF Voted(p, id) THEN vote_records[p][id].weight
        ELSE IF id < proposals[p].position_count_snapshot THEN voters[id].weight
        ELSE 0]

Passed == {"Succeeded", "Queued", "Executed"}

ElectorateInv ==
    /\ position_count <= Capacity
    /\ total_weighted = SumTo(VoterWeight, Capacity)
    /\ \A id \in VoterIds : ~Present(id) => voters[id].weight = 0
    /\ \A id \in VoterIds : id >= position_count => ~Present(id)

Unborn(p) == p >= realm.proposal_count => proposals[p].state = "None"

Unvoted(p) ==
    proposals[p].state \in {"None", "Draft"}
        => \A id \in VoterIds : ~Voted(p, id)

Records(p) ==
    \A id \in VoterIds :
        IF Voted(p, id) THEN vote_records[p][id].weight > 0
                        ELSE vote_records[p][id].weight = 0

Tallied(p) == total_votes(proposals[p]) = SumTo(Cast(p), Capacity)

Covered(p) ==
    /\ proposals[p].position_count_snapshot <= position_count
    /\ proposals[p].state = "Voting"
         => SumTo(Potential(p), Capacity) <= proposals[p].total_weight_snapshot
    /\ total_votes(proposals[p]) <= proposals[p].total_weight_snapshot

Backed(p) ==
    \A id \in VoterIds :
        (/\ proposals[p].state = "Voting"
         /\ now < proposals[p].voting_ends_at
         /\ Voted(p, id))
            => /\ Present(id)
               /\ voters[id].weight = vote_records[p][id].weight
               /\ voters[id].lock_end >= proposals[p].voting_ends_at

Carried(p) ==
    proposals[p].state \in Passed => proposals[p].for_votes > proposals[p].against_votes

Served(p) ==
    /\ proposals[p].state \in Passed => now >= proposals[p].voting_ends_at
    /\ proposals[p].state = "Queued"
         => proposals[p].eta >= proposals[p].voting_ends_at + MIN_TIMELOCK_DELAY
    /\ proposals[p].state = "Executed"
         => now >= proposals[p].voting_ends_at + MIN_TIMELOCK_DELAY

ProposalInv(p) ==
    /\ Unborn(p) /\ Unvoted(p) /\ Records(p) /\ Tallied(p)
    /\ Covered(p) /\ Backed(p) /\ Carried(p) /\ Served(p)

IInv ==
    /\ TypeOK
    /\ ElectorateInv
    /\ validate(realm)
    /\ \A p \in ProposalIds : ProposalInv(p)

-----------------------------------------------------------------------------
(* Typing. *)

LEMMA WithParamsFields ==
    ASSUME NEW r \in Realm, NEW params \in RealmParams
    PROVE  /\ with_params(r, params) \in Realm
           /\ with_params(r, params).proposal_count = r.proposal_count
           /\ with_params(r, params).authority = r.authority
           /\ validate(with_params(r, params)) <=> validate(params)
<1>1. params \in [quorum_bps : Nat, approval_bps : Nat, voting_period : Nat,
                  timelock_delay : Nat, min_weight_to_propose : Nat]
  BY DEF RealmParams
<1>2. with_params(r, params) \in Realm
  BY <1>1 DEF with_params, Realm
<1>3. /\ with_params(r, params).proposal_count = r.proposal_count
      /\ with_params(r, params).authority = r.authority
      /\ with_params(r, params).quorum_bps = params.quorum_bps
      /\ with_params(r, params).approval_bps = params.approval_bps
      /\ with_params(r, params).voting_period = params.voting_period
      /\ with_params(r, params).timelock_delay = params.timelock_delay
  BY DEF with_params, Realm
<1>. QED BY <1>2, <1>3 DEF validate

LEMMA NoProposalType == NoProposal \in Proposal
<1>1. [kind |-> "Signal"] \in ProposalAction
  BY DEF ProposalAction
<1>2. "None" \in ProposalState
  BY DEF ProposalState
<1>. QED BY <1>1, <1>2 DEF NoProposal, Proposal

\* The sums range over natural weights.
LEMMA SumTypes ==
    ASSUME TypeOK, NEW p \in ProposalIds
    PROVE  /\ Capacity \in Nat /\ VoterIds = 0 .. Capacity - 1
           /\ VoterWeight \in [0 .. Capacity - 1 -> Nat]
           /\ Cast(p) \in [0 .. Capacity - 1 -> Nat]
           /\ Potential(p) \in [0 .. Capacity - 1 -> Nat]
<1>1. Capacity \in Nat /\ VoterIds = 0 .. Capacity - 1
  BY ElectorateAssumption DEF VoterIds
<1>2. \A id \in VoterIds : voters[id].weight \in Nat /\ vote_records[p][id].weight \in Nat
  BY DEF TypeOK, Voter, VoteRecord
<1>. QED BY <1>1, <1>2 DEF VoterWeight, Cast, Potential

\* The same one step later.
LEMMA SumTypesNext ==
    ASSUME TypeOK', NEW p \in ProposalIds
    PROVE  /\ Cast(p)' \in [0 .. Capacity - 1 -> Nat]
           /\ Potential(p)' \in [0 .. Capacity - 1 -> Nat]
<1>1. Capacity \in Nat /\ VoterIds = 0 .. Capacity - 1
  BY ElectorateAssumption DEF VoterIds
<1>2. \A id \in VoterIds : voters'[id].weight \in Nat /\ vote_records'[p][id].weight \in Nat
  BY DEF TypeOK, Voter, VoteRecord
<1>. QED BY <1>1, <1>2 DEF Cast, Potential

LEMMA ProposalFields ==
    ASSUME TypeOK, NEW p \in ProposalIds
    PROVE  /\ proposals[p] \in Proposal
           /\ proposals[p].for_votes \in Nat
           /\ proposals[p].against_votes \in Nat
           /\ proposals[p].abstain_votes \in Nat
           /\ proposals[p].total_weight_snapshot \in Nat
           /\ proposals[p].position_count_snapshot \in Nat
           /\ proposals[p].voting_ends_at \in Nat
           /\ proposals[p].voting_starts_at \in Nat
           /\ proposals[p].eta \in Nat
           /\ proposals[p].action \in ProposalAction
           /\ proposals[p].state \in ProposalState
           /\ total_votes(proposals[p]) \in Nat
  BY DEF TypeOK, Proposal, total_votes

-----------------------------------------------------------------------------
(* A proposal nothing touched keeps its invariant. *)

LEMMA Untouched ==
    ASSUME NEW p \in ProposalIds, ProposalInv(p),
           proposals'[p] = proposals[p], vote_records'[p] = vote_records[p],
           UNCHANGED electorate_vars, Unborn(p)'
    PROVE  ProposalInv(p)'
<1>1. voters' = voters /\ position_count' = position_count /\ now' = now
  BY DEF electorate_vars
<1>2. \A id \in VoterIds : Voted(p, id)' <=> Voted(p, id)
  BY DEF Voted
<1>3. Cast(p)' = Cast(p) /\ Potential(p)' = Potential(p)
  BY <1>1, <1>2 DEF Cast, Potential
<1>4. \A id \in VoterIds : Present(id)' <=> Present(id)
  BY <1>1 DEF Present
<1>5. Unvoted(p)' /\ Records(p)'
  BY <1>2 DEF ProposalInv, Unvoted, Records
<1>6. Tallied(p)' /\ Covered(p)'
  BY <1>1, <1>3 DEF ProposalInv, Tallied, Covered
<1>7. Backed(p)' /\ Carried(p)' /\ Served(p)'
  BY <1>1, <1>2, <1>4 DEF ProposalInv, Backed, Carried, Served
<1>. QED BY <1>5, <1>6, <1>7 DEF ProposalInv

LEMMA ElectorateKept ==
    ASSUME ElectorateInv, UNCHANGED electorate_vars
    PROVE  ElectorateInv'
  BY DEF ElectorateInv, electorate_vars, VoterWeight, Present

\* A proposal that leaves Draft or Voting for good: only its state and its eta
\* move.
LEMMA Moved ==
    ASSUME IInv, NEW p \in ProposalIds, NEW q \in Proposal,
           proposals' = [proposals EXCEPT ![p] = q],
           UNCHANGED <<vote_records, electorate_vars>>,
           realm' \in Realm, realm'.proposal_count = realm.proposal_count, validate(realm)',
           proposals[p].state # "None",
           q.state \in {"Succeeded", "Defeated", "Queued", "Executed", "Cancelled"},
           q.for_votes = proposals[p].for_votes,
           q.against_votes = proposals[p].against_votes,
           q.abstain_votes = proposals[p].abstain_votes,
           q.total_weight_snapshot = proposals[p].total_weight_snapshot,
           q.position_count_snapshot = proposals[p].position_count_snapshot,
           Carried(p)', Served(p)'
    PROVE  IInv'
<1>1. TypeOK'
  BY DEF IInv, TypeOK, electorate_vars
<1>2. ElectorateInv'
  BY ElectorateKept DEF IInv
<1>3. proposals'[p] = q /\ \A i \in ProposalIds : i # p => proposals'[i] = proposals[i]
  BY DEF IInv, TypeOK
<1>4. ASSUME NEW i \in ProposalIds, i # p
      PROVE  ProposalInv(i)'
  <2>1. Unborn(i)'
    BY <1>3, <1>4 DEF IInv, ProposalInv, Unborn
  <2>. QED BY <1>3, <1>4, <2>1, Untouched DEF IInv
<1>5. ProposalInv(p)'
  <2>1. ProposalInv(p)
    BY DEF IInv
  <2>2. voters' = voters /\ position_count' = position_count /\ now' = now
    BY DEF electorate_vars
  <2>3. \A id \in VoterIds : Voted(p, id)' <=> Voted(p, id)
    BY DEF Voted
  <2>4. Cast(p)' = Cast(p)
    BY DEF Cast
  <2>5. Unborn(p)' /\ Unvoted(p)' /\ Records(p)'
    BY <1>3, <2>1, <2>3 DEF ProposalInv, Unborn, Unvoted, Records
  <2>6. Tallied(p)' /\ Covered(p)'
    BY <1>3, <2>1, <2>2, <2>4 DEF ProposalInv, Tallied, Covered, total_votes
  <2>7. Backed(p)'
    BY <1>3 DEF Backed
  <2>. QED BY <2>5, <2>6, <2>7 DEF ProposalInv
<1>. QED BY <1>1, <1>2, <1>4, <1>5 DEF IInv

-----------------------------------------------------------------------------
(* The governance instructions. *)

LEMMA UpdateParamsPreserves ==
    ASSUME IInv, NEW signer \in Owners, NEW params \in ParamChoices,
           update_realm_params(signer, params)
    PROVE  IInv'
<1>1. /\ validate(params) /\ realm' = with_params(realm, params)
      /\ UNCHANGED <<proposals, vote_records, electorate_vars>>
  BY DEF update_realm_params
<1>2. params \in RealmParams /\ realm \in Realm
  BY GovernanceAssumption DEF IInv, TypeOK
<1>3. /\ realm' \in Realm /\ realm'.proposal_count = realm.proposal_count
      /\ validate(realm')
  BY <1>1, <1>2, WithParamsFields
<1>4. TypeOK'
  BY <1>1, <1>3 DEF IInv, TypeOK, electorate_vars
<1>5. ElectorateInv'
  BY <1>1, ElectorateKept DEF IInv
<1>6. ASSUME NEW p \in ProposalIds PROVE ProposalInv(p)'
  <2>1. Unborn(p)'
    BY <1>1, <1>3 DEF IInv, ProposalInv, Unborn
  <2>. QED BY <1>1, <2>1, Untouched DEF IInv
<1>. QED BY <1>3, <1>4, <1>5, <1>6 DEF IInv, validate

\* A proposal nobody has voted on has no votes.
LEMMA NoVotesYet ==
    ASSUME IInv, NEW p \in ProposalIds, proposals[p].state \in {"None", "Draft"}
    PROVE  /\ SumTo(Cast(p), Capacity) = 0
           /\ total_votes(proposals[p]) = 0
<1>1. \A id \in VoterIds : vote_records[p][id].weight = 0
  BY DEF IInv, ProposalInv, Unvoted, Records
<1>2. \A i \in 0 .. Capacity - 1 : Cast(p)[i] = 0
  BY <1>1, SumTypes DEF Cast, IInv
<1>3. Cast(p) \in [0 .. Capacity - 1 -> Int] /\ Capacity \in Nat
  <2>1. Cast(p) \in [0 .. Capacity - 1 -> Nat] /\ Capacity \in Nat
    BY SumTypes DEF IInv
  <2>. QED BY <2>1
<1>4. SumTo(Cast(p), Capacity) = 0
  BY <1>2, <1>3, SumOfZeros
<1>. QED BY <1>4 DEF IInv, ProposalInv, Tallied

LEMMA CreatePreserves ==
    ASSUME IInv, NEW proposer \in Owners, NEW p \in ProposalIds, NEW position \in VoterIds,
           NEW action \in Actions,
           create_proposal(proposer, p, position, action)
    PROVE  IInv'
<1> DEFINE q == [NoProposal EXCEPT !.state = "Draft", !.action = action]
<1>1. /\ p = realm.proposal_count
      /\ proposals' = [proposals EXCEPT ![p] = q]
      /\ realm' = [realm EXCEPT !.proposal_count = @ + 1]
      /\ UNCHANGED <<vote_records, electorate_vars>>
  BY DEF create_proposal
<1>2. /\ q \in Proposal
      /\ q.state = "Draft" /\ total_votes(q) = 0
      /\ q.position_count_snapshot = 0 /\ q.total_weight_snapshot = 0
  <2>1. action \in ProposalAction /\ "Draft" \in ProposalState
    BY ActionsAssumption DEF ProposalState
  <2>2. q \in Proposal
    BY <2>1, NoProposalType DEF Proposal
  <2>. QED BY <2>2 DEF NoProposal, total_votes
<1> HIDE DEF q
<1>3. /\ realm' \in Realm /\ realm'.proposal_count = realm.proposal_count + 1
      /\ validate(realm') /\ realm.proposal_count \in Nat
  <2>1. realm \in Realm /\ realm.proposal_count \in Nat
    BY DEF IInv, TypeOK, Realm
  <2>2. realm' \in Realm /\ realm'.proposal_count = realm.proposal_count + 1
    BY <1>1, <2>1 DEF Realm
  <2>3. /\ realm'.quorum_bps = realm.quorum_bps
        /\ realm'.approval_bps = realm.approval_bps
        /\ realm'.voting_period = realm.voting_period
        /\ realm'.timelock_delay = realm.timelock_delay
    BY <1>1, <2>1 DEF Realm
  <2>. QED BY <2>1, <2>2, <2>3 DEF IInv, validate
<1>4. TypeOK'
  BY <1>1, <1>2, <1>3 DEF IInv, TypeOK, electorate_vars
<1>5. ElectorateInv'
  BY <1>1, ElectorateKept DEF IInv
<1>6. proposals'[p] = q /\ \A i \in ProposalIds : i # p => proposals'[i] = proposals[i]
  BY <1>1 DEF IInv, TypeOK
<1>7. ASSUME NEW i \in ProposalIds, i # p
      PROVE  ProposalInv(i)'
  <2>1. Unborn(i)'
    BY <1>3, <1>6, <1>7 DEF IInv, ProposalInv, Unborn, ProposalIds
  <2>. QED BY <1>1, <1>6, <1>7, <2>1, Untouched DEF IInv
<1>8. ProposalInv(p)'
  <2>1. ProposalInv(p) /\ proposals[p].state = "None"
    BY <1>1, <1>3 DEF IInv, ProposalInv, Unborn
  <2>2. \A id \in VoterIds : Voted(p, id)' <=> Voted(p, id)
    BY <1>1 DEF Voted
  <2>3. Cast(p)' = Cast(p) /\ SumTo(Cast(p), Capacity) = 0
    BY <1>1, <2>1, NoVotesYet DEF Cast
  <2>4. Unborn(p)'
    BY <1>1, <1>3 DEF Unborn, ProposalIds
  <2>5. Unvoted(p)' /\ Records(p)'
    BY <1>1, <2>1, <2>2 DEF ProposalInv, Unvoted, Records
  <2>6. Tallied(p)'
    BY <1>2, <1>6, <2>3 DEF Tallied, total_votes
  <2>7. Covered(p)'
    <3>1. position_count' \in Nat
      BY <1>4 DEF TypeOK
    <3>. QED BY <1>2, <1>6, <3>1 DEF Covered, total_votes
  <2>8. Backed(p)' /\ Carried(p)' /\ Served(p)'
    BY <1>2, <1>6 DEF Backed, Carried, Served, Passed
  <2>. QED BY <2>4, <2>5, <2>6, <2>7, <2>8 DEF ProposalInv
<1>. QED BY <1>3, <1>4, <1>5, <1>7, <1>8 DEF IInv, validate

LEMMA ActivatePreserves ==
    ASSUME IInv, NEW p \in ProposalIds, activate_proposal(p)
    PROVE  IInv'
<1> DEFINE q == [proposals[p] EXCEPT
                   !.state                   = "Voting",
                   !.voting_starts_at        = now,
                   !.voting_ends_at          = now + realm.voting_period,
                   !.total_weight_snapshot   = total_weighted,
                   !.position_count_snapshot = position_count]
<1>1. /\ proposals[p].state = "Draft"
      /\ proposals' = [proposals EXCEPT ![p] = q]
      /\ UNCHANGED <<realm, vote_records, electorate_vars>>
  BY DEF activate_proposal
<1>2. /\ q \in Proposal
      /\ q.state = "Voting"
      /\ q.position_count_snapshot = position_count
      /\ q.total_weight_snapshot = total_weighted
      /\ total_votes(q) = total_votes(proposals[p])
  <2>1. /\ now \in Nat /\ now + realm.voting_period \in Nat
        /\ total_weighted \in Nat /\ position_count \in Nat
        /\ proposals[p] \in Proposal /\ "Voting" \in ProposalState
    BY DEF IInv, TypeOK, Realm, ProposalState
  <2>2. q \in Proposal
    BY <2>1 DEF Proposal
  <2>. QED BY <2>1, <2>2 DEF Proposal, total_votes
<1> HIDE DEF q
<1>3. TypeOK'
  BY <1>1, <1>2 DEF IInv, TypeOK, electorate_vars
<1>4. ElectorateInv'
  BY <1>1, ElectorateKept DEF IInv
<1>5. proposals'[p] = q /\ \A i \in ProposalIds : i # p => proposals'[i] = proposals[i]
  BY <1>1 DEF IInv, TypeOK
<1>6. ASSUME NEW i \in ProposalIds, i # p
      PROVE  ProposalInv(i)'
  <2>1. Unborn(i)'
    BY <1>1, <1>5, <1>6 DEF IInv, ProposalInv, Unborn
  <2>. QED BY <1>1, <1>5, <1>6, <2>1, Untouched DEF IInv
<1>7. ProposalInv(p)'
  <2>1. ProposalInv(p) /\ \A id \in VoterIds : ~Voted(p, id)
    BY <1>1 DEF IInv, ProposalInv, Unvoted
  <2>2. \A id \in VoterIds : ~Voted(p, id)'
    BY <1>1, <2>1 DEF Voted
  <2>3. voters' = voters /\ position_count' = position_count /\ now' = now
    BY <1>1 DEF electorate_vars
  <2>4. Cast(p)' = Cast(p) /\ total_votes(proposals[p]) = 0
    BY <1>1, NoVotesYet DEF Cast
  <2>5. Unborn(p)'
    BY <1>1, <2>1 DEF ProposalInv, Unborn
  <2>6. Unvoted(p)' /\ Records(p)'
    BY <1>1, <2>1, <2>2 DEF ProposalInv, Unvoted, Records
  <2>7. Tallied(p)'
    BY <1>2, <1>5, <2>1, <2>4 DEF ProposalInv, Tallied, total_votes
  <2>8. SumTo(Potential(p)', Capacity) <= total_weighted
    <3> DEFINE f == Potential(p)'
               g == VoterWeight
    <3>1. f \in [0 .. Capacity - 1 -> Int] /\ g \in [0 .. Capacity - 1 -> Int]
      <4>1. Potential(p)' \in [0 .. Capacity - 1 -> Nat]
        BY <1>3, SumTypesNext
      <4>2. VoterWeight \in [0 .. Capacity - 1 -> Nat]
        BY SumTypes DEF IInv
      <4>. QED BY <4>1, <4>2
    <3>2. \A id \in 0 .. Capacity - 1 : f[id] <= g[id]
      <4>1. VoterIds = 0 .. Capacity - 1 /\ \A id \in VoterIds : voters[id].weight \in Nat
        BY SumTypes DEF IInv, TypeOK, Voter
      <4>. QED BY <2>2, <2>3, <4>1 DEF Potential, VoterWeight
    <3>3. Capacity \in Nat
      BY ElectorateAssumption
    <3> HIDE DEF f, g
    <3>4. SumTo(f, Capacity) <= SumTo(g, Capacity)
      BY <3>1, <3>2, <3>3, SumMono
    <3>. QED BY <3>4 DEF f, g, IInv, ElectorateInv
  <2>9. Covered(p)'
    <3>1. total_weighted \in Nat /\ position_count \in Nat
      BY DEF IInv, TypeOK
    <3>. QED BY <1>2, <1>5, <2>3, <2>4, <2>8, <3>1 DEF Covered
  <2>10. Backed(p)' /\ Carried(p)' /\ Served(p)'
    BY <1>2, <1>5, <2>2 DEF Backed, Carried, Served, Passed
  <2>. QED BY <2>5, <2>6, <2>7, <2>9, <2>10 DEF ProposalInv
<1>. QED BY <1>1, <1>3, <1>4, <1>6, <1>7 DEF IInv, validate

LEMMA CancelPreserves ==
    ASSUME IInv, NEW signer \in Owners, NEW p \in ProposalIds, cancel_proposal(signer, p)
    PROVE  IInv'
<1> DEFINE q == [proposals[p] EXCEPT !.state = "Cancelled"]
<1>1. /\ is_cancellable(proposals[p].state)
      /\ proposals' = [proposals EXCEPT ![p] = q]
      /\ UNCHANGED <<realm, vote_records, electorate_vars>>
  BY DEF cancel_proposal
<1>2. /\ q \in Proposal /\ q.state = "Cancelled"
      /\ q.for_votes = proposals[p].for_votes
      /\ q.against_votes = proposals[p].against_votes
      /\ q.abstain_votes = proposals[p].abstain_votes
      /\ q.total_weight_snapshot = proposals[p].total_weight_snapshot
      /\ q.position_count_snapshot = proposals[p].position_count_snapshot
  <2>1. proposals[p] \in Proposal /\ "Cancelled" \in ProposalState
    BY DEF IInv, TypeOK, ProposalState
  <2>. QED BY <2>1 DEF Proposal
<1>3. proposals[p].state # "None"
  BY <1>1 DEF is_cancellable
<1>4. proposals'[p] = q
  BY <1>1 DEF IInv, TypeOK
<1> HIDE DEF q
<1>5. Carried(p)' /\ Served(p)'
  BY <1>2, <1>4 DEF Carried, Served, Passed
<1>6. /\ realm' \in Realm /\ realm'.proposal_count = realm.proposal_count
      /\ validate(realm')
  BY <1>1 DEF IInv, TypeOK
<1>. QED BY <1>1, <1>2, <1>3, <1>5, <1>6, Moved DEF validate

\* What approval means: a majority of the decisive votes.
LEMMA ApprovalIsMajority ==
    ASSUME NEW f \in Nat, NEW a \in Nat, NEW bps \in Nat, bps >= 5001, f + a # 0,
           f * 10000 >= (f + a) * bps
    PROVE  f > a
<1>1. SUFFICES ASSUME f <= a PROVE FALSE
  OBVIOUS
<1>2. (f + a) * bps >= (f + a) * 5001
  <2>1. PICK d \in Nat : bps = 5001 + d
    <3>1. bps - 5001 \in Nat /\ bps = 5001 + (bps - 5001)
      OBVIOUS
    <3>. QED BY <3>1
  <2>2. (f + a) * d \in Nat
    OBVIOUS
  <2>3. (f + a) * (5001 + d) = (f + a) * 5001 + (f + a) * d
    OBVIOUS
  <2>. QED BY <2>1, <2>2, <2>3
<1>3. f * 10000 >= (f + a) * 5001
  <2>1. (f + a) * bps \in Nat /\ f * 10000 \in Nat /\ (f + a) * 5001 \in Nat
    OBVIOUS
  <2>. QED BY <1>2, <2>1
<1>. QED BY <1>1, <1>3

LEMMA FinalizePreserves ==
    ASSUME IInv, NEW p \in ProposalIds, finalize_proposal(p)
    PROVE  IInv'
<1> DEFINE r == outcome(proposals[p], realm.quorum_bps, realm.approval_bps)
           q == [proposals[p] EXCEPT !.state = r]
<1>1. /\ proposals[p].state = "Voting" /\ now >= proposals[p].voting_ends_at
      /\ proposals' = [proposals EXCEPT ![p] = q]
      /\ UNCHANGED <<realm, vote_records, electorate_vars>>
  BY DEF finalize_proposal
<1>2. /\ r \in {"Succeeded", "Defeated"}
      /\ r = "Succeeded" => approval_reached(proposals[p], realm.approval_bps)
  BY DEF outcome
<1> HIDE DEF r
<1>3. /\ q \in Proposal /\ q.state = r
      /\ q.for_votes = proposals[p].for_votes
      /\ q.against_votes = proposals[p].against_votes
      /\ q.abstain_votes = proposals[p].abstain_votes
      /\ q.total_weight_snapshot = proposals[p].total_weight_snapshot
      /\ q.position_count_snapshot = proposals[p].position_count_snapshot
      /\ q.voting_ends_at = proposals[p].voting_ends_at
  <2>1. proposals[p] \in Proposal /\ r \in ProposalState
    BY <1>2 DEF IInv, TypeOK, ProposalState
  <2>. QED BY <2>1 DEF Proposal
<1>4. proposals'[p] = q
  BY <1>1 DEF IInv, TypeOK
<1> HIDE DEF q
<1>5. r = "Succeeded" => proposals[p].for_votes > proposals[p].against_votes
  <2>1. SUFFICES ASSUME approval_reached(proposals[p], realm.approval_bps)
                 PROVE  proposals[p].for_votes > proposals[p].against_votes
    BY <1>2
  <2> DEFINE f == proposals[p].for_votes
             a == proposals[p].against_votes
             bps == realm.approval_bps
  <2>2. f \in Nat /\ a \in Nat
    BY ProposalFields DEF IInv
  <2>3. bps \in Nat /\ bps >= 5001
    BY DEF IInv, TypeOK, Realm, validate, MIN_APPROVAL_BPS
  <2>4. f + a # 0 /\ f * 10000 >= (f + a) * bps
    BY <2>1 DEF approval_reached, decisive_votes, BPS_DENOMINATOR
  <2> HIDE DEF f, a, bps
  <2>5. f > a
    BY <2>2, <2>3, <2>4, ApprovalIsMajority
  <2>. QED BY <2>5 DEF f, a
<1>6. Carried(p)'
  BY <1>2, <1>3, <1>4, <1>5 DEF Carried, Passed
<1>7. Served(p)'
  <2>1. now' = now
    BY <1>1 DEF electorate_vars
  <2>. QED BY <1>1, <1>2, <1>3, <1>4, <2>1 DEF Served, Passed
<1>8. /\ realm' \in Realm /\ realm'.proposal_count = realm.proposal_count
      /\ validate(realm')
  BY <1>1 DEF IInv, TypeOK
<1>. QED BY <1>1, <1>2, <1>3, <1>6, <1>7, <1>8, Moved DEF validate

LEMMA QueuePreserves ==
    ASSUME IInv, NEW p \in ProposalIds, queue_proposal(p)
    PROVE  IInv'
<1> DEFINE q == [proposals[p] EXCEPT !.state = "Queued", !.eta = now + realm.timelock_delay]
<1>1. /\ proposals[p].state = "Succeeded"
      /\ proposals' = [proposals EXCEPT ![p] = q]
      /\ UNCHANGED <<realm, vote_records, electorate_vars>>
  BY DEF queue_proposal
<1>2. /\ now \in Nat /\ realm.timelock_delay \in Nat
      /\ realm.timelock_delay >= MIN_TIMELOCK_DELAY
      /\ MIN_TIMELOCK_DELAY \in Nat
      /\ proposals[p].voting_ends_at \in Nat
    BY GovernanceAssumption, ProposalFields DEF IInv, TypeOK, Realm, validate
<1>3. /\ q \in Proposal /\ q.state = "Queued" /\ q.eta = now + realm.timelock_delay
      /\ q.for_votes = proposals[p].for_votes
      /\ q.against_votes = proposals[p].against_votes
      /\ q.abstain_votes = proposals[p].abstain_votes
      /\ q.total_weight_snapshot = proposals[p].total_weight_snapshot
      /\ q.position_count_snapshot = proposals[p].position_count_snapshot
      /\ q.voting_ends_at = proposals[p].voting_ends_at
  <2>1. /\ proposals[p] \in Proposal /\ "Queued" \in ProposalState
        /\ now + realm.timelock_delay \in Nat
    BY <1>2 DEF IInv, TypeOK, ProposalState
  <2>. QED BY <2>1 DEF Proposal
<1>4. proposals'[p] = q
  BY <1>1 DEF IInv, TypeOK
<1> HIDE DEF q
<1>5. Carried(p) /\ Served(p)
  BY DEF IInv, ProposalInv
<1>6. Carried(p)'
  BY <1>1, <1>3, <1>4, <1>5 DEF Carried, Passed
<1>7. Served(p)'
  <2>1. now' = now /\ now >= proposals[p].voting_ends_at
    BY <1>1, <1>5 DEF electorate_vars, Served, Passed
  <2>. QED BY <1>2, <1>3, <1>4, <2>1 DEF Served, Passed
<1>8. /\ realm' \in Realm /\ realm'.proposal_count = realm.proposal_count
      /\ validate(realm')
  BY <1>1 DEF IInv, TypeOK
<1>. QED BY <1>1, <1>3, <1>6, <1>7, <1>8, Moved DEF validate

\* Every execute_* handler: what it does to the realm is left to the caller.
LEMMA ExecutionPreserves ==
    ASSUME IInv, NEW p \in ProposalIds, authorize_execution(p),
           UNCHANGED <<vote_records, electorate_vars>>,
           realm' \in Realm, realm'.proposal_count = realm.proposal_count, validate(realm)'
    PROVE  IInv'
<1> DEFINE q == [proposals[p] EXCEPT !.state = "Executed"]
<1>1. /\ proposals[p].state = "Queued" /\ now >= proposals[p].eta
      /\ proposals' = [proposals EXCEPT ![p] = q]
  BY DEF authorize_execution
<1>2. /\ now \in Nat /\ MIN_TIMELOCK_DELAY \in Nat
      /\ proposals[p].voting_ends_at \in Nat /\ proposals[p].eta \in Nat
    BY GovernanceAssumption, ProposalFields DEF IInv, TypeOK
<1>3. /\ q \in Proposal /\ q.state = "Executed"
      /\ q.for_votes = proposals[p].for_votes
      /\ q.against_votes = proposals[p].against_votes
      /\ q.abstain_votes = proposals[p].abstain_votes
      /\ q.total_weight_snapshot = proposals[p].total_weight_snapshot
      /\ q.position_count_snapshot = proposals[p].position_count_snapshot
      /\ q.voting_ends_at = proposals[p].voting_ends_at
  <2>1. proposals[p] \in Proposal /\ "Executed" \in ProposalState
    BY DEF IInv, TypeOK, ProposalState
  <2>. QED BY <2>1 DEF Proposal
<1>4. proposals'[p] = q
  BY <1>1 DEF IInv, TypeOK
<1> HIDE DEF q
<1>5. Carried(p) /\ Served(p)
  BY DEF IInv, ProposalInv
<1>6. Carried(p)'
  BY <1>1, <1>3, <1>4, <1>5 DEF Carried, Passed
<1>7. Served(p)'
  <2>1. /\ now' = now /\ now >= proposals[p].voting_ends_at
        /\ now >= proposals[p].voting_ends_at + MIN_TIMELOCK_DELAY
    BY <1>1, <1>2, <1>5 DEF electorate_vars, Served, Passed
  <2>. QED BY <1>3, <1>4, <2>1 DEF Served, Passed
<1>. QED BY <1>1, <1>3, <1>6, <1>7, Moved

LEMMA ExecutePreserves ==
    ASSUME IInv, NEW p \in ProposalIds,
           \/ execute_signal(p)
           \/ execute_update_realm_params(p)
           \/ execute_set_realm_authority(p)
           \/ execute_external(p)
    PROVE  IInv'
<1>1. authorize_execution(p) /\ UNCHANGED <<vote_records, electorate_vars>>
  BY DEF execute_signal, execute_update_realm_params, execute_set_realm_authority,
         execute_external
<1>2. realm \in Realm /\ validate(realm) /\ proposals[p].action \in ProposalAction
  BY ProposalFields DEF IInv, TypeOK
<1>3. CASE execute_signal(p) \/ execute_external(p)
  <2>1. realm' = realm
    BY <1>3 DEF execute_signal, execute_external
  <2>2. /\ realm' \in Realm /\ realm'.proposal_count = realm.proposal_count
        /\ validate(realm')
    BY <1>2, <2>1
  <2>. QED BY <1>1, <2>2, ExecutionPreserves DEF validate
<1>4. CASE execute_update_realm_params(p)
  <2> DEFINE params == proposals[p].action.params
  <2>1. /\ proposals[p].action.kind = "UpdateRealmParams" /\ validate(params)
        /\ realm' = with_params(realm, params)
    BY <1>4 DEF execute_update_realm_params
  <2>2. params \in RealmParams
    BY <1>2, <2>1, GovernanceAssumption DEF ProposalAction
  <2> HIDE DEF params
  <2>3. /\ realm' \in Realm /\ realm'.proposal_count = realm.proposal_count
        /\ validate(realm')
    BY <1>2, <2>1, <2>2, WithParamsFields
  <2>. QED BY <1>1, <2>3, ExecutionPreserves DEF validate
<1>5. CASE execute_set_realm_authority(p)
  <2> DEFINE to == proposals[p].action.new_authority
  <2>1. /\ proposals[p].action.kind = "SetRealmAuthority"
        /\ realm' = [realm EXCEPT !.authority = to]
    BY <1>5 DEF execute_set_realm_authority
  <2>2. to \in Owners \cup {Executor}
    BY <1>2, <2>1 DEF ProposalAction
  <2> HIDE DEF to
  <2>3. realm' \in Realm /\ realm'.proposal_count = realm.proposal_count
    BY <1>2, <2>1, <2>2 DEF Realm
  <2>4. /\ realm'.quorum_bps = realm.quorum_bps
        /\ realm'.approval_bps = realm.approval_bps
        /\ realm'.voting_period = realm.voting_period
        /\ realm'.timelock_delay = realm.timelock_delay
    BY <1>2, <2>1 DEF Realm
  <2>5. validate(realm)'
    BY <1>2, <2>4 DEF validate
  <2>. QED BY <1>1, <2>3, <2>5, ExecutionPreserves
<1>. QED BY <1>3, <1>4, <1>5

\* A tally moves its total by the weight and nothing else but the tallies.
LEMMA TallyFields ==
    ASSUME NEW r \in Proposal, NEW choice \in VoteChoice, NEW w \in Nat
    PROVE  /\ tally(r, choice, w) \in Proposal
           /\ total_votes(tally(r, choice, w)) = total_votes(r) + w
           /\ tally(r, choice, w).state = r.state
           /\ tally(r, choice, w).voting_ends_at = r.voting_ends_at
           /\ tally(r, choice, w).total_weight_snapshot = r.total_weight_snapshot
           /\ tally(r, choice, w).position_count_snapshot = r.position_count_snapshot
<1>1. /\ r.for_votes \in Nat /\ r.against_votes \in Nat /\ r.abstain_votes \in Nat
  BY DEF Proposal
<1>2. CASE choice = "For"
  <2>1. tally(r, choice, w) = [r EXCEPT !.for_votes = @ + w]
    BY <1>2 DEF tally
  <2>2. [r EXCEPT !.for_votes = @ + w] \in Proposal
    BY <1>1 DEF Proposal
  <2>. QED BY <1>1, <2>1, <2>2 DEF Proposal, total_votes
<1>3. CASE choice = "Against"
  <2>1. tally(r, choice, w) = [r EXCEPT !.against_votes = @ + w]
    BY <1>3 DEF tally
  <2>2. [r EXCEPT !.against_votes = @ + w] \in Proposal
    BY <1>1 DEF Proposal
  <2>. QED BY <1>1, <2>1, <2>2 DEF Proposal, total_votes
<1>4. CASE choice = "Abstain"
  <2>1. tally(r, choice, w) = [r EXCEPT !.abstain_votes = @ + w]
    BY <1>4 DEF tally
  <2>2. [r EXCEPT !.abstain_votes = @ + w] \in Proposal
    BY <1>1 DEF Proposal
  <2>. QED BY <1>1, <2>1, <2>2 DEF Proposal, total_votes
<1>. QED BY <1>2, <1>3, <1>4 DEF VoteChoice

LEMMA CastPreserves ==
    ASSUME IInv, NEW voter \in Owners, NEW p \in ProposalIds, NEW position \in VoterIds,
           NEW choice \in VoteChoice, cast_vote(voter, p, position, choice)
    PROVE  IInv'
<1> DEFINE w == voters[position].weight
           q == tally(proposals[p], choice, w)
           v == [choice |-> choice, weight |-> w]
<1>1. /\ proposals[p].state = "Voting"
      /\ now < proposals[p].voting_ends_at
      /\ Present(position)
      /\ can_vote_until(position, proposals[p].voting_ends_at)
      /\ position < proposals[p].position_count_snapshot
      /\ w > 0
      /\ ~Voted(p, position)
      /\ proposals' = [proposals EXCEPT ![p] = q]
      /\ vote_records' = [vote_records EXCEPT ![p][position] = v]
      /\ UNCHANGED <<realm, electorate_vars>>
  BY DEF cast_vote
<1>2. w \in Nat /\ v \in VoteRecord /\ proposals[p] \in Proposal
  <2>1. w \in Nat
    BY DEF IInv, TypeOK, Voter
  <2>. QED BY <2>1 DEF IInv, TypeOK, VoteRecord
<1>3. /\ q \in Proposal
      /\ total_votes(q) = total_votes(proposals[p]) + w
      /\ q.state = "Voting"
      /\ q.voting_ends_at = proposals[p].voting_ends_at
      /\ q.total_weight_snapshot = proposals[p].total_weight_snapshot
      /\ q.position_count_snapshot = proposals[p].position_count_snapshot
  BY <1>1, <1>2, TallyFields
<1> HIDE DEF q
<1>4. /\ vote_records'[p][position].choice = choice /\ choice # "None"
      /\ vote_records'[p][position].weight = w
      /\ \A id \in VoterIds : id # position => vote_records'[p][id] = vote_records[p][id]
      /\ \A i \in ProposalIds : i # p => vote_records'[i] = vote_records[i]
  BY <1>1 DEF IInv, TypeOK, VoteChoice
<1> HIDE DEF v
<1>5. TypeOK'
  BY <1>1, <1>2, <1>3 DEF IInv, TypeOK, electorate_vars
<1>6. ElectorateInv'
  BY <1>1, ElectorateKept DEF IInv
<1>7. proposals'[p] = q /\ \A i \in ProposalIds : i # p => proposals'[i] = proposals[i]
  BY <1>1 DEF IInv, TypeOK
<1>8. ASSUME NEW i \in ProposalIds, i # p
      PROVE  ProposalInv(i)'
  <2>1. Unborn(i)'
    BY <1>1, <1>7, <1>8 DEF IInv, ProposalInv, Unborn
  <2>. QED BY <1>1, <1>4, <1>7, <1>8, <2>1, Untouched DEF IInv
<1>9. ProposalInv(p)'
  <2>1. ProposalInv(p)
    BY DEF IInv
  <2>2. /\ Voted(p, position)'
        /\ \A id \in VoterIds : id # position => (Voted(p, id)' <=> Voted(p, id))
    BY <1>4 DEF Voted
  <2>3. voters' = voters /\ position_count' = position_count /\ now' = now
    BY <1>1 DEF electorate_vars
  <2>4. Unborn(p)' /\ Unvoted(p)'
    BY <1>1, <1>3, <1>7, <2>1 DEF ProposalInv, Unborn, Unvoted
  <2>5. Records(p)'
    BY <1>1, <1>4, <2>1, <2>2 DEF ProposalInv, Records
  <2>6. vote_records[p][position].weight = 0
    BY <1>1, <2>1 DEF ProposalInv, Records
  <2>7. SumTo(Cast(p)', Capacity) = SumTo(Cast(p), Capacity) + w
    <3> DEFINE f == Cast(p)
               g == Cast(p)'
    <3>1. /\ f \in [0 .. Capacity - 1 -> Nat] /\ g \in [0 .. Capacity - 1 -> Nat]
          /\ Capacity \in Nat /\ VoterIds = 0 .. Capacity - 1
      BY <1>5, SumTypes, SumTypesNext DEF IInv
    <3>2. /\ \A id \in 0 .. Capacity - 1 : id # position => g[id] = f[id]
          /\ f[position] = 0 /\ g[position] = w /\ position \in 0 .. Capacity - 1
      BY <1>4, <2>6, <3>1 DEF Cast
    <3> HIDE DEF f, g, w
    <3>3. f \in [0 .. Capacity - 1 -> Int] /\ g \in [0 .. Capacity - 1 -> Int]
      BY <3>1
    <3>4. SumTo(g, Capacity) = SumTo(f, Capacity) + g[position] - f[position]
      <4>1. Capacity \in Nat /\ position \in 0 .. Capacity - 1
        BY <3>1, <3>2
      <4>2. \A id \in 0 .. Capacity - 1 : id # position => g[id] = f[id]
        BY <3>2
      <4>. QED BY <3>3, <4>1, <4>2, SumUpdate
    <3>5. SumTo(f, Capacity) \in Int
      BY <3>1, <3>3, SumType
    <3>6. SumTo(g, Capacity) = SumTo(f, Capacity) + w
      BY <1>2, <3>2, <3>4, <3>5
    <3>. QED BY <3>6 DEF f, g
  <2>8. Tallied(p)'
    BY <1>3, <1>7, <2>1, <2>7 DEF ProposalInv, Tallied
  <2>9. Potential(p)' = Potential(p)
    BY <1>1, <1>3, <1>4, <1>7, <2>2, <2>3 DEF Potential
  <2>10. SumTo(Cast(p)', Capacity) <= SumTo(Potential(p)', Capacity)
    <3> DEFINE f == Cast(p)'
               g == Potential(p)'
    <3>1. /\ f \in [0 .. Capacity - 1 -> Nat] /\ g \in [0 .. Capacity - 1 -> Nat]
          /\ Capacity \in Nat /\ VoterIds = 0 .. Capacity - 1
      BY <1>5, SumTypes, SumTypesNext DEF IInv
    <3>2. \A id \in VoterIds : IF Voted(p, id)' THEN f[id] = g[id] ELSE f[id] = 0
      BY <2>5 DEF Records, Cast, Potential
    <3> HIDE DEF f, g
    <3>3. \A id \in 0 .. Capacity - 1 : f[id] <= g[id]
      BY <3>1, <3>2
    <3>4. f \in [0 .. Capacity - 1 -> Int] /\ g \in [0 .. Capacity - 1 -> Int]
      BY <3>1
    <3>5. SumTo(f, Capacity) <= SumTo(g, Capacity)
      BY <3>1, <3>3, <3>4, SumMono
    <3>. QED BY <3>5 DEF f, g
  <2>11. Covered(p)'
    <3>1. /\ proposals[p].position_count_snapshot <= position_count
          /\ SumTo(Potential(p), Capacity) <= proposals[p].total_weight_snapshot
      BY <1>1, <2>1 DEF ProposalInv, Covered
    <3>2. total_votes(q) = SumTo(Cast(p)', Capacity)
      BY <1>7, <2>8 DEF Tallied
    <3>3. /\ SumTo(Cast(p)', Capacity) \in Int /\ SumTo(Potential(p), Capacity) \in Int
          /\ proposals[p].total_weight_snapshot \in Int
      <4>1. /\ Cast(p)' \in [0 .. Capacity - 1 -> Int]
            /\ Potential(p) \in [0 .. Capacity - 1 -> Int]
            /\ Capacity \in Nat
        <5>1. /\ Cast(p)' \in [0 .. Capacity - 1 -> Nat]
              /\ Potential(p) \in [0 .. Capacity - 1 -> Nat]
              /\ Capacity \in Nat
          BY <1>5, SumTypes, SumTypesNext DEF IInv
        <5>. QED BY <5>1
      <4>2. SumTo(Cast(p)', Capacity) \in Int
        BY <4>1, SumType
      <4>3. SumTo(Potential(p), Capacity) \in Int
        BY <4>1, SumType
      <4>. QED BY <1>2, <4>2, <4>3 DEF Proposal
    <3>4. total_votes(q) <= q.total_weight_snapshot
      BY <1>3, <2>9, <2>10, <3>1, <3>2, <3>3
    <3>. QED BY <1>3, <1>7, <2>3, <2>9, <3>1, <3>4 DEF Covered
  <2>12. Backed(p)'
    <3>1. voters[position].lock_end >= proposals[p].voting_ends_at
      BY <1>1 DEF can_vote_until
    <3>2. \A id \in VoterIds : Present(id)' <=> Present(id)
      BY <2>3 DEF Present
    <3>3. Backed(p)
      BY <2>1 DEF ProposalInv
    <3>. QED BY <1>1, <1>3, <1>4, <1>7, <2>2, <2>3, <3>1, <3>2, <3>3 DEF Backed
  <2>13. Carried(p)' /\ Served(p)'
    BY <1>3, <1>7 DEF Carried, Served, Passed
  <2>. QED BY <2>4, <2>5, <2>8, <2>11, <2>12, <2>13 DEF ProposalInv
<1>. QED BY <1>1, <1>5, <1>6, <1>8, <1>9 DEF IInv, validate

-----------------------------------------------------------------------------
(* The staking instructions, under open votes. *)

\* What every staking step respects: no position that could vote on an earlier
\* snapshot gains weight, and one locked past the clock with weight is not
\* touched.
LEMMA StakingKeepsProposals ==
    ASSUME IInv, UNCHANGED realm_vars, TypeOK',
           position_count' >= position_count, now' >= now,
           \A id \in VoterIds : id < position_count => voters'[id].weight <= voters[id].weight,
           \A id \in VoterIds :
               Present(id) /\ voters[id].weight > 0 /\ now < voters[id].lock_end
                   => voters'[id] = voters[id],
           NEW p \in ProposalIds
    PROVE  ProposalInv(p)'
<1>1. ProposalInv(p)
  BY DEF IInv
<1>2. realm' = realm /\ proposals' = proposals /\ vote_records' = vote_records
  BY DEF realm_vars
<1>3. \A id \in VoterIds : Voted(p, id)' <=> Voted(p, id)
  BY <1>2 DEF Voted
<1>4. Unborn(p)' /\ Unvoted(p)' /\ Records(p)'
  BY <1>1, <1>2, <1>3 DEF ProposalInv, Unborn, Unvoted, Records
<1>5. Tallied(p)'
  <2>1. Cast(p)' = Cast(p)
    BY <1>2 DEF Cast
  <2>. QED BY <1>1, <1>2, <2>1 DEF ProposalInv, Tallied
<1>6. /\ now \in Nat /\ now' \in Nat /\ position_count \in Nat /\ position_count' \in Nat
      /\ proposals[p].voting_ends_at \in Nat
      /\ proposals[p].position_count_snapshot \in Nat
      /\ proposals[p].total_weight_snapshot \in Nat
      /\ MIN_TIMELOCK_DELAY \in Nat
  BY ProposalFields, GovernanceAssumption DEF IInv, TypeOK
<1>7. SumTo(Potential(p)', Capacity) <= SumTo(Potential(p), Capacity)
  <2> DEFINE f == Potential(p)'
             g == Potential(p)
  <2>1. /\ f \in [0 .. Capacity - 1 -> Nat] /\ g \in [0 .. Capacity - 1 -> Nat]
        /\ Capacity \in Nat /\ VoterIds = 0 .. Capacity - 1
    BY SumTypes, SumTypesNext DEF IInv
  <2>2. \A id \in VoterIds : f[id] <= g[id]
    <3> SUFFICES ASSUME NEW id \in VoterIds PROVE f[id] <= g[id]
      OBVIOUS
    <3>1. id \in Nat /\ vote_records[p][id].weight \in Nat
      BY <2>1 DEF IInv, TypeOK, VoteRecord
    <3>2. id < proposals[p].position_count_snapshot => id < position_count
      BY <1>1, <1>6, <3>1 DEF ProposalInv, Covered
    <3>. QED BY <1>2, <1>3, <3>1, <3>2 DEF Potential
  <2> HIDE DEF f, g
  <2>3. f \in [0 .. Capacity - 1 -> Int] /\ g \in [0 .. Capacity - 1 -> Int]
    BY <2>1
  <2>4. SumTo(f, Capacity) <= SumTo(g, Capacity)
    BY <2>1, <2>2, <2>3, SumMono
  <2>. QED BY <2>4 DEF f, g
<1>8. Covered(p)'
  <2>1. SumTo(Potential(p)', Capacity) \in Int /\ SumTo(Potential(p), Capacity) \in Int
    <3>1. /\ Potential(p)' \in [0 .. Capacity - 1 -> Nat]
          /\ Potential(p) \in [0 .. Capacity - 1 -> Nat]
          /\ Capacity \in Nat
      BY SumTypes, SumTypesNext DEF IInv
    <3>2. SumTo(Potential(p)', Capacity) \in Nat
      BY <3>1, SumOfNats
    <3>3. SumTo(Potential(p), Capacity) \in Nat
      BY <3>1, SumOfNats
    <3>. QED BY <3>2, <3>3
  <2>. QED BY <1>1, <1>2, <1>6, <1>7, <2>1 DEF ProposalInv, Covered
<1>9. Backed(p)'
  <2> SUFFICES ASSUME NEW id \in VoterIds,
                      proposals[p].state = "Voting",
                      now' < proposals[p].voting_ends_at,
                      Voted(p, id)
               PROVE  /\ Present(id)'
                      /\ voters'[id].weight = vote_records[p][id].weight
                      /\ voters'[id].lock_end >= proposals[p].voting_ends_at
    BY <1>2, <1>3 DEF Backed
  <2>1. /\ Present(id) /\ voters[id].weight = vote_records[p][id].weight
        /\ voters[id].lock_end >= proposals[p].voting_ends_at
    BY <1>1, <1>6 DEF ProposalInv, Backed
  <2>2. voters[id].weight > 0
    BY <1>1, <2>1 DEF ProposalInv, Records
  <2>3. voters[id].lock_end \in Nat
    BY DEF IInv, TypeOK, Voter
  <2>4. now < voters[id].lock_end
    BY <1>6, <2>1, <2>3
  <2>5. voters'[id] = voters[id]
    BY <2>1, <2>2, <2>4
  <2>. QED BY <2>1, <2>5 DEF Present
<1>10. Carried(p)' /\ Served(p)'
  <2>1. Carried(p) /\ Served(p)
    BY <1>1 DEF ProposalInv
  <2>. QED BY <1>2, <1>6, <2>1 DEF Carried, Served
<1>. QED BY <1>4, <1>5, <1>8, <1>9, <1>10 DEF ProposalInv

\* One position moves: the sum moves by the change of its weight.
LEMMA WeightMoves ==
    ASSUME TypeOK, TypeOK', NEW id \in VoterIds,
           \A i \in VoterIds : i # id => voters'[i] = voters[i]
    PROVE  /\ SumTo(VoterWeight', Capacity)
                = SumTo(VoterWeight, Capacity) + voters'[id].weight - voters[id].weight
           /\ SumTo(VoterWeight, Capacity) \in Int
<1> DEFINE f == VoterWeight
           g == VoterWeight'
<1>1. Capacity \in Nat /\ VoterIds = 0 .. Capacity - 1
  BY ElectorateAssumption DEF VoterIds
<1>2. \A i \in VoterIds : voters[i].weight \in Nat /\ voters'[i].weight \in Nat
  BY DEF TypeOK, Voter
<1>3. f \in [0 .. Capacity - 1 -> Int] /\ g \in [0 .. Capacity - 1 -> Int]
  BY <1>1, <1>2 DEF VoterWeight
<1>4. /\ \A i \in 0 .. Capacity - 1 : i # id => g[i] = f[i]
      /\ f[id] = voters[id].weight /\ g[id] = voters'[id].weight
  BY <1>1 DEF VoterWeight
<1> HIDE DEF f, g
<1>5. SumTo(g, Capacity) = SumTo(f, Capacity) + g[id] - f[id]
  <2>1. id \in 0 .. Capacity - 1
    BY <1>1
  <2>2. \A i \in 0 .. Capacity - 1 : i # id => g[i] = f[i]
    BY <1>4
  <2>. QED BY <1>1, <1>3, <2>1, <2>2, SumUpdate
<1>6. SumTo(f, Capacity) \in Int
  BY <1>1, <1>3, SumType
<1>. QED BY <1>4, <1>5, <1>6 DEF f, g

LEMMA OpenPreserves ==
    ASSUME IInv, UNCHANGED realm_vars, NEW owner \in Owners, NEW id \in VoterIds,
           NEW weight \in Weights, NEW lock \in Locks, Open(owner, id, weight, lock)
    PROVE  IInv'
<1> DEFINE v == [owner |-> owner, weight |-> weight, lock_end |-> now + lock]
<1>1. /\ id = position_count /\ ~Present(id)
      /\ voters' = [voters EXCEPT ![id] = v]
      /\ total_weighted' = total_weighted + weight
      /\ position_count' = position_count + 1
      /\ now' = now
      /\ realm' = realm /\ proposals' = proposals /\ vote_records' = vote_records
  BY DEF Open, realm_vars
<1>2. /\ weight \in Nat /\ now \in Nat /\ lock \in Nat /\ owner # NoOwner
      /\ total_weighted \in Nat /\ position_count \in Nat /\ now + lock \in Nat
      /\ Capacity \in Nat
  BY ElectorateAssumption DEF IInv, TypeOK
<1>3. v \in Voter /\ v.owner = owner /\ v.weight = weight
  BY <1>2 DEF Voter
<1> HIDE DEF v
<1>4. /\ voters'[id] = v /\ \A i \in VoterIds : i # id => voters'[i] = voters[i]
      /\ voters' \in [VoterIds -> Voter]
  BY <1>1, <1>3 DEF IInv, TypeOK
<1>5. TypeOK'
  BY <1>1, <1>2, <1>4 DEF IInv, TypeOK
<1>6. voters[id].weight = 0
  BY <1>1 DEF IInv, ElectorateInv
<1>7. ElectorateInv'
  <2>1. /\ SumTo(VoterWeight', Capacity)
             = SumTo(VoterWeight, Capacity) + voters'[id].weight - voters[id].weight
        /\ SumTo(VoterWeight, Capacity) \in Int
    BY <1>4, <1>5, WeightMoves DEF IInv
  <2>2. total_weighted' = SumTo(VoterWeight', Capacity)
    BY <1>1, <1>2, <1>3, <1>4, <1>6, <2>1 DEF IInv, ElectorateInv
  <2>3. position_count' <= Capacity
    BY <1>1, <1>2 DEF VoterIds
  <2>4. Present(id)' /\ \A i \in VoterIds : i # id => (Present(i)' <=> Present(i))
    BY <1>2, <1>3, <1>4 DEF Present
  <2>5. \A i \in VoterIds : ~Present(i)' => voters'[i].weight = 0
    BY <1>4, <2>4 DEF IInv, ElectorateInv
  <2>6. \A i \in VoterIds : i >= position_count' => ~Present(i)'
    BY <1>1, <1>2, <2>4 DEF IInv, ElectorateInv, VoterIds
  <2>. QED BY <2>2, <2>3, <2>5, <2>6 DEF ElectorateInv
<1>8. ASSUME NEW p \in ProposalIds PROVE ProposalInv(p)'
  <2>1. position_count' >= position_count /\ now' >= now
    BY <1>1, <1>2
  <2>2. \A i \in VoterIds : i < position_count => voters'[i].weight <= voters[i].weight
    <3>1. \A i \in VoterIds : voters[i].weight \in Nat
      BY DEF IInv, TypeOK, Voter
    <3>. QED BY <1>1, <1>2, <1>4, <3>1
  <2>3. \A i \in VoterIds :
            Present(i) /\ voters[i].weight > 0 /\ now < voters[i].lock_end
                => voters'[i] = voters[i]
    BY <1>1, <1>4
  <2>. QED BY <1>5, <2>1, <2>2, <2>3, StakingKeepsProposals
<1>. QED BY <1>1, <1>5, <1>7, <1>8 DEF IInv, validate

LEMMA ShrinkPreserves ==
    ASSUME IInv, UNCHANGED realm_vars, NEW id \in VoterIds,
           NEW left \in 0 .. voters[id].weight - 1, Shrink(id, left)
    PROVE  IInv'
<1> DEFINE v == [voters[id] EXCEPT !.weight = left]
<1>1. /\ Present(id) /\ now >= voters[id].lock_end /\ left < voters[id].weight
      /\ voters' = [voters EXCEPT ![id] = v]
      /\ total_weighted' = total_weighted - (voters[id].weight - left)
      /\ position_count' = position_count
      /\ now' = now
      /\ realm' = realm /\ proposals' = proposals /\ vote_records' = vote_records
  BY DEF Shrink, realm_vars
<1>2. /\ voters[id] \in Voter /\ voters[id].weight \in Nat /\ left \in Nat
      /\ voters[id].lock_end \in Nat
      /\ total_weighted \in Nat /\ position_count \in Nat /\ now \in Nat /\ Capacity \in Nat
  BY ElectorateAssumption DEF IInv, TypeOK, Voter
<1>3. v \in Voter /\ v.owner = voters[id].owner /\ v.weight = left
  BY <1>2 DEF Voter
<1> HIDE DEF v
<1>4. /\ voters'[id] = v /\ \A i \in VoterIds : i # id => voters'[i] = voters[i]
      /\ voters' \in [VoterIds -> Voter]
  BY <1>1, <1>3 DEF IInv, TypeOK
<1>5. total_weighted' \in Nat
  <2>1. /\ VoterWeight \in [0 .. Capacity - 1 -> Nat] /\ VoterIds = 0 .. Capacity - 1
    BY <1>2, ElectorateAssumption DEF IInv, TypeOK, Voter, VoterWeight, VoterIds
  <2>2. \A i \in 0 .. Capacity - 1 : VoterWeight[i] <= SumTo(VoterWeight, Capacity)
    BY <1>2, <2>1, SumOfNats
  <2>3. VoterWeight[id] = voters[id].weight /\ id \in 0 .. Capacity - 1
    BY <2>1 DEF VoterWeight
  <2>4. voters[id].weight <= total_weighted
    BY <2>2, <2>3 DEF IInv, ElectorateInv
  <2>. QED BY <1>1, <1>2, <2>4
<1>6. TypeOK'
  BY <1>1, <1>2, <1>4, <1>5 DEF IInv, TypeOK
<1>7. ElectorateInv'
  <2>1. /\ SumTo(VoterWeight', Capacity)
             = SumTo(VoterWeight, Capacity) + voters'[id].weight - voters[id].weight
        /\ SumTo(VoterWeight, Capacity) \in Int
    BY <1>4, <1>6, WeightMoves DEF IInv
  <2>2. total_weighted' = SumTo(VoterWeight', Capacity)
    BY <1>1, <1>2, <1>3, <1>4, <2>1 DEF IInv, ElectorateInv
  <2>3. \A i \in VoterIds : Present(i)' <=> Present(i)
    BY <1>3, <1>4 DEF Present
  <2>4. \A i \in VoterIds : ~Present(i)' => voters'[i].weight = 0
    BY <1>1, <1>4, <2>3 DEF IInv, ElectorateInv
  <2>. QED BY <1>1, <2>2, <2>3, <2>4 DEF IInv, ElectorateInv
<1>8. ASSUME NEW p \in ProposalIds PROVE ProposalInv(p)'
  <2>1. position_count' >= position_count /\ now' >= now
    BY <1>1, <1>2
  <2>2. \A i \in VoterIds : i < position_count => voters'[i].weight <= voters[i].weight
    <3>1. \A i \in VoterIds : voters[i].weight \in Nat
      BY DEF IInv, TypeOK, Voter
    <3>. QED BY <1>1, <1>2, <1>3, <1>4, <3>1
  <2>3. \A i \in VoterIds :
            Present(i) /\ voters[i].weight > 0 /\ now < voters[i].lock_end
                => voters'[i] = voters[i]
    BY <1>1, <1>2, <1>4
  <2>. QED BY <1>6, <2>1, <2>2, <2>3, StakingKeepsProposals
<1>. QED BY <1>1, <1>6, <1>7, <1>8 DEF IInv, validate

LEMMA ClosePreserves ==
    ASSUME IInv, UNCHANGED realm_vars, NEW id \in VoterIds, Close(id)
    PROVE  IInv'
<1>1. /\ Present(id) /\ voters[id].weight = 0
      /\ voters' = [voters EXCEPT ![id] = NoVoter]
      /\ total_weighted' = total_weighted
      /\ position_count' = position_count
      /\ now' = now
      /\ realm' = realm /\ proposals' = proposals /\ vote_records' = vote_records
  BY DEF Close, realm_vars
<1>2. NoVoter \in Voter /\ NoVoter.weight = 0 /\ NoVoter.owner = NoOwner
  BY DEF NoVoter, Voter
<1>3. /\ voters'[id] = NoVoter /\ \A i \in VoterIds : i # id => voters'[i] = voters[i]
      /\ voters' \in [VoterIds -> Voter]
  BY <1>1, <1>2 DEF IInv, TypeOK
<1>4. TypeOK'
  BY <1>1, <1>3 DEF IInv, TypeOK
<1>5. ElectorateInv'
  <2>1. /\ SumTo(VoterWeight', Capacity)
             = SumTo(VoterWeight, Capacity) + voters'[id].weight - voters[id].weight
        /\ SumTo(VoterWeight, Capacity) \in Int
    BY <1>3, <1>4, WeightMoves DEF IInv
  <2>2. total_weighted' = SumTo(VoterWeight', Capacity)
    BY <1>1, <1>2, <1>3, <2>1 DEF IInv, ElectorateInv
  <2>3. ~Present(id)' /\ \A i \in VoterIds : i # id => (Present(i)' <=> Present(i))
    BY <1>2, <1>3 DEF Present
  <2>4. /\ \A i \in VoterIds : ~Present(i)' => voters'[i].weight = 0
        /\ \A i \in VoterIds : i >= position_count' => ~Present(i)'
    BY <1>1, <1>2, <1>3, <2>3 DEF IInv, ElectorateInv
  <2>. QED BY <1>1, <2>2, <2>4 DEF IInv, ElectorateInv
<1>6. ASSUME NEW p \in ProposalIds PROVE ProposalInv(p)'
  <2>1. position_count' >= position_count /\ now' >= now
    BY <1>1 DEF IInv, TypeOK
  <2>2. \A i \in VoterIds : i < position_count => voters'[i].weight <= voters[i].weight
    <3>1. \A i \in VoterIds : voters[i].weight \in Nat
      BY DEF IInv, TypeOK, Voter
    <3>. QED BY <1>1, <1>2, <1>3, <3>1
  <2>3. \A i \in VoterIds :
            Present(i) /\ voters[i].weight > 0 /\ now < voters[i].lock_end
                => voters'[i] = voters[i]
    BY <1>1, <1>3
  <2>. QED BY <1>4, <2>1, <2>2, <2>3, StakingKeepsProposals
<1>. QED BY <1>1, <1>4, <1>5, <1>6 DEF IInv, validate

LEMMA AdvancePreserves ==
    ASSUME IInv, UNCHANGED realm_vars, NEW step \in Steps, Advance(step)
    PROVE  IInv'
<1>1. /\ now' = now + step /\ voters' = voters
      /\ total_weighted' = total_weighted /\ position_count' = position_count
      /\ realm' = realm /\ proposals' = proposals /\ vote_records' = vote_records
  BY DEF Advance, realm_vars
<1>2. now \in Nat /\ step \in Nat /\ position_count \in Nat
  BY ElectorateAssumption DEF IInv, TypeOK
<1>3. TypeOK'
  BY <1>1, <1>2 DEF IInv, TypeOK
<1>4. ElectorateInv'
  BY <1>1 DEF IInv, ElectorateInv, VoterWeight, Present
<1>5. ASSUME NEW p \in ProposalIds PROVE ProposalInv(p)'
  <2>1. position_count' >= position_count /\ now' >= now
    BY <1>1, <1>2
  <2>2. \A i \in VoterIds : voters[i].weight \in Nat
    BY DEF IInv, TypeOK, Voter
  <2>. QED BY <1>1, <1>3, <2>1, <2>2, StakingKeepsProposals
<1>. QED BY <1>1, <1>3, <1>4, <1>5 DEF IInv, validate

-----------------------------------------------------------------------------
(* The invariant is inductive. *)

LEMMA InitHolds == Init => IInv
<1> SUFFICES ASSUME Init PROVE IInv
  OBVIOUS
<1>1. /\ voters = [id \in VoterIds |-> NoVoter] /\ total_weighted = 0
      /\ position_count = 0 /\ now = 0
      /\ proposals = [p \in ProposalIds |-> NoProposal]
      /\ vote_records = [p \in ProposalIds |-> [id \in VoterIds |-> NoVote]]
  BY DEF Init, ElectorateInit
<1>2. realm \in Realm /\ validate(realm)
  <2>1. PICK authority \in Owners \cup {Executor}, guardian \in Owners, params \in ParamChoices :
          validate(params) /\ realm = initial_realm(authority, guardian, params)
    BY DEF Init
  <2>2. params \in [quorum_bps : Nat, approval_bps : Nat, voting_period : Nat,
                    timelock_delay : Nat, min_weight_to_propose : Nat]
    BY GovernanceAssumption DEF RealmParams
  <2>3. realm \in Realm
    BY <2>1, <2>2 DEF initial_realm, Realm
  <2>. QED BY <2>1, <2>3 DEF initial_realm, validate
<1>3. /\ NoVoter \in Voter /\ NoVoter.weight = 0 /\ NoVoter.owner = NoOwner
      /\ NoVote \in VoteRecord /\ NoVote.choice = "None" /\ NoVote.weight = 0
  BY DEF NoVoter, Voter, NoVote, VoteRecord
<1>4. TypeOK
  BY <1>1, <1>2, <1>3, NoProposalType DEF TypeOK
<1>5. Capacity \in Nat /\ VoterIds = 0 .. Capacity - 1
  BY ElectorateAssumption DEF VoterIds
<1>6. ElectorateInv
  <2>1. VoterWeight \in [0 .. Capacity - 1 -> Int]
        /\ \A i \in 0 .. Capacity - 1 : VoterWeight[i] = 0
    BY <1>1, <1>3, <1>5 DEF VoterWeight
  <2>2. SumTo(VoterWeight, Capacity) = 0
    BY <1>5, <2>1, SumOfZeros
  <2>. QED BY <1>1, <1>3, <1>5, <2>2 DEF ElectorateInv, Present
<1>7. ASSUME NEW p \in ProposalIds PROVE ProposalInv(p)
  <2>1. /\ proposals[p].state = "None" /\ total_votes(proposals[p]) = 0
        /\ proposals[p].position_count_snapshot = 0
        /\ proposals[p].total_weight_snapshot = 0
    BY <1>1 DEF NoProposal, total_votes
  <2>2. \A id \in VoterIds : ~Voted(p, id) /\ vote_records[p][id].weight = 0
    BY <1>1, <1>3 DEF Voted
  <2>3. Tallied(p)
    <3>1. Cast(p) \in [0 .. Capacity - 1 -> Int]
          /\ \A i \in 0 .. Capacity - 1 : Cast(p)[i] = 0
      BY <1>5, <2>2 DEF Cast
    <3>2. SumTo(Cast(p), Capacity) = 0
      BY <1>5, <3>1, SumOfZeros
    <3>. QED BY <2>1, <3>2 DEF Tallied
  <2>4. Unborn(p) /\ Unvoted(p) /\ Records(p) /\ Backed(p) /\ Carried(p) /\ Served(p)
    BY <2>1, <2>2 DEF Unborn, Unvoted, Records, Backed, Carried, Served, Passed
  <2>5. Covered(p)
    BY <1>1, <2>1 DEF Covered
  <2>. QED BY <2>3, <2>4, <2>5 DEF ProposalInv
<1>. QED BY <1>2, <1>4, <1>6, <1>7 DEF IInv

LEMMA NextPreserves == IInv /\ [Next]_vars => IInv'
<1> SUFFICES ASSUME IInv, [Next]_vars PROVE IInv'
  OBVIOUS
<1>1. CASE UNCHANGED vars
  <2>1. /\ UNCHANGED electorate_vars /\ realm' = realm /\ proposals' = proposals
        /\ vote_records' = vote_records
    BY <1>1 DEF vars
  <2>2. TypeOK'
    BY <2>1 DEF IInv, TypeOK, electorate_vars
  <2>3. ElectorateInv'
    BY <2>1, ElectorateKept DEF IInv
  <2>4. ASSUME NEW p \in ProposalIds PROVE ProposalInv(p)'
    <3>1. Unborn(p)'
      BY <2>1 DEF IInv, ProposalInv, Unborn
    <3>. QED BY <2>1, <3>1, Untouched DEF IInv
  <2>. QED BY <2>1, <2>2, <2>3, <2>4 DEF IInv, validate
<1>2. CASE GovernanceNext
  BY <1>2, UpdateParamsPreserves, CreatePreserves, ActivatePreserves, CancelPreserves,
     CastPreserves, FinalizePreserves, QueuePreserves, ExecutePreserves
     DEF GovernanceNext
<1>3. CASE StakingNext
  BY <1>3, OpenPreserves, ShrinkPreserves, ClosePreserves, AdvancePreserves
     DEF StakingNext, ElectorateNext
<1>. QED BY <1>1, <1>2, <1>3 DEF Next

\* The inductive invariant holds always: typing, the electorate's books, the
\* realm's validated parameters and, per proposal, the potential argument.
THEOREM Invariance == Spec => []IInv
<1>. QED BY InitHolds, NextPreserves, PTL DEF Spec

\* Accounts keep their types: no instruction of either program writes a value
\* another one's checked arithmetic would refuse to read.
THEOREM TypeCorrect == Spec => []TypeOK
<1>1. IInv => TypeOK
  BY DEF IInv
<1>. QED BY <1>1, Invariance, PTL

\* However positions are opened, withdrawn and closed between activation and
\* the last vote, the tally never exceeds the snapshot quorum is measured over.
THEOREM TurnoutAlwaysWithinSnapshot == Spec => []TurnoutWithinSnapshot
<1>1. IInv => TurnoutWithinSnapshot
  BY DEF IInv, ProposalInv, Covered, TurnoutWithinSnapshot
<1>. QED BY <1>1, Invariance, PTL

\* While a vote is open, every vote in it is backed by a position that still
\* holds that weight: cast_vote's lock check is strong enough for it.
THEOREM VotesAlwaysBacked == Spec => []VotesStayBacked
<1>1. IInv => VotesStayBacked
  BY DEF IInv, ProposalInv, Backed, VotesStayBacked
<1>. QED BY <1>1, Invariance, PTL

\* No proposal is ever past its vote without more weight for than against,
\* whatever parameters it was finalized under.
THEOREM AlwaysCarriedByMajority == Spec => []CarriedByMajority
<1>1. IInv => CarriedByMajority
  BY DEF IInv, ProposalInv, Carried, CarriedByMajority, Passed
<1>. QED BY <1>1, Invariance, PTL

\* No proposal is ever executed sooner after its vote than the timelock's
\* floor, however the delay was changed meanwhile.
THEOREM TimelockAlwaysServed == Spec => []TimelockServed
<1>1. IInv => TimelockServed
  BY DEF IInv, ProposalInv, Served, TimelockServed
<1>. QED BY <1>1, Invariance, PTL

-----------------------------------------------------------------------------
(* What a step may never do. *)

\* A step that rewrites one proposal, along an edge of the lifecycle.
LEMMA OneEdge ==
    ASSUME IInv, NEW p \in ProposalIds, NEW q, NEW i \in ProposalIds,
           proposals' = [proposals EXCEPT ![p] = q],
           \/ q.state \in Lifecycle[proposals[p].state]
           \/ /\ proposals[p].state = "Voting" /\ q.state = "Voting"
              /\ now < proposals[p].voting_ends_at,
           proposals'[i] # proposals[i]
    PROVE  \/ proposals'[i].state \in Lifecycle[proposals[i].state]
           \/ /\ proposals[i].state = "Voting" /\ proposals'[i].state = "Voting"
              /\ now < proposals[i].voting_ends_at
<1>1. proposals'[p] = q /\ (i # p => proposals'[i] = proposals[i])
  BY DEF IInv, TypeOK
<1>. QED BY <1>1

LEMMA LifecycleStep ==
    ASSUME IInv, [Next]_vars, NEW i \in ProposalIds, proposals'[i] # proposals[i]
    PROVE  \/ proposals'[i].state \in Lifecycle[proposals[i].state]
           \/ /\ proposals[i].state = "Voting" /\ proposals'[i].state = "Voting"
              /\ now < proposals[i].voting_ends_at
<1> DEFINE Goal == \/ proposals'[i].state \in Lifecycle[proposals[i].state]
                   \/ /\ proposals[i].state = "Voting" /\ proposals'[i].state = "Voting"
                      /\ now < proposals[i].voting_ends_at
<1>1. \A p \in ProposalIds : proposals[p] \in Proposal
  BY DEF IInv, TypeOK
<1>2. CASE UNCHANGED vars \/ StakingNext
  BY <1>2 DEF vars, StakingNext, realm_vars
<1>3. ASSUME NEW signer \in Owners, NEW params \in ParamChoices,
             update_realm_params(signer, params)
      PROVE  Goal
  BY <1>3 DEF update_realm_params
<1>4. ASSUME NEW proposer \in Owners, NEW p \in ProposalIds, NEW position \in VoterIds,
             NEW action \in Actions, create_proposal(proposer, p, position, action)
      PROVE  Goal
  <2> DEFINE q == [NoProposal EXCEPT !.state = "Draft", !.action = action]
  <2>1. proposals' = [proposals EXCEPT ![p] = q] /\ q.state = "Draft"
    BY <1>4 DEF create_proposal, NoProposal
  <2>2. proposals[p].state = "None"
    BY <1>4 DEF create_proposal, IInv, TypeOK, Realm, ProposalInv, Unborn
  <2>3. q.state \in Lifecycle[proposals[p].state]
    BY <2>1, <2>2 DEF Lifecycle
  <2> HIDE DEF q
  <2>. QED BY <2>1, <2>3, OneEdge
<1>5. ASSUME NEW p \in ProposalIds, activate_proposal(p)
      PROVE  Goal
  <2> DEFINE q == [proposals[p] EXCEPT
                     !.state                   = "Voting",
                     !.voting_starts_at        = now,
                     !.voting_ends_at          = now + realm.voting_period,
                     !.total_weight_snapshot   = total_weighted,
                     !.position_count_snapshot = position_count]
  <2>1. /\ proposals[p].state = "Draft"
        /\ proposals' = [proposals EXCEPT ![p] = q] /\ q.state = "Voting"
    BY <1>1, <1>5 DEF activate_proposal, Proposal
  <2>2. q.state \in Lifecycle[proposals[p].state]
    BY <2>1 DEF Lifecycle
  <2> HIDE DEF q
  <2>. QED BY <2>1, <2>2, OneEdge
<1>6. ASSUME NEW signer \in Owners, NEW p \in ProposalIds, cancel_proposal(signer, p)
      PROVE  Goal
  <2> DEFINE q == [proposals[p] EXCEPT !.state = "Cancelled"]
  <2>1. /\ proposals[p].state \in {"Draft", "Voting", "Succeeded", "Queued"}
        /\ proposals' = [proposals EXCEPT ![p] = q] /\ q.state = "Cancelled"
    BY <1>1, <1>6 DEF cancel_proposal, is_cancellable, Proposal
  <2>2. q.state \in Lifecycle[proposals[p].state]
    BY <2>1 DEF Lifecycle
  <2> HIDE DEF q
  <2>. QED BY <2>1, <2>2, OneEdge
<1>7. ASSUME NEW voter \in Owners, NEW p \in ProposalIds, NEW position \in VoterIds,
             NEW choice \in VoteChoice, cast_vote(voter, p, position, choice)
      PROVE  Goal
  <2> DEFINE q == tally(proposals[p], choice, voters[position].weight)
  <2>1. /\ proposals[p].state = "Voting" /\ now < proposals[p].voting_ends_at
        /\ proposals' = [proposals EXCEPT ![p] = q]
    BY <1>7 DEF cast_vote
  <2>2. q.state = "Voting"
    <3>1. voters[position].weight \in Nat
      BY DEF IInv, TypeOK, Voter
    <3>. QED BY <1>1, <2>1, <3>1, TallyFields
  <2> HIDE DEF q
  <2>. QED BY <2>1, <2>2, OneEdge
<1>8. ASSUME NEW p \in ProposalIds, finalize_proposal(p)
      PROVE  Goal
  <2> DEFINE r == outcome(proposals[p], realm.quorum_bps, realm.approval_bps)
             q == [proposals[p] EXCEPT !.state = r]
  <2>1. r \in {"Succeeded", "Defeated"}
    BY DEF outcome
  <2>2. /\ proposals[p].state = "Voting"
        /\ proposals' = [proposals EXCEPT ![p] = q]
    BY <1>8 DEF finalize_proposal
  <2> HIDE DEF r
  <2>3. q.state = r
    BY <1>1 DEF Proposal
  <2>4. q.state \in Lifecycle[proposals[p].state]
    BY <2>1, <2>2, <2>3 DEF Lifecycle
  <2> HIDE DEF q
  <2>. QED BY <2>2, <2>4, OneEdge
<1>9. ASSUME NEW p \in ProposalIds, queue_proposal(p)
      PROVE  Goal
  <2> DEFINE q == [proposals[p] EXCEPT !.state = "Queued", !.eta = now + realm.timelock_delay]
  <2>1. /\ proposals[p].state = "Succeeded"
        /\ proposals' = [proposals EXCEPT ![p] = q] /\ q.state = "Queued"
    BY <1>1, <1>9 DEF queue_proposal, Proposal
  <2>2. q.state \in Lifecycle[proposals[p].state]
    BY <2>1 DEF Lifecycle
  <2> HIDE DEF q
  <2>. QED BY <2>1, <2>2, OneEdge
<1>10. ASSUME NEW p \in ProposalIds, authorize_execution(p)
       PROVE  Goal
  <2> DEFINE q == [proposals[p] EXCEPT !.state = "Executed"]
  <2>1. /\ proposals[p].state = "Queued"
        /\ proposals' = [proposals EXCEPT ![p] = q] /\ q.state = "Executed"
    BY <1>1, <1>10 DEF authorize_execution, Proposal
  <2>2. q.state \in Lifecycle[proposals[p].state]
    BY <2>1 DEF Lifecycle
  <2> HIDE DEF q
  <2>. QED BY <2>1, <2>2, OneEdge
<1>11. CASE GovernanceNext
  <2> HIDE DEF Goal
  <2>1. \A p \in ProposalIds :
            execute_signal(p) \/ execute_update_realm_params(p)
              \/ execute_set_realm_authority(p) \/ execute_external(p)
                => authorize_execution(p)
    BY DEF execute_signal, execute_update_realm_params, execute_set_realm_authority,
           execute_external
  <2>2. Goal
    BY <1>3, <1>4, <1>5, <1>6, <1>7, <1>8, <1>9, <1>10, <1>11, <2>1 DEF GovernanceNext
  <2>. QED BY <2>2 DEF Goal
<1>. QED BY <1>2, <1>11 DEF Next

\* A proposal only ever moves one edge along its lifecycle, or gains votes while
\* its vote is open; executed, defeated and cancelled are final.
THEOREM LifecycleAlwaysRespected == Spec => LifecycleRespected
<1>1. ASSUME IInv, [Next]_vars
      PROVE  [\A p \in ProposalIds :
                proposals'[p] # proposals[p]
                  => \/ proposals'[p].state \in Lifecycle[proposals[p].state]
                     \/ /\ proposals[p].state = "Voting" /\ proposals'[p].state = "Voting"
                        /\ now < proposals[p].voting_ends_at]_vars
  BY <1>1, LifecycleStep
<1>. QED BY <1>1, Invariance, PTL DEF Spec, LifecycleRespected

\* A realm that kept its five parameters is its own update by the old ones.
LEMMA SameParams ==
    ASSUME NEW r \in Realm, NEW s \in Realm,
           s.quorum_bps = r.quorum_bps, s.approval_bps = r.approval_bps,
           s.voting_period = r.voting_period, s.timelock_delay = r.timelock_delay,
           s.min_weight_to_propose = r.min_weight_to_propose
    PROVE  with_params(s, r) = s
  BY DEF with_params, Realm

LEMMA SelfGoverningStep ==
    ASSUME IInv, [Next]_vars, realm.authority = Executor,
           with_params(realm', realm) # realm'
    PROVE  \E p \in ProposalIds :
              /\ proposals[p].state = "Queued" /\ proposals'[p].state = "Executed"
              /\ proposals[p].action.kind = "UpdateRealmParams"
              /\ realm' = with_params(realm, proposals[p].action.params)
              /\ validate(proposals[p].action.params)
              /\ now >= proposals[p].voting_ends_at + MIN_TIMELOCK_DELAY
<1>1. realm \in Realm /\ realm' \in Realm
  <2>1. IInv'
    BY NextPreserves
  <2>. QED BY <2>1 DEF IInv, TypeOK
<1>2. realm' # realm
  BY <1>1, SameParams
<1>3. ~ UNCHANGED vars /\ ~ StakingNext
  BY <1>2 DEF vars, StakingNext, realm_vars
<1>4. ASSUME NEW signer \in Owners, NEW params \in ParamChoices,
             update_realm_params(signer, params)
      PROVE  FALSE
  BY <1>4, GovernanceAssumption DEF update_realm_params
<1>5. ASSUME NEW proposer \in Owners, NEW p \in ProposalIds, NEW position \in VoterIds,
             NEW action \in Actions, create_proposal(proposer, p, position, action)
      PROVE  FALSE
  <2>1. realm' = [realm EXCEPT !.proposal_count = @ + 1]
    BY <1>5 DEF create_proposal
  <2>2. /\ realm'.quorum_bps = realm.quorum_bps
        /\ realm'.approval_bps = realm.approval_bps
        /\ realm'.voting_period = realm.voting_period
        /\ realm'.timelock_delay = realm.timelock_delay
        /\ realm'.min_weight_to_propose = realm.min_weight_to_propose
    BY <1>1, <2>1 DEF Realm
  <2>. QED BY <1>1, <2>2, SameParams
<1>6. ASSUME NEW p \in ProposalIds, execute_set_realm_authority(p)
      PROVE  FALSE
  <2>1. realm' = [realm EXCEPT !.authority = proposals[p].action.new_authority]
    BY <1>6 DEF execute_set_realm_authority
  <2>2. /\ realm'.quorum_bps = realm.quorum_bps
        /\ realm'.approval_bps = realm.approval_bps
        /\ realm'.voting_period = realm.voting_period
        /\ realm'.timelock_delay = realm.timelock_delay
        /\ realm'.min_weight_to_propose = realm.min_weight_to_propose
    BY <1>1, <2>1 DEF Realm
  <2>. QED BY <1>1, <2>2, SameParams
<1>7. PICK p \in ProposalIds : execute_update_realm_params(p)
  <2>1. \A p \in ProposalIds :
          /\ ~ activate_proposal(p) /\ ~ finalize_proposal(p) /\ ~ queue_proposal(p)
          /\ ~ execute_signal(p) /\ ~ execute_external(p)
    BY <1>2 DEF activate_proposal, finalize_proposal, queue_proposal, execute_signal,
                execute_external
  <2>2. \A signer \in Owners, p \in ProposalIds : ~ cancel_proposal(signer, p)
    BY <1>2 DEF cancel_proposal
  <2>3. \A voter \in Owners, p \in ProposalIds, position \in VoterIds, choice \in VoteChoice :
          ~ cast_vote(voter, p, position, choice)
    BY <1>2 DEF cast_vote
  <2>. QED BY <1>3, <1>4, <1>5, <1>6, <2>1, <2>2, <2>3 DEF Next, GovernanceNext
<1>8. /\ proposals[p].action.kind = "UpdateRealmParams"
      /\ validate(proposals[p].action.params)
      /\ realm' = with_params(realm, proposals[p].action.params)
      /\ proposals[p].state = "Queued" /\ now >= proposals[p].eta
      /\ proposals' = [proposals EXCEPT ![p].state = "Executed"]
  BY <1>7 DEF execute_update_realm_params, authorize_execution
<1>9. proposals'[p].state = "Executed"
  <2>1. proposals[p] \in Proposal /\ proposals \in [ProposalIds -> Proposal]
    BY DEF IInv, TypeOK
  <2>2. proposals'[p] = [proposals[p] EXCEPT !.state = "Executed"]
    BY <1>8, <2>1
  <2>. QED BY <2>1, <2>2 DEF Proposal
<1>10. now >= proposals[p].voting_ends_at + MIN_TIMELOCK_DELAY
  <2>1. proposals[p].eta >= proposals[p].voting_ends_at + MIN_TIMELOCK_DELAY
    BY <1>8 DEF IInv, ProposalInv, Served
  <2>2. /\ proposals[p].eta \in Nat /\ proposals[p].voting_ends_at \in Nat
        /\ now \in Nat /\ MIN_TIMELOCK_DELAY \in Nat
    BY ProposalFields, GovernanceAssumption DEF IInv, TypeOK
  <2>. QED BY <1>8, <2>1, <2>2
<1>. QED BY <1>8, <1>9, <1>10

\* Once the executor owns the realm, its parameters change only by executing a
\* proposal that carried that change, after its vote and its timelock.
THEOREM AlwaysSelfGoverning == Spec => SelfGoverning
<1>1. ASSUME IInv, [Next]_vars
      PROVE  [realm.authority = Executor /\ with_params(realm', realm) # realm'
                => \E p \in ProposalIds :
                     /\ proposals[p].state = "Queued" /\ proposals'[p].state = "Executed"
                     /\ proposals[p].action.kind = "UpdateRealmParams"
                     /\ realm' = with_params(realm, proposals[p].action.params)
                     /\ validate(proposals[p].action.params)
                     /\ now >= proposals[p].voting_ends_at + MIN_TIMELOCK_DELAY]_vars
  BY <1>1, SelfGoverningStep
<1>. QED BY <1>1, Invariance, PTL DEF Spec, SelfGoverning

-----------------------------------------------------------------------------
(* The abstract specification. *)

\* Rewriting one proposal rewrites one mandate.
LEMMA CommittedMoves ==
    ASSUME IInv, NEW p \in ProposalIds, NEW q, proposals' = [proposals EXCEPT ![p] = q]
    PROVE  /\ Standing[p] = Committed(proposals[p])
           /\ Standing' = [Standing EXCEPT ![p] = Committed(q)]
<1>1. proposals \in [ProposalIds -> Proposal]
  BY DEF IInv, TypeOK
<1>2. \A i \in ProposalIds : proposals'[i] = IF i = p THEN q ELSE proposals[i]
  BY <1>1
<1>3. Standing' = [i \in ProposalIds |-> Committed(proposals'[i])]
  BY DEF Standing
<1>4. \A i \in ProposalIds : Standing[i] = Committed(proposals[i])
  BY DEF Standing
<1>5. [Standing EXCEPT ![p] = Committed(q)]
        = [i \in ProposalIds |-> IF i = p THEN Committed(q) ELSE Committed(proposals[i])]
  BY DEF Standing
<1>. QED BY <1>2, <1>3, <1>4, <1>5

\* A step between two states of a proposal that commit governance to the same.
LEMMA StandingKept ==
    ASSUME IInv, NEW p \in ProposalIds, NEW q, proposals' = [proposals EXCEPT ![p] = q],
           Committed(q) = Committed(proposals[p])
    PROVE  Standing' = Standing
<1>1. /\ Standing[p] = Committed(proposals[p])
      /\ Standing' = [Standing EXCEPT ![p] = Committed(q)]
  BY CommittedMoves
<1>. QED BY <1>1 DEF Standing

MandateStep == [Mandates!MandateNext]_(Mandates!mandate_vars)

\* A proposal that will authorise nothing any more.
LEMMA VoidStep ==
    ASSUME IInv, NEW p \in ProposalIds, NEW q, proposals' = [proposals EXCEPT ![p] = q],
           proposals[p].state \in {"Draft", "Voting", "Succeeded", "Queued"},
           q.state \in {"Defeated", "Cancelled"}, UNCHANGED now
    PROVE  MandateStep
<1>1. /\ Standing[p] = Committed(proposals[p])
      /\ Standing' = [Standing EXCEPT ![p] = Committed(q)]
  BY CommittedMoves
<1>2. Committed(q) = Mandates!Idle("Void")
  BY DEF Committed, Mandates!Idle
<1>3. Standing[p].status \in {"None", "Queued"}
  BY <1>1 DEF Committed
<1>4. Mandates!Void(p)
  BY <1>1, <1>2, <1>3 DEF Mandates!Void
<1>. QED BY <1>4 DEF MandateStep, Mandates!MandateNext

LEMMA MandateStepHolds ==
    ASSUME IInv, [Next]_vars
    PROVE  MandateStep
<1>1. \A p \in ProposalIds : proposals[p] \in Proposal
  BY DEF IInv, TypeOK
<1>2. CASE proposals' = proposals /\ now' = now
  <2>1. Standing' = Standing
    BY <1>2 DEF Standing
  <2>. QED BY <1>2, <2>1 DEF MandateStep, Mandates!mandate_vars
<1>3. CASE UNCHANGED vars
  BY <1>2, <1>3 DEF vars, electorate_vars
<1>4. CASE StakingNext
  <2>1. proposals' = proposals /\ Standing' = Standing
    BY <1>4 DEF StakingNext, realm_vars, Standing
  <2>2. CASE now' = now
    BY <1>2, <2>1, <2>2
  <2>3. ASSUME NEW step \in Steps, Advance(step)
        PROVE  MandateStep
    <3>1. now' > now
      BY <2>3, ElectorateAssumption DEF Advance, IInv, TypeOK
    <3>. QED BY <2>1, <3>1 DEF MandateStep, Mandates!MandateNext
  <2>. QED BY <1>4, <2>2, <2>3
           DEF StakingNext, ElectorateNext, Open, Shrink, Close
<1>5. ASSUME NEW signer \in Owners, NEW params \in ParamChoices,
             update_realm_params(signer, params)
      PROVE  MandateStep
  BY <1>2, <1>5 DEF update_realm_params, electorate_vars
<1>6. ASSUME NEW proposer \in Owners, NEW p \in ProposalIds, NEW position \in VoterIds,
             NEW action \in Actions, create_proposal(proposer, p, position, action)
      PROVE  MandateStep
  <2> DEFINE q == [NoProposal EXCEPT !.state = "Draft", !.action = action]
  <2>1. /\ proposals' = [proposals EXCEPT ![p] = q] /\ q.state = "Draft" /\ now' = now
    BY <1>6 DEF create_proposal, NoProposal, electorate_vars
  <2>2. proposals[p].state = "None"
    BY <1>6 DEF create_proposal, IInv, TypeOK, Realm, ProposalInv, Unborn
  <2> HIDE DEF q
  <2>3. Standing' = Standing
    BY <2>1, <2>2, StandingKept DEF Committed
  <2>. QED BY <2>1, <2>3 DEF MandateStep, Mandates!mandate_vars
<1>7. ASSUME NEW p \in ProposalIds, activate_proposal(p)
      PROVE  MandateStep
  <2> DEFINE q == [proposals[p] EXCEPT
                     !.state                   = "Voting",
                     !.voting_starts_at        = now,
                     !.voting_ends_at          = now + realm.voting_period,
                     !.total_weight_snapshot   = total_weighted,
                     !.position_count_snapshot = position_count]
  <2>1. /\ proposals[p].state = "Draft" /\ now' = now
        /\ proposals' = [proposals EXCEPT ![p] = q] /\ q.state = "Voting"
    BY <1>1, <1>7 DEF activate_proposal, Proposal, electorate_vars
  <2> HIDE DEF q
  <2>2. Standing' = Standing
    BY <2>1, StandingKept DEF Committed
  <2>. QED BY <2>1, <2>2 DEF MandateStep, Mandates!mandate_vars
<1>8. ASSUME NEW signer \in Owners, NEW p \in ProposalIds, cancel_proposal(signer, p)
      PROVE  MandateStep
  <2> DEFINE q == [proposals[p] EXCEPT !.state = "Cancelled"]
  <2>1. /\ proposals[p].state \in {"Draft", "Voting", "Succeeded", "Queued"}
        /\ proposals' = [proposals EXCEPT ![p] = q] /\ q.state = "Cancelled"
        /\ UNCHANGED now
    BY <1>1, <1>8 DEF cancel_proposal, is_cancellable, Proposal, electorate_vars
  <2> HIDE DEF q
  <2>. QED BY <2>1, VoidStep
<1>9. ASSUME NEW voter \in Owners, NEW p \in ProposalIds, NEW position \in VoterIds,
             NEW choice \in VoteChoice, cast_vote(voter, p, position, choice)
      PROVE  MandateStep
  <2> DEFINE q == tally(proposals[p], choice, voters[position].weight)
  <2>1. /\ proposals[p].state = "Voting" /\ now' = now
        /\ proposals' = [proposals EXCEPT ![p] = q]
    BY <1>9 DEF cast_vote, electorate_vars
  <2>2. q.state = "Voting"
    <3>1. voters[position].weight \in Nat
      BY DEF IInv, TypeOK, Voter
    <3>. QED BY <1>1, <2>1, <3>1, TallyFields
  <2> HIDE DEF q
  <2>3. Standing' = Standing
    BY <2>1, <2>2, StandingKept DEF Committed
  <2>. QED BY <2>1, <2>3 DEF MandateStep, Mandates!mandate_vars
<1>10. ASSUME NEW p \in ProposalIds, finalize_proposal(p)
       PROVE  MandateStep
  <2> DEFINE r == outcome(proposals[p], realm.quorum_bps, realm.approval_bps)
             q == [proposals[p] EXCEPT !.state = r]
  <2>1. r \in {"Succeeded", "Defeated"}
    BY DEF outcome
  <2>2. /\ proposals[p].state = "Voting" /\ UNCHANGED now
        /\ proposals' = [proposals EXCEPT ![p] = q]
    BY <1>10 DEF finalize_proposal, electorate_vars
  <2> HIDE DEF r
  <2>3. q.state = r
    BY <1>1 DEF Proposal
  <2> HIDE DEF q
  <2>4. CASE r = "Defeated"
    BY <2>2, <2>3, <2>4, VoidStep
  <2>5. CASE r = "Succeeded"
    <3>1. Standing' = Standing
      BY <2>2, <2>3, <2>5, StandingKept DEF Committed
    <3>. QED BY <2>2, <3>1 DEF MandateStep, Mandates!mandate_vars
  <2>. QED BY <2>1, <2>4, <2>5
<1>11. ASSUME NEW p \in ProposalIds, queue_proposal(p)
       PROVE  MandateStep
  <2> DEFINE delay == realm.timelock_delay
             q == [proposals[p] EXCEPT !.state = "Queued", !.eta = now + delay]
  <2>1. /\ proposals[p].state = "Succeeded" /\ UNCHANGED now
        /\ proposals' = [proposals EXCEPT ![p] = q]
    BY <1>11 DEF queue_proposal, electorate_vars
  <2>2. /\ q.state = "Queued" /\ q.action = proposals[p].action /\ q.eta = now + delay
        /\ proposals[p].action \in ProposalAction
    BY <1>1 DEF Proposal
  <2>3. delay \in MIN_TIMELOCK_DELAY .. MAX_TIMELOCK_DELAY
    BY DEF IInv, validate
  <2> HIDE DEF q, delay
  <2>4. /\ Standing[p] = Committed(proposals[p])
        /\ Standing' = [Standing EXCEPT ![p] = Committed(q)]
    BY <2>1, CommittedMoves
  <2>5. Mandates!Grant(p, proposals[p].action, delay)
    BY <2>1, <2>2, <2>4 DEF Mandates!Grant, Committed
  <2>. QED BY <2>1, <2>2, <2>3, <2>5 DEF MandateStep, Mandates!MandateNext
<1>12. ASSUME NEW p \in ProposalIds, authorize_execution(p), UNCHANGED now
       PROVE  MandateStep
  <2> DEFINE q == [proposals[p] EXCEPT !.state = "Executed"]
  <2>1. /\ proposals[p].state = "Queued"
        /\ now >= proposals[p].eta /\ now <= proposals[p].eta + EXECUTION_GRACE_PERIOD
        /\ proposals' = [proposals EXCEPT ![p] = q]
    BY <1>12 DEF authorize_execution, expires_at
  <2>2. /\ q.state = "Executed" /\ q.action = proposals[p].action /\ q.eta = proposals[p].eta
        /\ proposals[p].eta \in Nat /\ now \in Nat /\ EXECUTION_GRACE_PERIOD \in Nat
    BY <1>1, GovernanceAssumption DEF Proposal, IInv, TypeOK
  <2> HIDE DEF q
  <2>3. /\ Standing[p] = Committed(proposals[p])
        /\ Standing' = [Standing EXCEPT ![p] = Committed(q)]
    BY <2>1, CommittedMoves
  <2>4. /\ Standing[p].status = "Queued" /\ Standing[p].eta = proposals[p].eta
        /\ Committed(q) = [Standing[p] EXCEPT !.status = "Executed"]
    BY <2>1, <2>2, <2>3 DEF Committed
  <2>5. Mandates!Execute(p)
    BY <2>1, <2>2, <2>3, <2>4 DEF Mandates!Execute, Mandates!Open
  <2>. QED BY <1>12, <2>5 DEF MandateStep, Mandates!MandateNext
<1>13. CASE GovernanceNext
  <2>1. \A p \in ProposalIds :
            execute_signal(p) \/ execute_update_realm_params(p)
              \/ execute_set_realm_authority(p) \/ execute_external(p)
                => authorize_execution(p) /\ UNCHANGED now
    BY DEF execute_signal, execute_update_realm_params, execute_set_realm_authority,
           execute_external, electorate_vars
  <2>. QED BY <1>5, <1>6, <1>7, <1>8, <1>9, <1>10, <1>11, <1>12, <1>13, <2>1
           DEF GovernanceNext
<1>. QED BY <1>3, <1>4, <1>13 DEF Next

LEMMA MandateInitHolds == Init => Mandates!MandateInit
<1> SUFFICES ASSUME Init PROVE Mandates!MandateInit
  OBVIOUS
<1>1. now \in Nat
  BY DEF Init, ElectorateInit
<1>2. \A p \in ProposalIds : proposals[p].state = "None"
  BY DEF Init, NoProposal
<1>3. Standing = [p \in ProposalIds |-> Mandates!Idle("None")]
  BY <1>2 DEF Standing, Committed, Mandates!Idle
<1>. QED BY <1>1, <1>3 DEF Mandates!MandateInit

\* Whatever is voted, vetoed or amended around it, what governance carries out is
\* an act that was granted, once, unaltered, within its timelock and grace period.
THEOREM GovernanceImplementsMandate == Spec => ImplementsMandate
<1>1. ASSUME IInv, [Next]_vars
      PROVE  [Mandates!MandateNext]_(Mandates!mandate_vars)
  BY <1>1, MandateStepHolds DEF MandateStep
<1>. QED BY <1>1, MandateInitHolds, Invariance, PTL DEF Spec, ImplementsMandate, Mandates!MandateSpec
=============================================================================
