----------------------------- MODULE HelixProofs -----------------------------
(***************************************************************************)
(* Proofs about Helix: who can come to hold a power of governance's, for   *)
(* any keys, any proposals and any order of bootstrap, audit and use.      *)
(*                                                                         *)
(* Moves says what one step can do to the authorities and the mandates;    *)
(* every action is shown to be such a move, and every move to keep KInv.   *)
(***************************************************************************)
EXTENDS Helix, FiniteSumLemmas, FiniteSetTheorems, TLAPS

-----------------------------------------------------------------------------
(* The inductive invariant. *)

\* The fields of the accounts that the proofs speak of.
PoolFields == {"authority", "pending_authority"} \subseteq DOMAIN pool
TreasuryFields == "governance_executor" \in DOMAIN treasury
TokenFields == {"admin", "pending_admin"} \subseteq DOMAIN config
Fields == PoolFields /\ TreasuryFields /\ TokenFields /\ opening.clean \in BOOLEAN

\* The executor never has a successor in the pool: no execute_* names one.
PoolKept == pool.authority = Executor => pool.pending_authority = Nobody

\* Nothing is queued before the audit was clean, and what is queued is an act.
Granted ==
    \A p \in ProposalIds :
        mandates[p].status \in {"Queued", "Executed"} => opening.clean /\ Act(p) \in Acts

\* An authority read as planned stays so until the audit: no key can take it,
\* and no proposal is there to hand it on.
ReadStays ==
    ~opening.clean =>
        /\ observed["pool_authority"] = Executor => pool.authority = Executor
        /\ observed["realm_authority"] = Executor => realm.authority = Executor
        /\ observed["treasury_spender"] = Executor => treasury.governance_executor = Executor
        /\ observed["guardian"] = Guardian => realm.guardian = Guardian

\* Only what was executed was executed elsewhere.
SpentElsewhere == elsewhere \subseteq {p \in ProposalIds : mandates[p].status = "Executed"}

RealmKept == realm.authority = Nobody => realm.guardian = Nobody

\* While governance is the admin, it named the successor there is.
SuccessorNamed ==
    config.admin = Executor /\ config.pending_admin \in Keys
        => Released("ProposeTokenAdmin", "new_admin")

Opened ==
    opening.clean => realm.authority # Nobody /\ treasury.governance_executor # Nobody

KInv ==
    /\ TypeOK /\ Fields
    /\ PoolKept /\ Granted /\ SpentElsewhere /\ ReadStays /\ RealmKept /\ SuccessorNamed /\ Opened
    /\ KeysOnlyByMandate

-----------------------------------------------------------------------------
(* What one step can do. *)

Executing(p, kind) ==
    /\ mandates[p].status = "Queued" /\ Act(p).kind = kind
    /\ mandates' = [mandates EXCEPT ![p].status = "Executed"]
    /\ elsewhere' = elsewhere

MandateMoves ==
    \/ mandates' = mandates /\ elsewhere' = elsewhere
    \/ /\ opening.clean /\ elsewhere' = elsewhere
       /\ \E p \in ProposalIds, act \in Acts, eta \in Nat :
            /\ mandates[p].status = "None"
            /\ mandates' = [mandates EXCEPT ![p] = [status |-> "Queued", act |-> act, eta |-> eta]]
    \/ \E p \in ProposalIds :
         /\ mandates[p].status = "Queued" /\ elsewhere' = elsewhere
         /\ mandates' = [mandates EXCEPT ![p] = [status |-> "Void", act |-> NoAct, eta |-> 0]]
    \/ \E p \in ProposalIds :
         /\ mandates[p].status = "Queued" /\ elsewhere' \in {elsewhere, elsewhere \cup {p}}
         /\ mandates' = [mandates EXCEPT ![p].status = "Executed"]

PoolMoves ==
    \/ pool'.authority = pool.authority /\ pool'.pending_authority = pool.pending_authority
    \/ pool.authority = Nobody /\ pool'.authority \in Parties /\ pool'.pending_authority = Nobody
    \/ /\ pool.authority \in Keys /\ pool'.authority = pool.authority
       /\ pool'.pending_authority \in Parties
    \/ /\ pool.pending_authority \in Keys /\ pool'.authority = pool.pending_authority
       /\ pool'.pending_authority = Nobody

RealmMoves ==
    \/ realm' = realm
    \/ /\ realm.authority = Nobody
       /\ \E authority, guardian \in Parties : realm' = initial_realm(authority, guardian)
    \/ \E p \in ProposalIds :
         /\ Executing(p, "SetRealmAuthority")
         /\ realm' = [realm EXCEPT !.authority = Act(p).new_authority]

TreasuryMoves ==
    \/ treasury'.governance_executor = treasury.governance_executor
    \/ /\ treasury.governance_executor \in Keys \cup {Nobody}
       /\ treasury'.governance_executor \in Parties
    \/ \E p \in ProposalIds :
         /\ Executing(p, "SetGovernanceExecutor")
         /\ treasury'.governance_executor = Act(p).new_executor

\* Unless this is the execution of an acceptance on this mint's config.
NoAcceptance ==
    Executed("AcceptTokenManagerAdmin")' \subseteq Executed("AcceptTokenManagerAdmin")

TokenMoves ==
    \/ config'.admin = Executor /\ config'.pending_admin = Nobody
    \/ NoAcceptance /\ config'.admin = config.admin /\ config'.pending_admin = config.pending_admin
    \/ /\ config.admin = Executor /\ config'.admin = Executor
       /\ \E p \in ProposalIds :
            Executing(p, "ProposeTokenAdmin") /\ config'.pending_admin = Act(p).new_admin
    \/ /\ NoAcceptance /\ config.admin \in Keys /\ config'.admin = config.admin
       /\ config'.pending_admin \in Authority
    \/ /\ NoAcceptance /\ config.pending_admin \in Keys
       /\ config'.admin = config.pending_admin /\ config'.pending_admin = Nobody

AuditMoves ==
    \/ UNCHANGED <<observed, opening>>
    \/ \E what \in DOMAIN privileged_parties : observe(what)
    \/ verify

Moves ==
    /\ MandateMoves /\ PoolMoves /\ RealmMoves /\ TreasuryMoves /\ TokenMoves /\ AuditMoves
    /\ now' \in 0 .. Horizon /\ Fields'

-----------------------------------------------------------------------------
(* Every action is such a move. *)

Standing == TypeOK /\ Fields /\ Granted /\ SpentElsewhere

\* What the executor does with the accounts of this system.
ExecutedHere(p) ==
    \/ execute_signal(p) /\ UNCHANGED now
    \/ execute_treasury_transfer(p)
    \/ \E stream_id \in Treasuries!StreamIds : execute_create_vesting_stream(p, TRUE, stream_id)
    \/ execute_revoke_vesting_stream(p, TRUE)
    \/ execute_set_treasury_spend_cap(p, TRUE)
    \/ execute_set_governance_executor(p, TRUE)
    \/ execute_set_staking_reward_rate(p)
    \/ execute_accept_token_manager_admin(p, TRUE)
    \/ execute_set_token_paused(p, TRUE)
    \/ execute_propose_token_admin(p, TRUE)
    \/ execute_register_minter(p, TRUE)
    \/ \E a \in Tokens!Authorities :
         execute_update_minter(p, TRUE, a) \/ execute_revoke_minter(p, TRUE, a)
    \/ execute_set_realm_authority(p)

\* And with others: the proposal is spent and nothing else has changed.
ExecutedElsewhere(p) ==
    /\ Execute(p)
    /\ elsewhere' = elsewhere \cup {p}
    /\ UNCHANGED <<programs, now>>

LEMMA HereOrElsewhere ==
    ASSUME ExecuteNext
    PROVE  \E p \in ProposalIds : ExecutedHere(p) \/ ExecutedElsewhere(p)
<1>1. PICK p \in ProposalIds, here \in BOOLEAN :
         \/ execute_signal(p) /\ UNCHANGED now
         \/ execute_treasury_transfer(p)
         \/ \E stream_id \in Treasuries!StreamIds :
              execute_create_vesting_stream(p, here, stream_id)
         \/ execute_revoke_vesting_stream(p, here)
         \/ execute_set_treasury_spend_cap(p, here)
         \/ execute_set_governance_executor(p, here)
         \/ execute_set_staking_reward_rate(p)
         \/ execute_accept_token_manager_admin(p, here)
         \/ execute_set_token_paused(p, here)
         \/ execute_propose_token_admin(p, here)
         \/ execute_register_minter(p, here)
         \/ \E a \in Tokens!Authorities :
              execute_update_minter(p, here, a) \/ execute_revoke_minter(p, here, a)
         \/ execute_set_realm_authority(p)
  BY DEF ExecuteNext
<1>2. CASE here = TRUE
  BY <1>1, <1>2 DEF ExecutedHere
<1>3. CASE here = FALSE
  <2>1. CASE \/ execute_signal(p) /\ UNCHANGED now
             \/ execute_treasury_transfer(p)
             \/ execute_set_staking_reward_rate(p)
             \/ execute_set_realm_authority(p)
    BY <2>1 DEF ExecutedHere
  <2>2. CASE \/ \E stream_id \in Treasuries!StreamIds :
                  execute_create_vesting_stream(p, here, stream_id)
             \/ execute_revoke_vesting_stream(p, here)
             \/ execute_set_treasury_spend_cap(p, here)
             \/ execute_set_governance_executor(p, here)
             \/ execute_accept_token_manager_admin(p, here)
             \/ execute_set_token_paused(p, here)
             \/ execute_propose_token_admin(p, here)
             \/ execute_register_minter(p, here)
             \/ \E a \in Tokens!Authorities :
                  execute_update_minter(p, here, a) \/ execute_revoke_minter(p, here, a)
    BY <1>3, <2>2
       DEF execute_create_vesting_stream, execute_revoke_vesting_stream,
           execute_set_treasury_spend_cap, execute_set_governance_executor,
           execute_accept_token_manager_admin, execute_set_token_paused,
           execute_propose_token_admin, execute_register_minter, execute_update_minter,
           execute_revoke_minter, ExecuteOn, OnAnotherMint, ExecutedElsewhere, programs
  <2> QED BY <1>1, <2>1, <2>2
<1> QED BY <1>2, <1>3

\* The execution of one proposal leaves every other, and accepts nothing but
\* when it is one of an acceptance.
LEMMA ExecuteIsExecuting ==
    ASSUME Standing, NEW p \in ProposalIds, NEW kind, Act(p).kind = kind, ExecuteOn(p, TRUE)
    PROVE  /\ Executing(p, kind) /\ MandateMoves /\ Act(p) \in Acts
           /\ kind # "AcceptTokenManagerAdmin" => NoAcceptance
<1>1. Executing(p, kind) /\ MandateMoves
  BY DEF ExecuteOn, Execute, Open, Executing, MandateMoves
<1>2. Act(p) \in Acts
  BY DEF ExecuteOn, Execute, Open, Standing, Granted
<1>3. kind # "AcceptTokenManagerAdmin" => NoAcceptance
  BY DEF ExecuteOn, Execute, Open, Standing, TypeOK, NoAcceptance, Executed, Act
<1> QED BY <1>1, <1>2, <1>3

\* One executed elsewhere is only spent.
LEMMA ElsewhereMoves ==
    ASSUME Standing, NEW p \in ProposalIds, ExecutedElsewhere(p)
    PROVE  /\ MandateMoves /\ UNCHANGED programs /\ now' = now
           /\ \A kind : /\ Executed(kind)' = Executed(kind)
                       /\ \A q \in Executed(kind) : Act(q)' = Act(q)
<1>1. MandateMoves /\ UNCHANGED programs /\ now' = now
  BY DEF ExecutedElsewhere, Execute, Open, MandateMoves
<1>2. ASSUME NEW kind
      PROVE  /\ Executed(kind)' = Executed(kind)
             /\ \A q \in Executed(kind) : Act(q)' = Act(q)
  BY DEF ExecutedElsewhere, Execute, Open, Executed, Act, Standing, TypeOK
<1> QED BY <1>1, <1>2

\* What the staking program does for a signer, key or executor.
LEMMA PoolInstructionMoves ==
    ASSUME Standing, NEW signer \in Keys, NEW successor \in Parties,
           NEW rate, NEW end, NEW paused,
           \/ Staking!set_reward_rate(signer, rate, end)
           \/ Staking!set_paused(signer, paused)
           \/ Staking!propose_authority(signer, successor)
           \/ Staking!accept_authority(signer)
    PROVE  PoolMoves /\ now' = now /\ PoolFields'
<1> USE DEF Standing, Fields, PoolFields, PoolMoves
<1>1. CASE Staking!set_reward_rate(signer, rate, end)
  BY <1>1 DEF Staking!set_reward_rate, Staking!update_rewards
<1>2. CASE Staking!set_paused(signer, paused)
  BY <1>2 DEF Staking!set_paused
<1>3. CASE Staking!propose_authority(signer, successor)
  BY <1>3 DEF Staking!propose_authority
<1>4. CASE Staking!accept_authority(signer)
  BY <1>4 DEF Staking!accept_authority
<1> QED BY <1>1, <1>2, <1>3, <1>4

\* What the treasury does for its executor, when that is not handing it on, and
\* for those who need no executor.
LEMMA TreasuryInstructionStays ==
    ASSUME Standing, NEW signer, NEW amount, NEW to_vault, NEW cap, NEW duration,
           NEW id, NEW beneficiary, NEW schedule,
           \/ Treasuries!deposit(amount, 0)
           \/ Treasuries!spend(signer, amount, to_vault)
           \/ Treasuries!set_spend_cap(signer, cap, duration)
           \/ Treasuries!create_stream(signer, id, beneficiary, amount, schedule)
           \/ Treasuries!claim_stream(signer, id)
           \/ Treasuries!revoke_stream(signer, id)
    PROVE  /\ treasury'.governance_executor = treasury.governance_executor
           /\ now' = now /\ TreasuryFields'
<1> USE DEF Standing, Fields, TreasuryFields
<1>1. CASE Treasuries!deposit(amount, 0)
  BY <1>1 DEF Treasuries!deposit
<1>2. CASE Treasuries!spend(signer, amount, to_vault)
  BY <1>2 DEF Treasuries!spend, Treasuries!charge_epoch_budget
<1>3. CASE Treasuries!set_spend_cap(signer, cap, duration)
  BY <1>3 DEF Treasuries!set_spend_cap
<1>4. CASE Treasuries!create_stream(signer, id, beneficiary, amount, schedule)
  BY <1>4 DEF Treasuries!create_stream
<1>5. CASE Treasuries!claim_stream(signer, id)
  BY <1>5 DEF Treasuries!claim_stream, Treasuries!CanClaim
<1>6. CASE Treasuries!revoke_stream(signer, id)
  BY <1>6 DEF Treasuries!revoke_stream
<1> QED BY <1>1, <1>2, <1>3, <1>4, <1>5, <1>6

\* What the token manager does for its admin short of the admin's succession.
LEMMA TokenInstructionStays ==
    ASSUME Standing, NEW signer, NEW a, NEW cap, NEW duration, NEW enabled, NEW paused,
           \/ Tokens!register_minter(signer, a, cap, duration)
           \/ Tokens!update_minter(signer, a, cap, enabled)
           \/ Tokens!revoke_minter(signer, a)
           \/ Tokens!set_paused(signer, paused)
    PROVE  /\ config'.admin = config.admin /\ config'.pending_admin = config.pending_admin
           /\ now' = now /\ TokenFields'
<1> USE DEF Standing, Fields, TokenFields
<1>1. CASE Tokens!register_minter(signer, a, cap, duration)
  BY <1>1 DEF Tokens!register_minter
<1>2. CASE Tokens!update_minter(signer, a, cap, enabled)
  BY <1>2 DEF Tokens!update_minter
<1>3. CASE Tokens!revoke_minter(signer, a)
  BY <1>3 DEF Tokens!revoke_minter
<1>4. CASE Tokens!set_paused(signer, paused)
  BY <1>4 DEF Tokens!set_paused
<1> QED BY <1>1, <1>2, <1>3, <1>4

\* A bootstrap, an audit, a vote, a veto and a tick are moves.
LEMMA OutsideStepMoves ==
    ASSUME Standing,
           \/ \E cap \in Caps, duration \in Durations : plan(cap, duration)
           \/ initialize_alone
           \/ \E what \in DOMAIN privileged_parties : observe(what)
           \/ verify
           \/ \E p \in ProposalIds, act \in Acts,
                  delay \in MIN_TIMELOCK_DELAY .. MAX_TIMELOCK_DELAY : queue_proposal(p, act, delay)
           \/ \E signer \in Keys, p \in ProposalIds : cancel_proposal(signer, p)
           \/ \E step \in Steps : Tick(step)
    PROVE  Moves
<1> USE DEF Standing, TypeOK, Fields, PoolFields, TreasuryFields, TokenFields, Parties
<1>a. UNCHANGED <<mandates, elsewhere>> => MandateMoves /\ NoAcceptance
  BY DEF MandateMoves, NoAcceptance, Executed, Act
<1>b. UNCHANGED pool => PoolMoves /\ PoolFields'
  BY DEF PoolMoves
<1>c. UNCHANGED treasury => TreasuryMoves /\ TreasuryFields'
  BY DEF TreasuryMoves
<1>d. UNCHANGED realm => RealmMoves
  BY DEF RealmMoves
<1>e. NoAcceptance /\ UNCHANGED config => TokenMoves /\ TokenFields'
  BY DEF TokenMoves
<1>f. UNCHANGED opening => opening'.clean \in BOOLEAN
  OBVIOUS
<1>1. ASSUME NEW authority \in Parties, initialize_pool(authority)
      PROVE  PoolMoves /\ PoolFields'
  BY <1>1 DEF initialize_pool, Deployed, Staking!initial_pool, PoolMoves
<1>2. ASSUME NEW authority \in Parties, NEW guardian \in Parties,
             initialize_realm(authority, guardian)
      PROVE  RealmMoves
  BY <1>2 DEF initialize_realm, Deployed, RealmMoves
<1>3. ASSUME NEW executor \in Parties, NEW cap, NEW duration,
             initialize_treasury(executor, cap, duration)
      PROVE  TreasuryMoves /\ TreasuryFields'
  BY <1>3 DEF initialize_treasury, Deployed, Treasuries!initial_treasury, TreasuryMoves
<1>4. CASE \E cap \in Caps, duration \in Durations : plan(cap, duration)
  BY <1>4, <1>a, <1>e, <1>f, <1>1, <1>2, <1>3, HelixAssumption
     DEF plan, Moves, AuditMoves, token_vars
<1>5. CASE initialize_alone
  BY <1>5, <1>a, <1>b, <1>c, <1>d, <1>e, <1>f, <1>1, <1>2, <1>3
     DEF initialize_alone, Moves, AuditMoves, token_vars, treasury_vars
<1>6. CASE \E what \in DOMAIN privileged_parties : observe(what)
  BY <1>6, <1>a, <1>b, <1>c, <1>d, <1>e, <1>f
     DEF observe, Moves, AuditMoves, programs, token_vars, treasury_vars
<1>7. CASE verify
  BY <1>7, <1>a, <1>b, <1>c, <1>d, <1>e
     DEF verify, Moves, AuditMoves, programs, token_vars, treasury_vars
<1>8. CASE \E p \in ProposalIds, act \in Acts,
              delay \in MIN_TIMELOCK_DELAY .. MAX_TIMELOCK_DELAY : queue_proposal(p, act, delay)
  <2>1. PICK p \in ProposalIds, act \in Acts, delay \in MIN_TIMELOCK_DELAY .. MAX_TIMELOCK_DELAY :
               queue_proposal(p, act, delay)
    BY <1>8
  <2>2. now + delay \in Nat
    BY HelixAssumption
  <2>3. MandateMoves
    BY <2>1, <2>2 DEF queue_proposal, Grant, MandateMoves
  <2>4. NoAcceptance
    BY <2>1 DEF queue_proposal, Grant, NoAcceptance, Executed, Act
  <2> QED BY <2>1, <2>3, <2>4, <1>b, <1>c, <1>d, <1>e, <1>f
          DEF queue_proposal, Moves, AuditMoves, programs, token_vars, treasury_vars
<1>9. CASE \E signer \in Keys, p \in ProposalIds : cancel_proposal(signer, p)
  <2>1. PICK signer \in Keys, p \in ProposalIds : cancel_proposal(signer, p)
    BY <1>9
  <2>2. MandateMoves
    BY <2>1 DEF cancel_proposal, Void, Idle, MandateMoves
  <2>3. NoAcceptance
    BY <2>1 DEF cancel_proposal, Void, Idle, NoAcceptance, Executed, Act
  <2> QED BY <2>1, <2>2, <2>3, <1>b, <1>c, <1>d, <1>e, <1>f
          DEF cancel_proposal, Moves, AuditMoves, programs, token_vars, treasury_vars
<1>10. CASE \E step \in Steps : Tick(step)
  BY <1>10, <1>a, <1>b, <1>c, <1>d, <1>e, <1>f, HelixAssumption
     DEF Tick, Moves, AuditMoves, programs, token_vars, treasury_vars
<1> QED BY <1>4, <1>5, <1>6, <1>7, <1>8, <1>9, <1>10

\* What a key signs for itself is a move.
LEMMA KeyStepMoves ==
    ASSUME Standing, pool_instruction \/ treasury_instruction \/ token_instruction
    PROVE  Moves
<1> USE DEF Standing, TypeOK, Fields, Parties
<1>a. UNCHANGED <<mandates, elsewhere>> => MandateMoves /\ NoAcceptance
  BY DEF MandateMoves, NoAcceptance, Executed, Act
<1>b. UNCHANGED pool => PoolMoves /\ PoolFields'
  BY DEF PoolMoves, PoolFields
<1>c. UNCHANGED treasury => TreasuryMoves /\ TreasuryFields'
  BY DEF TreasuryMoves, TreasuryFields
<1>d. UNCHANGED realm => RealmMoves
  BY DEF RealmMoves
<1>e. NoAcceptance /\ UNCHANGED config => TokenMoves /\ TokenFields'
  BY DEF TokenMoves, TokenFields
<1>1. CASE pool_instruction
  <2>1. PoolMoves /\ now' = now /\ PoolFields'
    BY <1>1, PoolInstructionMoves DEF pool_instruction
  <2> QED BY <1>1, <2>1, <1>a, <1>c, <1>d, <1>e
          DEF pool_instruction, Moves, AuditMoves, treasury_vars, token_vars
<1>2. CASE treasury_instruction
  <2>1. TreasuryMoves /\ now' = now /\ TreasuryFields'
    <3>1. CASE \E signer \in Keys, executor \in Parties :
                 Treasuries!set_governance_executor(signer, executor)
      BY <3>1 DEF Treasuries!set_governance_executor, TreasuryMoves, TreasuryFields
    <3>2. CASE \/ \E amount \in DepositAmounts : Treasuries!deposit(amount, 0)
               \/ \E signer \in Beneficiaries, id \in Treasuries!StreamIds :
                    Treasuries!claim_stream(signer, id)
      BY <3>2, TreasuryInstructionStays DEF TreasuryMoves
    <3>3. CASE \/ \E signer \in Keys, amount \in SpendAmounts, to_vault \in BOOLEAN :
                    Treasuries!spend(signer, amount, to_vault)
               \/ \E signer \in Keys, cap \in Caps, duration \in Durations :
                    Treasuries!set_spend_cap(signer, cap, duration)
      BY <3>3, TreasuryInstructionStays DEF TreasuryMoves
    <3>4. CASE \/ \E signer \in Keys, id \in Treasuries!StreamIds, beneficiary \in Beneficiaries,
                     amount \in StreamAmounts, schedule \in Schedules :
                    Treasuries!create_stream(signer, id, beneficiary, amount, schedule)
               \/ \E signer \in Keys, id \in Treasuries!StreamIds :
                    Treasuries!revoke_stream(signer, id)
      BY <3>4, TreasuryInstructionStays DEF TreasuryMoves
    <3> QED BY <1>2, <3>1, <3>2, <3>3, <3>4 DEF treasury_instruction
  <2> QED BY <1>2, <2>1, <1>a, <1>b, <1>d, <1>e
          DEF treasury_instruction, Moves, AuditMoves, token_vars
<1>3. CASE token_instruction
  <2>1. NoAcceptance
    BY <1>3, <1>a DEF token_instruction
  <2>2. TokenMoves /\ now' = now /\ TokenFields'
    <3>1. CASE \/ \E signer \in Keys, a \in Tokens!Authorities, cap \in Caps,
                     duration \in Durations : Tokens!register_minter(signer, a, cap, duration)
               \/ \E signer \in Keys, a \in Tokens!Authorities, cap \in Caps,
                     enabled \in BOOLEAN : Tokens!update_minter(signer, a, cap, enabled)
               \/ \E signer \in Keys, a \in Tokens!Authorities : Tokens!revoke_minter(signer, a)
               \/ \E signer \in Keys, paused \in BOOLEAN : Tokens!set_paused(signer, paused)
      BY <3>1, <2>1, TokenInstructionStays DEF TokenMoves
    <3>2. CASE \E signer \in Keys, new_admin \in Parties : Tokens!propose_admin(signer, new_admin)
      BY <3>2, <2>1 DEF Tokens!propose_admin, TokenMoves, TokenFields, Authority
    <3>3. CASE \E signer \in Keys : Tokens!cancel_admin_transfer(signer)
      BY <3>3, <2>1 DEF Tokens!cancel_admin_transfer, TokenMoves, TokenFields, Authority
    <3>4. CASE \E signer \in Keys : Tokens!accept_admin(signer)
      BY <3>4, <2>1 DEF Tokens!accept_admin, TokenMoves, TokenFields
    <3> QED BY <1>3, <3>1, <3>2, <3>3, <3>4 DEF token_instruction
  <2> QED BY <1>3, <2>1, <2>2, <1>a, <1>b, <1>c, <1>d
          DEF token_instruction, Moves, AuditMoves, treasury_vars
<1> QED BY <1>1, <1>2, <1>3

\* What the executor signs, once a proposal was voted for it, is a move.
LEMMA ExecuteStepMoves ==
    ASSUME Standing, ExecuteNext
    PROVE  Moves
<1> USE DEF Standing, TypeOK, Fields
<1>b. UNCHANGED pool => PoolMoves /\ PoolFields'
  BY DEF PoolMoves, PoolFields
<1>c. UNCHANGED treasury => TreasuryMoves /\ TreasuryFields'
  BY DEF TreasuryMoves, TreasuryFields
<1>d. UNCHANGED realm => RealmMoves
  BY DEF RealmMoves
<1>e. NoAcceptance /\ UNCHANGED config => TokenMoves /\ TokenFields'
  BY DEF TokenMoves, TokenFields
<1> DEFINE Rest == MandateMoves /\ UNCHANGED <<observed, opening>> /\ now' = now
<1>m. ASSUME Rest, PoolMoves, PoolFields', TreasuryMoves, TreasuryFields', RealmMoves,
             TokenMoves, TokenFields'
      PROVE  Moves
  BY <1>m DEF Moves, AuditMoves
<1>0. UNCHANGED <<observed, opening>>
  BY DEF ExecuteNext
<1>p. PICK p \in ProposalIds : ExecutedHere(p) \/ ExecutedElsewhere(p)
  BY HereOrElsewhere
<1>x. ASSUME ExecuteOn(p, TRUE)
      PROVE  /\ Executing(p, Act(p).kind) /\ MandateMoves /\ Act(p) \in Acts
             /\ Act(p).kind # "AcceptTokenManagerAdmin" => NoAcceptance
  BY <1>x, ExecuteIsExecuting
<1>1. CASE execute_signal(p) /\ UNCHANGED now
  BY <1>1, <1>0, <1>x, <1>b, <1>c, <1>d, <1>e, <1>m
     DEF execute_signal, programs, treasury_vars, token_vars
<1>2. CASE \/ execute_treasury_transfer(p)
           \/ \E stream_id \in Treasuries!StreamIds : execute_create_vesting_stream(p, TRUE, stream_id)
           \/ execute_revoke_vesting_stream(p, TRUE)
           \/ execute_set_treasury_spend_cap(p, TRUE)
  <2>1. /\ treasury'.governance_executor = treasury.governance_executor
        /\ now' = now /\ TreasuryFields'
    BY <1>2, TreasuryInstructionStays
       DEF execute_treasury_transfer, execute_create_vesting_stream,
           execute_revoke_vesting_stream, execute_set_treasury_spend_cap
  <2>2. TreasuryMoves
    BY <2>1 DEF TreasuryMoves
  <2>3. ExecuteOn(p, TRUE) /\ Act(p).kind # "AcceptTokenManagerAdmin"
    BY <1>2 DEF execute_treasury_transfer, execute_create_vesting_stream,
           execute_revoke_vesting_stream, execute_set_treasury_spend_cap
  <2>4. UNCHANGED <<pool, realm, config>>
    BY <1>2 DEF execute_treasury_transfer, execute_create_vesting_stream,
           execute_revoke_vesting_stream, execute_set_treasury_spend_cap, token_vars
  <2> QED BY <2>1, <2>2, <2>3, <2>4, <1>0, <1>x, <1>b, <1>d, <1>e, <1>m
<1>3. CASE execute_set_governance_executor(p, TRUE)
  <2>1. ExecuteOn(p, TRUE) /\ Act(p).kind = "SetGovernanceExecutor" /\ UNCHANGED <<pool, realm, config>>
    BY <1>3 DEF execute_set_governance_executor, token_vars
  <2>2. Treasuries!set_governance_executor(Executor, Act(p).new_executor)
    BY <1>3 DEF execute_set_governance_executor
  <2>3. TreasuryMoves /\ TreasuryFields' /\ now' = now
    BY <2>1, <2>2, <1>x
       DEF Treasuries!set_governance_executor, TreasuryMoves, TreasuryFields
  <2> QED BY <2>1, <2>3, <1>0, <1>x, <1>b, <1>d, <1>e, <1>m
<1>4. CASE execute_set_staking_reward_rate(p)
  <2>1. ExecuteOn(p, TRUE) /\ Act(p).kind = "SetStakingRewardRate" /\ UNCHANGED <<realm, treasury, config>>
    BY <1>4 DEF execute_set_staking_reward_rate, token_vars, treasury_vars
  <2>2. Staking!set_reward_rate(Executor, Act(p).new_rate, Act(p).reward_period_end)
    BY <1>4 DEF execute_set_staking_reward_rate
  <2>3. PoolMoves /\ PoolFields' /\ now' = now
    BY <2>2 DEF Staking!set_reward_rate, Staking!update_rewards, PoolMoves, PoolFields
  <2> QED BY <2>1, <2>3, <1>0, <1>x, <1>c, <1>d, <1>e, <1>m
<1>5. CASE execute_accept_token_manager_admin(p, TRUE)
  <2>1. ExecuteOn(p, TRUE) /\ UNCHANGED <<pool, realm, treasury>> /\ Tokens!accept_admin(Executor)
    BY <1>5 DEF execute_accept_token_manager_admin, treasury_vars
  <2>2. TokenMoves /\ TokenFields' /\ now' = now
    BY <2>1 DEF Tokens!accept_admin, TokenMoves, TokenFields
  <2> QED BY <2>1, <2>2, <1>0, <1>x, <1>b, <1>c, <1>d, <1>m
<1>6. CASE execute_propose_token_admin(p, TRUE)
  <2>1. /\ ExecuteOn(p, TRUE) /\ Act(p).kind = "ProposeTokenAdmin"
        /\ UNCHANGED <<pool, realm, treasury>>
        /\ Tokens!propose_admin(Executor, Act(p).new_admin)
    BY <1>6 DEF execute_propose_token_admin, treasury_vars
  <2>2. TokenMoves /\ TokenFields' /\ now' = now
    BY <2>1, <1>x DEF Tokens!propose_admin, TokenMoves, TokenFields
  <2> QED BY <2>1, <2>2, <1>0, <1>x, <1>b, <1>c, <1>d, <1>m
<1>7. CASE \/ execute_set_token_paused(p, TRUE)
           \/ execute_register_minter(p, TRUE)
           \/ \E a \in Tokens!Authorities : execute_update_minter(p, TRUE, a) \/ execute_revoke_minter(p, TRUE, a)
  <2>1. /\ config'.admin = config.admin /\ config'.pending_admin = config.pending_admin
        /\ now' = now /\ TokenFields'
    BY <1>7, TokenInstructionStays
       DEF execute_set_token_paused, execute_register_minter, execute_update_minter,
           execute_revoke_minter
  <2>2. /\ ExecuteOn(p, TRUE) /\ Act(p).kind # "AcceptTokenManagerAdmin"
        /\ UNCHANGED <<pool, realm, treasury>>
    BY <1>7 DEF execute_set_token_paused, execute_register_minter, execute_update_minter,
           execute_revoke_minter, treasury_vars
  <2>3. TokenMoves
    BY <2>1, <2>2, <1>x DEF TokenMoves
  <2> QED BY <2>1, <2>2, <2>3, <1>0, <1>x, <1>b, <1>c, <1>d, <1>m
<1>8. CASE execute_set_realm_authority(p)
  <2>1. /\ ExecuteOn(p, TRUE) /\ Act(p).kind = "SetRealmAuthority" /\ now' = now
        /\ UNCHANGED <<pool, treasury, config>>
        /\ realm' = [realm EXCEPT !.authority = Act(p).new_authority]
    BY <1>8 DEF execute_set_realm_authority, treasury_vars, token_vars
  <2>2. RealmMoves
    BY <2>1, <1>x DEF RealmMoves
  <2> QED BY <2>1, <2>2, <1>0, <1>x, <1>b, <1>c, <1>e, <1>m
<1>9. CASE ExecutedElsewhere(p)
  <2>1. MandateMoves /\ NoAcceptance /\ UNCHANGED <<pool, realm, treasury, config>> /\ now' = now
    BY <1>9, ElsewhereMoves DEF NoAcceptance, programs, treasury_vars, token_vars
  <2> QED BY <2>1, <1>0, <1>b, <1>c, <1>d, <1>e, <1>m
<1> QED BY <1>p, <1>1, <1>2, <1>3, <1>4, <1>5, <1>6, <1>7, <1>8, <1>9 DEF ExecutedHere

LEMMA StepMoves ==
    ASSUME Standing, [Next]_vars
    PROVE  Moves
<1>1. CASE Next
  BY <1>1, OutsideStepMoves, KeyStepMoves, ExecuteStepMoves DEF Next
<1>2. CASE UNCHANGED vars
  BY <1>2 DEF vars, programs, treasury_vars, token_vars, Standing, TypeOK, Fields, PoolFields,
     TreasuryFields, TokenFields, Moves, MandateMoves, PoolMoves, RealmMoves, TreasuryMoves,
     TokenMoves, AuditMoves, NoAcceptance, Executed, Act
<1> QED BY <1>1, <1>2

-----------------------------------------------------------------------------
(* Every move keeps the invariant. *)

\* What was executed stays executed, and what it was stays what it was.
LEMMA ExecutedStays ==
    ASSUME Standing, MandateMoves
    PROVE  \A p \in ProposalIds :
             mandates[p].status = "Executed" =>
               mandates'[p] = mandates[p] /\ (p \notin elsewhere => p \notin elsewhere')
BY DEF Standing, TypeOK, MandateMoves

LEMMA ReleasedStays ==
    ASSUME Standing, MandateMoves, NEW kind, NEW role, Released(kind, role)
    PROVE  Released(kind, role)'
BY ExecutedStays DEF Released, Executed, Act

\* An execution that names a key releases the role to it.
LEMMA ExecutingReleases ==
    ASSUME Standing, NEW p \in ProposalIds, NEW kind, NEW role,
           Executing(p, kind), Act(p)[role] \in Keys
    PROVE  Released(kind, role)'
BY DEF Standing, TypeOK, SpentElsewhere, Executing, Released, Executed, Act

LEMMA MandatesTyped ==
    ASSUME Standing, Moves
    PROVE  /\ mandates' \in [ProposalIds -> [status : {"None", "Queued", "Executed", "Void"},
                                            act : Acts \cup {NoAct}, eta : Nat]]
           /\ elsewhere' \subseteq ProposalIds
           /\ Granted' /\ SpentElsewhere'
<1> USE DEF Standing, TypeOK, Granted, SpentElsewhere, Act
<1>1. opening.clean => opening'.clean
  BY DEF Moves, AuditMoves, observe, verify
<1>2. CASE mandates' = mandates /\ elsewhere' = elsewhere
  BY <1>1, <1>2
<1>3. CASE opening.clean /\ elsewhere' = elsewhere /\ \E p \in ProposalIds, act \in Acts, eta \in Nat :
        /\ mandates[p].status = "None"
        /\ mandates' = [mandates EXCEPT ![p] = [status |-> "Queued", act |-> act, eta |-> eta]]
  BY <1>1, <1>3
<1>4. CASE elsewhere' = elsewhere /\ \E p \in ProposalIds :
        /\ mandates[p].status = "Queued"
        /\ mandates' = [mandates EXCEPT ![p] = [status |-> "Void", act |-> NoAct, eta |-> 0]]
  BY <1>1, <1>4
<1>5. CASE \E p \in ProposalIds :
        /\ mandates[p].status = "Queued" /\ elsewhere' \in {elsewhere, elsewhere \cup {p}}
        /\ mandates' = [mandates EXCEPT ![p].status = "Executed"]
  BY <1>1, <1>5
<1> QED BY <1>2, <1>3, <1>4, <1>5 DEF Moves, MandateMoves

\* What an executed act named is a party, so nothing is handed to Nobody.
LEMMA SuccessorIsParty ==
    ASSUME Standing, NEW p \in ProposalIds, NEW kind, Executing(p, kind)
    PROVE  /\ kind = "SetRealmAuthority" => Act(p).new_authority \in Parties
           /\ kind = "SetGovernanceExecutor" => Act(p).new_executor \in Parties
           /\ kind = "ProposeTokenAdmin" => Act(p).new_admin \in Parties
BY HelixAssumption DEF Standing, Granted, Executing, Parties

LEMMA PowersTyped ==
    ASSUME KInv, Moves
    PROVE  /\ (pool.authority \in Authority /\ pool.pending_authority \in Authority)'
           /\ (realm \in [authority : Authority, guardian : Authority])'
           /\ (treasury.governance_executor \in Authority)'
           /\ (config.admin \in Parties /\ config.pending_admin \in Authority)'
           /\ (observed \in [DOMAIN privileged_parties -> Authority])'
<1> USE DEF KInv, Standing, TypeOK, Authority, Parties
<1>1. (pool.authority \in Authority /\ pool.pending_authority \in Authority)'
  BY DEF Moves, PoolMoves
<1>2. (realm \in [authority : Authority, guardian : Authority])'
  BY SuccessorIsParty DEF Moves, RealmMoves, initial_realm
<1>3. (treasury.governance_executor \in Authority)'
  BY SuccessorIsParty DEF Moves, TreasuryMoves
<1>4. (config.admin \in Parties /\ config.pending_admin \in Authority)'
  BY SuccessorIsParty DEF Moves, TokenMoves
<1>5. (observed \in [DOMAIN privileged_parties -> Authority])'
  <2>1. ASSUME NEW what \in DOMAIN privileged_parties, observe(what)
        PROVE  (observed \in [DOMAIN privileged_parties -> Authority])'
    <3>1. ObservedAuthorities[what] \in Authority
      BY DEF ObservedAuthorities, privileged_parties
    <3> QED BY <2>1, <3>1 DEF observe
  <2>2. ASSUME verify
        PROVE  (observed \in [DOMAIN privileged_parties -> Authority])'
    BY <2>2 DEF verify, NotObserved, Unread
  <2> QED BY <2>1, <2>2 DEF Moves, AuditMoves
<1> QED BY <1>1, <1>2, <1>3, <1>4, <1>5

LEMMA SmallPartsKept ==
    ASSUME KInv, Moves
    PROVE  (PoolKept /\ RealmKept /\ SuccessorNamed)'
<1> USE DEF KInv, Standing, TypeOK, Authority, Parties
<1>1. PoolKept'
  BY HelixAssumption DEF PoolKept, Moves, PoolMoves
<1>2. RealmKept'
  BY HelixAssumption, SuccessorIsParty DEF RealmKept, Moves, RealmMoves, initial_realm
<1>3. SuccessorNamed'
  <2> USE HelixAssumption DEF SuccessorNamed
  <2>1. CASE config.pending_admin \in Keys /\ config.admin = Executor
             /\ config'.pending_admin = config.pending_admin
    BY <2>1, ReleasedStays DEF Moves
  <2>2. ASSUME NEW p \in ProposalIds, Executing(p, "ProposeTokenAdmin"),
               config'.pending_admin = Act(p).new_admin
        PROVE  SuccessorNamed'
    <3>1. CASE Act(p).new_admin \in Keys
      BY <2>2, <3>1, ExecutingReleases
    <3>2. CASE Act(p).new_admin \notin Keys
      BY <2>2, <3>2
    <3> QED BY <3>1, <3>2
  <2> QED BY <2>1, <2>2 DEF Moves, TokenMoves
<1> QED BY <1>1, <1>2, <1>3

LEMMA OpenedKept ==
    ASSUME KInv, Moves
    PROVE  Opened' /\ ReadStays'
<1> USE HelixAssumption DEF KInv, Standing, TypeOK, Authority, Parties
<1>1. CASE opening.clean
  <2>1. opening'.clean
    BY <1>1 DEF Moves, AuditMoves, observe, verify
  <2>2. realm'.authority # Nobody
    BY <1>1, SuccessorIsParty DEF Opened, Moves, RealmMoves, initial_realm
  <2>3. treasury'.governance_executor # Nobody
    BY <1>1, SuccessorIsParty DEF Opened, Moves, TreasuryMoves
  <2> QED BY <2>1, <2>2, <2>3 DEF Opened, ReadStays
<1>2. CASE ~opening.clean
  <2>1. ASSUME NEW p \in ProposalIds, NEW kind
        PROVE  ~Executing(p, kind)
    BY <1>2 DEF Granted, Executing
  <2>2. /\ pool.authority = Executor => pool'.authority = Executor
        /\ realm.authority = Executor => realm'.authority = Executor
        /\ treasury.governance_executor = Executor => treasury'.governance_executor = Executor
        /\ realm.guardian = Guardian => realm'.guardian = Guardian
    <3>1. pool.authority = Executor => pool'.authority = Executor
      BY DEF Moves, PoolMoves, PoolKept
    <3>2. /\ realm.authority = Executor => realm'.authority = Executor
          /\ realm.guardian = Guardian => realm'.guardian = Guardian
      <4>1. realm' = realm \/ realm.authority = Nobody
        BY <2>1 DEF Moves, RealmMoves
      <4> QED BY <4>1 DEF RealmKept
    <3>3. treasury.governance_executor = Executor => treasury'.governance_executor = Executor
      BY <2>1 DEF Moves, TreasuryMoves
    <3> QED BY <3>1, <3>2, <3>3
  <2>3. CASE UNCHANGED <<observed, opening>>
    BY <1>2, <2>2, <2>3 DEF Opened, ReadStays
  <2>4. ASSUME NEW what \in DOMAIN privileged_parties, observe(what)
        PROVE  Opened' /\ ReadStays'
    <3>1. observed' = [observed EXCEPT ![what] = ObservedAuthorities[what]]
      BY <2>4 DEF observe
    <3>2. UNCHANGED <<opening, pool, realm, treasury>>
      BY <2>4 DEF observe, programs, treasury_vars
    <3> QED BY <1>2, <3>1, <3>2 DEF Opened, ReadStays, ObservedAuthorities, privileged_parties
  <2>5. CASE verify
    <3>1. /\ observed["realm_authority"] = Executor
          /\ observed["treasury_spender"] = Executor
      BY <2>5 DEF verify, audit, privileged_parties
    <3>2. realm.authority = Executor /\ treasury.governance_executor = Executor
      BY <1>2, <3>1 DEF ReadStays
    <3>3. opening'.clean
      BY <2>5 DEF verify
    <3> QED BY <2>2, <3>2, <3>3 DEF Opened, ReadStays
  <2> QED BY <2>3, <2>4, <2>5 DEF Moves, AuditMoves
<1> QED BY <1>1, <1>2

LEMMA KeysKept ==
    ASSUME KInv, Moves
    PROVE  KeysOnlyByMandate'
<1> USE HelixAssumption DEF KInv, Standing, TypeOK, Authority, Parties
<1>1. CASE ~opening.clean
  <2>1. CASE verify
    <3>1. \A what \in DOMAIN privileged_parties : observed[what] = privileged_parties[what]
      BY <2>1 DEF verify, audit
    <3>2. /\ pool.authority = Executor /\ realm.authority = Executor
          /\ treasury.governance_executor = Executor /\ realm.guardian = Guardian
      BY <1>1, <3>1 DEF ReadStays, privileged_parties
    <3>3. pool.pending_authority = Nobody
      BY <3>2 DEF PoolKept
    <3>4. Executed("AcceptTokenManagerAdmin")' = {}
      BY <1>1, <2>1 DEF verify, Granted, Executed
    <3>5. UNCHANGED <<pool, realm, treasury, config>>
      BY <2>1 DEF verify, programs, treasury_vars, token_vars
    <3> QED BY <3>2, <3>3, <3>4, <3>5 DEF KeysOnlyByMandate
  <2>2. CASE opening' = opening
    BY <1>1, <2>2 DEF KeysOnlyByMandate
  <2> QED BY <2>1, <2>2 DEF Moves, AuditMoves, observe
<1>2. CASE opening.clean
  <2> USE <1>2 DEF KeysOnlyByMandate, Opened
  <2>1. pool'.authority = Executor /\ pool'.pending_authority = Nobody
    BY DEF Moves, PoolMoves
  <2>2. realm'.guardian = Guardian
    BY DEF Moves, RealmMoves
  <2>3. realm'.authority \in Keys => Released("SetRealmAuthority", "new_authority")'
    <3>1. CASE realm' = realm
      BY <3>1, ReleasedStays DEF Moves
    <3>2. ASSUME NEW p \in ProposalIds, Executing(p, "SetRealmAuthority"),
                 realm' = [realm EXCEPT !.authority = Act(p).new_authority]
          PROVE  realm'.authority \in Keys => Released("SetRealmAuthority", "new_authority")'
      BY <3>2, ExecutingReleases
    <3> QED BY <3>1, <3>2 DEF Moves, RealmMoves
  <2>4. treasury'.governance_executor \in Keys
          => Released("SetGovernanceExecutor", "new_executor")'
    <3>1. CASE treasury.governance_executor \in Keys
      BY <3>1, ReleasedStays DEF Moves
    <3>2. CASE treasury'.governance_executor = treasury.governance_executor
      BY <3>1, <3>2
    <3>3. ASSUME NEW p \in ProposalIds, Executing(p, "SetGovernanceExecutor"),
                 treasury'.governance_executor = Act(p).new_executor
          PROVE  treasury'.governance_executor \in Keys
                   => Released("SetGovernanceExecutor", "new_executor")'
      BY <3>3, ExecutingReleases
    <3> QED BY <3>1, <3>2, <3>3 DEF Moves, TreasuryMoves
  <2>5. config'.admin \in Keys /\ Executed("AcceptTokenManagerAdmin")' # {}
          => Released("ProposeTokenAdmin", "new_admin")'
    <3>1. CASE NoAcceptance
      <4>1. Executed("AcceptTokenManagerAdmin")' # {}
              => Executed("AcceptTokenManagerAdmin") # {}
        BY <3>1 DEF NoAcceptance
      <4>2. Released("ProposeTokenAdmin", "new_admin")
              => Released("ProposeTokenAdmin", "new_admin")'
        BY ReleasedStays DEF Moves
      <4>3. config'.admin = config.admin
              \/ config'.admin = config.pending_admin \/ config'.admin = Executor
        BY DEF Moves, TokenMoves
      <4>4. CASE config.admin \in Keys
        BY <4>1, <4>2, <4>4
      <4>5. CASE config.admin = Executor
        BY <4>2, <4>3, <4>5 DEF SuccessorNamed
      <4> QED BY <4>4, <4>5
    <3>2. CASE ~NoAcceptance
      BY <3>2 DEF Moves, TokenMoves
    <3> QED BY <3>1, <3>2
  <2> QED BY <2>1, <2>2, <2>3, <2>4, <2>5
<1> QED BY <1>1, <1>2

LEMMA KInvInit == ASSUME Init PROVE KInv
<1> USE HelixAssumption DEF Init, Authority, Parties, Staking!initial_pool, initial_realm,
        Treasuries!initial_treasury, NotOpened, NotObserved, Unread
<1>1. TypeOK
  BY DEF TypeOK, MandateInit, Idle
<1>2. Fields
  BY DEF Fields, PoolFields, TreasuryFields, TokenFields
<1>3. Granted /\ SpentElsewhere
  BY DEF Granted, SpentElsewhere, MandateInit, Idle
<1>4. ReadStays
  BY DEF ReadStays, privileged_parties
<1>5. SuccessorNamed
  BY DEF SuccessorNamed
<1>6. PoolKept /\ RealmKept /\ Opened /\ KeysOnlyByMandate
  BY DEF PoolKept, RealmKept, Opened, KeysOnlyByMandate
<1> QED BY <1>1, <1>2, <1>3, <1>4, <1>5, <1>6 DEF KInv

LEMMA KInvKept == ASSUME KInv, [Next]_vars PROVE KInv'
<1>1. Standing
  BY DEF KInv, Standing
<1>2. Moves
  BY <1>1, StepMoves
<1>3. TypeOK' /\ Granted' /\ SpentElsewhere'
  BY <1>1, <1>2, MandatesTyped, PowersTyped DEF Moves, TypeOK
<1>4. Fields'
  BY <1>2 DEF Moves
<1> QED BY <1>2, <1>3, <1>4, SmallPartsKept, OpenedKept, KeysKept DEF KInv

-----------------------------------------------------------------------------
(* The theorems. *)

LEMMA Invariance == Spec => []KInv
<1>1. Init => KInv
  BY KInvInit
<1>2. KInv /\ [Next]_vars => KInv'
  BY KInvKept
<1> QED BY <1>1, <1>2, PTL DEF Spec

\* The authorities of every program are parties, or nobody before the account
\* exists, through any bootstrap, audit, vote and hand-over.
THEOREM TypeCorrect == Spec => []TypeOK
<1>1. KInv => TypeOK
  BY DEF KInv
<1> QED BY <1>1, Invariance, PTL

\* For any set of keys, any acts and any number of proposals: once the audit was
\* clean, no key comes to a power of governance's, nor back to the mint's admin once
\* governance accepted it on this mint's config, but by a proposal executed on that
\* account that named a key for it, however many were used up on other mints'.
THEOREM KeysAlwaysByMandate == Spec => []KeysOnlyByMandate
<1>1. KInv => KeysOnlyByMandate
  BY DEF KInv
<1> QED BY <1>1, Invariance, PTL

-----------------------------------------------------------------------------
(* The books.  What each program wrote, and the executed proposals it was   *)
(* written for.                                                             *)

\* The fields the books are kept in, and streams that are revoked only once.
PoolBook == "reward_rate" \in DOMAIN pool

TreasuryBook ==
    /\ {"total_spent", "stream_count", "committed_to_streams", "epoch_spend_cap"}
         \subseteq DOMAIN treasury
    /\ treasury.total_spent \in Nat /\ treasury.stream_count \in Nat
    /\ streams = [id \in Treasuries!StreamIds |-> streams[id]]
    /\ \A id \in Treasuries!StreamIds :
         /\ {"beneficiary", "revoked"} \subseteq DOMAIN streams[id]
         /\ streams[id].revoked \in BOOLEAN
         /\ streams[id].revoked => Treasuries!Exists(id)

\* Before the audit the programs hold nothing, so no key can spend or promise.
Untouched ==
    ~opening.clean =>
        /\ vault = 0 /\ treasury.committed_to_streams = 0
        /\ treasury.total_spent = 0 /\ treasury.stream_count = 0
        /\ \A id \in Treasuries!StreamIds : ~Treasuries!Exists(id)
        /\ pool.authority \notin Keys => pool.reward_rate = 0

Revoked == {id \in Treasuries!StreamIds : streams[id].revoked}

\* The parts of ExactlyAsApproved.
SpentAsApproved == treasury.total_spent = SumTo(Transferred, Cardinality(ProposalIds))
CreatedAsApproved == treasury.stream_count = Cardinality(Executed("CreateVestingStream"))
RevokedAsApproved == Revoked = {Act(p).stream_id : p \in Executed("RevokeVestingStream")}
CapAsApproved ==
    treasury.epoch_spend_cap
      \in {opening.cap} \cup {Act(p).new_cap : p \in Executed("SetTreasurySpendCap")}
RateAsApproved ==
    pool.reward_rate \in {0} \cup {Act(p).new_rate : p \in Executed("SetStakingRewardRate")}

AllAsApproved ==
    /\ SpentAsApproved /\ CreatedAsApproved /\ RevokedAsApproved
    /\ CapAsApproved /\ RateAsApproved

SInv == KInv /\ PoolBook /\ TreasuryBook /\ Untouched /\ (Governed => AllAsApproved)

\* What a step does to the books of the treasury.
SameSpent == treasury'.total_spent = treasury.total_spent
SameCreated == treasury'.stream_count = treasury.stream_count
SameRevoked == Revoked' = Revoked
SameCap == treasury'.epoch_spend_cap = treasury.epoch_spend_cap
SameRate == pool'.reward_rate = pool.reward_rate

LEMMA SpendBooks ==
    ASSUME TreasuryBook, NEW signer, NEW amount \in Nat, NEW to_vault,
           Treasuries!spend(signer, amount, to_vault)
    PROVE  /\ TreasuryBook' /\ SameCreated /\ SameRevoked /\ SameCap
           /\ treasury'.total_spent = treasury.total_spent + amount
BY DEF TreasuryBook, Treasuries!spend, Treasuries!charge_epoch_budget, Treasuries!Exists,
   SameCreated, SameRevoked, SameCap, Revoked

LEMMA CreateBooks ==
    ASSUME TreasuryBook, NEW signer, NEW id \in Treasuries!StreamIds, NEW beneficiary,
           NEW amount, NEW schedule,
           Treasuries!create_stream(signer, id, beneficiary, amount, schedule)
    PROVE  /\ TreasuryBook' /\ SameSpent /\ SameRevoked /\ SameCap
           /\ treasury'.stream_count = treasury.stream_count + 1
<1> USE DEF Treasuries!create_stream, Treasuries!new_stream, Treasuries!Exists, TreasuryBook
<1>1. ~streams[id].revoked
  OBVIOUS
<1>2. \A other \in Treasuries!StreamIds \ {id} : streams'[other] = streams[other]
  OBVIOUS
<1>3. streams'[id] = Treasuries!new_stream(beneficiary, amount, schedule)
  OBVIOUS
<1>4. Revoked' = Revoked
  BY <1>1, <1>2, <1>3 DEF Revoked
<1>5. SameSpent /\ SameCap /\ treasury'.stream_count = treasury.stream_count + 1
  BY DEF SameSpent, SameCap
<1>6. streams' = [other \in Treasuries!StreamIds |-> streams'[other]]
  OBVIOUS
<1>7. \A other \in Treasuries!StreamIds :
        /\ {"beneficiary", "revoked"} \subseteq DOMAIN streams'[other]
        /\ streams'[other].revoked \in BOOLEAN
        /\ streams'[other].revoked => Treasuries!Exists(other)'
  BY <1>2, <1>3
<1>8. /\ {"total_spent", "stream_count", "committed_to_streams", "epoch_spend_cap"}
           \subseteq DOMAIN treasury'
      /\ treasury'.total_spent \in Nat /\ treasury'.stream_count \in Nat
  BY <1>5 DEF SameSpent
<1> HIDE DEF Treasuries!create_stream, Treasuries!new_stream, Treasuries!Exists
<1>9. TreasuryBook'
  BY <1>6, <1>7, <1>8
<1> QED BY <1>4, <1>5, <1>9 DEF SameRevoked

LEMMA RevokeBooks ==
    ASSUME TreasuryBook, NEW signer, NEW id \in Treasuries!StreamIds,
           Treasuries!revoke_stream(signer, id)
    PROVE  /\ TreasuryBook' /\ SameSpent /\ SameCreated /\ SameCap
           /\ Revoked' = Revoked \cup {id}
BY DEF TreasuryBook, Treasuries!revoke_stream, Treasuries!Exists,
   SameSpent, SameCreated, SameCap, Revoked

LEMMA CapBooks ==
    ASSUME TreasuryBook, NEW signer, NEW cap, NEW duration,
           Treasuries!set_spend_cap(signer, cap, duration)
    PROVE  /\ TreasuryBook' /\ SameSpent /\ SameCreated /\ SameRevoked
           /\ treasury'.epoch_spend_cap = cap
BY DEF TreasuryBook, Treasuries!set_spend_cap, Treasuries!Exists,
   SameSpent, SameCreated, SameRevoked, Revoked

LEMMA OtherBooks ==
    ASSUME TreasuryBook, NEW signer, NEW amount, NEW id \in Treasuries!StreamIds, NEW executor,
           \/ Treasuries!deposit(amount, 0)
           \/ Treasuries!claim_stream(signer, id)
           \/ Treasuries!set_governance_executor(signer, executor)
    PROVE  TreasuryBook' /\ SameSpent /\ SameCreated /\ SameRevoked /\ SameCap
<1> USE DEF TreasuryBook, Treasuries!Exists, SameSpent, SameCreated, SameRevoked, SameCap, Revoked
<1>1. CASE Treasuries!deposit(amount, 0)
  BY <1>1 DEF Treasuries!deposit
<1>2. CASE Treasuries!claim_stream(signer, id)
  BY <1>2 DEF Treasuries!claim_stream, Treasuries!CanClaim
<1>3. CASE Treasuries!set_governance_executor(signer, executor)
  BY <1>3 DEF Treasuries!set_governance_executor
<1> QED BY <1>1, <1>2, <1>3

LEMMA UntouchedBooks ==
    ASSUME TreasuryBook, UNCHANGED treasury_vars
    PROVE  TreasuryBook' /\ SameSpent /\ SameCreated /\ SameRevoked /\ SameCap
BY DEF TreasuryBook, Treasuries!Exists, treasury_vars, SameSpent, SameCreated, SameRevoked,
   SameCap, Revoked

\* What a step does to the approvals of a kind.
SameApprovals(kind) ==
    /\ Executed(kind)' = Executed(kind)
    /\ \A p \in Executed(kind) : Act(p)' = Act(p)

OneApproval(p, kind) ==
    /\ p \in ProposalIds \ Executed(kind)
    /\ Executed(kind)' = Executed(kind) \cup {p}
    /\ \A q \in Executed(kind) \cup {p} : Act(q)' = Act(q)

\* A book moves only by the one approval it is moved for.
SpentMoves ==
    \/ SameApprovals("TreasuryTransfer") /\ SameSpent
    \/ \E p \in ProposalIds :
         OneApproval(p, "TreasuryTransfer") /\ treasury'.total_spent = treasury.total_spent + Act(p).amount

CreatedMoves ==
    \/ SameApprovals("CreateVestingStream") /\ SameCreated
    \/ \E p \in ProposalIds :
         OneApproval(p, "CreateVestingStream") /\ treasury'.stream_count = treasury.stream_count + 1

RevokedMoves ==
    \/ SameApprovals("RevokeVestingStream") /\ SameRevoked
    \/ \E p \in ProposalIds :
         OneApproval(p, "RevokeVestingStream") /\ Revoked' = Revoked \cup {Act(p).stream_id}

CapMoves ==
    \/ SameApprovals("SetTreasurySpendCap") /\ SameCap
    \/ \E p \in ProposalIds :
         OneApproval(p, "SetTreasurySpendCap") /\ treasury'.epoch_spend_cap = Act(p).new_cap

RateMoves ==
    \/ SameApprovals("SetStakingRewardRate") /\ SameRate
    \/ \E p \in ProposalIds :
         OneApproval(p, "SetStakingRewardRate") /\ pool'.reward_rate = Act(p).new_rate

BookMoves == SpentMoves /\ CreatedMoves /\ RevokedMoves /\ CapMoves /\ RateMoves

LEMMA ExecutingApproves ==
    ASSUME Standing, NEW p \in ProposalIds, NEW kind, Executing(p, kind)
    PROVE  /\ OneApproval(p, kind)
           /\ \A other : other # kind => SameApprovals(other)
<1> USE DEF Standing, TypeOK, SpentElsewhere, Executing, Executed, Act
<1>1. OneApproval(p, kind)
  BY DEF OneApproval
<1>2. ASSUME NEW other, other # kind
      PROVE  SameApprovals(other)
  BY <1>2 DEF SameApprovals
<1> QED BY <1>1, <1>2

LEMMA NothingApproved ==
    ASSUME Standing, NEW kind,
           UNCHANGED elsewhere,
           \/ UNCHANGED mandates
           \/ \E p \in ProposalIds : \E act, delay : Grant(p, act, delay)
           \/ \E p \in ProposalIds : Void(p)
    PROVE  SameApprovals(kind)
<1> USE DEF Standing, TypeOK, Executed, Act, SameApprovals
<1>1. CASE UNCHANGED mandates
  BY <1>1
<1>2. CASE \E p \in ProposalIds : \E act, delay : Grant(p, act, delay)
  BY <1>2 DEF Grant
<1>3. CASE \E p \in ProposalIds : Void(p)
  BY <1>3 DEF Void, Idle
<1> QED BY <1>1, <1>2, <1>3

LEMMA ProposalIdsNumbered ==
    /\ Cardinality(ProposalIds) \in Nat
    /\ ProposalIds = 0 .. Cardinality(ProposalIds) - 1
BY HelixAssumption, FS_CardinalityType

LEMMA TransferredTyped ==
    ASSUME Standing
    PROVE  Transferred \in [0 .. Cardinality(ProposalIds) - 1 -> Int]
<1>1. ASSUME NEW p \in Executed("TreasuryTransfer")
      PROVE  Act(p).amount \in Int
  BY HelixAssumption DEF Executed, Standing, Granted
<1> QED BY <1>1, ProposalIdsNumbered DEF Transferred

LEMMA SpentKept ==
    ASSUME Standing, Standing', SpentAsApproved,
           SpentMoves
    PROVE  SpentAsApproved'
<1>t. Transferred \in [0 .. Cardinality(ProposalIds) - 1 -> Int]
  BY TransferredTyped
<1>u. Transferred' \in [0 .. Cardinality(ProposalIds) - 1 -> Int]
  <2>1. ASSUME NEW p \in Executed("TreasuryTransfer")'
        PROVE  Act(p)'.amount \in Int
    BY <2>1, HelixAssumption DEF Executed, Act, Standing, Granted
  <2> QED BY <2>1, ProposalIdsNumbered DEF Transferred
<1>1. CASE SameApprovals("TreasuryTransfer") /\ SameSpent
  <2>1. Transferred' = Transferred
    BY <1>1 DEF Transferred, SameApprovals
  <2> QED BY <1>1, <2>1 DEF SpentAsApproved, SameSpent
<1>2. ASSUME NEW p \in ProposalIds, OneApproval(p, "TreasuryTransfer"),
             treasury'.total_spent = treasury.total_spent + Act(p).amount
      PROVE  SpentAsApproved'
  <2>1. \A q \in ProposalIds : q # p => Transferred'[q] = Transferred[q]
    BY <1>2 DEF Transferred, OneApproval
  <2>2. Transferred[p] = 0 /\ Transferred'[p] = Act(p).amount
    BY <1>2 DEF Transferred, OneApproval
  <2>3. SumTo(Transferred', Cardinality(ProposalIds))
          = SumTo(Transferred, Cardinality(ProposalIds)) + Transferred'[p] - Transferred[p]
    BY <1>t, <1>u, <2>1, ProposalIdsNumbered, SumUpdate
  <2>4. SumTo(Transferred, Cardinality(ProposalIds)) \in Int /\ Transferred'[p] \in Int
    BY <1>t, <1>u, ProposalIdsNumbered, SumType
  <2>5. SumTo(Transferred', Cardinality(ProposalIds)) = treasury'.total_spent
    BY <1>2, <2>2, <2>3, <2>4 DEF SpentAsApproved
  <2> QED BY <2>5 DEF SpentAsApproved
<1> QED BY <1>1, <1>2 DEF SpentMoves

LEMMA CreatedKept ==
    ASSUME CreatedAsApproved,
           CreatedMoves
    PROVE  CreatedAsApproved'
<1>1. IsFiniteSet(Executed("CreateVestingStream"))
  BY HelixAssumption, FS_Subset DEF Executed
<1>2. CASE SameApprovals("CreateVestingStream") /\ SameCreated
  BY <1>2 DEF SameApprovals, SameCreated, CreatedAsApproved
<1>3. ASSUME NEW p \in ProposalIds, OneApproval(p, "CreateVestingStream"),
             treasury'.stream_count = treasury.stream_count + 1
      PROVE  CreatedAsApproved'
  <2>1. Cardinality(Executed("CreateVestingStream") \cup {p})
          = Cardinality(Executed("CreateVestingStream")) + 1
    BY <1>1, <1>3, FS_AddElement DEF OneApproval
  <2> QED BY <1>3, <2>1 DEF OneApproval, CreatedAsApproved
<1> QED BY <1>2, <1>3 DEF CreatedMoves

LEMMA RevokedKept ==
    ASSUME RevokedAsApproved,
           RevokedMoves
    PROVE  RevokedAsApproved'
BY DEF RevokedMoves, RevokedAsApproved, SameApprovals, SameRevoked, OneApproval

LEMMA CapKept ==
    ASSUME CapAsApproved, UNCHANGED opening,
           CapMoves
    PROVE  CapAsApproved'
BY DEF CapMoves, CapAsApproved, SameApprovals, SameCap, OneApproval

LEMMA RateKept ==
    ASSUME RateAsApproved,
           RateMoves
    PROVE  RateAsApproved'
BY DEF RateMoves, RateAsApproved, SameApprovals, SameRate, OneApproval

LEMMA SInvInit == ASSUME Init PROVE SInv
<1>1. KInv
  BY KInvInit
<1>2. PoolBook /\ TreasuryBook /\ Untouched
  BY DEF Init, PoolBook, TreasuryBook, Untouched, Staking!initial_pool,
     Treasuries!initial_treasury, Treasuries!NoStream, Treasuries!Exists, NotOpened
<1>3. ~Governed
  BY DEF Init, Governed, NotOpened
<1> QED BY <1>1, <1>2, <1>3 DEF SInv

\* An execution moves the book of its kind, by its own proposal's terms, and no
\* other book.
LEMMA ExecuteBooks ==
    ASSUME Standing, PoolBook, TreasuryBook, ExecuteNext
    PROVE  PoolBook' /\ TreasuryBook' /\ BookMoves
<1>p. UNCHANGED pool => PoolBook' /\ SameRate
  BY DEF PoolBook, SameRate
<1>t. UNCHANGED treasury_vars
        => TreasuryBook' /\ SameSpent /\ SameCreated /\ SameRevoked /\ SameCap
  BY UntouchedBooks
<1> USE DEF BookMoves, SpentMoves, CreatedMoves, RevokedMoves, CapMoves, RateMoves
<1>x. ASSUME NEW p \in ProposalIds, NEW kind, ExecuteOn(p, TRUE), Act(p).kind = kind
      PROVE  /\ OneApproval(p, kind) /\ Act(p) \in Acts
             /\ \A other : other # kind => SameApprovals(other)
  BY <1>x, ExecuteIsExecuting, ExecutingApproves
<1>1. ASSUME NEW p \in ProposalIds, execute_treasury_transfer(p)
      PROVE  PoolBook' /\ TreasuryBook' /\ BookMoves
  <2>1. ExecuteOn(p, TRUE) /\ Act(p).kind = "TreasuryTransfer" /\ UNCHANGED pool
    BY <1>1 DEF execute_treasury_transfer
  <2>2. Act(p).amount \in Nat
    BY <2>1, <1>x, HelixAssumption
  <2>3. /\ TreasuryBook' /\ SameCreated /\ SameRevoked /\ SameCap
        /\ treasury'.total_spent = treasury.total_spent + Act(p).amount
    BY <1>1, <2>2, SpendBooks DEF execute_treasury_transfer
  <2> QED BY <2>1, <2>3, <1>x, <1>p
<1>2. ASSUME NEW p \in ProposalIds, NEW id \in Treasuries!StreamIds,
             execute_create_vesting_stream(p, TRUE, id)
      PROVE  PoolBook' /\ TreasuryBook' /\ BookMoves
  <2>1. ExecuteOn(p, TRUE) /\ Act(p).kind = "CreateVestingStream" /\ UNCHANGED pool
    BY <1>2 DEF execute_create_vesting_stream
  <2>2. /\ TreasuryBook' /\ SameSpent /\ SameRevoked /\ SameCap
        /\ treasury'.stream_count = treasury.stream_count + 1
    BY <1>2, CreateBooks DEF execute_create_vesting_stream
  <2> QED BY <2>1, <2>2, <1>x, <1>p
<1>3. ASSUME NEW p \in ProposalIds, execute_revoke_vesting_stream(p, TRUE)
      PROVE  PoolBook' /\ TreasuryBook' /\ BookMoves
  <2>1. ExecuteOn(p, TRUE) /\ Act(p).kind = "RevokeVestingStream" /\ UNCHANGED pool
    BY <1>3 DEF execute_revoke_vesting_stream
  <2>2. Act(p).stream_id \in Treasuries!StreamIds
    BY <2>1, <1>x, HelixAssumption DEF Treasuries!StreamIds
  <2>3. /\ TreasuryBook' /\ SameSpent /\ SameCreated /\ SameCap
        /\ Revoked' = Revoked \cup {Act(p).stream_id}
    BY <1>3, <2>2, RevokeBooks DEF execute_revoke_vesting_stream
  <2> QED BY <2>1, <2>3, <1>x, <1>p
<1>4. ASSUME NEW p \in ProposalIds, execute_set_treasury_spend_cap(p, TRUE)
      PROVE  PoolBook' /\ TreasuryBook' /\ BookMoves
  <2>1. ExecuteOn(p, TRUE) /\ Act(p).kind = "SetTreasurySpendCap" /\ UNCHANGED pool
    BY <1>4 DEF execute_set_treasury_spend_cap
  <2>2. /\ TreasuryBook' /\ SameSpent /\ SameCreated /\ SameRevoked
        /\ treasury'.epoch_spend_cap = Act(p).new_cap
    BY <1>4, CapBooks DEF execute_set_treasury_spend_cap
  <2> QED BY <2>1, <2>2, <1>x, <1>p
<1>5. ASSUME NEW p \in ProposalIds, execute_set_staking_reward_rate(p)
      PROVE  PoolBook' /\ TreasuryBook' /\ BookMoves
  <2>1. ExecuteOn(p, TRUE) /\ Act(p).kind = "SetStakingRewardRate" /\ UNCHANGED treasury_vars
    BY <1>5 DEF execute_set_staking_reward_rate
  <2>2. PoolBook' /\ pool'.reward_rate = Act(p).new_rate
    BY <1>5 DEF execute_set_staking_reward_rate, Staking!set_reward_rate,
       Staking!update_rewards, PoolBook
  <2> QED BY <2>1, <2>2, <1>x, <1>t
<1>6. ASSUME NEW p \in ProposalIds, execute_set_governance_executor(p, TRUE)
      PROVE  PoolBook' /\ TreasuryBook' /\ BookMoves
  <2>1. ExecuteOn(p, TRUE) /\ Act(p).kind = "SetGovernanceExecutor" /\ UNCHANGED pool
    BY <1>6 DEF execute_set_governance_executor
  <2>2. TreasuryBook' /\ SameSpent /\ SameCreated /\ SameRevoked /\ SameCap
    BY <1>6 DEF execute_set_governance_executor, Treasuries!set_governance_executor, TreasuryBook,
       Treasuries!Exists, SameSpent, SameCreated, SameRevoked, SameCap, Revoked
  <2> QED BY <2>1, <2>2, <1>x, <1>p
<1>7. ASSUME NEW p \in ProposalIds,
             \/ execute_signal(p)
             \/ execute_accept_token_manager_admin(p, TRUE)
             \/ execute_set_token_paused(p, TRUE)
             \/ execute_propose_token_admin(p, TRUE)
             \/ execute_register_minter(p, TRUE)
             \/ \E a \in Tokens!Authorities :
                  execute_update_minter(p, TRUE, a) \/ execute_revoke_minter(p, TRUE, a)
             \/ execute_set_realm_authority(p)
      PROVE  PoolBook' /\ TreasuryBook' /\ BookMoves
  <2>1. /\ ExecuteOn(p, TRUE) /\ UNCHANGED pool /\ UNCHANGED treasury_vars
        /\ Act(p).kind \notin {"TreasuryTransfer", "CreateVestingStream", "RevokeVestingStream",
                              "SetTreasurySpendCap", "SetStakingRewardRate"}
    BY <1>7 DEF execute_signal, execute_accept_token_manager_admin, execute_set_token_paused,
       execute_propose_token_admin, execute_register_minter, execute_update_minter,
       execute_revoke_minter, execute_set_realm_authority, programs
  <2> QED BY <2>1, <1>x, <1>p, <1>t
<1>8. ASSUME NEW p \in ProposalIds, ExecutedElsewhere(p)
      PROVE  PoolBook' /\ TreasuryBook' /\ BookMoves
  <2>1. UNCHANGED pool /\ UNCHANGED treasury_vars /\ \A kind : SameApprovals(kind)
    BY <1>8, ElsewhereMoves DEF SameApprovals, programs
  <2> QED BY <2>1, <1>p, <1>t
<1>9. PICK p \in ProposalIds : ExecutedHere(p) \/ ExecutedElsewhere(p)
  BY HereOrElsewhere
<1> QED BY <1>1, <1>2, <1>3, <1>4, <1>5, <1>6, <1>7, <1>8, <1>9 DEF ExecutedHere

\* The fields and the types, through every step.
LEMMA BooksTyped ==
    ASSUME KInv, PoolBook, TreasuryBook, [Next]_vars
    PROVE  PoolBook' /\ TreasuryBook'
<1>s. Standing
  BY DEF KInv, Standing
<1>p. UNCHANGED pool => PoolBook'
  BY DEF PoolBook
<1>t. UNCHANGED treasury_vars => TreasuryBook'
  BY UntouchedBooks
<1>1. ASSUME NEW authority, initialize_pool(authority)
      PROVE  PoolBook'
  BY <1>1 DEF initialize_pool, Staking!initial_pool, PoolBook
<1>2. ASSUME NEW executor, NEW cap, NEW duration, initialize_treasury(executor, cap, duration)
      PROVE  TreasuryBook'
  BY <1>2 DEF initialize_treasury, Treasuries!initial_treasury, TreasuryBook, Treasuries!Exists
<1>3. ASSUME NEW signer, NEW rate, NEW end, Staking!set_reward_rate(signer, rate, end)
      PROVE  PoolBook'
  BY <1>3 DEF Staking!set_reward_rate, Staking!update_rewards, PoolBook
<1>4. CASE \E cap \in Caps, duration \in Durations : plan(cap, duration)
  BY <1>4, <1>1, <1>2 DEF plan
<1>5. CASE initialize_alone
  BY <1>5, <1>1, <1>2, <1>p, <1>t DEF initialize_alone
<1>6. CASE \/ \E what \in DOMAIN privileged_parties : observe(what)
           \/ verify
           \/ \E p \in ProposalIds, act \in Acts,
                  delay \in MIN_TIMELOCK_DELAY .. MAX_TIMELOCK_DELAY : queue_proposal(p, act, delay)
           \/ \E signer \in Keys, p \in ProposalIds : cancel_proposal(signer, p)
           \/ \E step \in Steps : Tick(step)
           \/ UNCHANGED vars
  BY <1>6, <1>p, <1>t
     DEF observe, verify, queue_proposal, cancel_proposal, Tick, vars, programs
<1>7. CASE pool_instruction
  <2>1. ASSUME NEW signer, NEW paused, NEW successor,
               \/ Staking!set_paused(signer, paused)
               \/ Staking!propose_authority(signer, successor)
               \/ Staking!accept_authority(signer)
        PROVE  PoolBook'
    BY <2>1 DEF Staking!set_paused, Staking!propose_authority, Staking!accept_authority, PoolBook
  <2> QED BY <1>7, <2>1, <1>3, <1>t DEF pool_instruction
<1>8. CASE treasury_instruction
  <2>1. PoolBook'
    BY <1>8, <1>p DEF treasury_instruction
  <2>2. ASSUME NEW signer \in Keys, NEW amount \in SpendAmounts, NEW to_vault \in BOOLEAN,
               Treasuries!spend(signer, amount, to_vault)
        PROVE  TreasuryBook'
    BY <2>2, SpendBooks, HelixAssumption
  <2>3. ASSUME NEW signer, NEW cap, NEW duration, NEW id \in Treasuries!StreamIds,
               NEW beneficiary, NEW amount, NEW schedule,
               \/ Treasuries!set_spend_cap(signer, cap, duration)
               \/ Treasuries!create_stream(signer, id, beneficiary, amount, schedule)
               \/ Treasuries!revoke_stream(signer, id)
        PROVE  TreasuryBook'
    BY <2>3, CapBooks, CreateBooks, RevokeBooks
  <2>4. ASSUME NEW signer, NEW cap, NEW duration, Treasuries!set_spend_cap(signer, cap, duration)
        PROVE  TreasuryBook'
    BY <2>4, CapBooks
  <2>5. ASSUME NEW amount, Treasuries!deposit(amount, 0)
        PROVE  TreasuryBook'
    BY <2>5 DEF Treasuries!deposit, TreasuryBook, Treasuries!Exists
  <2>6. ASSUME NEW signer, NEW id \in Treasuries!StreamIds, Treasuries!claim_stream(signer, id)
        PROVE  TreasuryBook'
    BY <2>6, OtherBooks
  <2>7. ASSUME NEW signer, NEW executor, Treasuries!set_governance_executor(signer, executor)
        PROVE  TreasuryBook'
    BY <2>7 DEF Treasuries!set_governance_executor, TreasuryBook, Treasuries!Exists
  <2> QED BY <1>8, <2>1, <2>2, <2>3, <2>4, <2>5, <2>6, <2>7 DEF treasury_instruction
<1>9. CASE token_instruction
  BY <1>9, <1>p, <1>t DEF token_instruction
<1>10. CASE ExecuteNext
  BY <1>s, <1>10, ExecuteBooks
<1> QED BY <1>4, <1>5, <1>6, <1>7, <1>8, <1>9, <1>10 DEF Next

NothingQueued == ~opening.clean /\ \A p \in ProposalIds : ~Execute(p)

LEMMA QuietBeforeAudit ==
    ASSUME KInv, ~opening.clean
    PROVE  NothingQueued
BY DEF KInv, Granted, Execute, Open, NothingQueued

\* The parts of Untouched.
PoolUntouched == pool.authority \notin Keys => pool.reward_rate = 0

TreasuryUntouched ==
    /\ vault = 0 /\ treasury.committed_to_streams = 0
    /\ treasury.total_spent = 0 /\ treasury.stream_count = 0
    /\ \A id \in Treasuries!StreamIds : ~Treasuries!Exists(id)

LEMMA UntouchedKept ==
    ASSUME SInv, [Next]_vars, ~opening'.clean
    PROVE  PoolUntouched' /\ TreasuryUntouched'
<1>1. ~opening.clean
  BY StepMoves DEF SInv, KInv, Standing, Moves, AuditMoves, observe, verify
<1>2. NothingQueued
  BY <1>1, QuietBeforeAudit DEF SInv
<1>3. ~ExecuteNext
  BY <1>2 DEF NothingQueued, ExecuteNext, ExecuteOn, execute_signal, execute_treasury_transfer,
     execute_create_vesting_stream, execute_revoke_vesting_stream,
     execute_set_treasury_spend_cap, execute_set_governance_executor,
     execute_set_staking_reward_rate, execute_accept_token_manager_admin,
     execute_set_token_paused, execute_propose_token_admin, execute_register_minter,
     execute_update_minter, execute_revoke_minter, execute_set_realm_authority
<1> USE DEF SInv, KInv, TypeOK, Fields, PoolFields, TreasuryFields, PoolBook, TreasuryBook
<1>4. PoolUntouched /\ TreasuryUntouched
  BY <1>1 DEF Untouched, PoolUntouched, TreasuryUntouched
<1>p. UNCHANGED pool => PoolUntouched'
  BY <1>4 DEF PoolUntouched
<1>t. UNCHANGED treasury_vars => TreasuryUntouched'
  BY <1>4 DEF TreasuryUntouched, treasury_vars, Treasuries!Exists
<1>5. ASSUME NEW authority, initialize_pool(authority)
      PROVE  PoolUntouched'
  BY <1>5 DEF initialize_pool, Staking!initial_pool, PoolUntouched
<1>6. ASSUME NEW executor, NEW cap, NEW duration, initialize_treasury(executor, cap, duration)
      PROVE  TreasuryUntouched'
  BY <1>4, <1>6 DEF initialize_treasury, Treasuries!initial_treasury, TreasuryUntouched,
     Treasuries!Exists
<1>7. CASE \E cap \in Caps, duration \in Durations : plan(cap, duration)
  BY <1>7, <1>5, <1>6 DEF plan
<1>8. CASE initialize_alone
  BY <1>8, <1>5, <1>6, <1>p, <1>t DEF initialize_alone
<1>9. CASE \/ \E what \in DOMAIN privileged_parties : observe(what)
           \/ verify
           \/ \E p \in ProposalIds, act \in Acts,
                  delay \in MIN_TIMELOCK_DELAY .. MAX_TIMELOCK_DELAY : queue_proposal(p, act, delay)
           \/ \E signer \in Keys, p \in ProposalIds : cancel_proposal(signer, p)
           \/ \E step \in Steps : Tick(step)
           \/ UNCHANGED vars
  BY <1>9, <1>p, <1>t
     DEF observe, verify, queue_proposal, cancel_proposal, Tick, vars, programs
<1>10. CASE pool_instruction
  <2>1. ASSUME NEW signer \in Keys, NEW rate, NEW end, Staking!set_reward_rate(signer, rate, end)
        PROVE  PoolUntouched'
    BY <2>1 DEF Staking!set_reward_rate, Staking!update_rewards, PoolUntouched
  <2>2. ASSUME NEW signer \in Keys, NEW paused, NEW successor,
               \/ Staking!set_paused(signer, paused)
               \/ Staking!propose_authority(signer, successor)
               \/ Staking!accept_authority(signer)
        PROVE  PoolUntouched'
    BY <1>4, <2>2 DEF Staking!set_paused, Staking!propose_authority, Staking!accept_authority,
       PoolUntouched
  <2> QED BY <1>10, <2>1, <2>2, <1>t DEF pool_instruction
<1>11. CASE treasury_instruction
  <2>1. ASSUME NEW signer, NEW amount \in Nat, NEW to_vault
        PROVE  ~Treasuries!spend(signer, amount, to_vault)
    BY <1>4 DEF TreasuryUntouched, Treasuries!spend, Treasuries!uncommitted
  <2>2. ASSUME NEW signer, NEW amount \in Nat, NEW id, NEW beneficiary, NEW schedule
        PROVE  ~Treasuries!create_stream(signer, id, beneficiary, amount, schedule)
    BY <1>4 DEF TreasuryUntouched, Treasuries!create_stream, Treasuries!uncommitted
  <2>3. ASSUME NEW signer, NEW id \in Treasuries!StreamIds
        PROVE  ~Treasuries!claim_stream(signer, id) /\ ~Treasuries!revoke_stream(signer, id)
    BY <1>4 DEF TreasuryUntouched, Treasuries!claim_stream, Treasuries!CanClaim, Treasuries!revoke_stream
  <2>4. ASSUME NEW signer, NEW cap, NEW duration, NEW executor,
               \/ Treasuries!set_spend_cap(signer, cap, duration)
               \/ Treasuries!set_governance_executor(signer, executor)
        PROVE  TreasuryUntouched'
    BY <1>4, <2>4 DEF TreasuryUntouched, Treasuries!set_spend_cap,
       Treasuries!set_governance_executor, Treasuries!Exists
  <2> QED BY <1>1, <1>11, <2>1, <2>2, <2>3, <2>4, <1>p, HelixAssumption DEF treasury_instruction
<1>12. CASE token_instruction
  BY <1>12, <1>p, <1>t DEF token_instruction
<1> QED BY <1>3, <1>7, <1>8, <1>9, <1>10, <1>11, <1>12 DEF Next

\* Once opened and while governance keeps the treasury, a step outside the
\* execution of a proposal moves no book and approves nothing.
LEMMA OutsideBooks ==
    ASSUME SInv, [Next]_vars, Governed, ~ExecuteNext
    PROVE  BookMoves
<1> USE DEF SInv, KInv, TypeOK, Parties
<1>1. /\ pool.authority = Executor /\ pool.pending_authority = Nobody
      /\ realm.authority # Nobody /\ treasury.governance_executor = Executor
  BY HelixAssumption DEF Governed, KeysOnlyByMandate, Opened, Released, Authority
<1> DEFINE SameBooks == SameSpent /\ SameCreated /\ SameRevoked /\ SameCap
<1>t. UNCHANGED treasury_vars => SameBooks
  BY UntouchedBooks
<1>m. ASSUME \/ UNCHANGED mandates
             \/ \E p \in ProposalIds : \E act, delay : Grant(p, act, delay)
             \/ \E p \in ProposalIds : Void(p),
             UNCHANGED elsewhere, SameBooks, UNCHANGED pool
      PROVE  BookMoves
  BY <1>m, NothingApproved DEF Standing, BookMoves, SpentMoves, CreatedMoves, RevokedMoves,
     CapMoves, RateMoves, SameRate
<1>2. CASE \E cap \in Caps, duration \in Durations : plan(cap, duration)
  BY <1>1, <1>2, HelixAssumption DEF plan, initialize_pool, Deployed
<1>3. CASE initialize_alone
  BY <1>1, <1>3, HelixAssumption
     DEF initialize_alone, initialize_pool, initialize_realm, initialize_treasury, Deployed
<1>4. CASE (\E what \in DOMAIN privileged_parties : observe(what)) \/ verify
  BY <1>4 DEF observe, verify, Governed
<1>5. CASE \/ \E p \in ProposalIds, act \in Acts,
                  delay \in MIN_TIMELOCK_DELAY .. MAX_TIMELOCK_DELAY : queue_proposal(p, act, delay)
           \/ \E signer \in Keys, p \in ProposalIds : cancel_proposal(signer, p)
           \/ \E step \in Steps : Tick(step)
           \/ UNCHANGED vars
  BY <1>5, <1>t, <1>m DEF queue_proposal, cancel_proposal, Tick, vars, programs
<1>6. CASE pool_instruction
  BY <1>1, <1>6, HelixAssumption
     DEF pool_instruction, Staking!set_reward_rate, Staking!set_paused,
         Staking!propose_authority, Staking!accept_authority
<1>7. CASE treasury_instruction
  <2>1. ASSUME NEW signer \in Keys, NEW amount, NEW to_vault, NEW cap, NEW duration,
               NEW executor, NEW id, NEW beneficiary, NEW schedule
        PROVE  /\ ~Treasuries!spend(signer, amount, to_vault)
               /\ ~Treasuries!set_spend_cap(signer, cap, duration)
               /\ ~Treasuries!set_governance_executor(signer, executor)
               /\ ~Treasuries!create_stream(signer, id, beneficiary, amount, schedule)
               /\ ~Treasuries!revoke_stream(signer, id)
    BY <1>1, HelixAssumption
       DEF Treasuries!spend, Treasuries!set_spend_cap, Treasuries!set_governance_executor,
           Treasuries!create_stream, Treasuries!revoke_stream
  <2>2. ASSUME NEW amount, Treasuries!deposit(amount, 0)
        PROVE  SameBooks
    BY <2>2 DEF Treasuries!deposit, TreasuryBook, SameSpent, SameCreated, SameRevoked, SameCap,
       Revoked
  <2>3. ASSUME NEW signer, NEW id \in Treasuries!StreamIds, Treasuries!claim_stream(signer, id)
        PROVE  SameBooks
    BY <2>3, OtherBooks
  <2>4. SameBooks
    BY <1>7, <2>1, <2>2, <2>3 DEF treasury_instruction
  <2> QED BY <1>7, <2>4, <1>m DEF treasury_instruction
<1>8. CASE token_instruction
  BY <1>8, <1>t, <1>m DEF token_instruction
<1> QED BY <1>2, <1>3, <1>4, <1>5, <1>6, <1>7, <1>8 DEF Next

LEMMA ApprovedKept ==
    ASSUME SInv, [Next]_vars, Standing, Standing', Moves, Governed'
    PROVE  AllAsApproved'
<1>1. CASE opening.clean
  <2>1. Governed
    BY <1>1, ExecutedStays DEF Governed, Executed, Act, Moves
  <2>2. BookMoves
    BY <2>1, OutsideBooks, ExecuteBooks DEF SInv
  <2>3. UNCHANGED opening
    BY <1>1 DEF Moves, AuditMoves, observe, verify
  <2> QED BY <2>1, <2>2, <2>3, SpentKept, CreatedKept, RevokedKept, CapKept, RateKept
          DEF SInv, AllAsApproved, BookMoves
<1>2. CASE ~opening.clean
  <2>1. verify
    BY <1>2 DEF Governed, Moves, AuditMoves, observe
  <2>2. UNCHANGED <<mandates, pool, treasury, streams>> /\ opening'.cap = treasury.epoch_spend_cap
    BY <2>1 DEF verify, programs, treasury_vars
  <2>3. \A kind : Executed(kind)' = {}
    BY <1>2, <2>2 DEF Executed, Standing, Granted
  <2>4. SpentAsApproved'
    <3>1. Transferred' = [p \in ProposalIds |-> 0]
      BY <2>3 DEF Transferred
    <3>2. SumTo(Transferred', Cardinality(ProposalIds)) = 0
      BY <3>1, ProposalIdsNumbered, SumOfZeros
    <3> QED BY <1>2, <2>2, <3>2 DEF SpentAsApproved, SInv, Untouched
  <2>5. CreatedAsApproved'
    BY <1>2, <2>2, <2>3, FS_EmptySet DEF CreatedAsApproved, SInv, Untouched
  <2>6. RevokedAsApproved'
    BY <1>2, <2>2, <2>3 DEF RevokedAsApproved, Revoked, SInv, Untouched, TreasuryBook
  <2>7. CapAsApproved'
    BY <2>2 DEF CapAsApproved
  <2>8. RateAsApproved'
    <3>1. pool.authority = Executor
      BY <1>2, <2>1 DEF verify, audit, privileged_parties, SInv, KInv, ReadStays
    <3> QED BY <1>2, <2>2, <3>1, HelixAssumption DEF RateAsApproved, SInv, Untouched
  <2> QED BY <2>4, <2>5, <2>6, <2>7, <2>8 DEF AllAsApproved
<1> QED BY <1>1, <1>2

LEMMA SInvKept == ASSUME SInv, [Next]_vars PROVE SInv'
<1>1. Standing /\ KInv
  BY DEF SInv, KInv, Standing
<1>2. Moves /\ KInv'
  BY <1>1, StepMoves, KInvKept
<1>3. Standing'
  BY <1>2 DEF KInv, Standing
<1>4. PoolBook' /\ TreasuryBook'
  BY <1>1, BooksTyped DEF SInv
<1>5. Untouched'
  BY UntouchedKept DEF Untouched, PoolUntouched, TreasuryUntouched
<1>6. (Governed => AllAsApproved)'
  BY <1>1, <1>2, <1>3, ApprovedKept
<1> QED BY <1>2, <1>4, <1>5, <1>6 DEF SInv

\* For any acts, amounts and interleavings of executions with deposits, claims and
\* whatever keys sign: while governance keeps the treasury, the totals, the streams
\* and the limits are those of the proposals executed on it, each counted once, and
\* those used up on another mint's accounts leave no trace here.
THEOREM AlwaysExactlyAsApproved == Spec => []ExactlyAsApproved
<1>1. Init => SInv
  BY SInvInit
<1>2. SInv /\ [Next]_vars => SInv'
  BY SInvKept
<1>3. SInv => ExactlyAsApproved
  BY DEF SInv, AllAsApproved, SpentAsApproved, CreatedAsApproved, RevokedAsApproved,
     CapAsApproved, RateAsApproved, Revoked, ExactlyAsApproved
<1> QED BY <1>1, <1>2, <1>3, PTL DEF Spec
=============================================================================
