-------------------------------- MODULE Helix --------------------------------
(***************************************************************************)
(* The deployed system: the staking pool, the treasury and the token       *)
(* manager, the realm whose executor signs for governance, and the keys    *)
(* that sign for themselves.  The three programs are their own modules;    *)
(* what they do is theirs, who may ask them to is decided here.            *)
(*                                                                         *)
(* A proposal's life up to its queueing is Mandate, which Governance       *)
(* implements.  An execute_* instruction is one transaction: the mark on   *)
(* the proposal and the CPI it authorises happen together or not at all.   *)
(* On whose treasury or token config it acts, its sender chooses.          *)
(*                                                                         *)
(* Stakers and their positions are not here, nor mint_to and burn: nothing *)
(* they do touches an authority.  opening records that the audit was clean  *)
(* and, as history, the spend cap of that moment.  Nothing is deposited and *)
(* no time passes before it: until then the programs hold nothing.          *)
(* elsewhere is a history variable: what was spent on another mint's account. *)
(***************************************************************************)
EXTENDS Mandate, FiniteSets, FiniteSums

CONSTANTS
    Keys,                   \* whoever can sign a transaction
    Executor,               \* the executor PDA: only an execute_* signs for it
    Nobody,                 \* the authority of an account that does not exist
    Guardian,               \* the guardian the operator planned
    Beneficiaries,
    NumAuthorities,         \* the addresses that may be minters, numbered
    MIN_EPOCH_DURATION, MAX_EPOCH_DURATION, MIN_STREAM_DURATION,
    MAX_REWARD_RATE, MAX_MINTERS, U64_MAX, I64_MAX,
    DepositAmounts, SpendAmounts, StreamAmounts,    \* amounts that may be asked for
    Caps, Durations, Schedules, Rates, PeriodEnds,  \* and other arguments
    MaxStreams,
    Steps, Horizon          \* how the clock jumps, and its bound

\* The ids a proposal counter hands out, and what a proposal may say.
ASSUME HelixAssumption ==
    /\ Executor \notin Keys /\ Nobody \notin Keys \cup {Executor}
    /\ Guardian \in Keys /\ Nobody \notin Beneficiaries
    /\ Steps \subseteq Nat /\ Horizon \in Nat /\ MaxStreams \in Nat
    /\ SpendAmounts \subseteq Nat /\ StreamAmounts \subseteq Nat
    /\ IsFiniteSet(ProposalIds) /\ ProposalIds = 0 .. Cardinality(ProposalIds) - 1
    /\ MIN_TIMELOCK_DELAY \in Nat /\ MAX_TIMELOCK_DELAY \in Nat
    /\ \A act \in Acts :
         /\ act.kind = "TreasuryTransfer" => act.amount \in Nat
         /\ act.kind = "RevokeVestingStream" => act.stream_id \in 0 .. MaxStreams - 1
         /\ act.kind = "SetGovernanceExecutor" => act.new_executor \in Keys \cup {Executor}
         /\ act.kind = "SetRealmAuthority" => act.new_authority \in Keys \cup {Executor}
         /\ act.kind = "ProposeTokenAdmin" => act.new_admin \in Keys \cup {Executor}

VARIABLES
    pool,                   \* the Pool account of programs/staking
    realm,                  \* the Realm account, as far as who controls it
    treasury, vault, streams, spent_at,     \* programs/treasury
    config, minters,        \* programs/token-manager
    observed,               \* what the operator has read for the audit
    opening,
    elsewhere               \* the proposals executed on an account of another mint

treasury_vars == <<treasury, vault, streams, spent_at>>
token_vars == <<config, minters>>
programs == <<pool, realm, treasury_vars, token_vars>>
vars == <<mandates, now, programs, observed, opening, elsewhere>>

Parties == Keys \cup {Executor}

Staking ==
    INSTANCE StakingPool WITH
        Accounts <- Parties, SECONDS_PER_DAY <- 1, PRECISION <- 1, MIN_STAKE_AMOUNT <- 1,
        Tiers <- {}, Amounts <- {}, Fundings <- {}, Donations <- {}, Withdrawals <- {},
        Fees <- {}, TimeSteps <- Steps, MaxTime <- Horizon, MaxPositions <- 0,
        MaxFunded <- 0, MaxDonated <- 0,
        positions <- <<>>, stake_vault <- 0, reward_vault <- MAX_REWARD_RATE * Horizon

Treasuries ==
    INSTANCE Treasury WITH
        Executors <- Parties, NoBeneficiary <- Nobody, Fees <- {0}

Tokens ==
    INSTANCE TokenManager WITH
        Admins <- Parties, NoAdmin <- Nobody, Amounts <- {}, supply <- 0, issued <- <<>>

-----------------------------------------------------------------------------
(* Bootstrap.  The initialisers' accounts are seeded from the mint alone,   *)
(* so there is one of each and the first caller names its authority.        *)

Deployed(authority) == authority # Nobody

initial_realm(authority, guardian) == [authority |-> authority, guardian |-> guardian]

initialize_pool(authority) ==
    /\ ~Deployed(pool.authority)
    /\ pool' = Staking!initial_pool(authority, now)

initialize_realm(authority, guardian) ==
    /\ ~Deployed(realm.authority)
    /\ realm' = initial_realm(authority, guardian)

initialize_treasury(executor, cap, duration) ==
    /\ ~Deployed(treasury.governance_executor)
    /\ duration \in MIN_EPOCH_DURATION .. MAX_EPOCH_DURATION
    /\ treasury' = Treasuries!initial_treasury(executor, cap, duration, now)
    /\ UNCHANGED <<vault, streams, spent_at>>

\* The three in one transaction: any of them taken already, and none lands.
plan(cap, duration) ==
    /\ initialize_pool(Executor)
    /\ initialize_realm(Executor, Guardian)
    /\ initialize_treasury(Executor, cap, duration)
    /\ UNCHANGED <<mandates, now, token_vars, observed, opening, elsewhere>>

\* Anybody may call one of them alone, before the plan lands or instead of it.
\* A realm is created from an existing pool.
initialize_alone ==
    /\ \/ /\ \E authority \in Parties : initialize_pool(authority)
          /\ UNCHANGED <<realm, treasury_vars>>
       \/ /\ Deployed(pool.authority)
          /\ \E authority, guardian \in Parties : initialize_realm(authority, guardian)
          /\ UNCHANGED <<pool, treasury_vars>>
       \/ /\ \E executor \in Parties, cap \in Caps, duration \in Durations :
               initialize_treasury(executor, cap, duration)
          /\ UNCHANGED <<pool, realm>>
    /\ UNCHANGED <<mandates, now, token_vars, observed, opening, elsewhere>>

privileged_parties ==
    [pool_authority   |-> Executor, realm_authority |-> Executor,
     treasury_spender |-> Executor, guardian        |-> Guardian]

ObservedAuthorities ==
    [pool_authority   |-> pool.authority, realm_authority |-> realm.authority,
     treasury_spender |-> treasury.governance_executor, guardian |-> realm.guardian]

Unread == Nobody
NotObserved == [what \in DOMAIN privileged_parties |-> Unread]
NotOpened == [clean |-> FALSE, cap |-> 0]

\* The operator reads the accounts one by one, while others act.
observe(what) ==
    /\ ~opening.clean
    /\ observed[what] = Unread
    /\ Deployed(ObservedAuthorities[what])
    /\ observed' = [observed EXCEPT ![what] = ObservedAuthorities[what]]
    /\ UNCHANGED <<mandates, now, programs, opening, elsewhere>>

\* Mutant: the pool's authority is not compared.
audit_without_pool(found) ==
    {what \in DOMAIN privileged_parties \ {"pool_authority"} :
        found[what] # privileged_parties[what]}

\* The authorities that are not what the plan said.
audit(found) ==
    {what \in DOMAIN privileged_parties : found[what] # privileged_parties[what]}

\* --verify: a clean report opens the system for use.
verify ==
    /\ ~opening.clean
    /\ \A what \in DOMAIN observed : observed[what] # Unread
    /\ audit(observed) = {}
    /\ opening' = [clean |-> TRUE, cap |-> treasury.epoch_spend_cap]
    /\ observed' = NotObserved
    /\ UNCHANGED <<mandates, now, programs, elsewhere>>

Init ==
    /\ now = 0 /\ MandateInit
    /\ pool = Staking!initial_pool(Nobody, 0)
    /\ realm = initial_realm(Nobody, Nobody)
    /\ treasury = Treasuries!initial_treasury(Nobody, 0, 1, 0)
    /\ vault = 0
    /\ streams = [id \in Treasuries!StreamIds |-> Treasuries!NoStream]
    /\ spent_at = [t \in Treasuries!Times |-> 0]
    /\ \E key \in Keys :
         config = [admin |-> key, pending_admin |-> Nobody, paused |-> FALSE,
                   total_minted |-> 0, total_burned |-> 0, minter_count |-> 0]
    /\ minters = [a \in Tokens!Authorities |-> Tokens!NoMinter]
    /\ observed = NotObserved
    /\ opening = NotOpened
    /\ elsewhere = {}

-----------------------------------------------------------------------------
(* Execution.  The arguments are the proposal's.  The accounts are passed by *)
(* whoever sends the transaction, and a proposal fixes only some of them:    *)
(* the pool is the realm's own, and a transfer's destination is a token      *)
(* account of one mint, which has one treasury.  For the rest any treasury   *)
(* or token config will do that obeys the executor, of another mint as well, *)
(* and within a config any minter.                                           *)

Act(p) == mandates[p].act

\* here: the sender passes the accounts of this system.
ExecuteOn(p, here) ==
    /\ Execute(p)
    /\ elsewhere' = IF here THEN elsewhere ELSE elsewhere \cup {p}

\* What the called program asks of the arguments, whichever account it is given.
ArgumentsAccepted(act) ==
    /\ act.kind = "CreateVestingStream" =>
         /\ act.amount > 0
         /\ act.schedule.start_ts <= act.schedule.cliff_ts
         /\ act.schedule.cliff_ts <= act.schedule.end_ts
         /\ Treasuries!saturating_sub(act.schedule.end_ts, act.schedule.start_ts)
              >= MIN_STREAM_DURATION
    /\ act.kind = "SetTreasurySpendCap" =>
         act.epoch_duration \in MIN_EPOCH_DURATION .. MAX_EPOCH_DURATION
    /\ act.kind = "RegisterMinter" => act.epoch_duration >= MIN_EPOCH_DURATION
    /\ act.kind = "ProposeTokenAdmin" => act.new_admin # Executor

\* A treasury or a config of another mint, which is not kept here: anybody may
\* initialise one, name the executor in it, which need not sign, and bring it to
\* a state in which the call succeeds.  Nothing of this system changes.
OnAnotherMint(p) ==
    /\ ArgumentsAccepted(Act(p))
    /\ UNCHANGED <<treasury_vars, token_vars, now>>

execute_signal(p) ==
    /\ Act(p).kind = "Signal"
    /\ ExecuteOn(p, TRUE)
    /\ UNCHANGED programs

\* Mutant: a refused transfer consumes the proposal.
execute_treasury_transfer_halfway(p) ==
    /\ Act(p).kind = "TreasuryTransfer"
    /\ ExecuteOn(p, TRUE)
    /\ \/ Treasuries!spend(Executor, Act(p).amount, Act(p).to_vault)
       \/ /\ ~ Treasuries!CanCharge(treasury, Act(p).amount, now)
          /\ UNCHANGED <<treasury_vars, now>>
    /\ UNCHANGED <<pool, realm, token_vars>>

execute_treasury_transfer(p) ==
    /\ Act(p).kind = "TreasuryTransfer"
    /\ ExecuteOn(p, TRUE)
    /\ Treasuries!spend(Executor, Act(p).amount, Act(p).to_vault)
    /\ UNCHANGED <<pool, realm, token_vars>>

execute_create_vesting_stream(p, here, stream_id) ==
    /\ Act(p).kind = "CreateVestingStream"
    /\ ExecuteOn(p, here)
    /\ \/ here /\ Treasuries!create_stream(Executor, stream_id,
                                           Act(p).beneficiary, Act(p).amount, Act(p).schedule)
       \/ ~here /\ OnAnotherMint(p)
    /\ UNCHANGED <<pool, realm, token_vars>>

execute_revoke_vesting_stream(p, here) ==
    /\ Act(p).kind = "RevokeVestingStream"
    /\ ExecuteOn(p, here)
    /\ \/ here /\ Treasuries!revoke_stream(Executor, Act(p).stream_id)
       \/ ~here /\ OnAnotherMint(p)
    /\ UNCHANGED <<pool, realm, token_vars>>

execute_set_treasury_spend_cap(p, here) ==
    /\ Act(p).kind = "SetTreasurySpendCap"
    /\ ExecuteOn(p, here)
    /\ \/ here /\ Treasuries!set_spend_cap(Executor, Act(p).new_cap, Act(p).epoch_duration)
       \/ ~here /\ OnAnotherMint(p)
    /\ UNCHANGED <<pool, realm, token_vars>>

execute_set_governance_executor(p, here) ==
    /\ Act(p).kind = "SetGovernanceExecutor"
    /\ ExecuteOn(p, here)
    /\ \/ here /\ Treasuries!set_governance_executor(Executor, Act(p).new_executor)
       \/ ~here /\ OnAnotherMint(p)
    /\ UNCHANGED <<pool, realm, token_vars>>

execute_set_staking_reward_rate(p) ==
    /\ Act(p).kind = "SetStakingRewardRate"
    /\ ExecuteOn(p, TRUE)
    /\ Staking!set_reward_rate(Executor, Act(p).new_rate, Act(p).reward_period_end)
    /\ UNCHANGED <<realm, treasury_vars, token_vars>>

execute_accept_token_manager_admin(p, here) ==
    /\ Act(p).kind = "AcceptTokenManagerAdmin"
    /\ ExecuteOn(p, here)
    /\ \/ here /\ Tokens!accept_admin(Executor)
       \/ ~here /\ OnAnotherMint(p)
    /\ UNCHANGED <<pool, realm, treasury_vars>>

execute_set_token_paused(p, here) ==
    /\ Act(p).kind = "SetTokenPaused"
    /\ ExecuteOn(p, here)
    /\ \/ here /\ Tokens!set_paused(Executor, Act(p).paused)
       \/ ~here /\ OnAnotherMint(p)
    /\ UNCHANGED <<pool, realm, treasury_vars>>

execute_propose_token_admin(p, here) ==
    /\ Act(p).kind = "ProposeTokenAdmin"
    /\ ExecuteOn(p, here)
    /\ \/ here /\ Tokens!propose_admin(Executor, Act(p).new_admin)
       \/ ~here /\ OnAnotherMint(p)
    /\ UNCHANGED <<pool, realm, treasury_vars>>

execute_register_minter(p, here) ==
    /\ Act(p).kind = "RegisterMinter"
    /\ ExecuteOn(p, here)
    /\ \/ here /\ Tokens!register_minter(Executor, Act(p).authority,
                                         Act(p).epoch_cap, Act(p).epoch_duration)
       \/ ~here /\ OnAnotherMint(p)
    /\ UNCHANGED <<pool, realm, treasury_vars>>

execute_update_minter(p, here, a) ==
    /\ Act(p).kind = "UpdateMinter"
    /\ ExecuteOn(p, here)
    /\ \/ here /\ Tokens!update_minter(Executor, a, Act(p).epoch_cap, Act(p).enabled)
       \/ ~here /\ OnAnotherMint(p)
    /\ UNCHANGED <<pool, realm, treasury_vars>>

execute_revoke_minter(p, here, a) ==
    /\ Act(p).kind = "RevokeMinter"
    /\ ExecuteOn(p, here)
    /\ \/ here /\ Tokens!revoke_minter(Executor, a)
       \/ ~here /\ OnAnotherMint(p)
    /\ UNCHANGED <<pool, realm, treasury_vars>>

\* The parameters are Governance's; who controls the realm is kept here.
execute_set_realm_authority(p) ==
    /\ Act(p).kind = "SetRealmAuthority"
    /\ ExecuteOn(p, TRUE)
    /\ realm' = [realm EXCEPT !.authority = Act(p).new_authority]
    /\ UNCHANGED <<pool, treasury_vars, token_vars, now>>

ExecuteNext ==
    /\ \E p \in ProposalIds, here \in BOOLEAN :
         \/ execute_signal(p) /\ UNCHANGED now
         \/ execute_treasury_transfer(p)
         \/ \E stream_id \in Treasuries!StreamIds :
              execute_create_vesting_stream(p, here, stream_id)
         \/ execute_revoke_vesting_stream(p, here)
         \/ execute_set_treasury_spend_cap(p, here)
         \/ execute_set_governance_executor(p, here)
         \/ execute_set_staking_reward_rate(p)
         \/ execute_accept_token_manager_admin(p, here)
         \/ execute_set_token_paused(p, here)
         \/ execute_propose_token_admin(p, here)
         \/ execute_register_minter(p, here)
         \/ \E a \in Tokens!Authorities :
              execute_update_minter(p, here, a) \/ execute_revoke_minter(p, here, a)
         \/ execute_set_realm_authority(p)
    /\ UNCHANGED <<observed, opening>>

-----------------------------------------------------------------------------
(* What needs no executor: the vote up to the queue, the guardian's veto,   *)
(* and what a key signs for itself, in a program that obeys it.             *)

\* RUNBOOK.md, step 5: nobody uses a system whose audit was not clean.
queue_proposal(p, act, delay) ==
    /\ opening.clean
    /\ Grant(p, act, delay)
    /\ UNCHANGED <<now, programs, observed, opening, elsewhere>>

cancel_proposal(signer, p) ==
    /\ signer = realm.guardian
    /\ mandates[p].status = "Queued"
    /\ Void(p)
    /\ UNCHANGED <<now, programs, observed, opening, elsewhere>>

pool_instruction ==
    /\ \E signer \in Keys :
         \/ \E rate \in Rates, end \in PeriodEnds : Staking!set_reward_rate(signer, rate, end)
         \/ \E paused \in BOOLEAN : Staking!set_paused(signer, paused)
         \/ \E successor \in Parties : Staking!propose_authority(signer, successor)
         \/ Staking!accept_authority(signer)
    /\ UNCHANGED <<mandates, realm, treasury_vars, token_vars, observed, opening, elsewhere>>

treasury_instruction ==
    /\ \/ /\ opening.clean
          /\ \E amount \in DepositAmounts : Treasuries!deposit(amount, 0)
       \/ \E signer \in Beneficiaries, id \in Treasuries!StreamIds :
            Treasuries!claim_stream(signer, id)
       \/ \E signer \in Keys :
            \/ \E amount \in SpendAmounts, to_vault \in BOOLEAN :
                 Treasuries!spend(signer, amount, to_vault)
            \/ \E cap \in Caps, duration \in Durations :
                 Treasuries!set_spend_cap(signer, cap, duration)
            \/ \E executor \in Parties : Treasuries!set_governance_executor(signer, executor)
            \/ \E id \in Treasuries!StreamIds :
                 \/ \E beneficiary \in Beneficiaries, amount \in StreamAmounts,
                       schedule \in Schedules :
                      Treasuries!create_stream(signer, id, beneficiary, amount, schedule)
                 \/ Treasuries!revoke_stream(signer, id)
    /\ UNCHANGED <<mandates, pool, realm, token_vars, observed, opening, elsewhere>>

token_instruction ==
    /\ \E signer \in Keys :
         \/ \E a \in Tokens!Authorities :
              \/ \E cap \in Caps, duration \in Durations :
                   Tokens!register_minter(signer, a, cap, duration)
              \/ \E cap \in Caps, enabled \in BOOLEAN :
                   Tokens!update_minter(signer, a, cap, enabled)
              \/ Tokens!revoke_minter(signer, a)
         \/ \E new_admin \in Parties : Tokens!propose_admin(signer, new_admin)
         \/ Tokens!cancel_admin_transfer(signer)
         \/ Tokens!accept_admin(signer)
         \/ \E paused \in BOOLEAN : Tokens!set_paused(signer, paused)
    /\ UNCHANGED <<mandates, pool, realm, treasury_vars, observed, opening, elsewhere>>

Tick(step) ==
    /\ opening.clean
    /\ step > 0
    /\ now + step <= Horizon
    /\ now' = now + step
    /\ UNCHANGED <<mandates, programs, observed, opening, elsewhere>>

Next ==
    \/ \E cap \in Caps, duration \in Durations : plan(cap, duration)
    \/ initialize_alone
    \/ \E what \in DOMAIN privileged_parties : observe(what)
    \/ verify
    \/ \E p \in ProposalIds, act \in Acts, delay \in MIN_TIMELOCK_DELAY .. MAX_TIMELOCK_DELAY :
         queue_proposal(p, act, delay)
    \/ \E signer \in Keys, p \in ProposalIds : cancel_proposal(signer, p)
    \/ ExecuteNext
    \/ pool_instruction
    \/ treasury_instruction
    \/ token_instruction
    \/ \E step \in Steps : Tick(step)

Spec == Init /\ [][Next]_vars

-----------------------------------------------------------------------------
(* Properties. *)

Authority == Parties \cup {Nobody}

TypeOK ==
    /\ mandates \in [ProposalIds -> [status : {"None", "Queued", "Executed", "Void"},
                                     act : Acts \cup {NoAct}, eta : Nat]]
    /\ now \in 0 .. Horizon
    /\ pool.authority \in Authority /\ pool.pending_authority \in Authority
    /\ realm \in [authority : Authority, guardian : Authority]
    /\ treasury.governance_executor \in Authority
    /\ config.admin \in Parties /\ config.pending_admin \in Authority
    /\ observed \in [DOMAIN privileged_parties -> Authority]
    /\ elsewhere \subseteq ProposalIds

\* Executed, and on this system's accounts.
Executed(kind) ==
    {p \in ProposalIds \ elsewhere : mandates[p].status = "Executed" /\ Act(p).kind = kind}

\* Since the system was opened no executed proposal handed the treasury on.
Governed == opening.clean /\ Executed("SetGovernanceExecutor") = {}

Transferred ==
    [p \in ProposalIds |-> IF p \in Executed("TreasuryTransfer") THEN Act(p).amount ELSE 0]

\* "If the CPI fails, the whole transaction reverts including the state change, so
\* the proposal is never consumed by a failed execution" (execute.rs), with
\* INVARIANTS.md 4.6: while governance keeps the treasury, its books are to the
\* token what the proposals say that were executed on it, no effect of those
\* missing, none twice and none that nobody approved, whatever limits the treasury
\* refused one for and whatever was executed elsewhere meanwhile.
ExactlyAsApproved ==
    Governed =>
      /\ treasury.total_spent = SumTo(Transferred, Cardinality(ProposalIds))
      /\ treasury.stream_count = Cardinality(Executed("CreateVestingStream"))
      /\ {id \in Treasuries!StreamIds : streams[id].revoked}
           = {Act(p).stream_id : p \in Executed("RevokeVestingStream")}
      /\ treasury.epoch_spend_cap
           \in {opening.cap} \cup {Act(p).new_cap : p \in Executed("SetTreasurySpendCap")}
      /\ pool.reward_rate \in {0} \cup {Act(p).new_rate : p \in Executed("SetStakingRewardRate")}

\* An executed proposal named a key for this role.
Released(kind, role) == \E p \in Executed(kind) : Act(p)[role] \in Keys

\* INVARIANTS.md 5.8 and the mitigation of F-1: whoever called an initialiser
\* first, and whatever was done between that and the audit's four reads, in a
\* system the audit passed no key holds a power of governance's, nor gets the
\* mint's admin back once governance accepted it on this mint's config, unless a
\* proposal executed on that very account named a key for it.
KeysOnlyByMandate ==
    opening.clean =>
      /\ pool.authority = Executor /\ pool.pending_authority = Nobody
      /\ realm.authority \in Keys => Released("SetRealmAuthority", "new_authority")
      /\ realm.guardian = Guardian
      /\ treasury.governance_executor \in Keys
           => Released("SetGovernanceExecutor", "new_executor")
      /\ config.admin \in Keys /\ Executed("AcceptTokenManagerAdmin") # {}
           => Released("ProposeTokenAdmin", "new_admin")

=============================================================================
