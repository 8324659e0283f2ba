------------------------------ MODULE Treasury ------------------------------
(***************************************************************************)
(* programs/treasury: one treasury, its vault and its vesting streams.     *)
(* Every instruction is one atomic transaction; the governance executor is *)
(* whoever governance_executor names, and what makes it sign is not here.  *)
(* spent_at is a history variable: what spend sent under the present cap.   *)
(***************************************************************************)
EXTENDS Integers, FiniteSums

CONSTANTS
    Executors,              \* the addresses that may be governance_executor
    Beneficiaries,
    NoBeneficiary,          \* the beneficiary of an address without a stream
    MIN_EPOCH_DURATION,     \* constants.rs, scaled down in the small instances
    MAX_EPOCH_DURATION,
    MIN_STREAM_DURATION,
    U64_MAX,
    I64_MAX,
    DepositAmounts, SpendAmounts, StreamAmounts,    \* amounts callers choose
    Fees,                   \* what a Token-2022 transfer fee may keep
    Caps, Durations,        \* arguments of set_spend_cap
    Schedules,              \* [start_ts, cliff_ts, end_ts] proposals may ask for
    Steps, Horizon,         \* how the clock jumps, and its bound
    MaxStreams              \* bound on stream_count

Schedule == [start_ts : Int, cliff_ts : Int, end_ts : Int]

ASSUME TreasuryAssumption ==
    /\ NoBeneficiary \notin Beneficiaries
    /\ MIN_EPOCH_DURATION \in Nat \ {0} /\ MAX_EPOCH_DURATION \in Nat
    /\ MIN_STREAM_DURATION \in Nat \ {0}
    /\ U64_MAX \in Nat /\ I64_MAX \in Nat
    /\ DepositAmounts \subseteq Nat /\ SpendAmounts \subseteq Nat
    /\ StreamAmounts \subseteq Nat /\ Fees \subseteq Nat
    /\ Caps \subseteq Nat /\ Durations \subseteq Int
    /\ Schedules \subseteq Schedule
    /\ Steps \subseteq Nat /\ Horizon \in Nat
    /\ MaxStreams \in Nat

VARIABLES
    treasury,   \* the Treasury account
    vault,      \* the vault's token balance
    streams,    \* stream id -> the VestingStream at that PDA
    now,
    spent_at    \* time -> spent then, since the cap was last set

vars == <<treasury, vault, streams, now, spent_at>>

StreamIds == 0 .. MaxStreams - 1
Times == 0 .. Horizon

NoStream ==
    [beneficiary |-> NoBeneficiary, total_amount |-> 0, claimed |-> 0,
     start_ts |-> 0, cliff_ts |-> 0, end_ts |-> 0,
     revoked |-> FALSE, revoked_at |-> 0]

Exists(id) == streams[id].beneficiary # NoBeneficiary

-----------------------------------------------------------------------------
(* The spend budget. *)

epoch_at(duration, t) == t \div duration

\* What is already charged to the epoch containing t.
EpochBase(tr, t) ==
    IF epoch_at(tr.epoch_duration, t) = tr.current_epoch THEN tr.spent_this_epoch ELSE 0

CanCharge(tr, amount, t) == EpochBase(tr, t) + amount <= tr.epoch_spend_cap

\* Mutant: the window is rolled but not remembered.
charge_epoch_budget_unrolled(tr, amount, t) ==
    [tr EXCEPT !.spent_this_epoch = EpochBase(tr, t) + amount]

charge_epoch_budget(tr, amount, t) ==
    [tr EXCEPT !.spent_this_epoch = EpochBase(tr, t) + amount,
               !.current_epoch    = epoch_at(tr.epoch_duration, t)]

\* Mutant: the whole vault is spendable.
uncommitted_all(tr, balance) == balance

uncommitted(tr, balance) ==
    IF balance >= tr.committed_to_streams THEN balance - tr.committed_to_streams ELSE 0

-----------------------------------------------------------------------------
(* Vesting. *)

\* Mutant: a revoke confiscates.
vested_at_confiscating(s, t) ==
    IF s.revoked \/ t < s.cliff_ts THEN 0
    ELSE IF t >= s.end_ts THEN s.total_amount
    ELSE (s.total_amount * (t - s.start_ts)) \div (s.end_ts - s.start_ts)

\* The moment a stream is evaluated at: a revoked one is frozen.
VestingTime(s, t) == IF s.revoked /\ s.revoked_at < t THEN s.revoked_at ELSE t

vested_at(s, t) ==
    LET at == VestingTime(s, t) IN
    IF at < s.cliff_ts THEN 0
    ELSE IF at >= s.end_ts THEN s.total_amount
    ELSE (s.total_amount * (at - s.start_ts)) \div (s.end_ts - s.start_ts)

\* Between cliff and end the two differences are checked i64 subtractions.
VestingComputable(s, t) ==
    VestingTime(s, t) \in s.cliff_ts .. s.end_ts - 1
        => s.end_ts - s.start_ts <= I64_MAX

claimable_at(s, t) == vested_at(s, t) - s.claimed

\* Mutant: what was claimed already is released a second time.
unvested_remainder_of_outstanding(s) == s.total_amount - s.claimed

unvested_remainder(s) == s.total_amount - vested_at(s, s.revoked_at)

-----------------------------------------------------------------------------
(* Funds. *)

initial_treasury(executor, cap, duration, t) ==
    [governance_executor  |-> executor,
     total_deposited      |-> 0,
     total_spent          |-> 0,
     committed_to_streams |-> 0,
     epoch_duration       |-> duration,
     epoch_spend_cap      |-> cap,
     spent_this_epoch     |-> 0,
     current_epoch        |-> epoch_at(duration, t),
     stream_count         |-> 0]

\* initialize_treasury has run; its caller chose the executor.
Init ==
    /\ now = 0
    /\ \E executor \in Executors, cap \in Caps, duration \in Durations :
         /\ duration \in MIN_EPOCH_DURATION .. MAX_EPOCH_DURATION
         /\ treasury = initial_treasury(executor, cap, duration, now)
    /\ vault = 0
    /\ streams = [id \in StreamIds |-> NoStream]
    /\ spent_at = [t \in Times |-> 0]

deposit(amount, fee) ==
    LET credited == amount - fee IN
    /\ credited > 0
    /\ vault + credited <= U64_MAX
    /\ treasury.total_deposited + credited <= U64_MAX
    /\ vault' = vault + credited
    /\ treasury' = [treasury EXCEPT !.total_deposited = @ + credited]
    /\ UNCHANGED <<streams, now, spent_at>>

\* The destination is any account of the mint, the vault itself included.
spend(signer, amount, to_vault) ==
    /\ signer = treasury.governance_executor
    /\ amount > 0
    /\ amount <= uncommitted(treasury, vault)
    /\ CanCharge(treasury, amount, now)
    /\ treasury.total_spent + amount <= U64_MAX
    /\ vault' = IF to_vault THEN vault ELSE vault - amount
    /\ treasury' = [charge_epoch_budget(treasury, amount, now)
                      EXCEPT !.total_spent = @ + amount]
    /\ spent_at' = [spent_at EXCEPT ![now] = @ + amount]
    /\ UNCHANGED <<streams, now>>

\* Neither spent_this_epoch nor current_epoch is touched, though the new
\* duration renumbers the epochs.
set_spend_cap(signer, cap, duration) ==
    /\ signer = treasury.governance_executor
    /\ duration \in MIN_EPOCH_DURATION .. MAX_EPOCH_DURATION
    /\ treasury' = [treasury EXCEPT !.epoch_spend_cap = cap, !.epoch_duration = duration]
    /\ spent_at' = [t \in Times |-> 0]
    /\ UNCHANGED <<vault, streams, now>>

set_governance_executor(signer, executor) ==
    /\ signer = treasury.governance_executor
    /\ treasury' = [treasury EXCEPT !.governance_executor = executor]
    /\ UNCHANGED <<vault, streams, now, spent_at>>

-----------------------------------------------------------------------------
(* Streams. *)

new_stream(beneficiary, amount, schedule) ==
    [beneficiary |-> beneficiary, total_amount |-> amount, claimed |-> 0,
     start_ts |-> schedule.start_ts, cliff_ts |-> schedule.cliff_ts,
     end_ts |-> schedule.end_ts, revoked |-> FALSE, revoked_at |-> 0]

saturating_sub(a, b) == IF a - b > I64_MAX THEN I64_MAX ELSE a - b

\* Mutant: the same balance is promised to several beneficiaries.
create_stream_unbacked(signer, id, beneficiary, amount, schedule) ==
    /\ signer = treasury.governance_executor
    /\ amount > 0
    /\ schedule.start_ts <= schedule.cliff_ts /\ schedule.cliff_ts <= schedule.end_ts
    /\ saturating_sub(schedule.end_ts, schedule.start_ts) >= MIN_STREAM_DURATION
    /\ id = treasury.stream_count
    /\ ~Exists(id)
    /\ streams' = [streams EXCEPT ![id] = new_stream(beneficiary, amount, schedule)]
    /\ treasury' = [treasury EXCEPT !.committed_to_streams = @ + amount,
                                    !.stream_count         = @ + 1]
    /\ UNCHANGED <<vault, now, spent_at>>

create_stream(signer, id, beneficiary, amount, schedule) ==
    /\ signer = treasury.governance_executor
    /\ amount > 0
    /\ schedule.start_ts <= schedule.cliff_ts /\ schedule.cliff_ts <= schedule.end_ts
    /\ saturating_sub(schedule.end_ts, schedule.start_ts) >= MIN_STREAM_DURATION
    /\ id = treasury.stream_count
    /\ ~Exists(id)
    /\ amount <= uncommitted(treasury, vault)
    /\ streams' = [streams EXCEPT ![id] = new_stream(beneficiary, amount, schedule)]
    /\ treasury' = [treasury EXCEPT !.committed_to_streams = @ + amount,
                                    !.stream_count         = @ + 1]
    /\ UNCHANGED <<vault, now, spent_at>>

\* What the beneficiary's claim needs: something vested that the vault holds and
\* the commitments cover.
CanClaim(signer, id) ==
    /\ Exists(id) /\ signer = streams[id].beneficiary
    /\ VestingComputable(streams[id], now)
    /\ 0 < claimable_at(streams[id], now)
    /\ claimable_at(streams[id], now) <= vault
    /\ claimable_at(streams[id], now) <= treasury.committed_to_streams

claim_stream(signer, id) ==
    LET amount == claimable_at(streams[id], now) IN
    /\ CanClaim(signer, id)
    /\ vault' = vault - amount
    /\ streams' = [streams EXCEPT ![id].claimed = @ + amount]
    /\ treasury' = [treasury EXCEPT !.committed_to_streams = @ - amount]
    /\ UNCHANGED <<now, spent_at>>

\* Mutant: a second revoke moves the freeze.
revoke_stream_again(signer, id) ==
    LET revoked == [streams[id] EXCEPT !.revoked = TRUE, !.revoked_at = now] IN
    /\ signer = treasury.governance_executor
    /\ Exists(id)
    /\ VestingComputable(revoked, now)
    /\ streams' = [streams EXCEPT ![id] = revoked]
    /\ treasury' = [treasury EXCEPT !.committed_to_streams = @ - unvested_remainder(revoked)]
    /\ UNCHANGED <<vault, now, spent_at>>

revoke_stream(signer, id) ==
    LET revoked == [streams[id] EXCEPT !.revoked = TRUE, !.revoked_at = now] IN
    /\ signer = treasury.governance_executor
    /\ Exists(id) /\ ~streams[id].revoked
    /\ VestingComputable(revoked, now)
    /\ streams' = [streams EXCEPT ![id] = revoked]
    /\ treasury' = [treasury EXCEPT !.committed_to_streams = @ - unvested_remainder(revoked)]
    /\ UNCHANGED <<vault, now, spent_at>>

-----------------------------------------------------------------------------
(* The environment: the clock, and tokens sent to the vault's address. *)

Tick(step) ==
    /\ step > 0
    /\ now + step <= Horizon
    /\ now' = now + step
    /\ UNCHANGED <<treasury, vault, streams, spent_at>>

Donate(amount) ==
    /\ amount > 0
    /\ vault + amount <= U64_MAX
    /\ vault' = vault + amount
    /\ UNCHANGED <<treasury, streams, now, spent_at>>

Next ==
    \/ \E amount \in DepositAmounts, fee \in Fees : deposit(amount, fee)
    \/ \E signer \in Executors, amount \in SpendAmounts, to_vault \in BOOLEAN :
         spend(signer, amount, to_vault)
    \/ \E signer \in Executors, cap \in Caps, duration \in Durations :
         set_spend_cap(signer, cap, duration)
    \/ \E signer, executor \in Executors : set_governance_executor(signer, executor)
    \/ \E signer \in Executors, id \in StreamIds, beneficiary \in Beneficiaries,
          amount \in StreamAmounts, schedule \in Schedules :
         create_stream(signer, id, beneficiary, amount, schedule)
    \/ \E signer \in Beneficiaries, id \in StreamIds : claim_stream(signer, id)
    \/ \E signer \in Executors, id \in StreamIds : revoke_stream(signer, id)
    \/ \E step \in Steps : Tick(step)
    \/ \E amount \in DepositAmounts : Donate(amount)

Spec == Init /\ [][Next]_vars

-----------------------------------------------------------------------------
(* Properties. *)

TreasuryAccount ==
    [governance_executor : Executors, total_deposited : Nat, total_spent : Nat,
     committed_to_streams : Nat, epoch_duration : Nat \ {0}, epoch_spend_cap : Nat,
     spent_this_epoch : Nat, current_epoch : Nat, stream_count : Nat]

VestingStream ==
    [beneficiary : Beneficiaries \cup {NoBeneficiary}, total_amount : Nat, claimed : Nat,
     start_ts : Int, cliff_ts : Int, end_ts : Int, revoked : BOOLEAN, revoked_at : Nat]

TypeOK ==
    /\ treasury \in TreasuryAccount
    /\ vault \in Nat
    /\ streams \in [StreamIds -> VestingStream]
    /\ now \in Times
    /\ spent_at \in [Times -> Nat]

\* What a stream is still owed: all of it, or what had vested when it was revoked.
Owed(s) ==
    (IF s.revoked THEN vested_at(s, s.revoked_at) ELSE s.total_amount) - s.claimed

OwedTo == [id \in StreamIds |-> Owed(streams[id])]

\* committed_to_streams "so that spend cannot pay out tokens already promised":
\* the counter is what the streams are owed, to the token, and the vault holds
\* it.  INVARIANTS.md 1.6 states it with total_amount - claimed, which a revoked
\* stream's unvested part must be left out of.
StreamsFunded ==
    /\ treasury.committed_to_streams = SumTo(OwedTo, MaxStreams)
    /\ treasury.committed_to_streams <= vault

SpentInEpoch(e) ==
    [t \in Times |-> IF epoch_at(treasury.epoch_duration, t) = e THEN spent_at[t] ELSE 0]

\* INVARIANTS.md 5.7: under one setting of the cap no epoch sees more than the
\* cap leave, whichever epochs were idle and however the numbering of epochs
\* moved when the cap was set.
EpochBudgetHolds ==
    \A e \in Times : SumTo(SpentInEpoch(e), Horizon + 1) <= treasury.epoch_spend_cap

\* INVARIANTS.md 7.1 to 7.6: what a beneficiary is entitled to never shrinks, a
\* revoke included, what was paid is never taken back or forgotten, and no
\* payment runs ahead of the schedule.
VestedNeverClawedBack ==
    [][\A id \in StreamIds :
         Exists(id) =>
           /\ vested_at(streams'[id], now') >= vested_at(streams[id], now)
           /\ streams'[id].claimed \in streams[id].claimed .. vested_at(streams'[id], now')]_vars

\* INVARIANTS.md 7.2: what has vested can be claimed, there and then: the vault
\* has it, it is still committed, and the schedule can be evaluated.
ClaimNeverBlocked ==
    \A id \in StreamIds :
        Exists(id) /\ claimable_at(streams[id], now) > 0
            => CanClaim(streams[id].beneficiary, id)

Ledger ==
    INSTANCE Escrow WITH
        free     <- vault - treasury.committed_to_streams,
        owed     <- OwedTo,
        promised <- treasury.stream_count

\* Seen through what is free and what is owed, the treasury only receives,
\* disburses, promises, pays and releases: there is no other way out of the vault.
ImplementsEscrow == Ledger!EscrowSpec
=============================================================================
