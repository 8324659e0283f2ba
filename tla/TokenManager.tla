---------------------------- MODULE TokenManager ----------------------------
(***************************************************************************)
(* programs/token-manager: one mint, its TokenConfig and its registry of   *)
(* minters.  Every instruction is one atomic transaction.                  *)
(* issued is a history variable: what each minter issued, and when.        *)
(***************************************************************************)
EXTENDS Integers, FiniteSets, FiniteSums

CONSTANTS
    Admins,                 \* the addresses that may be admin
    NoAdmin,                \* pending_admin when there is none
    NumAuthorities,         \* the addresses that may be minters, numbered
    MIN_EPOCH_DURATION,     \* constants.rs, scaled down in the small instances
    MAX_MINTERS,
    U64_MAX,
    Amounts, Caps, Durations,   \* arguments callers choose
    Steps, Horizon          \* how the clock jumps, and its bound

ASSUME TokenManagerAssumption ==
    /\ NoAdmin \notin Admins
    /\ NumAuthorities \in Nat
    /\ MIN_EPOCH_DURATION \in Nat \ {0}
    /\ MAX_MINTERS \in Nat /\ U64_MAX \in Nat
    /\ Amounts \subseteq Nat /\ Caps \subseteq Nat /\ Durations \subseteq Int
    /\ Steps \subseteq Nat /\ Horizon \in Nat

VARIABLES
    config,     \* the TokenConfig account
    minters,    \* authority -> the Minter at its PDA
    supply,     \* the mint's supply
    now,
    issued      \* authority -> time -> issued through it then

vars == <<config, minters, supply, now, issued>>

Authorities == 0 .. NumAuthorities - 1
Times == 0 .. Horizon

NoMinter ==
    [epoch_cap |-> 0, minted_this_epoch |-> 0, current_epoch |-> 0,
     epoch_duration |-> 0, total_minted |-> 0, enabled |-> FALSE]

\* A registered epoch is never of length zero, and no entry is ever closed.
Exists(a) == minters[a].epoch_duration > 0

-----------------------------------------------------------------------------
(* The allowance of an epoch. *)

epoch_at(m, t) == t \div m.epoch_duration

\* Mutant: the counter is cleared but the epoch not noted.
rolled_unmarked(m, t) ==
    IF epoch_at(m, t) = m.current_epoch THEN m ELSE [m EXCEPT !.minted_this_epoch = 0]

\* The window rolls when the clock has left it.
rolled(m, t) ==
    IF epoch_at(m, t) = m.current_epoch THEN m
    ELSE [m EXCEPT !.current_epoch = epoch_at(m, t), !.minted_this_epoch = 0]

CanAccrue(m, amount, t) ==
    /\ m.enabled
    /\ rolled(m, t).minted_this_epoch + amount <= m.epoch_cap
    /\ m.total_minted + amount <= U64_MAX

accrue(m, amount, t) ==
    [rolled(m, t) EXCEPT !.minted_this_epoch = @ + amount, !.total_minted = @ + amount]

-----------------------------------------------------------------------------
(* Issuance. *)

Init ==
    /\ \E admin \in Admins :
         config = [admin |-> admin, pending_admin |-> NoAdmin, paused |-> FALSE,
                   total_minted |-> 0, total_burned |-> 0, minter_count |-> 0]
    /\ minters = [a \in Authorities |-> NoMinter]
    /\ supply = 0
    /\ now = 0
    /\ issued = [a \in Authorities |-> [t \in Times |-> 0]]

\* a is the authority whose signature the entry requires.
mint_to(a, amount) ==
    /\ Exists(a)
    /\ amount > 0
    /\ ~config.paused
    /\ CanAccrue(minters[a], amount, now)
    /\ supply + amount <= U64_MAX
    /\ config.total_minted + amount <= U64_MAX
    /\ minters' = [minters EXCEPT ![a] = accrue(@, amount, now)]
    /\ supply' = supply + amount
    /\ config' = [config EXCEPT !.total_minted = @ + amount]
    /\ issued' = [issued EXCEPT ![a][now] = @ + amount]
    /\ UNCHANGED now

\* Mutant: the pause blocks the way out as well.
CanBurn_unless_paused(amount) ==
    ~config.paused /\ 0 < amount /\ amount <= supply

\* What stands between a holder and a burn: the pause is not looked at.
CanBurn(amount) ==
    /\ amount > 0
    /\ amount <= supply
    /\ config.total_burned + amount <= U64_MAX

burn(amount) ==
    /\ CanBurn(amount)
    /\ supply' = supply - amount
    /\ config' = [config EXCEPT !.total_burned = @ + amount]
    /\ UNCHANGED <<minters, now, issued>>

-----------------------------------------------------------------------------
(* The registry.  The account it names may be any entry of the config. *)

\* Mutant: the entry need not be new (init_if_needed).
register_minter_over(signer, a, cap, duration) ==
    LET m == [NoMinter EXCEPT !.epoch_cap = cap, !.epoch_duration = duration,
                              !.enabled = TRUE]
    IN
    /\ signer = config.admin
    /\ duration >= MIN_EPOCH_DURATION
    /\ config.minter_count < MAX_MINTERS
    /\ minters' = [minters EXCEPT ![a] = [m EXCEPT !.current_epoch = epoch_at(m, now)]]
    /\ config' = [config EXCEPT !.minter_count = @ + 1]
    /\ UNCHANGED <<supply, now, issued>>

register_minter(signer, a, cap, duration) ==
    LET m == [NoMinter EXCEPT !.epoch_cap = cap, !.epoch_duration = duration,
                              !.enabled = TRUE]
    IN
    /\ signer = config.admin
    /\ ~Exists(a)
    /\ duration >= MIN_EPOCH_DURATION
    /\ config.minter_count < MAX_MINTERS
    /\ minters' = [minters EXCEPT ![a] = [m EXCEPT !.current_epoch = epoch_at(m, now)]]
    /\ config' = [config EXCEPT !.minter_count = @ + 1]
    /\ UNCHANGED <<supply, now, issued>>

update_minter(signer, a, cap, enabled) ==
    /\ signer = config.admin
    /\ Exists(a)
    /\ minters' = [minters EXCEPT ![a].epoch_cap = cap, ![a].enabled = enabled]
    /\ UNCHANGED <<config, supply, now, issued>>

\* Mutant: the count goes below zero.
plain_decrement(n) == n - 1

saturating_decrement(n) == IF n > 0 THEN n - 1 ELSE 0

\* Whether the entry is enabled is not looked at.
revoke_minter(signer, a) ==
    /\ signer = config.admin
    /\ Exists(a)
    /\ minters' = [minters EXCEPT ![a].enabled = FALSE, ![a].epoch_cap = 0]
    /\ config' = [config EXCEPT !.minter_count = saturating_decrement(@)]
    /\ UNCHANGED <<supply, now, issued>>

-----------------------------------------------------------------------------
(* The admin. *)

propose_admin(signer, new_admin) ==
    /\ signer = config.admin
    /\ new_admin # config.admin
    /\ config' = [config EXCEPT !.pending_admin = new_admin]
    /\ UNCHANGED <<minters, supply, now, issued>>

cancel_admin_transfer(signer) ==
    /\ signer = config.admin
    /\ config.pending_admin # NoAdmin
    /\ config' = [config EXCEPT !.pending_admin = NoAdmin]
    /\ UNCHANGED <<minters, supply, now, issued>>

accept_admin(signer) ==
    /\ signer = config.pending_admin
    /\ config' = [config EXCEPT !.admin = signer, !.pending_admin = NoAdmin]
    /\ UNCHANGED <<minters, supply, now, issued>>

set_paused(signer, paused) ==
    /\ signer = config.admin
    /\ config' = [config EXCEPT !.paused = paused]
    /\ UNCHANGED <<minters, supply, now, issued>>

-----------------------------------------------------------------------------
(* The environment: the clock, and holders who burn without this program. *)

Tick(step) ==
    /\ step > 0
    /\ now + step <= Horizon
    /\ now' = now + step
    /\ UNCHANGED <<config, minters, supply, issued>>

BurnDirectly(amount) ==
    /\ amount > 0
    /\ amount <= supply
    /\ supply' = supply - amount
    /\ UNCHANGED <<config, minters, now, issued>>

Next ==
    \/ \E a \in Authorities, amount \in Amounts : mint_to(a, amount)
    \/ \E amount \in Amounts : burn(amount)
    \/ \E signer \in Admins, a \in Authorities, cap \in Caps, duration \in Durations :
         register_minter(signer, a, cap, duration)
    \/ \E signer \in Admins, a \in Authorities, cap \in Caps, enabled \in BOOLEAN :
         update_minter(signer, a, cap, enabled)
    \/ \E signer \in Admins, a \in Authorities : revoke_minter(signer, a)
    \/ \E signer, new_admin \in Admins : propose_admin(signer, new_admin)
    \/ \E signer \in Admins : cancel_admin_transfer(signer) \/ accept_admin(signer)
    \/ \E signer \in Admins, paused \in BOOLEAN : set_paused(signer, paused)
    \/ \E step \in Steps : Tick(step)
    \/ \E amount \in Amounts : BurnDirectly(amount)

Spec == Init /\ [][Next]_vars

-----------------------------------------------------------------------------
(* Properties. *)

TokenConfig ==
    [admin : Admins, pending_admin : Admins \cup {NoAdmin}, paused : BOOLEAN,
     total_minted : Nat, total_burned : Nat, minter_count : 0 .. MAX_MINTERS]

Minter ==
    [epoch_cap : Nat, minted_this_epoch : Nat, current_epoch : Nat,
     epoch_duration : Nat, total_minted : Nat, enabled : BOOLEAN]

TypeOK ==
    /\ config \in TokenConfig
    /\ minters \in [Authorities -> Minter]
    /\ supply \in Nat
    /\ now \in Times
    /\ issued \in [Authorities -> [Times -> Nat]]

\* What a minter issued in epoch e of its own.
IssuedIn(a, e) ==
    [t \in Times |-> IF epoch_at(minters[a], t) = e THEN issued[a][t] ELSE 0]

IssuedNow(a) == SumTo(IssuedIn(a, epoch_at(minters[a], now)), Horizon + 1)

\* INVARIANTS.md 5.2 and 5.6: what adds to an epoch's issuance comes from an
\* enabled entry, while issuance is not paused, and leaves the epoch's sum within
\* the cap of the moment, however many epochs were idle and however often the cap
\* was changed or the minter disabled in between.
IssuanceWithinCap ==
    [][\A a \in Authorities :
         Exists(a) /\ IssuedNow(a)' > IssuedNow(a) /\ now' = now =>
           /\ minters[a].enabled /\ ~config.paused
           /\ IssuedNow(a)' <= minters[a].epoch_cap]_vars

TotalOf == [a \in Authorities |-> minters[a].total_minted]

\* "Lifetime issuance and redemption, for reconciling the indexer": the config's
\* total is what the entries say, revoked ones included, each entry says what it
\* issued, and what was not burned here bounds the supply from above (holders may
\* burn without this program).
SupplyReconciles ==
    /\ config.total_minted = SumTo(TotalOf, NumAuthorities)
    /\ \A a \in Authorities : minters[a].total_minted = SumTo(issued[a], Horizon + 1)
    /\ supply + config.total_burned <= config.total_minted

\* INVARIANTS.md 6.4 and the README of the program: no pause, registry state or
\* lifetime counter stands between a holder and a burn.
BurnNeverBlocked ==
    \A amount \in Amounts : amount > 0 /\ amount <= supply => CanBurn(amount)
=============================================================================
