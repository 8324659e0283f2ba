------------------------------- MODULE Mandate -------------------------------
(***************************************************************************)
(* What governance promises the programs it owns: an act is carried out    *)
(* only after it was granted, only once, no sooner than its timelock and   *)
(* no later than the grace period after it, and never after a veto.        *)
(* How it came to be granted is the Governance module's business.          *)
(***************************************************************************)
EXTENDS Integers

CONSTANTS
    ProposalIds,
    Acts,                   \* what a proposal may authorise
    NoAct,
    MIN_TIMELOCK_DELAY,
    MAX_TIMELOCK_DELAY,
    EXECUTION_GRACE_PERIOD

VARIABLES
    mandates,               \* proposal id -> what it authorises, and whether it has
    now

mandate_vars == <<mandates, now>>

Idle(status) == [status |-> status, act |-> NoAct, eta |-> 0]

\* The window in which a queued proposal may be executed.
Open(p) ==
    /\ mandates[p].status = "Queued"
    /\ now \in mandates[p].eta .. mandates[p].eta + EXECUTION_GRACE_PERIOD

\* Mutant: the delay is taken off the clock.
Grant_backdated(p, act, delay) ==
    /\ mandates[p].status = "None"
    /\ mandates' = [mandates EXCEPT
         ![p] = [status |-> "Queued", act |-> act, eta |-> now - delay]]

Grant(p, act, delay) ==
    /\ mandates[p].status = "None"
    /\ mandates' = [mandates EXCEPT
         ![p] = [status |-> "Queued", act |-> act, eta |-> now + delay]]

\* Defeated, vetoed, or never brought to a vote: it will authorise nothing.
Void(p) ==
    /\ mandates[p].status \in {"None", "Queued"}
    /\ mandates' = [mandates EXCEPT ![p] = Idle("Void")]

Execute(p) ==
    /\ Open(p)
    /\ mandates' = [mandates EXCEPT ![p].status = "Executed"]

MandateInit ==
    /\ mandates = [p \in ProposalIds |-> Idle("None")]
    /\ now \in Nat

MandateNext ==
    \/ /\ \E p \in ProposalIds :
            \/ \E act \in Acts, delay \in MIN_TIMELOCK_DELAY .. MAX_TIMELOCK_DELAY :
                 Grant(p, act, delay)
            \/ Void(p)
            \/ Execute(p)
       /\ UNCHANGED now
    \/ now' > now /\ UNCHANGED mandates

MandateSpec == MandateInit /\ [][MandateNext]_mandate_vars
=============================================================================
