------------------------------- MODULE Escrow -------------------------------
(***************************************************************************)
(* What programs/treasury promises the two sides of its vault: every token *)
(* in it is either free for governance or owed to one stream.  Free tokens *)
(* leave or are promised, owed ones are paid to their stream or released,  *)
(* and no third thing happens; so a promise, once made, is funded until it *)
(* is paid or released.  Schedules, budgets and signatures are forgotten.  *)
(***************************************************************************)
EXTENDS Integers

CONSTANT StreamIds     \* the ids a promise may have

VARIABLES
    free,       \* tokens nobody was promised
    owed,       \* stream id -> tokens set aside for it
    promised    \* ids below this have been used

escrow_vars == <<free, owed, promised>>

EscrowInit ==
    /\ free = 0
    /\ owed = [id \in StreamIds |-> 0]
    /\ promised = 0

Receive ==
    /\ free' > free
    /\ UNCHANGED <<owed, promised>>

Disburse ==
    /\ free' \in 0 .. free
    /\ UNCHANGED <<owed, promised>>

\* An id is promised once.
Promise(id) ==
    /\ id = promised
    /\ \E amount \in 1 .. free :
         /\ free' = free - amount
         /\ owed' = [owed EXCEPT ![id] = amount]
    /\ promised' = promised + 1

Pay(id) ==
    /\ \E amount \in 1 .. owed[id] : owed' = [owed EXCEPT ![id] = @ - amount]
    /\ UNCHANGED <<free, promised>>

Release(id) ==
    /\ \E amount \in 0 .. owed[id] :
         /\ owed' = [owed EXCEPT ![id] = @ - amount]
         /\ free' = free + amount
    /\ UNCHANGED promised

EscrowNext ==
    \/ Receive
    \/ Disburse
    \/ \E id \in StreamIds : Promise(id) \/ Pay(id) \/ Release(id)

EscrowSpec == EscrowInit /\ [][EscrowNext]_escrow_vars
=============================================================================
