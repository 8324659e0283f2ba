----------------------------- MODULE MCBackfill -----------------------------
(* Small instances of Backfill for TLC. *)
EXTENDS Backfill

CONSTANTS claim, revoke, spam

\* Programs 1 and 2: a claim calls the second alone, a proposal that revokes a
\* stream the first and, through it, the second.
MCTouches == claim :> {2} @@ revoke :> {1, 2} @@ spam :> {1}

\* A slot may hold several transactions of one program.
OneProgramPerSlot == {<<claim>>, <<revoke>>, <<spam>>, <<revoke, spam>>, <<spam, revoke>>}

\* A slot may hold those of both.
TwoProgramsInASlot == {<<spam>>, <<revoke, claim>>, <<claim, revoke>>}
=============================================================================
