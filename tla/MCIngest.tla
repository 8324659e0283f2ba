------------------------------ MODULE MCIngest ------------------------------
(* Small instances of Ingest for TLC. *)
EXTENDS Ingest

CONSTANTS claim, revoke, stake

\* Two programs followed: a claim calls the treasury alone, a proposal that
\* revokes a stream calls governance and, through it, the treasury.
TreasuryTouches == claim :> {2} @@ revoke :> {1, 2} @@ stake :> {1}
=============================================================================
