----------------------------- MODULE MCTreasury -----------------------------
(* Small instances of Treasury for TLC. *)
EXTENDS Treasury, TLC

\* It began before the treasury did, truncates, and has its cliff inside the term.
Cliffed == [start_ts |-> -1, cliff_ts |-> 1, end_ts |-> 2]

\* Below MIN_STREAM_DURATION, and a cliff after the end.
TooShort == [start_ts |-> 1, cliff_ts |-> 1, end_ts |-> 2]
Crossed == [start_ts |-> 0, cliff_ts |-> 3, end_ts |-> 2]

MCSchedules == {Cliffed, TooShort, Crossed}

\* Its span exceeds an i64 whose largest value is 7.
TooLong == [start_ts |-> -8, cliff_ts |-> 0, end_ts |-> 4]
LongSchedules == {TooLong}

Symmetry == Permutations(Executors)
=============================================================================
