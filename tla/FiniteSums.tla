----------------------------- MODULE FiniteSums -----------------------------
(***************************************************************************)
(* Sums of integer-valued functions over 0 .. n-1, the shape every book    *)
(* kept by these programs has: positions and streams are numbered from     *)
(* zero by a counter.  The sum is a recursive FUNCTION rather than a fold  *)
(* or a RECURSIVE operator, so that FiniteSumLemmas can reason about it.   *)
(***************************************************************************)
EXTENDS Integers

\* Prefix sums of f: PrefixSum(f, n)[k] = f[0] + ... + f[k-1].
PrefixSum(f, n) ==
    LET s[k \in 0..n] == IF k = 0 THEN 0 ELSE s[k-1] + f[k-1]
    IN  s

\* f[0] + ... + f[n-1].
SumTo(f, n) == PrefixSum(f, n)[n]
=============================================================================
