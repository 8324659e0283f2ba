----------------------------- MODULE Selections -----------------------------
(***************************************************************************)
(* The filter of an iterator over a list and the stable sort by a key of   *)
(* few values, with what passes, or has one key, given as a set.  They are *)
(* recursive FUNCTIONS, like the sums of FiniteSums, so that their proofs  *)
(* can go by induction over the naturals.                                  *)
(***************************************************************************)
EXTENDS Integers, SequencesExt

\* Kept(s, wanted)[n]: what is wanted among the first n elements, in their order.
Kept(s, wanted) ==
    LET kept[n \in 0 .. Len(s)] ==
            IF n = 0 THEN <<>>
            ELSE IF s[n] \in wanted THEN Append(kept[n-1], s[n]) ELSE kept[n-1]
    IN  kept

Select(s, wanted) == Kept(s, wanted)[Len(s)]

\* Grouped(s, classes)[n]: what is in the first n classes, class by class, and inside
\* a class in the order of s.
Grouped(s, classes) ==
    LET grouped[n \in 0 .. Len(classes)] ==
            IF n = 0 THEN <<>> ELSE grouped[n-1] \o Select(s, classes[n])
    IN  grouped

SortBy(s, classes) == Grouped(s, classes)[Len(classes)]
=============================================================================
