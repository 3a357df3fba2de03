----------------------------- MODULE PrefixSums -----------------------------
(***************************************************************************)
(* The sums of the first elements of a sequence of sizes, for the caches,  *)
(* which count the memory of their entries in the order of their lists.    *)
(***************************************************************************)
EXTENDS Naturals, Integers, Sequences

\* The sum of the first n elements of w, as a function of n.
PrefixSums(w) ==
    LET sum[n \in 0 .. Len(w)] == IF n = 0 THEN 0 ELSE sum[n - 1] + w[n]
    IN  sum

\* The sum of all elements.
Total(w) == PrefixSums(w)[Len(w)]
=============================================================================
