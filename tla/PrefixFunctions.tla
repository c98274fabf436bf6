--------------------------- MODULE PrefixFunctions ---------------------------
(***************************************************************************)
(* What is computed along a sequence, prefix by prefix: sums and choices   *)
(* of elements.  They are recursive functions of the length of the prefix, *)
(* so that facts about them can be proved by induction on it.              *)
(***************************************************************************)
EXTENDS Naturals, Sequences, SequencesExt

\* the sum of the first n numbers of s
Sums(s) == LET sum[n \in 0 .. Len(s)] == IF n = 0 THEN 0 ELSE sum[n - 1] + s[n] IN sum
Total(s) == Sums(s)[Len(s)]

\* the elements that are in S of the first n of s, in their order
Onlys(s, S) ==
  LET only[n \in 0 .. Len(s)] ==
        IF n = 0 THEN <<>> ELSE IF s[n] \in S THEN Append(only[n - 1], s[n]) ELSE only[n - 1]
  IN only
Only(s, S) == Onlys(s, S)[Len(s)]
=============================================================================
