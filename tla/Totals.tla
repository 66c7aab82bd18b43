------------------------------- MODULE Totals -------------------------------
(***************************************************************************)
(* The sum of a sequence of balances, as a recursive function over an      *)
(* initial segment of the naturals: the folds of the community modules go  *)
(* through arbitrary orderings of a set, which the provers cannot unfold.  *)
(***************************************************************************)
EXTENDS Integers

\* f[1] + ... + f[n]
Total(f, n) ==
    LET sum[i \in 0..n] == IF i = 0 THEN 0 ELSE sum[i - 1] + f[i]
    IN  sum[n]

\* s lists the partial sums of f.
PartialSums(s, f, n) ==
    /\ s \in [0..n -> Int]
    /\ s[0] = 0
    /\ \A i \in 1..n : s[i] = s[i - 1] + f[i]
=============================================================================
