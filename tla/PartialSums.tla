----------------------------- MODULE PartialSums ----------------------------
(***************************************************************************)
(* Where each part of a sequence of parts begins: d[0] = 0 and d[i] =      *)
(* d[i-1] + n[i], as unions of datasets (basics/dataset) and train_dataset *)
(* compute it.                                                             *)
(***************************************************************************)
EXTENDS Integers, Sequences

Sums(n) ==
    LET d[i \in 0..Len(n)] == IF i = 0 THEN 0 ELSE d[i - 1] + n[i] IN d

Total(n) == Sums(n)[Len(n)]
=============================================================================
