-------------------------------- MODULE Sums --------------------------------
(***************************************************************************)
(* Running sums of an integer-valued function, the meaning of SQL's        *)
(* COALESCE(SUM(amount), 0) over rows ordered by their id.  Written as a   *)
(* recursive function, so that SumLemmas can prove facts about it.         *)
(***************************************************************************)
EXTENDS Integers

\* PrefixSum(d)[n] = d[1] + ... + d[n]
PrefixSum(d) == LET S[n \in Nat] == IF n = 0 THEN 0 ELSE S[n - 1] + d[n] IN S

\* f[1] + ... + f[n]
SumTo(f, n) == PrefixSum([i \in Nat |-> IF i \in 1 .. n THEN f[i] ELSE 0])[n]

MaxOf(a, b) == IF a >= b THEN a ELSE b
=============================================================================
