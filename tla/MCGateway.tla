------------------------------ MODULE MCGateway -----------------------------
(***************************************************************************)
(* Instances of Gateway for TLC.                                           *)
(***************************************************************************)
EXTENDS Gateway, TLC

CONSTANTS k1, k2

Transfer(f, t, x, cur, k) ==
    [from |-> f, to |-> t, amount |-> x, currency |-> cur, key |-> k]

\* Counter-transfers, two of them under one key, on accounts opened with 2.  Not
\* both debits of account 1 can be paid, and crediting 2 on top of 2 exceeds
\* MaxBigint unless account 2 was debited before.
RaceRequests ==
    {Transfer(1, 2, 1, 1, k1), Transfer(2, 1, 1, 1, k1), Transfer(1, 2, 2, 1, k2)}

CallSymmetry == Permutations(Calls)
=============================================================================
