------------------------------ MODULE MCCached ------------------------------
(***************************************************************************)
(* Instances of CachedGateway for TLC.                                     *)
(***************************************************************************)
EXTENDS CachedGateway

CONSTANTS k1, k2

Transfer(f, t, x, cur, k) ==
    [from |-> f, to |-> t, amount |-> x, currency |-> cur, key |-> k]

\* A request without a key, one in an unknown currency, and two counter-transfers
\* under one key: 65537 becomes a valid currency by its narrowing to int16, and 2
\* on top of 2 exceeds MaxBigint.
CheckRequests ==
    {Transfer(1, 2, 1, 1, NilKey), Transfer(1, 2, 1, 7, k1),
     Transfer(1, 2, 1, 65537, k1), Transfer(2, 1, 2, 1, k1)}
=============================================================================
