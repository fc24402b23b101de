---------------------------- MODULE MCIdempotency ---------------------------
(***************************************************************************)
(* Instances of Idempotency for TLC.                                       *)
(***************************************************************************)
EXTENDS Idempotency

CONSTANTS k1

\* All calls repeat one request; keys do not interact.
OneKey == [c \in Calls |-> k1]
=============================================================================
