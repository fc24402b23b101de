------------------------------ MODULE MCLoadgen -----------------------------
(***************************************************************************)
(* Instances of Loadgen for TLC.                                           *)
(***************************************************************************)
EXTENDS Loadgen

\* Two accounts of one currency and one of another.
TwoCurrencies == [a \in Accounts |-> IF a = 3 THEN "EUR" ELSE "USD"]

\* Every account starts with the same amount.
OpenWithTwo == [a \in Accounts |-> 2]
=============================================================================
