------------------------------ MODULE MCLedger ------------------------------
(***************************************************************************)
(* Instances of Ledger for TLC.                                            *)
(***************************************************************************)
EXTENDS Ledger, TLC

CONSTANTS k1, k2, k3

Transfer(f, t, x, k) ==
    [from |-> f, to |-> t, amount |-> x, currency |-> 1, key |-> k]

CounterRequests == {Transfer(1, 2, 1, k1), Transfer(2, 1, 2, k2)}

\* Three transfers from account 1.
DrainRequests == {Transfer(1, 2, 1, k1), Transfer(1, 2, 1, k2), Transfer(1, 2, 1, k3)}

\* Narrows a search to calls that do not fail, on keys of their own.
Calm ==
    /\ \A c \in Calls : reply[c] \in {"none", "ok"}
    /\ \A a \in Account : openReply[a] \in {"none", "ok"}
    /\ \A c, d \in Calls : c # d /\ req[c] # None => req[c] # req[d]

\* The state after the first accounts were opened, one after the other, before
\* the worker looked at their postings.
OpenedRows(S, balance) ==
    /\ amount = [a \in Account |-> IF a \in S THEN balance ELSE 0]
    /\ latest = [a \in Account |-> IF a \in S THEN a ELSE 0]
    /\ currency = [a \in Account |-> IF a \in S THEN 1 ELSE 0]
    /\ exists = S
    /\ lock = [a \in Account |-> None]
    /\ newAmount = [a \in Account |-> 0]
    /\ newLatest = [a \in Account |-> 0]
    /\ posting = [a \in S |-> [tx |-> a, account |-> a, amount |-> balance]]
    /\ txrows = {[id |-> a, key |-> a, from |-> a, to |-> a, amount |-> balance,
                  currency |-> 1] : a \in S}
    /\ committed = S
    /\ conns = {}
    /\ opc = [a \in Account |-> IF a \in S THEN "done" ELSE "idle"]
    /\ opening = [a \in Account |-> IF a \in S THEN balance ELSE 0]
    /\ openReply = [a \in Account |-> IF a \in S THEN "ok" ELSE "none"]
    /\ WorkerInit

Opened(S, balance) == OpenedRows(S, balance) /\ TransfersInit

\* Accounts 1 and 2 are open, the others are opened while the transfers run.
TwoOpenSpec == Opened({1, 2}, 2) /\ [][LedgerNext]_ledgerVars

\* Account 1 is open; a transfer meets account 2 missing, being opened or open.
FairOneOpenSpec == Opened({1}, 2) /\ [][LedgerNext]_ledgerVars /\ LedgerFairness

\* Accounts 1 and 2 open, without failing statements and lost answers: what the worker and
\* the calls do to each other when nothing else goes wrong.
FaultFreeNext ==
    \/ /\ \E a \in Account : OpenProgress(a) /\ openReply'[a] # "internal"
       /\ UNCHANGED <<transferVars, workerVars>>
    \/ /\ \E c \in Calls : TransferProgress(c) /\ reply'[c] # "internal"
       /\ UNCHANGED <<accountVars, workerVars>>
    \/ WorkerProgress /\ UNCHANGED gatewayVars
    \/ Idle

FaultFreeSpec == Opened({1, 2}, 2) /\ [][FaultFreeNext]_ledgerVars /\ LedgerFairness

\* DrainRequests does not tell the keys apart either.
DrainSymmetry == Permutations(Calls) \cup Permutations(Key)
=============================================================================
