----------------------------- MODULE MCOverdrawn ----------------------------
(***************************************************************************)
(* Ledger without faults from two states: two accounts just opened, and    *)
(* the state that the run of JournalNeverNegative ends in, where account 1 *)
(* has paid 3 out of 2 after a correction lost a debit and the worker      *)
(* stands in the batch before the last postings.                           *)
(***************************************************************************)
EXTENDS MCLedger

CONSTANTS c1, c2, c3, c4, k4, k5

Row(t, k, f, u, x) == [id |-> t, key |-> k, from |-> f, to |-> u, amount |-> x, currency |-> 1]
Posting(t, a, x) == [tx |-> t, account |-> a, amount |-> x]

Overdrawn ==
    /\ amount = <<0, 5, 2>>
    /\ latest = <<8, 9, 5>>
    /\ posting = <<Posting(1, 1, 2), Posting(2, 2, 2), Posting(c1, 1, -1), Posting(c1, 2, 1),
                   Posting(3, 3, 2), Posting(c2, 1, -1), Posting(c2, 2, 1), Posting(c3, 1, -1),
                   Posting(c3, 2, 1)>>
    /\ txrows = {Row(a, a, a, a, 2) : a \in Account}
                \cup {Row(c1, k3, 1, 2, 1), Row(c2, k4, 1, 2, 1), Row(c3, k5, 1, 2, 1)}
    /\ committed = Tx \ {c4}
    /\ currency = [a \in Account |-> 1]
    /\ exists = Account
    /\ lock = [a \in Account |-> None]
    /\ newAmount = [a \in Account |-> 0]
    /\ newLatest = [a \in Account |-> 0]
    /\ conns = {}
    /\ opc = [a \in Account |-> "done"]
    /\ opening = [a \in Account |-> 2]
    /\ openReply = [a \in Account |-> "ok"]
    /\ pc = [c \in Calls |-> IF c = c4 THEN "idle" ELSE "done"]
    /\ req = [c \in Calls |-> IF c = c4 THEN None
                              ELSE Transfer(1, 2, 1, CASE c = c1 -> k3 [] c = c2 -> k4 [] c = c3 -> k5)]
    /\ postingID = [c \in Calls |-> CASE c = c1 -> <<3, 4, 0>> [] c = c2 -> <<6, 7, 0>>
                                      [] c = c3 -> <<8, 9, 0>> [] c = c4 -> <<0, 0, 0>>]
    /\ reply = [c \in Calls |-> IF c = c4 THEN "none" ELSE "ok"]
    /\ cursor = 0 /\ wpc = "snapshot" /\ upperLimit = 5 /\ users = {2, 3}
    /\ snapshot = 0 /\ effectiveMax = 5 /\ step = 0 /\ fullSum = 0 /\ fullMax = 0
    /\ failures = 0

\* The calls c3 and c4 came before account 2 was there.
TwoOpened ==
    /\ OpenedRows({1, 2}, 2)
    /\ pc = [c \in Calls |-> IF c \in {c3, c4} THEN "done" ELSE "idle"]
    /\ req = [c \in Calls |-> IF c \in {c3, c4} THEN Transfer(1, 2, 1, k3) ELSE None]
    /\ postingID = [c \in Calls |-> [a \in Account |-> 0]]
    /\ reply = [c \in Calls |-> IF c \in {c3, c4} THEN "not_found" ELSE "none"]

\* In the overdrawn ledger c4 may pay account 1 back, or try to spend once more.
AheadSpec == (TwoOpened \/ Overdrawn) /\ [][FaultFreeNext]_ledgerVars /\ LedgerFairness
=============================================================================
