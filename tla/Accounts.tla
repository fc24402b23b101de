------------------------------ MODULE Accounts ------------------------------
(***************************************************************************)
(* AccountUseCase.CreateAccount (internal/usecase/account.go) behind the   *)
(* gRPC handler: an account row with balance 0 and, when the random        *)
(* opening balance is positive, a transaction row from the account to      *)
(* itself, one posting and a credit, all in one database transaction.      *)
(***************************************************************************)
EXTENDS LedgerDB

CONSTANTS
    OpenCurrencies,    \* currency codes of CreateAccount requests (int32)
    OpeningBalances    \* opening balances rand.Intn may draw

ASSUME OpenAssumption == OpenCurrencies \subseteq Int /\ OpeningBalances \subseteq 0 .. MaxBigint

VARIABLES
    opc,        \* where CreateAccount for this id stands
    opening,    \* the opening balance it drew
    openReply   \* what the caller was told

accountVars == <<opc, opening, openReply>>

AccountsInit ==
    /\ opc = [a \in Account |-> "idle"]
    /\ opening = [a \in Account |-> 0]
    /\ openReply = [a \in Account |-> "none"]

OpenDone(a, r) ==
    /\ opc' = [opc EXCEPT ![a] = "done"]
    /\ openReply' = [openReply EXCEPT ![a] = r]
    /\ UNCHANGED opening

\* Only CURRENCY_UNSPECIFIED is refused.
OpenRejected(a) ==
    /\ opc[a] = "idle"
    /\ \E cur \in OpenCurrencies : ToInt16(cur) = 0
    /\ OpenDone(a, "invalid_currency")
    /\ UNCHANGED dbVars

\* BeginTx and the INSERT of the account row, invisible until the commit.
OpenInsert(a) ==
    /\ opc[a] = "idle"
    /\ \E cur \in OpenCurrencies, balance \in OpeningBalances :
        /\ ToInt16(cur) # 0
        /\ TakeConn(a)
        /\ WriteRow(a, a, 0, 0)
        /\ currency' = [currency EXCEPT ![a] = ToInt16(cur)]
        /\ opening' = [opening EXCEPT ![a] = balance]
        /\ opc' = [opc EXCEPT ![a] = IF balance > 0 THEN "opening" ELSE "commit"]
    /\ UNCHANGED <<amount, latest, exists, tableVars, openReply>>

\* The transaction that brings the opening balance.
OpeningRow(a) ==
    [id |-> a, key |-> a, from |-> a, to |-> a, amount |-> opening[a], currency |-> currency[a]]

\* CreateTransaction under a fresh key (here the account id itself), one
\* posting, CreditBalance of the new row.  No other session sees or waits for
\* these rows, so the three statements form one step.
OpenFund(a) ==
    /\ opc[a] = "opening"
    /\ txrows' = txrows \cup {OpeningRow(a)}
    /\ InsertPosting(a, a, opening[a])
    /\ WriteRow(a, a, newAmount[a] + opening[a], MaxOf(newLatest[a], NextPostingId))
    /\ opc' = [opc EXCEPT ![a] = "commit"]
    /\ UNCHANGED <<amount, latest, currency, exists, committed, conns, opening, openReply>>

\* CommitTx; the answer of the server may be lost after it took effect.
OpenCommit(a) ==
    /\ opc[a] = "commit"
    /\ CommitRows(a)
    /\ \E r \in {"ok", "internal"} : OpenDone(a, r)

\* A statement or the commit fails: the deferred RollbackTx ends the transaction.
OpenFail(a) ==
    /\ opc[a] \in {"opening", "commit"}
    /\ RollbackRows(a)
    /\ currency' = [currency EXCEPT ![a] = 0]
    /\ OpenDone(a, "internal")

\* uuid.NewV7 or BeginTx fails: there is no transaction to roll back.
OpenRefused(a) ==
    /\ opc[a] = "idle"
    /\ OpenDone(a, "internal")
    /\ UNCHANGED dbVars

OpenProgress(a) == OpenRejected(a) \/ OpenInsert(a) \/ OpenFund(a) \/ OpenCommit(a)

OpenStep(a) == OpenProgress(a) \/ OpenFail(a) \/ OpenRefused(a)

AccountsTypeOK ==
    /\ opc \in [Account -> {"idle", "opening", "commit", "done"}]
    /\ opening \in [Account -> 0 .. MaxBigint]
    /\ openReply \in [Account -> {"none", "ok", "invalid_currency", "internal"}]
=============================================================================
