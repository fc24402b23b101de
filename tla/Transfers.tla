------------------------------ MODULE Transfers -----------------------------
(***************************************************************************)
(* TransferUseCase.Transaction (internal/usecase/transfer.go): one action  *)
(* per statement that reaches the database, so that every interleaving of  *)
(* concurrent calls between statements is a behaviour of the model.        *)
(*                                                                         *)
(* Left out: metrics, logging, and the goroutine that publishes to Kafka   *)
(* after a successful commit (it touches none of this state; it starts     *)
(* exactly for the calls answered "ok").  The currencies are read from     *)
(* the rows here; CachedGateway puts the cache in front of them.           *)
(***************************************************************************)
EXTENDS LedgerDB

CONSTANTS
    Key,        \* idempotency keys of clients
    NilKey,     \* uuid.Nil
    Requests    \* the requests clients send

Request == [from : Account, to : Account, amount : Int, currency : Int,
            key : Key \cup {NilKey}]

ASSUME RequestAssumption ==
    /\ Requests \subseteq Request
    /\ Key \cap Account = {}
    /\ NilKey \notin Key

VARIABLES
    pc,         \* the next statement of the call
    req,        \* its request, once received
    postingID,  \* the ids CreatePostings returned, per account
    reply       \* what Transaction returned

transferVars == <<pc, req, postingID, reply>>

\* CURRENCY_USD, CURRENCY_EUR, CURRENCY_RUB, CURRENCY_BYN
IsValid(cur) == cur \in 1 .. 4

Replies == {"none", "ok", "invalid_amount", "same_account", "empty_key",
            "invalid_currency", "not_found", "currency_mismatch",
            "conflict", "insufficient_funds", "internal"}

TransfersInit ==
    /\ pc = [c \in Calls |-> "idle"]
    /\ req = [c \in Calls |-> None]
    /\ postingID = [c \in Calls |-> [a \in Account |-> 0]]
    /\ reply = [c \in Calls |-> "none"]

Goto(c, l) == pc' = [pc EXCEPT ![c] = l]

Answer(c, r) == reply' = [reply EXCEPT ![c] = r]

\* return uuid.Nil, err before there is a transaction
Return(c, r) == Goto(c, "done") /\ Answer(c, r) /\ UNCHANGED <<req, postingID, dbVars>>

\* return uuid.Nil, err inside the transaction: the deferred RollbackTx is next
Abort(c, r) == Goto(c, "rollback") /\ Answer(c, r) /\ UNCHANGED <<req, postingID, dbVars>>

\* Mutant: any currency code may be transferred.
validateRequestAnyCurrency(r) ==
    IF r.amount <= 0 THEN "invalid_amount"
    ELSE IF r.from = r.to THEN "same_account"
    ELSE IF r.key = NilKey THEN "empty_key"
    ELSE "none"

\* The checks of validateRequest, in their order; "none" when all pass.
validateRequest(r) ==
    IF r.amount <= 0 THEN "invalid_amount"
    ELSE IF r.from = r.to THEN "same_account"
    ELSE IF r.key = NilKey THEN "empty_key"
    ELSE IF ~IsValid(r.currency) THEN "invalid_currency"
    ELSE "none"

\* What the gRPC handler makes of the protobuf message.
domainReq(r) == [r EXCEPT !.currency = ToInt16(@)]

Receive(c) ==
    /\ pc[c] = "idle"
    /\ \E r \in Requests : LET verdict == validateRequest(domainReq(r)) IN
        /\ req' = [req EXCEPT ![c] = domainReq(r)]
        /\ Answer(c, verdict)
        /\ Goto(c, IF verdict = "none" THEN "currencies" ELSE "done")
    /\ UNCHANGED <<postingID, dbVars>>

\* validateTransferCurrencies
CheckCurrencies(c) ==
    /\ pc[c] = "currencies"
    /\ LET ends == {req[c].from, req[c].to} IN
        \/ ~(ends \subseteq exists) /\ Return(c, "not_found")
        \/ /\ ends \subseteq exists
           /\ \E a \in ends : currency[a] # req[c].currency
           /\ Return(c, "currency_mismatch")
        \/ /\ ends \subseteq exists
           /\ \A a \in ends : currency[a] = req[c].currency
           /\ Goto(c, "begin")
           /\ UNCHANGED <<req, postingID, reply, dbVars>>

BeginTx(c) ==
    /\ pc[c] = "begin"
    /\ TakeConn(c)
    /\ Goto(c, "transaction")
    /\ UNCHANGED <<rowVars, tableVars, req, postingID, reply>>

SameKey(c) == {r \in txrows : r.key = req[c].key}

\* The row call c inserts.
TransferRow(c) ==
    [id |-> c, key |-> req[c].key, from |-> req[c].from, to |-> req[c].to,
     amount |-> req[c].amount, currency |-> req[c].currency]

InsertTransaction(c) ==
    /\ txrows' = txrows \cup {TransferRow(c)}
    /\ Goto(c, "debit_posting")
    /\ UNCHANGED <<rowVars, posting, committed, conns, req, postingID, reply>>

\* Mutant: the key is not UNIQUE.
CreateTransactionAnyKey(c) == pc[c] = "transaction" /\ InsertTransaction(c)

\* Mutant: a conflicting INSERT is tried again instead of returned.
CreateTransactionRetry(c) ==
    /\ pc[c] = "transaction"
    /\ \/ /\ \E r \in SameKey(c) : ~InFlight(r)
          /\ UNCHANGED <<transferVars, dbVars>>
       \/ SameKey(c) = {} /\ InsertTransaction(c)

\* INSERT INTO ledger.transactions: a row of an open transaction with the same
\* key makes it wait for the outcome, a committed one makes it fail (23505).
CreateTransaction(c) ==
    /\ pc[c] = "transaction"
    /\ \/ /\ \E r \in SameKey(c) : ~InFlight(r)
          /\ Abort(c, "conflict")
       \/ SameKey(c) = {} /\ InsertTransaction(c)

\* Mutant: the id before the returned one is kept.
CreatePostingPrevious(c, a, amt, next) ==
    /\ InsertPosting(c, a, amt)
    /\ postingID' = [postingID EXCEPT ![c][a] = NextPostingId - 1]
    /\ Goto(c, next)
    /\ UNCHANGED <<rowVars, txrows, committed, conns, req, reply>>

CreatePosting(c, a, amt, next) ==
    /\ InsertPosting(c, a, amt)
    /\ postingID' = [postingID EXCEPT ![c][a] = NextPostingId]
    /\ Goto(c, next)
    /\ UNCHANGED <<rowVars, txrows, committed, conns, req, reply>>

\* CreatePostings: one INSERT of two rows.  Each row draws its own id, and
\* another session may draw one in between.
CreatePostings(c) ==
    \/ pc[c] = "debit_posting"
       /\ CreatePosting(c, req[c].from, -req[c].amount, "credit_posting")
    \/ pc[c] = "credit_posting"
       /\ CreatePosting(c, req[c].to, req[c].amount, "balance1")

\* Mutant: latest_posting_id = $2
LastPosting(c, a) == postingID[c][a]

\* latest_posting_id = GREATEST(latest_posting_id, $2)
GreatestLatest(c, a) == MaxOf(latest[a], postingID[c][a])

\* Mutant: the UPDATE has no WHERE amount >= $1.
DebitBalanceUnchecked(c, a, next) ==
    /\ WriteRow(c, a, amount[a] - req[c].amount, GreatestLatest(c, a))
    /\ Goto(c, next)
    /\ UNCHANGED <<amount, latest, currency, exists, tableVars, conns, req, postingID, reply>>

\* UPDATE ... WHERE amount >= $1: a row whose committed version fails the
\* condition is not matched, so nothing is locked and no row is affected.
DebitBalance(c, a, next) ==
    \/ amount[a] < req[c].amount /\ Abort(c, "insufficient_funds")
    \/ /\ amount[a] >= req[c].amount
       /\ WriteRow(c, a, amount[a] - req[c].amount, GreatestLatest(c, a))
       /\ Goto(c, next)
       /\ UNCHANGED <<amount, latest, currency, exists, tableVars, conns, req, postingID, reply>>

\* The row exists (accounts are never deleted), so the one way the statement
\* itself fails is a BIGINT overflow.
CreditBalance(c, a, next) ==
    \/ lock[a] = None /\ amount[a] + req[c].amount > MaxBigint /\ Abort(c, "internal")
    \/ /\ amount[a] + req[c].amount <= MaxBigint
       /\ WriteRow(c, a, amount[a] + req[c].amount, GreatestLatest(c, a))
       /\ Goto(c, next)
       /\ UNCHANGED <<amount, latest, currency, exists, tableVars, conns, req, postingID, reply>>

\* Mutant: no common order, the debit always comes first.
DebitFirst(c) == FALSE

\* ops: the two updates, in ascending order of the account ids.
CreditFirst(c) == req[c].to < req[c].from

FirstOp(c)  == IF CreditFirst(c) THEN req[c].to ELSE req[c].from
SecondOp(c) == IF CreditFirst(c) THEN req[c].from ELSE req[c].to

BalanceOp(c, a, next) ==
    \/ a = req[c].from /\ DebitBalance(c, a, next)
    \/ a = req[c].to /\ CreditBalance(c, a, next)

UpdateBalances(c) ==
    \/ pc[c] = "balance1" /\ BalanceOp(c, FirstOp(c), "balance2")
    \/ pc[c] = "balance2" /\ BalanceOp(c, SecondOp(c), "commit")

\* The commit takes effect; its answer may be lost on the way back, and then
\* the call returns the error (the deferred rollback finds a closed transaction).
CommitTx(c) ==
    /\ pc[c] = "commit"
    /\ CommitRows(c)
    /\ \E r \in {"ok", "internal"} : Answer(c, r)
    /\ Goto(c, "done")
    /\ UNCHANGED <<req, postingID>>

\* Mutant: the deferred RollbackTx is missing.
RollbackTxMissing(c) ==
    /\ pc[c] = "rollback"
    /\ Goto(c, "done")
    /\ UNCHANGED <<dbVars, req, postingID, reply>>

RollbackTx(c) ==
    /\ pc[c] = "rollback"
    /\ RollbackRows(c)
    /\ Goto(c, "done")
    /\ UNCHANGED <<currency, req, postingID, reply>>

InTransaction(c) ==
    pc[c] \in {"transaction", "debit_posting", "credit_posting", "balance1", "balance2", "commit"}

\* Any statement may fail: lost connection, cancelled or timed out context, a
\* crash of the gateway (the server then ends the transaction itself).
Fail(c) ==
    \/ pc[c] \in {"currencies", "begin"} /\ Return(c, "internal")
    \/ InTransaction(c) /\ Abort(c, "internal")

TransferProgress(c) ==
    \/ Receive(c) \/ CheckCurrencies(c) \/ BeginTx(c) \/ CreateTransaction(c)
    \/ CreatePostings(c) \/ UpdateBalances(c) \/ CommitTx(c) \/ RollbackTx(c)

TransferStep(c) == TransferProgress(c) \/ Fail(c)

\* Call t cannot go on before transaction u ends.
WaitsForRow(t, a, u) ==
    /\ \/ pc[t] = "balance1" /\ a = FirstOp(t)
       \/ pc[t] = "balance2" /\ a = SecondOp(t)
    /\ lock[a] = u /\ u # t

WaitsForKey(t, u) ==
    /\ pc[t] = "transaction"
    /\ \E r \in SameKey(t) : InFlight(r) /\ r.id = u

TransfersTypeOK ==
    /\ pc \in [Calls -> {"idle", "currencies", "begin", "transaction", "debit_posting",
                         "credit_posting", "balance1", "balance2", "commit", "rollback",
                         "done"}]
    /\ req \in [Calls -> Request \cup {None}]
    /\ postingID \in [Calls -> [Account -> Nat]]
    /\ reply \in [Calls -> Replies]
=============================================================================
