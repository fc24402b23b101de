------------------------------- MODULE Gateway ------------------------------
(***************************************************************************)
(* The gateway process: CreateAccount and Transfer calls running           *)
(* concurrently against one database (cmd/gateway, internal/transport/grpc,*)
(* internal/usecase), without the posting worker.                          *)
(***************************************************************************)
EXTENDS Accounts, Transfers

gatewayVars == <<accountVars, transferVars>>
vars == <<dbVars, gatewayVars>>

Init == DBInit /\ AccountsInit /\ TransfersInit

AccountStep(a) == OpenStep(a) /\ UNCHANGED transferVars
CallStep(c) == TransferStep(c) /\ UNCHANGED accountVars

AllDone == (\A a \in Account : opc[a] = "done") /\ (\A c \in Calls : pc[c] = "done")

\* Every call of this instance has been answered.
Terminated == AllDone /\ UNCHANGED vars

Next ==
    \/ \E a \in Account : AccountStep(a)
    \/ \E c \in Calls : CallStep(c)
    \/ Terminated

Spec == Init /\ [][Next]_vars

\* A call that can take its next statement eventually takes it: goroutines are
\* scheduled, statements return, and PostgreSQL grants a lock that is free.
\* Nothing is assumed about failures, which need never happen.
Fairness ==
    /\ \A a \in Account : WF_vars(OpenProgress(a) /\ UNCHANGED transferVars)
    /\ \A c \in Calls : WF_vars(TransferProgress(c) /\ UNCHANGED accountVars)

FairSpec == Spec /\ Fairness

-----------------------------------------------------------------------------
(* The type invariant.                                                     *)

PostingRow == [tx : Tx, account : Account, amount : Int]

TxRow == [id : Tx, key : Key \cup Account, from : Account, to : Account,
          amount : Int, currency : Int]

DBTypeOK ==
    /\ amount \in [Account -> Int]
    /\ latest \in [Account -> Nat]
    /\ currency \in [Account -> Int]
    /\ exists \in SUBSET Account
    /\ lock \in [Account -> Session \cup {None}]
    /\ newAmount \in [Account -> Int]
    /\ newLatest \in [Account -> Nat]
    /\ posting \in Seq(PostingRow)
    /\ txrows \in SUBSET TxRow
    /\ committed \in SUBSET Tx
    /\ conns \in SUBSET Tx

\* Every variable holds values of its kind.
TypeOK == DBTypeOK /\ AccountsTypeOK /\ TransfersTypeOK

-----------------------------------------------------------------------------
(* Safety.                                                                 *)

\* accounts.amount is the sum of the account's visible postings, in every
\* state and for every interleaving of the calls: transfer.go writes the two
\* in different statements of one transaction.
BalanceMatchesPostings == \A a \in Account : Drift(a) = 0

\* accounts.latest_posting_id is the largest visible posting id of the account
\* although transactions commit in another order than they drew their ids
\* (GREATEST in DebitBalance and CreditBalance).
LatestIsMax == \A a \in Account : latest[a] = MaxId(VisibleOf(a))

\* No sender is ever overdrawn by concurrent debits, neither in the committed
\* rows nor in a row version waiting for its commit, and no credit leaves BIGINT.
NoOverdraft ==
    \A a \in Account : amount[a] \in 0 .. MaxBigint /\ newAmount[a] \in 0 .. MaxBigint

\* Session t may be unable to proceed before session u ends.
WaitsFor(t, u) ==
    t \in Calls /\ (WaitsForKey(t, u) \/ \E a \in Account : WaitsForRow(t, a, u))

\* No set of sessions waits for itself: the ascending order of the balance
\* updates (transfer.go, "единый порядок блокировки строк") excludes deadlock
\* between counter-transfers, and so does waiting for a key before any row.
NoWaitCycle ==
    \A S \in SUBSET Tx : S # {} => \E t \in S : \A u \in S : ~WaitsFor(t, u)

\* What a caller was told is what happened: "ok" only for a committed call, an
\* error other than "internal" only for one without effect, and a call that is
\* over left no lock, connection or half-written row behind.
ReplyFaithful ==
    \A c \in Calls : pc[c] = "done" =>
        /\ reply[c] = "ok" => c \in committed
        /\ c \in committed => reply[c] \in {"ok", "internal"}
        /\ c \notin conns /\ Mine(c) = {}
        /\ (\E r \in txrows : r.id = c) <=> c \in committed

\* Money only moves between accounts of the transaction's currency, and only in
\* a currency IsValid knows, although the currency is checked before the
\* transaction begins (validateTransferCurrencies) and CreateAccount checks less.
CurrencyConsistent ==
    \A r \in txrows : r.id \in Calls =>
        IsValid(r.currency) /\ currency[r.from] = r.currency /\ currency[r.to] = r.currency

-----------------------------------------------------------------------------
(* The inductive invariant.                                                *)

\* Requests have passed validation; only accounts and calls that are over have
\* committed anything; a transfer runs between existing accounts.
Control ==
    /\ \A c \in Calls : pc[c] \notin {"idle", "done"} =>
            /\ req[c] \in Request
            /\ req[c].from # req[c].to /\ req[c].amount > 0 /\ req[c].key # NilKey
    /\ \A c \in Calls : InTransaction(c) \/ pc[c] \in {"begin", "rollback"} =>
            {req[c].from, req[c].to} \subseteq exists
    /\ \A a \in exists : opc[a] = "done"
    /\ \A a \in Account : a \in committed => opc[a] = "done"
    /\ \A c \in Calls : c \in committed => pc[c] = "done"

\* Call c may hold the row of a.
Holds(c, a) ==
    \/ pc[c] = "balance2" /\ a = FirstOp(c)
    \/ pc[c] \in {"commit", "rollback"} /\ a \in {req[c].from, req[c].to}

\* Row locks are held exactly by the transactions that wrote the rows.
Locks ==
    /\ \A a \in Account :
        /\ lock[a] \in Calls => Holds(lock[a], a)
        /\ lock[a] \in Account => lock[a] = a /\ opc[a] \in {"opening", "commit"}
        /\ opc[a] \in {"opening", "commit"} => lock[a] = a
    /\ \A c \in Calls :
        /\ pc[c] = "balance2" => lock[FirstOp(c)] = c
        /\ pc[c] = "commit" => lock[req[c].from] = c /\ lock[req[c].to] = c

\* What call c adds to account a.
CallDelta(c, a) == IF a = req[c].from THEN -req[c].amount ELSE req[c].amount

\* The row version of a lock holder is the committed one plus its own change.
Rows ==
    \A a \in Account :
        /\ lock[a] \in Calls /\ pc[lock[a]] # "rollback" =>
              /\ newAmount[a] = amount[a] + CallDelta(lock[a], a)
              /\ newLatest[a] = GreatestLatest(lock[a], a)
        /\ opc[a] # "done" => amount[a] = 0 /\ latest[a] = 0
        /\ opc[a] = "opening" => newAmount[a] = 0 /\ newLatest[a] = 0

PostedBy(c, a) ==
    /\ postingID[c][a] \in DOMAIN posting
    /\ posting[postingID[c][a]] = [tx |-> c, account |-> a, amount |-> CallDelta(c, a)]

\* A posting of an open transaction is one it drew the id for, one per account.
OwnPosting(i) ==
    LET t == posting[i].tx  a == posting[i].account IN
    /\ t \in Calls =>
          /\ pc[t] \notin {"idle", "currencies", "begin", "transaction", "debit_posting"}
          /\ pc[t] = "credit_posting" => a = req[t].from
          /\ pc[t] \in {"credit_posting", "balance1", "balance2", "commit"} =>
                a \in {req[t].from, req[t].to} /\ postingID[t][a] = i
    /\ t \in Account =>
          /\ opc[t] \notin {"idle", "opening"}
          /\ opc[t] = "commit" => a = t /\ newLatest[t] = i

\* A call that has inserted its postings finds them in the journal, ...
Posted(c) ==
    /\ pc[c] \in {"credit_posting", "balance1", "balance2", "commit"} => PostedBy(c, req[c].from)
    /\ pc[c] \in {"balance1", "balance2", "commit"} => PostedBy(c, req[c].to)

\* ... and an account about to be committed has the posting of its balance.
Funded(a) ==
    opc[a] = "commit" =>
        \/ newAmount[a] = 0 /\ newLatest[a] = 0
        \/ /\ newLatest[a] \in DOMAIN posting
           /\ posting[newLatest[a]] = [tx |-> a, account |-> a, amount |-> newAmount[a]]

Journal ==
    /\ \A i \in DOMAIN posting : OwnPosting(i)
    /\ \A c \in Calls : Posted(c)
    /\ \A a \in Account : Funded(a)

\* A transaction row is written by a call that is past CreateTransaction.
KeyOwners ==
    \A r \in txrows : r.id \in Calls =>
        pc[r.id] \notin {"idle", "currencies", "begin", "transaction"}

\* Call c is between its INSERT and its end.
Inserted(c) ==
    pc[c] \in {"debit_posting", "credit_posting", "balance1", "balance2", "commit"}

\* Every open transaction past its INSERT has its row, as it inserted it, and no
\* row outlives a transaction that did not commit.
TxRows ==
    /\ \A c \in Calls :
        /\ Inserted(c) => TransferRow(c) \in txrows
        /\ c \in committed => \E r \in txrows : r.id = c
    /\ \A a \in Account :
        /\ opc[a] = "opening" => opening[a] > 0
        /\ opc[a] = "commit" => newAmount[a] = opening[a]
        /\ opc[a] = "commit" /\ opening[a] > 0 => OpeningRow(a) \in txrows
    /\ \A r \in txrows : r.id \in Calls =>
        /\ r.key \in Key
        /\ Inserted(r.id) => r = TransferRow(r.id)
        /\ Inserted(r.id) \/ pc[r.id] = "rollback" \/ r.id \in committed
    /\ \A r \in txrows : r.id \in Account =>
        /\ r.key = r.id
        /\ opc[r.id] = "commit" => r = OpeningRow(r.id) /\ opening[r.id] > 0
        /\ opc[r.id] = "commit" \/ r.id \in committed
    /\ \A r, s \in txrows : r.key = s.key => r = s

\* A currency that was checked stays the currency of the row: rows get it before
\* they become visible, and a visible row keeps it.
Priced ==
    /\ \A c \in Calls : pc[c] = "currencies" => IsValid(req[c].currency)
    /\ \A c \in Calls : pc[c] = "begin" \/ InTransaction(c) =>
            /\ IsValid(req[c].currency)
            /\ currency[req[c].from] = req[c].currency /\ currency[req[c].to] = req[c].currency
    /\ \A a \in Account : a \in exists \/ opc[a] \in {"opening", "commit"} => currency[a] # 0
    /\ \A r \in txrows : r.id \in Calls => {r.from, r.to} \subseteq exists
    /\ CurrencyConsistent

\* What a call has answered, and that it has a connection only for its transaction.
Told ==
    \A c \in Calls :
        /\ reply[c] = "ok" => c \in committed
        /\ c \in committed => reply[c] \in {"ok", "internal"}
        /\ c \in conns => InTransaction(c) \/ pc[c] = "rollback"

\* LatestIsMax without CHOOSE.
LatestBounds ==
    \A a \in Account :
        /\ \A i \in VisibleOf(a) : i <= latest[a]
        /\ latest[a] = 0 \/ latest[a] \in VisibleOf(a)

\* What every transaction of a call has written so far, whoever else writes to
\* account rows (the posting worker does, in Ledger).
CallsInv ==
    /\ TypeOK /\ Control /\ Locks /\ Rows /\ Journal /\ KeyOwners
    /\ TxRows /\ Priced /\ Told

\* And, when nobody else does, that the sum and the maximum of the visible
\* postings are in the account rows.
LedgerInv == CallsInv /\ LatestBounds /\ BalanceMatchesPostings

-----------------------------------------------------------------------------
(* Refinement.                                                             *)

CommittedRows == {r \in txrows : ~InFlight(r)}

Atomic == INSTANCE AtomicLedger WITH
            bal <- amount,
            cur <- [a \in Account |-> IF a \in exists THEN currency[a] ELSE 0],
            open <- exists,
            log <- CommittedRows

\* Statement by statement and interleaved, the calls still look like whole
\* transfers and openings, one at a time.
AtomicSpec == Atomic!Spec
=============================================================================
