---------------------------- MODULE GatewayProofs ---------------------------
(***************************************************************************)
(* Theorems about Gateway, for every set of accounts, calls and requests.  *)
(***************************************************************************)
EXTENDS Gateway, SumLemmas

-----------------------------------------------------------------------------
(* Types.                                                                  *)

\* The conversion of a currency code yields an integer.
LEMMA ConvertedType == \A n \in Int : ToInt16(n) \in Int
<1>1. HalfInt16 \in Nat /\ HalfInt16 # 0
  BY SMT DEF HalfInt16
<1> QED BY <1>1, Narrowed, SMT DEF ToInt16

\* The empty database and idle calls are well typed.
LEMMA InitTypeOK == Init => TypeOK
  BY SessionAssumption, BoundAssumption
  DEF Init, DBInit, AccountsInit, TransfersInit, TypeOK, DBTypeOK, AccountsTypeOK,
      TransfersTypeOK, Replies

\* Every statement of CreateAccount keeps the types.
LEMMA OpenTypeOK ==
    ASSUME TypeOK, NEW a \in Account, AccountStep(a)
    PROVE  TypeOK'
<1> USE DEF TypeOK, DBTypeOK, AccountsTypeOK, TransfersTypeOK, AccountStep,
            rowVars, tableVars, dbVars, transferVars, OpenDone
<1>1. CASE OpenRejected(a)
  BY <1>1 DEF OpenRejected
<1>2. CASE OpenInsert(a)
  <2>1. PICK cur \in OpenCurrencies, balance \in OpeningBalances :
          /\ TakeConn(a)
          /\ WriteRow(a, a, 0, 0)
          /\ currency' = [currency EXCEPT ![a] = ToInt16(cur)]
          /\ opening' = [opening EXCEPT ![a] = balance]
          /\ opc' = [opc EXCEPT ![a] = IF balance > 0 THEN "opening" ELSE "commit"]
    BY <1>2 DEF OpenInsert
  <2>2. ToInt16(cur) \in Int /\ balance \in 0 .. MaxBigint /\ a \in Session /\ a \in Tx
    BY OpenAssumption, BoundAssumption, ConvertedType DEF Session, Tx
  <2> QED BY <1>2, <2>1, <2>2 DEF OpenInsert, TakeConn, WriteRow
<1>3. CASE OpenFund(a)
  <2>1. a \in Tx /\ a \in Session
    BY DEF Tx, Session
  <2>2. Len(posting) \in Nat
    OBVIOUS
  <2>3. posting' \in Seq(PostingRow)
    BY <1>3, <2>1 DEF OpenFund, InsertPosting, PostingRow
  <2>4. txrows' \in SUBSET TxRow
    BY <1>3, <2>1 DEF OpenFund, OpeningRow, TxRow
  <2>5. newAmount' \in [Account -> Int] /\ newLatest' \in [Account -> Nat]
        /\ lock' \in [Account -> Session \cup {None}]
    BY <1>3, <2>1, <2>2 DEF OpenFund, WriteRow, MaxOf, NextPostingId
  <2> QED BY <1>3, <2>3, <2>4, <2>5 DEF OpenFund
<1>4. CASE OpenCommit(a)
  BY <1>4 DEF OpenCommit, CommitRows, InstallRows, ReleaseRows, Mine, Tx, Session
<1>5. CASE OpenFail(a)
  BY <1>5 DEF OpenFail, RollbackRows, ReleaseRows, Session
<1>6. CASE OpenRefused(a)
  BY <1>6 DEF OpenRefused
<1> QED BY <1>1, <1>2, <1>3, <1>4, <1>5, <1>6 DEF OpenStep, OpenProgress

\* The handler's conversion of a request yields a request.
LEMMA DomainReqType ==
    ASSUME NEW r \in Requests
    PROVE  domainReq(r) \in Request
<1>1. r \in Request
  BY RequestAssumption
<1>2. r.currency \in Int
  BY <1>1 DEF Request
<1>3. ToInt16(r.currency) \in Int
  BY <1>2, ConvertedType
<1> QED BY <1>1, <1>3 DEF domainReq, Request

\* Call c wrote the row of a: the committed version plus its own change.
RowWritten(c, a, next) ==
    /\ \/ pc[c] = "balance1" /\ a = FirstOp(c) /\ next = "balance2"
       \/ pc[c] = "balance2" /\ a = SecondOp(c) /\ next = "commit"
    /\ req[c].amount \in Int
    /\ a \in {req[c].from, req[c].to}
    /\ a = req[c].from => amount[a] >= req[c].amount
    /\ a # req[c].from => amount[a] + req[c].amount <= MaxBigint
    /\ WriteRow(c, a, amount[a] + CallDelta(c, a), GreatestLatest(c, a))
    /\ Goto(c, next)
    /\ UNCHANGED <<amount, latest, currency, exists, tableVars, conns, req, postingID, reply>>

\* A balance update fails or writes one row.
LEMMA BalanceStep ==
    ASSUME TypeOK, Control, NEW c \in Calls, UpdateBalances(c)
    PROVE  \/ Abort(c, "insufficient_funds") \/ Abort(c, "internal")
           \/ \E a \in Account, next \in {"balance2", "commit"} : RowWritten(c, a, next)
<1>1. /\ req[c] \in Request /\ req[c].from # req[c].to /\ req[c].amount \in Int
      /\ req[c].from \in Account /\ req[c].to \in Account
  BY DEF UpdateBalances, Control, Request
<1>2. PICK a \in Account, next \in {"balance2", "commit"} :
        /\ \/ pc[c] = "balance1" /\ a = FirstOp(c) /\ next = "balance2"
           \/ pc[c] = "balance2" /\ a = SecondOp(c) /\ next = "commit"
        /\ BalanceOp(c, a, next)
  BY <1>1 DEF UpdateBalances, FirstOp, CreditFirst, SecondOp
<1>3. amount[a] \in Int
  BY DEF TypeOK, DBTypeOK
<1>4. CASE a = req[c].from /\ DebitBalance(c, a, next)
  <2>1. amount[a] + CallDelta(c, a) = amount[a] - req[c].amount
    BY <1>1, <1>3, <1>4 DEF CallDelta
  <2>2. CASE Abort(c, "insufficient_funds")
    BY <2>2
  <2>3. CASE amount[a] >= req[c].amount
    <3>1. RowWritten(c, a, next)
      BY <1>1, <1>2, <1>3, <1>4, <2>1, <2>3 DEF DebitBalance, RowWritten
    <3> QED BY <3>1
  <2> QED BY <1>4, <2>2, <2>3 DEF DebitBalance
<1>5. CASE a = req[c].to /\ CreditBalance(c, a, next)
  <2>1. amount[a] + CallDelta(c, a) = amount[a] + req[c].amount
    BY <1>1, <1>3, <1>5 DEF CallDelta
  <2>2. CASE Abort(c, "internal")
    BY <2>2
  <2>3. CASE /\ amount[a] + req[c].amount <= MaxBigint
             /\ WriteRow(c, a, amount[a] + req[c].amount, GreatestLatest(c, a))
             /\ Goto(c, next)
             /\ UNCHANGED <<amount, latest, currency, exists, tableVars, conns, req, postingID, reply>>
    <3>1. RowWritten(c, a, next)
      BY <1>1, <1>2, <1>5, <2>1, <2>3 DEF RowWritten
    <3> QED BY <3>1
  <2> QED BY <1>5, <2>2, <2>3 DEF CreditBalance
<1> QED BY <1>2, <1>4, <1>5 DEF BalanceOp

\* Every statement of Transaction keeps the types.
LEMMA CallTypeOK ==
    ASSUME TypeOK, Control, NEW c \in Calls, CallStep(c)
    PROVE  TypeOK'
<1> USE DEF TypeOK, DBTypeOK, AccountsTypeOK, TransfersTypeOK, CallStep,
            rowVars, tableVars, dbVars, accountVars, Goto, Answer
<1>1. CASE Receive(c)
  <2>1. PICK r \in Requests : LET verdict == validateRequest(domainReq(r)) IN
          /\ req' = [req EXCEPT ![c] = domainReq(r)]
          /\ Answer(c, verdict)
          /\ Goto(c, IF verdict = "none" THEN "currencies" ELSE "done")
    BY <1>1 DEF Receive
  <2>2. domainReq(r) \in Request
    BY DomainReqType
  <2>3. validateRequest(domainReq(r)) \in Replies
    BY DEF validateRequest, Replies
  <2> QED BY <1>1, <2>1, <2>2, <2>3 DEF Receive
<1>2. CASE CheckCurrencies(c)
  BY <1>2 DEF CheckCurrencies, Return, Replies
<1>3. CASE BeginTx(c)
  BY <1>3 DEF BeginTx, TakeConn, Tx
<1>4. CASE CreateTransaction(c)
  <2>1. req[c] \in Request /\ req[c].key # NilKey
    BY <1>4 DEF CreateTransaction, Control
  <2>2. CASE Abort(c, "conflict")
    BY <2>2 DEF Abort, Replies
  <2>3. CASE InsertTransaction(c)
    <3>1. txrows' \in SUBSET TxRow
      BY <2>1, <2>3 DEF InsertTransaction, TransferRow, TxRow, Tx, Request
    <3> QED BY <2>3, <3>1 DEF InsertTransaction
  <2> QED BY <1>4, <2>2, <2>3 DEF CreateTransaction
<1>5. CASE CreatePostings(c)
  <2>1. req[c] \in Request
    BY <1>5 DEF CreatePostings, Control
  <2>2. PICK a \in Account, amt \in Int, next \in {"credit_posting", "balance1"} :
          CreatePosting(c, a, amt, next)
    BY <1>5, <2>1 DEF CreatePostings, Request
  <2>3. NextPostingId \in Nat
    BY DEF NextPostingId
  <2>4. posting' \in Seq(PostingRow)
    BY <2>2 DEF CreatePosting, InsertPosting, PostingRow, Tx
  <2> QED BY <2>2, <2>3, <2>4 DEF CreatePosting
<1>6. CASE UpdateBalances(c)
  <2>1. CASE Abort(c, "insufficient_funds") \/ Abort(c, "internal")
    BY <2>1 DEF Abort, Replies
  <2>2. CASE \E a \in Account, next \in {"balance2", "commit"} : RowWritten(c, a, next)
    <3>1. PICK a \in Account, next \in {"balance2", "commit"} : RowWritten(c, a, next)
      BY <2>2
    <3>2. /\ GreatestLatest(c, a) \in Nat
          /\ amount[a] + CallDelta(c, a) \in Int
          /\ c \in Session
      BY <3>1 DEF GreatestLatest, MaxOf, CallDelta, RowWritten, Session, Tx
    <3> QED BY <3>1, <3>2 DEF RowWritten, WriteRow
  <2> QED BY <1>6, <2>1, <2>2, BalanceStep
<1>7. CASE CommitTx(c)
  BY <1>7 DEF CommitTx, CommitRows, InstallRows, ReleaseRows, Mine, Tx, Session, Replies
<1>8. CASE RollbackTx(c)
  BY <1>8 DEF RollbackTx, RollbackRows, ReleaseRows, Session
<1>9. CASE Fail(c)
  BY <1>9 DEF Fail, Return, Abort, Replies
<1> QED BY <1>1, <1>2, <1>3, <1>4, <1>5, <1>6, <1>7, <1>8, <1>9 DEF TransferStep, TransferProgress
-----------------------------------------------------------------------------
(* Control.                                                                *)

\* CreateAccount makes only finished accounts visible.
LEMMA OpenControl ==
    ASSUME TypeOK, Control, Locks, NEW a \in Account, AccountStep(a)
    PROVE  Control'
<1> USE DEF Control, InTransaction, AccountStep, transferVars, OpenDone
<1>0. opc \in [Account -> {"idle", "opening", "commit", "done"}]
  BY DEF TypeOK, AccountsTypeOK
<1>1. CASE OpenRejected(a)
  BY <1>0, <1>1 DEF OpenRejected, dbVars, rowVars, tableVars
<1>2. CASE OpenInsert(a)
  BY <1>0, <1>2 DEF OpenInsert, tableVars
<1>3. CASE OpenFund(a)
  BY <1>0, <1>3 DEF OpenFund
<1>4. CASE OpenCommit(a)
  <2>1. Mine(a) \subseteq {a}
    BY SessionAssumption DEF Mine, Locks
  <2>2. exists' \subseteq exists \cup {a} /\ exists \subseteq exists' /\ committed' = committed \cup {a}
    BY <1>4, <2>1 DEF OpenCommit, CommitRows
  <2>3. opc' = [opc EXCEPT ![a] = "done"]
    BY <1>4 DEF OpenCommit
  <2>4. a \notin Calls
    BY SessionAssumption
  <2> QED BY <1>0, <1>4, <2>2, <2>3, <2>4
<1>5. CASE OpenFail(a)
  BY <1>0, <1>5 DEF OpenFail, RollbackRows
<1>6. CASE OpenRefused(a)
  BY <1>0, <1>6 DEF OpenRefused, dbVars, rowVars, tableVars
<1> QED BY <1>1, <1>2, <1>3, <1>4, <1>5, <1>6 DEF OpenStep, OpenProgress

\* A Transfer call gets past validation only with a valid request between
\* existing accounts, and commits only as its last step.
LEMMA CallControl ==
    ASSUME TypeOK, Control, Locks, NEW c \in Calls, CallStep(c)
    PROVE  Control'
<1> USE DEF Control, InTransaction, CallStep, accountVars, Goto
<1>0. /\ pc \in [Calls -> {"idle", "currencies", "begin", "transaction", "debit_posting",
                           "credit_posting", "balance1", "balance2", "commit", "rollback",
                           "done"}]
      /\ DOMAIN req = Calls
  BY DEF TypeOK, TransfersTypeOK
<1>1. CASE Receive(c)
  <2>1. PICK r \in Requests : LET verdict == validateRequest(domainReq(r)) IN
          /\ req' = [req EXCEPT ![c] = domainReq(r)]
          /\ Goto(c, IF verdict = "none" THEN "currencies" ELSE "done")
    BY <1>1 DEF Receive
  <2>2. domainReq(r) \in Request
    BY DomainReqType
  <2>3. validateRequest(domainReq(r)) = "none" =>
          /\ domainReq(r).from # domainReq(r).to
          /\ domainReq(r).amount > 0
          /\ domainReq(r).key # NilKey
    BY <2>2 DEF validateRequest, Request
  <2>4. pc[c] = "idle" /\ UNCHANGED <<exists, committed, opc>>
    BY <1>1 DEF Receive, dbVars, rowVars, tableVars
  <2> HIDE DEF Control
  <2>5. Control'
    BY <1>0, <2>1, <2>2, <2>3, <2>4 DEF Control
  <2> QED BY <2>5
<1>2. CASE CheckCurrencies(c)
  BY <1>0, <1>2 DEF CheckCurrencies, Return, dbVars, rowVars, tableVars
<1>3. CASE BeginTx(c)
  BY <1>0, <1>3 DEF BeginTx, rowVars, tableVars
<1>4. CASE CreateTransaction(c)
  BY <1>0, <1>4 DEF CreateTransaction, InsertTransaction, Abort, dbVars, rowVars, tableVars
<1>5. CASE CreatePostings(c)
  BY <1>0, <1>5 DEF CreatePostings, CreatePosting, rowVars
<1>6. CASE UpdateBalances(c)
  <2>1. CASE Abort(c, "insufficient_funds") \/ Abort(c, "internal")
    BY <1>0, <1>6, <2>1 DEF UpdateBalances, Abort, dbVars, rowVars, tableVars
  <2>2. CASE \E a \in Account, next \in {"balance2", "commit"} : RowWritten(c, a, next)
    BY <1>0, <1>6, <2>2 DEF RowWritten, tableVars
  <2> QED BY <1>6, <2>1, <2>2, BalanceStep
<1>7. CASE CommitTx(c)
  <2>1. Mine(c) \subseteq {req[c].from, req[c].to}
    BY <1>7 DEF Mine, Locks, Holds, CommitTx
  <2>2. {req[c].from, req[c].to} \subseteq exists
    BY <1>7 DEF CommitTx
  <2>3. exists' = exists /\ committed' = committed \cup {c} /\ c \notin Account
    BY <1>7, <2>1, <2>2, SessionAssumption DEF CommitTx, CommitRows
  <2> QED BY <1>0, <1>7, <2>3 DEF CommitTx
<1>8. CASE RollbackTx(c)
  BY <1>0, <1>8 DEF RollbackTx, RollbackRows
<1>9. CASE Fail(c)
  BY <1>0, <1>9 DEF Fail, Return, Abort, dbVars, rowVars, tableVars
<1> QED BY <1>1, <1>2, <1>3, <1>4, <1>5, <1>6, <1>7, <1>8, <1>9 DEF TransferStep, TransferProgress
-----------------------------------------------------------------------------
(* Row locks.                                                              *)

\* The request of a running call names two different accounts and an amount.
LEMMA EndsAreAccounts ==
    ASSUME Control, NEW c \in Calls, pc[c] \notin {"idle", "done"}
    PROVE  /\ req[c].from \in Account /\ req[c].to \in Account /\ req[c].from # req[c].to
           /\ req[c].amount \in Int /\ req[c].amount > 0
  BY DEF Control, Request

\* CreateAccount holds its own row from the INSERT to the end, and no other.
LEMMA OpenLocks ==
    ASSUME TypeOK, Control, Locks, NEW a \in Account, AccountStep(a)
    PROVE  Locks'
<1> USE DEF Locks, Holds, FirstOp, CreditFirst, AccountStep, transferVars, OpenDone
<1>0. /\ opc \in [Account -> {"idle", "opening", "commit", "done"}]
      /\ lock \in [Account -> Session \cup {None}]
      /\ a \notin Calls /\ a # Worker /\ None \notin Calls /\ None \notin Account /\ None # Worker
  BY SessionAssumption DEF TypeOK, DBTypeOK, AccountsTypeOK, Session, Tx
<1>1. CASE OpenRejected(a)
  BY <1>0, <1>1 DEF OpenRejected, dbVars, rowVars
<1>2. CASE OpenInsert(a)
  BY <1>0, <1>2 DEF OpenInsert, WriteRow
<1>3. CASE OpenFund(a)
  BY <1>0, <1>3 DEF OpenFund, WriteRow
<1>4. CASE OpenCommit(a)
  BY <1>0, <1>4, EndsAreAccounts DEF OpenCommit, CommitRows, InstallRows, ReleaseRows
<1>5. CASE OpenFail(a)
  BY <1>0, <1>5, EndsAreAccounts DEF OpenFail, RollbackRows, ReleaseRows
<1>6. CASE OpenRefused(a)
  BY <1>0, <1>6 DEF OpenRefused, dbVars, rowVars
<1> QED BY <1>1, <1>2, <1>3, <1>4, <1>5, <1>6 DEF OpenStep, OpenProgress

\* A Transfer call takes its two rows in order, and gives both back at its end.
LEMMA CallLocks ==
    ASSUME TypeOK, Control, Locks, NEW c \in Calls, CallStep(c)
    PROVE  Locks'
<1> USE DEF Locks, Holds, FirstOp, CreditFirst, CallStep, accountVars, Goto
<1>0. /\ pc \in [Calls -> {"idle", "currencies", "begin", "transaction", "debit_posting",
                           "credit_posting", "balance1", "balance2", "commit", "rollback",
                           "done"}]
      /\ DOMAIN req = Calls
      /\ lock \in [Account -> Session \cup {None}]
      /\ c \notin Account /\ c # Worker /\ None \notin Calls /\ None \notin Account /\ None # Worker
  BY SessionAssumption DEF TypeOK, DBTypeOK, TransfersTypeOK, Session, Tx
<1>1. CASE Receive(c)
  BY <1>0, <1>1 DEF Receive, dbVars, rowVars
<1>2. CASE CheckCurrencies(c)
  BY <1>0, <1>2 DEF CheckCurrencies, Return, dbVars, rowVars
<1>3. CASE BeginTx(c)
  BY <1>0, <1>3 DEF BeginTx, rowVars
<1>4. CASE CreateTransaction(c)
  BY <1>0, <1>4 DEF CreateTransaction, InsertTransaction, Abort, dbVars, rowVars
<1>5. CASE CreatePostings(c)
  BY <1>0, <1>5 DEF CreatePostings, CreatePosting, rowVars
<1>6. CASE UpdateBalances(c)
  <2>1. CASE Abort(c, "insufficient_funds") \/ Abort(c, "internal")
    BY <1>0, <1>6, <2>1 DEF UpdateBalances, Abort, dbVars, rowVars
  <2>2. CASE \E a \in Account, next \in {"balance2", "commit"} : RowWritten(c, a, next)
    <3>1. PICK a \in Account, next \in {"balance2", "commit"} : RowWritten(c, a, next)
      BY <2>2
    <3>2. a \in exists /\ opc[a] = "done"
      BY <3>1 DEF RowWritten, Control, InTransaction
    <3>3. req[c].from \in Account /\ req[c].to \in Account /\ req[c].from # req[c].to
      BY <3>1 DEF RowWritten, Control, Request
    <3> QED BY <1>0, <1>6, <3>1, <3>2, <3>3 DEF RowWritten, WriteRow, SecondOp
  <2> QED BY <1>6, <2>1, <2>2, BalanceStep
<1>7. CASE CommitTx(c)
  BY <1>0, <1>7, EndsAreAccounts DEF CommitTx, CommitRows, InstallRows, ReleaseRows
<1>8. CASE RollbackTx(c)
  BY <1>0, <1>8, EndsAreAccounts DEF RollbackTx, RollbackRows, ReleaseRows
<1>9. CASE Fail(c)
  BY <1>0, <1>9 DEF Fail, Return, Abort, dbVars, rowVars, InTransaction
<1> QED BY <1>1, <1>2, <1>3, <1>4, <1>5, <1>6, <1>7, <1>8, <1>9 DEF TransferStep, TransferProgress

-----------------------------------------------------------------------------
(* Row versions.                                                           *)

\* CreateAccount disturbs no row version of a Transfer call.
LEMMA OpenRows ==
    ASSUME TypeOK, Control, Locks, Rows, NEW a \in Account, AccountStep(a)
    PROVE  Rows'
<1> USE DEF Rows, CallDelta, GreatestLatest, AccountStep, transferVars, OpenDone
<1>0. /\ opc \in [Account -> {"idle", "opening", "commit", "done"}]
      /\ lock \in [Account -> Session \cup {None}]
      /\ DOMAIN amount = Account /\ DOMAIN latest = Account
      /\ DOMAIN newAmount = Account /\ DOMAIN newLatest = Account
      /\ a \notin Calls /\ None \notin Calls
  BY SessionAssumption DEF TypeOK, DBTypeOK, AccountsTypeOK, Session, Tx
<1>1. CASE OpenRejected(a)
  BY <1>0, <1>1 DEF OpenRejected, dbVars, rowVars
<1>2. CASE OpenInsert(a)
  BY <1>0, <1>2 DEF OpenInsert, WriteRow
<1>3. CASE OpenFund(a)
  BY <1>0, <1>3 DEF OpenFund, WriteRow
<1>4. CASE OpenCommit(a)
  BY <1>0, <1>4 DEF OpenCommit, CommitRows, InstallRows, ReleaseRows, Locks
<1>5. CASE OpenFail(a)
  BY <1>0, <1>5 DEF OpenFail, RollbackRows, ReleaseRows, Locks
<1>6. CASE OpenRefused(a)
  BY <1>0, <1>6 DEF OpenRefused, dbVars, rowVars
<1> QED BY <1>1, <1>2, <1>3, <1>4, <1>5, <1>6 DEF OpenStep, OpenProgress

\* While a Transfer call holds a row nobody else changes the committed version,
\* so the version it wrote remains the committed one plus its own change.
LEMMA CallRows ==
    ASSUME TypeOK, Control, Locks, Rows, NEW c \in Calls, CallStep(c)
    PROVE  Rows'
<1> USE DEF Rows, CallDelta, GreatestLatest, CallStep, accountVars, Goto
<1>0. /\ pc \in [Calls -> {"idle", "currencies", "begin", "transaction", "debit_posting",
                           "credit_posting", "balance1", "balance2", "commit", "rollback",
                           "done"}]
      /\ DOMAIN req = Calls /\ postingID \in [Calls -> [Account -> Nat]]
      /\ lock \in [Account -> Session \cup {None}]
      /\ DOMAIN amount = Account /\ DOMAIN latest = Account
      /\ DOMAIN newAmount = Account /\ DOMAIN newLatest = Account
      /\ c \notin Account /\ None \notin Calls /\ None \notin Account
  BY SessionAssumption DEF TypeOK, DBTypeOK, TransfersTypeOK, Session, Tx
<1>1. CASE Receive(c)
  BY <1>0, <1>1 DEF Receive, dbVars, rowVars, Locks, Holds
<1>2. CASE CheckCurrencies(c)
  BY <1>0, <1>2 DEF CheckCurrencies, Return, dbVars, rowVars, Locks, Holds
<1>3. CASE BeginTx(c)
  BY <1>0, <1>3 DEF BeginTx, rowVars, Locks, Holds
<1>4. CASE CreateTransaction(c)
  BY <1>0, <1>4 DEF CreateTransaction, InsertTransaction, Abort, dbVars, rowVars, Locks, Holds
<1>5. CASE CreatePostings(c)
  BY <1>0, <1>5 DEF CreatePostings, CreatePosting, rowVars, Locks, Holds
<1>6. CASE UpdateBalances(c)
  <2>1. CASE Abort(c, "insufficient_funds") \/ Abort(c, "internal")
    BY <1>0, <1>6, <2>1 DEF UpdateBalances, Abort, dbVars, rowVars
  <2>2. CASE \E a \in Account, next \in {"balance2", "commit"} : RowWritten(c, a, next)
    <3>1. PICK a \in Account, next \in {"balance2", "commit"} : RowWritten(c, a, next)
      BY <2>2
    <3>2. opc[a] = "done"
      BY <3>1 DEF RowWritten, Control, InTransaction
    <3> QED BY <1>0, <1>6, <3>1, <3>2 DEF RowWritten, WriteRow
  <2> QED BY <1>6, <2>1, <2>2, BalanceStep
<1>7. CASE CommitTx(c)
  <2>1. \A a \in Account : lock[a] = c => opc[a] = "done"
    BY <1>7 DEF CommitTx, Locks, Holds, Control, InTransaction
  <2> QED BY <1>0, <1>7, <2>1 DEF CommitTx, CommitRows, InstallRows, ReleaseRows
<1>8. CASE RollbackTx(c)
  <2>1. \A a \in Account : lock[a] = c => opc[a] = "done"
    BY <1>8 DEF RollbackTx, Locks, Holds, Control, InTransaction
  <2> QED BY <1>0, <1>8, <2>1 DEF RollbackTx, RollbackRows, ReleaseRows
<1>9. CASE Fail(c)
  BY <1>0, <1>9 DEF Fail, Return, Abort, dbVars, rowVars, Locks, Holds
<1> QED BY <1>1, <1>2, <1>3, <1>4, <1>5, <1>6, <1>7, <1>8, <1>9 DEF TransferStep, TransferProgress
-----------------------------------------------------------------------------
(* The journal.                                                            *)

\* What appending one row to a table does.
LEMMA AppendFacts ==
    ASSUME NEW S, NEW p \in Seq(S), NEW x \in S
    PROVE  LET q == Append(p, x)  n == Len(p) + 1 IN
           /\ Len(p) \in Nat /\ n \in Nat /\ n # 0 /\ Len(q) = n
           /\ DOMAIN p = 1 .. Len(p) /\ DOMAIN q = 1 .. n
           /\ \A i \in DOMAIN p : i \in DOMAIN q /\ q[i] = p[i]
           /\ \A i \in DOMAIN q : i \notin DOMAIN p => i = n
           /\ n \notin DOMAIN p /\ n \in DOMAIN q /\ q[n] = x
  OBVIOUS

\* A call that only moves on, without touching the journal.
LEMMA MoveJournal ==
    ASSUME TypeOK, Journal, NEW c \in Calls, NEW l,
           pc' = [pc EXCEPT ![c] = l],
           \A d \in Calls : d # c => req'[d] = req[d],
           \/ l \in {"rollback", "done"}
           \/ {pc[c], l} \subseteq {"idle", "currencies", "begin", "transaction", "debit_posting"},
           UNCHANGED <<posting, postingID, opc, newAmount, newLatest>>
    PROVE  Journal'
<1>0. DOMAIN pc = Calls
  BY DEF TypeOK, TransfersTypeOK
<1>1. \A i \in DOMAIN posting' : OwnPosting(i)'
  BY <1>0 DEF Journal, OwnPosting
<1>2. ASSUME NEW d \in Calls PROVE Posted(d)'
  <2>1. CASE d = c
    BY <1>0, <2>1 DEF Posted
  <2>2. CASE d # c
    BY <1>0, <2>2 DEF Journal, Posted, PostedBy, CallDelta
  <2> QED BY <2>1, <2>2
<1>3. \A a \in Account : Funded(a)'
  BY DEF Journal, Funded
<1> QED BY <1>1, <1>2, <1>3 DEF Journal

\* The opening posting is the only one of its account's transaction.
LEMMA OpenJournal ==
    ASSUME TypeOK, Control, Locks, Rows, Journal, NEW a \in Account, AccountStep(a)
    PROVE  Journal'
<1> USE DEF AccountStep, transferVars, OpenDone
<1>0. /\ opc \in [Account -> {"idle", "opening", "commit", "done"}]
      /\ lock \in [Account -> Session \cup {None}]
      /\ DOMAIN newAmount = Account /\ DOMAIN newLatest = Account
      /\ posting \in Seq(PostingRow)
      /\ a \notin Calls
  BY SessionAssumption DEF TypeOK, DBTypeOK, AccountsTypeOK, Session, Tx
<1>1. CASE OpenRejected(a) \/ OpenRefused(a)
  BY <1>0, <1>1 DEF OpenRejected, OpenRefused, dbVars, rowVars, tableVars,
                    Journal, OwnPosting, Posted, PostedBy, CallDelta, Funded
<1>2. CASE OpenInsert(a)
  BY <1>0, <1>2 DEF OpenInsert, WriteRow, tableVars,
                    Journal, OwnPosting, Posted, PostedBy, CallDelta, Funded
<1>3. CASE OpenFund(a)
  <2> DEFINE n == Len(posting) + 1
             row == [tx |-> a, account |-> a, amount |-> opening[a]]
  <2>1. opening[a] \in Int /\ newAmount[a] = 0 /\ newLatest[a] = 0 /\ row \in PostingRow
    BY <1>3 DEF OpenFund, TypeOK, AccountsTypeOK, Rows, PostingRow, Tx
  <2>2. posting' = Append(posting, row)
    BY <1>3 DEF OpenFund, InsertPosting
  <2>3. /\ newAmount' = [newAmount EXCEPT ![a] = opening[a]]
        /\ newLatest' = [newLatest EXCEPT ![a] = n]
        /\ opc[a] = "opening" /\ opc' = [opc EXCEPT ![a] = "commit"]
        /\ UNCHANGED <<pc, req, postingID>>
    <3>1. NextPostingId = n /\ n \in Nat
      BY <1>0 DEF NextPostingId
    <3>2. MaxOf(newLatest[a], NextPostingId) = n /\ newAmount[a] + opening[a] = opening[a]
      BY <2>1, <3>1 DEF MaxOf
    <3> HIDE DEF n
    <3> QED BY <1>3, <3>2 DEF OpenFund, WriteRow
  <2>4. /\ \A i \in DOMAIN posting : i \in DOMAIN posting' /\ posting'[i] = posting[i]
        /\ \A i \in DOMAIN posting' : i \notin DOMAIN posting => i = n
        /\ n \in DOMAIN posting' /\ posting'[n] = row
    BY <1>0, <2>1, <2>2, AppendFacts
  <2> HIDE DEF n
  <2>5. \A i \in DOMAIN posting' : OwnPosting(i)'
    BY <1>0, <2>3, <2>4 DEF Journal, OwnPosting
  <2>6. \A c \in Calls : Posted(c)'
    BY <2>3, <2>4 DEF Journal, Posted, PostedBy, CallDelta
  <2>7. \A b \in Account : Funded(b)'
    BY <1>0, <2>3, <2>4 DEF Journal, Funded
  <2> QED BY <2>5, <2>6, <2>7 DEF Journal
<1>4. CASE OpenCommit(a) \/ OpenFail(a)
  <2>1. /\ opc' = [opc EXCEPT ![a] = "done"]
        /\ newAmount' = [b \in Account |-> IF lock[b] = a THEN 0 ELSE newAmount[b]]
        /\ newLatest' = [b \in Account |-> IF lock[b] = a THEN 0 ELSE newLatest[b]]
        /\ UNCHANGED <<posting, pc, req, postingID>>
    BY <1>4 DEF OpenCommit, OpenFail, CommitRows, RollbackRows, InstallRows, ReleaseRows
  <2>2. \A b \in Account : lock[b] = a => b = a
    BY DEF Locks
  <2>3. \A i \in DOMAIN posting' : OwnPosting(i)'
    BY <1>0, <2>1, <2>2 DEF Journal, OwnPosting
  <2>4. \A c \in Calls : Posted(c)'
    BY <2>1 DEF Journal, Posted, PostedBy, CallDelta
  <2>5. \A b \in Account : Funded(b)'
    BY <1>0, <2>1, <2>2 DEF Journal, Funded
  <2> QED BY <2>3, <2>4, <2>5 DEF Journal
<1> QED BY <1>1, <1>2, <1>3, <1>4 DEF OpenStep, OpenProgress

\* One of the two rows of CreatePostings.
LEMMA PostingJournal ==
    ASSUME TypeOK, Journal, NEW c \in Calls, NEW a \in Account, NEW next,
           req[c].from # req[c].to, CallDelta(c, a) \in Int,
           \/ pc[c] = "debit_posting" /\ a = req[c].from /\ next = "credit_posting"
           \/ pc[c] = "credit_posting" /\ a = req[c].to /\ next = "balance1",
           CreatePosting(c, a, CallDelta(c, a), next), UNCHANGED accountVars
    PROVE  Journal'
<1> DEFINE n == Len(posting) + 1
           row == [tx |-> c, account |-> a, amount |-> CallDelta(c, a)]
<1>0. /\ DOMAIN pc = Calls /\ postingID \in [Calls -> [Account -> Nat]]
      /\ posting \in Seq(PostingRow) /\ c \notin Account
  BY SessionAssumption DEF TypeOK, DBTypeOK, TransfersTypeOK
<1>1. row \in PostingRow
  BY DEF PostingRow, Tx
<1>2. /\ posting' = Append(posting, row)
      /\ postingID' = [postingID EXCEPT ![c][a] = n]
      /\ pc' = [pc EXCEPT ![c] = next]
      /\ UNCHANGED <<newAmount, newLatest, opc, req>>
  BY DEF CreatePosting, InsertPosting, NextPostingId, Goto, rowVars, accountVars
<1>3. /\ \A i \in DOMAIN posting : i \in DOMAIN posting' /\ posting'[i] = posting[i]
      /\ \A i \in DOMAIN posting' : i \notin DOMAIN posting => i = n
      /\ n \in DOMAIN posting' /\ n \in Nat /\ posting'[n] = row
  BY <1>0, <1>1, <1>2, AppendFacts
<1> HIDE DEF n
<1>4. /\ postingID'[c][a] = n
      /\ \A b \in Account : b # a => postingID'[c][b] = postingID[c][b]
      /\ \A d \in Calls : d # c => postingID'[d] = postingID[d]
      /\ pc'[c] = next
      /\ \A d \in Calls : d # c => pc'[d] = pc[d]
  BY <1>0, <1>2
<1>5. ASSUME NEW i \in DOMAIN posting' PROVE OwnPosting(i)'
  <2>1. CASE i = n
    BY <1>0, <1>2, <1>3, <1>4, <2>1 DEF OwnPosting
  <2>2. CASE i # n
    <3>0. i \in DOMAIN posting /\ posting'[i] = posting[i] /\ OwnPosting(i)
      BY <1>3, <2>2 DEF Journal
    <3>1. /\ i \in DOMAIN posting /\ posting'[i] = posting[i] /\ OwnPosting(i)
          /\ posting[i].account \in Account
      <4>1. posting[i] \in PostingRow
        BY <1>0, <3>0
      <4> QED BY <3>0, <4>1 DEF PostingRow
    <3>2. CASE posting[i].tx = c
      BY <1>0, <1>2, <1>4, <3>1, <3>2 DEF OwnPosting
    <3>3. CASE posting[i].tx # c
      BY <1>2, <1>4, <3>1, <3>3 DEF OwnPosting
    <3> QED BY <3>2, <3>3
  <2> QED BY <2>1, <2>2
<1>6. ASSUME NEW d \in Calls PROVE Posted(d)'
  <2>1. CASE d = c
    <3>1. PostedBy(c, a)'
      BY <1>2, <1>3, <1>4 DEF PostedBy, CallDelta
    <3>2. pc[c] = "credit_posting" => PostedBy(c, req[c].from)
      BY DEF Journal, Posted
    <3>3. pc[c] = "credit_posting" /\ req[c].from \in Account => PostedBy(c, req[c].from)'
      BY <1>2, <1>3, <1>4, <3>2 DEF PostedBy, CallDelta
    <3>4. pc[c] = "credit_posting" => req[c].from \in Account
      BY <1>0, <3>2 DEF PostedBy, PostingRow
    <3> QED BY <1>2, <1>4, <2>1, <3>1, <3>3, <3>4 DEF Posted
  <2>2. CASE d # c
    BY <1>2, <1>3, <1>4, <2>2 DEF Journal, Posted, PostedBy, CallDelta
  <2> QED BY <2>1, <2>2
<1>7. \A b \in Account : Funded(b)'
  BY <1>2, <1>3 DEF Journal, Funded
<1> QED BY <1>5, <1>6, <1>7 DEF Journal

\* A Transfer call posts once per account, and keeps the ids it was given.
LEMMA CallJournal ==
    ASSUME TypeOK, Control, Locks, Rows, Journal, NEW c \in Calls, CallStep(c)
    PROVE  Journal'
<1> USE DEF CallStep, accountVars, Goto
<1>0. /\ pc \in [Calls -> {"idle", "currencies", "begin", "transaction", "debit_posting",
                           "credit_posting", "balance1", "balance2", "commit", "rollback",
                           "done"}]
      /\ DOMAIN req = Calls
      /\ DOMAIN newAmount = Account /\ DOMAIN newLatest = Account
      /\ c \notin Account
  BY SessionAssumption DEF TypeOK, DBTypeOK, TransfersTypeOK
<1>1. CASE Receive(c)
  BY <1>0, <1>1, MoveJournal DEF Receive, dbVars, rowVars, tableVars
<1>2. CASE CheckCurrencies(c)
  BY <1>0, <1>2, MoveJournal DEF CheckCurrencies, Return, dbVars, rowVars, tableVars
<1>3. CASE BeginTx(c)
  BY <1>0, <1>3, MoveJournal DEF BeginTx, rowVars, tableVars
<1>4. CASE CreateTransaction(c)
  BY <1>0, <1>4, MoveJournal DEF CreateTransaction, InsertTransaction, Abort, dbVars, rowVars, tableVars
<1>5. CASE CreatePostings(c)
  <2>1. /\ req[c].from \in Account /\ req[c].to \in Account /\ req[c].from # req[c].to
        /\ req[c].amount \in Int
    BY <1>5, EndsAreAccounts DEF CreatePostings
  <2>2. CallDelta(c, req[c].from) = -req[c].amount /\ CallDelta(c, req[c].to) = req[c].amount
    BY <2>1 DEF CallDelta
  <2> QED BY <1>5, <2>1, <2>2, PostingJournal DEF CreatePostings
<1>6. CASE UpdateBalances(c)
  <2>1. CASE Abort(c, "insufficient_funds") \/ Abort(c, "internal")
    BY <1>0, <1>6, <2>1, MoveJournal DEF Abort, dbVars, rowVars, tableVars
  <2>2. CASE \E a \in Account, next \in {"balance2", "commit"} : RowWritten(c, a, next)
    <3>1. PICK a \in Account, next \in {"balance2", "commit"} : RowWritten(c, a, next)
      BY <2>2
    <3>2. opc[a] = "done"
      BY <3>1 DEF RowWritten, Control, InTransaction
    <3>3. /\ \A b \in Account : b # a => newAmount'[b] = newAmount[b] /\ newLatest'[b] = newLatest[b]
          /\ pc[c] \in {"balance1", "balance2"} /\ pc' = [pc EXCEPT ![c] = next]
          /\ UNCHANGED <<posting, req, postingID, opc>>
      BY <1>0, <1>6, <3>1 DEF RowWritten, WriteRow, tableVars
    <3>4. \A i \in DOMAIN posting' : OwnPosting(i)'
      BY <1>0, <3>2, <3>3 DEF Journal, OwnPosting
    <3>5. \A d \in Calls : Posted(d)'
      BY <1>0, <3>3 DEF Journal, Posted, PostedBy, CallDelta
    <3>6. \A b \in Account : Funded(b)'
      BY <1>0, <3>2, <3>3 DEF Journal, Funded
    <3> QED BY <3>4, <3>5, <3>6 DEF Journal
  <2> QED BY <1>6, <2>1, <2>2, BalanceStep
<1>7. CASE CommitTx(c) \/ RollbackTx(c)
  <2>1. \A a \in Account : lock[a] = c => opc[a] = "done"
    BY <1>7 DEF CommitTx, RollbackTx, Locks, Holds, Control, InTransaction
  <2>2. /\ newAmount' = [b \in Account |-> IF lock[b] = c THEN 0 ELSE newAmount[b]]
        /\ newLatest' = [b \in Account |-> IF lock[b] = c THEN 0 ELSE newLatest[b]]
        /\ pc' = [pc EXCEPT ![c] = "done"]
        /\ UNCHANGED <<posting, req, postingID, opc>>
    BY <1>7 DEF CommitTx, RollbackTx, CommitRows, RollbackRows, InstallRows, ReleaseRows
  <2>3. \A i \in DOMAIN posting' : OwnPosting(i)'
    BY <1>0, <2>1, <2>2 DEF Journal, OwnPosting
  <2>4. \A d \in Calls : Posted(d)'
    BY <1>0, <2>2 DEF Journal, Posted, PostedBy, CallDelta
  <2>5. \A b \in Account : Funded(b)'
    BY <1>0, <2>1, <2>2 DEF Journal, Funded
  <2> QED BY <2>3, <2>4, <2>5 DEF Journal
<1>8. CASE Fail(c)
  BY <1>0, <1>8, MoveJournal DEF Fail, Return, Abort, dbVars, rowVars, tableVars
<1> QED BY <1>1, <1>2, <1>3, <1>4, <1>5, <1>6, <1>7, <1>8 DEF TransferStep, TransferProgress
-----------------------------------------------------------------------------
(* Transaction rows.                                                       *)

\* No step of CreateAccount adds a transaction row of a Transfer call.
LEMMA OpenKeyOwners ==
    ASSUME TypeOK, KeyOwners, NEW a \in Account, AccountStep(a)
    PROVE  KeyOwners'
<1>1. pc' = pc /\ \A r \in txrows' : r \in txrows \/ r.id = a
  BY DEF AccountStep, transferVars, OpenStep, OpenProgress, OpenRejected, OpenInsert, OpenFund,
         OpeningRow, OpenCommit, CommitRows, OpenFail, RollbackRows, OpenRefused, dbVars, tableVars
<1>2. a \notin Calls
  BY SessionAssumption
<1> QED BY <1>1, <1>2 DEF KeyOwners

\* A Transfer call inserts its row as it leaves CreateTransaction.
LEMMA CallKeyOwners ==
    ASSUME TypeOK, Control, KeyOwners, NEW c \in Calls, CallStep(c)
    PROVE  KeyOwners'
<1> USE DEF KeyOwners, Goto
<1>0. pc \in [Calls -> {"idle", "currencies", "begin", "transaction", "debit_posting",
                        "credit_posting", "balance1", "balance2", "commit", "rollback", "done"}]
  BY DEF TypeOK, TransfersTypeOK
<1>1. CASE Receive(c)
  BY <1>0, <1>1 DEF Receive, dbVars, tableVars
<1>2. CASE CheckCurrencies(c) \/ Fail(c)
  BY <1>0, <1>2 DEF CheckCurrencies, Fail, Return, Abort, dbVars, tableVars
<1>3. CASE BeginTx(c)
  BY <1>0, <1>3 DEF BeginTx, tableVars
<1>4. CASE CreateTransaction(c)
  BY <1>0, <1>4 DEF CreateTransaction, InsertTransaction, TransferRow, Abort, dbVars, tableVars
<1>5. CASE CreatePostings(c)
  BY <1>0, <1>5 DEF CreatePostings, CreatePosting
<1>6. CASE UpdateBalances(c)
  <2>1. txrows' = txrows /\ \E l \in {"rollback", "balance2", "commit"} : pc' = [pc EXCEPT ![c] = l]
    BY <1>6, BalanceStep DEF RowWritten, Abort, dbVars, tableVars
  <2> QED BY <1>0, <2>1
<1>7. CASE CommitTx(c)
  BY <1>0, <1>7 DEF CommitTx, CommitRows
<1>8. CASE RollbackTx(c)
  BY <1>0, <1>8 DEF RollbackTx, RollbackRows
<1> QED BY <1>1, <1>2, <1>3, <1>4, <1>5, <1>6, <1>7, <1>8 DEF CallStep, TransferStep, TransferProgress
-----------------------------------------------------------------------------
(* What ledger.transactions, the currencies and the answers say.           *)

\* The rows of the others stay as they are while a changes only its own.
LEMMA OpenTxRows ==
    ASSUME TypeOK, Control, Locks, Rows, TxRows, NEW a \in Account, AccountStep(a)
    PROVE  TxRows'
<1> USE DEF AccountStep, transferVars, OpenDone
<1>0. /\ opc \in [Account -> {"idle", "opening", "commit", "done"}]
      /\ DOMAIN newAmount = Account /\ DOMAIN opening = Account /\ DOMAIN currency = Account
      /\ opening \in [Account -> 0 .. MaxBigint] /\ MaxBigint \in Nat
      /\ a \notin Calls /\ a \notin Key
      /\ opc[a] # "done" => a \notin committed
  BY SessionAssumption, BoundAssumption, RequestAssumption
     DEF TypeOK, DBTypeOK, AccountsTypeOK, Control
<1>1. CASE OpenRejected(a) \/ OpenRefused(a)
  BY <1>0, <1>1 DEF OpenRejected, OpenRefused, dbVars, rowVars, tableVars,
                    TxRows, Inserted, TransferRow, OpeningRow
<1>2. CASE OpenInsert(a)
  <2>1. PICK cur \in OpenCurrencies, balance \in OpeningBalances :
          /\ WriteRow(a, a, 0, 0)
          /\ currency' = [currency EXCEPT ![a] = ToInt16(cur)]
          /\ opening' = [opening EXCEPT ![a] = balance]
          /\ opc' = [opc EXCEPT ![a] = IF balance > 0 THEN "opening" ELSE "commit"]
    BY <1>2 DEF OpenInsert
  <2>2. balance \in Nat
    BY OpenAssumption, BoundAssumption
  <2>3. opc[a] = "idle" /\ UNCHANGED <<txrows, committed, pc, req>>
    BY <1>2 DEF OpenInsert, tableVars
  <2>4. \A r \in txrows : r.id # a
    BY <1>0, <2>3 DEF TxRows
  <2> QED BY <1>0, <2>1, <2>2, <2>3, <2>4 DEF WriteRow, TxRows, Inserted, TransferRow, OpeningRow
<1>3. CASE OpenFund(a)
  <2>1. /\ newAmount' = [newAmount EXCEPT ![a] = opening[a]]
        /\ opc[a] = "opening" /\ opc' = [opc EXCEPT ![a] = "commit"]
        /\ txrows' = txrows \cup {OpeningRow(a)}
        /\ UNCHANGED <<committed, pc, req, opening, currency>>
    <3>1. newAmount[a] + opening[a] = opening[a]
      BY <1>0, <1>3 DEF OpenFund, Rows
    <3> QED BY <1>3, <3>1 DEF OpenFund, WriteRow
  <2>2. \A r \in txrows : r.id # a /\ r.key # a
    <3>1. \A r \in txrows : r.id \in Calls \cup Account
      BY DEF TypeOK, DBTypeOK, TxRow, Tx
    <3> QED BY <1>0, <2>1, <3>1 DEF TxRows
  <2>3. OpeningRow(a).id = a /\ OpeningRow(a).key = a /\ opening[a] > 0
    BY <2>1 DEF OpeningRow, TxRows
  <2>4. \A b \in Account : OpeningRow(b)' = OpeningRow(b)
    BY <2>1 DEF OpeningRow
  <2>5. \A c \in Calls : TransferRow(c)' = TransferRow(c) /\ Inserted(c)' = Inserted(c)
    BY <2>1 DEF TransferRow, Inserted
  <2> HIDE DEF OpeningRow
  <2> QED BY <1>0, <2>1, <2>2, <2>3, <2>4, <2>5 DEF TxRows
<1>4. CASE OpenCommit(a)
  <2>1. /\ opc[a] = "commit" /\ opc' = [opc EXCEPT ![a] = "done"]
        /\ newAmount' = [b \in Account |-> IF lock[b] = a THEN 0 ELSE newAmount[b]]
        /\ committed' = committed \cup {a}
        /\ UNCHANGED <<txrows, pc, req, opening, currency>>
    BY <1>4 DEF OpenCommit, CommitRows, InstallRows, ReleaseRows
  <2>2. \A b \in Account : b # a => newAmount'[b] = newAmount[b]
    BY <1>0, <2>1 DEF Locks
  <2> QED BY <1>0, <2>1, <2>2 DEF TxRows, Inserted, TransferRow, OpeningRow
<1>5. CASE OpenFail(a)
  <2>1. /\ opc[a] \in {"opening", "commit"} /\ opc' = [opc EXCEPT ![a] = "done"]
        /\ newAmount' = [b \in Account |-> IF lock[b] = a THEN 0 ELSE newAmount[b]]
        /\ currency' = [currency EXCEPT ![a] = 0]
        /\ txrows' = {r \in txrows : r.id # a}
        /\ UNCHANGED <<committed, pc, req, opening>>
    BY <1>5 DEF OpenFail, RollbackRows, ReleaseRows
  <2>2. \A b \in Account : b # a => newAmount'[b] = newAmount[b]
    BY <1>0, <2>1 DEF Locks
  <2> QED BY <1>0, <2>1, <2>2 DEF TxRows, Inserted, TransferRow, OpeningRow
<1> QED BY <1>1, <1>2, <1>3, <1>4, <1>5 DEF OpenStep, OpenProgress

\* A call that moves on and leaves the tables alone.
LEMMA MoveTxRows ==
    ASSUME TypeOK, Control, Locks, TxRows, NEW c \in Calls, NEW l,
           pc' = [pc EXCEPT ![c] = l],
           \A d \in Calls : d # c => req'[d] = req[d],
           \/ Inserted(c) /\ l \in {"credit_posting", "balance1", "balance2", "commit"} /\ req' = req
           \/ Inserted(c) /\ l = "rollback"
           \/ ~Inserted(c) /\ pc[c] # "rollback" /\ l \in {"currencies", "begin", "transaction", "rollback", "done"},
           \A a \in Account : opc[a] # "done" => newAmount'[a] = newAmount[a],
           UNCHANGED <<txrows, committed, opc, opening, currency>>
    PROVE  TxRows'
<1>0. /\ pc \in [Calls -> {"idle", "currencies", "begin", "transaction", "debit_posting",
                           "credit_posting", "balance1", "balance2", "commit", "rollback",
                           "done"}]
      /\ opc \in [Account -> {"idle", "opening", "commit", "done"}]
  BY DEF TypeOK, TransfersTypeOK, AccountsTypeOK
<1>1. \A a \in Account : OpeningRow(a)' = OpeningRow(a)
  BY DEF OpeningRow
<1>2. \A d \in Calls : d # c => TransferRow(d)' = TransferRow(d) /\ Inserted(d)' = Inserted(d)
  BY <1>0 DEF TransferRow, Inserted
<1>3. Inserted(c)' => Inserted(c) /\ TransferRow(c)' = TransferRow(c)
  BY <1>0 DEF TransferRow, Inserted
<1>4. Inserted(c) => Inserted(c)' \/ pc'[c] = "rollback"
  BY <1>0 DEF Inserted
<1>5. pc[c] # "rollback" /\ pc'[c] = l
  BY <1>0 DEF Inserted
<1> HIDE DEF Inserted
<1> QED BY <1>0, <1>1, <1>2, <1>3, <1>4, <1>5 DEF TxRows

\* A Transfer call inserts one row, under a key nobody else has.
LEMMA CallTxRows ==
    ASSUME TypeOK, Control, Locks, TxRows, NEW c \in Calls, CallStep(c)
    PROVE  TxRows'
<1> USE DEF CallStep, accountVars, Goto
<1>0. /\ pc \in [Calls -> {"idle", "currencies", "begin", "transaction", "debit_posting",
                           "credit_posting", "balance1", "balance2", "commit", "rollback",
                           "done"}]
      /\ DOMAIN req = Calls /\ DOMAIN newAmount = Account
      /\ c \notin Account
      /\ pc[c] # "done" => c \notin committed
  BY SessionAssumption DEF TypeOK, DBTypeOK, TransfersTypeOK, Control
<1>1. CASE Receive(c)
  BY <1>0, <1>1, MoveTxRows DEF Receive, dbVars, rowVars, tableVars, Inserted
<1>2. CASE CheckCurrencies(c)
  BY <1>0, <1>2, MoveTxRows DEF CheckCurrencies, Return, dbVars, rowVars, tableVars, Inserted
<1>3. CASE BeginTx(c)
  BY <1>0, <1>3, MoveTxRows DEF BeginTx, rowVars, tableVars, Inserted
<1>4. CASE CreateTransaction(c)
  <2>1. CASE Abort(c, "conflict")
    BY <1>0, <1>4, <2>1, MoveTxRows DEF CreateTransaction, Abort, dbVars, rowVars, tableVars, Inserted
  <2>2. CASE SameKey(c) = {} /\ InsertTransaction(c)
    <3>1. /\ pc[c] = "transaction" /\ pc' = [pc EXCEPT ![c] = "debit_posting"]
          /\ txrows' = txrows \cup {TransferRow(c)}
          /\ UNCHANGED <<committed, req, opc, opening, currency, newAmount>>
      BY <1>4, <2>2 DEF CreateTransaction, InsertTransaction, rowVars
    <3>2. req[c].key \in Key
      BY <3>1 DEF Control, Request
    <3>3. \A r \in txrows : r.id # c /\ r.key # req[c].key
      BY <1>0, <2>2, <3>1 DEF SameKey, TxRows, Inserted
    <3>4. TransferRow(c).id = c /\ TransferRow(c).key = req[c].key
      BY DEF TransferRow
    <3>5. \A d \in Calls : TransferRow(d)' = TransferRow(d)
      BY <3>1 DEF TransferRow
    <3>6. \A a \in Account : OpeningRow(a)' = OpeningRow(a)
      BY <3>1 DEF OpeningRow
    <3>7. Inserted(c)' /\ \A d \in Calls : d # c => Inserted(d)' = Inserted(d) /\ pc'[d] = pc[d]
      BY <1>0, <3>1 DEF Inserted
    <3> QED BY <1>0, <3>1, <3>2, <3>3, <3>4, <3>5, <3>6, <3>7 DEF TxRows
  <2> QED BY <1>4, <2>1, <2>2 DEF CreateTransaction
<1>5. CASE CreatePostings(c)
  BY <1>0, <1>5, MoveTxRows DEF CreatePostings, CreatePosting, rowVars, Inserted
<1>6. CASE UpdateBalances(c)
  <2>0. Inserted(c)
    BY <1>6 DEF UpdateBalances, Inserted
  <2>1. CASE Abort(c, "insufficient_funds") \/ Abort(c, "internal")
    BY <1>0, <2>0, <2>1, MoveTxRows DEF Abort, dbVars, rowVars, tableVars
  <2>2. CASE \E a \in Account, next \in {"balance2", "commit"} : RowWritten(c, a, next)
    <3>1. PICK a \in Account, next \in {"balance2", "commit"} : RowWritten(c, a, next)
      BY <2>2
    <3>2. opc[a] = "done"
      BY <3>1 DEF RowWritten, Control, InTransaction
    <3> QED BY <1>0, <1>6, <2>0, <3>1, <3>2, MoveTxRows DEF RowWritten, WriteRow, tableVars
  <2> QED BY <1>6, <2>1, <2>2, BalanceStep
<1>7. CASE CommitTx(c) \/ RollbackTx(c)
  <2>1. \A a \in Account : lock[a] = c => opc[a] = "done"
    BY <1>7 DEF CommitTx, RollbackTx, Locks, Holds, Control, InTransaction
  <2>2. /\ newAmount' = [b \in Account |-> IF lock[b] = c THEN 0 ELSE newAmount[b]]
        /\ pc' = [pc EXCEPT ![c] = "done"] /\ pc[c] # "done"
        /\ UNCHANGED <<req, opc, opening, currency>>
        /\ \/ pc[c] = "commit" /\ committed' = committed \cup {c} /\ txrows' = txrows
           \/ committed' = committed /\ txrows' = {r \in txrows : r.id # c}
    BY <1>7 DEF CommitTx, RollbackTx, CommitRows, RollbackRows, InstallRows, ReleaseRows
  <2>3. \A d \in Calls : TransferRow(d)' = TransferRow(d)
    BY <2>2 DEF TransferRow
  <2>4. \A a \in Account : OpeningRow(a)' = OpeningRow(a)
    BY <2>2 DEF OpeningRow
  <2>5. ~Inserted(c)' /\ \A d \in Calls : d # c => Inserted(d)' = Inserted(d) /\ pc'[d] = pc[d]
    BY <1>0, <2>2 DEF Inserted
  <2>6. pc[c] = "commit" => \E r \in txrows : r.id = c
    BY DEF TxRows, Inserted, TransferRow
  <2>7. \A a \in Account : opc[a] # "done" => newAmount'[a] = newAmount[a]
    BY <2>1, <2>2
  <2>8. CASE committed' = committed \cup {c} /\ txrows' = txrows
    BY <1>0, <2>2, <2>3, <2>4, <2>5, <2>6, <2>7, <2>8 DEF TxRows
  <2>9. CASE committed' = committed /\ txrows' = {r \in txrows : r.id # c}
    <3>1. c \notin committed /\ \A d \in Calls : TransferRow(d).id = d
      BY <1>0, <2>2 DEF TransferRow
    <3>2. \A a \in Account : OpeningRow(a).id # c
      BY <1>0 DEF OpeningRow
    <3> QED BY <1>0, <2>2, <2>3, <2>4, <2>5, <2>7, <2>9, <3>1, <3>2 DEF TxRows
  <2> QED BY <2>2, <2>6, <2>8, <2>9
<1>8. CASE Fail(c)
  BY <1>0, <1>8, MoveTxRows DEF Fail, InTransaction, Return, Abort, dbVars, rowVars, tableVars, Inserted
<1> QED BY <1>1, <1>2, <1>3, <1>4, <1>5, <1>6, <1>7, <1>8 DEF TransferStep, TransferProgress

\* CreateAccount sets the currency of a row nobody sees yet.
LEMMA OpenPriced ==
    ASSUME TypeOK, Control, Locks, Priced, NEW a \in Account, AccountStep(a)
    PROVE  Priced'
<1> USE DEF AccountStep, transferVars, OpenDone
<1>0. /\ opc \in [Account -> {"idle", "opening", "commit", "done"}]
      /\ DOMAIN currency = Account
      /\ a \notin Calls
      /\ opc[a] # "done" => a \notin exists
  BY SessionAssumption DEF TypeOK, DBTypeOK, AccountsTypeOK, Control
<1>1. /\ pc' = pc /\ req' = req
      /\ \A b \in exists : opc[b] = "done"
      /\ \A r \in txrows : r.from \in Account /\ r.to \in Account
      /\ \A c \in Calls : pc[c] = "begin" \/ InTransaction(c) =>
              req[c].from \in exists /\ req[c].to \in exists
      /\ \A c \in Calls : InTransaction(c)' = InTransaction(c)
  BY DEF Control, TypeOK, DBTypeOK, TxRow, InTransaction
<1>2. ASSUME \A b \in exists : currency'[b] = currency[b],
             \A r \in txrows' : r \in txrows \/ r.id = a,
             \A b \in Account : b \in exists' \/ opc'[b] \in {"opening", "commit"} => currency'[b] # 0,
             exists \subseteq exists'
      PROVE  Priced'
  <2>1. \A r \in txrows' : r.id \in Calls => r \in txrows /\ {r.from, r.to} \subseteq exists
    BY <1>0, <1>2 DEF Priced
  <2>2. CurrencyConsistent'
    BY <1>1, <1>2, <2>1 DEF Priced, CurrencyConsistent
  <2> QED BY <1>1, <1>2, <2>1, <2>2 DEF Priced
<1>3. CASE OpenRejected(a) \/ OpenRefused(a)
  BY <1>0, <1>2, <1>3 DEF OpenRejected, OpenRefused, dbVars, rowVars, tableVars, Priced
<1>4. CASE OpenInsert(a)
  BY <1>0, <1>1, <1>2, <1>4 DEF OpenInsert, tableVars, Priced
<1>5. CASE OpenFund(a)
  <2>1. OpeningRow(a).id = a
    BY DEF OpeningRow
  <2> QED BY <1>0, <1>2, <1>5, <2>1 DEF OpenFund, Priced
<1>6. CASE OpenCommit(a)
  <2>1. Mine(a) \subseteq {a}
    BY SessionAssumption DEF Mine, Locks
  <2> QED BY <1>0, <1>2, <1>6, <2>1 DEF OpenCommit, CommitRows, Priced
<1>7. CASE OpenFail(a)
  BY <1>0, <1>1, <1>2, <1>7 DEF OpenFail, RollbackRows, Priced
<1> QED BY <1>3, <1>4, <1>5, <1>6, <1>7 DEF OpenStep, OpenProgress

\* A Transfer call runs in the currency it compared with the rows.
LEMMA CallPriced ==
    ASSUME TypeOK, Control, Locks, Priced, NEW c \in Calls, CallStep(c)
    PROVE  Priced'
<1> USE DEF CallStep, accountVars, Goto
<1>0. /\ pc \in [Calls -> {"idle", "currencies", "begin", "transaction", "debit_posting",
                           "credit_posting", "balance1", "balance2", "commit", "rollback",
                           "done"}]
      /\ DOMAIN req = Calls
  BY DEF TypeOK, TransfersTypeOK
<1>1. ASSUME \A d \in Calls : d # c => pc'[d] = pc[d] /\ req'[d] = req[d],
             pc'[c] = "currencies" => IsValid(req'[c].currency),
             pc'[c] \notin {"currencies", "rollback", "done"} =>
                /\ IsValid(req'[c].currency)
                /\ currency[req'[c].from] = req'[c].currency
                /\ currency[req'[c].to] = req'[c].currency,
             \A r \in txrows' : r \in txrows \/ (r = TransferRow(c) /\ InTransaction(c)),
             UNCHANGED <<currency, exists, opc>>
      PROVE  Priced'
  <2>1. \A r \in txrows' : r.id \in Calls =>
          /\ {r.from, r.to} \subseteq exists
          /\ IsValid(r.currency) /\ currency[r.from] = r.currency /\ currency[r.to] = r.currency
    BY <1>1 DEF Priced, CurrencyConsistent, TransferRow, Control
  <2>2. CurrencyConsistent'
    BY <1>1, <2>1 DEF CurrencyConsistent
  <2>3. \A d \in Calls : d # c => pc'[d] = pc[d] /\ InTransaction(d)' = InTransaction(d)
    BY <1>0, <1>1 DEF InTransaction
  <2>4. InTransaction(c)' => pc'[c] \notin {"currencies", "rollback", "done"}
    BY DEF InTransaction
  <2> HIDE DEF InTransaction
  <2> QED BY <1>1, <2>1, <2>2, <2>3, <2>4 DEF Priced
<1>2. CASE Receive(c)
  <2>1. PICK r \in Requests : LET verdict == validateRequest(domainReq(r)) IN
          /\ req' = [req EXCEPT ![c] = domainReq(r)]
          /\ Goto(c, IF verdict = "none" THEN "currencies" ELSE "done")
    BY <1>2 DEF Receive
  <2>2. validateRequest(domainReq(r)) = "none" => IsValid(domainReq(r).currency)
    BY DEF validateRequest
  <2>3. UNCHANGED <<currency, exists, opc, txrows>>
    BY <1>2 DEF Receive, dbVars, rowVars, tableVars
  <2> QED BY <1>0, <1>1, <2>1, <2>2, <2>3
<1>3. CASE CheckCurrencies(c)
  <2>1. IsValid(req[c].currency) /\ UNCHANGED <<currency, exists, opc, txrows, req>>
    BY <1>3 DEF CheckCurrencies, Return, dbVars, rowVars, tableVars, Priced
  <2>2. \/ pc' = [pc EXCEPT ![c] = "done"]
        \/ /\ pc' = [pc EXCEPT ![c] = "begin"]
           /\ currency[req[c].from] = req[c].currency /\ currency[req[c].to] = req[c].currency
    BY <1>3 DEF CheckCurrencies, Return
  <2> QED BY <1>0, <1>1, <2>1, <2>2
<1>4. ASSUME pc[c] = "begin" \/ InTransaction(c) PROVE
             /\ IsValid(req[c].currency)
             /\ currency[req[c].from] = req[c].currency
             /\ currency[req[c].to] = req[c].currency
  BY <1>4 DEF Priced
<1>5. CASE BeginTx(c)
  BY <1>0, <1>1, <1>4, <1>5 DEF BeginTx, rowVars, tableVars
<1>6. CASE CreateTransaction(c)
  <2>1. InTransaction(c)
    BY <1>6 DEF CreateTransaction, InTransaction
  <2> QED BY <1>0, <1>1, <1>4, <1>6, <2>1 DEF CreateTransaction, InsertTransaction, Abort, dbVars, rowVars, tableVars
<1>7. CASE CreatePostings(c)
  <2>1. InTransaction(c)
    BY <1>7 DEF CreatePostings, InTransaction
  <2> QED BY <1>0, <1>1, <1>4, <1>7, <2>1 DEF CreatePostings, CreatePosting, rowVars
<1>8. CASE UpdateBalances(c)
  <2>1. InTransaction(c)
    BY <1>8 DEF UpdateBalances, InTransaction
  <2>2. CASE Abort(c, "insufficient_funds") \/ Abort(c, "internal")
    BY <1>0, <1>1, <1>8, <2>2 DEF Abort, dbVars, rowVars, tableVars
  <2>3. CASE \E a \in Account, next \in {"balance2", "commit"} : RowWritten(c, a, next)
    BY <1>0, <1>1, <1>4, <1>8, <2>1, <2>3 DEF RowWritten, tableVars
  <2> QED BY <1>8, <2>2, <2>3, BalanceStep
<1>9. CASE CommitTx(c)
  <2>1. Mine(c) \subseteq exists
    BY <1>9 DEF Mine, Locks, Holds, CommitTx, Control, InTransaction
  <2> QED BY <1>0, <1>1, <1>9, <2>1 DEF CommitTx, CommitRows
<1>10. CASE RollbackTx(c)
  BY <1>0, <1>1, <1>10 DEF RollbackTx, RollbackRows
<1>11. CASE Fail(c)
  BY <1>0, <1>1, <1>11 DEF Fail, Return, Abort, dbVars, rowVars, tableVars
<1> QED BY <1>2, <1>3, <1>5, <1>6, <1>7, <1>8, <1>9, <1>10, <1>11 DEF TransferStep, TransferProgress

\* No step of CreateAccount answers for a call or takes a connection for it.
LEMMA OpenTold ==
    ASSUME Control, Told, NEW a \in Account, AccountStep(a)
    PROVE  Told'
<1>1. a \notin Calls
  BY SessionAssumption
<1>2. /\ UNCHANGED <<reply, pc>>
      /\ committed' \in {committed, committed \cup {a}}
      /\ conns' \subseteq conns \cup {a}
  BY DEF AccountStep, transferVars, OpenStep, OpenProgress, OpenRejected, OpenInsert, TakeConn,
         OpenFund, OpenCommit, CommitRows, InstallRows, ReleaseRows, OpenFail, RollbackRows,
         OpenRefused, dbVars, tableVars
<1> QED BY <1>1, <1>2 DEF Told, InTransaction

\* A Transfer call says "ok" as it commits, and gives its connection back.
LEMMA CallTold ==
    ASSUME TypeOK, Control, Told, NEW c \in Calls, CallStep(c)
    PROVE  Told'
<1> USE DEF CallStep, Goto, Answer
<1>0. /\ pc \in [Calls -> {"idle", "currencies", "begin", "transaction", "debit_posting",
                           "credit_posting", "balance1", "balance2", "commit", "rollback",
                           "done"}]
      /\ reply \in [Calls -> Replies]
      /\ pc[c] # "done" => c \notin committed
      /\ pc[c] \in {"idle", "currencies", "begin"} => c \notin conns
  BY DEF TypeOK, TransfersTypeOK, Control, Told, InTransaction
<1>1. ASSUME NEW l, NEW v, pc' = [pc EXCEPT ![c] = l],
             reply' = [reply EXCEPT ![c] = v], v # "ok" \/ v = reply[c], c \notin committed,
             committed' = committed, conns' \subseteq conns \cup {c},
             \/ c \notin conns'
             \/ l \in {"transaction", "debit_posting", "credit_posting", "balance1", "balance2",
                       "commit", "rollback"}
      PROVE  Told'
  <2>1. \A d \in Calls : d # c => pc'[d] = pc[d] /\ reply'[d] = reply[d]
                                  /\ InTransaction(d)' = InTransaction(d)
    BY <1>0, <1>1 DEF InTransaction
  <2>2. pc'[c] = l /\ reply'[c] = v
    BY <1>0, <1>1
  <2>3. c \in conns' => InTransaction(c)' \/ pc'[c] = "rollback"
    BY <1>1, <2>2 DEF InTransaction
  <2> HIDE DEF InTransaction
  <2> QED BY <1>1, <2>1, <2>2, <2>3 DEF Told
<1>2. reply' = reply => reply' = [reply EXCEPT ![c] = reply[c]]
  BY <1>0
<1>3. CASE Receive(c)
  <2>1. PICK r \in Requests : LET verdict == validateRequest(domainReq(r)) IN
          /\ reply' = [reply EXCEPT ![c] = verdict]
          /\ pc' = [pc EXCEPT ![c] = IF verdict = "none" THEN "currencies" ELSE "done"]
    BY <1>3 DEF Receive
  <2>2. validateRequest(domainReq(r)) # "ok"
    BY DEF validateRequest
  <2> QED BY <1>0, <1>1, <1>3, <2>1, <2>2 DEF Receive, dbVars, tableVars
<1>4. CASE CheckCurrencies(c)
  BY <1>0, <1>1, <1>2, <1>4 DEF CheckCurrencies, Return, dbVars, tableVars
<1>5. CASE BeginTx(c)
  BY <1>0, <1>1, <1>2, <1>5 DEF BeginTx, TakeConn, tableVars
<1>6. CASE CreateTransaction(c)
  BY <1>0, <1>1, <1>2, <1>6 DEF CreateTransaction, InsertTransaction, Abort, dbVars, tableVars
<1>7. CASE CreatePostings(c)
  BY <1>0, <1>1, <1>2, <1>7 DEF CreatePostings, CreatePosting
<1>8. CASE UpdateBalances(c)
  <2>1. pc[c] # "done"
    BY <1>8 DEF UpdateBalances
  <2>2. CASE Abort(c, "insufficient_funds") \/ Abort(c, "internal")
    BY <1>0, <1>1, <2>1, <2>2 DEF Abort, dbVars, tableVars
  <2>3. CASE \E a \in Account, next \in {"balance2", "commit"} : RowWritten(c, a, next)
    BY <1>0, <1>1, <1>2, <2>1, <2>3 DEF RowWritten, tableVars
  <2> QED BY <1>8, <2>2, <2>3, BalanceStep
<1>9. CASE CommitTx(c)
  <2>1. /\ committed' = committed \cup {c} /\ conns' = conns \ {c}
        /\ pc' = [pc EXCEPT ![c] = "done"]
        /\ \E r \in {"ok", "internal"} : reply' = [reply EXCEPT ![c] = r]
    BY <1>9 DEF CommitTx, CommitRows, InstallRows, ReleaseRows
  <2>2. \A d \in Calls : d # c => pc'[d] = pc[d] /\ reply'[d] = reply[d]
    BY <1>0, <2>1
  <2> QED BY <1>0, <2>1, <2>2 DEF Told, InTransaction
<1>10. CASE RollbackTx(c)
  BY <1>0, <1>1, <1>2, <1>10 DEF RollbackTx, RollbackRows, ReleaseRows
<1>11. CASE Fail(c)
  BY <1>0, <1>1, <1>11 DEF Fail, InTransaction, Return, Abort, dbVars, tableVars
<1> QED BY <1>3, <1>4, <1>5, <1>6, <1>7, <1>8, <1>9, <1>10, <1>11 DEF TransferStep, TransferProgress
-----------------------------------------------------------------------------
(* Balances and versions against the journal.                              *)

\* The facts about the journal that the sums need.
JournalTypes ==
    /\ \A a \in Account : Delta(a) \in [Nat -> Int]
    /\ Len(posting) \in Nat /\ DOMAIN posting = 1 .. Len(posting)
    /\ \A i \in DOMAIN posting :
          posting[i] \in PostingRow /\ posting[i].amount \in Int /\ i \in Nat /\ i # 0

\* Well-typed tables give well-typed contributions to the balance.
LEMMA DeltaType == DBTypeOK => JournalTypes
<1> SUFFICES ASSUME DBTypeOK PROVE JournalTypes
  OBVIOUS
<1>1. /\ Len(posting) \in Nat /\ DOMAIN posting = 1 .. Len(posting)
      /\ \A i \in DOMAIN posting : posting[i] \in PostingRow /\ i \in Nat /\ i # 0
  BY DEF DBTypeOK
<1>2. \A i \in DOMAIN posting : posting[i].amount \in Int
  BY <1>1 DEF PostingRow
<1>3. \A a \in Account : Delta(a) \in [Nat -> Int]
  BY <1>1, <1>2 DEF Delta, Visible
<1> QED BY <1>1, <1>2, <1>3 DEF JournalTypes

\* The same in the next state.
LEMMA DeltaTypeNext == DBTypeOK' => JournalTypes'
  BY DeltaType, PTL

SumsAreInt == \A a \in Account : PrefixSum(Delta(a))[Len(posting)] \in Int

\* The sum of an account's visible postings is a number.
LEMMA SumType == DBTypeOK => SumsAreInt
<1> SUFFICES ASSUME DBTypeOK, NEW a \in Account PROVE PrefixSum(Delta(a))[Len(posting)] \in Int
  BY DEF SumsAreInt
<1>1. Delta(a) \in [Nat -> Int] /\ Len(posting) \in Nat
  BY DeltaType DEF JournalTypes
<1>2. PrefixSum(Delta(a)) \in [Nat -> Int]
  BY <1>1, PrefixSumDef
<1> QED BY <1>1, <1>2

\* The same in the next state.
LEMMA SumTypeNext == DBTypeOK' => SumsAreInt'
  BY SumType, PTL

\* BalanceMatchesPostings in the form the balance proofs work with.
BalanceIsSum == \A a \in Account : amount[a] = PrefixSum(Delta(a))[Len(posting)]

\* The two forms of BalanceMatchesPostings agree.
LEMMA DriftIsSum == DBTypeOK => (BalanceMatchesPostings <=> BalanceIsSum)
<1> SUFFICES ASSUME DBTypeOK, NEW a \in Account
             PROVE  Drift(a) = 0 <=> amount[a] = PrefixSum(Delta(a))[Len(posting)]
  BY DEF BalanceMatchesPostings, BalanceIsSum
<1>1. PostingsSum(a, 0) = PrefixSum(Delta(a))[Len(posting)]
  BY DEF PostingsSum
<1>2. PrefixSum(Delta(a))[Len(posting)] \in Int
  BY DeltaType, PrefixSumDef DEF JournalTypes
<1>3. amount[a] \in Int
  BY DEF DBTypeOK
<1> HIDE DEF PostingsSum
<1> QED BY <1>1, <1>2, <1>3 DEF Drift

\* The same in the next state.
LEMMA DriftIsSumNext == DBTypeOK' => (BalanceMatchesPostings' <=> BalanceIsSum')
  BY DriftIsSum, PTL

\* A step that commits nothing: a new row of an open transaction is invisible.
Quiet ==
    /\ UNCHANGED <<committed, amount, latest>>
    /\ \/ posting' = posting
       \/ \E row \in PostingRow : posting' = Append(posting, row) /\ row.tx \notin committed

\* A commit of s that makes at most one posting k of each account visible, and
\* whose new row version accounts for exactly that posting.
Commits(s) ==
    /\ s \notin committed /\ committed' = committed \cup {s} /\ posting' = posting
    /\ \A a \in Account :
        \/ /\ \A i \in DOMAIN posting : ~(posting[i].tx = s /\ posting[i].account = a)
           /\ amount'[a] = amount[a] /\ latest'[a] = latest[a]
        \/ \E k \in DOMAIN posting :
           /\ \A i \in DOMAIN posting : (posting[i].tx = s /\ posting[i].account = a) <=> i = k
           /\ amount'[a] = amount[a] + posting[k].amount
           /\ latest'[a] = MaxOf(latest[a], k)

Books == Quiet \/ \E s \in Tx : Commits(s)

\* A row that is invisible adds nothing.
LEMMA QuietSums ==
    ASSUME DBTypeOK, Quiet, NEW a \in Account
    PROVE  /\ VisibleOf(a)' = VisibleOf(a)
           /\ PrefixSum(Delta(a)')[Len(posting')] = PrefixSum(Delta(a))[Len(posting)]
<1>1. CASE posting' = posting
  BY <1>1 DEF Quiet, VisibleOf, Visible, Delta
<1>2. CASE posting' # posting
  <2>1. PICK row \in PostingRow : posting' = Append(posting, row) /\ row.tx \notin committed
    BY <1>2 DEF Quiet
  <2> DEFINE n == Len(posting) + 1
  <2>2. /\ Len(posting) \in Nat /\ n \in Nat /\ n # 0 /\ Len(posting') = n
        /\ DOMAIN posting = 1 .. Len(posting) /\ DOMAIN posting' = 1 .. n
        /\ \A i \in DOMAIN posting : i \in DOMAIN posting' /\ posting'[i] = posting[i]
        /\ \A i \in DOMAIN posting' : i \notin DOMAIN posting => i = n
        /\ n \notin DOMAIN posting /\ n \in DOMAIN posting' /\ posting'[n] = row
    BY <2>1, AppendFacts DEF DBTypeOK
  <2>3. \A i : Visible(i)' <=> Visible(i)
    BY <2>1, <2>2 DEF Quiet, Visible
  <2>4. VisibleOf(a)' = VisibleOf(a)
    BY <2>1, <2>2, <2>3 DEF VisibleOf, Visible
  <2>5. Delta(a)' = Delta(a) /\ Delta(a)[n] = 0
    BY <2>1, <2>2, <2>3 DEF Delta, Visible
  <2> DEFINE S == PrefixSum(Delta(a))
  <2>6. S \in [Nat -> Int] /\ S[n] = S[Len(posting)] + Delta(a)[n]
    BY <2>2, DeltaType, PrefixSumDef DEF JournalTypes
  <2>7. S[n] = S[Len(posting)]
    BY <2>2, <2>5, <2>6
  <2> QED BY <2>2, <2>4, <2>5, <2>7
<1> QED BY <1>1, <1>2

\* A commit moves the row and the sum by the same amount.
LEMMA CommitSums ==
    ASSUME DBTypeOK, DBTypeOK', NEW s, Commits(s), NEW a \in Account
    PROVE  amount'[a] - PrefixSum(Delta(a)')[Len(posting')] = amount[a] - PrefixSum(Delta(a))[Len(posting)]
<1>0. /\ JournalTypes /\ JournalTypes' /\ amount[a] \in Int
      /\ PrefixSum(Delta(a))[Len(posting)] \in Int
      /\ s \notin committed /\ committed' = committed \cup {s} /\ posting' = posting
  BY DeltaType, DeltaTypeNext, SumType DEF DBTypeOK, Commits, SumsAreInt
<1>1. CASE /\ \A i \in DOMAIN posting : ~(posting[i].tx = s /\ posting[i].account = a)
           /\ amount'[a] = amount[a] /\ latest'[a] = latest[a]
  <2>1. Delta(a)' = Delta(a)
    BY <1>0, <1>1 DEF Delta, Visible
  <2> QED BY <1>0, <1>1, <2>1
<1>2. CASE \E k \in DOMAIN posting :
              /\ \A i \in DOMAIN posting :
                    (posting[i].tx = s /\ posting[i].account = a) <=> i = k
              /\ amount'[a] = amount[a] + posting[k].amount
              /\ latest'[a] = MaxOf(latest[a], k)
  <2>1. PICK k \in DOMAIN posting :
              /\ \A i \in DOMAIN posting :
                    (posting[i].tx = s /\ posting[i].account = a) <=> i = k
              /\ amount'[a] = amount[a] + posting[k].amount
    BY <1>2
  <2>2. \A i \in Nat : i # k => Delta(a)'[i] = Delta(a)[i]
    BY <1>0, <2>1 DEF Delta, Visible
  <2>3. k \in Nat /\ k # 0 /\ k <= Len(posting) /\ Len(posting) \in Nat /\ posting[k].amount \in Int
    BY <1>0 DEF JournalTypes
  <2>4. Delta(a)'[k] = posting[k].amount /\ Delta(a)[k] = 0
    BY <1>0, <2>1, <2>3 DEF Delta, Visible
  <2>5. ASSUME NEW d, NEW e, d \in [Nat -> Int], e \in [Nat -> Int],
               \A i \in Nat : i # k => e[i] = d[i]
        PROVE  PrefixSum(e)[Len(posting)] = PrefixSum(d)[Len(posting)] + (e[k] - d[k])
    <3>1. PrefixSum(e)[Len(posting)] =
            PrefixSum(d)[Len(posting)] + (IF k <= Len(posting) THEN e[k] - d[k] ELSE 0)
      BY <2>3, <2>5, PrefixSumPoint
    <3> QED BY <2>3, <3>1
  <2>6. PrefixSum(Delta(a)')[Len(posting)] =
          PrefixSum(Delta(a))[Len(posting)] + (Delta(a)'[k] - Delta(a)[k])
    <3>1. Delta(a) \in [Nat -> Int] /\ Delta(a)' \in [Nat -> Int]
      BY <1>0 DEF JournalTypes
    <3> QED BY <2>2, <2>5, <3>1
  <2>7. PrefixSum(Delta(a)')[Len(posting')] = PrefixSum(Delta(a))[Len(posting)] + posting[k].amount
    BY <1>0, <2>3, <2>4, <2>6
  <2> QED BY <1>0, <2>1, <2>3, <2>7
<1> QED BY <1>1, <1>2 DEF Commits

\* No step of the calls changes how far a row is from its postings.
LEMMA BooksSum ==
    ASSUME DBTypeOK, DBTypeOK', Books, NEW a \in Account
    PROVE  amount'[a] - PrefixSum(Delta(a)')[Len(posting')] = amount[a] - PrefixSum(Delta(a))[Len(posting)]
<1>1. CASE Quiet
  BY <1>1, QuietSums DEF Quiet
<1>2. CASE \E s \in Tx : Commits(s)
  BY <1>2, CommitSums
<1> QED BY <1>1, <1>2 DEF Books

\* So a row that is the sum of its postings stays it.
LEMMA BooksBalance ==
    ASSUME DBTypeOK, DBTypeOK', Books, BalanceIsSum
    PROVE  BalanceIsSum'
<1> SUFFICES ASSUME NEW a \in Account PROVE amount'[a] = PrefixSum(Delta(a)')[Len(posting')]
  BY DEF BalanceIsSum
<1>1. /\ amount[a] \in Int /\ amount'[a] \in Int
      /\ PrefixSum(Delta(a))[Len(posting)] \in Int /\ PrefixSum(Delta(a)')[Len(posting')] \in Int
  BY SumType, SumTypeNext DEF DBTypeOK, SumsAreInt
<1>2. amount[a] = PrefixSum(Delta(a))[Len(posting)]
  BY DEF BalanceIsSum
<1> QED BY <1>1, <1>2, BooksSum

\* And latest_posting_id stays the largest visible id.
LEMMA BooksLatest ==
    ASSUME DBTypeOK, Books, LatestBounds
    PROVE  LatestBounds'
<1> SUFFICES ASSUME NEW a \in Account
             PROVE  /\ \A i \in VisibleOf(a)' : i <= latest'[a]
                    /\ latest'[a] = 0 \/ latest'[a] \in VisibleOf(a)'
  BY DEF LatestBounds
<1>0. /\ JournalTypes /\ latest[a] \in Nat
      /\ \A i \in VisibleOf(a) : i <= latest[a]
      /\ latest[a] = 0 \/ latest[a] \in VisibleOf(a)
  BY DeltaType DEF DBTypeOK, LatestBounds
<1>1. CASE Quiet
  <2>1. VisibleOf(a)' = VisibleOf(a) /\ latest'[a] = latest[a]
    BY <1>1, QuietSums DEF Quiet
  <2> QED BY <1>0, <2>1
<1>2. ASSUME NEW s \in Tx, Commits(s)
      PROVE  /\ \A i \in VisibleOf(a)' : i <= latest'[a]
             /\ latest'[a] = 0 \/ latest'[a] \in VisibleOf(a)'
  <2>0. s \notin committed /\ committed' = committed \cup {s} /\ posting' = posting
    BY <1>2 DEF Commits
  <2>1. CASE /\ \A i \in DOMAIN posting : ~(posting[i].tx = s /\ posting[i].account = a)
             /\ latest'[a] = latest[a]
    <3>1. VisibleOf(a)' = VisibleOf(a)
      BY <2>0, <2>1 DEF VisibleOf, Visible
    <3> QED BY <1>0, <2>1, <3>1
  <2>2. CASE \E k \in DOMAIN posting :
                /\ \A i \in DOMAIN posting :
                      (posting[i].tx = s /\ posting[i].account = a) <=> i = k
                /\ latest'[a] = MaxOf(latest[a], k)
    <3>1. PICK k \in DOMAIN posting :
                /\ \A i \in DOMAIN posting :
                      (posting[i].tx = s /\ posting[i].account = a) <=> i = k
                /\ latest'[a] = MaxOf(latest[a], k)
      BY <2>2
    <3>2. VisibleOf(a)' = VisibleOf(a) \cup {k}
      BY <2>0, <3>1 DEF VisibleOf, Visible
    <3>3. k \in Nat /\ \A i \in VisibleOf(a) : i \in Nat
      BY <1>0 DEF VisibleOf, JournalTypes
    <3> QED BY <1>0, <3>1, <3>2, <3>3 DEF MaxOf
  <2> QED BY <1>2, <2>1, <2>2 DEF Commits
<1> QED BY <1>1, <1>2 DEF Books

\* CreateAccount: the account row is committed together with its posting.
LEMMA OpenBooks ==
    ASSUME TypeOK, Control, Locks, Rows, Journal, NEW a \in Account, AccountStep(a)
    PROVE  Books
<1>0. /\ DBTypeOK
      /\ opc[a] # "done" => a \notin committed
  BY DEF TypeOK, Control
<1>1. CASE OpenRejected(a) \/ OpenRefused(a)
  BY <1>0, <1>1 DEF Books, Quiet, OpenRejected, OpenRefused, dbVars, rowVars, tableVars
<1>2. CASE OpenInsert(a)
  BY <1>0, <1>2 DEF Books, Quiet, OpenInsert, tableVars
<1>3. CASE OpenFund(a)
  <2> DEFINE row == [tx |-> a, account |-> a, amount |-> opening[a]]
  <2>1. row \in PostingRow /\ row.tx = a
    BY DEF PostingRow, Tx, TypeOK, AccountsTypeOK
  <2>2. posting' = Append(posting, row) /\ UNCHANGED <<committed, amount, latest>> /\ row.tx \notin committed
    BY <1>0, <1>3, <2>1 DEF OpenFund, InsertPosting
  <2> HIDE DEF row
  <2> QED BY <1>0, <2>1, <2>2 DEF Books, Quiet
<1>4. CASE OpenCommit(a)
  <2>1. /\ opc[a] = "commit" /\ lock[a] = a
        /\ posting' = posting /\ committed' = committed \cup {a}
        /\ a \notin committed
        /\ amount' = [b \in Account |-> IF lock[b] = a THEN newAmount[b] ELSE amount[b]]
        /\ latest' = [b \in Account |-> IF lock[b] = a THEN newLatest[b] ELSE latest[b]]
    BY <1>0, <1>4 DEF OpenCommit, CommitRows, InstallRows, Locks
  <2>2. \A i \in DOMAIN posting : posting[i].tx = a =>
            posting[i].account = a /\ newLatest[a] = i
    BY <2>1 DEF Journal, OwnPosting
  <2>3. JournalTypes
    BY <1>0, DeltaType
  <2>4. ASSUME NEW b \in Account
        PROVE  \/ /\ \A i \in DOMAIN posting : ~(posting[i].tx = a /\ posting[i].account = b)
                  /\ amount'[b] = amount[b] /\ latest'[b] = latest[b]
               \/ \E k \in DOMAIN posting :
                  /\ \A i \in DOMAIN posting :
                        (posting[i].tx = a /\ posting[i].account = b) <=> i = k
                  /\ amount'[b] = amount[b] + posting[k].amount
                  /\ latest'[b] = MaxOf(latest[b], k)
    <3>1. CASE b # a
      <4>1. lock[b] # a
        BY <3>1 DEF Locks
      <4> QED BY <2>1, <2>2, <3>1, <4>1
    <3>2. CASE b = a
      <4>1. amount[a] = 0 /\ latest[a] = 0 /\ amount'[a] = newAmount[a] /\ latest'[a] = newLatest[a]
        BY <2>1 DEF Rows
      <4>2. CASE newAmount[a] = 0 /\ newLatest[a] = 0
        BY <2>2, <2>3, <3>2, <4>1, <4>2 DEF JournalTypes
      <4>3. CASE /\ newLatest[a] \in DOMAIN posting
                 /\ posting[newLatest[a]] = [tx |-> a, account |-> a, amount |-> newAmount[a]]
        <5> DEFINE k == newLatest[a]
        <5>1. k \in DOMAIN posting /\ k \in Nat /\ posting[k].amount = newAmount[a] /\ newAmount[a] \in Int
          BY <4>3, <2>3 DEF JournalTypes, TypeOK, DBTypeOK
        <5>2. \A i \in DOMAIN posting : (posting[i].tx = a /\ posting[i].account = b) <=> i = k
          BY <4>3, <2>2, <3>2
        <5>3. amount'[b] = amount[b] + posting[k].amount /\ latest'[b] = MaxOf(latest[b], k)
          BY <5>1, <4>1, <3>2 DEF MaxOf
        <5> HIDE DEF k
        <5> QED BY <5>1, <5>2, <5>3
      <4> QED BY <2>1, <4>2, <4>3 DEF Journal, Funded
    <3> QED BY <3>1, <3>2
  <2>5. Commits(a)
    BY <2>1, <2>4 DEF Commits
  <2> QED BY <2>5 DEF Books, Tx
<1>5. CASE OpenFail(a)
  BY <1>0, <1>5 DEF Books, Quiet, OpenFail, RollbackRows
<1> QED BY <1>1, <1>2, <1>3, <1>4, <1>5 DEF AccountStep, OpenStep, OpenProgress

\* Transaction: both balances are committed together with both postings.
LEMMA CallBooks ==
    ASSUME TypeOK, Control, Locks, Rows, Journal, NEW c \in Calls, CallStep(c)
    PROVE  Books
<1>0. /\ DBTypeOK
      /\ pc[c] # "done" => c \notin committed
  BY DEF TypeOK, Control
<1>1. CASE Receive(c)
  BY <1>0, <1>1 DEF Books, Quiet, Receive, dbVars, rowVars, tableVars
<1>2. CASE CheckCurrencies(c) \/ Fail(c)
  BY <1>0, <1>2 DEF Books, Quiet, CheckCurrencies, Fail, Return, Abort, dbVars, rowVars, tableVars
<1>3. CASE BeginTx(c)
  BY <1>0, <1>3 DEF Books, Quiet, BeginTx, rowVars, tableVars
<1>4. CASE CreateTransaction(c)
  BY <1>0, <1>4 DEF Books, Quiet, CreateTransaction, InsertTransaction, Abort, dbVars, rowVars, tableVars
<1>5. CASE CreatePostings(c)
  <2>1. PICK a \in Account, amt \in Int, next \in {"credit_posting", "balance1"} :
          CreatePosting(c, a, amt, next)
    BY <1>5, EndsAreAccounts DEF CreatePostings
  <2> DEFINE row == [tx |-> c, account |-> a, amount |-> amt]
  <2>2. row \in PostingRow /\ row.tx = c /\ pc[c] # "done"
    BY <1>5 DEF PostingRow, Tx, CreatePostings
  <2>3. posting' = Append(posting, row) /\ UNCHANGED <<committed, amount, latest>> /\ row.tx \notin committed
    BY <1>0, <2>1, <2>2 DEF CreatePosting, InsertPosting, rowVars
  <2> HIDE DEF row
  <2> QED BY <1>0, <2>2, <2>3 DEF Books, Quiet
<1>6. CASE UpdateBalances(c)
  <2>1. UNCHANGED <<committed, amount, latest, posting>>
    BY <1>6, BalanceStep DEF RowWritten, Abort, dbVars, rowVars, tableVars
  <2> QED BY <1>0, <2>1 DEF Books, Quiet
<1>7. CASE CommitTx(c)
  <2>1. /\ pc[c] = "commit" /\ lock[req[c].from] = c /\ lock[req[c].to] = c
        /\ posting' = posting /\ committed' = committed \cup {c}
        /\ c \notin committed
        /\ amount' = [b \in Account |-> IF lock[b] = c THEN newAmount[b] ELSE amount[b]]
        /\ latest' = [b \in Account |-> IF lock[b] = c THEN newLatest[b] ELSE latest[b]]
    BY <1>0, <1>7 DEF CommitTx, CommitRows, InstallRows, Locks
  <2>2. \A i \in DOMAIN posting : posting[i].tx = c =>
          LET a == posting[i].account IN
            a \in {req[c].from, req[c].to} /\ postingID[c][a] = i
    BY <2>1 DEF Journal, OwnPosting
  <2>3. ASSUME NEW b \in Account
        PROVE  \/ /\ \A i \in DOMAIN posting : ~(posting[i].tx = c /\ posting[i].account = b)
                  /\ amount'[b] = amount[b] /\ latest'[b] = latest[b]
               \/ \E k \in DOMAIN posting :
                  /\ \A i \in DOMAIN posting :
                        (posting[i].tx = c /\ posting[i].account = b) <=> i = k
                  /\ amount'[b] = amount[b] + posting[k].amount
                  /\ latest'[b] = MaxOf(latest[b], k)
    <3>1. CASE b \notin {req[c].from, req[c].to}
      <4>1. lock[b] # c
        BY <2>1, <3>1 DEF Locks, Holds
      <4> QED BY <2>1, <2>2, <3>1, <4>1
    <3>2. CASE b \in {req[c].from, req[c].to}
      <4> DEFINE k == postingID[c][b]
      <4>1. /\ k \in DOMAIN posting
            /\ posting[k] = [tx |-> c, account |-> b, amount |-> CallDelta(c, b)]
        BY <2>1, <3>2 DEF Journal, Posted, PostedBy
      <4>2. newAmount[b] = amount[b] + CallDelta(c, b) /\ newLatest[b] = MaxOf(latest[b], k)
        BY <2>1, <3>2 DEF Rows, GreatestLatest
      <4>3. \A i \in DOMAIN posting : (posting[i].tx = c /\ posting[i].account = b) <=> i = k
        BY <2>2, <4>1
      <4>4. amount'[b] = amount[b] + posting[k].amount /\ latest'[b] = MaxOf(latest[b], k)
        BY <2>1, <3>2, <4>1, <4>2
      <4> HIDE DEF k
      <4> QED BY <4>1, <4>3, <4>4
    <3> QED BY <3>1, <3>2
  <2>4. Commits(c)
    BY <2>1, <2>3 DEF Commits
  <2> QED BY <2>4 DEF Books, Tx
<1>8. CASE RollbackTx(c)
  BY <1>0, <1>8 DEF Books, Quiet, RollbackTx, RollbackRows
<1> QED BY <1>1, <1>2, <1>3, <1>4, <1>5, <1>6, <1>7, <1>8 DEF CallStep, TransferStep, TransferProgress
-----------------------------------------------------------------------------
(* The inductive invariant and what follows from it.                       *)

\* The empty database satisfies the invariant.
LEMMA InitLedgerInv == Init => LedgerInv
<1> SUFFICES ASSUME Init PROVE LedgerInv
  OBVIOUS
<1>1. TypeOK
  BY InitTypeOK
<1>2. Control /\ Locks /\ Rows /\ Journal /\ KeyOwners
  BY SessionAssumption
  DEF Init, DBInit, AccountsInit, TransfersInit, Control, Locks, Holds, Rows, Journal,
      OwnPosting, Posted, Funded, KeyOwners, InTransaction, Session, Tx
<1>6. TxRows /\ Priced /\ Told
  BY DEF Init, DBInit, AccountsInit, TransfersInit, TxRows, Inserted, Priced, CurrencyConsistent,
         Told, InTransaction
<1>3. LatestBounds
  BY DEF Init, DBInit, LatestBounds, VisibleOf
<1>4. DBTypeOK /\ JournalTypes
  BY <1>1, DeltaType DEF TypeOK
<1>5. BalanceIsSum
  <2> SUFFICES ASSUME NEW a \in Account PROVE amount[a] = PrefixSum(Delta(a))[Len(posting)]
    BY DEF BalanceIsSum
  <2>1. PrefixSum(Delta(a))[0] = 0
    BY <1>4, PrefixSumDef DEF JournalTypes
  <2>2. Len(posting) = 0 /\ amount[a] = 0
    BY DEF Init, DBInit
  <2> QED BY <2>1, <2>2
<1> QED BY <1>1, <1>2, <1>3, <1>4, <1>5, <1>6, DriftIsSum DEF LedgerInv, CallsInv

\* Every statement of a call keeps what the calls have written in order.
LEMMA StepCallsInv ==
    ASSUME CallsInv, (\E a \in Account : AccountStep(a)) \/ (\E c \in Calls : CallStep(c))
    PROVE  CallsInv' /\ Books
<1>0. /\ TypeOK /\ Control /\ Locks /\ Rows /\ Journal /\ KeyOwners
      /\ TxRows /\ Priced /\ Told
  BY DEF CallsInv
<1>1. ASSUME NEW a \in Account, AccountStep(a) PROVE CallsInv' /\ Books
  <2>1. TypeOK' /\ Control' /\ Locks' /\ Rows' /\ Journal' /\ KeyOwners'
    BY <1>0, <1>1, OpenTypeOK, OpenControl, OpenLocks, OpenRows, OpenJournal, OpenKeyOwners
  <2>2. TxRows' /\ Priced' /\ Told'
    BY <1>0, <1>1, OpenTxRows, OpenPriced, OpenTold
  <2>3. Books
    BY <1>0, <1>1, OpenBooks
  <2> QED BY <2>1, <2>2, <2>3 DEF CallsInv
<1>2. ASSUME NEW c \in Calls, CallStep(c) PROVE CallsInv' /\ Books
  <2>1. TypeOK' /\ Control' /\ Locks' /\ Rows' /\ Journal' /\ KeyOwners'
    BY <1>0, <1>2, CallTypeOK, CallControl, CallLocks, CallRows, CallJournal, CallKeyOwners
  <2>2. TxRows' /\ Priced' /\ Told'
    BY <1>0, <1>2, CallTxRows, CallPriced, CallTold
  <2>3. Books
    BY <1>0, <1>2, CallBooks
  <2> QED BY <2>1, <2>2, <2>3 DEF CallsInv
<1> QED BY <1>1, <1>2

\* And so does a step of somebody else that leaves the gateway and the database alone.
LEMMA SameCallsInv ==
    ASSUME CallsInv, UNCHANGED vars
    PROVE  CallsInv' /\ Books
<1>1. TypeOK'
  BY DEF CallsInv, TypeOK, DBTypeOK, AccountsTypeOK, TransfersTypeOK, vars, dbVars, rowVars,
      tableVars, gatewayVars, accountVars, transferVars
<1>2. Control' /\ Locks' /\ Rows' /\ Journal' /\ KeyOwners'
  BY DEF CallsInv, Control, InTransaction, Locks, Holds, FirstOp, CreditFirst, Rows, CallDelta, GreatestLatest,
      Journal, OwnPosting, Posted, PostedBy, Funded, KeyOwners,
      vars, dbVars, rowVars, tableVars, gatewayVars, accountVars, transferVars
<1>3. TxRows' /\ Priced' /\ Told'
  BY DEF CallsInv, TxRows, Inserted, TransferRow, OpeningRow, Priced, CurrencyConsistent, Told,
      InTransaction, vars, dbVars, rowVars, tableVars, gatewayVars, accountVars, transferVars
<1>4. Books
  BY DEF Books, Quiet, vars, dbVars, rowVars, tableVars
<1> QED BY <1>1, <1>2, <1>3, <1>4 DEF CallsInv

\* Every step of the gateway keeps the invariant.
LEMMA StepLedgerInv == LedgerInv /\ [Next]_vars => LedgerInv'
<1> SUFFICES ASSUME LedgerInv, [Next]_vars PROVE LedgerInv'
  OBVIOUS
<1>1. CallsInv /\ DBTypeOK /\ LatestBounds /\ BalanceIsSum
  BY DriftIsSum DEF LedgerInv, CallsInv, TypeOK
<1>2. CallsInv' /\ Books
  BY <1>1, StepCallsInv, SameCallsInv DEF Next, Terminated
<1>3. DBTypeOK'
  BY <1>2 DEF CallsInv, TypeOK
<1>4. LatestBounds' /\ BalanceIsSum'
  BY <1>1, <1>2, <1>3, BooksLatest, BooksBalance
<1> QED BY <1>2, <1>3, <1>4, DriftIsSumNext DEF LedgerInv

\* The inductive invariant holds in every reachable state of the gateway.
THEOREM Inductive == Spec => []LedgerInv
  BY InitLedgerInv, StepLedgerInv, PTL DEF Spec

\* Every variable keeps values of its kind.
THEOREM TypeCorrect == Spec => []TypeOK
<1>1. LedgerInv => TypeOK
  BY DEF LedgerInv, CallsInv
<1> QED BY <1>1, Inductive, PTL

\* The gateway alone never lets accounts.amount drift from the posting
\* journal, whatever the interleaving of calls, failures and lost replies.
THEOREM BalanceCorrect == Spec => []BalanceMatchesPostings
<1>1. LedgerInv => BalanceMatchesPostings
  BY DEF LedgerInv
<1> QED BY <1>1, Inductive, PTL

\* latest_posting_id is the largest visible posting id of the account, in
\* whatever order the transactions drew their ids and committed.
THEOREM LatestCorrect == Spec => []LatestIsMax
<1>1. LedgerInv => LatestIsMax
  <2> SUFFICES ASSUME LedgerInv, NEW a \in Account PROVE latest[a] = MaxId(VisibleOf(a))
    BY DEF LatestIsMax
  <2>1. JournalTypes /\ latest[a] \in Nat
    BY DeltaType DEF LedgerInv, CallsInv, TypeOK, DBTypeOK
  <2>2. /\ \A i \in VisibleOf(a) : i <= latest[a] /\ i \in Nat /\ i # 0
        /\ latest[a] = 0 \/ latest[a] \in VisibleOf(a)
    BY <2>1 DEF LedgerInv, CallsInv, LatestBounds, VisibleOf, JournalTypes
  <2>3. CASE VisibleOf(a) = {}
    BY <2>2, <2>3 DEF MaxId
  <2>4. CASE VisibleOf(a) # {}
    <3>1. latest[a] \in VisibleOf(a)
      BY <2>1, <2>2, <2>4
    <3> DEFINE V == VisibleOf(a)
               m == CHOOSE i \in V : \A j \in V : j <= i
    <3> HIDE DEF V
    <3>2. m \in V /\ \A j \in V : j <= m
      BY <2>2, <3>1 DEF V
    <3>3. MaxId(V) = m
      BY <2>4 DEF MaxId, V
    <3> HIDE DEF m
    <3> QED BY <2>1, <2>2, <3>1, <3>2, <3>3 DEF V
  <2> QED BY <2>3, <2>4
<1> QED BY <1>1, Inductive, PTL

\* Only a funds check, a fresh row or a checked credit writes a row version.
LEMMA StepNoOverdraft == LedgerInv /\ NoOverdraft /\ [Next]_vars => NoOverdraft'
<1> SUFFICES ASSUME LedgerInv, NoOverdraft, [Next]_vars PROVE NoOverdraft'
  OBVIOUS
<1> USE DEF NoOverdraft
<1>0. /\ TypeOK /\ Control /\ Locks /\ Rows
      /\ MaxBigint \in Nat
      /\ amount \in [Account -> Int] /\ newAmount \in [Account -> Int]
      /\ opening \in [Account -> 0 .. MaxBigint]
  BY BoundAssumption DEF LedgerInv, CallsInv, TypeOK, DBTypeOK, AccountsTypeOK
<1>1. ASSUME NEW a \in Account, AccountStep(a) PROVE NoOverdraft'
  <2>1. CASE OpenRejected(a) \/ OpenRefused(a)
    BY <2>1 DEF OpenRejected, OpenRefused, dbVars, rowVars
  <2>2. CASE OpenInsert(a)
    BY <1>0, <2>2 DEF OpenInsert, WriteRow
  <2>3. CASE OpenFund(a)
    <3>1. newAmount[a] = 0
      BY <1>0, <2>3 DEF OpenFund, Rows
    <3> QED BY <1>0, <2>3, <3>1 DEF OpenFund, WriteRow
  <2>4. CASE OpenCommit(a)
    BY <1>0, <2>4 DEF OpenCommit, CommitRows, InstallRows, ReleaseRows
  <2>5. CASE OpenFail(a)
    BY <1>0, <2>5 DEF OpenFail, RollbackRows, ReleaseRows
  <2> QED BY <1>1, <2>1, <2>2, <2>3, <2>4, <2>5 DEF AccountStep, OpenStep, OpenProgress
<1>2. ASSUME NEW c \in Calls, CallStep(c) PROVE NoOverdraft'
  <2>1. CASE Receive(c) \/ CheckCurrencies(c) \/ Fail(c)
    BY <2>1 DEF Receive, CheckCurrencies, Fail, Return, Abort, dbVars, rowVars
  <2>2. CASE BeginTx(c) \/ CreateTransaction(c) \/ CreatePostings(c)
    BY <2>2 DEF BeginTx, CreateTransaction, InsertTransaction, Abort, CreatePostings, CreatePosting, dbVars, rowVars
  <2>3. CASE UpdateBalances(c)
    <3>1. CASE Abort(c, "insufficient_funds") \/ Abort(c, "internal")
      BY <3>1 DEF Abort, dbVars, rowVars
    <3>2. CASE \E a \in Account, next \in {"balance2", "commit"} : RowWritten(c, a, next)
      <4>1. PICK a \in Account, next \in {"balance2", "commit"} : RowWritten(c, a, next)
        BY <3>2
      <4>2. req[c].amount \in Int /\ req[c].amount > 0
        BY <1>0, <4>1, EndsAreAccounts DEF RowWritten
      <4>3. amount[a] + CallDelta(c, a) \in 0 .. MaxBigint
        BY <1>0, <4>1, <4>2 DEF RowWritten, CallDelta
      <4> QED BY <1>0, <4>1, <4>3 DEF RowWritten, WriteRow
    <3> QED BY <1>0, <2>3, <3>1, <3>2, BalanceStep
  <2>4. CASE CommitTx(c)
    BY <1>0, <2>4 DEF CommitTx, CommitRows, InstallRows, ReleaseRows
  <2>5. CASE RollbackTx(c)
    BY <1>0, <2>5 DEF RollbackTx, RollbackRows, ReleaseRows
  <2> QED BY <1>2, <2>1, <2>2, <2>3, <2>4, <2>5 DEF CallStep, TransferStep, TransferProgress
<1>3. CASE UNCHANGED vars
  BY <1>3 DEF vars, dbVars, rowVars
<1> QED BY <1>1, <1>2, <1>3 DEF Next, Terminated

\* No interleaving of debits overdraws an account, and no credit leaves BIGINT.
THEOREM FundsSafe == Spec => []NoOverdraft
<1>1. Init => NoOverdraft
  BY BoundAssumption DEF Init, DBInit, NoOverdraft
<1> QED BY <1>1, StepNoOverdraft, Inductive, PTL DEF Spec

\* A row is waited for only below its holder's next row, a key only by calls
\* that hold nothing: among waiting sessions the one that asks for the largest
\* row would have to wait for one that asks for a larger row.
LEMMA OrderExcludesCycles == CallsInv => NoWaitCycle
<1> SUFFICES ASSUME CallsInv, NEW S \in SUBSET Tx, S # {},
                    \A t \in S : \E u \in S : WaitsFor(t, u)
             PROVE  FALSE
  BY DEF NoWaitCycle
<1>0. /\ Control /\ Locks /\ KeyOwners
      /\ lock \in [Account -> Session \cup {None}]
      /\ None \notin Session
  BY SessionAssumption DEF CallsInv, TypeOK, DBTypeOK
<1>1. \A t \in S : t \in Calls /\ pc[t] \in {"transaction", "balance1", "balance2"}
  BY DEF WaitsFor, WaitsForKey, WaitsForRow
<1>2. ASSUME NEW t \in S, pc[t] \in {"balance1", "balance2"}
      PROVE  \E u \in S : pc[u] = "balance2"
                          /\ FirstOp(u) = IF pc[t] = "balance1" THEN FirstOp(t) ELSE SecondOp(t)
  <2>1. PICK u \in S, a \in Account : WaitsForRow(t, a, u)
    BY <1>2 DEF WaitsFor, WaitsForKey
  <2>2. lock[a] = u /\ u \in Calls
    BY <1>1, <2>1 DEF WaitsForRow
  <2>3. pc[u] = "balance2" /\ FirstOp(u) = a
    BY <1>0, <1>1, <2>2 DEF Locks, Holds
  <2> QED BY <1>2, <2>1, <2>3 DEF WaitsForRow
<1>3. ASSUME NEW t \in S
      PROVE  /\ FirstOp(t) \in 1 .. MaxUUID /\ SecondOp(t) \in 1 .. MaxUUID
             /\ FirstOp(t) < SecondOp(t)
  <2>1. req[t].from \in Account /\ req[t].to \in Account /\ req[t].from # req[t].to
    BY <1>0, <1>1, EndsAreAccounts
  <2>2. req[t].from \in 1 .. MaxUUID /\ req[t].to \in 1 .. MaxUUID /\ MaxUUID \in Nat
    BY <2>1, AccountAssumption
  <2>3. CASE req[t].to < req[t].from
    BY <2>2, <2>3 DEF FirstOp, CreditFirst, SecondOp
  <2>4. CASE req[t].from < req[t].to
    BY <2>2, <2>4 DEF FirstOp, CreditFirst, SecondOp
  <2> QED BY <2>1, <2>2, <2>3, <2>4
<1> DEFINE T == {MaxUUID - SecondOp(u) : u \in {v \in S : pc[v] = "balance2"}}
<1>4. T \in SUBSET Nat
  BY <1>3, AccountAssumption
<1>5. T = {}
  <2> SUFFICES ASSUME T # {} PROVE FALSE
    OBVIOUS
  <2>1. PICK m \in T : \A n \in T : m <= n
    BY <1>4, LeastNat
  <2>2. PICK t \in S : pc[t] = "balance2" /\ m = MaxUUID - SecondOp(t)
    OBVIOUS
  <2>3. PICK u \in S : pc[u] = "balance2" /\ FirstOp(u) = SecondOp(t)
    BY <1>2, <2>2
  <2>4. MaxUUID - SecondOp(u) \in T
    BY <2>3
  <2>5. SecondOp(t) < SecondOp(u) /\ SecondOp(t) \in Nat /\ SecondOp(u) \in Nat /\ MaxUUID \in Nat
    BY <1>3, <2>3, AccountAssumption
  <2>6. m <= MaxUUID - SecondOp(u)
    BY <2>1, <2>4
  <2> HIDE DEF T
  <2> QED BY <2>2, <2>5, <2>6
<1>6. \A t \in S : pc[t] = "transaction"
  <2>1. \A t \in S : pc[t] # "balance2"
    BY <1>5
  <2> QED BY <1>1, <1>2, <2>1
<1>7. PICK t \in S, u \in S : WaitsForKey(t, u)
  BY <1>6 DEF WaitsFor, WaitsForRow
<1>8. pc[u] # "transaction"
  BY <1>0, <1>1, <1>7 DEF WaitsForKey, SameKey, KeyOwners
<1> QED BY <1>6, <1>8

\* Transfers never deadlock, whatever the accounts they run between and the
\* order in which their statements reach the server.
THEOREM DeadlockFree == Spec => []NoWaitCycle
<1>1. LedgerInv => CallsInv
  BY DEF LedgerInv
<1> QED BY <1>1, OrderExcludesCycles, Inductive, PTL

\* A call that is over has nothing open, and told what it did.
LEMMA CallsTellTruth == CallsInv => ReplyFaithful
<1> SUFFICES ASSUME CallsInv, NEW c \in Calls, pc[c] = "done"
             PROVE  /\ reply[c] = "ok" => c \in committed
                    /\ c \in committed => reply[c] \in {"ok", "internal"}
                    /\ c \notin conns /\ Mine(c) = {}
                    /\ (\E r \in txrows : r.id = c) <=> c \in committed
  BY DEF ReplyFaithful
<1>1. Mine(c) = {}
  BY DEF CallsInv, Locks, Holds, Mine
<1>2. (\E r \in txrows : r.id = c) <=> c \in committed
  BY DEF CallsInv, TxRows, Inserted
<1> QED BY <1>1, <1>2 DEF CallsInv, Told, InTransaction

\* The answer of a call is what happened to its transaction, and a call that is
\* over has left nothing behind: no lock, no connection, no row of a transaction
\* that was rolled back.
THEOREM RepliesCorrect == Spec => []ReplyFaithful
<1>1. LedgerInv => CallsInv
  BY DEF LedgerInv
<1> QED BY <1>1, CallsTellTruth, Inductive, PTL

\* Money never moves between accounts of different currencies, although the
\* currencies are compared before the transaction begins.
THEOREM CurrenciesCorrect == Spec => []CurrencyConsistent
<1>1. LedgerInv => CurrencyConsistent
  BY DEF LedgerInv, CallsInv, Priced
<1> QED BY <1>1, Inductive, PTL
=============================================================================
