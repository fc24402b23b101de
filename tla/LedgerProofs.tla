---------------------------- MODULE LedgerProofs ----------------------------
(***************************************************************************)
(* What the gateway is to its neighbours: it implements the ledger that    *)
(* does whole transfers, one at a time; with the currency cache it does    *)
(* what it does without it; and with the posting worker beside it both     *)
(* keep their promises, for any accounts, calls, batch size and number of  *)
(* failures.                                                               *)
(***************************************************************************)
EXTENDS CachedGateway, Ledger, GatewayProofs

-----------------------------------------------------------------------------
(* Gateway implements AtomicLedger.                                        *)

\* The currencies AtomicLedger sees.
OpenCurrency == [a \in Account |-> IF a \in exists THEN currency[a] ELSE 0]

\* A step that commits nothing shows AtomicLedger nothing: the rows it writes
\* belong to an open transaction, and so does a currency it sets.
LEMMA Unseen ==
    ASSUME NEW t, t \notin committed,
           UNCHANGED <<amount, exists, committed>>,
           \A a \in exists : currency'[a] = currency[a],
           \A r : r.id # t => (r \in txrows' <=> r \in txrows)
    PROVE  UNCHANGED Atomic!vars
<1>1. OpenCurrency' = OpenCurrency
  BY DEF OpenCurrency
<1>2. CommittedRows' = CommittedRows
  BY DEF CommittedRows, InFlight
<1> QED BY <1>1, <1>2 DEF Atomic!vars, OpenCurrency

\* The commit of CreateAccount is the opening of the account.
LEMMA CommitOpens ==
    ASSUME LedgerInv, NoOverdraft, NEW a \in Account, OpenCommit(a)
    PROVE  Atomic!Open(a)
<1>0. /\ TypeOK /\ Control /\ Locks /\ TxRows /\ Priced
      /\ amount \in [Account -> Int] /\ opening \in [Account -> 0 .. MaxBigint] /\ MaxBigint \in Nat
      /\ exists \subseteq Account
  BY BoundAssumption DEF LedgerInv, CallsInv, TypeOK, DBTypeOK, AccountsTypeOK
<1>1. opc[a] = "commit" /\ a \notin exists /\ a \notin committed /\ currency[a] # 0
  BY <1>0 DEF OpenCommit, Control, Priced
<1>2. \A b \in Account : lock[b] = a <=> b = a
  BY <1>0, <1>1 DEF Locks
<1>3. /\ amount' = [amount EXCEPT ![a] = opening[a]]
      /\ exists' = exists \cup {a} /\ committed' = committed \cup {a}
      /\ UNCHANGED <<currency, txrows>>
  <2>1. /\ amount' = [b \in Account |-> IF lock[b] = a THEN newAmount[b] ELSE amount[b]]
        /\ exists' = exists \cup Mine(a) /\ committed' = committed \cup {a}
        /\ UNCHANGED <<currency, txrows>>
    BY DEF OpenCommit, CommitRows, InstallRows
  <2>2. newAmount[a] = opening[a] /\ Mine(a) = {a}
    BY <1>0, <1>1, <1>2 DEF TxRows, Mine
  <2> QED BY <1>0, <1>2, <2>1, <2>2
<1>4. OpenCurrency' = [OpenCurrency EXCEPT ![a] = currency[a]]
  BY <1>3 DEF OpenCurrency
<1>5. CommittedRows' = CommittedRows \cup (IF opening[a] = 0 THEN {} ELSE {OpeningRow(a)})
  <2>1. \A r \in txrows : r.id = a => r = OpeningRow(a) /\ opening[a] > 0
    BY <1>0, <1>1 DEF TxRows
  <2>2. opening[a] # 0 => OpeningRow(a) \in txrows
    BY <1>0, <1>1 DEF TxRows
  <2>3. OpeningRow(a).id = a
    BY DEF OpeningRow
  <2> QED BY <1>0, <1>1, <1>3, <2>1, <2>2, <2>3 DEF CommittedRows, InFlight
<1>6. amount'[a] = opening[a] /\ opening[a] >= 0 /\ OpenCurrency'[a] = currency[a]
  BY <1>0, <1>3, <1>4 DEF OpenCurrency
<1> QED BY <1>1, <1>3, <1>4, <1>5, <1>6 DEF Atomic!Open, OpenCurrency, OpeningRow

\* The commit of Transaction is the transfer.
LEMMA CommitTransfers ==
    ASSUME LedgerInv, NoOverdraft, NEW c \in Calls, CommitTx(c)
    PROVE  \E r \in CommittedRows' \ CommittedRows : Atomic!Transfer(r)
<1> DEFINE r == TransferRow(c)
<1>0. /\ TypeOK /\ Control /\ Locks /\ Rows /\ TxRows /\ Priced
      /\ amount \in [Account -> Int] /\ newAmount \in [Account -> Int] /\ MaxBigint \in Nat
      /\ pc[c] = "commit" /\ Inserted(c) /\ InTransaction(c)
  BY BoundAssumption DEF LedgerInv, CallsInv, TypeOK, DBTypeOK, CommitTx, Inserted, InTransaction
<1>1. /\ req[c].from \in Account /\ req[c].to \in Account /\ req[c].from # req[c].to
      /\ req[c].amount \in Int /\ req[c].amount > 0 /\ req[c].key \in Key
      /\ {req[c].from, req[c].to} \subseteq exists
      /\ c \notin committed
  BY <1>0 DEF Control, Request
<1>2. \A a \in Account : lock[a] = c <=> a \in {req[c].from, req[c].to}
  BY <1>0 DEF Locks, Holds
<1>3. /\ newAmount[req[c].from] = amount[req[c].from] - req[c].amount
      /\ newAmount[req[c].to] = amount[req[c].to] + req[c].amount
      /\ newAmount[req[c].from] >= 0
  BY <1>0, <1>1, <1>2 DEF Rows, CallDelta, NoOverdraft
<1>4. /\ amount' = [amount EXCEPT ![req[c].from] = @ - req[c].amount, ![req[c].to] = @ + req[c].amount]
      /\ exists' = exists /\ committed' = committed \cup {c} /\ UNCHANGED <<currency, txrows>>
  <2>1. /\ amount' = [a \in Account |-> IF lock[a] = c THEN newAmount[a] ELSE amount[a]]
        /\ exists' = exists \cup Mine(c) /\ committed' = committed \cup {c}
        /\ UNCHANGED <<currency, txrows>>
    BY DEF CommitTx, CommitRows, InstallRows
  <2>2. Mine(c) \subseteq exists
    BY <1>1, <1>2 DEF Mine
  <2> DEFINE f == req[c].from  t == req[c].to  x == req[c].amount
  <2>3. \A a \in Account : amount'[a] = IF a = f THEN amount[f] - x ELSE
                                        IF a = t THEN amount[t] + x ELSE amount[a]
    BY <1>1, <1>2, <1>3, <2>1
  <2>4. amount' = [amount EXCEPT ![f] = @ - x, ![t] = @ + x]
    <3>1. f \in Account /\ t \in Account /\ f # t /\ x \in Int
      BY <1>1
    <3>2. amount' \in [Account -> Int]
      BY <1>0, <2>1
    <3> HIDE DEF f, t, x
    <3> QED BY <1>0, <2>3, <3>1, <3>2
  <2> QED BY <2>1, <2>2, <2>4
<1>5. /\ r \in txrows /\ r.id = c
      /\ \A s \in txrows : s.id = c => s = r
      /\ \A s \in txrows : s.key = r.key => s = r
  BY <1>0 DEF TxRows, TransferRow
<1>6. /\ r.key = req[c].key /\ r.from = req[c].from /\ r.to = req[c].to
      /\ r.amount = req[c].amount /\ r.currency = req[c].currency
  BY DEF TransferRow
<1>7. currency[r.from] = r.currency /\ currency[r.to] = r.currency
  BY <1>0, <1>6 DEF Priced
<1> HIDE DEF r
<1>8. CommittedRows' = CommittedRows \cup {r} /\ r \notin CommittedRows
  BY <1>1, <1>4, <1>5 DEF CommittedRows, InFlight
<1>9. \A s \in CommittedRows : s.key # r.key
  BY <1>5, <1>8 DEF CommittedRows
<1>10. /\ OpenCurrency[r.from] = r.currency /\ OpenCurrency[r.to] = r.currency
       /\ OpenCurrency' = OpenCurrency
  BY <1>1, <1>4, <1>6, <1>7 DEF OpenCurrency
<1>11. r.amount <= amount[r.from]
  BY <1>0, <1>1, <1>3, <1>6
<1>12. Atomic!Transfer(r)
  BY <1>1, <1>4, <1>6, <1>8, <1>9, <1>10, <1>11 DEF Atomic!Transfer, OpenCurrency
<1> QED BY <1>8, <1>12

\* Every step of the gateway is a step of AtomicLedger or invisible to it.
LEMMA StepAtomic ==
    LedgerInv /\ NoOverdraft /\ [Next]_vars => [Atomic!Next]_(Atomic!vars)
<1> SUFFICES ASSUME LedgerInv, NoOverdraft, [Next]_vars
             PROVE  Atomic!Next \/ UNCHANGED Atomic!vars
  OBVIOUS
<1>0. TypeOK /\ Control /\ DOMAIN currency = Account /\ exists \subseteq Account
  BY DEF LedgerInv, CallsInv, TypeOK, DBTypeOK
<1>1. ASSUME NEW a \in Account, AccountStep(a)
      PROVE  Atomic!Next \/ UNCHANGED Atomic!vars
  <2>0. opc[a] # "done" => a \notin committed /\ a \notin exists
    BY <1>0 DEF Control
  <2>1. CASE OpenRejected(a) \/ OpenRefused(a)
    BY <2>0, <2>1, Unseen DEF OpenRejected, OpenRefused, dbVars, rowVars, tableVars
  <2>2. CASE OpenInsert(a)
    BY <1>0, <2>0, <2>2, Unseen DEF OpenInsert, tableVars
  <2>3. CASE OpenFund(a)
    <3>1. OpeningRow(a).id = a
      BY DEF OpeningRow
    <3> QED BY <2>0, <2>3, <3>1, Unseen DEF OpenFund
  <2>4. CASE OpenCommit(a)
    BY <2>4, CommitOpens DEF Atomic!Next
  <2>5. CASE OpenFail(a)
    BY <1>0, <2>0, <2>5, Unseen DEF OpenFail, RollbackRows
  <2> QED BY <1>1, <2>1, <2>2, <2>3, <2>4, <2>5 DEF AccountStep, OpenStep, OpenProgress
<1>2. ASSUME NEW c \in Calls, CallStep(c)
      PROVE  Atomic!Next \/ UNCHANGED Atomic!vars
  <2>0. pc[c] # "done" => c \notin committed
    BY <1>0 DEF Control
  <2>1. CASE Receive(c) \/ CheckCurrencies(c) \/ Fail(c)
    BY <2>0, <2>1, Unseen DEF Receive, CheckCurrencies, Fail, InTransaction, Return, Abort,
       dbVars, rowVars, tableVars
  <2>2. CASE BeginTx(c)
    BY <2>0, <2>2, Unseen DEF BeginTx, rowVars, tableVars
  <2>3. CASE CreateTransaction(c)
    <3>1. TransferRow(c).id = c
      BY DEF TransferRow
    <3> QED BY <2>0, <2>3, <3>1, Unseen DEF CreateTransaction, InsertTransaction, Abort,
               dbVars, rowVars, tableVars
  <2>4. CASE CreatePostings(c)
    BY <2>0, <2>4, Unseen DEF CreatePostings, CreatePosting, rowVars
  <2>5. CASE UpdateBalances(c)
    <3>1. UNCHANGED <<amount, exists, committed, currency, txrows>> /\ pc[c] # "done"
      BY <1>0, <2>5, BalanceStep DEF UpdateBalances, RowWritten, Abort, dbVars, rowVars, tableVars
    <3> QED BY <2>0, <3>1, Unseen
  <2>6. CASE CommitTx(c)
    BY <2>6, CommitTransfers DEF Atomic!Next
  <2>7. CASE RollbackTx(c)
    BY <2>0, <2>7, Unseen DEF RollbackTx, RollbackRows
  <2> QED BY <1>2, <2>1, <2>2, <2>3, <2>4, <2>5, <2>6, <2>7 DEF CallStep, TransferStep, TransferProgress
<1>3. CASE UNCHANGED vars
  BY <1>3 DEF vars, dbVars, rowVars, tableVars, Atomic!vars, CommittedRows, InFlight
<1> QED BY <1>1, <1>2, <1>3 DEF Next, Terminated

\* However their statements interleave and fail, the calls do what whole
\* transfers and openings would do that happen one at a time, at the commits.
THEOREM ImplementsAtomic == Spec => AtomicSpec
<1>1. Init => Atomic!Init
  BY DEF Init, DBInit, Atomic!Init, CommittedRows
<1> QED BY <1>1, StepAtomic, Inductive, FundsSafe, PTL DEF Spec, AtomicSpec, Atomic!Spec

-----------------------------------------------------------------------------
(* CachedGateway implements Gateway.                                       *)

\* What ToInt16 yields it leaves alone.
LEMMA Int16Kept ==
    /\ Int16 \subseteq Int /\ 0 \in Int16
    /\ \A n \in Int : ToInt16(n) \in Int16
    /\ \A n \in Int16 : ToInt16(n) = n
<1>1. HalfInt16 \in Nat \ {0}
  BY SMT DEF HalfInt16
<1> QED BY <1>1, Narrowed, SMT DEF ToInt16, Int16

\* Whatever Redis, the database and the rows together told a call, it compared
\* the currencies the rows have: GetCurrencies is CheckCurrencies.
LEMMA ComparesRows ==
    ASSUME LedgerInv, CacheInv, NEW c \in Calls, GetCurrencies(c)
    PROVE  CallStep(c)
<1>1. pc[c] = "currencies" /\ req[c].from \in Account /\ req[c].to \in Account
  BY EndsAreAccounts DEF GetCurrencies, ReadsBack, LedgerInv, CallsInv
<1>2. \A a \in Ends(c) \ Missing(c) : a \in exists /\ seen[c][a] = currency[a]
  BY <1>1 DEF GetCurrencies, ReadsBack, Ends, Missing, CacheInv, CacheTrue
<1>3. \A a \in Ends(c) : CurrencyOf(c, a) = currency[a]
  BY <1>2 DEF CurrencyOf
<1>4. Ends(c) \subseteq exists <=> Missing(c) \subseteq exists
  BY <1>2 DEF Missing
<1>5. CheckCurrencies(c) /\ UNCHANGED accountVars
  BY <1>1, <1>3, <1>4 DEF GetCurrencies, NotFound, Known, CheckCurrencies, Ends
<1> QED BY <1>5 DEF CallStep, TransferStep, TransferProgress

\* Every step of the cached gateway is a step of the gateway, or one that only
\* the cache sees.
LEMMA StepUncached ==
    ASSUME LedgerInv, CacheInv, [CachedNext]_cachedVars
    PROVE  [Next]_vars
<1>1. ASSUME NEW a \in Account, CachedOpen(a) PROVE AccountStep(a)
  BY <1>1 DEF CachedOpen, AccountStep, OpenStep
<1>2. ASSUME NEW a \in Account, CachedOpenFails(a) PROVE AccountStep(a)
  BY <1>2 DEF CachedOpenFails, AccountStep, OpenStep
<1>3. ASSUME NEW a \in Account, FillOpened(a) \/ Expire(a) PROVE UNCHANGED vars
  BY <1>3 DEF FillOpened, Expire
<1>4. ASSUME NEW c \in Calls, (\E a \in Account : GetAccountCurrency(c, a)) \/ FillCache(c)
      PROVE  UNCHANGED vars
  BY <1>4 DEF GetAccountCurrency, FillCache
<1>5. ASSUME NEW c \in Calls, GetCurrencies(c) PROVE CallStep(c)
  BY <1>5, ComparesRows
<1>6. ASSUME NEW c \in Calls, GetCurrenciesFails(c) PROVE CallStep(c)
  BY <1>6 DEF GetCurrenciesFails, ReadsBack, CallStep, TransferStep, Fail
<1>7. ASSUME NEW c \in Calls, OtherProgress(c) \/ OtherFail(c) PROVE CallStep(c)
  BY <1>7 DEF OtherProgress, OtherFail, CallStep, TransferStep
<1>8. CachedTerminated \/ UNCHANGED cachedVars => UNCHANGED vars
  BY DEF CachedTerminated, cachedVars
<1> QED BY <1>1, <1>2, <1>3, <1>4, <1>5, <1>6, <1>7, <1>8 DEF CachedNext, CachedProgress, Next

\* A visible row keeps its currency, and an account answered with ok has a row.
LEMMA RowsKeepCurrency ==
    ASSUME LedgerInv, CacheInv, [Next]_vars
    PROVE  /\ exists \subseteq exists'
           /\ \A a \in exists : currency'[a] = currency[a]
           /\ \A a \in Account : currency'[a] \in Int16
           /\ \A a \in Account : openReply'[a] = "ok" => a \in exists'
<1>0. /\ Control /\ Locks /\ currency \in [Account -> Int] /\ exists \subseteq Account
      /\ DOMAIN openReply = Account
      /\ \A a \in Account : currency[a] \in Int16
      /\ \A a \in Account : openReply[a] = "ok" => a \in exists
  BY DEF LedgerInv, CallsInv, TypeOK, DBTypeOK, AccountsTypeOK, CacheInv
<1> DEFINE Kept == /\ exists \subseteq exists'
                   /\ \A a \in exists : currency'[a] = currency[a]
                   /\ \A a \in Account : currency'[a] \in Int16
                   /\ \A a \in Account : openReply'[a] = "ok" => a \in exists'
<1>1. ASSUME NEW a \in Account, AccountStep(a) PROVE Kept
  <2>0. opc[a] # "done" => a \notin exists
    BY <1>0 DEF Control
  <2>1. CASE OpenRejected(a) \/ OpenRefused(a)
    BY <1>0, <2>1 DEF OpenRejected, OpenRefused, OpenDone, dbVars, rowVars
  <2>2. CASE OpenInsert(a)
    BY <1>0, <2>0, <2>2, Int16Kept, OpenAssumption DEF OpenInsert
  <2>3. CASE OpenFund(a)
    BY <1>0, <2>3 DEF OpenFund
  <2>4. CASE OpenCommit(a)
    <3>1. a \in Mine(a)
      BY <1>0, <2>4 DEF OpenCommit, Locks, Mine
    <3> QED BY <1>0, <2>4, <3>1 DEF OpenCommit, CommitRows, OpenDone
  <2>5. CASE OpenFail(a)
    BY <1>0, <2>0, <2>5, Int16Kept DEF OpenFail, RollbackRows, OpenDone
  <2> QED BY <1>1, <2>1, <2>2, <2>3, <2>4, <2>5 DEF AccountStep, OpenStep, OpenProgress
<1>2. ASSUME NEW c \in Calls, CallStep(c) PROVE Kept
  <2>1. exists \subseteq exists' /\ UNCHANGED <<currency, openReply>>
    <3>1. CASE UpdateBalances(c)
      BY <1>2, <3>1, BalanceStep DEF LedgerInv, CallsInv, CallStep, accountVars, RowWritten, Abort, dbVars, rowVars
    <3>2. CASE ~UpdateBalances(c)
      BY <1>2, <3>2 DEF CallStep, TransferStep, TransferProgress, accountVars, Receive, CheckCurrencies,
         BeginTx, CreateTransaction, InsertTransaction, CreatePostings, CreatePosting, CommitTx,
         CommitRows, RollbackTx, RollbackRows, Fail, Return, Abort, dbVars, rowVars
    <3> QED BY <3>1, <3>2
  <2> QED BY <1>0, <2>1
<1>3. CASE UNCHANGED vars
  BY <1>0, <1>3 DEF vars, dbVars, rowVars, gatewayVars, accountVars
<1> QED BY <1>1, <1>2, <1>3 DEF Next, Terminated

\* A statement of one call moves no other call.
LEMMA CallMovesOnlyItself ==
    ASSUME TypeOK, NEW c \in Calls, TransferStep(c)
    PROVE  \A d \in Calls : d # c => pc'[d] = pc[d]
<1>1. \E l : Goto(c, l)
  BY DEF TransferStep, TransferProgress, Receive, CheckCurrencies, BeginTx, CreateTransaction,
     InsertTransaction, CreatePostings, CreatePosting, UpdateBalances, BalanceOp, DebitBalance,
     CreditBalance, CommitTx, RollbackTx, Fail, Return, Abort
<1>2. DOMAIN pc = Calls
  BY DEF TypeOK, TransfersTypeOK
<1> QED BY <1>1, <1>2 DEF Goto

\* A call that still compares currencies has nothing to write yet.
LEMMA StepUnfilled ==
    ASSUME LedgerInv, CacheInv, [CachedNext]_cachedVars
    PROVE  \A c \in Calls : pc'[c] = "currencies" => fill'[c] = {}
<1>0. /\ DOMAIN pc = Calls /\ fill \in [Calls -> SUBSET Account]
      /\ \A c \in Calls : pc[c] = "currencies" => fill[c] = {}
  BY DEF LedgerInv, CallsInv, TypeOK, TransfersTypeOK, CacheInv, CacheTypeOK
<1> DEFINE Unfilled == \A c \in Calls : pc'[c] = "currencies" => fill'[c] = {}
<1>1. ASSUME UNCHANGED <<pc, fill>> PROVE Unfilled
  BY <1>0, <1>1
<1>2. ASSUME NEW c \in Calls, GetCurrencies(c) \/ GetCurrenciesFails(c) PROVE Unfilled
  <2>1. \E l \in {"begin", "done"} : pc' = [pc EXCEPT ![c] = l]
    BY <1>2 DEF GetCurrencies, NotFound, Return, Goto, GetCurrenciesFails
  <2>2. UNCHANGED fill \/ \E S : fill' = [fill EXCEPT ![c] = S]
    BY <1>2 DEF GetCurrencies, NotFound, Known, GetCurrenciesFails
  <2> QED BY <1>0, <2>1, <2>2
<1>3. ASSUME NEW c \in Calls, FillCache(c) PROVE Unfilled
  BY <1>0, <1>3 DEF FillCache, vars, gatewayVars, transferVars
<1>4. ASSUME NEW c \in Calls, OtherProgress(c) \/ OtherFail(c) PROVE Unfilled
  <2>1. fill[c] = {} /\ UNCHANGED fill
    BY <1>4 DEF OtherProgress, OtherFail, cacheVars
  <2>2. \A d \in Calls : d # c => pc'[d] = pc[d]
    BY <1>0, <1>4, CallMovesOnlyItself DEF OtherProgress, OtherFail, TransferStep, LedgerInv, CallsInv
  <2> QED BY <1>0, <2>1, <2>2
<1>5. \/ \E c \in Calls : \/ GetCurrencies(c) \/ GetCurrenciesFails(c) \/ FillCache(c)
                         \/ OtherProgress(c) \/ OtherFail(c)
      \/ UNCHANGED <<pc, fill>>
  BY DEF CachedNext, CachedProgress, CachedOpen, CachedOpenFails, FillOpened, Expire,
     GetAccountCurrency, CachedTerminated, cachedVars, cacheVars, vars,
     gatewayVars, transferVars
<1> QED BY <1>1, <1>2, <1>3, <1>4, <1>5

\* Every step keeps the cache true.
LEMMA StepCacheInv ==
    ASSUME LedgerInv, CacheInv, [CachedNext]_cachedVars
    PROVE  CacheInv'
<1>0. /\ CacheTypeOK /\ CacheTrue
      /\ currency \in [Account -> Int] /\ exists \subseteq Account
      /\ \A a \in exists : currency[a] # 0 /\ currency[a] \in Int16
      /\ \A c \in Calls : \A a \in fill[c] : a \in exists /\ seen[c][a] = currency[a]
      /\ None \notin Int
      /\ \A c \in Calls : pc[c] = "currencies" => fill[c] = {}
  BY NoneAssumption DEF LedgerInv, CallsInv, Priced, TypeOK, DBTypeOK, CacheInv
<1>1. /\ exists \subseteq exists'
      /\ \A a \in exists : currency'[a] = currency[a]
      /\ \A a \in Account : currency'[a] \in Int16
      /\ \A a \in Account : openReply'[a] = "ok" => a \in exists'
  BY StepUncached, RowsKeepCurrency
<1> DEFINE CachedTrue == \A a \in Account : cached'[a] # 0 => a \in exists' /\ cached'[a] = currency'[a]
           SeenTrue == \A c \in Calls, a \in Account :
                          seen'[c][a] \notin {None, 0} => a \in exists' /\ seen'[c][a] = currency'[a]
           FillTrue == \A c \in Calls : \A a \in fill'[c] : a \in exists' /\ seen'[c][a] = currency'[a]
<1>2. ASSUME CacheTypeOK', CachedTrue, SeenTrue, FillTrue, openFill' \subseteq exists' PROVE CacheInv'
  BY <1>1, <1>2, StepUnfilled DEF CacheInv, CacheTrue
<1>3. UNCHANGED cached => CachedTrue
  BY <1>0, <1>1 DEF CacheTrue
<1>4. UNCHANGED <<seen, fill>> => SeenTrue /\ FillTrue
  BY <1>0, <1>1 DEF CacheTrue, CacheTypeOK
<1>5. UNCHANGED openFill => openFill' \subseteq exists'
  BY <1>0, <1>1 DEF CacheTrue
<1>6. ASSUME NEW a \in exists, NEW v, v = currency[a], SetAccountCurrency(a, v)
      PROVE  CachedTrue /\ cached' \in [Account -> Int]
  BY <1>0, <1>1, <1>6 DEF SetAccountCurrency, CacheTrue, CacheTypeOK
<1>7. ASSUME NEW a \in Account, CachedOpen(a) PROVE CacheInv'
  <2>1. openFill' \subseteq exists' /\ openFill' \subseteq Account
    BY <1>0, <1>1, <1>7 DEF CachedOpen, CacheTrue
  <2>2. UNCHANGED <<cached, seen, fill>>
    BY <1>7 DEF CachedOpen
  <2> QED BY <1>0, <1>2, <1>3, <1>4, <2>1, <2>2 DEF CacheTypeOK
<1>8. ASSUME UNCHANGED cacheVars PROVE CacheInv'
  BY <1>0, <1>2, <1>3, <1>4, <1>5, <1>8 DEF CacheTypeOK, cacheVars
<1>9. ASSUME NEW a \in Account, FillOpened(a) PROVE CacheInv'
  <2>1. a \in exists
    BY <1>0, <1>9 DEF FillOpened, CacheTrue
  <2>2. CachedTrue /\ cached' \in [Account -> Int]
    BY <1>6, <1>9, <2>1 DEF FillOpened
  <2>3. openFill' \subseteq exists' /\ openFill' \subseteq Account /\ UNCHANGED <<seen, fill>>
    BY <1>0, <1>1, <1>9 DEF FillOpened, CacheTrue
  <2> QED BY <1>0, <1>2, <1>4, <2>2, <2>3 DEF CacheTypeOK
<1>10. ASSUME NEW a \in Account, Expire(a) PROVE CacheInv'
  <2>1. CachedTrue /\ cached' \in [Account -> Int] /\ UNCHANGED <<seen, fill, openFill>>
    BY <1>0, <1>1, <1>10 DEF Expire, CacheTrue, CacheTypeOK
  <2> QED BY <1>0, <1>2, <1>4, <1>5, <2>1 DEF CacheTypeOK
<1>11. ASSUME NEW c \in Calls, NEW a \in Account, GetAccountCurrency(c, a) PROVE CacheInv'
  <2>1. PICK v \in {ToInt16(cached[a]), 0} : seen' = [seen EXCEPT ![c][a] = v]
    BY <1>11 DEF GetAccountCurrency
  <2>2. v = 0 \/ (a \in exists /\ v = currency[a])
    <3>1. CASE cached[a] = 0
      BY <3>1, Int16Kept
    <3>2. CASE cached[a] # 0
      BY <1>0, <3>2, Int16Kept DEF CacheTrue
    <3> QED BY <3>1, <3>2
  <2>3. UNCHANGED <<cached, fill, openFill, exists, currency>> /\ seen[c][a] = None
    BY <1>11 DEF GetAccountCurrency, vars, dbVars, rowVars
  <2>4. v \in Int /\ CacheTypeOK'
    BY <1>0, <2>1, <2>2, <2>3 DEF CacheTypeOK
  <2>5. \A d \in Calls, b \in Account : seen'[d][b] = IF d = c /\ b = a THEN v ELSE seen[d][b]
    BY <1>0, <2>1 DEF CacheTypeOK
  <2>6. SeenTrue
    BY <1>0, <2>2, <2>3, <2>5 DEF CacheTrue
  <2>7. FillTrue
    BY <1>0, <2>3, <2>5 DEF CacheTypeOK
  <2> QED BY <1>2, <1>3, <1>5, <2>3, <2>4, <2>6, <2>7
<1>12. ASSUME NEW c \in Calls, NEW S \in SUBSET exists,
              seen' = [seen EXCEPT ![c] = [a \in Account |-> IF a \in S THEN currency[a] ELSE None]],
              fill'[c] \subseteq S, fill' \in [Calls -> SUBSET Account],
              \A d \in Calls : d # c => fill'[d] = fill[d],
              UNCHANGED <<cached, openFill>>
       PROVE  CacheInv'
  <2>1. \A d \in Calls, a \in Account :
          seen'[d][a] = IF d = c THEN (IF a \in S THEN currency[a] ELSE None) ELSE seen[d][a]
    BY <1>0, <1>12 DEF CacheTypeOK
  <2>2. CacheTypeOK'
    BY <1>0, <1>12 DEF CacheTypeOK
  <2>3. SeenTrue
    BY <1>0, <1>1, <1>12, <2>1 DEF CacheTrue
  <2>4. FillTrue
    BY <1>0, <1>1, <1>12, <2>1 DEF CacheTypeOK
  <2> QED BY <1>2, <1>3, <1>5, <1>12, <2>2, <2>3, <2>4
<1>13. ASSUME NEW c \in Calls, GetCurrencies(c) PROVE CacheInv'
  <2>1. Missing(c) \subseteq Account
    BY <1>13, EndsAreAccounts DEF LedgerInv, CallsInv, GetCurrencies, ReadsBack, Missing, Ends
  <2>2. CASE NotFound(c)
    <3> DEFINE S == {req[c].from} \cap Missing(c) \cap exists
    <3>1. S \in SUBSET exists /\ S \subseteq Account
      BY <1>0
    <3>2. /\ seen' = [seen EXCEPT ![c] = [a \in Account |-> IF a \in S THEN currency[a] ELSE None]]
          /\ fill' = [fill EXCEPT ![c] = S] /\ UNCHANGED <<cached, openFill>>
      BY <1>13, <2>2 DEF NotFound, GetCurrencies
    <3> HIDE DEF S
    <3>3. fill'[c] = S /\ fill' \in [Calls -> SUBSET Account] /\ \A d \in Calls : d # c => fill'[d] = fill[d]
      BY <1>0, <3>1, <3>2 DEF CacheTypeOK
    <3> QED BY <1>12, <3>1, <3>2, <3>3
  <2>3. CASE Known(c)
    <3>1. fill'[c] = Missing(c) /\ fill' \in [Calls -> SUBSET Account]
          /\ \A d \in Calls : d # c => fill'[d] = fill[d]
      BY <1>0, <2>1, <2>3 DEF Known, CacheTypeOK
    <3> QED BY <1>12, <1>13, <2>3, <3>1 DEF Known, GetCurrencies
  <2> QED BY <1>13, <2>2, <2>3 DEF GetCurrencies
<1>14. ASSUME NEW c \in Calls, GetCurrenciesFails(c) PROVE CacheInv'
  <2>1. /\ \A d \in Calls, a \in Account : seen'[d][a] = IF d = c THEN None ELSE seen[d][a]
        /\ UNCHANGED <<cached, fill, openFill>>
        /\ seen' \in [Calls -> [Account -> Int \cup {None}]]
    BY <1>0, <1>14 DEF GetCurrenciesFails, CacheTypeOK
  <2>2. fill[c] = {}
    BY <1>0, <1>14 DEF GetCurrenciesFails, ReadsBack
  <2>3. CacheTypeOK'
    BY <1>0, <2>1 DEF CacheTypeOK
  <2>4. SeenTrue
    BY <1>0, <1>1, <2>1 DEF CacheTrue
  <2>5. FillTrue
    BY <1>0, <1>1, <2>1, <2>2 DEF CacheTypeOK
  <2> QED BY <1>2, <1>3, <1>5, <2>1, <2>3, <2>4, <2>5
<1>15. ASSUME NEW c \in Calls, FillCache(c) PROVE CacheInv'
  <2>1. PICK a \in fill[c] : /\ SetAccountCurrency(a, seen[c][a])
                             /\ fill' = [fill EXCEPT ![c] = @ \ {a}]
                             /\ seen' = [seen EXCEPT ![c][a] = None]
    BY <1>15 DEF FillCache
  <2>2. a \in exists /\ a \in Account /\ seen[c][a] = currency[a]
    BY <1>0
  <2>3. CachedTrue /\ cached' \in [Account -> Int]
    BY <1>6, <2>1, <2>2
  <2>4. /\ \A d \in Calls, b \in Account : seen'[d][b] = IF d = c /\ b = a THEN None ELSE seen[d][b]
        /\ \A d \in Calls : fill'[d] = IF d = c THEN fill[c] \ {a} ELSE fill[d]
        /\ UNCHANGED openFill
    BY <1>0, <1>15, <2>1, <2>2 DEF FillCache, CacheTypeOK
  <2>5. CacheTypeOK'
    BY <1>0, <2>1, <2>2, <2>3, <2>4 DEF CacheTypeOK
  <2>6. SeenTrue
    BY <1>0, <1>1, <2>4 DEF CacheTrue
  <2>7. FillTrue
    BY <1>0, <1>1, <2>4 DEF CacheTypeOK
  <2> QED BY <1>2, <1>5, <2>3, <2>4, <2>5, <2>6, <2>7
<1>16. \/ \E a \in Account : CachedOpen(a) \/ FillOpened(a) \/ Expire(a)
       \/ \E c \in Calls : \/ \E a \in Account : GetAccountCurrency(c, a)
                           \/ GetCurrencies(c) \/ GetCurrenciesFails(c) \/ FillCache(c)
       \/ UNCHANGED cacheVars
  BY DEF CachedNext, CachedProgress, CachedOpenFails, OtherProgress, OtherFail, CachedTerminated, cachedVars
<1> QED BY <1>7, <1>8, <1>9, <1>10, <1>11, <1>13, <1>14, <1>15, <1>16

\* The gateway's and the cache's invariant together, under the cached gateway.
LEMMA CachedInductive == CachedSpec => [](LedgerInv /\ CacheInv)
<1>1. CachedInit => LedgerInv /\ CacheInv
  <2> SUFFICES ASSUME CachedInit PROVE LedgerInv /\ CacheInv
    OBVIOUS
  <2>1. LedgerInv
    BY InitLedgerInv DEF CachedInit
  <2>2. CacheInv
    BY NoneAssumption, Int16Kept DEF CachedInit, Init, DBInit, AccountsInit, CacheInv, CacheTypeOK, CacheTrue
  <2> QED BY <2>1, <2>2
<1>2. LedgerInv /\ CacheInv /\ [CachedNext]_cachedVars => LedgerInv' /\ CacheInv'
  BY StepUncached, StepLedgerInv, StepCacheInv
<1> QED BY <1>1, <1>2, PTL DEF CachedSpec

\* What the cache holds, and what a call keeps of it across other calls' steps,
\* is the currency of a committed row, whatever expires, fails or is late.
THEOREM CacheCorrect == CachedSpec => []CacheTrue
<1>1. CacheInv => CacheTrue
  BY DEF CacheInv
<1> QED BY <1>1, CachedInductive, PTL

\* With the cache the calls do what they do without it.
THEOREM CacheTransparent == CachedSpec => ImplementsGateway
<1>1. CachedInit => Init
  BY DEF CachedInit
<1>2. LedgerInv /\ CacheInv /\ [CachedNext]_cachedVars => [Next]_vars
  BY StepUncached
<1> QED BY <1>1, <1>2, CachedInductive, PTL DEF CachedSpec, ImplementsGateway, Spec

\* So everything proved of the gateway holds of the one that is deployed.
THEOREM CachedLedger ==
    CachedSpec => AtomicSpec /\ [](BalanceMatchesPostings /\ NoOverdraft /\ NoWaitCycle
                                    /\ ReplyFaithful /\ CurrencyConsistent)
<1>1. CachedSpec => Spec
  BY CacheTransparent DEF ImplementsGateway
<1> QED BY <1>1, ImplementsAtomic, BalanceCorrect, FundsSafe, DeadlockFree, RepliesCorrect,
           CurrenciesCorrect, PTL

-----------------------------------------------------------------------------
(* What the calls do to what the worker relies on.                         *)

\* The rows the worker holds are written by nobody else.
RowsKept ==
    /\ Mine(Worker)' = Mine(Worker)
    /\ \A a \in Mine(Worker) : amount'[a] = amount[a] /\ newAmount'[a] = newAmount[a]

\* The ids and rows a step of the calls leaves the worker with.
Grows ==
    /\ exists \subseteq exists' /\ Len(posting) <= Len(posting')
    /\ RowsKept
    /\ PostedRows' /\ KnownIds'

\* One version of one row is written, that of a row the worker does not hold.
LEMMA WriteRowsKept ==
    ASSUME DBTypeOK, NEW s \in Tx, NEW a \in Account, NEW amt, NEW id,
           WriteRow(s, a, amt, id), UNCHANGED amount
    PROVE  RowsKept
<1>1. /\ lock[a] \in {None, s} /\ lock' = [lock EXCEPT ![a] = s]
      /\ newAmount' = [newAmount EXCEPT ![a] = amt]
  BY DEF WriteRow
<1>2. DOMAIN lock = Account /\ DOMAIN newAmount = Account /\ Worker # None /\ Worker # s
  BY SessionAssumption DEF DBTypeOK, Session
<1> QED BY <1>1, <1>2 DEF RowsKept, Mine

\* A transaction ends: the versions and locks that go are its own.
LEMMA EndRowsKept ==
    ASSUME DBTypeOK, NEW s \in Tx, ReleaseRows(s), InstallRows(s) \/ UNCHANGED amount
    PROVE  RowsKept
<1>1. /\ lock' = [a \in Account |-> IF lock[a] = s THEN None ELSE lock[a]]
      /\ newAmount' = [a \in Account |-> IF lock[a] = s THEN 0 ELSE newAmount[a]]
      /\ \/ amount' = [a \in Account |-> IF lock[a] = s THEN newAmount[a] ELSE amount[a]]
         \/ amount' = amount
  BY DEF ReleaseRows, InstallRows
<1>2. Worker # None /\ Worker # s
  BY SessionAssumption DEF Session
<1> QED BY <1>1, <1>2 DEF RowsKept, Mine

\* A row that is not written keeps its holder, a new posting is behind the others.
LEMMA AppendPosting ==
    ASSUME TypeOK, PostedRows, KnownIds, NEW row \in PostingRow, posting' = Append(posting, row),
           UNCHANGED <<exists, committed>>,
           row.tx \in Calls => row.account \in exists,
           row.tx \in Account => row.account = row.tx
    PROVE  PostedRows' /\ Len(posting') = Len(posting) + 1 /\ Len(posting) \in Nat
<1>1. /\ Len(posting) \in Nat /\ Len(posting') = Len(posting) + 1
      /\ \A i \in DOMAIN posting' : (i \in DOMAIN posting /\ posting'[i] = posting[i]) \/ posting'[i] = row
  BY AppendFacts DEF TypeOK, DBTypeOK
<1>2. PostedRows'
  BY <1>1 DEF PostedRows
<1> QED BY <1>1, <1>2

\* CreateAccount takes nothing from the worker and gives it an existing account.
LEMMA OpenGrows ==
    ASSUME CallsInv, PostedRows, KnownIds, NEW a \in Account, AccountStep(a)
    PROVE  Grows
<1>0. /\ TypeOK /\ Locks /\ Len(posting) \in Nat /\ DOMAIN lock = Account
      /\ latest \in [Account -> Nat] /\ newLatest \in [Account -> Nat]
      /\ postingID \in [Calls -> [Account -> Nat]]
      /\ a # Worker /\ None # Worker /\ a \notin Calls
      /\ UNCHANGED postingID
  BY SessionAssumption DEF CallsInv, TypeOK, DBTypeOK, TransfersTypeOK, Session, Tx, AccountStep, transferVars
<1>1. CASE UNCHANGED dbVars
  BY <1>0, <1>1 DEF Grows, RowsKept, PostedRows, KnownIds, Mine, dbVars, rowVars, tableVars
<1>2. CASE OpenInsert(a)
  <2>1. UNCHANGED <<exists, posting, committed, latest>>
    BY <1>2 DEF OpenInsert, tableVars
  <2>2. \A b \in Account : newLatest'[b] = IF b = a THEN 0 ELSE newLatest[b]
    BY <1>0, <1>2 DEF OpenInsert, WriteRow
  <2>3. RowsKept
    BY <1>0, <1>2, WriteRowsKept DEF OpenInsert, TypeOK, Tx
  <2>4. PostedRows'
    BY <2>1 DEF PostedRows
  <2>5. KnownIds'
    BY <1>0, <2>1, <2>2 DEF KnownIds
  <2> QED BY <1>0, <2>1, <2>3, <2>4, <2>5 DEF Grows
<1>3. CASE OpenFund(a)
  <2> DEFINE row == [tx |-> a, account |-> a, amount |-> opening[a]]
  <2>1. row \in PostingRow /\ row.tx = a /\ row.account = a
    BY <1>0 DEF PostingRow, Tx, TypeOK, AccountsTypeOK
  <2>2. posting' = Append(posting, row) /\ UNCHANGED <<exists, committed, latest>>
    BY <1>3 DEF OpenFund, InsertPosting
  <2> HIDE DEF row
  <2>3. PostedRows' /\ Len(posting') = Len(posting) + 1
    BY <1>0, <2>1, <2>2, AppendPosting
  <2>4. RowsKept
    BY <1>0, <1>3, WriteRowsKept DEF OpenFund, TypeOK, Tx
  <2>5. \A b \in Account : newLatest'[b] = IF b = a THEN MaxOf(newLatest[a], Len(posting) + 1) ELSE newLatest[b]
    BY <1>0, <1>3 DEF OpenFund, WriteRow, NextPostingId
  <2>6. MaxOf(newLatest[a], Len(posting) + 1) <= Len(posting) + 1
    BY <1>0 DEF KnownIds, MaxOf
  <2>7. ASSUME NEW b \in Account PROVE newLatest'[b] <= Len(posting')
    <3>1. newLatest[b] \in Nat /\ newLatest[b] <= Len(posting)
      BY <1>0 DEF KnownIds
    <3>2. CASE b = a
      BY <2>3, <2>5, <2>6, <3>2, Zenon
    <3>3. CASE b # a
      <4>1. newLatest'[b] = newLatest[b]
        BY <2>5, <3>3
      <4> QED BY <1>0, <2>3, <3>1, <4>1
    <3> QED BY <3>2, <3>3
  <2>8. KnownIds'
    BY <1>0, <2>2, <2>3, <2>7 DEF KnownIds
  <2> QED BY <1>0, <2>2, <2>3, <2>4, <2>8 DEF Grows
<1>4. CASE OpenCommit(a)
  <2>1. /\ posting' = posting /\ committed' = committed \cup {a} /\ exists' = exists \cup Mine(a)
        /\ lock[a] = a
        /\ lock' = [b \in Account |-> IF lock[b] = a THEN None ELSE lock[b]]
        /\ latest' = [b \in Account |-> IF lock[b] = a THEN newLatest[b] ELSE latest[b]]
        /\ newLatest' = [b \in Account |-> IF lock[b] = a THEN 0 ELSE newLatest[b]]
    BY <1>0, <1>4 DEF OpenCommit, CommitRows, InstallRows, ReleaseRows, Locks
  <2>2. RowsKept
    BY <1>0, <1>4, EndRowsKept DEF OpenCommit, CommitRows, InstallRows, TypeOK, Tx
  <2>3. PostedRows'
    BY <2>1 DEF PostedRows, Mine
  <2>4. KnownIds'
    BY <1>0, <2>1 DEF KnownIds
  <2> QED BY <1>0, <2>1, <2>2, <2>3, <2>4 DEF Grows
<1>5. CASE OpenFail(a)
  <2>1. /\ UNCHANGED <<posting, committed, exists, latest>>
        /\ lock' = [b \in Account |-> IF lock[b] = a THEN None ELSE lock[b]]
        /\ newLatest' = [b \in Account |-> IF lock[b] = a THEN 0 ELSE newLatest[b]]
    BY <1>5 DEF OpenFail, RollbackRows, ReleaseRows
  <2>2. RowsKept
    BY <1>0, <1>5, EndRowsKept DEF OpenFail, RollbackRows, TypeOK, Tx
  <2>3. PostedRows'
    BY <2>1 DEF PostedRows
  <2>4. KnownIds'
    BY <1>0, <2>1 DEF KnownIds
  <2> QED BY <1>0, <2>1, <2>2, <2>3, <2>4 DEF Grows
<1> QED BY <1>1, <1>2, <1>3, <1>4, <1>5 DEF AccountStep, OpenStep, OpenProgress, OpenRejected, OpenRefused

\* Neither does a Transfer call.
LEMMA CallGrows ==
    ASSUME CallsInv, PostedRows, KnownIds, NEW c \in Calls, CallStep(c)
    PROVE  Grows
<1>0. /\ TypeOK /\ Control /\ Locks /\ Len(posting) \in Nat /\ DOMAIN lock = Account
      /\ latest \in [Account -> Nat] /\ newLatest \in [Account -> Nat]
      /\ postingID \in [Calls -> [Account -> Nat]]
      /\ c # Worker /\ None # Worker /\ c \notin Account
  BY SessionAssumption DEF CallsInv, TypeOK, DBTypeOK, TransfersTypeOK, Session, Tx
<1>1. ASSUME UNCHANGED <<rowVars, posting, committed, postingID>> PROVE Grows
  BY <1>0, <1>1 DEF Grows, RowsKept, PostedRows, KnownIds, Mine, rowVars
<1>2. CASE Receive(c) \/ CheckCurrencies(c) \/ BeginTx(c) \/ CreateTransaction(c) \/ Fail(c)
  BY <1>1, <1>2 DEF Receive, CheckCurrencies, BeginTx, CreateTransaction, InsertTransaction, Fail,
     Return, Abort, dbVars, tableVars
<1>3. CASE CreatePostings(c)
  <2>1. PICK a \in Account, amt \in Int, next \in {"credit_posting", "balance1"} :
          CreatePosting(c, a, amt, next) /\ a \in exists
    <3>1. /\ req[c].from \in Account /\ req[c].to \in Account
          /\ req[c].from \in exists /\ req[c].to \in exists
          /\ req[c].amount \in Int /\ -req[c].amount \in Int
      BY <1>0, <1>3, EndsAreAccounts DEF CreatePostings, Control, InTransaction, Request
    <3> QED BY <1>3, <3>1 DEF CreatePostings
  <2> DEFINE row == [tx |-> c, account |-> a, amount |-> amt]
  <2>2. row \in PostingRow /\ row.tx = c /\ row.account = a
    BY DEF PostingRow, Tx
  <2>3. posting' = Append(posting, row) /\ UNCHANGED <<rowVars, committed>>
    BY <2>1 DEF CreatePosting, InsertPosting
  <2> HIDE DEF row
  <2>4. PostedRows' /\ Len(posting') = Len(posting) + 1
    BY <1>0, <2>1, <2>2, <2>3, AppendPosting DEF rowVars
  <2>5. \A d \in Calls, b \in Account :
          postingID'[d][b] = IF d = c /\ b = a THEN Len(posting) + 1 ELSE postingID[d][b]
    BY <1>0, <2>1 DEF CreatePosting, NextPostingId
  <2>6. KnownIds'
    BY <1>0, <2>3, <2>4, <2>5 DEF KnownIds, rowVars
  <2> QED BY <1>0, <2>3, <2>4, <2>6 DEF Grows, RowsKept, rowVars, Mine
<1>4. CASE UpdateBalances(c)
  <2>1. CASE Abort(c, "insufficient_funds") \/ Abort(c, "internal")
    BY <1>1, <2>1 DEF Abort, dbVars, tableVars
  <2>2. CASE \E a \in Account, next \in {"balance2", "commit"} : RowWritten(c, a, next)
    <3>1. PICK a \in Account, next \in {"balance2", "commit"} : RowWritten(c, a, next)
      BY <2>2
    <3>2. /\ UNCHANGED <<exists, posting, committed, latest, postingID>>
          /\ lock[a] \in {None, c} /\ lock' = [lock EXCEPT ![a] = c]
          /\ newLatest' = [newLatest EXCEPT ![a] = MaxOf(latest[a], postingID[c][a])]
      BY <3>1 DEF RowWritten, WriteRow, GreatestLatest, tableVars
    <3>3. RowsKept
      BY <1>0, <3>1, WriteRowsKept DEF RowWritten, TypeOK, Tx
    <3>4. PostedRows'
      BY <3>2 DEF PostedRows
    <3>5. \A b \in Account : newLatest'[b] = IF b = a THEN MaxOf(latest[a], postingID[c][a]) ELSE newLatest[b]
      BY <1>0, <3>2
    <3>6. KnownIds'
      BY <1>0, <3>2, <3>5 DEF KnownIds, MaxOf
    <3> QED BY <1>0, <3>2, <3>3, <3>4, <3>6 DEF Grows
  <2> QED BY <1>0, <1>4, <2>1, <2>2, BalanceStep
<1>5. CASE CommitTx(c)
  <2>1. /\ posting' = posting /\ committed' = committed \cup {c} /\ exists' = exists \cup Mine(c)
        /\ lock' = [b \in Account |-> IF lock[b] = c THEN None ELSE lock[b]]
        /\ latest' = [b \in Account |-> IF lock[b] = c THEN newLatest[b] ELSE latest[b]]
        /\ newLatest' = [b \in Account |-> IF lock[b] = c THEN 0 ELSE newLatest[b]]
        /\ UNCHANGED postingID
    BY <1>5 DEF CommitTx, CommitRows, InstallRows, ReleaseRows
  <2>2. RowsKept
    BY <1>0, <1>5, EndRowsKept DEF CommitTx, CommitRows, InstallRows, TypeOK, Tx
  <2>3. PostedRows'
    BY <1>0, <2>1 DEF PostedRows
  <2>4. KnownIds'
    BY <1>0, <2>1 DEF KnownIds
  <2> QED BY <1>0, <2>1, <2>2, <2>3, <2>4 DEF Grows
<1>6. CASE RollbackTx(c)
  <2>1. /\ UNCHANGED <<posting, committed, exists, latest, postingID>>
        /\ lock' = [b \in Account |-> IF lock[b] = c THEN None ELSE lock[b]]
        /\ newLatest' = [b \in Account |-> IF lock[b] = c THEN 0 ELSE newLatest[b]]
    BY <1>6 DEF RollbackTx, RollbackRows, ReleaseRows
  <2>2. RowsKept
    BY <1>0, <1>6, EndRowsKept DEF RollbackTx, RollbackRows, TypeOK, Tx
  <2>3. PostedRows'
    BY <2>1 DEF PostedRows
  <2>4. KnownIds'
    BY <1>0, <2>1 DEF KnownIds
  <2> QED BY <1>0, <2>1, <2>2, <2>3, <2>4 DEF Grows
<1> QED BY <1>2, <1>3, <1>4, <1>5, <1>6 DEF CallStep, TransferStep, TransferProgress

\* So the worker's state stays good while the calls go on.
LEMMA GatewayKeepsWorker ==
    ASSUME WorkerInv, GatewayStep
    PROVE  WorkerInv'
<1>1. CallsInv'
  BY StepCallsInv DEF WorkerInv, GatewayStep
<1>2. Grows
  BY OpenGrows, CallGrows DEF WorkerInv, GatewayStep
<1>3. UNCHANGED <<cursor, wpc, failures, upperLimit, users, snapshot, effectiveMax, step, fullSum, fullMax>>
  BY DEF GatewayStep, workerVars, volatileVars
<1>4. Len(posting) \in Nat /\ Len(posting') \in Nat
  BY <1>1 DEF WorkerInv, CallsInv, TypeOK, DBTypeOK
<1>5. WorkerTypeOK'
  BY <1>2, <1>3, <1>4 DEF WorkerInv, WorkerTypeOK, Grows
<1>6. WorkerControl'
  BY <1>2, <1>3, <1>4 DEF WorkerInv, WorkerTypeOK, WorkerControl, Validating, Grows
<1>7. WorkerHoldsOneRow'
  BY <1>2, <1>3 DEF WorkerInv, WorkerHoldsOneRow, User, Grows, RowsKept
<1>8. WorkerVersion'
  BY <1>2, <1>3 DEF WorkerInv, WorkerVersion, Grows, RowsKept
<1> QED BY <1>1, <1>2, <1>5, <1>6, <1>7, <1>8 DEF WorkerInv, Grows

-----------------------------------------------------------------------------
(* What the worker does to what the calls rely on.                         *)

\* The row of a is not touched by this step.
SameRow(a) ==
    /\ amount'[a] = amount[a] /\ latest'[a] = latest[a] /\ lock'[a] = lock[a]
    /\ newAmount'[a] = newAmount[a] /\ newLatest'[a] = newLatest[a]

\* The row of a committed account that no call holds, before and after.
WorkerRow(a) ==
    a \in exists /\ lock[a] \in {None, Worker} /\ lock'[a] \in {None, Worker}

\* A step that writes only to such rows cannot be told by any call from none:
\* whoever has written a row version holds the row.
LEMMA CallsKeepInv ==
    ASSUME CallsInv, DBTypeOK', UNCHANGED <<currency, exists, tableVars, conns, gatewayVars>>,
           \A a \in Account : SameRow(a) \/ WorkerRow(a)
    PROVE  CallsInv'
<1>0. /\ TypeOK /\ Control /\ Locks /\ Rows /\ Journal /\ KeyOwners
      /\ TxRows /\ Priced /\ Told
  BY DEF CallsInv
<1>1. UNCHANGED <<currency, exists, posting, txrows, committed, conns, opc, opening, openReply,
                  pc, req, reply, postingID>>
  BY DEF tableVars, gatewayVars, accountVars, transferVars
<1>2. TypeOK'
  BY <1>0, <1>1 DEF TypeOK, AccountsTypeOK, TransfersTypeOK
<1>3. Control' /\ KeyOwners' /\ Priced' /\ Told'
  BY <1>0, <1>1 DEF Control, InTransaction, KeyOwners, Priced, CurrencyConsistent, Told
<1>4. \A a \in Account :
        \/ SameRow(a)
        \/ /\ opc[a] = "done" /\ lock[a] \notin Calls /\ lock'[a] \notin Calls
           /\ lock[a] \notin Account /\ lock'[a] \notin Account
  BY <1>0, SessionAssumption DEF WorkerRow, Control, Session, Tx
<1>5. Locks'
  <2>1. \A a \in Account :
          /\ lock'[a] \in Calls => Holds(lock'[a], a)
          /\ lock'[a] \in Account => lock'[a] = a /\ opc[a] \in {"opening", "commit"}
          /\ opc[a] \in {"opening", "commit"} => lock'[a] = a
    BY <1>0, <1>4 DEF Locks, SameRow
  <2>2. \A c \in Calls :
          /\ pc[c] = "balance2" => lock'[FirstOp(c)] = c
          /\ pc[c] = "commit" => lock'[req[c].from] = c /\ lock'[req[c].to] = c
    BY <1>0, <1>4, EndsAreAccounts DEF Locks, SameRow, FirstOp, CreditFirst
  <2> QED BY <1>1, <2>1, <2>2 DEF Locks, Holds, FirstOp, CreditFirst
<1>6. Rows'
  <2> SUFFICES ASSUME NEW a \in Account
               PROVE  /\ lock'[a] \in Calls /\ pc[lock'[a]] # "rollback" =>
                            /\ newAmount'[a] = amount'[a] + CallDelta(lock'[a], a)
                            /\ newLatest'[a] = MaxOf(latest'[a], postingID[lock'[a]][a])
                      /\ opc[a] # "done" => amount'[a] = 0 /\ latest'[a] = 0
                      /\ opc[a] = "opening" => newAmount'[a] = 0 /\ newLatest'[a] = 0
    BY <1>1 DEF Rows, CallDelta, GreatestLatest
  <2> QED BY <1>0, <1>4 DEF Rows, SameRow, GreatestLatest
<1>7. \A a \in Account : opc[a] # "done" => newAmount'[a] = newAmount[a] /\ newLatest'[a] = newLatest[a]
  BY <1>4 DEF SameRow
<1>8. Journal'
  <2>1. \A i \in DOMAIN posting : OwnPosting(i)'
    BY <1>0, <1>1, <1>7 DEF Journal, OwnPosting
  <2>2. \A c \in Calls : Posted(c)'
    BY <1>0, <1>1 DEF Journal, Posted, PostedBy, CallDelta
  <2>3. \A a \in Account : Funded(a)'
    BY <1>0, <1>1, <1>7 DEF Journal, Funded
  <2> QED BY <1>1, <2>1, <2>2, <2>3 DEF Journal
<1>9. TxRows'
  BY <1>0, <1>1, <1>7 DEF TxRows, Inserted, TransferRow, OpeningRow
<1> QED BY <1>2, <1>3, <1>5, <1>6, <1>8, <1>9 DEF CallsInv

\* What a step leaves to the calls.
CallsKept == CallsInv' /\ PostedRows' /\ KnownIds'

\* A statement of the worker that only reads leaves everything to them.
LEMMA ReadKeepsCalls ==
    ASSUME WorkerInv, UNCHANGED <<dbVars, gatewayVars>>
    PROVE  CallsKept /\ Mine(Worker)' = Mine(Worker)
<1>1. UNCHANGED vars
  BY DEF vars
<1>2. CallsInv'
  BY <1>1, SameCallsInv DEF WorkerInv
<1>3. PostedRows' /\ KnownIds' /\ Mine(Worker)' = Mine(Worker)
  BY DEF WorkerInv, PostedRows, KnownIds, Mine, dbVars, rowVars, tableVars, gatewayVars, transferVars
<1> QED BY <1>2, <1>3 DEF CallsKept

-----------------------------------------------------------------------------
(* The worker's own state.                                                 *)

\* ORDER BY account_id has a first account.
LEMMA UserExists ==
    ASSUME WorkerTypeOK, users # {}
    PROVE  User \in users
<1>1. users \in SUBSET Nat
  BY AccountAssumption DEF WorkerTypeOK
<1>2. \E a \in users : \A b \in users : a <= b
  BY <1>1, LeastNat
<1> QED BY <1>2 DEF User

\* MAX(id) of posting ids is one of them, or 0.
LEMMA MaxIdBound ==
    ASSUME NEW n \in Nat, NEW ids \in SUBSET (1 .. n)
    PROVE  MaxId(ids) \in 0 .. n
<1>1. CASE ids = {}
  BY <1>1 DEF MaxId
<1>2. CASE ids # {}
  <2> DEFINE T == {n - i : i \in ids}
  <2>1. T \in SUBSET Nat /\ T # {}
    <3>1. PICK i \in ids : TRUE
      BY <1>2
    <3>2. n - i \in T
      OBVIOUS
    <3>3. \A j \in ids : n - j \in Nat
      OBVIOUS
    <3> QED BY <3>2, <3>3
  <2>2. PICK m \in T : \A k \in T : m <= k
    <3> HIDE DEF T
    <3> QED BY <2>1, LeastNat
  <2>3. PICK i \in ids : m = n - i
    OBVIOUS
  <2>4. \A j \in ids : n - i <= n - j
    BY <2>2, <2>3
  <2>5. \A j \in ids : j <= i
    BY <2>4
  <2>6. MaxId(ids) \in ids
    BY <1>2, <2>5 DEF MaxId
  <2>7. \A j \in ids : j \in 0 .. n
    OBVIOUS
  <2> QED BY <2>6, <2>7, Zenon
<1> QED BY <1>1, <1>2

\* The worker's state, between two of its statements.
WorkerKept == WorkerTypeOK' /\ WorkerControl' /\ wpc' # "commit"

\* Going on to the next account forgets what was read for the last one.
LEMMA NextUserKept ==
    ASSUME WorkerInv, NEW rest, rest \subseteq exists, NextUser(rest),
           UNCHANGED <<exists, posting>>, failures' \in 0 .. MaxWorkerFailures
    PROVE  WorkerKept
<1>1. Len(posting) \in Nat /\ MaxSteps \in Nat \ {0} /\ exists \subseteq Account
  BY WorkerAssumption DEF WorkerInv, CallsInv, TypeOK, DBTypeOK
<1>2. WorkerTypeOK'
  BY <1>1 DEF WorkerInv, WorkerTypeOK, NextUser
<1>3. WorkerControl'
  BY <1>1 DEF WorkerControl, Validating, NextUser
<1> QED BY <1>2, <1>3 DEF WorkerKept, NextUser

\* So does starting over.
LEMMA TopOfLoopKept ==
    ASSUME WorkerInv, TopOfLoop, UNCHANGED <<exists, posting>>,
           cursor' \in 0 .. Len(posting), failures' \in 0 .. MaxWorkerFailures
    PROVE  WorkerKept
<1>1. Len(posting) \in Nat /\ MaxSteps \in Nat \ {0}
  BY WorkerAssumption DEF WorkerInv, CallsInv, TypeOK, DBTypeOK
<1>2. WorkerTypeOK'
  BY <1>1 DEF WorkerTypeOK, TopOfLoop
<1>3. WorkerControl'
  BY <1>1 DEF WorkerControl, Validating, TopOfLoop
<1> QED BY <1>2, <1>3 DEF WorkerKept, TopOfLoop

\* Between corrections the worker holds no row.
LEMMA NoCorrection ==
    ASSUME CallsKept, WorkerKept, Mine(Worker)' = {}
    PROVE  WorkerInv'
<1>1. WorkerHoldsOneRow'
  BY DEF WorkerKept, WorkerHoldsOneRow
<1>2. WorkerVersion'
  BY DEF WorkerVersion
<1> QED BY <1>1, <1>2 DEF CallsKept, WorkerKept, WorkerInv

\* What holds of the worker and its rows before any of its statements.
LEMMA WorkerFacts ==
    ASSUME WorkerInv
    PROVE  /\ DBTypeOK /\ Len(posting) \in Nat /\ exists \subseteq Account /\ users \subseteq exists
           /\ users # {} => User \in users
           /\ Validating => users # {}
           /\ Mine(Worker) \subseteq exists
           /\ wpc # "commit" => Mine(Worker) = {}
           /\ Worker # None /\ Worker \notin conns
<1>1. /\ DBTypeOK /\ WorkerTypeOK /\ WorkerControl /\ WorkerHoldsOneRow
      /\ Len(posting) \in Nat /\ exists \subseteq Account
  BY DEF WorkerInv, CallsInv, TypeOK, DBTypeOK
<1>2. users # {} => User \in users
  BY <1>1, UserExists
<1>3. Mine(Worker) \subseteq exists /\ (wpc # "commit" => Mine(Worker) = {})
  BY <1>1, <1>2 DEF WorkerHoldsOneRow, WorkerControl, Validating
<1>4. Worker # None /\ Worker \notin conns
  BY <1>1, SessionAssumption DEF DBTypeOK, Session
<1> QED BY <1>1, <1>2, <1>3, <1>4 DEF WorkerControl

\* The correction ends, by COMMIT or ROLLBACK: the row it held is an existing
\* account's, and no call had seen its new version.
LEMMA ReleaseKeepsCalls ==
    ASSUME WorkerInv, ReleaseRows(Worker), UNCHANGED <<currency, exists, tableVars, gatewayVars>>,
           amount' \in [Account -> Int], latest' \in [Account -> Nat],
           \A a \in Account : lock[a] # Worker => amount'[a] = amount[a] /\ latest'[a] = latest[a],
           \A a \in Account : latest'[a] <= Len(posting)
    PROVE  CallsKept /\ Mine(Worker)' = {}
<1>0. /\ CallsInv /\ DBTypeOK /\ Len(posting) \in Nat /\ Mine(Worker) \subseteq exists
      /\ Worker # None /\ Worker \notin conns
      /\ PostedRows /\ KnownIds
  BY WorkerFacts DEF WorkerInv
<1>1. /\ lock' = [a \in Account |-> IF lock[a] = Worker THEN None ELSE lock[a]]
      /\ newAmount' = [a \in Account |-> IF lock[a] = Worker THEN 0 ELSE newAmount[a]]
      /\ newLatest' = [a \in Account |-> IF lock[a] = Worker THEN 0 ELSE newLatest[a]]
      /\ conns' = conns
  BY <1>0 DEF ReleaseRows
<1>2. UNCHANGED <<posting, committed, postingID>>
  BY DEF tableVars, gatewayVars, transferVars
<1>3. \A a \in Account : SameRow(a) \/ WorkerRow(a)
  BY <1>0, <1>1 DEF SameRow, WorkerRow, Mine
<1>4. DBTypeOK'
  BY <1>0, <1>1 DEF DBTypeOK, tableVars
<1>5. CallsInv'
  BY <1>0, <1>1, <1>3, <1>4, CallsKeepInv
<1>6. PostedRows'
  BY <1>0, <1>2 DEF PostedRows
<1>7. KnownIds'
  BY <1>0, <1>1, <1>2 DEF KnownIds
<1>8. Mine(Worker)' = {}
  BY <1>0, <1>1 DEF Mine
<1> QED BY <1>5, <1>6, <1>7, <1>8 DEF CallsKept

\* The new row version of a correction, on a row nobody held.
LEMMA WriteKeepsCalls ==
    ASSUME WorkerInv, wpc = "write", WriteRow(Worker, User, fullSum, fullMax),
           UNCHANGED <<amount, latest, currency, exists, tableVars, conns, gatewayVars>>
    PROVE  CallsKept /\ Mine(Worker)' = {User}
<1>0. /\ CallsInv /\ DBTypeOK /\ Len(posting) \in Nat /\ Mine(Worker) = {}
      /\ PostedRows /\ KnownIds
      /\ User \in exists /\ User \in Account
      /\ fullSum \in Int /\ fullMax \in Nat /\ fullMax <= Len(posting)
  BY WorkerFacts DEF WorkerInv, Validating, WorkerTypeOK, WorkerControl
<1>1. DOMAIN lock = Account /\ DOMAIN newAmount = Account /\ DOMAIN newLatest = Account
  BY <1>0 DEF DBTypeOK
<1> DEFINE u == User
<1>2. /\ lock[u] \in {None, Worker} /\ lock' = [lock EXCEPT ![u] = Worker]
      /\ newAmount' = [newAmount EXCEPT ![u] = fullSum]
      /\ newLatest' = [newLatest EXCEPT ![u] = fullMax]
  BY DEF WriteRow
<1>3. UNCHANGED <<amount, latest, posting, committed, postingID>>
  BY DEF tableVars, gatewayVars, transferVars
<1> HIDE DEF u
<1>4. u \in exists /\ u \in Account
  BY <1>0 DEF u
<1>5. \A a \in Account : SameRow(a) \/ WorkerRow(a)
  BY <1>1, <1>2, <1>3, <1>4 DEF SameRow, WorkerRow
<1>6. DBTypeOK'
  BY <1>0, <1>2, <1>4 DEF DBTypeOK, tableVars, Session
<1>7. CallsInv'
  BY <1>0, <1>5, <1>6, CallsKeepInv
<1>8. PostedRows'
  BY <1>0, <1>3 DEF PostedRows
<1>9. KnownIds'
  BY <1>0, <1>1, <1>2, <1>3, <1>4 DEF KnownIds
<1>10. Mine(Worker)' = {u}
  BY <1>0, <1>1, <1>2, <1>4 DEF Mine
<1> QED BY <1>7, <1>8, <1>9, <1>10 DEF CallsKept, u

\* The accounts of a batch are accounts whose rows are committed.
LEMMA BatchExists ==
    ASSUME WorkerInv
    PROVE  {posting[i].account : i \in {j \in cursor + 1 .. upperLimit : Visible(j)}} \subseteq exists
<1> SUFFICES ASSUME NEW i \in DOMAIN posting, posting[i].tx \in committed
             PROVE  posting[i].account \in exists
  BY DEF Visible
<1>1. PostedRows /\ committed \subseteq Tx
  BY DEF WorkerInv, CallsInv, TypeOK, DBTypeOK
<1> QED BY <1>1 DEF PostedRows, Tx

\* What the worker reads and how it counts stays within its bounds.
LEMMA ReadKept ==
    ASSUME WorkerInv, UNCHANGED <<dbVars, gatewayVars>>,
           GetCursorPosition \/ GetAccountBalanceSnapshot \/ RefreshLatest
             \/ CorrectBalanceSum \/ UpdateBalanceStart
    PROVE  WorkerKept
<1>0. /\ DBTypeOK /\ Len(posting) \in Nat /\ WorkerTypeOK /\ WorkerControl /\ KnownIds
      /\ users # {} => User \in Account
      /\ MaxSteps \in Nat \ {0} /\ BatchSize \in Nat \ {0}
      /\ Validating => users # {}
      /\ UNCHANGED <<posting, exists>>
  BY WorkerFacts, WorkerAssumption DEF WorkerInv, dbVars, rowVars, tableVars
<1> DEFINE u == User
<1>1. CASE GetCursorPosition
  <2>1. MaxPostingId \in 0 .. Len(posting)
    <3>1. {i \in DOMAIN posting : Visible(i)} \in SUBSET (1 .. Len(posting))
      BY <1>0 DEF DBTypeOK
    <3> QED BY <1>0, <3>1, MaxIdBound DEF MaxPostingId
  <2>2. upperLimit' \in 0 .. Len(posting)
    BY <1>0, <1>1, <2>1 DEF GetCursorPosition, WorkerTypeOK
  <2>3. wpc' = "active" /\ UNCHANGED <<cursor, users, snapshot, effectiveMax, step, fullSum, fullMax, failures>>
    BY <1>1 DEF GetCursorPosition
  <2> QED BY <1>0, <2>2, <2>3 DEF WorkerKept, WorkerTypeOK, WorkerControl, Validating
<1>2. CASE GetAccountBalanceSnapshot
  <2>1. /\ wpc = "snapshot" /\ wpc' = "sum" /\ snapshot' = amount[u]
        /\ effectiveMax' = MaxOf(effectiveMax, latest[u])
        /\ UNCHANGED <<cursor, upperLimit, users, step, fullSum, fullMax, failures>>
    BY <1>2 DEF GetAccountBalanceSnapshot
  <2>2. u \in Account /\ users # {}
    BY <1>0, <2>1 DEF Validating
  <2> HIDE DEF u
  <2>3. amount[u] \in Int /\ latest[u] \in 0 .. Len(posting)
    BY <1>0, <2>2 DEF DBTypeOK, KnownIds
  <2>4. effectiveMax' \in 0 .. Len(posting)
    BY <1>0, <2>1, <2>3 DEF WorkerTypeOK, MaxOf
  <2>5. WorkerTypeOK'
    BY <1>0, <2>1, <2>3, <2>4 DEF WorkerTypeOK
  <2> QED BY <1>0, <2>1, <2>2, <2>5 DEF WorkerKept, WorkerControl, Validating
<1>3. CASE RefreshLatest
  <2>1. /\ wpc = "refresh"
        /\ UNCHANGED <<cursor, upperLimit, users, snapshot, fullSum, fullMax, failures>>
    BY <1>3 DEF RefreshLatest
  <2>2. \/ /\ effectiveMax' = latest[u] /\ step' = step + 1
           /\ wpc' = IF step + 1 < MaxSteps THEN "snapshot" ELSE "fullsum"
        \/ wpc' = "fullsum" /\ UNCHANGED <<effectiveMax, step>>
    BY <1>3 DEF RefreshLatest
  <2>3. u \in Account /\ users # {} /\ step < MaxSteps
    BY <1>0, <2>1 DEF Validating, WorkerControl
  <2> HIDE DEF u
  <2>4. latest[u] \in 0 .. Len(posting)
    BY <1>0, <2>3 DEF DBTypeOK, KnownIds
  <2>5. WorkerTypeOK'
    BY <1>0, <2>1, <2>2, <2>3, <2>4 DEF WorkerTypeOK
  <2>6. WorkerControl'
    BY <1>0, <2>1, <2>2, <2>3 DEF WorkerTypeOK, WorkerControl, Validating
  <2> QED BY <2>2, <2>5, <2>6 DEF WorkerKept
<1>4. CASE CorrectBalanceSum
  <2>1. /\ wpc = "fullsum" /\ wpc' = "update" /\ fullSum' = PrefixSum(Delta(u))[Len(posting)]
        /\ UNCHANGED <<cursor, upperLimit, users, snapshot, effectiveMax, step, fullMax, failures>>
    BY <1>4 DEF CorrectBalanceSum, PostingsSum
  <2>2. u \in Account /\ users # {}
    BY <1>0, <2>1 DEF Validating
  <2> HIDE DEF u
  <2>3. fullSum' \in Int
    BY <1>0, <2>1, <2>2, SumType DEF SumsAreInt
  <2>4. WorkerTypeOK'
    BY <1>0, <2>1, <2>3 DEF WorkerTypeOK
  <2> QED BY <1>0, <2>1, <2>2, <2>4 DEF WorkerKept, WorkerControl, Validating
<1>5. CASE UpdateBalanceStart
  <2>1. /\ wpc = "update" /\ wpc' = "write" /\ fullMax' = MaxId(VisibleOf(u))
        /\ UNCHANGED <<cursor, upperLimit, users, snapshot, effectiveMax, step, fullSum, failures>>
    BY <1>5 DEF UpdateBalanceStart
  <2>2. users # {}
    BY <1>0, <2>1 DEF Validating
  <2> HIDE DEF u
  <2>3. fullMax' \in 0 .. Len(posting)
    <3>1. VisibleOf(u) \in SUBSET (1 .. Len(posting))
      BY <1>0 DEF DBTypeOK, VisibleOf
    <3> QED BY <1>0, <2>1, <3>1, MaxIdBound
  <2>4. WorkerTypeOK'
    BY <1>0, <2>1, <2>3 DEF WorkerTypeOK
  <2> QED BY <1>0, <2>1, <2>2, <2>3, <2>4 DEF WorkerKept, WorkerControl, Validating
<1> QED BY <1>1, <1>2, <1>3, <1>4, <1>5

\* Every statement of the worker, failed or not, and every restart keep the
\* invariant, whatever the calls have committed since the statement before.
LEMMA WorkerKeepsWorker ==
    ASSUME WorkerInv, PostingWorkerStep
    PROVE  WorkerInv'
<1>0. /\ DBTypeOK /\ Len(posting) \in Nat /\ WorkerTypeOK /\ users \subseteq exists
      /\ wpc # "commit" => Mine(Worker) = {}
      /\ KnownIds /\ WorkerStep /\ UNCHANGED gatewayVars
  BY WorkerFacts DEF WorkerInv, PostingWorkerStep
<1>1. failures \in 0 .. MaxWorkerFailures /\ MaxWorkerFailures \in Nat
  BY <1>0, WorkerAssumption DEF WorkerTypeOK
<1>2. users \ {User} \subseteq exists
  BY <1>0
<1>3. ASSUME UNCHANGED dbVars PROVE UNCHANGED <<exists, posting>>
  BY <1>3 DEF dbVars, rowVars, tableVars
<1>4. ASSUME UNCHANGED dbVars, wpc # "commit", WorkerKept PROVE WorkerInv'
  BY <1>0, <1>4, ReadKeepsCalls, NoCorrection
<1>5. ASSUME WorkerFails PROVE failures' \in 0 .. MaxWorkerFailures
  BY <1>1, <1>5 DEF WorkerFails
<1>6. CASE GetCursorPosition \/ GetAccountBalanceSnapshot \/ RefreshLatest
             \/ CorrectBalanceSum \/ UpdateBalanceStart
  <2>1. UNCHANGED dbVars /\ wpc # "commit"
    BY <1>6 DEF GetCursorPosition, GetAccountBalanceSnapshot, RefreshLatest, CorrectBalanceSum,
                UpdateBalanceStart
  <2> QED BY <1>0, <1>4, <1>6, <2>1, ReadKept
<1>7. CASE GetActiveAccounts
  <2>1. UNCHANGED <<dbVars, failures>> /\ wpc # "commit"
    BY <1>7 DEF GetActiveAccounts
  <2>2. WorkerKept
    BY <1>1, <1>3, <1>7, <2>1, BatchExists, NextUserKept DEF GetActiveAccounts
  <2> QED BY <1>4, <2>1, <2>2
<1>8. CASE GetPostingsSum
  <2>1. UNCHANGED <<dbVars, failures>> /\ wpc = "sum"
    BY <1>8 DEF GetPostingsSum
  <2>2. CASE NextUser(users \ {User})
    <3>1. WorkerKept
      BY <1>1, <1>2, <1>3, <2>1, <2>2, NextUserKept
    <3> QED BY <1>4, <2>1, <3>1
  <2>3. CASE wpc' = "refresh" /\ UNCHANGED <<cursor, volatileVars>>
    <3>1. WorkerKept
      BY <1>0, <1>1, <1>3, <2>1, <2>3
      DEF WorkerInv, WorkerKept, WorkerTypeOK, WorkerControl, Validating, volatileVars
    <3> QED BY <1>4, <2>1, <3>1
  <2> QED BY <1>8, <2>2, <2>3 DEF GetPostingsSum
<1>9. CASE UpdateBalanceWrite
  <2>1. wpc = "write" /\ UNCHANGED failures
    BY <1>9 DEF UpdateBalanceWrite
  <2>2. CASE /\ WriteRow(Worker, User, fullSum, fullMax) /\ wpc' = "commit"
             /\ UNCHANGED <<amount, latest, currency, exists, tableVars, conns, cursor, volatileVars>>
    <3>1. CallsKept /\ Mine(Worker)' = {User}
      BY <1>0, <2>1, <2>2, WriteKeepsCalls
    <3>2. UNCHANGED <<cursor, upperLimit, users, snapshot, effectiveMax, step, fullSum, fullMax, posting, exists>>
      BY <2>2 DEF volatileVars, tableVars
    <3>3. WorkerTypeOK' /\ WorkerControl'
      BY <1>0, <2>1, <2>2, <3>2 DEF WorkerInv, WorkerTypeOK, WorkerControl, Validating
    <3>4. WorkerHoldsOneRow'
      BY <2>2, <3>1, <3>2 DEF WorkerHoldsOneRow, User
    <3>5. newAmount'[User] = fullSum /\ fullSum' = fullSum
      <4>1. User \in Account /\ newAmount \in [Account -> Int]
        BY <3>1 DEF Mine, WorkerInv, CallsInv, TypeOK, DBTypeOK
      <4> QED BY <2>2, <3>2, <4>1 DEF WriteRow
    <3>6. WorkerVersion'
      BY <3>1, <3>5 DEF WorkerVersion
    <3> QED BY <3>1, <3>3, <3>4, <3>6 DEF WorkerInv, CallsKept
  <2>3. CASE NextUser(users \ {User}) /\ UNCHANGED dbVars
    <3>1. WorkerKept
      BY <1>1, <1>2, <1>3, <2>1, <2>3, NextUserKept
    <3> QED BY <1>4, <2>1, <2>3, <3>1
  <2> QED BY <1>9, <2>2, <2>3 DEF UpdateBalanceWrite
<1>10. CASE CommitCorrection
  <2>1. /\ ReleaseRows(Worker) /\ NextUser(users \ {User})
        /\ UNCHANGED <<currency, exists, tableVars, failures, posting>>
        /\ amount' = [a \in Account |-> IF lock[a] = Worker THEN newAmount[a] ELSE amount[a]]
        /\ latest' = [a \in Account |-> IF lock[a] = Worker THEN newLatest[a] ELSE latest[a]]
    BY <1>10 DEF CommitCorrection, InstallRows, tableVars
  <2>2. /\ amount' \in [Account -> Int] /\ latest' \in [Account -> Nat]
        /\ \A a \in Account : lock[a] # Worker => amount'[a] = amount[a] /\ latest'[a] = latest[a]
        /\ \A a \in Account : latest'[a] <= Len(posting)
    BY <1>0, <2>1 DEF DBTypeOK, KnownIds
  <2>3. CallsKept /\ Mine(Worker)' = {}
    BY <1>0, <2>1, <2>2, ReleaseKeepsCalls
  <2>4. WorkerKept
    BY <1>1, <1>2, <2>1, NextUserKept
  <2> QED BY <2>3, <2>4, NoCorrection
<1>11. CASE UpdateCursorPosition
  <2>1. UNCHANGED <<dbVars, failures>> /\ wpc # "commit" /\ cursor' = upperLimit /\ TopOfLoop
    BY <1>11 DEF UpdateCursorPosition
  <2>2. cursor' \in 0 .. Len(posting)
    BY <1>0, <2>1 DEF WorkerTypeOK
  <2>3. WorkerKept
    BY <1>1, <1>3, <2>1, <2>2, TopOfLoopKept
  <2> QED BY <1>4, <2>1, <2>3
<1>12. ASSUME ReleaseWorker PROVE CallsKept /\ Mine(Worker)' = {} /\ UNCHANGED <<exists, posting>>
  <2>1. ReleaseRows(Worker) /\ UNCHANGED <<amount, latest, currency, exists, tableVars>>
    BY <1>12 DEF ReleaseWorker
  <2>2. /\ amount' \in [Account -> Int] /\ latest' \in [Account -> Nat]
        /\ \A a \in Account : lock[a] # Worker => amount'[a] = amount[a] /\ latest'[a] = latest[a]
        /\ \A a \in Account : latest'[a] <= Len(posting)
    BY <1>0, <2>1 DEF DBTypeOK, KnownIds
  <2>3. CallsKept /\ Mine(Worker)' = {}
    BY <1>0, <2>1, <2>2, ReleaseKeepsCalls
  <2> QED BY <2>1, <2>3 DEF tableVars
<1>13. CASE ValidateError
  <2>1. WorkerFails /\ ReleaseWorker /\ NextUser(users \ {User})
    BY <1>13 DEF ValidateError
  <2>2. WorkerKept
    BY <1>2, <1>5, <1>12, <2>1, NextUserKept
  <2> QED BY <1>12, <2>1, <2>2, NoCorrection
<1>14. CASE BatchError
  <2>1. WorkerFails /\ TopOfLoop /\ UNCHANGED <<dbVars, cursor>> /\ wpc # "commit"
    BY <1>14 DEF BatchError, waitBackoff
  <2>2. cursor' \in 0 .. Len(posting)
    BY <1>0, <2>1 DEF WorkerTypeOK
  <2>3. WorkerKept
    BY <1>3, <1>5, <2>1, <2>2, TopOfLoopKept
  <2> QED BY <1>4, <2>1, <2>3
<1>15. CASE Restart
  <2>1. WorkerFails /\ ReleaseWorker /\ TopOfLoop /\ UNCHANGED cursor
    BY <1>15 DEF Restart
  <2>2. cursor' \in 0 .. Len(posting)
    BY <1>0, <2>1 DEF WorkerTypeOK
  <2>3. WorkerKept
    BY <1>5, <1>12, <2>1, <2>2, TopOfLoopKept
  <2> QED BY <1>12, <2>1, <2>3, NoCorrection
<1> QED BY <1>0, <1>6, <1>7, <1>8, <1>9, <1>10, <1>11, <1>13, <1>14, <1>15
        DEF WorkerStep, WorkerProgress

-----------------------------------------------------------------------------
(* The theorems.                                                           *)

\* The worker starts with nothing read and nothing held.
LEMMA InitWorkerInv == LedgerInit => WorkerInv
<1> SUFFICES ASSUME LedgerInit PROVE WorkerInv
  OBVIOUS
<1>1. CallsInv
  BY InitLedgerInv DEF LedgerInit, LedgerInv
<1>2. /\ posting = <<>> /\ committed = {} /\ exists = {} /\ lock = [a \in Account |-> None]
      /\ latest = [a \in Account |-> 0] /\ newLatest = [a \in Account |-> 0]
      /\ postingID = [c \in Calls |-> [a \in Account |-> 0]]
  BY DEF LedgerInit, Init, DBInit, TransfersInit
<1>3. Len(posting) = 0 /\ DOMAIN posting = {}
  BY <1>2
<1>4. PostedRows
  BY <1>2, <1>3 DEF PostedRows
<1>5. KnownIds
  BY <1>2, <1>3 DEF KnownIds
<1>6. WorkerTypeOK /\ WorkerControl
  BY <1>2, <1>3, WorkerAssumption DEF LedgerInit, WorkerInit, WorkerTypeOK, WorkerControl, Validating
<1>7. WorkerHoldsOneRow
  BY <1>2, SessionAssumption DEF WorkerHoldsOneRow, LedgerInit, WorkerInit, Mine, Session
<1>8. WorkerVersion
  BY <1>2, SessionAssumption DEF WorkerVersion, Mine, Session
<1> QED BY <1>1, <1>4, <1>5, <1>6, <1>7, <1>8 DEF WorkerInv

\* Every step of the gateway and of the worker keeps the invariant.
LEMMA StepWorkerInv == WorkerInv /\ [LedgerNext]_ledgerVars => WorkerInv'
<1> SUFFICES ASSUME WorkerInv, [LedgerNext]_ledgerVars PROVE WorkerInv'
  OBVIOUS
<1>1. CASE UNCHANGED ledgerVars
  <2>1. UNCHANGED <<dbVars, gatewayVars, exists, posting>> /\ UNCHANGED workerVars
    BY <1>1 DEF ledgerVars, vars, dbVars, rowVars, tableVars
  <2>2. CallsKept /\ Mine(Worker)' = Mine(Worker)
    BY <2>1, ReadKeepsCalls
  <2>3. WorkerTypeOK' /\ WorkerControl' /\ WorkerHoldsOneRow'
    BY <2>1, <2>2 DEF WorkerInv, WorkerTypeOK, WorkerControl, WorkerHoldsOneRow, Validating, User,
       workerVars, volatileVars
  <2>4. WorkerVersion'
    BY <2>1, <2>2 DEF WorkerInv, WorkerVersion, dbVars, rowVars, workerVars, volatileVars
  <2> QED BY <2>2, <2>3, <2>4 DEF CallsKept, WorkerInv
<1> QED BY <1>1, GatewayKeepsWorker, WorkerKeepsWorker DEF LedgerNext, Idle

\* The calls and the worker keep WorkerInv together.
THEOREM WorkerInductive == LedgerSpec => []WorkerInv
  BY InitWorkerInv, StepWorkerInv, PTL DEF LedgerSpec

\* Every variable of the gateway, the database and the worker keeps values of
\* its kind: the cursor and the ends of a batch are ids the sequence has given
\* out, and the version steps taken for an account never pass their bound.
THEOREM LedgerTypeCorrect == LedgerSpec => []LedgerTypeOK
<1>1. WorkerInv => LedgerTypeOK
  BY DEF WorkerInv, CallsInv, LedgerTypeOK
<1> QED BY <1>1, WorkerInductive, PTL

\* The worker holds the row it corrects from the UPDATE to the COMMIT or the
\* ROLLBACK and no row at any other time, failures and restarts included.
THEOREM WorkerRowCorrect == LedgerSpec => []WorkerHoldsOneRow
<1>1. WorkerInv => WorkerHoldsOneRow
  BY DEF WorkerInv
<1> QED BY <1>1, WorkerInductive, PTL

\* To be part of a cycle the worker would have to wait while it holds a row,
\* which it never does; without it the order of the calls' rows excludes cycles.
LEMMA WorkerOutsideCycles == WorkerInv => NoSessionWaitCycle
<1> SUFFICES ASSUME WorkerInv, NEW S \in SUBSET Session, S # {},
                    \A t \in S : \E u \in S : SessionWaitsFor(t, u)
             PROVE  FALSE
  BY DEF NoSessionWaitCycle
<1>0. /\ NoWaitCycle /\ Worker \notin Tx /\ Worker \notin Calls
      /\ wpc # "commit" => Mine(Worker) = {}
      /\ txrows \in SUBSET TxRow
  BY WorkerFacts, OrderExcludesCycles, SessionAssumption DEF WorkerInv, DBTypeOK, Tx
<1>1. \A t \in S : t # Worker => \E u \in S : u # Worker /\ WaitsFor(t, u)
  <2> SUFFICES ASSUME NEW t \in S, t # Worker PROVE \E u \in S : u # Worker /\ WaitsFor(t, u)
    OBVIOUS
  <2>1. PICK u \in S : WaitsFor(t, u)
    BY DEF SessionWaitsFor
  <2>2. CASE u = Worker
    <3>1. wpc = "write"
      BY <2>2, <1>0 DEF SessionWaitsFor, WorkerWaitsFor, WaitsFor
    <3>2. Mine(Worker) = {}
      BY <1>0, <3>1
    <3>3. ~WaitsFor(t, Worker)
      BY <1>0, <3>2 DEF WaitsFor, WaitsForKey, SameKey, WaitsForRow, Mine, TxRow
    <3> QED BY <2>1, <2>2, <3>3
  <2> QED BY <2>1, <2>2
<1>2. S \ {Worker} # {}
  <2>1. PICK t \in S : TRUE
    OBVIOUS
  <2>2. PICK u \in S : SessionWaitsFor(t, u)
    OBVIOUS
  <2> QED BY <1>0, <2>2 DEF SessionWaitsFor, WorkerWaitsFor, WaitsFor
<1>3. S \ {Worker} \in SUBSET Tx
  BY DEF Session
<1> QED BY <1>0, <1>1, <1>2, <1>3 DEF NoWaitCycle

\* No set of sessions waits for itself, the worker's correction among them.
THEOREM SessionsDeadlockFree == LedgerSpec => []NoSessionWaitCycle
  BY WorkerOutsideCycles, WorkerInductive, PTL

\* Drift in the form the lemmas about the books work with.
DriftForm == \A a \in Account : Drift(a) = amount[a] - PrefixSum(Delta(a))[Len(posting)]

\* The two forms agree, before a step ...
LEMMA DriftHasForm == DriftForm
  BY DEF DriftForm, Drift, PostingsSum

\* ... and after it.
LEMMA DriftHasFormNext == DriftForm'
  BY DriftHasForm, PTL

\* A step that makes no posting visible leaves every sum of postings.
LEMMA SameSum ==
    ASSUME UNCHANGED <<posting, committed>>, NEW a \in Account
    PROVE  PostingsSum(a, 0)' = PostingsSum(a, 0)
  BY DEF PostingsSum, Delta, Visible

\* The calls move balance and postings together, whatever the worker holds.
LEMMA CallsKeepDrift ==
    ASSUME WorkerInv, WorkerInv', GatewayStep, NEW a \in Account
    PROVE  Drift(a)' = Drift(a)
<1>1. Books
  BY StepCallsInv DEF WorkerInv, GatewayStep
<1>2. DBTypeOK /\ DBTypeOK'
  BY DEF WorkerInv, CallsInv, TypeOK
<1>3. amount'[a] - PrefixSum(Delta(a)')[Len(posting')] = amount[a] - PrefixSum(Delta(a))[Len(posting)]
  BY <1>1, <1>2, BooksSum
<1>4. Drift(a)' = amount'[a] - PrefixSum(Delta(a)')[Len(posting')]
  BY DriftHasFormNext, Zenon DEF DriftForm
<1>5. Drift(a) = amount[a] - PrefixSum(Delta(a))[Len(posting)]
  BY DriftHasForm, Zenon DEF DriftForm
<1> QED BY <1>3, <1>4, <1>5, Zenon

\* What the postings of each account add up to is a number,
FullSums == \A a \in Account : PostingsSum(a, 0) \in Int

\* before a step
LEMMA FullSumType == DBTypeOK => FullSums
  BY SumType DEF FullSums, SumsAreInt, PostingsSum

\* and after it.
LEMMA FullSumTypeNext == DBTypeOK' => FullSums'
  BY FullSumType, PTL

\* So nothing is committed for an account whose row the worker holds: its balance
\* could not have moved with it.
LEMMA LockedSum ==
    ASSUME WorkerInv, WorkerInv', GatewayStep, NEW a \in Mine(Worker)
    PROVE  PostingsSum(a, 0)' = PostingsSum(a, 0)
<1>0. a \in Account
  BY DEF Mine
<1>1. amount'[a] = amount[a]
  BY OpenGrows, CallGrows DEF WorkerInv, GatewayStep, Grows, RowsKept
<1>2. amount[a] \in Int /\ PostingsSum(a, 0) \in Int
  BY <1>0, FullSumType DEF WorkerInv, CallsInv, TypeOK, DBTypeOK, FullSums
<1>3. PostingsSum(a, 0)' \in Int
  <2>1. FullSums'
    BY FullSumTypeNext DEF WorkerInv, CallsInv, TypeOK
  <2> QED BY <1>0, <2>1, Zenon DEF FullSums
<1>4. amount'[a] - PostingsSum(a, 0)' = amount[a] - PostingsSum(a, 0)
  BY <1>0, CallsKeepDrift, Zenon DEF Drift
<1> QED BY <1>1, <1>2, <1>3, <1>4

\* The COMMIT sets the balance to the sum that was read.
LEMMA CorrectionDrift ==
    ASSUME WorkerInv, CommitCorrection, NEW a \in Account
    PROVE  Drift(a)' = Drift(a) \/ (a = User /\ Drift(a)' = -Missed(a))
<1>1. /\ UNCHANGED <<posting, committed>> /\ wpc = "commit"
      /\ amount'[a] = IF lock[a] = Worker THEN newAmount[a] ELSE amount[a]
  BY DEF CommitCorrection, InstallRows, tableVars
<1>2. PostingsSum(a, 0)' = PostingsSum(a, 0)
  BY <1>1, SameSum
<1>3. CASE lock[a] # Worker
  BY <1>1, <1>2, <1>3, Zenon DEF Drift
<1>4. CASE lock[a] = Worker
  <2>1. a \in Mine(Worker)
    BY <1>4 DEF Mine
  <2>2. a = User /\ newAmount[a] = fullSum
    BY <1>1, <2>1 DEF WorkerInv, WorkerHoldsOneRow, WorkerVersion
  <2>3. Drift(a)' = fullSum - PostingsSum(a, 0)
    BY <1>1, <1>2, <1>4, <2>2, Zenon DEF Drift
  <2>4. fullSum \in Int /\ PostingsSum(a, 0) \in Int
    BY FullSumType DEF WorkerInv, WorkerTypeOK, CallsInv, TypeOK, FullSums
  <2>5. Missed(a) = PostingsSum(a, 0) - fullSum
    BY DEF Missed
  <2>6. fullSum - PostingsSum(a, 0) = -Missed(a)
    BY <2>4, <2>5
  <2> QED BY <2>2, <2>3, <2>6
<1> QED BY <1>3, <1>4

\* No other step of the worker touches a balance or a visible posting, and any
\* other step out of an open correction rolls it back.
LEMMA WorkerReads ==
    ASSUME WorkerInv, PostingWorkerStep \/ Idle, ~CommitCorrection, NEW a \in Account
    PROVE  /\ UNCHANGED <<amount, posting, committed>>
           /\ wpc = "commit" => lock'[a] # Worker
<1>1. UNCHANGED <<amount, posting, committed>>
  BY DEF PostingWorkerStep, WorkerStep, WorkerProgress, GetCursorPosition, GetActiveAccounts,
     GetAccountBalanceSnapshot, GetPostingsSum, RefreshLatest, CorrectBalanceSum,
     UpdateBalanceStart, UpdateBalanceWrite, CommitCorrection, UpdateCursorPosition,
     ValidateError, ReleaseWorker, BatchError, waitBackoff, Restart, Idle, ledgerVars, vars,
     dbVars, rowVars, tableVars
<1>2. ASSUME wpc = "commit" PROVE lock'[a] # Worker
  <2>1. ReleaseRows(Worker)
    BY <1>2 DEF PostingWorkerStep, WorkerStep, WorkerProgress, GetCursorPosition, GetActiveAccounts,
       GetAccountBalanceSnapshot, GetPostingsSum, RefreshLatest, CorrectBalanceSum,
       UpdateBalanceStart, UpdateBalanceWrite, UpdateCursorPosition,
       ValidateError, ReleaseWorker, BatchError, Restart, Idle
  <2>2. Worker # None
    BY SessionAssumption DEF Session
  <2> QED BY <2>1, <2>2 DEF ReleaseRows
<1> QED BY <1>1, <1>2

\* Only the COMMIT of a correction changes how far a balance is from its
\* postings, and only by what was committed between the SELECT of the sum and
\* the row lock (posting_worker.go:230-235): the hot path moves both or neither,
\* and moves neither for an account whose row the worker holds.
THEOREM DriftCorrect == LedgerSpec => DriftOnlyByCorrection
<1>1. WorkerInv /\ WorkerInv' /\ [LedgerNext]_ledgerVars
        => [\A a \in Account :
              /\ Drift(a)' = Drift(a) \/ (CommitCorrection /\ a = User /\ Drift(a)' = -Missed(a))
              /\ CorrectBalanceSum /\ a = User => Missed(a)' = 0
              /\ lock[a] = Worker /\ lock'[a] = Worker => Missed(a)' = Missed(a)]_ledgerVars
  <2> SUFFICES ASSUME WorkerInv, WorkerInv', LedgerNext, NEW a \in Account
               PROVE  /\ Drift(a)' = Drift(a)
                            \/ (CommitCorrection /\ a = User /\ Drift(a)' = -Missed(a))
                      /\ CorrectBalanceSum /\ a = User => Missed(a)' = 0
                      /\ lock[a] = Worker /\ lock'[a] = Worker => Missed(a)' = Missed(a)
    OBVIOUS
  <2>0. lock[a] = Worker => a \in Mine(Worker) /\ wpc = "commit"
    BY DEF WorkerInv, WorkerHoldsOneRow, Mine
  <2>1. CASE GatewayStep
    <3>1. UNCHANGED <<wpc, fullSum>>
      BY <2>1 DEF GatewayStep, workerVars, volatileVars
    <3>2. Drift(a)' = Drift(a)
      BY <2>1, CallsKeepDrift
    <3>3. ~CorrectBalanceSum
      BY <3>1 DEF CorrectBalanceSum
    <3>4. ASSUME lock[a] = Worker PROVE Missed(a)' = Missed(a)
      <4>1. PostingsSum(a, 0)' = PostingsSum(a, 0)
        BY <2>0, <2>1, <3>4, LockedSum
      <4> QED BY <3>1, <4>1, Zenon DEF Missed
    <3> QED BY <3>2, <3>3, <3>4
  <2>2. CASE CommitCorrection
    <3>1. ~CorrectBalanceSum /\ lock'[a] # Worker
      <4>1. wpc = "commit" /\ ReleaseRows(Worker) /\ Worker # None
        BY <2>2, SessionAssumption DEF CommitCorrection, InstallRows, Session
      <4> QED BY <4>1 DEF CorrectBalanceSum, ReleaseRows
    <3> QED BY <2>2, <3>1, CorrectionDrift
  <2>3. CASE (PostingWorkerStep \/ Idle) /\ ~CommitCorrection
    <3>1. UNCHANGED <<amount, posting, committed>>
      BY <2>3, WorkerReads
    <3>2. PostingsSum(a, 0)' = PostingsSum(a, 0)
      BY <3>1, SameSum
    <3>3. Drift(a)' = Drift(a)
      BY <3>1, <3>2, Zenon DEF Drift
    <3>4. ASSUME CorrectBalanceSum, a = User PROVE Missed(a)' = 0
      <4>1. fullSum' = PostingsSum(a, 0)
        BY <3>4 DEF CorrectBalanceSum
      <4>2. PostingsSum(a, 0) \in Int
        BY FullSumType DEF WorkerInv, CallsInv, TypeOK, FullSums
      <4>3. Missed(a)' = PostingsSum(a, 0) - PostingsSum(a, 0)
        BY <3>2, <4>1, Zenon DEF Missed
      <4> QED BY <4>2, <4>3
    <3>5. ~(lock[a] = Worker /\ lock'[a] = Worker)
      BY <2>0, <2>3, WorkerReads
    <3> QED BY <3>3, <3>4, <3>5
  <2> QED BY <2>1, <2>2, <2>3 DEF LedgerNext
<1> QED BY <1>1, WorkerInductive, PTL DEF LedgerSpec, DriftOnlyByCorrection

\* With the worker writing to the same rows, a call still tells its caller what
\* it did, money still moves within one currency, and counter-transfers still
\* do not deadlock.
THEOREM CallsCorrect == LedgerSpec => [](ReplyFaithful /\ CurrencyConsistent /\ NoWaitCycle)
<1>1. WorkerInv => ReplyFaithful /\ CurrencyConsistent /\ NoWaitCycle
  BY CallsTellTruth, OrderExcludesCycles DEF WorkerInv, CallsInv, Priced
<1> QED BY <1>1, WorkerInductive, PTL
=============================================================================
