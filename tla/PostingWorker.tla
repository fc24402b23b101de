---------------------------- MODULE PostingWorker ---------------------------
(***************************************************************************)
(* PostingWorker.Run, ValidateBalance and correctBalance                   *)
(* (internal/usecase/posting_worker.go) over the SQL of                    *)
(* internal/repository/postgres/posting_worker.go: one action per          *)
(* statement, because the hot path commits between any two of them.        *)
(*                                                                         *)
(* There is one instance (README: "должен оставаться в одном экземпляре"), *)
(* so nobody else writes its cursor.  Waiting for the backoff timer is a   *)
(* stuttering step.                                                        *)
(***************************************************************************)
EXTENDS LedgerDB

CONSTANTS
    BatchSize,              \* batchSize
    MaxSteps,               \* maxBalanceVersionSteps
    MaxWorkerFailures       \* bound on failed statements and restarts

ASSUME WorkerAssumption ==
    BatchSize \in Nat \ {0} /\ MaxSteps \in Nat \ {0} /\ MaxWorkerFailures \in Nat

VARIABLES
    cursor,         \* ledger.worker_cursors.position
    wpc,            \* the next statement
    upperLimit,     \* end of the batch
    users,          \* accounts of the batch still to be validated
    snapshot,       \* balance read by GetAccountBalanceSnapshot
    effectiveMax,   \* ids up to here enter the sum compared with it
    step,           \* version steps taken for this account
    fullSum,        \* the sum correctBalance is about to write
    fullMax,        \* MAX(id) seen by the correcting UPDATE
    failures        \* failed statements and restarts so far

volatileVars == <<upperLimit, users, snapshot, effectiveMax, step, fullSum, fullMax>>
workerVars == <<cursor, wpc, failures, volatileVars>>

WorkerInit ==
    /\ cursor = 0
    /\ wpc = "cursor"
    /\ upperLimit = 0
    /\ users = {}
    /\ snapshot = 0
    /\ effectiveMax = 0
    /\ step = 0
    /\ fullSum = 0
    /\ fullMax = 0
    /\ failures = 0

MaxPostingId == MaxId({i \in DOMAIN posting : Visible(i)})

\* ORDER BY account_id
User == CHOOSE a \in users : \A b \in users : a <= b

-----------------------------------------------------------------------------
\* The next account of the batch, or the cursor update behind the last one.
NextUser(rest) ==
    /\ users' = rest
    /\ wpc' = IF rest = {} THEN "advance" ELSE "snapshot"
    /\ effectiveMax' = upperLimit
    /\ snapshot' = 0
    /\ step' = 0
    /\ fullSum' = 0
    /\ fullMax' = 0
    /\ UNCHANGED <<cursor, upperLimit>>

\* Back to the top of the loop of Run: its locals are gone.
TopOfLoop ==
    /\ wpc' = "cursor"
    /\ upperLimit' = 0
    /\ users' = {}
    /\ snapshot' = 0
    /\ effectiveMax' = 0
    /\ step' = 0
    /\ fullSum' = 0
    /\ fullMax' = 0

\* Mutant: the batch is not cut at MAX(id).
GetCursorPositionUncut ==
    /\ wpc = "cursor"
    /\ cursor < MaxPostingId
    /\ upperLimit' = cursor + BatchSize
    /\ wpc' = "active"
    /\ UNCHANGED <<dbVars, cursor, users, snapshot, effectiveMax, step, fullSum, fullMax, failures>>

\* A batch ends at cursor + batchSize or at the largest visible id; without
\* new postings Run waits for the backoff and reads again.
GetCursorPosition ==
    /\ wpc = "cursor"
    /\ LET limit == cursor + BatchSize
           upper == IF limit > MaxPostingId THEN MaxPostingId ELSE limit
       IN  cursor < upper /\ upperLimit' = upper
    /\ wpc' = "active"
    /\ UNCHANGED <<dbVars, cursor, users, snapshot, effectiveMax, step, fullSum, fullMax, failures>>

\* Mutant: the batch is read as (cursor, upperLimit).
GetActiveAccountsOpenEnd ==
    /\ wpc = "active"
    /\ NextUser({posting[i].account : i \in {j \in cursor + 1 .. upperLimit - 1 : Visible(j)}})
    /\ UNCHANGED <<dbVars, failures>>

GetActiveAccounts ==
    /\ wpc = "active"
    /\ NextUser({posting[i].account : i \in {j \in cursor + 1 .. upperLimit : Visible(j)}})
    /\ UNCHANGED <<dbVars, failures>>

GetAccountBalanceSnapshot ==
    /\ wpc = "snapshot"
    /\ snapshot' = amount[User]
    /\ effectiveMax' = MaxOf(effectiveMax, latest[User])
    /\ wpc' = "sum"
    /\ UNCHANGED <<dbVars, cursor, upperLimit, users, step, fullSum, fullMax, failures>>

\* postingsSum == balance: the account is fine.
GetPostingsSum ==
    /\ wpc = "sum"
    /\ \/ PostingsSum(User, effectiveMax) = snapshot /\ NextUser(users \ {User})
       \/ /\ PostingsSum(User, effectiveMax) # snapshot
          /\ wpc' = "refresh"
          /\ UNCHANGED <<cursor, volatileVars>>
    /\ UNCHANGED <<dbVars, failures>>

\* The version is read again; when it moved on, the next step compares anew,
\* and behind the last step the correction is forced.
RefreshLatest ==
    /\ wpc = "refresh"
    /\ \/ /\ latest[User] > effectiveMax
          /\ effectiveMax' = latest[User]
          /\ step' = step + 1
          /\ wpc' = IF step + 1 < MaxSteps THEN "snapshot" ELSE "fullsum"
       \/ /\ latest[User] <= effectiveMax
          /\ wpc' = "fullsum"
          /\ UNCHANGED <<effectiveMax, step>>
    /\ UNCHANGED <<dbVars, cursor, upperLimit, users, snapshot, fullSum, fullMax, failures>>

\* correctBalance: the sum of all postings, in a transaction of its own.
CorrectBalanceSum ==
    /\ wpc = "fullsum"
    /\ fullSum' = PostingsSum(User, 0)
    /\ wpc' = "update"
    /\ UNCHANGED <<dbVars, cursor, upperLimit, users, snapshot, effectiveMax, step, fullMax, failures>>

\* The UPDATE starts: its snapshot fixes what SELECT MAX(id) sees.
UpdateBalanceStart ==
    /\ wpc = "update"
    /\ fullMax' = MaxId(VisibleOf(User))
    /\ wpc' = "write"
    /\ UNCHANGED <<dbVars, cursor, upperLimit, users, snapshot, effectiveMax, step, fullSum, failures>>

\* It writes the row once nobody else holds it; a negative amount fails the
\* CHECK, the correction is rolled back and the account is skipped.
UpdateBalanceWrite ==
    /\ wpc = "write"
    /\ \/ /\ fullSum >= 0
          /\ WriteRow(Worker, User, fullSum, fullMax)
          /\ wpc' = "commit"
          /\ UNCHANGED <<amount, latest, currency, exists, tableVars, conns, cursor, volatileVars>>
       \/ fullSum < 0 /\ NextUser(users \ {User}) /\ UNCHANGED dbVars
    /\ UNCHANGED failures

CommitCorrection ==
    /\ wpc = "commit"
    /\ InstallRows(Worker)
    /\ NextUser(users \ {User})
    /\ UNCHANGED <<currency, exists, tableVars, failures>>

\* Mutant: the cursor stops one short of the batch.
UpdateCursorPositionShort ==
    /\ wpc = "advance"
    /\ cursor' = upperLimit - 1
    /\ TopOfLoop
    /\ UNCHANGED <<dbVars, failures>>

UpdateCursorPosition ==
    /\ wpc = "advance"
    /\ cursor' = upperLimit
    /\ TopOfLoop
    /\ UNCHANGED <<dbVars, failures>>

WorkerFails == failures < MaxWorkerFailures /\ failures' = failures + 1

\* Mutant: the correction is not rolled back.
KeepWorkerRow == UNCHANGED dbVars

ReleaseWorker ==
    ReleaseRows(Worker) /\ UNCHANGED <<amount, latest, currency, exists, tableVars>>

\* An error of ValidateBalance is logged, and the batch goes on without the
\* account (an open correction is rolled back).
ValidateError ==
    /\ WorkerFails
    /\ wpc \in {"snapshot", "sum", "refresh", "fullsum", "update", "write", "commit"}
    /\ ReleaseWorker
    /\ NextUser(users \ {User})

\* The timer of the backoff, whose wait is stuttering, and the loop again.
waitBackoff == TopOfLoop /\ UNCHANGED <<dbVars, cursor>>

\* GetActiveAccounts or UpdateCursorPosition fails: the batch starts over.
BatchError ==
    /\ WorkerFails
    /\ wpc \in {"active", "advance"}
    /\ waitBackoff

\* main is told to stop, or the process dies, and it is started again.  (What
\* Run writes on shutdown uses the cancelled context, and changes nothing.)
Restart ==
    /\ WorkerFails
    /\ wpc # "cursor"
    /\ ReleaseWorker
    /\ TopOfLoop
    /\ UNCHANGED cursor

WorkerProgress ==
    \/ GetCursorPosition \/ GetActiveAccounts \/ GetAccountBalanceSnapshot
    \/ GetPostingsSum \/ RefreshLatest \/ CorrectBalanceSum \/ UpdateBalanceStart
    \/ UpdateBalanceWrite \/ CommitCorrection \/ UpdateCursorPosition

WorkerStep == WorkerProgress \/ ValidateError \/ BatchError \/ Restart

WorkerTypeOK ==
    /\ cursor \in 0 .. Len(posting)
    /\ wpc \in {"cursor", "active", "snapshot", "sum", "refresh", "fullsum", "update",
                "write", "commit", "advance"}
    /\ upperLimit \in 0 .. Len(posting)
    /\ users \in SUBSET Account
    /\ snapshot \in Int
    /\ effectiveMax \in 0 .. Len(posting)
    /\ step \in 0 .. MaxSteps
    /\ fullSum \in Int
    /\ fullMax \in Nat
    /\ failures \in 0 .. MaxWorkerFailures
=============================================================================
