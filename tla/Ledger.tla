------------------------------- MODULE Ledger -------------------------------
(***************************************************************************)
(* The gateway and the posting worker on the same database.                *)
(***************************************************************************)
EXTENDS Gateway, PostingWorker

ledgerVars == <<vars, workerVars>>

LedgerInit == Init /\ WorkerInit

GatewayStep ==
    /\ \/ \E a \in Account : AccountStep(a)
       \/ \E c \in Calls : CallStep(c)
    /\ UNCHANGED workerVars

PostingWorkerStep == WorkerStep /\ UNCHANGED gatewayVars

\* Every call is answered and the worker waits for new postings.
Idle == AllDone /\ wpc = "cursor" /\ cursor >= MaxPostingId /\ UNCHANGED ledgerVars

LedgerNext == GatewayStep \/ PostingWorkerStep \/ Idle

LedgerSpec == LedgerInit /\ [][LedgerNext]_ledgerVars

\* Fairness of the calls as in Gateway; the worker's loop keeps running.
LedgerFairness ==
    /\ \A a \in Account : WF_ledgerVars(OpenProgress(a) /\ UNCHANGED <<transferVars, workerVars>>)
    /\ \A c \in Calls : WF_ledgerVars(TransferProgress(c) /\ UNCHANGED <<accountVars, workerVars>>)
    /\ WF_ledgerVars(WorkerProgress /\ UNCHANGED gatewayVars)

FairLedgerSpec == LedgerSpec /\ LedgerFairness

-----------------------------------------------------------------------------
(* Safety.                                                                 *)

\* Every variable of the gateway, the database and the worker has its kind.
LedgerTypeOK == TypeOK /\ WorkerTypeOK

\* What a's postings have come to since correctBalance summed them up.
Missed(a) == PostingsSum(a, 0) - fullSum

\* Only the COMMIT of a correction changes how far accounts.amount is from the
\* postings, only for the account under validation, and only by what its sum has
\* missed: a correction loses what the hot path commits for that account between
\* the SELECT of the sum and the row lock, and nothing from the lock on.  The
\* hot path itself, failed checks and restarts leave every account as far off
\* as it was, in the middle of a correction too.
DriftOnlyByCorrection ==
    [][\A a \in Account :
        /\ Drift(a)' = Drift(a) \/ (CommitCorrection /\ a = User /\ Drift(a)' = -Missed(a))
        /\ CorrectBalanceSum /\ a = User => Missed(a)' = 0
        /\ lock[a] = Worker /\ lock'[a] = Worker => Missed(a)' = Missed(a)]_ledgerVars

WorkerWaitsFor(u) == wpc = "write" /\ fullSum >= 0 /\ lock[User] = u /\ u # Worker

SessionWaitsFor(t, u) == WaitsFor(t, u) \/ (t = Worker /\ WorkerWaitsFor(u))

\* The worker's row lock cannot close a cycle either: it takes one row and
\* waits for nothing while it holds it.
NoSessionWaitCycle ==
    \A S \in SUBSET Session : S # {} => \E t \in S : \A u \in S : ~SessionWaitsFor(t, u)

\* While a correction is in flight the worker holds the row of the account it
\* validates and no other, and it holds none otherwise, restarts included.
WorkerHoldsOneRow == Mine(Worker) = IF wpc = "commit" THEN {User} ELSE {}

-----------------------------------------------------------------------------
(* The inductive invariant.                                                *)

\* A visible posting belongs to an account whose row is committed, so the worker
\* never meets an account that is still being opened.
PostedRows ==
    /\ \A i \in DOMAIN posting :
        /\ posting[i].tx \in Calls => posting[i].account \in exists
        /\ posting[i].tx \in Account => posting[i].account = posting[i].tx
    /\ \A a \in Account : a \in committed => a \in exists

\* Nobody has heard of an id the sequence has not given out.
KnownIds ==
    /\ \A a \in Account : latest[a] <= Len(posting) /\ newLatest[a] <= Len(posting)
    /\ \A c \in Calls, a \in Account : postingID[c][a] <= Len(posting)

Validating == wpc \in {"snapshot", "sum", "refresh", "fullsum", "update", "write", "commit"}

\* The worker validates accounts that exist, within its bounds.
WorkerControl ==
    /\ users \subseteq exists
    /\ Validating => users # {}
    /\ wpc \in {"snapshot", "sum", "refresh"} => step < MaxSteps
    /\ fullMax <= Len(posting)

\* The version the worker has written is the sum it read.
WorkerVersion == \A a \in Mine(Worker) : newAmount[a] = fullSum

WorkerInv ==
    /\ CallsInv /\ PostedRows /\ KnownIds
    /\ WorkerTypeOK /\ WorkerControl /\ WorkerHoldsOneRow /\ WorkerVersion

-----------------------------------------------------------------------------
(* Liveness.                                                               *)

\* The cursor reaches the last visible posting, whatever is skipped, corrected
\* or restarted on the way, and every call is answered.
CatchesUp == <>[](AllDone /\ cursor = MaxPostingId)

\* Once the ledger is at rest, accounts.amount is the sum of the postings.
EventuallyConsistent == <>[]BalanceMatchesPostings

\* Once the calls are over, the worker gets from here to the end of the journal
\* with every account repaired that has a posting ahead of the cursor, whatever
\* drift earlier corrections left behind.  An account that has paid out more than
\* its postings brought in cannot be repaired, and stops nothing.
RepairsAhead ==
    \A a \in Account :
        (AllDone /\ wpc = "cursor" /\ MaxId(VisibleOf(a)) > cursor)
            ~> (cursor = MaxPostingId /\ (Drift(a) = 0 \/ PostingsSum(a, 0) < 0))

-----------------------------------------------------------------------------
(* What the documents say.                                                 *)

\* "нельзя сделать отрицательный баланс": what the postings of an account add
\* up to is never negative.
JournalNeverNegative == \A a \in Account : PostingsSum(a, 0) >= 0
=============================================================================
