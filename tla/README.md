# A TLA+ verification of high-load-ledger

This directory models the core of the ledger in TLA+, checks it with TLC on
small instances and proves its main safety properties with TLAPS for every
instance. Definitions are translated from the Go and SQL code; `PROJECT.json`
maps each of them to its source lines.

## The system

| Part | State it keeps | Operations | What makes it correct |
|---|---|---|---|
| PostgreSQL (`migrations`, `internal/repository/postgres`) | accounts (amount, currency, latest_posting_id), transactions, postings, worker_cursors; row locks, pool connections | statements of the repository, commit, rollback | transactions are atomic, keys unique, amounts never negative |
| Transfers (`usecase/transfer.go`, `transport/grpc/transaction.go`) | the progress of each call | validate, check currencies, begin, insert transaction, insert two postings, debit and credit in id order, commit or roll back | money moves once and as a whole; no deadlock; no overdraft; the reply is true |
| Accounts (`usecase/account.go`) | the progress of each call | create an account with an opening transaction; read a balance | the balance exists together with its posting |
| Posting worker (`usecase/posting_worker.go`, `cmd/worker`) | a persistent cursor, the locals of one batch | read cursor and batch, snapshot, sum, refresh, correct, advance | it catches up, repairs drift, never creates it, never blocks the hot path |
| Idempotency interceptor (`interceptors/idempotency.go`, `redis/idempotency.go`) | key status in Redis with a TTL | claim, complete, delete | a retry gets the first answer |
| Currency cache (`redis/Currency.go`) | currency per account with a TTL | get, set | agrees with the row |
| Statistics (`infra/kafka`, `usecase/transaction_cache.go`, `usecase/stats.go`, `cmd/stats`) | Kafka topic, consumer offset, Redis cache | publish after commit, consume, read through | every committed transfer can be read |
| Gateway process (`cmd/gateway`, `infra/telemetry`) | its clients, its deferred closes, the calls at work | start, serve, stop gracefully | nothing is closed under a call; a pod that should end ends |
| Load generator (`loadgen`, `cmd/loadgen`) | addresses of the pods, accounts, local balances, queue, streams | resolve, create accounts, build, send, roll back, stop | starts from what the gateway has, conserves its local balances, stops cleanly |

Calls of the gateway run in goroutines of their own and meet only in the
database; the worker is one more session on the same tables. What is hard to
test is the interleaving of their statements, a commit order that differs from
the order of the posting ids, failures between two statements, lost commit
answers, and the worker's reads becoming stale between two of its statements.
`PROJECT.json` lists these hazards, each at its line, with the properties that
watch it.

## Modules

| Module | Models |
|---|---|
| `Sums` | `SUM(amount)` over rows in id order, as a recursive function; the sum of a function over `1 .. n` |
| `LedgerDB` | the tables and what the code relies on at READ COMMITTED |
| `Accounts` | `CreateAccount`, one action per group of statements |
| `Transfers` | `Transaction`, one action per statement |
| `AtomicLedger` | the abstract promise: whole openings and transfers, one at a time |
| `Gateway` | accounts and transfers on one database; properties; the inductive invariant; the refinement to `AtomicLedger` |
| `CachedGateway` | the currency cache in front of `Gateway`, which it implements |
| `Durability` | what a crash of PostgreSQL with `synchronous_commit=off` leaves of transfers |
| `PostingWorker` | `Run`, `ValidateBalance`, `correctBalance`, one action per statement |
| `Ledger` | gateway and worker together |
| `Idempotency` | `UnaryIdempotencyInterceptor`, its keys in Redis, clients that send again |
| `StatsProjection` | publication, topic, stats worker, Redis cache, `GetTransaction` |
| `GatewayMain` | `main` of `cmd/gateway`, one process per pod |
| `Resolver` | the `k8sdns` resolver of a client connection |
| `Bootstrap` | the load generator from its start to its load phase, with `GatewayMain` and `Resolver` |
| `Loadgen` | streams, builders, pool, queue, workers and shutdown of the load generator |
| `MCGateway`, `MCCached`, `MCLedger`, `MCOverdrawn`, `MCIdempotency`, `MCLoadgen`, `MCBootstrap`, `MCDurability` | instances for TLC |
| `SumLemmas`, `GatewayProofs`, `LedgerProofs`, `IdempotencyProofs`, `StatsProofs`, `DurabilityProofs`, `BootstrapProofs`, `LoadgenProofs` | the proofs |

### The database

`amount`, `latest`, `currency` and `exists` are the committed account rows.
A transaction that writes a row takes `lock[a]` and keeps its version in
`newAmount` and `newLatest` until its commit installs them (`CommitRows`) or its
rollback drops them (`RollbackRows`). A row held by somebody else makes the
writer wait: its action is not enabled. `posting` is a sequence whose index is
the BIGSERIAL id, drawn at the INSERT, so a posting is in the sequence long
before it is visible (`Visible`: its transaction is in `committed`) and stays
there, invisible, when the transaction rolls back: its id is spent.
`txrows` holds the transaction rows, those of open transactions included: an
INSERT with the same key waits for an open one and fails on a committed one.
Foreign keys only take KEY SHARE locks on the account rows, which do not
conflict with these updates, and are left out.
`DebitBalance` follows READ COMMITTED: when the committed version fails
`amount >= $1` the row is not matched and nothing is locked; otherwise the
statement waits for the lock and tests the version it then finds.

A transaction is named after its call. Account ids are numbers in the order of
`bytes.Compare`, because that order is what the lock order depends on.
In `Gateway`, `CheckCurrencies` reads the committed `currency` in one step;
`CachedGateway` shows that this is what the code with its cache amounts to.

### The currency cache

A call reads both entries in parallel (`GetAccountCurrency`, where an error, a
missing key and an unreadable entry all count as missing), then what is missing
from the rows in one SELECT (`GetCurrencies`), and writes that back, the
sender's entry first (`FillCache`); it goes on, or answers, once that is done.
`CreateAccount` writes the entry of its account behind its commit (`CachedOpen`,
`FillOpened`). A SET may fail unnoticed, and entries run out (`Expire`).
`CacheTrue` says what a hit is worth, `ImplementsGateway` that every behaviour
is one of `Gateway`: the properties proved there hold here too.

### A crash of the database

`wal` is the sequence of records that matter: accounts, transfers and the
values `nextval` logs ahead of itself; `flushed` of them are on disk. With
`synchronous_commit=off` a commit is answered before it is flushed, so `Crash`
keeps any prefix that includes the flushed part, ends the open transactions and
sets the sequence back to what that prefix has logged. Redis is another server
and keeps the currencies and completed keys of what was lost. The comment in
`.env.example` (lines 15-18) calls the loss one of uncommitted transactions;
what is lost are committed ones, whose callers have their answer.
`RetriedLands` is the most the code gives such a caller: sending again helps,
but only once the completed key has run out.

### Failures

Any statement may fail (`Fail`, `OpenFail`, `ValidateError`): a broken
connection, a cancelled context or a dead process, in which case the server
ends the transaction itself. A commit may take effect and its answer be lost
(the reply `internal` of a committed call). The worker may be restarted
anywhere (`Restart`), which loses its locals and its open correction, never its
cursor; an error of the batch itself sends it back to the top of its loop
(`BatchError`). A crash of the database is in `Durability` only.

### The interceptor

`entry[k]` is what Redis holds for a key: nothing, "in process", or a
completion with its transaction. `Claim` and `Duplicate` are the two outcomes
of SET NX GET, `FailOpen` its failure (with or without effect), `Handle` the
handler below, which commits at most once per key (the UNIQUE key, `Gateway`
and `AtomicLedger`). `ClaimLost` and `DeleteLost` are commands that took effect,
lost their answer and are sent again by the client library (`MaxRetries`).
`disturbed` remembers the keys whose entry has run out or whose DEL was
repeated: from then on two calls may own a key, and the properties about
ownership say so. `SameAnswer` needs no such exception.

### The read side

A message of the topic is modelled by its transaction, since the row is written
once and its JSON form keeps every field. `sending` is the goroutine and the
writer's batch together: from either a message may be lost, and a lost
acknowledgement appends it twice. `Consumer.Run` is `FetchMessage`,
`HandleKafkaMessage` or `HandleFails`, `CommitMessages`; `position` is where its
reader is, `offset` what the group has committed, and `Restart` goes back from
one to the other. The commit of a message takes the whole partition up to it.

### Pods, resolver and bootstrap

`GatewayMain` has one `main` per pod: `PingPostgres`, `PingRedis` and `Listen`
open its clients, each with a deferred Close (`deferred`); `AwaitQuit` is the
select over `errCh` and `quit`, `GracefulStop` waits for the handlers
(`handling`), `RunDeferred` and `Return` end the process. A pod may fail to
start, be signalled, be killed or lose a server at any point, and the cluster
starts it again unless it is no longer `wanted`.

`Resolver` keeps `looking`, the answer a lookup has fetched and not yet
delivered, for the ticker's goroutine and for `ResolveNow` separately, because
the two overlap and the older answer may come last. `dns` is the set of pods
that serve.

`Bootstrap` composes both with the client: `Probe` and `ProbeAnswered` or
`ProbeFails` are the loop that waits for the upstream; then, per currency,
workers take a job (`TakeSlot`), create an account (`CreateAnswered`), ask for
its balance (`GetBalance`) and send a result or an error (`CreateFails`), and
`Collect` puts the results into the pool. A call needs a serving pod among the
resolver's addresses (`Send`) and fails when the pod dies, when ctx is done, or
by itself; a failed `CreateAccount` may have committed.

### The load generator

Each stream is "wait", "build", (for the valid one) "reserve", "send",
"stopped". The builder chooses by balances read under a read lock and
`ReserveValid` looks again under the write lock, so they are two actions.
`Dispatch` and `StopStream` are the two cases of the select at the send. A
worker takes a job, the gateway performs it or not (`CreateTx`), and `handleJob`
keeps or undoes the reservation. After `Cancel`, `CloseJobs` waits for all
streams and the workers drain the queue. The invalid-balance stream sends an
amount (`InvalidBalanceAmount`, the code's `math.MaxInt64 / 4`) that the code calls
"always-invalid" (`builder.go:12`); `InvalidBalanceAssumption` says what that rests
on: the accounts of the pool start with less than this between them.

## Runs

| Run | Checks | Instance |
|---|---|---|
| `Gateway_race` | `LedgerInv`, `BalanceMatchesPostings`, `LatestIsMax`, `NoOverdraft`, `NoWaitCycle`, `ReplyFaithful`, and that `Gateway` implements `AtomicLedger` | 2 accounts, 3 calls, counter-transfers that cannot all be funded or credited (BIGINT limit 3), a key used twice |
| `Gateway_cached` | `CurrencyConsistent`, `CacheTrue`, and that `CachedGateway` implements `Gateway` (`ImplementsGateway`); `AllAnsweredFilled` under fairness | every kind of invalid request, unknown and narrowed currencies, BIGINT limit 3; 2 openings and 2 transfers on 2 connections and one key; entries missing, lost and expired |
| `Ledger_worker` | `LedgerTypeOK`, `NoSessionWaitCycle`, `WorkerHoldsOneRow`, `DriftOnlyByCorrection`; `CatchesUp` under fairness | 2 accounts, 2 calls, the worker, 1 failure or restart of it |
| `Ledger_ahead` | `RepairsAhead` under fairness | two initial states: two accounts open and a third opened meanwhile; the overdrawn ledger `Ledger_negative` ends in, with one more call; no faults |
| `Idempotency` | `IdemInv`, `SameAnswer`, `OneHolder`, `CompletedStays`; `NoLockout` under fairness | 3 deliveries of one request, 3 failures |
| `Stats` | `StatsInv`, `ReadsFaithful`, `OffsetCovers`; `EveryMessageTried` under fairness | 2 transfers, 2 partitions, 1 call, 2 failures |
| `Loadgen` | `ReservationInv`, `PoolMatchesServer`, `Settled`; `Shutdown` under fairness | 4 streams, 2 workers, 2 jobs, queue of 1, 1 failing call |
| `Bootstrap` | `BootstrapInv`, `NoUseAfterClose`, `PoolFaithful`; `PodsEnd`, `BootstrapEnds`, `LoadgenExits`, `TracksName` under fairness | 2 pods, 2 workers, 1 currency of 2 accounts, 1 fault and the cancellation |
| `Durability` | `NoGhostTransfer`, `SurvivorsUnique`; `RetriedLands` under fairness | 3 accounts, 2 transfers with one in common, 2 crashes |
| `Ledger_permanent` | violated: `EventuallyConsistent` | 2 calls, a third account, no faults |
| `Ledger_negative` | violated: `JournalNeverNegative` | 3 transfers out of one account |
| `Stats_skip` | violated: `OffsetAfterEffect` | 2 transfers, 1 partition, 1 failure |

Bounds. Two accounts and three calls contain every conflict the code can have:
two calls on the same rows in opposite order, two calls with one key, and a
third that commits between them. A third account is needed only to give the
worker a posting behind which the ids of open transfers lie. `BatchSize` 2 cuts
batches inside a transfer, 8 collects everything in one batch; `MaxSteps` 2
(the code: 8) reaches the repeated comparison and the forced correction.
`MaxBigint` stands for 2^63-1; with 3 a credit of 2 on top of 2
fails, so the limit is met in both runs of the gateway. The symmetry sets permute calls (and keys, in
`Ledger_negative`) that no definition tells apart; the runs with liveness use
none. The constraint `Calm` only narrows the search for a counterexample.
`Ledger_ahead`, `Ledger_permanent` and `Ledger_negative` start with accounts 1
and 2 open, `Ledger_worker` with account 1 open: states every behaviour that
opens them first passes through. `Ledger_worker` opens account 2 while the
transfers and the worker run.
Keys do not interact, so `Idempotency` runs with one; three deliveries are an
owner, one that failed open and one that comes later. Two transfers and two
partitions let messages be reordered, doubled and covered by one another's
commit. In `Bootstrap` one fault (`MaxFaults`) is a signal, a failed server or
start, a kill or a failed call, and the load generator may be cancelled besides,
each at any point and in either order. One currency means one batch there: that
later batches start with a filled pool is left to the proofs, which hold for any
list of currencies. In
`Durability` two crashes let a transfer be lost, repeated and lost again;
`Prelogged` 2 stands for PostgreSQL's 32, so that ids are drawn from a logged
stretch and from a new one. Two jobs fill a queue of one with a stream waiting at it, or keep both
workers busy at once; `MaxRecent` 1 and `Trim` 1 stand for 10000 and 1000. `Stats*` do
not check for deadlock: the worker waits for messages when there are none.

Fairness. Weak fairness of each call's next statement and of the worker's
loop: goroutines are scheduled, statements return, and PostgreSQL grants a free
lock. No fairness of failures. Weak fairness is enough for a wait that ends,
because every holder of a row, key or connection goes on by itself; this is
what `NoWaitCycle` is about. `Idempotency` adds that clients told "in progress"
send again and that entries run out; `Stats` that the stats worker is
restarted (`restart: unless-stopped`); `Loadgen` that a select which finds
`ctx.Done()` ready again and again takes it in the end (strong fairness: Go
chooses among ready cases at random). `Bootstrap` assumes the same of the
client's main goroutine, whose `Close` waits for a goroutine that has such a
select and whose calls wait for pods that come and go, and weak fairness of
the pods' own steps (the cluster restarts them), the workers and the lookups;
nothing of faults. `Durability` assumes that clients send again and that
completed keys run out; the server need not flush or crash.

### What the violated runs show

* `Ledger_permanent`: `correctBalance` reads the sum and then overwrites
  `amount` without having locked the row. A transfer committed in between is
  lost from `amount`; when its postings belong to the batch under way, nothing
  looks at the account again until it is next used. Ids also become visible
  out of order: the cursor follows the largest visible one and passes ids whose
  transactions are still open, which no later batch contains.
* `Ledger_negative`: the money such a correction brings back can be spent
  again; the journal of the account becomes negative, and the CHECK on `amount`
  makes all later corrections fail (`Ledger_ahead` shows that the worker goes on
  past them).
* `Stats_skip`: `continue` after a failed message does not hold its offset back;
  the next commit covers it. `GetTransaction` still finds the transfer in
  PostgreSQL (`ReadsFaithful`).

The models also contain behaviour of the code that no run singles out:

* `latest_posting_id` is the maximum of the ids, and does not move when a
  transaction with a smaller id commits. The pair read by
  `GetAccountBalanceSnapshot` is therefore no version of the balance, and the
  check may take a correct account for a wrong one; that is one way into
  `Ledger_permanent`.
* The completion of a key is stored by a goroutine that has 50 ms and one
  chance. When it fails, or the process ends, the key stays "in process" and
  every retry within ten minutes is told that the request is in progress
  (`NoLockout`: not for longer). `src/README.md` (line 285) promises the
  `transaction_id` of the original call for a repeated key; `SameAnswer` says so of
  every ok, and a repetition may still be refused as in progress.
* Three streams of the load generator share one `rand.Rand` without a lock
  (`RngPanic`).
* `CreateAccount` accepts currency codes that no transfer accepts; such accounts
  exist in `Gateway_cached`, and `CurrencyConsistent` shows that no transfer is
  recorded on them.

## Proofs

`GatewayProofs` proves, for any accounts, calls, requests, pool and BIGINT
limit that satisfy the assumptions of the modules:

* `Inductive`: `Spec => []LedgerInv`;
* `TypeCorrect`, `BalanceCorrect`, `LatestCorrect`: its consequences `TypeOK`,
  `BalanceMatchesPostings` and `LatestIsMax`;
* `FundsSafe`: `NoOverdraft`, inductive together with `LedgerInv`;
* `DeadlockFree`: `NoWaitCycle`;
* `RepliesCorrect`, `CurrenciesCorrect`: `ReplyFaithful` and `CurrencyConsistent`.

Assumptions: account ids are numbers up to `MaxUUID`; accounts, calls, the
worker and `None` are different; requests name accounts; client keys are not
the fresh keys of `CreateAccount`; opening balances fit in BIGINT.

`BalanceMatchesPostings` alone is not inductive: a commit installs a row
version computed earlier. What makes it right is `CallsInv`, which says of the
open transactions only what stays true whoever else writes to account rows:
`Control` (who has passed which check, and nothing is committed before the last
step), `Locks` (a row version belongs to exactly the transaction that holds the
row, so nobody changes the committed version under it), `Rows` (that version is
the committed one plus the call's own change), `Journal` (each open transaction
has exactly one posting per account it touched, under the id it remembers),
`KeyOwners`, `TxRows` (the row of an open transaction is the one it inserted,
and no row outlives a transaction that did not commit), `Priced` (a currency,
once checked, stays the row's) and `Told`. `LedgerInv` adds what holds while the
gateway is the only writer: `LatestBounds` and `BalanceMatchesPostings`.

Every step is then shown to be one of two kinds (`Books`): `Quiet`, which makes
no posting visible and installs no row version, or `Commits`, which makes one
posting per touched account visible and installs exactly its amount and the
larger of the two ids. `PrefixSumPoint` in `SumLemmas` turns that into the change
of the sum. The sum is a recursive function, so `SumLemmas` first shows, by the
least counterexample, that the recursion has a solution and what it computes.

`NoWaitCycle` follows from `Locks`: who waits for a row waits for a call that
asks for a larger one, so the call in the cycle that asks for the largest row
could not be waiting; a call that waits for a key holds no row yet and waits for
one that is past its INSERT (`KeyOwners`).

`LedgerProofs` is about the gateway and its neighbours. First the two
refinements: `ImplementsAtomic`
(`Spec => AtomicSpec`): under the mapping of `Gateway` (committed rows, committed
transactions) a commit is a whole opening or transfer of `AtomicLedger` and every
other step a stutter; the guards of the abstract transfer come from `Rows`,
`Priced`, `TxRows` and `NoOverdraft`. `CacheCorrect` (`CachedSpec => []CacheTrue`)
and `CacheTransparent` (`CachedSpec => ImplementsGateway`) need `CacheInv`: what a
call keeps in `seen` or is about to write (`fill`, `openFill`) belongs to a
committed row, whose currency never changes, and that currency is an int16, so
writing it as a number and reading it back loses nothing (`Narrowed`, proved for
any width because the provers do not cope with the numeral). The additional
assumption is that `None` is no number. `CachedLedger` concludes that what is
proved of the gateway holds with the cache in front.

Then it puts the posting worker beside the gateway, for any batch size, number of
version steps and failures. Its inductive invariant `WorkerInv` is
`CallsInv` (not `LedgerInv`: corrections do break the balance), `PostedRows` (a
visible posting belongs to a committed account, so the worker never reads or
writes a row that is still being opened), `KnownIds` (no version or remembered id
is ahead of the sequence), the worker's own bounds (`WorkerControl`),
`WorkerHoldsOneRow` and `WorkerVersion` (the version it has written is the sum it
read). The calls keep the worker's part (`GatewayKeepsWorker`). The
worker keeps theirs because it only writes rows no call holds (`CallsKeepInv`).
From it follow `LedgerTypeCorrect`, `WorkerRowCorrect`, `SessionsDeadlockFree` (the
worker waits only while it holds nothing, so it can be taken out of any cycle),
`DriftCorrect` and
`CallsCorrect`: replies, currencies and the lock order do not depend on what the
worker writes.

`DriftCorrect` is the action property `DriftOnlyByCorrection`. It lets one step
change how far a balance is from its postings: the COMMIT of a correction, for the
account it validates, and by no more than what was committed for that account
since `correctBalance` read its sum (`Missed`). By `Books` the steps of the gateway
move balance and postings together, during a correction too; the worker's other
steps move neither (`WorkerReads`). A call changes no row that the worker holds
(`RowsKept`), so its postings do not grow either (`LockedSum`): what is missed is
missed between the SELECT of the sum and the row lock, and the COMMIT installs
exactly that sum (`WorkerVersion`, `CorrectionDrift`). What `Ledger_permanent` loses
is lost in this window.

`IdempotencyProofs` proves `IdemInductive`, `AnswersAgree`, `OwnersExclusive` and
`CompletionKept` for any calls, keys and number of failures. `OneHolder` needs
`OwnedEntry` (an owned entry stays "in process", so nobody claims it again) and
`NotYetOwner`; `SameAnswer` needs `OneCommit`, `EntryTrue` and `AnswerTrue`.

`StatsProofs` proves `StatsInductive`, `ReadsCorrect` and `OffsetsCorrect` for any
transfers, partitions and calls. `OffsetCovers` needs `FetchedInOrder`: all that
was fetched is handled but the message in hand, which is the last one of its
partition. `ReadsFaithful` needs `OnlyCommitted` and `CallsTrue`.

`DurabilityProofs` proves `GhostFree`, `Spec => []NoGhostTransfer`, for any
accounts, transfers and number of crashes. The INSERT that checks the foreign
keys and the commit that logs the transfer are separate steps, so the invariant
needs `References`: between the two, both account rows are there. It holds
because rows only vanish in a crash, which also ends the transaction; and what a
crash leaves is a prefix of the log, in which every transfer still comes after
its accounts.

`UniqueAfterCrash` (`Spec => []SurvivorsUnique`) is about the other half: keys and
ids used again behind a crash. `UniqueInv` says of the log that the sequence is
logged in ascending order and every transfer's id was logged before the transfer
(`Ascending`, `Covered`), so that any prefix that has lost a sequence value has
lost the transfers that used it; and of the running server that its sequence is
between the ids in the log and the last logged value (`SequenceLogged`), that an
open transaction's key is not in the log (`KeysFree`) and its id is its own
(`DrawnOnce`).

`BootstrapProofs` proves `BootstrapInductive`, for any pods, workers, currencies,
batch size, faults and calls. `BootstrapInv` is one invariant per component, each
kept by its own steps and left alone by the others' (`PodsSame`, `ResolverSame`,
`ClientUnchanged`):

* `PodInv`: the closes each phase of a pod has deferred, and calls at work only
  while it serves or drains. From it follows `OpenWhileServing`: no handler works
  on a client that `main` has closed, since `GracefulStop` lets nobody by.
* `ResolverInv`: once Close is called no `ResolveNow` lookup is under way, and once
  it has returned nothing is.
* `ClientInv`: `SlotsAccounted` (the jobs of a batch not yet taken, those a worker
  is at, the results and the errors add up to the batch, so neither channel
  outgrows its capacity and no job ends twice), `PoolFaithful`, and what keeps it
  inductive, `Callers`: an account whose balance is being asked for has the
  batch's currency and is in nobody else's hands.

`BootstrapSound` and `CollectedAccounts` follow. The assumptions are the module's:
finitely many workers, currencies and opening balances that are natural numbers, and a main goroutine that is no worker.

`LoadgenProofs` proves `ReservationInductive` for any number of accounts, workers,
jobs and faults and any queue size. `PoolMatchesServer` sums over accounts' shares
in streams, queue and workers, so the lemmas come first: how the sums change when
one summand does (`SumToPoint`), when the queue grows or shrinks (`QueueAppend`,
`QueueTail`) and when a transfer moves money between two accounts (`MoveNet`,
`MoveSum`). It is not inductive alone. `ReservationInv` adds `StreamJobs`,
`QueuedJobs` and `WorkerJobs` (only a valid job is reserved, and a valid job on its
way always is; a performed transfer is a valid job's) and `MoneyKept`: transfers
move the gateway's money within the pool, so no account ever has as much as
`InvalidBalanceAmount` and the gateway performs no transfer without a reservation
(`OnlyValidAccepted`), the one place where `InvalidBalanceAssumption` is needed.
`ChannelDiscipline`, `PoolAgrees` and `SettledAtTheEnd` follow; the last because
nothing is left in stream, queue or worker once the last worker has seen the
closed and empty channel.

Only model-checked: liveness (`AllAnsweredFilled`, `CatchesUp`, `RepairsAhead`,
`NoLockout`, `EveryMessageTried`, `Shutdown`, `PodsEnd`, `BootstrapEnds`,
`LoadgenExits`, `TracksName`, `RetriedLands`), which is outside the prover's
reach. Every invariant, action property and refinement of a passing run is
proved.

## Not modelled

Rates, catch-up times, metrics and reports of the load generator (its final
report is written by a goroutine nobody waits for); what the posting worker
holds in memory while PostgreSQL crashes under it; the balance cache, which has
no caller; the metrics interceptor, logging, configuration and generated code;
nginx and the Kubernetes autoscaler beyond pods that come and go.

## What could come next

The posting worker's memory across a crash of PostgreSQL (`Durability` with
`PostingWorker`), and the safety halves of the liveness properties (variants
that decrease), which would leave only the fairness argument to TLC.
