------------------------------- MODULE Loadgen ------------------------------
(***************************************************************************)
(* The load generator: one goroutine per stream builds jobs and puts them  *)
(* into a bounded channel, workers send them to the gateway, and a local   *)
(* copy of the balances keeps the valid stream solvent (loadgen/service).  *)
(* It starts here after the bootstrap, with balances read from the server. *)
(*                                                                         *)
(* The gateway is external: a transfer happens or does not (AtomicLedger). *)
(* On a cancelled call it may still happen a little later; nothing in here *)
(* reads the server's balances, so it happens or not at once.              *)
(***************************************************************************)
EXTENDS Integers, Sequences, FiniteSets, Sums

CONSTANTS
    NumAccounts, CurrencyOf, Opening,  \* the pool: its accounts and their balances
    Streams,      \* the streams with a positive rate
    NumWorkers,   \* never less than 256
    None,
    QueueSize,    \* capacity of the channel
    MaxRecent, Trim,  \* 10000 and 1000: how many transaction ids are kept
    InvalidBalanceAmount,
    MaxJobs,      \* bound on jobs built
    MaxFaults     \* bound on failing calls

Accounts == 1 .. NumAccounts
Workers == 1 .. NumWorkers

ASSUME LoadgenAssumption ==
    /\ NumAccounts \in Nat /\ NumWorkers \in Nat \ {0}
    /\ Streams \subseteq {"valid", "invalid_balance", "invalid_currency", "stats"}
    /\ Opening \in [Accounts -> Nat]
    /\ {QueueSize, MaxRecent, Trim, InvalidBalanceAmount} \subseteq Nat \ {0}
    /\ Trim <= MaxRecent
    /\ {MaxJobs, MaxFaults} \subseteq Nat

\* "Always-invalid amount for the insufficient-funds stream": all the money the
\* pool starts with does not make it up.
ASSUME InvalidBalanceAssumption == SumTo(Opening, NumAccounts) < InvalidBalanceAmount

VARIABLES
    bal,          \* AccountPool: the local balances
    srv,          \* the gateway's balances
    lost,         \* what rolled-back transfers moved all the same (history)
    recent,       \* len(recentTxIDs)
    spc, sjob,    \* where each stream is, and the job it has built
    jobs, closed, \* the channel
    done,         \* ctx is done
    wpc, wjob, wres,  \* where each worker is, its job, what the call returned
    crashed,      \* the process died of a panic
    built, faults

streamVars == <<spc, sjob, built>>
workerVars == <<wpc, wjob, wres>>
vars == <<bal, srv, lost, recent, streamVars, jobs, closed, done, workerVars, crashed, faults>>

NoJob == [kind |-> "none", from |-> None, to |-> None, amount |-> 0, reserved |-> FALSE]
TransferJob(kind, f, t, n) == [kind |-> kind, from |-> f, to |-> t, amount |-> n, reserved |-> FALSE]

Init ==
    /\ bal = Opening /\ srv = Opening
    /\ lost = [a \in Accounts |-> 0]
    /\ recent = 0
    /\ spc = [s \in Streams |-> "wait"] /\ sjob = [s \in Streams |-> NoJob]
    /\ jobs = <<>> /\ closed = FALSE /\ done = FALSE
    /\ wpc = [w \in Workers |-> "idle"]
    /\ wjob = [w \in Workers |-> NoJob] /\ wres = [w \in Workers |-> "none"]
    /\ crashed = FALSE /\ built = 0 /\ faults = 0

Fault == faults < MaxFaults /\ faults' = faults + 1

\* A transfer of n from account f to account t, applied to balances b.
Move(b, f, t, n) == [b EXCEPT ![f] = @ - n, ![t] = @ + n]

RollbackValid(b, j) == Move(b, j.to, j.from, j.amount)

-----------------------------------------------------------------------------
(* runPoissonStream.                                                       *)

StreamTo(s, l, j) == spc' = [spc EXCEPT ![s] = l] /\ sjob' = [sjob EXCEPT ![s] = j]

UnderBuild == {s \in Streams : spc[s] \in {"build", "reserve"}}

\* The wait is over; a stream that is late does not look at ctx.
StartBuild(s) ==
    /\ spc[s] = "wait"
    /\ built + Cardinality(UnderBuild) < MaxJobs
    /\ StreamTo(s, "build", NoJob)
    /\ UNCHANGED <<bal, srv, lost, recent, built, jobs, closed, done, workerVars, crashed, faults>>

SameCurrencyPairs == {p \in Accounts \X Accounts : p[1] # p[2] /\ CurrencyOf[p[1]] = CurrencyOf[p[2]]}
DifferentCurrencyPairs == {p \in Accounts \X Accounts : CurrencyOf[p[1]] # CurrencyOf[p[2]]}

\* The pair and the amount are chosen by balances that may have changed when
\* ReserveValid looks at them again.
BuildValid ==
    /\ spc["valid"] = "build"
    /\ \E p \in SameCurrencyPairs : \E n \in 1..bal[p[1]] :
        /\ n = 1 \/ n < bal[p[1]]
        /\ StreamTo("valid", "reserve", TransferJob("valid", p[1], p[2], n))
    /\ UNCHANGED <<bal, srv, lost, recent, built, jobs, closed, done, workerVars, crashed, faults>>

ReserveValid ==
    /\ spc["valid"] = "reserve"
    /\ LET j == sjob["valid"] IN
        \/ /\ bal[j.from] >= j.amount
           /\ bal' = Move(bal, j.from, j.to, j.amount)
           /\ StreamTo("valid", "send", [j EXCEPT !.reserved = TRUE])
           /\ built' = built + 1
        \/ /\ bal[j.from] < j.amount
           /\ StreamTo("valid", "wait", NoJob)
           /\ UNCHANGED <<bal, built>>
    /\ UNCHANGED <<srv, lost, recent, jobs, closed, done, workerVars, crashed, faults>>

Built(s, j) ==
    /\ spc[s] = "build"
    /\ StreamTo(s, "send", j)
    /\ built' = built + 1
    /\ UNCHANGED <<bal, srv, lost, recent, jobs, closed, done, workerVars, crashed, faults>>

BuildInvalidBalance ==
    \E p \in SameCurrencyPairs :
        Built("invalid_balance", TransferJob("invalid_balance", p[1], p[2], InvalidBalanceAmount))

BuildInvalidCurrency ==
    \E p \in DifferentCurrencyPairs :
        Built("invalid_currency", TransferJob("invalid_currency", p[1], p[2], 1))

buildStats == recent > 0 /\ Built("stats", TransferJob("stats", None, None, 0))

\* No job: the attempts to find a funded or a mixed pair ran out, or there is
\* nothing to choose from.
BuildFails(s) ==
    /\ spc[s] = "build"
    /\ s = "invalid_balance" => SameCurrencyPairs = {}
    /\ s = "stats" => recent = 0
    /\ StreamTo(s, "wait", NoJob)
    /\ UNCHANGED <<bal, srv, lost, recent, built, jobs, closed, done, workerVars, crashed, faults>>

\* A send on a closed channel is a panic.
Dispatch(s) ==
    /\ spc[s] = "send"
    /\ \/ /\ ~closed /\ Len(jobs) < QueueSize
          /\ jobs' = Append(jobs, sjob[s])
          /\ StreamTo(s, "wait", NoJob)
          /\ UNCHANGED crashed
       \/ closed /\ crashed' = TRUE /\ UNCHANGED <<jobs, spc, sjob>>
    /\ UNCHANGED <<bal, srv, lost, recent, built, closed, done, workerVars, faults>>

\* Mutant: the job is dropped and its reservation stays.
StopStreamKeep(s) ==
    /\ done
    /\ spc[s] \in {"wait", "send"}
    /\ StreamTo(s, "stopped", NoJob)
    /\ UNCHANGED <<bal, srv, lost, recent, built, jobs, closed, done, workerVars, crashed, faults>>

\* ctx.Done() while waiting, or instead of the send (drop).
StopStream(s) ==
    /\ done
    /\ spc[s] \in {"wait", "send"}
    /\ bal' = IF sjob[s].reserved THEN RollbackValid(bal, sjob[s]) ELSE bal
    /\ StreamTo(s, "stopped", NoJob)
    /\ UNCHANGED <<srv, lost, recent, built, jobs, closed, done, workerVars, crashed, faults>>

-----------------------------------------------------------------------------
(* The workers: for job := range jobs { handleJob }.                       *)

WorkerTo(w, l, j, r) ==
    /\ wpc' = [wpc EXCEPT ![w] = l]
    /\ wjob' = [wjob EXCEPT ![w] = j]
    /\ wres' = [wres EXCEPT ![w] = r]

TakeJob(w) ==
    /\ wpc[w] = "idle" /\ jobs # <<>>
    /\ jobs' = Tail(jobs)
    /\ WorkerTo(w, "call", Head(jobs), "none")
    /\ UNCHANGED <<bal, srv, lost, recent, streamVars, closed, done, crashed, faults>>

\* Mutant: a worker leaves when ctx is done.
WorkerExitEarly(w) ==
    /\ wpc[w] = "idle" /\ (done \/ (closed /\ jobs = <<>>))
    /\ WorkerTo(w, "exit", NoJob, "none")
    /\ UNCHANGED <<bal, srv, lost, recent, streamVars, jobs, closed, done, crashed, faults>>

WorkerExit(w) ==
    /\ wpc[w] = "idle" /\ closed /\ jobs = <<>>
    /\ WorkerTo(w, "exit", NoJob, "none")
    /\ UNCHANGED <<bal, srv, lost, recent, streamVars, jobs, closed, done, crashed, faults>>

\* A call may fail because ctx is done, or for reasons of its own.
CallFails == (done /\ UNCHANGED faults) \/ Fault

\* The gateway's part of Transfer.
Accepts(j) == CurrencyOf[j.from] = CurrencyOf[j.to] /\ srv[j.from] >= j.amount

CreateTx(w) ==
    LET j == wjob[w] IN
    /\ wpc[w] = "call" /\ j.kind # "stats"
    /\ \/ /\ Accepts(j)
          /\ srv' = Move(srv, j.from, j.to, j.amount)
          /\ \/ WorkerTo(w, "answer", j, "ok") /\ UNCHANGED faults
             \/ WorkerTo(w, "answer", j, "lost") /\ CallFails
       \/ ~Accepts(j) /\ WorkerTo(w, "answer", j, "refused") /\ UNCHANGED <<srv, faults>>
       \/ WorkerTo(w, "answer", j, "error") /\ CallFails /\ UNCHANGED srv
    /\ UNCHANGED <<bal, lost, recent, streamVars, jobs, closed, done, crashed>>

GetTransaction(w) ==
    /\ wpc[w] = "call" /\ wjob[w].kind = "stats"
    /\ \/ WorkerTo(w, "answer", wjob[w], "ok") /\ UNCHANGED faults
       \/ WorkerTo(w, "answer", wjob[w], "error") /\ CallFails
    /\ UNCHANGED <<bal, srv, lost, recent, streamVars, jobs, closed, done, crashed>>

\* append to recentTxIDs, and cut it.
Remember(n) == IF n + 1 > MaxRecent THEN n + 1 - Trim ELSE n + 1

\* Mutant: a failed call is made again.
handleJobRetry(w) ==
    /\ wpc[w] = "answer"
    /\ WorkerTo(w, IF wres[w] = "ok" THEN "idle" ELSE "call",
                IF wres[w] = "ok" THEN NoJob ELSE wjob[w], "none")
    /\ UNCHANGED <<bal, srv, lost, recent, streamVars, jobs, closed, done, crashed, faults>>

handleJob(w) ==
    LET j == wjob[w] IN
    /\ wpc[w] = "answer"
    /\ \/ /\ j.reserved /\ wres[w] # "ok"
          /\ bal' = RollbackValid(bal, j)
          /\ lost' = IF wres[w] = "lost" THEN Move(lost, j.from, j.to, j.amount) ELSE lost
          /\ UNCHANGED recent
       \/ /\ j.reserved /\ wres[w] = "ok"
          /\ recent' = Remember(recent)
          /\ UNCHANGED <<bal, lost>>
       \/ ~j.reserved /\ UNCHANGED <<bal, lost, recent>>
    /\ WorkerTo(w, "idle", NoJob, "none")
    /\ UNCHANGED <<srv, streamVars, jobs, closed, done, crashed, faults>>

-----------------------------------------------------------------------------
(* runLoad.                                                                *)

\* SIGTERM, or LOAD_DURATION has passed.
Cancel ==
    /\ ~done /\ done' = TRUE
    /\ UNCHANGED <<bal, srv, lost, recent, streamVars, jobs, closed, workerVars, crashed, faults>>

\* Mutant: the streams are not waited for.
CloseJobsNow ==
    /\ done /\ ~closed
    /\ closed' = TRUE
    /\ UNCHANGED <<bal, srv, lost, recent, streamVars, jobs, done, workerVars, crashed, faults>>

\* streamsWg.Wait(); close(jobs)
CloseJobs ==
    /\ done /\ ~closed /\ \A s \in Streams : spc[s] = "stopped"
    /\ closed' = TRUE
    /\ UNCHANGED <<bal, srv, lost, recent, streamVars, jobs, done, workerVars, crashed, faults>>

\* The streams that share the builder and its rng.
Building == {s \in Streams \ {"stats"} : spc[s] = "build"}

\* rand.Rand is not safe for concurrent use: racing calls may index out of range.
RngPanic ==
    /\ Cardinality(Building) > 1
    /\ crashed' = TRUE
    /\ UNCHANGED <<bal, srv, lost, recent, streamVars, jobs, closed, done, workerVars, faults>>

-----------------------------------------------------------------------------

BuildStep(s) ==
    \/ s = "valid" /\ (BuildValid \/ ReserveValid)
    \/ s = "invalid_balance" /\ BuildInvalidBalance
    \/ s = "invalid_currency" /\ BuildInvalidCurrency
    \/ s = "stats" /\ buildStats
    \/ BuildFails(s)

StreamStep(s) == ~crashed /\ (StartBuild(s) \/ BuildStep(s) \/ Dispatch(s))
WorkerStep(w) ==
    ~crashed /\ (TakeJob(w) \/ CreateTx(w) \/ GetTransaction(w) \/ handleJob(w) \/ WorkerExit(w))

Finished == \A w \in Workers : wpc[w] = "exit"
Terminated == (crashed \/ (Finished /\ closed)) /\ UNCHANGED vars

Next ==
    \/ \E s \in Streams : StreamStep(s) \/ (~crashed /\ StopStream(s))
    \/ \E w \in Workers : WorkerStep(w)
    \/ ~crashed /\ (Cancel \/ CloseJobs \/ RngPanic)
    \/ Terminated

Spec == Init /\ [][Next]_vars

\* Goroutines run and calls return; a select that finds both ctx.Done() and
\* another case ready infinitely often takes ctx.Done() in the end.
FairSpec ==
    /\ Spec
    /\ \A s \in Streams : WF_vars(StreamStep(s)) /\ SF_vars(~crashed /\ StopStream(s))
    /\ \A w \in Workers : WF_vars(WorkerStep(w))
    /\ WF_vars(~crashed /\ CloseJobs)

-----------------------------------------------------------------------------

\* Every variable holds values of its kind; no more than MaxRecent ids are kept.
TypeOK ==
    /\ bal \in [Accounts -> Int] /\ srv \in [Accounts -> Nat] /\ lost \in [Accounts -> Int]
    /\ recent \in 0..MaxRecent
    /\ spc \in [Streams -> {"wait", "build", "reserve", "send", "stopped"}]
    /\ wpc \in [Workers -> {"idle", "call", "answer", "exit"}]
    /\ wres \in [Workers -> {"none", "ok", "lost", "refused", "error"}]
    /\ Len(jobs) <= QueueSize
    /\ {closed, done, crashed} \subseteq BOOLEAN
    /\ built \in 0..MaxJobs /\ faults \in 0..MaxFaults

\* jobs is closed only behind the last send.
NoSendOnClosed == closed => \A s \in Streams : spc[s] = "stopped"

\* Types, and a channel that is closed behind the last send and not before.
LoadInv == TypeOK /\ NoSendOnClosed

\* What a reserved job adds to the local balance of a.
Net(j, a) ==
    IF ~j.reserved THEN 0
    ELSE IF j.from = a THEN -j.amount ELSE IF j.to = a THEN j.amount ELSE 0

InStream(s, a) == IF s \in Streams THEN Net(sjob[s], a) ELSE 0
InStreams(a) ==
    InStream("valid", a) + InStream("invalid_balance", a)
        + InStream("invalid_currency", a) + InStream("stats", a)

InQueue(a) == SumTo([i \in DOMAIN jobs |-> Net(jobs[i], a)], Len(jobs))

InWorker(w, a) == IF wres[w] \in {"ok", "lost"} THEN 0 ELSE Net(wjob[w], a)
InWorkers(a) == SumTo([w \in Workers |-> InWorker(w, a)], NumWorkers)

\* What the jobs add that the gateway has not performed and nobody rolled back.
Outstanding(a) == InStreams(a) + InQueue(a) + InWorkers(a)

\* The pool agrees with the gateway up to the jobs that are under way and the
\* transfers that happened although their call failed: every reservation is
\* undone once, or kept, on whichever path its job ends.
PoolMatchesServer == \A a \in Accounts : bal[a] + lost[a] = srv[a] + Outstanding(a)

\* When runLoad returns no reservation is left open.
Settled == Finished => \A a \in Accounts : bal[a] + lost[a] = srv[a]

-----------------------------------------------------------------------------
(* The inductive invariant.                                                *)

Job == [kind : Streams \cup {"none"}, from : Accounts \cup {None}, to : Accounts \cup {None},
        amount : Nat, reserved : BOOLEAN]

\* A job the builders make: two accounts, and an amount or a pair of currencies
\* no gateway accepts unless the job is valid.
GoodJob(j) ==
    /\ j \in Job
    /\ j.kind \notin {"none", "stats"} => {j.from, j.to} \subseteq Accounts /\ j.from # j.to
    /\ j.kind = "invalid_balance" => j.amount = InvalidBalanceAmount
    /\ j.kind = "invalid_currency" => CurrencyOf[j.from] # CurrencyOf[j.to]
    /\ j.reserved => j.kind = "valid"

\* A job on its way to the gateway: if it is a valid one it is reserved.
SentJob(j) == GoodJob(j) /\ j.kind # "none" /\ (j.kind = "valid" => j.reserved)

StreamJobs ==
    \A s \in Streams :
        /\ spc[s] \in {"wait", "build", "stopped"} => sjob[s] = NoJob
        /\ spc[s] = "reserve" => GoodJob(sjob[s]) /\ sjob[s].kind = "valid" /\ ~sjob[s].reserved
        /\ spc[s] = "send" => SentJob(sjob[s])
        /\ sjob[s].reserved => s = "valid"

QueuedJobs == jobs \in Seq(Job) /\ \A i \in DOMAIN jobs : SentJob(jobs[i])

\* A worker without a job has none, and only a reserved transfer was performed.
WorkerJobs ==
    \A w \in Workers :
        /\ wpc[w] \in {"idle", "exit"} => wjob[w] = NoJob
        /\ wpc[w] \in {"call", "answer"} => SentJob(wjob[w])
        /\ wpc[w] # "answer" => wres[w] = "none"
        /\ wres[w] \in {"ok", "lost"} => wjob[w].kind \in {"valid", "stats"}
        /\ wpc[w] = "exit" => closed /\ jobs = <<>>

\* Transfers only move the gateway's money between accounts of the pool.
MoneyKept == SumTo(srv, NumAccounts) = SumTo(Opening, NumAccounts)

\* The bound on the jobs counts those under construction.
JobsBounded == built + Cardinality(UnderBuild) <= MaxJobs

ReservationInv ==
    /\ LoadInv /\ sjob \in [Streams -> Job] /\ wjob \in [Workers -> Job]
    /\ StreamJobs /\ QueuedJobs /\ WorkerJobs
    /\ MoneyKept /\ JobsBounded /\ PoolMatchesServer

-----------------------------------------------------------------------------

\* After SIGTERM or LOAD_DURATION runLoad returns: no stream, worker or wait
\* blocks for good, with the queue full or empty.
Shutdown == done ~> (crashed \/ Finished)
=============================================================================
