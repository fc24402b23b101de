---------------------------- MODULE LoadgenProofs ---------------------------
(***************************************************************************)
(* The load generator's reservations: ReservationInv is inductive, and the *)
(* channel discipline, the agreement of the pool with the gateway and the  *)
(* settled balances at the end follow from it.                             *)
(*                                                                         *)
(* A step of a stream and a step of a worker each touch one job.  The two  *)
(* frame lemmas say what such a step keeps whatever it does; an action's   *)
(* own lemma then only accounts for the balances it changes.               *)
(***************************************************************************)
EXTENDS Loadgen, SumLemmas, FiniteSetTheorems, TLAPS

-----------------------------------------------------------------------------
(* Jobs.                                                                   *)

\* A job is a record, whatever its fields.
LEMMA NoJobFacts ==
    /\ NoJob \in Job /\ ~NoJob.reserved /\ NoJob.kind = "none" /\ GoodJob(NoJob)
    /\ \A a \in Accounts : Net(NoJob, a) = 0
BY LoadgenAssumption DEF NoJob, Job, GoodJob, Net

\* What a job adds to a balance is a number, and nothing without a reservation.
LEMMA NetFacts ==
    ASSUME NEW j \in Job, NEW a \in Accounts
    PROVE  Net(j, a) \in Int /\ (~j.reserved => Net(j, a) = 0)
BY DEF Net, Job

\* What a transfer does to one account.
LEMMA MoveAt ==
    ASSUME NEW b \in [Accounts -> Int], NEW f \in Accounts, NEW t \in Accounts, f # t,
           NEW n \in Int, NEW a \in Accounts
    PROVE  /\ Move(b, f, t, n) \in [Accounts -> Int]
           /\ a = f => Move(b, f, t, n)[a] = b[a] - n
           /\ a = t => Move(b, f, t, n)[a] = b[a] + n
           /\ (a # f /\ a # t) => Move(b, f, t, n)[a] = b[a]
BY DEF Move

\* Reserving adds a job's Net to the balances, and rolling it back takes it away.
LEMMA MoveNet ==
    ASSUME NEW j \in Job, j.reserved, j.from \in Accounts, j.to \in Accounts, j.from # j.to,
           NEW b \in [Accounts -> Int], NEW a \in Accounts
    PROVE  /\ Move(b, j.from, j.to, j.amount) \in [Accounts -> Int]
           /\ Move(b, j.from, j.to, j.amount)[a] = b[a] + Net(j, a)
           /\ RollbackValid(b, j) \in [Accounts -> Int]
           /\ RollbackValid(b, j)[a] = b[a] - Net(j, a)
<1>1. j.amount \in Int /\ b[a] \in Int
  BY DEF Job
<1>2. Net(j, a) = IF j.from = a THEN -j.amount ELSE IF j.to = a THEN j.amount ELSE 0
  BY DEF Net
<1>3. /\ Move(b, j.from, j.to, j.amount) \in [Accounts -> Int]
      /\ a = j.from => Move(b, j.from, j.to, j.amount)[a] = b[a] - j.amount
      /\ a = j.to => Move(b, j.from, j.to, j.amount)[a] = b[a] + j.amount
      /\ (a # j.from /\ a # j.to) => Move(b, j.from, j.to, j.amount)[a] = b[a]
  BY <1>1, MoveAt
<1>4. /\ RollbackValid(b, j) \in [Accounts -> Int]
      /\ a = j.to => RollbackValid(b, j)[a] = b[a] - j.amount
      /\ a = j.from => RollbackValid(b, j)[a] = b[a] + j.amount
      /\ (a # j.to /\ a # j.from) => RollbackValid(b, j)[a] = b[a]
  BY <1>1, MoveAt DEF RollbackValid
<1> QED BY <1>1, <1>2, <1>3, <1>4

\* The jobs a reservation is behind, in a stream, in the queue or with a worker.
LEMMA ReservedJob ==
    ASSUME NEW j, GoodJob(j), j.reserved
    PROVE  /\ j \in Job /\ j.kind = "valid" /\ j.amount \in Nat
           /\ j.from \in Accounts /\ j.to \in Accounts /\ j.from # j.to
BY DEF GoodJob, Job

\* Every stream and every worker holds a job or NoJob.
LEMMA HeldJobs ==
    ASSUME ReservationInv
    PROVE  /\ \A s \in Streams : GoodJob(sjob[s])
           /\ \A w \in Workers : GoodJob(wjob[w])
<1>1. ASSUME NEW s \in Streams PROVE GoodJob(sjob[s])
  <2>1. spc[s] \in {"wait", "build", "reserve", "send", "stopped"}
    BY DEF ReservationInv, LoadInv, TypeOK
  <2>2. CASE spc[s] \in {"wait", "build", "stopped"}
    <3>1. sjob[s] = NoJob
      BY <2>2 DEF ReservationInv, StreamJobs
    <3> QED BY <3>1, NoJobFacts
  <2>3. CASE spc[s] \in {"reserve", "send"}
    BY <2>3 DEF ReservationInv, StreamJobs, SentJob
  <2> QED BY <2>1, <2>2, <2>3
<1>2. ASSUME NEW w \in Workers PROVE GoodJob(wjob[w])
  <2>1. wpc[w] \in {"idle", "call", "answer", "exit"}
    BY DEF ReservationInv, LoadInv, TypeOK
  <2>2. CASE wpc[w] \in {"idle", "exit"}
    <3>1. wjob[w] = NoJob
      BY <2>2 DEF ReservationInv, WorkerJobs
    <3> QED BY <3>1, NoJobFacts
  <2>3. CASE wpc[w] \in {"call", "answer"}
    BY <2>3 DEF ReservationInv, WorkerJobs, SentJob
  <2> QED BY <2>1, <2>2, <2>3
<1> QED BY <1>1, <1>2

-----------------------------------------------------------------------------
(* The reservations in one place each: a stream, the queue, a worker.      *)

\* One stream's job changes.
LEMMA StreamsStep ==
    ASSUME sjob \in [Streams -> Job], NEW s \in Streams, NEW j \in Job,
           sjob' = [sjob EXCEPT ![s] = j], NEW a \in Accounts
    PROVE  /\ InStreams(a) \in Int
           /\ InStreams(a)' = InStreams(a) + (Net(j, a) - Net(sjob[s], a))
<1> DEFINE old(x) == IF x \in Streams THEN Net(sjob[x], a) ELSE 0
           new(x) == IF x \in Streams THEN Net(sjob'[x], a) ELSE 0
<1>1. \A x : old(x) \in Int
  BY NetFacts
<1>2. new(s) = Net(j, a) /\ old(s) = Net(sjob[s], a) /\ Net(j, a) \in Int
  BY NetFacts
<1>3. \A x : x # s => new(x) = old(x)
  OBVIOUS
<1>4. s \in {"valid", "invalid_balance", "invalid_currency", "stats"}
  BY LoadgenAssumption
<1>5. InStreams(a) = old("valid") + old("invalid_balance") + old("invalid_currency") + old("stats")
  BY DEF InStreams, InStream
<1>6. InStreams(a)' = new("valid") + new("invalid_balance") + new("invalid_currency") + new("stats")
  BY DEF InStreams, InStream, Net
<1> HIDE DEF old, new
<1>7. CASE s = "valid"
  BY <1>1, <1>2, <1>3, <1>5, <1>6, <1>7
<1>8. CASE s = "invalid_balance"
  BY <1>1, <1>2, <1>3, <1>5, <1>6, <1>8
<1>9. CASE s = "invalid_currency"
  BY <1>1, <1>2, <1>3, <1>5, <1>6, <1>9
<1>10. CASE s = "stats"
  BY <1>1, <1>2, <1>3, <1>5, <1>6, <1>10
<1> QED BY <1>4, <1>7, <1>8, <1>9, <1>10

\* The queue's and the workers' shares are numbers.
LEMMA SharesInt ==
    ASSUME ReservationInv, NEW a \in Accounts
    PROVE  /\ InStreams(a) \in Int /\ InQueue(a) \in Int /\ InWorkers(a) \in Int
           /\ [i \in 1 .. Len(jobs) |-> Net(jobs[i], a)] \in [1 .. Len(jobs) -> Int]
           /\ [w \in Workers |-> InWorker(w, a)] \in [1 .. NumWorkers -> Int]
<1>1. InStreams(a) \in Int
  <2>1. \A s \in Streams : Net(sjob[s], a) \in Int
    BY NetFacts DEF ReservationInv
  <2> QED BY <2>1 DEF InStreams, InStream
<1>2. jobs \in Seq(Job) /\ Len(jobs) \in Nat /\ DOMAIN jobs = 1 .. Len(jobs)
  BY DEF ReservationInv, QueuedJobs
<1>3. [i \in 1 .. Len(jobs) |-> Net(jobs[i], a)] \in [1 .. Len(jobs) -> Int]
  <2>1. \A i \in 1 .. Len(jobs) : jobs[i] \in Job
    BY <1>2
  <2> QED BY <2>1, NetFacts
<1>4. InQueue(a) \in Int
  BY <1>2, <1>3, SumToDef DEF InQueue
<1>5. [w \in Workers |-> InWorker(w, a)] \in [1 .. NumWorkers -> Int]
  BY NetFacts DEF ReservationInv, InWorker, Workers
<1>6. InWorkers(a) \in Int
  BY <1>5, SumToDef, LoadgenAssumption DEF InWorkers
<1> QED BY <1>1, <1>3, <1>4, <1>5, <1>6

\* A job enters the queue.
LEMMA QueueAppend ==
    ASSUME ReservationInv, NEW j \in Job, jobs' = Append(jobs, j), NEW a \in Accounts
    PROVE  InQueue(a)' = InQueue(a) + Net(j, a)
<1> DEFINE n == Len(jobs)
           f == [i \in 1 .. n |-> Net(jobs[i], a)]
           g == [i \in 1 .. n + 1 |-> Net(jobs'[i], a)]
<1>1. jobs \in Seq(Job) /\ n \in Nat /\ DOMAIN jobs = 1 .. n
  BY DEF ReservationInv, QueuedJobs
<1>2. /\ Len(jobs') = n + 1 /\ DOMAIN jobs' = 1 .. n + 1
      /\ jobs'[n + 1] = j /\ \A i \in 1 .. n : jobs'[i] = jobs[i] /\ jobs[i] \in Job
  BY <1>1
<1>3. f \in [1 .. n -> Int]
  BY SharesInt
<1>4. g \in [1 .. n + 1 -> Int]
  <2>1. \A i \in 1 .. n + 1 : jobs'[i] \in Job
    BY <1>1, <1>2
  <2> QED BY <2>1, NetFacts
<1>5. (\A i \in 1 .. n : g[i] = f[i]) /\ g[n + 1] = Net(j, a)
  <2>1. n + 1 \in 1 .. n + 1 /\ \A i \in 1 .. n : i \in 1 .. n + 1
    BY <1>1
  <2> QED BY <1>2, <2>1
<1>6. InQueue(a) = SumTo(f, n)
  BY <1>1 DEF InQueue
<1>7. InQueue(a)' = SumTo(g, n + 1)
  BY <1>2 DEF InQueue, Net
<1> HIDE DEF f, g, n
<1> QED BY <1>1, <1>3, <1>4, <1>5, <1>6, <1>7, SumToAppend

\* A job leaves the queue.
LEMMA QueueTail ==
    ASSUME ReservationInv, jobs # <<>>, jobs' = Tail(jobs), NEW a \in Accounts
    PROVE  InQueue(a) = Net(Head(jobs), a) + InQueue(a)' /\ InQueue(a)' \in Int
<1> DEFINE n == Len(jobs) - 1
           f == [i \in 1 .. n + 1 |-> Net(jobs[i], a)]
           g == [i \in 1 .. n |-> Net(jobs'[i], a)]
<1>1. jobs \in Seq(Job) /\ n \in Nat /\ Len(jobs) = n + 1 /\ DOMAIN jobs = 1 .. n + 1
  BY DEF ReservationInv, QueuedJobs
<1>2. /\ Len(jobs') = n /\ DOMAIN jobs' = 1 .. n
      /\ Head(jobs) = jobs[1] /\ \A i \in 1 .. n : jobs'[i] = jobs[i + 1]
  BY <1>1
<1>3. f \in [1 .. n + 1 -> Int]
  BY <1>1, SharesInt
<1>4. 1 \in 1 .. n + 1 /\ \A i \in 1 .. n : i + 1 \in 1 .. n + 1
  BY <1>1
<1>5. (\A i \in 1 .. n : g[i] = f[i + 1]) /\ f[1] = Net(Head(jobs), a)
  BY <1>2, <1>4
<1>6. g \in [1 .. n -> Int]
  BY <1>3, <1>4, <1>5
<1>7. InQueue(a) = SumTo(f, n + 1)
  BY <1>1 DEF InQueue
<1>8. InQueue(a)' = SumTo(g, n)
  BY <1>2 DEF InQueue, Net
<1> HIDE DEF f, g, n
<1> QED BY <1>1, <1>3, <1>5, <1>6, <1>7, <1>8, SumToTail, SumToDef

\* One worker's job or answer changes.
LEMMA WorkersStep ==
    ASSUME ReservationInv, NEW w \in Workers, NEW j \in Job, NEW l, NEW r,
           WorkerTo(w, l, j, r), NEW a \in Accounts
    PROVE  InWorkers(a)' = InWorkers(a)
                + ((IF r \in {"ok", "lost"} THEN 0 ELSE Net(j, a)) - InWorker(w, a))
<1> DEFINE f == [x \in Workers |-> InWorker(x, a)]
           g == [x \in Workers |-> InWorker(x, a)']
<1>1. f \in [1 .. NumWorkers -> Int] /\ NumWorkers \in Nat /\ w \in 1 .. NumWorkers
  BY SharesInt, LoadgenAssumption DEF Workers
<1>2. /\ wjob' = [wjob EXCEPT ![w] = j] /\ wres' = [wres EXCEPT ![w] = r]
      /\ wjob \in [Workers -> Job] /\ DOMAIN wres = Workers
  BY DEF WorkerTo, ReservationInv, LoadInv, TypeOK
<1>3. g[w] = IF r \in {"ok", "lost"} THEN 0 ELSE Net(j, a)
  <2>1. InWorker(w, a)' = IF wres'[w] \in {"ok", "lost"} THEN 0 ELSE Net(wjob'[w], a)
    BY DEF InWorker, Net
  <2>2. wres'[w] = r /\ wjob'[w] = j
    BY <1>2
  <2> QED BY <2>1, <2>2
<1>4. \A x \in Workers : x # w => g[x] = f[x]
  <2> SUFFICES ASSUME NEW x \in Workers, x # w PROVE InWorker(x, a)' = InWorker(x, a)
    OBVIOUS
  <2>1. InWorker(x, a)' = IF wres'[x] \in {"ok", "lost"} THEN 0 ELSE Net(wjob'[x], a)
    BY DEF InWorker, Net
  <2>2. wres'[x] = wres[x] /\ wjob'[x] = wjob[x]
    BY <1>2
  <2> QED BY <2>1, <2>2 DEF InWorker
<1>5. f[w] = InWorker(w, a) /\ g[w] \in Int
  BY <1>3, NetFacts
<1>6. g \in [1 .. NumWorkers -> Int]
  <2>1. \A x \in Workers : g[x] \in Int
    BY <1>1, <1>4, <1>5 DEF Workers
  <2> QED BY <2>1 DEF Workers
<1>7. InWorkers(a) = SumTo(f, NumWorkers)
  BY DEF InWorkers
<1>8. InWorkers(a)' = SumTo(g, NumWorkers)
  BY DEF InWorkers
<1> HIDE DEF f, g
<1>9. SumTo(g, NumWorkers) = SumTo(f, NumWorkers) + (g[w] - f[w])
  BY <1>1, <1>4, <1>6, SumToPoint DEF Workers
<1> QED BY <1>3, <1>5, <1>7, <1>8, <1>9

-----------------------------------------------------------------------------
(* What a step of a stream keeps.                                          *)

\* The job a stream may hold at l.
Fits(s, l, j) ==
    /\ l \in {"wait", "build", "reserve", "send", "stopped"}
    /\ l \in {"wait", "build", "stopped"} => j = NoJob
    /\ l = "reserve" => GoodJob(j) /\ j.kind = "valid" /\ ~j.reserved
    /\ l = "send" => SentJob(j)
    /\ j.reserved => s = "valid"

\* A job that fits is a job.
LEMMA FitsJob == ASSUME NEW s, NEW l, NEW j, Fits(s, l, j) PROVE GoodJob(j) /\ j \in Job
BY NoJobFacts DEF Fits, SentJob, GoodJob

\* Only one stream moves; the workers see at most a longer queue.
LEMMA StreamFrame ==
    ASSUME ReservationInv, NEW s \in Streams, NEW l, NEW j, Fits(s, l, j),
           spc[s] # "stopped", StreamTo(s, l, j),
           UNCHANGED <<srv, lost, recent, closed, done, workerVars, faults>>
    PROVE  /\ ~closed /\ ~closed'
           /\ spc' \in [Streams -> {"wait", "build", "reserve", "send", "stopped"}]
           /\ sjob' \in [Streams -> Job] /\ wjob' \in [Workers -> Job]
           /\ StreamJobs' /\ WorkerJobs' /\ MoneyKept'
           /\ \A a \in Accounts : InWorkers(a)' = InWorkers(a)
           /\ \A a \in Accounts : InStreams(a)' = InStreams(a) + (Net(j, a) - Net(sjob[s], a))
<1>1. ~closed /\ closed' = closed
  BY DEF ReservationInv, LoadInv, NoSendOnClosed
<1>2. /\ spc' = [spc EXCEPT ![s] = l] /\ sjob' = [sjob EXCEPT ![s] = j]
      /\ spc \in [Streams -> {"wait", "build", "reserve", "send", "stopped"}]
      /\ sjob \in [Streams -> Job] /\ j \in Job
      /\ l \in {"wait", "build", "reserve", "send", "stopped"}
  BY FitsJob DEF StreamTo, ReservationInv, LoadInv, TypeOK, Fits
<1>3. wpc' = wpc /\ wjob' = wjob /\ wres' = wres
  BY DEF workerVars
<1>4. spc' \in [Streams -> {"wait", "build", "reserve", "send", "stopped"}]
  BY <1>2
<1>5. sjob' \in [Streams -> Job] /\ wjob' \in [Workers -> Job]
  BY <1>2, <1>3 DEF ReservationInv
<1>6. StreamJobs'
  <2>1. ASSUME NEW x \in Streams
        PROVE  /\ spc'[x] \in {"wait", "build", "stopped"} => sjob'[x] = NoJob
               /\ spc'[x] = "reserve" => GoodJob(sjob'[x]) /\ sjob'[x].kind = "valid" /\ ~sjob'[x].reserved
               /\ spc'[x] = "send" => SentJob(sjob'[x])
               /\ sjob'[x].reserved => x = "valid"
    <3>1. CASE x = s
      <4>1. spc'[x] = l /\ sjob'[x] = j
        BY <1>2, <3>1
      <4> QED BY <3>1, <4>1 DEF Fits
    <3>2. CASE x # s
      <4>1. spc'[x] = spc[x] /\ sjob'[x] = sjob[x]
        BY <1>2, <3>2
      <4> QED BY <4>1 DEF ReservationInv, StreamJobs
    <3> QED BY <3>1, <3>2
  <2> QED BY <2>1, Zenon DEF StreamJobs, GoodJob, SentJob
<1>7. WorkerJobs'
  <2>1. \A w \in Workers : wpc[w] # "exit"
    BY <1>1 DEF ReservationInv, WorkerJobs
  <2>2. \A w \in Workers :
          /\ wpc[w] \in {"idle", "exit"} => wjob[w] = NoJob
          /\ wpc[w] \in {"call", "answer"} => SentJob(wjob[w])
          /\ wpc[w] # "answer" => wres[w] = "none"
          /\ wres[w] \in {"ok", "lost"} => wjob[w].kind \in {"valid", "stats"}
    BY DEF ReservationInv, WorkerJobs
  <2> QED BY <1>3, <2>1, <2>2 DEF WorkerJobs
<1>8. MoneyKept'
  BY DEF ReservationInv, MoneyKept
<1>9. ASSUME NEW a \in Accounts PROVE InWorkers(a)' = InWorkers(a)
  BY <1>3 DEF InWorkers, InWorker
<1>10. ASSUME NEW a \in Accounts PROVE InStreams(a)' = InStreams(a) + (Net(j, a) - Net(sjob[s], a))
  BY <1>2, StreamsStep
<1> QED BY <1>1, <1>4, <1>5, <1>6, <1>7, <1>8, <1>9, <1>10

\* The streams are few, so those building can be counted.
LEMMA UnderBuildFinite ==
    IsFiniteSet(UnderBuild) /\ Cardinality(UnderBuild) \in Nat
<1>1. IsFiniteSet({"valid", "invalid_balance", "invalid_currency", "stats"})
  <2>1. IsFiniteSet({"valid"})
    BY FS_Singleton
  <2>2. IsFiniteSet({"valid"} \cup {"invalid_balance"})
    BY <2>1, FS_AddElement
  <2>3. IsFiniteSet({"valid"} \cup {"invalid_balance"} \cup {"invalid_currency"})
    BY <2>2, FS_AddElement
  <2>4. IsFiniteSet({"valid"} \cup {"invalid_balance"} \cup {"invalid_currency"} \cup {"stats"})
    BY <2>3, FS_AddElement
  <2>5. {"valid"} \cup {"invalid_balance"} \cup {"invalid_currency"} \cup {"stats"}
            = {"valid", "invalid_balance", "invalid_currency", "stats"}
    OBVIOUS
  <2> QED BY <2>4, <2>5
<1>2. UnderBuild \subseteq {"valid", "invalid_balance", "invalid_currency", "stats"}
  BY LoadgenAssumption DEF UnderBuild
<1>3. IsFiniteSet(UnderBuild)
  BY <1>1, <1>2, FS_Subset
<1> QED BY <1>3, FS_CardinalityType

\* The streams building after one moved to l.
LEMMA UnderBuildStep ==
    ASSUME ReservationInv, NEW s \in Streams, NEW l, NEW j, StreamTo(s, l, j)
    PROVE  /\ l \in {"build", "reserve"} /\ spc[s] \in {"build", "reserve"} =>
                    Cardinality(UnderBuild)' = Cardinality(UnderBuild)
           /\ l \in {"build", "reserve"} /\ spc[s] \notin {"build", "reserve"} =>
                    Cardinality(UnderBuild)' = Cardinality(UnderBuild) + 1
           /\ l \notin {"build", "reserve"} /\ spc[s] \in {"build", "reserve"} =>
                    Cardinality(UnderBuild)' = Cardinality(UnderBuild) - 1
           /\ l \notin {"build", "reserve"} /\ spc[s] \notin {"build", "reserve"} =>
                    Cardinality(UnderBuild)' = Cardinality(UnderBuild)
<1> DEFINE U == UnderBuild
           V == UnderBuild'
<1>1. /\ U = {x \in Streams : spc[x] \in {"build", "reserve"}}
      /\ V = {x \in Streams : spc'[x] \in {"build", "reserve"}}
  BY DEF UnderBuild
<1>2. spc'[s] = l /\ \A x \in Streams : x # s => spc'[x] = spc[x]
  BY DEF StreamTo, ReservationInv, LoadInv, TypeOK
<1>3. IsFiniteSet(U)
  BY UnderBuildFinite
<1>4. Cardinality(UnderBuild)' = Cardinality(V)
  OBVIOUS
<1> HIDE DEF U, V
<1>5. CASE l \in {"build", "reserve"}
  <2>1. V = U \cup {s}
    BY <1>1, <1>2, <1>5
  <2>2. s \in U <=> spc[s] \in {"build", "reserve"}
    BY <1>1
  <2> QED BY <1>3, <1>4, <1>5, <2>1, <2>2, FS_AddElement DEF U
<1>6. CASE l \notin {"build", "reserve"}
  <2>1. V = U \ {s}
    BY <1>1, <1>2, <1>6
  <2>2. s \in U <=> spc[s] \in {"build", "reserve"}
    BY <1>1
  <2> QED BY <1>3, <1>4, <1>6, <2>1, <2>2, FS_RemoveElement DEF U
<1> QED BY <1>5, <1>6

\* What remains to be shown of a step of a stream: the bounds, and that the
\* balances moved with the reservations.
LEMMA StreamStepKeeps ==
    ASSUME ReservationInv, NEW s \in Streams, NEW l, NEW j, Fits(s, l, j),
           spc[s] # "stopped", StreamTo(s, l, j),
           UNCHANGED <<srv, lost, recent, closed, done, crashed, workerVars, faults>>,
           bal' \in [Accounts -> Int], built' \in Nat, JobsBounded',
           QueuedJobs', Len(jobs') <= QueueSize,
           \A a \in Accounts : bal'[a] - bal[a]
                = (Net(j, a) - Net(sjob[s], a)) + (InQueue(a)' - InQueue(a)),
           \A a \in Accounts : InQueue(a)' \in Int
    PROVE  ReservationInv'
<1>1. /\ ~closed /\ ~closed'
      /\ spc' \in [Streams -> {"wait", "build", "reserve", "send", "stopped"}]
      /\ sjob' \in [Streams -> Job] /\ wjob' \in [Workers -> Job]
      /\ StreamJobs' /\ WorkerJobs' /\ MoneyKept'
      /\ \A a \in Accounts : InWorkers(a)' = InWorkers(a)
      /\ \A a \in Accounts : InStreams(a)' = InStreams(a) + (Net(j, a) - Net(sjob[s], a))
  BY StreamFrame
<1>2. TypeOK /\ wpc' = wpc /\ wjob' = wjob /\ wres' = wres
  BY DEF ReservationInv, LoadInv, workerVars
<1>3. built' \in 0 .. MaxJobs
  <2>1. (Cardinality(UnderBuild) \in Nat)'
    BY UnderBuildFinite, PTL
  <2>2. built' + Cardinality(UnderBuild)' <= MaxJobs
    BY DEF JobsBounded
  <2> QED BY <2>1, <2>2, LoadgenAssumption
<1>4. TypeOK'
  BY <1>1, <1>2, <1>3 DEF TypeOK
<1>5. NoSendOnClosed'
  BY <1>1 DEF NoSendOnClosed
<1>6. PoolMatchesServer'
  <2> SUFFICES ASSUME NEW a \in Accounts
               PROVE  bal'[a] + lost'[a] = srv'[a] + (InStreams(a)' + InQueue(a)' + InWorkers(a)')
    BY DEF PoolMatchesServer, Outstanding
  <2>1. bal[a] + lost[a] = srv[a] + (InStreams(a) + InQueue(a) + InWorkers(a))
    BY DEF ReservationInv, PoolMatchesServer, Outstanding
  <2>2. /\ InStreams(a) \in Int /\ InQueue(a) \in Int /\ InWorkers(a) \in Int /\ InQueue(a)' \in Int
        /\ bal[a] \in Int /\ lost[a] \in Int /\ srv[a] \in Int /\ bal'[a] \in Int
        /\ Net(j, a) \in Int /\ Net(sjob[s], a) \in Int
    BY <1>2, SharesInt, NetFacts, FitsJob DEF TypeOK, ReservationInv
  <2>3. lost'[a] = lost[a] /\ srv'[a] = srv[a] /\ InWorkers(a)' = InWorkers(a)
        /\ InStreams(a)' = InStreams(a) + (Net(j, a) - Net(sjob[s], a))
        /\ bal'[a] - bal[a] = (Net(j, a) - Net(sjob[s], a)) + (InQueue(a)' - InQueue(a))
    BY <1>1
  <2> DEFINE b == bal[a]
             k == lost[a]
             v == srv[a]
             x == InStreams(a)
             y == InQueue(a)
             z == InWorkers(a)
             c == bal'[a]
             u == InQueue(a)'
             d == Net(j, a) - Net(sjob[s], a)
  <2>4. /\ b \in Int /\ k \in Int /\ v \in Int /\ x \in Int /\ y \in Int /\ z \in Int
        /\ c \in Int /\ u \in Int /\ d \in Int
    BY <2>2
  <2>5. b + k = v + (x + y + z) /\ c - b = d + (u - y)
    BY <2>1, <2>3
  <2>6. lost'[a] = k /\ srv'[a] = v /\ InWorkers(a)' = z /\ InStreams(a)' = x + d
    BY <2>3
  <2>7. bal'[a] = c /\ InQueue(a)' = u
    OBVIOUS
  <2> HIDE DEF b, k, v, x, y, z, c, u, d
  <2>8. c + k = v + ((x + d) + u + z)
    BY <2>4, <2>5
  <2> QED BY <2>6, <2>7, <2>8
<1> QED BY <1>1, <1>4, <1>5, <1>6 DEF ReservationInv, LoadInv

\* The same when the queue is left alone.
LEMMA QueueKept ==
    ASSUME ReservationInv, jobs' = jobs
    PROVE  /\ QueuedJobs' /\ Len(jobs') <= QueueSize
           /\ \A a \in Accounts : InQueue(a)' = InQueue(a) /\ InQueue(a) \in Int
<1>1. QueuedJobs'
  BY DEF ReservationInv, QueuedJobs
<1>2. Len(jobs') <= QueueSize
  BY DEF ReservationInv, LoadInv, TypeOK
<1>3. \A a \in Accounts : InQueue(a)' = InQueue(a)
  BY DEF InQueue
<1> QED BY <1>1, <1>2, <1>3, SharesInt

-----------------------------------------------------------------------------
(* The streams' steps.                                                     *)

\* A step that neither reserves nor rolls back, and leaves the channel alone.
LEMMA QuietStep ==
    ASSUME ReservationInv, NEW s \in Streams, NEW l, NEW j, Fits(s, l, j),
           spc[s] # "stopped", StreamTo(s, l, j), ~j.reserved, ~sjob[s].reserved,
           UNCHANGED <<bal, srv, lost, recent, jobs, closed, done, crashed, workerVars, faults>>,
           built' \in Nat, JobsBounded'
    PROVE  ReservationInv'
<1>1. bal \in [Accounts -> Int] /\ bal' = bal
  BY DEF ReservationInv, LoadInv, TypeOK
<1>2. /\ QueuedJobs' /\ Len(jobs') <= QueueSize
      /\ \A a \in Accounts : InQueue(a)' = InQueue(a) /\ InQueue(a) \in Int
  BY QueueKept
<1>3. ASSUME NEW a \in Accounts
      PROVE  bal'[a] - bal[a] = (Net(j, a) - Net(sjob[s], a)) + (InQueue(a)' - InQueue(a))
  <2>1. sjob[s] \in Job /\ j \in Job
    BY FitsJob DEF ReservationInv
  <2>2. Net(j, a) = 0 /\ Net(sjob[s], a) = 0
    BY <2>1, NetFacts
  <2>3. bal'[a] = bal[a] /\ bal[a] \in Int /\ InQueue(a)' = InQueue(a) /\ InQueue(a) \in Int
    BY <1>1, <1>2
  <2> QED BY <2>2, <2>3
<1>4. UNCHANGED <<srv, lost, recent, closed, done, crashed, workerVars, faults>>
  OBVIOUS
<1>5. \A a \in Accounts : InQueue(a)' \in Int
  BY <1>2
<1>6. bal' \in [Accounts -> Int]
  BY <1>1
<1> QED BY <1>2, <1>3, <1>4, <1>5, <1>6, StreamStepKeeps

\* How the bound moves with the streams under construction.
LEMMA BoundStep ==
    ASSUME ReservationInv, NEW s \in Streams, NEW l, NEW j, StreamTo(s, l, j)
    PROVE  /\ built \in Nat /\ Cardinality(UnderBuild) \in Nat /\ MaxJobs \in Nat
           /\ (built' = built /\ l \in {"build", "reserve"} /\ spc[s] \in {"build", "reserve"})
                => JobsBounded' /\ built' \in Nat
           /\ (built' = built /\ l \notin {"build", "reserve"}) => JobsBounded' /\ built' \in Nat
           /\ (built' = built + 1 /\ l \notin {"build", "reserve"} /\ spc[s] \in {"build", "reserve"})
                => JobsBounded' /\ built' \in Nat
           /\ (built' = built /\ built + Cardinality(UnderBuild) < MaxJobs
                /\ l \in {"build", "reserve"} /\ spc[s] \notin {"build", "reserve"})
                => JobsBounded' /\ built' \in Nat
<1> DEFINE n == Cardinality(UnderBuild)
           m == Cardinality(UnderBuild)'
           in == l \in {"build", "reserve"}
           was == spc[s] \in {"build", "reserve"}
<1>1. built \in Nat /\ n \in Nat /\ MaxJobs \in Nat /\ built + n <= MaxJobs
  BY UnderBuildFinite, LoadgenAssumption DEF ReservationInv, LoadInv, TypeOK, JobsBounded
<1>2. JobsBounded' <=> built' + m <= MaxJobs
  BY DEF JobsBounded
<1>3. /\ in /\ was => m = n
      /\ in /\ ~was => m = n + 1
      /\ ~in /\ was => m = n - 1
      /\ ~in /\ ~was => m = n
  BY UnderBuildStep
<1> HIDE DEF n, m, in, was
<1>4. /\ (built' = built /\ in /\ was) => built' + m <= MaxJobs /\ built' \in Nat
      /\ (built' = built /\ ~in) => built' + m <= MaxJobs /\ built' \in Nat
      /\ (built' = built + 1 /\ ~in /\ was) => built' + m <= MaxJobs /\ built' \in Nat
      /\ (built' = built /\ built + n < MaxJobs /\ in /\ ~was)
            => built' + m <= MaxJobs /\ built' \in Nat
  BY <1>1, <1>3
<1> QED BY <1>1, <1>2, <1>4 DEF n, in, was

\* A stream waits for its next job.
LEMMA StartBuildKeeps ==
    ASSUME ReservationInv, NEW s \in Streams, StartBuild(s) PROVE ReservationInv'
<1>1. /\ spc[s] = "wait" /\ built + Cardinality(UnderBuild) < MaxJobs
      /\ StreamTo(s, "build", NoJob) /\ built' = built
      /\ UNCHANGED <<bal, srv, lost, recent, jobs, closed, done, crashed, workerVars, faults>>
  BY DEF StartBuild
<1>2. sjob[s] = NoJob
  BY <1>1 DEF ReservationInv, StreamJobs
<1>3. Fits(s, "build", NoJob)
  BY NoJobFacts DEF Fits
<1>4. JobsBounded' /\ built' \in Nat
  BY <1>1, BoundStep
<1> QED BY <1>1, <1>2, <1>3, <1>4, NoJobFacts, QuietStep

\* No job came of it.
LEMMA BuildFailsKeeps ==
    ASSUME ReservationInv, NEW s \in Streams, BuildFails(s) PROVE ReservationInv'
<1>1. /\ spc[s] = "build" /\ StreamTo(s, "wait", NoJob) /\ built' = built
      /\ UNCHANGED <<bal, srv, lost, recent, jobs, closed, done, crashed, workerVars, faults>>
  BY DEF BuildFails
<1>2. sjob[s] = NoJob
  BY <1>1 DEF ReservationInv, StreamJobs
<1>3. Fits(s, "wait", NoJob)
  BY NoJobFacts DEF Fits
<1>4. JobsBounded' /\ built' \in Nat
  BY <1>1, BoundStep
<1> QED BY <1>1, <1>2, <1>3, <1>4, NoJobFacts, QuietStep

\* The pair and the amount of a valid transfer are chosen.
LEMMA BuildValidKeeps ==
    ASSUME ReservationInv, "valid" \in Streams, BuildValid PROVE ReservationInv'
<1>1. PICK p \in SameCurrencyPairs : \E n \in 1..bal[p[1]] :
            StreamTo("valid", "reserve", TransferJob("valid", p[1], p[2], n))
  BY DEF BuildValid
<1>2. PICK n \in 1..bal[p[1]] : StreamTo("valid", "reserve", TransferJob("valid", p[1], p[2], n))
  BY <1>1
<1>3. p[1] \in Accounts /\ p[2] \in Accounts /\ p[1] # p[2]
  BY DEF SameCurrencyPairs
<1>4. n \in Nat
  <2>1. bal[p[1]] \in Int
    BY <1>3 DEF ReservationInv, LoadInv, TypeOK
  <2> QED BY <2>1
<1> DEFINE j == TransferJob("valid", p[1], p[2], n)
<1>5. /\ j.kind = "valid" /\ j.from = p[1] /\ j.to = p[2] /\ j.reserved = FALSE
      /\ j \in Job
  BY <1>3, <1>4 DEF TransferJob, Job
<1>6. /\ spc["valid"] = "build" /\ built' = built
      /\ UNCHANGED <<bal, srv, lost, recent, jobs, closed, done, crashed, workerVars, faults>>
  BY DEF BuildValid
<1>7. StreamTo("valid", "reserve", j)
  BY <1>2
<1> HIDE DEF j
<1>8. Fits("valid", "reserve", j)
  BY <1>3, <1>5 DEF Fits, GoodJob
<1>9. ~sjob["valid"].reserved
  <2>1. sjob["valid"] = NoJob
    BY <1>6 DEF ReservationInv, StreamJobs
  <2> QED BY <2>1, NoJobFacts
<1>10. JobsBounded' /\ built' \in Nat
  BY <1>6, <1>7, BoundStep
<1>11. spc["valid"] # "stopped" /\ ~j.reserved
  BY <1>5, <1>6
<1> QED BY <1>6, <1>7, <1>8, <1>9, <1>10, <1>11, QuietStep

\* The balance is looked at again, and the amount reserved or the job dropped.
LEMMA ReserveValidKeeps ==
    ASSUME ReservationInv, "valid" \in Streams, ReserveValid PROVE ReservationInv'
<1> DEFINE i == sjob["valid"]
           j == [i EXCEPT !.reserved = TRUE]
<1>1. /\ spc["valid"] = "reserve"
      /\ UNCHANGED <<srv, lost, recent, jobs, closed, done, crashed, workerVars, faults>>
  BY DEF ReserveValid
<1>2. GoodJob(i) /\ i.kind = "valid" /\ ~i.reserved
  BY <1>1 DEF ReservationInv, StreamJobs
<1>3. CASE /\ bal' = Move(bal, i.from, i.to, i.amount)
           /\ StreamTo("valid", "send", j)
           /\ built' = built + 1
  <2>1. /\ j \in Job /\ j.reserved /\ j.kind = "valid" /\ j.from = i.from /\ j.to = i.to
        /\ j.amount = i.amount
    BY <1>2 DEF GoodJob, Job
  <2>2. j.from \in Accounts /\ j.to \in Accounts /\ j.from # j.to
    BY <1>2, <2>1 DEF GoodJob
  <2>3. bal' = Move(bal, j.from, j.to, j.amount) /\ bal \in [Accounts -> Int] /\ i \in Job
    BY <1>2, <1>3, <2>1 DEF ReservationInv, LoadInv, TypeOK, GoodJob
  <2>4. StreamTo("valid", "send", j) /\ built' = built + 1
    BY <1>3
  <2> HIDE DEF j, i
  <2>5. Fits("valid", "send", j)
    BY <2>1, <2>2 DEF Fits, GoodJob, SentJob
  <2>6. JobsBounded' /\ built' \in Nat
    BY <1>1, <2>4, BoundStep
  <2>7. /\ QueuedJobs' /\ Len(jobs') <= QueueSize
        /\ \A a \in Accounts : InQueue(a)' = InQueue(a) /\ InQueue(a) \in Int
    BY <1>1, QueueKept
  <2>8. bal' \in [Accounts -> Int] /\ \A a \in Accounts : bal'[a] = bal[a] + Net(j, a)
    <3>1. \A a \in Accounts : bal' \in [Accounts -> Int] /\ bal'[a] = bal[a] + Net(j, a)
      BY <2>1, <2>2, <2>3, MoveNet
    <3>2. Accounts # {}
      BY <2>2
    <3> QED BY <3>1, <3>2
  <2>9. ASSUME NEW a \in Accounts
        PROVE  bal'[a] - bal[a] = (Net(j, a) - Net(sjob["valid"], a)) + (InQueue(a)' - InQueue(a))
    <3>1. Net(sjob["valid"], a) = 0
      BY <1>2, <2>3, NetFacts DEF i
    <3>2. Net(j, a) \in Int /\ bal[a] \in Int
      BY <2>1, <2>3, NetFacts
    <3> QED BY <2>7, <2>8, <3>1, <3>2
  <2>10. spc["valid"] # "stopped" /\ \A a \in Accounts : InQueue(a)' \in Int
    BY <1>1, <2>7
  <2>11. UNCHANGED <<srv, lost, recent, closed, done, crashed, workerVars, faults>>
    BY <1>1
  <2> QED BY <2>4, <2>5, <2>6, <2>7, <2>8, <2>9, <2>10, <2>11, StreamStepKeeps
<1>4. CASE StreamTo("valid", "wait", NoJob) /\ UNCHANGED <<bal, built>>
  <2>1. Fits("valid", "wait", NoJob)
    BY NoJobFacts DEF Fits
  <2>2. JobsBounded' /\ built' \in Nat
    BY <1>4, BoundStep
  <2>3. spc["valid"] # "stopped"
    BY <1>1
  <2> HIDE DEF j, i
  <2>4. ~sjob["valid"].reserved
    BY <1>2 DEF i
  <2> QED BY <1>1, <1>4, <2>1, <2>2, <2>3, <2>4, NoJobFacts, QuietStep
<1> QED BY <1>3, <1>4 DEF ReserveValid

\* A job that is bound to be refused, or that reads a transfer, is built.
LEMMA BuiltKeeps ==
    ASSUME ReservationInv, NEW s \in Streams, NEW j, Built(s, j), SentJob(j), ~j.reserved
    PROVE  ReservationInv'
<1>1. /\ spc[s] = "build" /\ StreamTo(s, "send", j) /\ built' = built + 1
      /\ UNCHANGED <<bal, srv, lost, recent, jobs, closed, done, crashed, workerVars, faults>>
  BY DEF Built
<1>2. sjob[s] = NoJob
  BY <1>1 DEF ReservationInv, StreamJobs
<1>3. Fits(s, "send", j)
  BY DEF Fits
<1>4. JobsBounded' /\ built' \in Nat
  BY <1>1, BoundStep
<1> QED BY <1>1, <1>2, <1>3, <1>4, NoJobFacts, QuietStep

\* The amount no account has.
LEMMA BuildInvalidBalanceKeeps ==
    ASSUME ReservationInv, "invalid_balance" \in Streams, BuildInvalidBalance
    PROVE  ReservationInv'
<1>1. PICK p \in SameCurrencyPairs : Built("invalid_balance",
            TransferJob("invalid_balance", p[1], p[2], InvalidBalanceAmount))
  BY DEF BuildInvalidBalance
<1>2. p[1] \in Accounts /\ p[2] \in Accounts /\ p[1] # p[2]
  BY DEF SameCurrencyPairs
<1> DEFINE j == TransferJob("invalid_balance", p[1], p[2], InvalidBalanceAmount)
<1>3. /\ j.kind = "invalid_balance" /\ j.from = p[1] /\ j.to = p[2] /\ j.reserved = FALSE
      /\ j.amount = InvalidBalanceAmount /\ j \in Job
  BY <1>2, LoadgenAssumption DEF TransferJob, Job
<1>4. Built("invalid_balance", j)
  BY <1>1
<1> HIDE DEF j
<1>5. SentJob(j)
  BY <1>2, <1>3 DEF GoodJob, SentJob
<1> QED BY <1>3, <1>4, <1>5, BuiltKeeps

\* Two accounts of different currencies.
LEMMA BuildInvalidCurrencyKeeps ==
    ASSUME ReservationInv, "invalid_currency" \in Streams, BuildInvalidCurrency
    PROVE  ReservationInv'
<1>1. PICK p \in DifferentCurrencyPairs : Built("invalid_currency",
            TransferJob("invalid_currency", p[1], p[2], 1))
  BY DEF BuildInvalidCurrency
<1>2. p[1] \in Accounts /\ p[2] \in Accounts /\ CurrencyOf[p[1]] # CurrencyOf[p[2]]
  BY DEF DifferentCurrencyPairs
<1> DEFINE j == TransferJob("invalid_currency", p[1], p[2], 1)
<1>3. /\ j.kind = "invalid_currency" /\ j.from = p[1] /\ j.to = p[2] /\ j.reserved = FALSE
      /\ j \in Job
  BY <1>2 DEF TransferJob, Job
<1>4. Built("invalid_currency", j)
  BY <1>1
<1> HIDE DEF j
<1>5. j.from # j.to
  BY <1>2, <1>3
<1>6. SentJob(j)
  BY <1>2, <1>3, <1>5 DEF GoodJob, SentJob
<1> QED BY <1>3, <1>4, <1>6, BuiltKeeps

\* A transaction to read.
LEMMA buildStatsKeeps ==
    ASSUME ReservationInv, "stats" \in Streams, buildStats PROVE ReservationInv'
<1> DEFINE j == TransferJob("stats", None, None, 0)
<1>1. Built("stats", j)
  BY DEF buildStats
<1>2. j.kind = "stats" /\ j.reserved = FALSE /\ j \in Job
  BY DEF TransferJob, Job
<1> HIDE DEF j
<1>3. SentJob(j)
  BY <1>2 DEF GoodJob, SentJob
<1> QED BY <1>1, <1>2, <1>3, BuiltKeeps

\* A job goes from its stream into the channel, and its reservation with it; the
\* channel is open, or no stream would be left to send.
LEMMA DispatchKeeps ==
    ASSUME ReservationInv, NEW s \in Streams, Dispatch(s) PROVE ReservationInv'
<1>1. ~closed
  BY DEF Dispatch, ReservationInv, LoadInv, NoSendOnClosed
<1>2. /\ spc[s] = "send" /\ Len(jobs) < QueueSize /\ jobs' = Append(jobs, sjob[s])
      /\ StreamTo(s, "wait", NoJob) /\ built' = built
      /\ UNCHANGED <<bal, srv, lost, recent, closed, done, crashed, workerVars, faults>>
  BY <1>1 DEF Dispatch
<1>3. SentJob(sjob[s]) /\ sjob[s] \in Job
  BY <1>2 DEF ReservationInv, StreamJobs
<1>4. jobs \in Seq(Job) /\ Len(jobs) \in Nat /\ \A i \in 1 .. Len(jobs) : SentJob(jobs[i])
  BY DEF ReservationInv, QueuedJobs
<1>5. /\ jobs' \in Seq(Job) /\ Len(jobs') = Len(jobs) + 1
      /\ \A i \in 1 .. Len(jobs') : jobs'[i] = IF i \in 1 .. Len(jobs) THEN jobs[i] ELSE sjob[s]
  BY <1>2, <1>3, <1>4
<1>6. QueuedJobs'
  <2>1. \A i \in 1 .. Len(jobs') : SentJob(jobs'[i])
    BY <1>3, <1>4, <1>5
  <2>2. DOMAIN jobs' = 1 .. Len(jobs')
    BY <1>5
  <2> QED BY <1>5, <2>1, <2>2 DEF QueuedJobs, SentJob, GoodJob
<1>7. Len(jobs') <= QueueSize
  BY <1>2, <1>4, <1>5, LoadgenAssumption
<1>8. Fits(s, "wait", NoJob)
  BY NoJobFacts DEF Fits
<1>9. JobsBounded' /\ built' \in Nat
  BY <1>2, BoundStep
<1>10. \A a \in Accounts : InQueue(a)' = InQueue(a) + Net(sjob[s], a) /\ InQueue(a) \in Int
  BY <1>2, <1>3, QueueAppend, SharesInt
<1>11. bal \in [Accounts -> Int] /\ bal' \in [Accounts -> Int]
  BY <1>2 DEF ReservationInv, LoadInv, TypeOK
<1>12. ASSUME NEW a \in Accounts
       PROVE  /\ bal'[a] - bal[a] = (Net(NoJob, a) - Net(sjob[s], a)) + (InQueue(a)' - InQueue(a))
              /\ InQueue(a)' \in Int
  <2>1. Net(NoJob, a) = 0 /\ Net(sjob[s], a) \in Int /\ bal[a] \in Int /\ bal'[a] = bal[a]
    BY <1>2, <1>3, <1>11, NetFacts, NoJobFacts
  <2> QED BY <1>10, <2>1
<1>13. spc[s] # "stopped" /\ UNCHANGED <<srv, lost, recent, closed, done, crashed, workerVars, faults>>
  BY <1>2
<1> QED BY <1>2, <1>6, <1>7, <1>8, <1>9, <1>11, <1>12, <1>13, StreamStepKeeps

\* A stream that stops rolls the reservation of its job back.
LEMMA StopStreamKeeps ==
    ASSUME ReservationInv, NEW s \in Streams, StopStream(s) PROVE ReservationInv'
<1>1. /\ spc[s] \in {"wait", "send"} /\ StreamTo(s, "stopped", NoJob) /\ built' = built
      /\ bal' = IF sjob[s].reserved THEN RollbackValid(bal, sjob[s]) ELSE bal
      /\ UNCHANGED <<srv, lost, recent, jobs, closed, done, crashed, workerVars, faults>>
  BY DEF StopStream
<1>2. GoodJob(sjob[s]) /\ sjob[s] \in Job /\ bal \in [Accounts -> Int]
  BY HeldJobs DEF ReservationInv, LoadInv, TypeOK
<1>3. Fits(s, "stopped", NoJob)
  BY NoJobFacts DEF Fits
<1>4. JobsBounded' /\ built' \in Nat
  BY <1>1, BoundStep
<1>5. spc[s] # "stopped"
  BY <1>1
<1>6. CASE ~sjob[s].reserved
  <2>1. UNCHANGED <<bal, srv, lost, recent, jobs, closed, done, crashed, workerVars, faults>>
    BY <1>1, <1>6
  <2> QED BY <1>1, <1>3, <1>4, <1>5, <1>6, <2>1, NoJobFacts, QuietStep
<1>7. CASE sjob[s].reserved
  <2>1. /\ sjob[s].from \in Accounts /\ sjob[s].to \in Accounts /\ sjob[s].from # sjob[s].to
    BY <1>2, <1>7, ReservedJob
  <2>2. \A a \in Accounts : bal' \in [Accounts -> Int] /\ bal'[a] = bal[a] - Net(sjob[s], a)
    BY <1>1, <1>2, <1>7, <2>1, MoveNet
  <2>3. bal' \in [Accounts -> Int]
    BY <2>1, <2>2
  <2>4. /\ QueuedJobs' /\ Len(jobs') <= QueueSize
        /\ \A a \in Accounts : InQueue(a)' = InQueue(a) /\ InQueue(a) \in Int
    BY <1>1, QueueKept
  <2>5. ASSUME NEW a \in Accounts
        PROVE  /\ bal'[a] - bal[a] = (Net(NoJob, a) - Net(sjob[s], a)) + (InQueue(a)' - InQueue(a))
               /\ InQueue(a)' \in Int
    <3>1. Net(NoJob, a) = 0 /\ Net(sjob[s], a) \in Int /\ bal[a] \in Int
      BY <1>2, NetFacts, NoJobFacts
    <3> QED BY <2>2, <2>4, <3>1
  <2>6. UNCHANGED <<srv, lost, recent, closed, done, crashed, workerVars, faults>>
    BY <1>1
  <2> QED BY <1>1, <1>3, <1>4, <1>5, <2>3, <2>4, <2>5, <2>6, StreamStepKeeps
<1> QED BY <1>6, <1>7

-----------------------------------------------------------------------------
(* What a step of a worker keeps.                                          *)

\* The job a worker may hold at l, with answer r.
WorkerFits(l, j, r) ==
    /\ l \in {"idle", "call", "answer", "exit"}
    /\ r \in {"none", "ok", "lost", "refused", "error"}
    /\ l \in {"idle", "exit"} => j = NoJob
    /\ l \in {"call", "answer"} => SentJob(j)
    /\ l # "answer" => r = "none"
    /\ r \in {"ok", "lost"} => j.kind \in {"valid", "stats"}
    /\ l = "exit" => closed /\ jobs = <<>>

\* A job that fits is a job.
LEMMA WorkerFitsJob == ASSUME NEW l, NEW j, NEW r, WorkerFits(l, j, r) PROVE GoodJob(j) /\ j \in Job
BY NoJobFacts DEF WorkerFits, SentJob, GoodJob

\* What job j adds to account a when a worker holds it with answer r.
Share(j, r, a) == IF r \in {"ok", "lost"} THEN 0 ELSE Net(j, a)

\* Only one worker moves; the streams see at most a shorter queue.
LEMMA WorkerFrame ==
    ASSUME ReservationInv, NEW w \in Workers, NEW l, NEW j, NEW r, WorkerFits(l, j, r),
           WorkerTo(w, l, j, r), jobs = <<>> => jobs' = <<>>,
           UNCHANGED <<streamVars, closed, done, crashed>>
    PROVE  /\ wpc' \in [Workers -> {"idle", "call", "answer", "exit"}]
           /\ wres' \in [Workers -> {"none", "ok", "lost", "refused", "error"}]
           /\ sjob' \in [Streams -> Job] /\ wjob' \in [Workers -> Job]
           /\ NoSendOnClosed' /\ StreamJobs' /\ WorkerJobs' /\ JobsBounded'
           /\ \A a \in Accounts : InStreams(a)' = InStreams(a)
           /\ \A a \in Accounts : InWorkers(a)' = InWorkers(a) + (Share(j, r, a) - InWorker(w, a))
<1>1. spc' = spc /\ sjob' = sjob /\ built' = built /\ closed' = closed
  BY DEF streamVars
<1>2. /\ wpc' = [wpc EXCEPT ![w] = l] /\ wjob' = [wjob EXCEPT ![w] = j]
      /\ wres' = [wres EXCEPT ![w] = r]
      /\ wpc \in [Workers -> {"idle", "call", "answer", "exit"}]
      /\ wres \in [Workers -> {"none", "ok", "lost", "refused", "error"}]
      /\ wjob \in [Workers -> Job] /\ j \in Job
      /\ l \in {"idle", "call", "answer", "exit"}
      /\ r \in {"none", "ok", "lost", "refused", "error"}
  BY WorkerFitsJob DEF WorkerTo, ReservationInv, LoadInv, TypeOK, WorkerFits
<1>3. /\ wpc' \in [Workers -> {"idle", "call", "answer", "exit"}]
      /\ wres' \in [Workers -> {"none", "ok", "lost", "refused", "error"}]
  BY <1>2
<1>4. sjob' \in [Streams -> Job] /\ wjob' \in [Workers -> Job]
  BY <1>1, <1>2 DEF ReservationInv
<1>5. NoSendOnClosed'
  BY <1>1 DEF ReservationInv, LoadInv, NoSendOnClosed
<1>6. StreamJobs'
  BY <1>1, Zenon DEF ReservationInv, StreamJobs, GoodJob, SentJob
<1>7. WorkerJobs'
  <2>1. ASSUME NEW x \in Workers
        PROVE  /\ wpc'[x] \in {"idle", "exit"} => wjob'[x] = NoJob
               /\ wpc'[x] \in {"call", "answer"} => SentJob(wjob'[x])
               /\ wpc'[x] # "answer" => wres'[x] = "none"
               /\ wres'[x] \in {"ok", "lost"} => wjob'[x].kind \in {"valid", "stats"}
               /\ wpc'[x] = "exit" => closed' /\ jobs' = <<>>
    <3>1. CASE x = w
      <4>1. wpc'[x] = l /\ wjob'[x] = j /\ wres'[x] = r
        BY <1>2, <3>1
      <4> QED BY <1>1, <4>1 DEF WorkerFits
    <3>2. CASE x # w
      <4>1. wpc'[x] = wpc[x] /\ wjob'[x] = wjob[x] /\ wres'[x] = wres[x]
        BY <1>2, <3>2
      <4> QED BY <1>1, <4>1 DEF ReservationInv, WorkerJobs
    <3> QED BY <3>1, <3>2
  <2> QED BY <2>1, Zenon DEF WorkerJobs, GoodJob, SentJob
<1>8. JobsBounded'
  BY <1>1 DEF ReservationInv, JobsBounded, UnderBuild
<1>9. ASSUME NEW a \in Accounts PROVE InStreams(a)' = InStreams(a)
  BY <1>1 DEF InStreams, InStream
<1>10. ASSUME NEW a \in Accounts
       PROVE  InWorkers(a)' = InWorkers(a) + (Share(j, r, a) - InWorker(w, a))
  BY <1>2, WorkersStep DEF Share
<1> QED BY <1>3, <1>4, <1>5, <1>6, <1>7, <1>8, <1>9, <1>10

\* What remains to be shown of a step of a worker: the values it writes, and that
\* the balances moved with its job.
LEMMA WorkerStepKeeps ==
    ASSUME ReservationInv, NEW w \in Workers, NEW l, NEW j, NEW r, WorkerFits(l, j, r),
           WorkerTo(w, l, j, r), jobs = <<>> => jobs' = <<>>,
           UNCHANGED <<streamVars, closed, done, crashed>>,
           bal' \in [Accounts -> Int], srv' \in [Accounts -> Nat], lost' \in [Accounts -> Int],
           recent' \in 0..MaxRecent, faults' \in 0..MaxFaults, MoneyKept',
           QueuedJobs', Len(jobs') <= QueueSize,
           \A a \in Accounts : InQueue(a)' \in Int,
           \A a \in Accounts :
                (bal'[a] - bal[a]) + (lost'[a] - lost[a])
                    = (srv'[a] - srv[a]) + (Share(j, r, a) - InWorker(w, a))
                        + (InQueue(a)' - InQueue(a))
    PROVE  ReservationInv'
<1>1. /\ wpc' \in [Workers -> {"idle", "call", "answer", "exit"}]
      /\ wres' \in [Workers -> {"none", "ok", "lost", "refused", "error"}]
      /\ sjob' \in [Streams -> Job] /\ wjob' \in [Workers -> Job]
      /\ NoSendOnClosed' /\ StreamJobs' /\ WorkerJobs' /\ JobsBounded'
      /\ \A a \in Accounts : InStreams(a)' = InStreams(a)
      /\ \A a \in Accounts : InWorkers(a)' = InWorkers(a) + (Share(j, r, a) - InWorker(w, a))
  BY WorkerFrame
<1>2. TypeOK /\ spc' = spc /\ sjob' = sjob /\ built' = built
  BY DEF ReservationInv, LoadInv, streamVars
<1>3. TypeOK'
  BY <1>1, <1>2 DEF TypeOK
<1>4. PoolMatchesServer'
  <2> SUFFICES ASSUME NEW a \in Accounts
               PROVE  bal'[a] + lost'[a] = srv'[a] + (InStreams(a)' + InQueue(a)' + InWorkers(a)')
    BY DEF PoolMatchesServer, Outstanding
  <2>1. bal[a] + lost[a] = srv[a] + (InStreams(a) + InQueue(a) + InWorkers(a))
    BY DEF ReservationInv, PoolMatchesServer, Outstanding
  <2>2. /\ InStreams(a) \in Int /\ InQueue(a) \in Int /\ InWorkers(a) \in Int /\ InQueue(a)' \in Int
        /\ bal[a] \in Int /\ lost[a] \in Int /\ srv[a] \in Int
        /\ bal'[a] \in Int /\ lost'[a] \in Int /\ srv'[a] \in Int
    BY <1>2, SharesInt DEF TypeOK
  <2>3. Share(j, r, a) \in Int /\ InWorker(w, a) \in Int
    BY NetFacts, WorkerFitsJob DEF Share, InWorker, ReservationInv
  <2> DEFINE b == bal[a]
             k == lost[a]
             v == srv[a]
             x == InStreams(a)
             y == InQueue(a)
             z == InWorkers(a)
             c == bal'[a]
             m == lost'[a]
             n == srv'[a]
             u == InQueue(a)'
             d == Share(j, r, a) - InWorker(w, a)
  <2>4. /\ b \in Int /\ k \in Int /\ v \in Int /\ x \in Int /\ y \in Int /\ z \in Int
        /\ c \in Int /\ m \in Int /\ n \in Int /\ u \in Int /\ d \in Int
    BY <2>2, <2>3
  <2>5. b + k = v + (x + y + z) /\ (c - b) + (m - k) = (n - v) + d + (u - y)
    BY <2>1
  <2>6. InWorkers(a)' = z + d /\ InStreams(a)' = x
    BY <1>1
  <2>7. bal'[a] = c /\ lost'[a] = m /\ srv'[a] = n /\ InQueue(a)' = u
    OBVIOUS
  <2> HIDE DEF b, k, v, x, y, z, c, m, n, u, d
  <2>8. c + m = n + (x + u + (z + d))
    BY <2>4, <2>5
  <2> QED BY <2>6, <2>7, <2>8
<1> QED BY <1>1, <1>3, <1>4 DEF ReservationInv, LoadInv

\* A worker takes the next job; the queue's share becomes the worker's.
LEMMA TakeJobKeeps ==
    ASSUME ReservationInv, NEW w \in Workers, TakeJob(w) PROVE ReservationInv'
<1> DEFINE j == Head(jobs)
<1>1. /\ wpc[w] = "idle" /\ jobs # <<>> /\ jobs' = Tail(jobs) /\ WorkerTo(w, "call", j, "none")
      /\ UNCHANGED <<bal, srv, lost, recent, faults>>
      /\ UNCHANGED <<streamVars, closed, done, crashed>>
  BY DEF TakeJob
<1>2. jobs \in Seq(Job) /\ \A i \in 1 .. Len(jobs) : SentJob(jobs[i])
  BY DEF ReservationInv, QueuedJobs
<1>3. /\ jobs' \in Seq(Job) /\ Len(jobs') = Len(jobs) - 1 /\ Len(jobs) \in Nat /\ Len(jobs) > 0
      /\ j = jobs[1] /\ \A i \in 1 .. Len(jobs') : jobs'[i] = jobs[i + 1]
  BY <1>1, <1>2
<1>4. SentJob(j)
  BY <1>2, <1>3
<1>5. QueuedJobs'
  <2>1. \A i \in 1 .. Len(jobs') : i + 1 \in 1 .. Len(jobs)
    BY <1>3
  <2>2. \A i \in 1 .. Len(jobs') : SentJob(jobs'[i])
    BY <1>2, <1>3, <2>1
  <2>3. DOMAIN jobs' = 1 .. Len(jobs')
    BY <1>3
  <2> QED BY <1>3, <2>2, <2>3 DEF QueuedJobs, SentJob, GoodJob
<1>6. Len(jobs') <= QueueSize
  <2>1. Len(jobs) <= QueueSize /\ QueueSize \in Nat
    BY LoadgenAssumption DEF ReservationInv, LoadInv, TypeOK
  <2> QED BY <1>3, <2>1
<1>7. WorkerFits("call", j, "none")
  BY <1>4 DEF WorkerFits
<1>8. /\ bal \in [Accounts -> Int] /\ srv \in [Accounts -> Nat] /\ lost \in [Accounts -> Int]
      /\ recent \in 0..MaxRecent /\ faults \in 0..MaxFaults /\ MoneyKept
  BY DEF ReservationInv, LoadInv, TypeOK
<1>9. MoneyKept'
  BY <1>1, <1>8 DEF MoneyKept
<1>10. ASSUME NEW a \in Accounts
       PROVE  /\ (bal'[a] - bal[a]) + (lost'[a] - lost[a])
                    = (srv'[a] - srv[a]) + (Share(j, "none", a) - InWorker(w, a))
                        + (InQueue(a)' - InQueue(a))
              /\ InQueue(a)' \in Int
  <2>1. wjob[w] = NoJob /\ wres[w] = "none"
    BY <1>1 DEF ReservationInv, WorkerJobs
  <2>2. InWorker(w, a) = 0 /\ Share(j, "none", a) = Net(j, a)
    BY <2>1, NoJobFacts DEF Share, InWorker
  <2>3. InQueue(a) = Net(j, a) + InQueue(a)' /\ InQueue(a)' \in Int
    BY <1>1, QueueTail
  <2>4. Net(j, a) \in Int
    BY <1>4, NetFacts DEF SentJob, GoodJob
  <2>5. /\ bal'[a] = bal[a] /\ lost'[a] = lost[a] /\ srv'[a] = srv[a]
        /\ bal[a] \in Int /\ lost[a] \in Int /\ srv[a] \in Int
    BY <1>1, <1>8
  <2> HIDE DEF j
  <2> QED BY <2>2, <2>3, <2>4, <2>5
<1>11. /\ bal' \in [Accounts -> Int] /\ srv' \in [Accounts -> Nat] /\ lost' \in [Accounts -> Int]
       /\ recent' \in 0..MaxRecent /\ faults' \in 0..MaxFaults
  BY <1>1, <1>8
<1>12. (jobs = <<>> => jobs' = <<>>) /\ WorkerTo(w, "call", j, "none")
       /\ UNCHANGED <<streamVars, closed, done, crashed>>
  BY <1>1
<1> HIDE DEF j
<1> QED BY <1>5, <1>6, <1>7, <1>9, <1>10, <1>11, <1>12, WorkerStepKeeps

\* A step of a worker that moves no money and leaves the channel alone.
LEMMA QuietWorkerStep ==
    ASSUME ReservationInv, NEW w \in Workers, NEW l, NEW j, NEW r, WorkerFits(l, j, r),
           WorkerTo(w, l, j, r), \A a \in Accounts : Share(j, r, a) = InWorker(w, a),
           UNCHANGED <<bal, srv, lost, streamVars, jobs, closed, done, crashed>>,
           recent' \in 0..MaxRecent, faults' \in 0..MaxFaults
    PROVE  ReservationInv'
<1>1. /\ bal \in [Accounts -> Int] /\ srv \in [Accounts -> Nat] /\ lost \in [Accounts -> Int]
      /\ MoneyKept
  BY DEF ReservationInv, LoadInv, TypeOK
<1>2. /\ QueuedJobs' /\ Len(jobs') <= QueueSize
      /\ \A a \in Accounts : InQueue(a)' = InQueue(a) /\ InQueue(a) \in Int
  BY QueueKept
<1>3. MoneyKept'
  BY <1>1 DEF MoneyKept
<1>4. ASSUME NEW a \in Accounts
      PROVE  /\ (bal'[a] - bal[a]) + (lost'[a] - lost[a])
                    = (srv'[a] - srv[a]) + (Share(j, r, a) - InWorker(w, a))
                        + (InQueue(a)' - InQueue(a))
             /\ InQueue(a)' \in Int
  <2>1. /\ bal'[a] = bal[a] /\ lost'[a] = lost[a] /\ srv'[a] = srv[a]
        /\ bal[a] \in Int /\ lost[a] \in Int /\ srv[a] \in Int
    BY <1>1
  <2>2. InWorker(w, a) \in Int
    BY NetFacts DEF InWorker, ReservationInv
  <2> QED BY <1>2, <2>1, <2>2
<1>5. (jobs = <<>> => jobs' = <<>>) /\ UNCHANGED <<streamVars, closed, done, crashed>>
  OBVIOUS
<1>6. bal' \in [Accounts -> Int] /\ srv' \in [Accounts -> Nat] /\ lost' \in [Accounts -> Int]
  BY <1>1
<1> QED BY <1>2, <1>3, <1>4, <1>5, <1>6, WorkerStepKeeps

\* A worker leaves.
LEMMA WorkerExitKeeps ==
    ASSUME ReservationInv, NEW w \in Workers, WorkerExit(w) PROVE ReservationInv'
<1>1. /\ wpc[w] = "idle" /\ closed /\ jobs = <<>> /\ WorkerTo(w, "exit", NoJob, "none")
      /\ UNCHANGED <<bal, srv, lost, streamVars, jobs, closed, done, crashed>>
      /\ recent' = recent /\ faults' = faults
  BY DEF WorkerExit
<1>2. WorkerFits("exit", NoJob, "none")
  BY <1>1 DEF WorkerFits
<1>3. \A a \in Accounts : Share(NoJob, "none", a) = InWorker(w, a)
  <2>1. wjob[w] = NoJob /\ wres[w] = "none"
    BY <1>1 DEF ReservationInv, WorkerJobs
  <2> QED BY <2>1 DEF Share, InWorker
<1>4. recent' \in 0..MaxRecent /\ faults' \in 0..MaxFaults
  BY <1>1 DEF ReservationInv, LoadInv, TypeOK
<1> QED BY <1>1, <1>2, <1>3, <1>4, QuietWorkerStep

\* Faults stay within their bound.
LEMMA CallFailsBound ==
    ASSUME ReservationInv, CallFails PROVE faults' \in 0..MaxFaults
BY LoadgenAssumption DEF ReservationInv, LoadInv, TypeOK, CallFails, Fault

\* A transaction is read, or not.
LEMMA GetTransactionKeeps ==
    ASSUME ReservationInv, NEW w \in Workers, GetTransaction(w) PROVE ReservationInv'
<1> DEFINE j == wjob[w]
<1>1. /\ wpc[w] = "call" /\ j.kind = "stats" /\ recent' = recent
      /\ UNCHANGED <<bal, srv, lost, streamVars, jobs, closed, done, crashed>>
  BY DEF GetTransaction
<1>2. PICK r \in {"ok", "error"} : WorkerTo(w, "answer", j, r) /\ faults' \in 0..MaxFaults
  <2>1. faults \in 0..MaxFaults
    BY DEF ReservationInv, LoadInv, TypeOK
  <2> QED BY <2>1, CallFailsBound DEF GetTransaction
<1>3. SentJob(j) /\ wres[w] = "none"
  BY <1>1 DEF ReservationInv, WorkerJobs
<1>4. WorkerFits("answer", j, r)
  BY <1>1, <1>3 DEF WorkerFits
<1>5. \A a \in Accounts : Share(j, r, a) = InWorker(w, a)
  <2>1. ~j.reserved /\ j \in Job
    BY <1>1, <1>3 DEF SentJob, GoodJob
  <2>2. \A a \in Accounts : Net(j, a) = 0
    BY <2>1, NetFacts
  <2>3. \A a \in Accounts : InWorker(w, a) = 0
    BY <2>2 DEF InWorker
  <2> QED BY <2>2, <2>3 DEF Share
<1>6. recent' \in 0..MaxRecent
  BY <1>1 DEF ReservationInv, LoadInv, TypeOK
<1> HIDE DEF j
<1> QED BY <1>1, <1>2, <1>4, <1>5, <1>6, QuietWorkerStep

\* A transfer moves money and makes none.
LEMMA MoveSum ==
    ASSUME NEW b \in [Accounts -> Int], NEW f \in Accounts, NEW t \in Accounts, f # t, NEW n \in Int
    PROVE  SumTo(Move(b, f, t, n), NumAccounts) = SumTo(b, NumAccounts)
<1> DEFINE c == [b EXCEPT ![f] = @ - n]
           d == Move(b, f, t, n)
<1>0. NumAccounts \in Nat
  BY LoadgenAssumption
<1>1. /\ b \in [1 .. NumAccounts -> Int] /\ c \in [1 .. NumAccounts -> Int]
      /\ d \in [1 .. NumAccounts -> Int] /\ f \in 1 .. NumAccounts /\ t \in 1 .. NumAccounts
  BY DEF Move, Accounts
<1>2. c[f] = b[f] - n /\ \A i \in 1 .. NumAccounts : i # f => c[i] = b[i]
  BY DEF Accounts
<1>3. d[t] = c[t] + n /\ \A i \in 1 .. NumAccounts : i # t => d[i] = c[i]
  BY DEF Accounts, Move
<1>4. b[f] \in Int /\ c[t] \in Int
  BY <1>1
<1> HIDE DEF c, d
<1>5. SumTo(c, NumAccounts) = SumTo(b, NumAccounts) + (c[f] - b[f])
  BY <1>0, <1>1, <1>2, SumToPoint
<1>6. SumTo(d, NumAccounts) = SumTo(c, NumAccounts) + (d[t] - c[t])
  BY <1>0, <1>1, <1>3, SumToPoint
<1>7. SumTo(b, NumAccounts) \in Int /\ SumTo(c, NumAccounts) \in Int
  BY <1>0, <1>1, SumToDef
<1>8. SumTo(d, NumAccounts) = SumTo(b, NumAccounts)
  BY <1>2, <1>3, <1>4, <1>5, <1>6, <1>7
<1> QED BY <1>8 DEF d

\* The gateway accepts no job that is meant to be refused: the two currencies
\* differ, or no account has the amount because all of them together have not.
LEMMA OnlyValidAccepted ==
    ASSUME ReservationInv, NEW j, SentJob(j), j.kind # "stats", Accepts(j)
    PROVE  j.kind = "valid" /\ j.reserved
<1>1. j.kind \in {"valid", "invalid_balance", "invalid_currency"}
  BY LoadgenAssumption DEF SentJob, GoodJob, Job
<1>2. j.kind # "invalid_currency"
  BY DEF Accepts, SentJob, GoodJob
<1>3. j.kind # "invalid_balance"
  <2> SUFFICES ASSUME j.kind = "invalid_balance" PROVE FALSE
    OBVIOUS
  <2>1. j.amount = InvalidBalanceAmount /\ j.from \in Accounts
    BY DEF SentJob, GoodJob
  <2>2. srv[j.from] >= InvalidBalanceAmount
    BY <2>1 DEF Accepts
  <2>3. srv \in [1 .. NumAccounts -> Nat] /\ j.from \in 1 .. NumAccounts /\ NumAccounts \in Nat
    BY <2>1, LoadgenAssumption DEF ReservationInv, LoadInv, TypeOK, Accounts
  <2>4. srv[j.from] <= SumTo(srv, NumAccounts)
    BY <2>3, SumToBound
  <2>5. SumTo(srv, NumAccounts) < InvalidBalanceAmount
    BY InvalidBalanceAssumption DEF ReservationInv, MoneyKept
  <2>6. srv[j.from] \in Int /\ SumTo(srv, NumAccounts) \in Int /\ InvalidBalanceAmount \in Int
    <3>1. srv \in [1 .. NumAccounts -> Int]
      BY <2>3
    <3> QED BY <2>3, <3>1, SumToDef, LoadgenAssumption
  <2> QED BY <2>2, <2>4, <2>5, <2>6
<1> QED BY <1>1, <1>2, <1>3 DEF SentJob

\* The gateway performs the transfer, refuses it, or the call fails.
LEMMA CreateTxKeeps ==
    ASSUME ReservationInv, NEW w \in Workers, CreateTx(w) PROVE ReservationInv'
<1> DEFINE j == wjob[w]
<1>1. /\ wpc[w] = "call" /\ j.kind # "stats" /\ recent' = recent
      /\ UNCHANGED <<bal, lost, streamVars, jobs, closed, done, crashed>>
  BY DEF CreateTx
<1>2. SentJob(j) /\ wres[w] = "none"
  BY <1>1 DEF ReservationInv, WorkerJobs
<1>3. /\ bal \in [Accounts -> Int] /\ srv \in [Accounts -> Nat] /\ lost \in [Accounts -> Int]
      /\ recent' \in 0..MaxRecent /\ faults \in 0..MaxFaults
  BY <1>1 DEF ReservationInv, LoadInv, TypeOK
<1>4. \A a \in Accounts : InWorker(w, a) = Net(j, a)
  BY <1>2 DEF InWorker
<1>5. CASE /\ Accepts(j) /\ srv' = Move(srv, j.from, j.to, j.amount)
           /\ \/ WorkerTo(w, "answer", j, "ok") /\ UNCHANGED faults
              \/ WorkerTo(w, "answer", j, "lost") /\ CallFails
  <2>1. PICK r \in {"ok", "lost"} : WorkerTo(w, "answer", j, r) /\ faults' \in 0..MaxFaults
    BY <1>3, <1>5, CallFailsBound
  <2> HIDE DEF j
  <2>2. j.kind = "valid" /\ j.reserved
    BY <1>1, <1>2, <1>5, OnlyValidAccepted
  <2>3. /\ j \in Job /\ j.amount \in Nat /\ j.from \in Accounts /\ j.to \in Accounts /\ j.from # j.to
    BY <1>2, <2>2, ReservedJob DEF SentJob
  <2>4. srv \in [Accounts -> Int]
    BY <1>3
  <2>5. srv' \in [Accounts -> Nat]
    <3>1. srv[j.from] - j.amount \in Nat /\ srv[j.to] + j.amount \in Nat
      BY <1>3, <1>5, <2>3 DEF Accepts
    <3> QED BY <1>3, <1>5, <2>3, <3>1 DEF Move
  <2>6. \A a \in Accounts : srv'[a] = srv[a] + Net(j, a)
    BY <1>5, <2>2, <2>3, <2>4, MoveNet
  <2>7. MoneyKept'
    <3>1. SumTo(srv', NumAccounts) = SumTo(srv, NumAccounts)
      BY <1>5, <2>3, <2>4, MoveSum
    <3> QED BY <3>1 DEF ReservationInv, MoneyKept
  <2>8. WorkerFits("answer", j, r)
    BY <1>2, <2>2 DEF WorkerFits
  <2>9. /\ QueuedJobs' /\ Len(jobs') <= QueueSize
        /\ \A a \in Accounts : InQueue(a)' = InQueue(a) /\ InQueue(a) \in Int
    BY <1>1, QueueKept
  <2>10. ASSUME NEW a \in Accounts
         PROVE  /\ (bal'[a] - bal[a]) + (lost'[a] - lost[a])
                      = (srv'[a] - srv[a]) + (Share(j, r, a) - InWorker(w, a))
                          + (InQueue(a)' - InQueue(a))
                /\ InQueue(a)' \in Int
    <3>1. /\ bal'[a] = bal[a] /\ lost'[a] = lost[a] /\ srv'[a] = srv[a] + Net(j, a)
          /\ bal[a] \in Int /\ lost[a] \in Int /\ srv[a] \in Int
      BY <1>1, <1>3, <2>6
    <3>2. Share(j, r, a) = 0 /\ InWorker(w, a) = Net(j, a) /\ Net(j, a) \in Int
      BY <1>4, <2>3, NetFacts DEF Share
    <3> QED BY <2>9, <3>1, <3>2
  <2>11. (jobs = <<>> => jobs' = <<>>) /\ UNCHANGED <<streamVars, closed, done, crashed>>
    BY <1>1
  <2>12. bal' \in [Accounts -> Int] /\ lost' \in [Accounts -> Int]
    BY <1>1, <1>3
  <2> QED BY <1>3, <2>1, <2>5, <2>7, <2>8, <2>9, <2>10, <2>11, <2>12, WorkerStepKeeps
<1>6. CASE \/ ~Accepts(j) /\ WorkerTo(w, "answer", j, "refused") /\ UNCHANGED <<srv, faults>>
           \/ WorkerTo(w, "answer", j, "error") /\ CallFails /\ UNCHANGED srv
  <2>1. PICK r \in {"refused", "error"} :
            WorkerTo(w, "answer", j, r) /\ faults' \in 0..MaxFaults /\ srv' = srv
    BY <1>3, <1>6, CallFailsBound
  <2> HIDE DEF j
  <2>2. WorkerFits("answer", j, r)
    BY <1>2 DEF WorkerFits
  <2>3. \A a \in Accounts : Share(j, r, a) = InWorker(w, a)
    BY <1>4 DEF Share
  <2>4. UNCHANGED <<bal, srv, lost, streamVars, jobs, closed, done, crashed>>
    BY <1>1, <2>1
  <2> QED BY <1>3, <2>1, <2>2, <2>3, <2>4, QuietWorkerStep
<1> QED BY <1>5, <1>6 DEF CreateTx

\* The ids kept are cut before there are too many.
LEMMA RememberBound ==
    ASSUME NEW n \in 0..MaxRecent PROVE Remember(n) \in 0..MaxRecent
BY LoadgenAssumption DEF Remember

\* The answer is acted on: a reservation is kept, or rolled back, once.
LEMMA handleJobKeeps ==
    ASSUME ReservationInv, NEW w \in Workers, handleJob(w) PROVE ReservationInv'
<1> DEFINE j == wjob[w]
<1>1. /\ wpc[w] = "answer" /\ WorkerTo(w, "idle", NoJob, "none")
      /\ UNCHANGED <<srv, streamVars, jobs, closed, done, crashed, faults>>
  BY DEF handleJob
<1>2. SentJob(j) /\ GoodJob(j) /\ j \in Job
  BY <1>1 DEF ReservationInv, WorkerJobs, SentJob, GoodJob
<1>3. /\ bal \in [Accounts -> Int] /\ srv \in [Accounts -> Nat] /\ lost \in [Accounts -> Int]
      /\ recent \in 0..MaxRecent /\ faults' \in 0..MaxFaults /\ MoneyKept
  BY <1>1 DEF ReservationInv, LoadInv, TypeOK
<1>4. WorkerFits("idle", NoJob, "none")
  BY DEF WorkerFits
<1>5. \A a \in Accounts : Share(NoJob, "none", a) = 0
  BY NoJobFacts DEF Share
<1>6. CASE (j.reserved => wres[w] = "ok") /\ UNCHANGED <<bal, lost>>
  <2>1. \A a \in Accounts : Share(NoJob, "none", a) = InWorker(w, a)
    <3>1. \A a \in Accounts : InWorker(w, a) = 0
      BY <1>2, <1>6, NetFacts DEF InWorker
    <3> QED BY <1>5, <3>1
  <2>2. recent' \in 0..MaxRecent
    BY <1>3, RememberBound DEF handleJob
  <2>3. UNCHANGED <<bal, srv, lost, streamVars, jobs, closed, done, crashed>>
    BY <1>1, <1>6
  <2> QED BY <1>1, <1>3, <1>4, <2>1, <2>2, <2>3, QuietWorkerStep
<1>7. CASE /\ j.reserved /\ wres[w] # "ok"
           /\ bal' = RollbackValid(bal, j)
           /\ lost' = IF wres[w] = "lost" THEN Move(lost, j.from, j.to, j.amount) ELSE lost
           /\ UNCHANGED recent
  <2> HIDE DEF j
  <2>1. /\ j \in Job /\ j.from \in Accounts /\ j.to \in Accounts /\ j.from # j.to
    BY <1>2, <1>7, ReservedJob
  <2>2. \A a \in Accounts : bal' \in [Accounts -> Int] /\ bal'[a] = bal[a] - Net(j, a)
    BY <1>3, <1>7, <2>1, MoveNet
  <2>3. \A a \in Accounts : /\ lost' \in [Accounts -> Int]
                            /\ lost'[a] = IF wres[w] = "lost" THEN lost[a] + Net(j, a) ELSE lost[a]
    BY <1>3, <1>7, <2>1, MoveNet
  <2>4. bal' \in [Accounts -> Int] /\ lost' \in [Accounts -> Int]
    BY <2>1, <2>2, <2>3
  <2>5. /\ QueuedJobs' /\ Len(jobs') <= QueueSize
        /\ \A a \in Accounts : InQueue(a)' = InQueue(a) /\ InQueue(a) \in Int
    BY <1>1, QueueKept
  <2>6. ASSUME NEW a \in Accounts
        PROVE  /\ (bal'[a] - bal[a]) + (lost'[a] - lost[a])
                      = (srv'[a] - srv[a]) + (Share(NoJob, "none", a) - InWorker(w, a))
                          + (InQueue(a)' - InQueue(a))
               /\ InQueue(a)' \in Int
    <3>1. InWorker(w, a) = IF wres[w] = "lost" THEN 0 ELSE Net(j, a)
      BY <1>7 DEF InWorker, j
    <3>2. Net(j, a) \in Int /\ srv'[a] = srv[a] /\ bal[a] \in Int /\ lost[a] \in Int /\ srv[a] \in Int
      BY <1>1, <1>3, <2>1, NetFacts
    <3>3. CASE wres[w] = "lost"
      <4>1. bal'[a] = bal[a] - Net(j, a) /\ lost'[a] = lost[a] + Net(j, a) /\ InWorker(w, a) = 0
        BY <2>2, <2>3, <3>1, <3>3
      <4> QED BY <1>5, <2>5, <3>2, <4>1
    <3>4. CASE wres[w] # "lost"
      <4>1. bal'[a] = bal[a] - Net(j, a) /\ lost'[a] = lost[a] /\ InWorker(w, a) = Net(j, a)
        BY <2>2, <2>3, <3>1, <3>4
      <4> QED BY <1>5, <2>5, <3>2, <4>1
    <3> QED BY <3>3, <3>4
  <2>7. MoneyKept' /\ srv' \in [Accounts -> Nat] /\ recent' \in 0..MaxRecent
    BY <1>1, <1>3, <1>7 DEF MoneyKept
  <2>8. (jobs = <<>> => jobs' = <<>>) /\ UNCHANGED <<streamVars, closed, done, crashed>>
    BY <1>1
  <2> QED BY <1>1, <1>3, <1>4, <2>4, <2>5, <2>6, <2>7, <2>8, WorkerStepKeeps
<1> QED BY <1>6, <1>7 DEF handleJob

-----------------------------------------------------------------------------
(* The invariant.                                                          *)

\* A step that touches no job, no balance and no queue.
LEMMA QuietMainStep ==
    ASSUME ReservationInv, NoSendOnClosed',
           UNCHANGED <<bal, srv, lost, recent, streamVars, jobs, workerVars, faults>>,
           closed => closed', {closed', done', crashed'} \subseteq BOOLEAN
    PROVE  ReservationInv'
<1>1. /\ spc' = spc /\ sjob' = sjob /\ built' = built /\ jobs' = jobs
      /\ wpc' = wpc /\ wjob' = wjob /\ wres' = wres
  BY DEF streamVars, workerVars
<1>2. TypeOK'
  BY <1>1 DEF ReservationInv, LoadInv, TypeOK
<1>3. StreamJobs'
  BY <1>1, Zenon DEF ReservationInv, StreamJobs, GoodJob, SentJob
<1>4. QueuedJobs' /\ \A a \in Accounts : InQueue(a)' = InQueue(a)
  BY <1>1, QueueKept
<1>5. WorkerJobs'
  BY <1>1 DEF ReservationInv, WorkerJobs, GoodJob, SentJob
<1>6. MoneyKept' /\ JobsBounded'
  BY <1>1 DEF ReservationInv, MoneyKept, JobsBounded, UnderBuild
<1>7. PoolMatchesServer'
  <2> SUFFICES ASSUME NEW a \in Accounts
               PROVE  bal'[a] + lost'[a] = srv'[a] + (InStreams(a)' + InQueue(a)' + InWorkers(a)')
    BY DEF PoolMatchesServer, Outstanding
  <2>1. bal[a] + lost[a] = srv[a] + (InStreams(a) + InQueue(a) + InWorkers(a))
    BY DEF ReservationInv, PoolMatchesServer, Outstanding
  <2>2. InStreams(a)' = InStreams(a) /\ InWorkers(a)' = InWorkers(a)
    BY <1>1 DEF InStreams, InStream, InWorkers, InWorker
  <2> QED BY <1>4, <2>1, <2>2
<1>8. sjob' \in [Streams -> Job] /\ wjob' \in [Workers -> Job]
  BY <1>1 DEF ReservationInv
<1> QED BY <1>2, <1>3, <1>4, <1>5, <1>6, <1>7, <1>8 DEF ReservationInv, LoadInv

\* Cancel, close(jobs) and the panic.
LEMMA MainKeeps ==
    ASSUME ReservationInv, Cancel \/ CloseJobs \/ RngPanic PROVE ReservationInv'
<1>1. NoSendOnClosed /\ {closed, done, crashed} \subseteq BOOLEAN
  BY DEF ReservationInv, LoadInv, TypeOK
<1>2. CASE Cancel
  <2>1. NoSendOnClosed'
    BY <1>1, <1>2 DEF Cancel, NoSendOnClosed, streamVars
  <2> QED BY <1>1, <1>2, <2>1, QuietMainStep DEF Cancel
<1>3. CASE CloseJobs
  <2>1. NoSendOnClosed'
    BY <1>3 DEF CloseJobs, NoSendOnClosed, streamVars
  <2> QED BY <1>1, <1>3, <2>1, QuietMainStep DEF CloseJobs
<1>4. CASE RngPanic
  <2>1. NoSendOnClosed'
    BY <1>1, <1>4 DEF RngPanic, NoSendOnClosed, streamVars
  <2> QED BY <1>1, <1>4, <2>1, QuietMainStep DEF RngPanic
<1> QED BY <1>2, <1>3, <1>4

\* Nothing changes.
LEMMA StutterKeeps == ASSUME ReservationInv, UNCHANGED vars PROVE ReservationInv'
<1>1. /\ UNCHANGED <<bal, srv, lost, recent, streamVars, jobs, workerVars, faults>>
      /\ closed' = closed /\ done' = done /\ crashed' = crashed
  BY DEF vars
<1>2. NoSendOnClosed' /\ {closed, done, crashed} \subseteq BOOLEAN
  BY <1>1 DEF ReservationInv, LoadInv, TypeOK, NoSendOnClosed, streamVars
<1> QED BY <1>1, <1>2, QuietMainStep

\* An empty queue holds nothing.
LEMMA EmptyQueue == ASSUME jobs = <<>>, NEW a PROVE InQueue(a) = 0
<1> DEFINE f == [i \in DOMAIN jobs |-> Net(jobs[i], a)]
<1>1. Len(jobs) = 0 /\ DOMAIN jobs = 1 .. 0 /\ 1 .. 0 = {}
  OBVIOUS
<1>2. f \in [1 .. 0 -> Int] /\ \A i \in 1 .. 0 : f[i] = 0
  BY <1>1
<1>3. InQueue(a) = SumTo(f, 0)
  BY <1>1 DEF InQueue
<1> HIDE DEF f
<1> QED BY <1>2, <1>3, SumToZero

\* No job is open when the load starts.
LEMMA InitReservation == ASSUME Init PROVE ReservationInv
<1> USE DEF Init
<1>1. \A s \in Streams : spc[s] = "wait" /\ sjob[s] = NoJob
  OBVIOUS
<1>2. \A w \in Workers : wpc[w] = "idle" /\ wjob[w] = NoJob /\ wres[w] = "none"
  OBVIOUS
<1>3. TypeOK
  <2>1. bal \in [Accounts -> Int] /\ srv \in [Accounts -> Nat] /\ lost \in [Accounts -> Int]
    BY LoadgenAssumption
  <2>2. recent \in 0..MaxRecent /\ built \in 0..MaxJobs /\ faults \in 0..MaxFaults
    BY LoadgenAssumption
  <2>3. Len(jobs) <= QueueSize
    BY LoadgenAssumption
  <2> QED BY <1>1, <1>2, <2>1, <2>2, <2>3 DEF TypeOK
<1>4. NoSendOnClosed
  BY DEF NoSendOnClosed
<1>5. sjob \in [Streams -> Job] /\ wjob \in [Workers -> Job]
  BY NoJobFacts
<1>6. StreamJobs
  BY <1>1, NoJobFacts DEF StreamJobs
<1>7. QueuedJobs
  BY DEF QueuedJobs
<1>8. WorkerJobs
  BY <1>2 DEF WorkerJobs
<1>9. MoneyKept
  BY DEF MoneyKept
<1>10. JobsBounded
  <2>1. UnderBuild = {}
    BY <1>1 DEF UnderBuild
  <2> QED BY <2>1, FS_EmptySet, LoadgenAssumption DEF JobsBounded
<1>11. PoolMatchesServer
  <2> SUFFICES ASSUME NEW a \in Accounts PROVE bal[a] + lost[a] = srv[a] + Outstanding(a)
    BY DEF PoolMatchesServer
  <2>1. InStreams(a) = 0
    BY <1>1, NoJobFacts DEF InStreams, InStream
  <2>2. InQueue(a) = 0
    <3>1. jobs = <<>>
      OBVIOUS
    <3> QED BY <3>1, EmptyQueue
  <2>3. InWorkers(a) = 0
    <3> DEFINE f == [w \in Workers |-> InWorker(w, a)]
    <3>1. \A w \in 1 .. NumWorkers : InWorker(w, a) = 0
      BY <1>2, NoJobFacts DEF InWorker, Workers
    <3>2. f \in [1 .. NumWorkers -> Int] /\ \A w \in 1 .. NumWorkers : f[w] = 0
      BY <3>1 DEF Workers
    <3> HIDE DEF f
    <3>3. SumTo(f, NumWorkers) = 0
      BY <3>2, SumToZero, LoadgenAssumption
    <3> QED BY <3>3 DEF InWorkers, f
  <2>4. bal[a] \in Int /\ lost[a] = 0 /\ srv[a] = bal[a]
    BY LoadgenAssumption
  <2> QED BY <2>1, <2>2, <2>3, <2>4 DEF Outstanding
<1> QED BY <1>3, <1>4, <1>5, <1>6, <1>7, <1>8, <1>9, <1>10, <1>11 DEF ReservationInv, LoadInv

\* Every step keeps the reservations accounted for.
LEMMA ReservationStep == ASSUME ReservationInv, [Next]_vars PROVE ReservationInv'
<1>1. ASSUME NEW s \in Streams, StreamStep(s) PROVE ReservationInv'
  <2>1. CASE StartBuild(s)
    BY <2>1, StartBuildKeeps
  <2>2. CASE BuildStep(s)
    BY <2>2, BuildValidKeeps, ReserveValidKeeps, BuildInvalidBalanceKeeps,
       BuildInvalidCurrencyKeeps, buildStatsKeeps, BuildFailsKeeps DEF BuildStep
  <2>3. CASE Dispatch(s)
    BY <2>3, DispatchKeeps
  <2> QED BY <1>1, <2>1, <2>2, <2>3 DEF StreamStep
<1>2. ASSUME NEW s \in Streams, StopStream(s) PROVE ReservationInv'
  BY <1>2, StopStreamKeeps
<1>3. ASSUME NEW w \in Workers, WorkerStep(w) PROVE ReservationInv'
  <2>1. CASE TakeJob(w)
    BY <2>1, TakeJobKeeps
  <2>2. CASE CreateTx(w)
    BY <2>2, CreateTxKeeps
  <2>3. CASE GetTransaction(w)
    BY <2>3, GetTransactionKeeps
  <2>4. CASE handleJob(w)
    BY <2>4, handleJobKeeps
  <2>5. CASE WorkerExit(w)
    BY <2>5, WorkerExitKeeps
  <2> QED BY <1>3, <2>1, <2>2, <2>3, <2>4, <2>5 DEF WorkerStep
<1>4. CASE Cancel \/ CloseJobs \/ RngPanic
  BY <1>4, MainKeeps
<1>5. CASE UNCHANGED vars
  BY <1>5, StutterKeeps
<1> QED BY <1>1, <1>2, <1>3, <1>4, <1>5 DEF Next, Terminated

\* Every reservation is accounted for, wherever its job is (pool.go:123,
\* pool.go:143, core.go:209).
THEOREM ReservationInductive == Spec => []ReservationInv
<1>1. Init => ReservationInv
  BY InitReservation
<1>2. ReservationInv /\ [Next]_vars => ReservationInv'
  BY ReservationStep
<1> QED BY <1>1, <1>2, PTL DEF Spec

\* The values keep their kinds and bounds, and the channel is closed behind the
\* last send (core.go:204): no stream panics on a closed channel.
THEOREM ChannelDiscipline == Spec => []LoadInv
<1>1. ReservationInv => LoadInv
  BY DEF ReservationInv
<1> QED BY <1>1, ReservationInductive, PTL

\* The local balances agree with the gateway's up to the jobs under way and the
\* transfers whose answer was lost (pool.go:123-152).
THEOREM PoolAgrees == Spec => []PoolMatchesServer
<1>1. ReservationInv => PoolMatchesServer
  BY DEF ReservationInv
<1> QED BY <1>1, ReservationInductive, PTL

\* When the last worker has left, no reservation is open (core.go:206).
LEMMA FinishedSettled == ASSUME ReservationInv PROVE Settled
<1> SUFFICES ASSUME Finished, NEW a \in Accounts PROVE bal[a] + lost[a] = srv[a]
  BY DEF Settled
<1>1. \A w \in Workers : wpc[w] = "exit" /\ wjob[w] = NoJob
  BY DEF Finished, ReservationInv, WorkerJobs
<1>2. closed /\ jobs = <<>>
  <2>1. 1 \in Workers
    BY LoadgenAssumption DEF Workers
  <2> QED BY <1>1, <2>1 DEF ReservationInv, WorkerJobs
<1>3. \A s \in Streams : sjob[s] = NoJob
  BY <1>2 DEF ReservationInv, LoadInv, NoSendOnClosed, StreamJobs
<1>4. InStreams(a) = 0
  BY <1>3, NoJobFacts DEF InStreams, InStream
<1>5. InQueue(a) = 0
  BY <1>2, EmptyQueue
<1>6. InWorkers(a) = 0
  <2> DEFINE f == [w \in Workers |-> InWorker(w, a)]
  <2>1. \A w \in 1 .. NumWorkers : InWorker(w, a) = 0
    BY <1>1, NoJobFacts DEF InWorker, Workers
  <2>2. f \in [1 .. NumWorkers -> Int] /\ \A w \in 1 .. NumWorkers : f[w] = 0
    BY <2>1 DEF Workers
  <2> HIDE DEF f
  <2>3. SumTo(f, NumWorkers) = 0
    BY <2>2, SumToZero, LoadgenAssumption
  <2> QED BY <2>3 DEF InWorkers, f
<1>7. bal[a] \in Int /\ lost[a] \in Int /\ srv[a] \in Int
  BY DEF ReservationInv, LoadInv, TypeOK
<1> QED BY <1>4, <1>5, <1>6, <1>7 DEF ReservationInv, PoolMatchesServer, Outstanding

\* When runLoad returns the pool agrees with the gateway up to the lost answers.
THEOREM SettledAtTheEnd == Spec => []Settled
<1>1. ReservationInv => Settled
  BY FinishedSettled
<1> QED BY <1>1, ReservationInductive, PTL
=============================================================================
