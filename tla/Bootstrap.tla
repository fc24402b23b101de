------------------------------ MODULE Bootstrap -----------------------------
(***************************************************************************)
(* The load generator from its start to its load phase and its end         *)
(* (cmd/loadgen, LoadGenWorker, bootstrapAccounts, CreateAccounts), as a   *)
(* client of gateway pods that come and go: GatewayMain is the pods,       *)
(* Resolver what the client's connection knows of them.  The load phase    *)
(* itself is Loadgen, which starts with the balances collected here.       *)
(*                                                                         *)
(* A call is made with WaitForReady: it waits for a pod that serves among  *)
(* the resolver's addresses.  It fails when its pod dies, when the handler *)
(* returns an error, or when ctx is cancelled (the handler then ends too). *)
(***************************************************************************)
EXTENDS Resolver

CONSTANTS
    BootstrapWorkers,  \* goroutines of CreateAccounts
    Main,              \* the goroutine of bootstrapAccounts
    Currencies,        \* GetValidCurrencies, in an order of its own (it ranges over a map)
    PerCurrency,       \* UsersAmount / len(currencies), at least 1
    OpeningBalances    \* balances CreateAccount may open with

ASSUME BootstrapAssumption ==
    /\ Rpc = BootstrapWorkers \cup {Main} /\ Main \notin BootstrapWorkers
    /\ IsFiniteSet(BootstrapWorkers)
    /\ PerCurrency \in Nat \ {0} /\ OpeningBalances \subseteq Nat
    /\ Currencies \in Seq(Nat) /\ Currencies # <<>>

VARIABLES
    accounts,      \* rows of ledger.accounts; an id is an index
    call,          \* per goroutine: no call, or what it is calling
    at,            \* the pod that has taken the call
    made,          \* the id CreateAccount returned (0 before)
    bpc,           \* probe, batch, load, close or ended
    next,          \* the batch, an index of Currencies; 0 before
    slots,         \* jobs left in the channel
    results, errs, \* what the workers of the batch have sent
    pool,          \* AccountPool
    cancelled      \* ctx is done

batchVars == <<next, slots, results, errs>>
clientVars == <<accounts, call, at, made, bpc, batchVars, pool, cancelled>>
bootVars == <<gatewayVars, resolverVars, clientVars>>

NoPod == NoAnswer

Init ==
    /\ GatewayInit /\ ResolverInit
    /\ accounts = <<>>
    /\ call = [r \in Rpc |-> "none"] /\ at = [r \in Rpc |-> NoPod]
    /\ made = [r \in Rpc |-> 0]
    /\ bpc = "probe" /\ next = 0
    /\ slots = 0 /\ results = {} /\ errs = 0
    /\ pool = {} /\ cancelled = FALSE

-----------------------------------------------------------------------------
(* Calls.                                                                  *)

Begin(r, op) == call' = [call EXCEPT ![r] = op]

\* The first call connects; grpc.NewClient did not.
Connect ==
    /\ \E r \in Rpc : call[r] # "none"
    /\ Build
    /\ UNCHANGED <<gatewayVars, clientVars>>

Send(r) ==
    /\ call[r] \in {"create", "balance"} /\ at[r] = NoPod
    /\ \E p \in addrs : Accept(p, r) /\ at' = [at EXCEPT ![r] = p]
    /\ UNCHANGED <<wanted, gpc, deferred, broken, signalled, faults, resolverVars,
                   accounts, call, made, bpc, batchVars, pool, cancelled>>

Handling(r, op) == call[r] = op /\ at[r] # NoPod /\ r \in handling[at[r]]

\* The rows with one more account; the probe asks for the first currency.
OneMore(r) ==
    LET cur == Currencies[IF r = Main THEN 1 ELSE next] IN
    {Append(accounts, [currency |-> cur, balance |-> b]) : b \in OpeningBalances}

Hangup(r) ==
    /\ Done(at[r], r)
    /\ at' = [at EXCEPT ![r] = NoPod]
    /\ UNCHANGED <<wanted, gpc, deferred, broken, signalled>>

curr == Currencies[next]

StartBatch(n) ==
    /\ next' = n
    /\ slots' = PerCurrency /\ results' = {} /\ errs' = 0
    /\ bpc' = "batch"

\* The upstream is ready: the probe's account is not kept.
ProbeAnswered ==
    /\ Handling(Main, "create")
    /\ Hangup(Main)
    /\ accounts' \in OneMore(Main)
    /\ Begin(Main, "none")
    /\ StartBatch(1)
    /\ UNCHANGED <<faults, resolverVars, made, pool, cancelled>>

\* The account is there; its balance is asked for next.
CreateAnswered(w) ==
    /\ Handling(w, "create")
    /\ Hangup(w)
    /\ accounts' \in OneMore(w)
    /\ made' = [made EXCEPT ![w] = Len(accounts')]
    /\ Begin(w, "balance")
    /\ UNCHANGED <<faults, resolverVars, bpc, batchVars, pool, cancelled>>

WorkerDone(w) == Begin(w, "none") /\ made' = [made EXCEPT ![w] = 0]

\* Mutant: the account is taken to be empty.
GetBalanceSkipped(w) ==
    /\ Handling(w, "balance")
    /\ Hangup(w)
    /\ results' = results \cup {[id |-> made[w], currency |-> curr, balance |-> 0]}
    /\ WorkerDone(w)
    /\ UNCHANGED <<faults, resolverVars, accounts, bpc, next, slots, errs, pool, cancelled>>

\* GetBalance reads the row, and the worker sends what it knows.
GetBalance(w) ==
    /\ Handling(w, "balance")
    /\ Hangup(w)
    /\ results' = results \cup
         {[id |-> made[w], currency |-> curr, balance |-> accounts[made[w]].balance]}
    /\ WorkerDone(w)
    /\ UNCHANGED <<faults, resolverVars, accounts, bpc, next, slots, errs, pool, cancelled>>

\* The pod died, ctx is done, or the handler failed; a CreateAccount that had
\* reached a pod may have committed all the same.
CallFails(r) ==
    /\ call[r] # "none"
    /\ \/ at[r] # NoPod /\ r \notin handling[at[r]] /\ at' = [at EXCEPT ![r] = NoPod]
          /\ UNCHANGED gatewayVars
       \/ cancelled /\ at[r] = NoPod /\ UNCHANGED <<at, gatewayVars>>
       \/ Handling(r, call[r]) /\ Hangup(r) /\ cancelled /\ UNCHANGED faults
       \/ Handling(r, call[r]) /\ Hangup(r) /\ Fault
    /\ \/ UNCHANGED accounts
       \/ at[r] # NoPod /\ call[r] = "create" /\ accounts' \in OneMore(r)
    /\ UNCHANGED <<resolverVars, bpc, next, slots, results, pool, cancelled>>

\* The loop of bootstrapAccounts sleeps and tries again.
ProbeFails == CallFails(Main) /\ Begin(Main, "none") /\ UNCHANGED <<made, errs>>

\* Mutant: errorsCh has no room, and nobody reads before wg.Wait().
CreateFailsBlocked(w) ==
    /\ CallFails(w) /\ FALSE
    /\ WorkerDone(w) /\ errs' = errs + 1

\* Mutant: no continue behind a failed GetBalance.
CreateFailsThrough(w) ==
    /\ call[w] = "balance"
    /\ at[w] # NoPod /\ w \notin handling[at[w]] /\ at' = [at EXCEPT ![w] = NoPod]
    /\ errs' = errs + 1
    /\ results' = results \cup {[id |-> made[w], currency |-> curr, balance |-> accounts[made[w]].balance]}
    /\ WorkerDone(w)
    /\ UNCHANGED <<gatewayVars, resolverVars, accounts, bpc, next, slots, pool, cancelled>>

\* errorsCh <- struct{}{}, and the next job.
CreateFails(w) ==
    /\ CallFails(w)
    /\ WorkerDone(w) /\ errs' = errs + 1

-----------------------------------------------------------------------------
(* bootstrapAccounts, CreateAccounts and LoadGenWorker.                    *)

\* Mutant: the loop does not look at ctx.
ProbeForever ==
    /\ bpc = "probe" /\ call[Main] = "none"
    /\ Begin(Main, "create")
    /\ UNCHANGED <<gatewayVars, resolverVars, accounts, at, made, bpc, batchVars, pool, cancelled>>

\* The loop looks at ctx before each probe.
Probe ==
    /\ bpc = "probe" /\ call[Main] = "none"
    /\ \/ ~cancelled /\ Begin(Main, "create") /\ UNCHANGED bpc
       \/ cancelled /\ bpc' = "close" /\ UNCHANGED call
    /\ UNCHANGED <<gatewayVars, resolverVars, accounts, at, made, batchVars, pool, cancelled>>

TakeSlot(w) ==
    /\ bpc = "batch" /\ call[w] = "none" /\ slots > 0
    /\ slots' = slots - 1
    /\ Begin(w, "create")
    /\ UNCHANGED <<gatewayVars, resolverVars, accounts, at, made, bpc, next, results,
                   errs, pool, cancelled>>

\* wg.Wait(); the results go into the pool, however many errors there were.
\* Behind the last currency two accounts are enough for the load.
Collect ==
    /\ bpc = "batch" /\ slots = 0 /\ \A w \in BootstrapWorkers : call[w] = "none"
    /\ pool' = pool \cup results
    /\ \/ next < Len(Currencies) /\ StartBatch(next + 1)
       \/ /\ next = Len(Currencies) /\ results' = {} /\ errs' = 0
          /\ bpc' = IF Cardinality(pool') < 2 THEN "close" ELSE "load"
          /\ UNCHANGED <<next, slots>>
    /\ UNCHANGED <<gatewayVars, resolverVars, accounts, call, at, made, cancelled>>

\* runLoad returns once ctx is done.
LoadEnds ==
    /\ bpc = "load" /\ cancelled
    /\ bpc' = "close"
    /\ UNCHANGED <<gatewayVars, resolverVars, accounts, call, at, made, batchVars, pool, cancelled>>

\* conn.Close() closes the resolver, if there ever was one.
CloseConn ==
    /\ bpc = "close"
    /\ Close
    /\ UNCHANGED <<gatewayVars, clientVars>>

CloseReturns ==
    /\ CloseWait
    /\ UNCHANGED <<gatewayVars, clientVars>>

Exit ==
    /\ bpc = "close" /\ rstate \in {"new", "closed"}
    /\ bpc' = "ended"
    /\ UNCHANGED <<gatewayVars, resolverVars, accounts, call, at, made, batchVars, pool, cancelled>>

\* SIGTERM, or LOAD_DURATION has passed.
Cancel ==
    /\ ~cancelled /\ cancelled' = TRUE
    /\ UNCHANGED <<gatewayVars, resolverVars, accounts, call, at, made, bpc, batchVars, pool>>

-----------------------------------------------------------------------------

\* gRPC has lost a connection.
Reresolve ==
    /\ \E p \in addrs : ~Serving(p)
    /\ ResolveNow
    /\ UNCHANGED <<gatewayVars, clientVars>>

WatchGoroutine == WatchStep /\ UNCHANGED <<gatewayVars, clientVars>>
NowGoroutine == NowStep /\ UNCHANGED <<gatewayVars, clientVars>>

PodStep(p) == MainProgress(p) /\ UNCHANGED <<resolverVars, clientVars>>
PodFault(p) == MainFault(p) /\ UNCHANGED <<resolverVars, clientVars>>

WorkerGoroutine(w) ==
    \/ TakeSlot(w) \/ Send(w) \/ CreateAnswered(w) \/ GetBalance(w) \/ CreateFails(w)

MainGoroutine ==
    \/ Probe \/ Connect \/ Send(Main) \/ ProbeAnswered \/ ProbeFails
    \/ Collect \/ LoadEnds \/ CloseConn \/ CloseReturns \/ Exit

\* The load generator is gone, and the pods serve.
Ended == bpc = "ended" /\ UNCHANGED bootVars

Next ==
    \/ \E p \in Pod : PodStep(p) \/ PodFault(p)
    \/ \E w \in BootstrapWorkers : WorkerGoroutine(w)
    \/ MainGoroutine \/ WatchGoroutine \/ NowGoroutine \/ Reresolve
    \/ Cancel \/ Ended

Spec == Init /\ [][Next]_bootVars

\* The cluster restarts pods, goroutines run, pings, lookups and calls return,
\* ticks come, and a select that may choose ctx.Done() again and again does.
\* Signals, failures and cancellation need not come.
FairSpec ==
    /\ Spec
    /\ \A p \in Pod : WF_bootVars(PodStep(p))
    /\ \A w \in BootstrapWorkers : WF_bootVars(WorkerGoroutine(w))
    /\ SF_bootVars(MainGoroutine)
    /\ WF_bootVars(WatchGoroutine) /\ WF_bootVars(NowGoroutine)

-----------------------------------------------------------------------------

Currency == {Currencies[i] : i \in DOMAIN Currencies}
Row == [currency : Currency, balance : Nat]
Account == [id : Nat \ {0}, currency : Currency, balance : Nat]

ClientTypeOK ==
    /\ accounts \in Seq(Row)
    /\ call \in [Rpc -> {"none", "create", "balance"}]
    /\ at \in [Rpc -> Pod \cup {NoPod}]
    /\ made \in [Rpc -> 0 .. Len(accounts)]
    /\ bpc \in {"probe", "batch", "load", "close", "ended"}
    /\ slots \in 0 .. PerCurrency /\ errs \in 0 .. PerCurrency
    /\ results \subseteq Account /\ pool \subseteq Account

\* Every variable holds values of its kind.
BootTypeOK == ResolverTypeOK /\ (\A p \in Pod : handling[p] \subseteq Rpc) /\ ClientTypeOK

\* Each job of a batch is in the channel, with a worker, or has become exactly
\* one result or one error, so that neither channel ever overflows.
SlotsAccounted ==
    bpc = "batch" =>
        slots + Cardinality({w \in BootstrapWorkers : call[w] # "none"})
              + Cardinality(results) + errs = PerCurrency

\* What CreateAccounts and the resolver keep at every step: values of their kind,
\* jobs that end exactly once, and a Close behind which nothing runs.
BootInv == BootTypeOK /\ SlotsAccounted /\ NothingAfterClose

\* A call at work in a pod always finds the pool and the clients open: main
\* closes nothing before GracefulStop has seen the last handler return, and
\* serves nothing before everything is open.
NoUseAfterClose ==
    \A p \in Pod : handling[p] # {} => deferred[p] = Clients

\* What is collected is what the gateway has: the load phase starts from an
\* index of distinct accounts with the balances and currencies of their rows,
\* although calls fail at any point and leave accounts behind.
PoolFaithful ==
    /\ \A x \in pool \cup results :
        x.id \in DOMAIN accounts /\ accounts[x.id] = [currency |-> x.currency, balance |-> x.balance]
    /\ \A x, y \in pool \cup results : x.id = y.id => x = y

-----------------------------------------------------------------------------
(* The inductive invariant.                                                *)

\* Who may be calling what: main only to probe, a worker only within its batch,
\* and an account whose balance is asked for is one of that batch's currency
\* that nobody else has or has delivered.
Callers ==
    /\ call[Main] # "none" => bpc = "probe" /\ call[Main] = "create"
    /\ bpc = "batch" => next \in DOMAIN Currencies
    /\ IsFiniteSet(results)
    /\ \A w \in BootstrapWorkers :
        /\ call[w] # "none" => bpc = "batch"
        /\ call[w] # "balance" => made[w] = 0
        /\ call[w] = "balance" =>
            /\ made[w] \in DOMAIN accounts /\ accounts[made[w]].currency = curr
            /\ \A x \in pool \cup results : x.id # made[w]
            /\ \A v \in BootstrapWorkers \ {w} : made[v] # made[w]

ClientInv == ClientTypeOK /\ Callers /\ SlotsAccounted /\ PoolFaithful

BootstrapInv == PodInv /\ ResolverInv /\ ClientInv

-----------------------------------------------------------------------------

\* A pod that was told to stop, or whose server failed, ends (and is replaced):
\* neither a handler nor a deferred Close keeps it.
PodsEnd == \A p \in Pod : p \in broken \cup signalled ~> gpc[p] = "off"

\* The bootstrap gets over pods that are not there yet, go away or fail calls.
BootstrapEnds == <>(bpc \in {"load", "close", "ended"})

\* After SIGTERM the load generator exits, whatever it was doing.
LoadgenExits == cancelled ~> bpc = "ended"
=============================================================================
