----------------------------- MODULE GatewayMain ----------------------------
(***************************************************************************)
(* main of cmd/gateway, one process per pod: it opens the pool and the two *)
(* Redis clients, pings them, serves, and on a signal or a failing server  *)
(* stops gracefully and runs its deferred Close calls.  The cluster starts *)
(* it again, unless there is to be one pod less.                           *)
(*                                                                         *)
(* A handler is one RPC at work in the pod.  Left out: configuration, and  *)
(* the goroutines that calls leave behind (StatsProjection!PublishFails,   *)
(* Idempotency!Crash).                                                     *)
(***************************************************************************)
EXTENDS Integers, Sequences, FiniteSets

CONSTANTS
    Pod,           \* gateway processes
    Rpc,           \* calls a client may have under way
    MaxFaults       \* bound on signals, failures, kills and failed calls

ASSUME FaultsAssumption == MaxFaults \in Nat

VARIABLES
    wanted,        \* the pods the cluster keeps running
    gpc,           \* what main does next
    deferred,      \* the clients it has opened, each with a deferred Close
    handling,      \* the RPCs in the handlers
    broken,        \* the metrics or the gRPC server has failed (errCh)
    signalled,     \* SIGTERM is in quit
    faults          \* signals, failures, kills and failed calls so far

gatewayVars == <<wanted, gpc, deferred, handling, broken, signalled, faults>>

GatewayInit ==
    /\ wanted = Pod
    /\ gpc = [p \in Pod |-> "off"]
    /\ deferred = [p \in Pod |-> <<>>]
    /\ handling = [p \in Pod |-> {}]
    /\ broken = {} /\ signalled = {}
    /\ faults = 0

Serving(p) == gpc[p] = "serve"

MainTo(p, l) == gpc' = [gpc EXCEPT ![p] = l]

Defer(p, clients) == deferred' = [deferred EXCEPT ![p] = @ \o clients]

-----------------------------------------------------------------------------
(* Starting.                                                               *)

\* pgxpool.NewWithConfig and its ping; the Redis clients are made behind them.
PingPostgres(p) ==
    /\ gpc[p] = "off" /\ p \in wanted
    /\ MainTo(p, "ping_redis") /\ Defer(p, <<"pool", "rdb", "irdb">>)
    /\ UNCHANGED <<wanted, handling, broken, signalled, faults>>

\* Both clients answer, the idempotency store first.  The pings that warm their
\* pools may fail: they are only logged.
PingRedis(p) ==
    /\ gpc[p] = "ping_redis"
    /\ MainTo(p, "listen") /\ Defer(p, <<"kafka">>)
    /\ UNCHANGED <<wanted, handling, broken, signalled, faults>>

\* net.Listen, tel.Start, the goroutine with server.Serve, signal.Notify.
Listen(p) ==
    /\ gpc[p] = "listen"
    /\ MainTo(p, "serve")
    /\ UNCHANGED <<wanted, deferred, handling, broken, signalled, faults>>

\* The end of the process: its connections and its calls are gone.
Gone(p) ==
    /\ MainTo(p, "off")
    /\ deferred' = [deferred EXCEPT ![p] = <<>>]
    /\ handling' = [handling EXCEPT ![p] = {}]
    /\ broken' = broken \ {p} /\ signalled' = signalled \ {p}

Fault == faults < MaxFaults /\ faults' = faults + 1

Starting(p) == gpc[p] \in {"ping_redis", "listen"}

\* A Redis ping or net.Listen fails: os.Exit(1), without the deferred calls.
\* (Before that there is nothing to lose.)
StartFails(p) == Starting(p) /\ Fault /\ Gone(p) /\ UNCHANGED wanted

-----------------------------------------------------------------------------
(* Stopping.                                                               *)

\* A restart, or one pod less from now on.  Before signal.Notify a signal ends
\* the process, behind it main is told.
Signal(p) ==
    /\ gpc[p] # "off" /\ Fault
    /\ \/ UNCHANGED wanted
       \/ wanted # {p} /\ wanted' = wanted \ {p}
    /\ \/ Starting(p) /\ Gone(p)
       \/ ~Starting(p) /\ signalled' = signalled \cup {p}
          /\ UNCHANGED <<gpc, deferred, handling, broken>>

\* ListenAndServe or Serve returns an error.
ServerFails(p) ==
    /\ Serving(p) /\ Fault
    /\ broken' = broken \cup {p}
    /\ UNCHANGED <<wanted, gpc, deferred, handling, signalled>>

\* SIGKILL, out of memory, a panic.
Kill(p) == gpc[p] # "off" /\ Fault /\ Gone(p) /\ UNCHANGED wanted

\* Mutant: main waits for signals only.
AwaitQuitOnly(p) ==
    /\ Serving(p) /\ p \in signalled
    /\ MainTo(p, "drain")
    /\ UNCHANGED <<wanted, deferred, handling, broken, signalled, faults>>

\* The select over errCh and quit.
AwaitQuit(p) ==
    /\ Serving(p) /\ p \in broken \cup signalled
    /\ MainTo(p, "drain")
    /\ UNCHANGED <<wanted, deferred, handling, broken, signalled, faults>>

\* Mutant: the handlers are not waited for.
GracefulStopNow(p) ==
    /\ gpc[p] = "drain"
    /\ MainTo(p, "close")
    /\ UNCHANGED <<wanted, deferred, handling, broken, signalled, faults>>

\* server.GracefulStop takes no new calls and waits for the handlers.
GracefulStop(p) ==
    /\ gpc[p] = "drain" /\ handling[p] = {}
    /\ MainTo(p, "close")
    /\ UNCHANGED <<wanted, deferred, handling, broken, signalled, faults>>

\* tel.Stop, within five seconds or not, and the deferred Close calls.
RunDeferred(p) ==
    /\ gpc[p] = "close" /\ deferred[p] # <<>>
    /\ deferred' = [deferred EXCEPT ![p] = <<>>]
    /\ UNCHANGED <<wanted, gpc, handling, broken, signalled, faults>>

\* main returns.
Return(p) == gpc[p] = "close" /\ deferred[p] = <<>> /\ Gone(p) /\ UNCHANGED <<wanted, faults>>

-----------------------------------------------------------------------------

MainProgress(p) ==
    \/ PingPostgres(p) \/ PingRedis(p) \/ Listen(p)
    \/ AwaitQuit(p) \/ GracefulStop(p) \/ RunDeferred(p) \/ Return(p)

MainFault(p) == StartFails(p) \/ Signal(p) \/ ServerFails(p) \/ Kill(p)

\* server.Serve accepts calls until GracefulStop.
Accept(p, r) ==
    /\ Serving(p)
    /\ handling' = [handling EXCEPT ![p] = @ \cup {r}]

Done(p, r) == handling' = [handling EXCEPT ![p] = @ \ {r}]

-----------------------------------------------------------------------------

Clients == <<"pool", "rdb", "irdb", "kafka">>

\* What is open at each point of main; behind "close" the deferred calls close it.
\* Handlers are at work only between the start of the server and GracefulStop.
PodInv ==
    /\ gpc \in [Pod -> {"off", "ping_redis", "listen", "serve", "drain", "close"}]
    /\ DOMAIN deferred = Pod
    /\ handling \in [Pod -> SUBSET Rpc]
    /\ \A p \in Pod :
        /\ gpc[p] = "off" => deferred[p] = <<>>
        /\ gpc[p] = "ping_redis" => deferred[p] = <<"pool", "rdb", "irdb">>
        /\ gpc[p] \in {"listen", "serve", "drain"} => deferred[p] = Clients
        /\ handling[p] # {} => gpc[p] \in {"serve", "drain"}
=============================================================================
