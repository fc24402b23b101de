--------------------------- MODULE BootstrapProofs --------------------------
(***************************************************************************)
(* The load generator's bootstrap against gateway pods that come and go:   *)
(* BootstrapInv is inductive for every set of pods and workers, and BootInv,*)
(* NoUseAfterClose and PoolFaithful follow.  Its three parts have variables *)
(* of their own, and so has each group of lemmas below: the pods, the       *)
(* resolver, and the client.                                               *)
(***************************************************************************)
EXTENDS Bootstrap, FiniteSetTheorems, SequenceTheorems, TLAPS

-----------------------------------------------------------------------------
(* The pods.                                                               *)

\* The conditions on one pod.
PodOK(p) ==
    /\ gpc[p] = "off" => deferred[p] = <<>>
    /\ gpc[p] = "ping_redis" => deferred[p] = <<"pool", "rdb", "irdb">>
    /\ gpc[p] \in {"listen", "serve", "drain"} => deferred[p] = Clients
    /\ handling[p] # {} => gpc[p] \in {"serve", "drain"}

Points == {"off", "ping_redis", "listen", "serve", "drain", "close"}

\* A step of one pod has to be looked at in that pod only.
LEMMA PodFrame ==
    ASSUME PodInv, NEW p \in Pod, NEW l \in Points, NEW d, NEW h \in SUBSET Rpc,
           gpc' = [gpc EXCEPT ![p] = l], deferred' = [deferred EXCEPT ![p] = d],
           handling' = [handling EXCEPT ![p] = h],
           l = "off" => d = <<>>,
           l = "ping_redis" => d = <<"pool", "rdb", "irdb">>,
           l \in {"listen", "serve", "drain"} => d = Clients,
           h # {} => l \in {"serve", "drain"}
    PROVE  PodInv'
<1>1. /\ gpc \in [Pod -> Points] /\ DOMAIN deferred = Pod /\ handling \in [Pod -> SUBSET Rpc]
      /\ \A q \in Pod : PodOK(q)
  BY DEF PodInv, Points, PodOK
<1>2. gpc' \in [Pod -> Points] /\ DOMAIN deferred' = Pod /\ handling' \in [Pod -> SUBSET Rpc]
  BY <1>1
<1>3. ASSUME NEW q \in Pod PROVE PodOK(q)'
  <2>1. CASE q = p
    <3>1. gpc'[q] = l /\ deferred'[q] = d /\ handling'[q] = h
      BY <1>1, <2>1
    <3> QED BY <3>1 DEF PodOK, Clients
  <2>2. CASE q # p
    <3>1. gpc'[q] = gpc[q] /\ deferred'[q] = deferred[q] /\ handling'[q] = handling[q]
      BY <1>1, <2>2
    <3> QED BY <1>1, <3>1 DEF PodOK, Clients
  <2> QED BY <2>1, <2>2
<1> QED BY <1>2, <1>3 DEF PodInv, PodOK, Points

\* The clients opened so far and the last one.
LEMMA Concat ==
    ASSUME NEW a, NEW b, NEW c, NEW d PROVE <<a, b, c>> \o <<d>> = <<a, b, c, d>>
<1> DEFINE S == {a, b, c, d}
           s == <<a, b, c>>
           t == <<d>>
<1>1. s \in Seq(S) /\ t \in Seq(S) /\ Len(s) = 3 /\ Len(t) = 1
  OBVIOUS
<1>2. s[1] = a /\ s[2] = b /\ s[3] = c /\ t[1] = d
  OBVIOUS
<1> HIDE DEF s, t, S
<1>3. /\ s \o t \in Seq(S) /\ Len(s \o t) = Len(s) + Len(t)
      /\ \A i \in 1 .. Len(s) + Len(t) : (s \o t)[i] = IF i <= Len(s) THEN s[i] ELSE t[i - Len(s)]
  BY <1>1, ConcatProperties
<1> DEFINE u == s \o t
<1>4. u \in Seq(S) /\ Len(u) = 4
  BY <1>1, <1>3
<1>5. \A i \in 1 .. 4 : u[i] = IF i <= 3 THEN s[i] ELSE t[i - 3]
  BY <1>1, <1>3
<1> HIDE DEF u
<1>6. u[1] = a /\ u[2] = b /\ u[3] = c
  BY <1>2, <1>5
<1>7. u[4] = d
  <2>1. u[4] = t[4 - 3] /\ 4 - 3 = 1
    BY <1>5
  <2> QED BY <1>2, <2>1
<1>8. u = <<a, b, c, d>>
  BY <1>4, <1>6, <1>7
<1> QED BY <1>8 DEF s, t, u

\* The end of a process leaves nothing open and nothing at work.
LEMMA GoneKeeps == ASSUME PodInv, NEW p \in Pod, Gone(p) PROVE PodInv'
<1>1. /\ gpc' = [gpc EXCEPT ![p] = "off"] /\ deferred' = [deferred EXCEPT ![p] = <<>>]
      /\ handling' = [handling EXCEPT ![p] = {}]
  BY DEF Gone, MainTo
<1> QED BY <1>1, PodFrame DEF Points

\* Nothing of the pods that matters here has changed.
LEMMA PodsSame == ASSUME PodInv, UNCHANGED <<gpc, deferred, handling>> PROVE PodInv'
BY DEF PodInv, Clients

\* A step of main.
LEMMA MainProgressKeeps == ASSUME PodInv, NEW p \in Pod, MainProgress(p) PROVE PodInv'
<1>1. /\ gpc \in [Pod -> Points] /\ DOMAIN deferred = Pod /\ handling \in [Pod -> SUBSET Rpc]
      /\ PodOK(p)
  BY DEF PodInv, Points, PodOK
<1>2. handling = [handling EXCEPT ![p] = handling[p]] /\ handling[p] \in SUBSET Rpc
  BY <1>1
<1>3. gpc = [gpc EXCEPT ![p] = gpc[p]] /\ gpc[p] \in Points
  BY <1>1
<1>4. CASE PingPostgres(p)
  <2>1. /\ gpc' = [gpc EXCEPT ![p] = "ping_redis"] /\ handling' = handling
        /\ deferred' = [deferred EXCEPT ![p] = deferred[p] \o <<"pool", "rdb", "irdb">>]
        /\ gpc[p] = "off"
    BY <1>4 DEF PingPostgres, MainTo, Defer
  <2>2. deferred[p] \o <<"pool", "rdb", "irdb">> = <<"pool", "rdb", "irdb">> /\ handling[p] = {}
    BY <1>1, <2>1 DEF PodOK
  <2> QED BY <1>2, <2>1, <2>2, PodFrame DEF Points
<1>5. CASE PingRedis(p)
  <2>1. /\ gpc' = [gpc EXCEPT ![p] = "listen"] /\ handling' = handling
        /\ deferred' = [deferred EXCEPT ![p] = deferred[p] \o <<"kafka">>]
        /\ gpc[p] = "ping_redis"
    BY <1>5 DEF PingRedis, MainTo, Defer
  <2>2. deferred[p] \o <<"kafka">> = Clients /\ handling[p] = {}
    <3>1. <<"pool", "rdb", "irdb">> \o <<"kafka">> = <<"pool", "rdb", "irdb", "kafka">>
      BY Concat
    <3>2. deferred[p] = <<"pool", "rdb", "irdb">> /\ handling[p] = {}
      BY <1>1, <2>1 DEF PodOK
    <3> QED BY <3>1, <3>2 DEF Clients
  <2> QED BY <1>2, <2>1, <2>2, PodFrame DEF Points
<1>6. CASE RunDeferred(p)
  <2>1. /\ gpc[p] = "close" /\ gpc' = gpc /\ handling' = handling
        /\ deferred' = [deferred EXCEPT ![p] = <<>>]
    BY <1>6 DEF RunDeferred
  <2>2. handling[p] = {}
    BY <1>1, <2>1 DEF PodOK
  <2> QED BY <1>2, <1>3, <2>1, <2>2, PodFrame
<1>7. CASE Return(p)
  BY <1>7, GoneKeeps DEF Return
<1>8. CASE Listen(p) \/ AwaitQuit(p) \/ GracefulStop(p)
  <2>1. PICK l \in {"serve", "drain", "close"} :
            gpc' = [gpc EXCEPT ![p] = l] /\ (l = "close" => handling[p] = {})
    BY <1>8 DEF Listen, AwaitQuit, GracefulStop, MainTo
  <2>2. /\ deferred' = deferred /\ handling' = handling
        /\ gpc[p] \in {"listen", "serve", "drain"}
    BY <1>8 DEF Listen, AwaitQuit, GracefulStop, Serving
  <2>3. deferred[p] = Clients
    BY <1>1, <2>2 DEF PodOK
  <2>4. ASSUME NEW q \in Pod PROVE PodOK(q)'
    <3>1. CASE q = p
      <4>1. gpc'[q] = l /\ deferred'[q] = Clients /\ handling'[q] = handling[p]
        BY <1>1, <2>1, <2>2, <2>3, <3>1
      <4> QED BY <2>1, <4>1 DEF PodOK, Clients
    <3>2. CASE q # p
      <4>1. gpc'[q] = gpc[q] /\ deferred'[q] = deferred[q] /\ handling'[q] = handling[q]
        BY <1>1, <2>1, <2>2, <3>2
      <4> QED BY <4>1 DEF PodInv, PodOK, Clients
    <3> QED BY <3>1, <3>2
  <2>5. gpc' \in [Pod -> Points]
    BY <1>1, <2>1 DEF Points
  <2> QED BY <1>1, <2>2, <2>4, <2>5 DEF PodInv, PodOK, Points
<1> QED BY <1>4, <1>5, <1>6, <1>7, <1>8 DEF MainProgress

\* Signals, failures and kills.
LEMMA MainFaultKeeps == ASSUME PodInv, NEW p \in Pod, MainFault(p) PROVE PodInv'
<1>1. CASE Gone(p)
  BY <1>1, GoneKeeps
<1>2. CASE UNCHANGED <<gpc, deferred, handling>>
  BY <1>2, PodsSame
<1>3. Gone(p) \/ UNCHANGED <<gpc, deferred, handling>>
  BY DEF MainFault, StartFails, Signal, ServerFails, Kill
<1> QED BY <1>1, <1>2, <1>3

\* A pod takes a call, or answers it.
LEMMA CallKeeps ==
    ASSUME PodInv, NEW p, NEW r \in Rpc, Accept(p, r) \/ Done(p, r),
           UNCHANGED <<gpc, deferred>>
    PROVE  PodInv'
<1>1. /\ gpc \in [Pod -> Points] /\ DOMAIN deferred = Pod /\ handling \in [Pod -> SUBSET Rpc]
      /\ \A q \in Pod : PodOK(q)
  BY DEF PodInv, Points, PodOK
<1>2. /\ handling' \in [Pod -> SUBSET Rpc]
      /\ \A q \in Pod : handling'[q] # {} => handling[q] # {} \/ gpc[q] = "serve"
  BY <1>1 DEF Accept, Done, Serving
<1>3. ASSUME NEW q \in Pod PROVE PodOK(q)'
  BY <1>1, <1>2 DEF PodOK, Clients
<1> QED BY <1>1, <1>2, <1>3 DEF PodInv, PodOK, Points

-----------------------------------------------------------------------------
(* The resolver.                                                           *)

\* Nothing about the resolver has changed.
LEMMA ResolverSame == ASSUME ResolverInv, UNCHANGED resolverVars PROVE ResolverInv'
BY DEF ResolverInv, ResolverTypeOK, NothingAfterClose, resolverVars

\* A lookup starts while the resolver is there to take the answer.
LEMMA LookupKeeps ==
    ASSUME ResolverInv, NEW t \in {"watch", "now"}, LookupHost(t),
           rstate' \in {"building", "open", "closing"},
           rstate = "open" \/ t = "watch", rstate' = "open" \/ rstate # "open"
    PROVE  ResolverInv'
<1>1. /\ looking' = [looking EXCEPT ![t] = dns] /\ addrs' = addrs /\ dns \in SUBSET Pod
  BY DEF LookupHost, dns
<1>2. looking' \in [{"watch", "now"} -> (SUBSET Pod) \cup {NoAnswer}]
  BY <1>1 DEF ResolverInv, ResolverTypeOK
<1>3. rstate' # "open" => looking'["now"] = NoAnswer
  BY <1>1 DEF ResolverInv, ResolverTypeOK
<1> QED BY <1>1, <1>2, <1>3 DEF ResolverInv, ResolverTypeOK, NothingAfterClose

\* An answer is delivered.
LEMMA UpdateKeeps ==
    ASSUME ResolverInv, NEW t \in {"watch", "now"}, UpdateState(t) PROVE ResolverInv'
<1>1. /\ looking' = [looking EXCEPT ![t] = NoAnswer] /\ addrs' = looking[t]
      /\ looking[t] # NoAnswer
      /\ rstate' = IF rstate = "building" THEN "open" ELSE rstate
  BY DEF UpdateState
<1>2. /\ looking' \in [{"watch", "now"} -> (SUBSET Pod) \cup {NoAnswer}]
      /\ \A u \in {"watch", "now"} : looking[u] = NoAnswer => looking'[u] = NoAnswer
  BY <1>1 DEF ResolverInv, ResolverTypeOK
<1>3. addrs' \subseteq Pod
  <2>1. looking[t] \in (SUBSET Pod) \cup {NoAnswer}
    BY DEF ResolverInv, ResolverTypeOK
  <2> QED BY <1>1, <2>1
<1>4. rstate' \in {"new", "building", "open", "closing", "closed"}
      /\ (rstate' = "closed" => rstate = "closed") /\ (rstate' # "open" => rstate # "open")
  BY <1>1 DEF ResolverInv, ResolverTypeOK
<1> QED BY <1>2, <1>3, <1>4 DEF ResolverInv, ResolverTypeOK, NothingAfterClose

\* Every step of the resolver.
LEMMA ResolverKeeps ==
    ASSUME ResolverInv, Build \/ watch \/ ResolveNow \/ UpdateState("watch")
                        \/ UpdateState("now") \/ Close \/ CloseWait
    PROVE  ResolverInv'
<1>1. CASE Build
  <2>1. CASE LookupHost("watch") /\ rstate' = "building"
    BY <1>1, <2>1, LookupKeeps DEF Build
  <2>2. CASE rstate' = "open" /\ UNCHANGED <<addrs, looking>>
    BY <2>2 DEF ResolverInv, ResolverTypeOK, NothingAfterClose
  <2> QED BY <1>1, <2>1, <2>2 DEF Build
<1>2. CASE watch
  <2>1. LookupHost("watch") /\ rstate' = rstate /\ rstate \in {"open", "closing"}
    BY <1>2 DEF watch
  <2> QED BY <2>1, LookupKeeps
<1>3. CASE ResolveNow
  <2>1. LookupHost("now") /\ rstate' = rstate /\ rstate = "open"
    BY <1>3 DEF ResolveNow
  <2> QED BY <2>1, LookupKeeps
<1>4. CASE UpdateState("watch")
  BY <1>4, UpdateKeeps
<1>5. CASE UpdateState("now")
  BY <1>5, UpdateKeeps
<1>6. CASE Close
  BY <1>6 DEF Close, ResolverInv, ResolverTypeOK, NothingAfterClose
<1>7. CASE CloseWait
  BY <1>7 DEF CloseWait, ResolverInv, ResolverTypeOK, NothingAfterClose
<1> QED BY <1>1, <1>2, <1>3, <1>4, <1>5, <1>6, <1>7

-----------------------------------------------------------------------------
(* The client.                                                             *)

\* What a worker's call means for the account it has made.
CallerOK(w) ==
    /\ call[w] # "none" => bpc = "batch"
    /\ call[w] # "balance" => made[w] = 0
    /\ call[w] = "balance" =>
        /\ made[w] \in DOMAIN accounts /\ accounts[made[w]].currency = curr
        /\ \A x \in pool \cup results : x.id # made[w]
        /\ \A v \in BootstrapWorkers \ {w} : made[v] # made[w]

\* Rows are added and none is changed.
Grown ==
    /\ accounts' \in Seq(Row) /\ Len(accounts) <= Len(accounts')
    /\ \A i \in DOMAIN accounts : i \in DOMAIN accounts' /\ accounts'[i] = accounts[i]

\* The goroutines are those of the batch and main.
LEMMA Goroutines ==
    /\ Rpc = BootstrapWorkers \cup {Main} /\ Main \notin BootstrapWorkers
    /\ IsFiniteSet(BootstrapWorkers)
    /\ \A i \in DOMAIN Currencies : Currencies[i] \in Currency
    /\ 1 \in DOMAIN Currencies /\ Len(Currencies) \in Nat
    /\ DOMAIN Currencies = 1 .. Len(Currencies)
    /\ PerCurrency \in Nat /\ OpeningBalances \subseteq Nat
BY BootstrapAssumption DEF Currency

\* No row is added.
LEMMA GrownSame == ASSUME ClientInv, accounts' = accounts PROVE Grown
BY DEF Grown, ClientInv, ClientTypeOK

\* A call that reaches a pod adds one row, of the currency asked for.
LEMMA GrownMore ==
    ASSUME ClientInv, NEW r \in Rpc, r = Main \/ bpc = "batch", accounts' \in OneMore(r)
    PROVE  /\ Grown /\ Len(accounts') = Len(accounts) + 1 /\ Len(accounts) \in Nat
           /\ Len(accounts') \in DOMAIN accounts'
           /\ r # Main => accounts'[Len(accounts')].currency = curr
<1> DEFINE i == IF r = Main THEN 1 ELSE next
<1>1. i \in DOMAIN Currencies
  BY Goroutines DEF ClientInv, Callers
<1>2. PICK balance \in OpeningBalances :
            accounts' = Append(accounts, [currency |-> Currencies[i], balance |-> balance])
  BY DEF OneMore
<1> DEFINE row == [currency |-> Currencies[i], balance |-> balance]
<1>3. row \in Row
  BY <1>1, <1>2, Goroutines DEF Row
<1>4. row.currency = Currencies[i] /\ (r # Main => Currencies[i] = curr)
  BY DEF curr
<1>5. accounts' = Append(accounts, row) /\ accounts \in Seq(Row)
  BY <1>2 DEF ClientInv, ClientTypeOK
<1> HIDE DEF row, i
<1>6. /\ accounts' \in Seq(Row) /\ Len(accounts') = Len(accounts) + 1 /\ Len(accounts) \in Nat
      /\ DOMAIN accounts = 1 .. Len(accounts) /\ DOMAIN accounts' = 1 .. Len(accounts) + 1
      /\ accounts'[Len(accounts) + 1] = row
      /\ \A k \in 1 .. Len(accounts) : accounts'[k] = accounts[k]
  BY <1>3, <1>5
<1>7. /\ Len(accounts) + 1 \in 1 .. Len(accounts) + 1
      /\ \A k \in 1 .. Len(accounts) : k \in 1 .. Len(accounts) + 1
  BY <1>6
<1>8. Grown
  BY <1>6, <1>7 DEF Grown
<1> QED BY <1>4, <1>6, <1>7, <1>8

\* The rows of the accounts known stay what they are.
LEMMA FaithfulKept ==
    ASSUME ClientInv, Grown, pool' \cup results' \subseteq pool \cup results
    PROVE  PoolFaithful'
<1>1. \A x \in pool' \cup results' :
        x.id \in DOMAIN accounts' /\ accounts'[x.id] = [currency |-> x.currency, balance |-> x.balance]
  BY DEF ClientInv, PoolFaithful, Grown
<1>2. \A x, y \in pool' \cup results' : x.id = y.id => x = y
  BY DEF ClientInv, PoolFaithful
<1> QED BY <1>1, <1>2 DEF PoolFaithful

\* Ids already given stay within the rows.
LEMMA IdsWithin ==
    ASSUME ClientInv, Grown
    PROVE  /\ 0 .. Len(accounts) \subseteq 0 .. Len(accounts')
           /\ made \in [Rpc -> 0 .. Len(accounts')]
           /\ Len(accounts) \in Nat /\ Len(accounts') \in Nat
           /\ DOMAIN accounts = 1 .. Len(accounts) /\ DOMAIN accounts' = 1 .. Len(accounts')
<1>1. Len(accounts) \in Nat /\ Len(accounts') \in Nat /\ Len(accounts) <= Len(accounts')
  BY DEF ClientInv, ClientTypeOK, Grown
<1>2. 0 .. Len(accounts) \subseteq 0 .. Len(accounts')
  BY <1>1
<1>3. made \in [Rpc -> 0 .. Len(accounts)]
  BY DEF ClientInv, ClientTypeOK
<1>4. made \in [Rpc -> 0 .. Len(accounts')]
  BY <1>2, <1>3
<1>5. DOMAIN accounts = 1 .. Len(accounts) /\ DOMAIN accounts' = 1 .. Len(accounts')
  BY DEF ClientInv, ClientTypeOK, Grown
<1> QED BY <1>1, <1>2, <1>4, <1>5

\* Only the pods of the calls, or ctx, have changed.
LEMMA ClientSame ==
    ASSUME ClientInv, UNCHANGED <<accounts, call, made, bpc, batchVars, pool>>,
           at' \in [Rpc -> Pod \cup {NoPod}]
    PROVE  ClientInv'
<1>1. UNCHANGED <<next, slots, results, errs>>
  BY DEF batchVars
<1>2. ClientTypeOK'
  BY <1>1 DEF ClientInv, ClientTypeOK
<1>3. Callers'
  BY <1>1 DEF ClientInv, Callers, curr
<1>4. SlotsAccounted'
  BY <1>1 DEF ClientInv, SlotsAccounted
<1>5. PoolFaithful'
  BY <1>1 DEF ClientInv, PoolFaithful
<1> QED BY <1>2, <1>3, <1>4, <1>5 DEF ClientInv

-----------------------------------------------------------------------------
(* The steps of a worker of the batch.                                     *)

Busy == {w \in BootstrapWorkers : call[w] # "none"}

\* The workers at work after one of them went from one call to another.
LEMMA BusyStep ==
    ASSUME ClientInv, NEW w \in BootstrapWorkers, NEW op, call' = [call EXCEPT ![w] = op]
    PROVE  /\ Cardinality(Busy) \in Nat
           /\ (op # "none" /\ call[w] # "none") => Cardinality(Busy)' = Cardinality(Busy)
           /\ (op # "none" /\ call[w] = "none") => Cardinality(Busy)' = Cardinality(Busy) + 1
           /\ (op = "none" /\ call[w] # "none") => Cardinality(Busy)' = Cardinality(Busy) - 1
                                                  /\ Cardinality(Busy) > 0
<1> DEFINE U == Busy
           V == Busy'
<1>1. /\ U = {x \in BootstrapWorkers : call[x] # "none"}
      /\ V = {x \in BootstrapWorkers : call'[x] # "none"}
  BY DEF Busy
<1>2. call'[w] = op /\ \A x \in BootstrapWorkers : x # w => call'[x] = call[x]
  BY Goroutines DEF ClientInv, ClientTypeOK
<1>3. IsFiniteSet(U)
  BY <1>1, Goroutines, FS_Subset
<1>4. Cardinality(U) \in Nat
  BY <1>3, FS_CardinalityType
<1>5. Cardinality(Busy)' = Cardinality(V) /\ Cardinality(Busy) = Cardinality(U)
  OBVIOUS
<1> HIDE DEF U, V
<1>6. CASE op # "none"
  <2>1. V = U \cup {w}
    BY <1>1, <1>2, <1>6
  <2>2. w \in U <=> call[w] # "none"
    BY <1>1
  <2> QED BY <1>3, <1>4, <1>5, <1>6, <2>1, <2>2, FS_AddElement
<1>7. CASE op = "none"
  <2>1. V = U \ {w}
    BY <1>1, <1>2, <1>7
  <2>2. w \in U <=> call[w] # "none"
    BY <1>1
  <2>3. Cardinality(V) = IF w \in U THEN Cardinality(U) - 1 ELSE Cardinality(U)
    BY <1>3, <2>1, FS_RemoveElement
  <2>4. Cardinality(V) \in Nat
    <3>1. IsFiniteSet(V)
      BY <1>3, <2>1, FS_RemoveElement
    <3> QED BY <3>1, FS_CardinalityType
  <2> QED BY <1>4, <1>5, <1>7, <2>2, <2>3, <2>4
<1> QED BY <1>4, <1>6, <1>7

\* Only one worker moves, to an account nobody else has.
LEMMA WorkerFrame ==
    ASSUME ClientInv, bpc = "batch", NEW w \in BootstrapWorkers, Grown,
           NEW op \in {"none", "create", "balance"}, NEW m \in 0 .. Len(accounts'),
           call' = [call EXCEPT ![w] = op], made' = [made EXCEPT ![w] = m],
           UNCHANGED <<bpc, next, pool>>, IsFiniteSet(results'),
           \A x \in results' : x \in results \/ (call[w] = "balance" /\ x.id = made[w]),
           op # "balance" => m = 0,
           op = "balance" =>
                /\ m \in DOMAIN accounts' /\ accounts'[m].currency = curr
                /\ \A x \in pool \cup results' : x.id # m
                /\ \A v \in BootstrapWorkers \ {w} : made[v] # m
    PROVE  /\ Callers'
           /\ call' \in [Rpc -> {"none", "create", "balance"}]
           /\ made' \in [Rpc -> 0 .. Len(accounts')]
<1>1. /\ call \in [Rpc -> {"none", "create", "balance"}] /\ made \in [Rpc -> 0 .. Len(accounts)]
      /\ w \in Rpc /\ w # Main /\ Main \in Rpc /\ BootstrapWorkers \subseteq Rpc
  BY Goroutines DEF ClientInv, ClientTypeOK
<1>2. /\ call' \in [Rpc -> {"none", "create", "balance"}]
      /\ made' \in [Rpc -> 0 .. Len(accounts')]
  BY <1>1, IdsWithin
<1>3. /\ call'[w] = op /\ made'[w] = m /\ call'[Main] = call[Main]
      /\ \A v \in BootstrapWorkers \ {w} : call'[v] = call[v] /\ made'[v] = made[v]
  BY <1>1
<1>4. curr' = curr
  BY DEF curr
<1>5. \A v \in BootstrapWorkers : CallerOK(v)
  BY DEF ClientInv, Callers, CallerOK
<1>6. \A v \in BootstrapWorkers : made[v] \in Nat
  BY <1>1, IdsWithin
<1>7. ASSUME NEW v \in BootstrapWorkers
      PROVE  /\ call'[v] # "none" => bpc' = "batch"
             /\ call'[v] # "balance" => made'[v] = 0
             /\ call'[v] = "balance" =>
                    /\ made'[v] \in DOMAIN accounts' /\ accounts'[made'[v]].currency = curr'
                    /\ \A x \in pool' \cup results' : x.id # made'[v]
                    /\ \A u \in BootstrapWorkers \ {v} : made'[u] # made'[v]
  <2>1. CASE v = w
    <3>1. call'[v] = op /\ made'[v] = m /\ bpc' = "batch" /\ pool' = pool
      BY <1>3, <2>1
    <3>2. \A u \in BootstrapWorkers \ {v} : made'[u] = made[u]
      BY <1>3, <2>1
    <3> QED BY <1>4, <2>1, <3>1, <3>2
  <2>2. CASE v # w
    <3>1. call'[v] = call[v] /\ made'[v] = made[v] /\ bpc' = "batch" /\ pool' = pool
      BY <1>3, <2>2
    <3>2. CASE call[v] # "balance"
      BY <1>5, <3>1, <3>2 DEF CallerOK
    <3>3. CASE call[v] = "balance"
      <4>1. /\ made[v] \in DOMAIN accounts /\ accounts[made[v]].currency = curr
            /\ \A x \in pool \cup results : x.id # made[v]
            /\ \A u \in BootstrapWorkers \ {v} : made[u] # made[v]
        BY <1>5, <3>3 DEF CallerOK
      <4>2. made'[v] \in DOMAIN accounts' /\ accounts'[made'[v]].currency = curr'
        BY <1>4, <3>1, <4>1 DEF Grown
      <4>3. made[w] # made[v]
        BY <2>2, <4>1
      <4>4. \A x \in pool' \cup results' : x.id # made'[v]
        BY <3>1, <4>1, <4>3
      <4>5. m # made[v]
        <5>1. CASE op = "balance"
          BY <2>2, <5>1
        <5>2. CASE op # "balance"
          <6>1. made[v] \in 1 .. Len(accounts) /\ m = 0
            BY <4>1, <5>2, IdsWithin
          <6> QED BY <6>1
        <5> QED BY <5>1, <5>2
      <4>6. ASSUME NEW u \in BootstrapWorkers \ {v} PROVE made'[u] # made'[v]
        <5>1. CASE u = w
          BY <1>3, <3>1, <4>5, <5>1
        <5>2. CASE u # w
          BY <1>3, <3>1, <4>1, <5>2
        <5> QED BY <5>1, <5>2
      <4> QED BY <3>1, <3>3, <4>2, <4>4, <4>6
    <3> QED BY <3>2, <3>3
  <2> QED BY <2>1, <2>2
<1>8. /\ call'[Main] # "none" => bpc' = "probe" /\ call'[Main] = "create"
      /\ bpc' = "batch" => next' \in DOMAIN Currencies
  BY <1>3 DEF ClientInv, Callers
<1>9. Callers'
  BY <1>7, <1>8 DEF Callers
<1> QED BY <1>2, <1>9

\* A worker calls only within the batch, and the jobs add up.
LEMMA BatchSum ==
    ASSUME ClientInv, bpc = "batch"
    PROVE  /\ slots + Cardinality(Busy) + Cardinality(results) + errs = PerCurrency
           /\ slots \in Nat /\ errs \in Nat /\ Cardinality(results) \in Nat
           /\ Cardinality(Busy) \in Nat /\ PerCurrency \in Nat /\ IsFiniteSet(results)
<1>1. slots + Cardinality(Busy) + Cardinality(results) + errs = PerCurrency
  BY DEF ClientInv, SlotsAccounted, Busy
<1>2. IsFiniteSet(results) /\ slots \in 0 .. PerCurrency /\ errs \in 0 .. PerCurrency
  BY DEF ClientInv, ClientTypeOK, Callers
<1>3. IsFiniteSet(Busy)
  BY Goroutines, FS_Subset DEF Busy
<1> QED BY <1>1, <1>2, <1>3, Goroutines, FS_CardinalityType

\* The parts of the invariant put together again behind a worker's step.
LEMMA WorkerAssemble ==
    ASSUME ClientInv, Grown, bpc = "batch", Callers',
           call' \in [Rpc -> {"none", "create", "balance"}],
           made' \in [Rpc -> 0 .. Len(accounts')],
           at' \in [Rpc -> Pod \cup {NoPod}],
           UNCHANGED <<bpc, pool>>, PoolFaithful', results' \subseteq Account,
           slots' \in Nat, errs' \in Nat, (Cardinality(results) \in Nat)', (Cardinality(Busy) \in Nat)',
           slots' + Cardinality(Busy)' + Cardinality(results)' + errs' = PerCurrency
    PROVE  ClientInv'
<1>1. slots' \in 0 .. PerCurrency /\ errs' \in 0 .. PerCurrency
  <2>1. Cardinality(results)' \in Nat /\ Cardinality(Busy)' \in Nat /\ PerCurrency \in Nat
    BY Goroutines
  <2> QED BY <2>1
<1>2. accounts' \in Seq(Row)
  BY DEF Grown
<1>3. ClientTypeOK'
  BY <1>1, <1>2 DEF ClientInv, ClientTypeOK
<1>4. SlotsAccounted'
  BY DEF SlotsAccounted, Busy
<1> QED BY <1>3, <1>4 DEF ClientInv

\* A job is taken from the channel.
LEMMA TakeSlotKeeps == ASSUME ClientInv, NEW w \in BootstrapWorkers, TakeSlot(w) PROVE ClientInv'
<1>1. /\ bpc = "batch" /\ call[w] = "none" /\ slots > 0 /\ slots' = slots - 1
      /\ call' = [call EXCEPT ![w] = "create"]
      /\ UNCHANGED <<accounts, at, made, bpc, next, results, errs, pool>>
  BY DEF TakeSlot, Begin
<1>2. Grown /\ accounts' = accounts
  BY <1>1, GrownSame
<1>3. made[w] = 0 /\ made = [made EXCEPT ![w] = 0] /\ 0 \in 0 .. Len(accounts')
  <2>1. made[w] = 0
    BY <1>1 DEF ClientInv, Callers
  <2>2. made \in [Rpc -> 0 .. Len(accounts)]
    BY DEF ClientInv, ClientTypeOK
  <2> QED BY <1>2, <2>1, <2>2, IdsWithin
<1>4. made' = [made EXCEPT ![w] = 0] /\ IsFiniteSet(results')
      /\ \A x \in results' : x \in results
  BY <1>1, <1>3, BatchSum
<1>5. /\ Callers'
      /\ call' \in [Rpc -> {"none", "create", "balance"}]
      /\ made' \in [Rpc -> 0 .. Len(accounts')]
  BY <1>1, <1>2, <1>3, <1>4, WorkerFrame
<1>6. /\ Cardinality(Busy)' = Cardinality(Busy) + 1 /\ Cardinality(results)' = Cardinality(results)
      /\ errs' = errs
  <2>1. "create" # "none" /\ call' = [call EXCEPT ![w] = "create"] /\ call[w] = "none"
    BY <1>1
  <2>2. Cardinality(Busy)' = Cardinality(Busy) + 1
    BY ONLY ClientInv, <2>1, BusyStep, w \in BootstrapWorkers
  <2> QED BY <1>1, <2>2
<1>7. PoolFaithful'
  BY <1>1, <1>2, FaithfulKept
<1>8. at' \in [Rpc -> Pod \cup {NoPod}] /\ results' \subseteq Account
  BY <1>1 DEF ClientInv, ClientTypeOK
<1>9. slots' + Cardinality(Busy)' + Cardinality(results)' + errs' = PerCurrency
      /\ slots' \in Nat /\ errs' \in Nat /\ Cardinality(results)' \in Nat /\ Cardinality(Busy)' \in Nat
  BY <1>1, <1>6, BatchSum
<1> QED BY <1>1, <1>2, <1>5, <1>7, <1>8, <1>9, WorkerAssemble

\* Hanging up leaves the types alone.
LEMMA HangupType ==
    ASSUME ClientInv, NEW r \in Rpc, Hangup(r) PROVE at' \in [Rpc -> Pod \cup {NoPod}]
BY DEF Hangup, ClientInv, ClientTypeOK

\* The account is there: its id is the worker's alone.
LEMMA CreateAnsweredKeeps ==
    ASSUME ClientInv, NEW w \in BootstrapWorkers, CreateAnswered(w) PROVE ClientInv'
<1> DEFINE m == Len(accounts')
<1>1. /\ call[w] = "create" /\ accounts' \in OneMore(w) /\ made' = [made EXCEPT ![w] = m]
      /\ call' = [call EXCEPT ![w] = "balance"] /\ Hangup(w)
      /\ UNCHANGED <<bpc, next, slots, results, errs, pool>>
  BY DEF CreateAnswered, Handling, Begin, batchVars
<1>2. bpc = "batch" /\ w \in Rpc /\ w # Main
  BY <1>1, Goroutines DEF ClientInv, Callers
<1>3. /\ Grown /\ m = Len(accounts) + 1 /\ Len(accounts) \in Nat
      /\ m \in DOMAIN accounts' /\ accounts'[m].currency = curr
  BY <1>1, <1>2, GrownMore
<1>4. \A x \in pool \cup results' : x.id # m
  <2>1. \A x \in pool \cup results : x.id \in DOMAIN accounts
    BY DEF ClientInv, PoolFaithful
  <2>2. \A x \in pool \cup results : x.id \in 1 .. Len(accounts)
    BY <2>1, <1>3, IdsWithin
  <2> QED BY <1>1, <1>3, <2>2
<1>5. \A v \in BootstrapWorkers \ {w} : made[v] # m
  <2>1. \A v \in BootstrapWorkers : made[v] \in 0 .. Len(accounts)
    BY Goroutines DEF ClientInv, ClientTypeOK
  <2> QED BY <1>3, <2>1
<1>6. m \in 0 .. Len(accounts') /\ IsFiniteSet(results') /\ \A x \in results' : x \in results
  BY <1>1, <1>2, <1>3, BatchSum
<1> HIDE DEF m
<1>7. /\ Callers'
      /\ call' \in [Rpc -> {"none", "create", "balance"}]
      /\ made' \in [Rpc -> 0 .. Len(accounts')]
  BY <1>1, <1>2, <1>3, <1>4, <1>5, <1>6, WorkerFrame
<1>8. /\ Cardinality(Busy)' = Cardinality(Busy) /\ Cardinality(results)' = Cardinality(results)
      /\ errs' = errs /\ slots' = slots
  <2>1. "balance" # "none" /\ call' = [call EXCEPT ![w] = "balance"] /\ call[w] # "none"
    BY <1>1
  <2>2. Cardinality(Busy)' = Cardinality(Busy)
    BY ONLY ClientInv, <2>1, BusyStep, w \in BootstrapWorkers
  <2> QED BY <1>1, <2>2
<1>9. PoolFaithful'
  BY <1>1, <1>3, FaithfulKept
<1>10. at' \in [Rpc -> Pod \cup {NoPod}] /\ results' \subseteq Account
  BY <1>1, <1>2, HangupType DEF ClientInv, ClientTypeOK
<1>11. slots' + Cardinality(Busy)' + Cardinality(results)' + errs' = PerCurrency
       /\ slots' \in Nat /\ errs' \in Nat /\ Cardinality(results)' \in Nat /\ Cardinality(Busy)' \in Nat
  BY <1>2, <1>8, BatchSum
<1> QED BY <1>1, <1>2, <1>3, <1>7, <1>9, <1>10, <1>11, WorkerAssemble

\* The balance is read: a job has become one result.
LEMMA GetBalanceKeeps ==
    ASSUME ClientInv, NEW w \in BootstrapWorkers, GetBalance(w) PROVE ClientInv'
<1> DEFINE x == [id |-> made[w], currency |-> curr, balance |-> accounts[made[w]].balance]
<1>1. /\ call[w] = "balance" /\ results' = results \cup {x} /\ made' = [made EXCEPT ![w] = 0]
      /\ call' = [call EXCEPT ![w] = "none"] /\ Hangup(w)
      /\ UNCHANGED <<accounts, bpc, next, slots, errs, pool>>
  BY DEF GetBalance, Handling, WorkerDone, Begin
<1>2. /\ bpc = "batch" /\ w \in Rpc /\ made[w] \in DOMAIN accounts
      /\ accounts[made[w]].currency = curr /\ \A y \in pool \cup results : y.id # made[w]
  BY <1>1, Goroutines DEF ClientInv, Callers
<1>3. Grown /\ accounts' = accounts /\ accounts \in Seq(Row)
  BY <1>1, GrownSame DEF ClientInv, ClientTypeOK
<1>4. accounts[made[w]] \in Row /\ made[w] \in Nat \ {0}
  BY <1>2, <1>3
<1>5. /\ x.id = made[w] /\ x \in Account
      /\ accounts[x.id] = [currency |-> x.currency, balance |-> x.balance]
  BY <1>2, <1>4 DEF Row, Account
<1>6. x \notin results
  BY <1>2, <1>5
<1> HIDE DEF x
<1>7. IsFiniteSet(results') /\ Cardinality(results') = Cardinality(results) + 1
  BY <1>1, <1>2, <1>6, BatchSum, FS_AddElement
<1>8. (\A y \in results' : y \in results \/ (call[w] = "balance" /\ y.id = made[w]))
      /\ 0 \in 0 .. Len(accounts')
  BY <1>1, <1>3, <1>5, IdsWithin
<1>9. /\ Callers'
      /\ call' \in [Rpc -> {"none", "create", "balance"}]
      /\ made' \in [Rpc -> 0 .. Len(accounts')]
  BY <1>1, <1>2, <1>3, <1>7, <1>8, WorkerFrame
<1>10. Cardinality(Busy)' = Cardinality(Busy) - 1 /\ Cardinality(Busy) > 0
  BY <1>1, BusyStep
<1>11. PoolFaithful'
  <2>1. \A y \in pool \cup results' :
            y.id \in DOMAIN accounts /\ accounts[y.id] = [currency |-> y.currency, balance |-> y.balance]
    BY <1>1, <1>2, <1>5 DEF ClientInv, PoolFaithful
  <2>2. \A y, z \in pool \cup results' : y.id = z.id => y = z
    BY <1>1, <1>2, <1>5 DEF ClientInv, PoolFaithful
  <2> QED BY <1>1, <2>1, <2>2 DEF PoolFaithful
<1>12. at' \in [Rpc -> Pod \cup {NoPod}] /\ results' \subseteq Account
  BY <1>1, <1>2, <1>5, HangupType DEF ClientInv, ClientTypeOK
<1>13. slots' + Cardinality(Busy)' + Cardinality(results)' + errs' = PerCurrency
       /\ slots' \in Nat /\ errs' \in Nat /\ Cardinality(results)' \in Nat /\ Cardinality(Busy)' \in Nat
  BY <1>1, <1>2, <1>7, <1>10, BatchSum
<1> QED BY <1>1, <1>2, <1>3, <1>9, <1>11, <1>12, <1>13, WorkerAssemble

\* A call that failed may have added a row.
LEMMA CallFailsRows ==
    ASSUME ClientInv, NEW r \in Rpc, CallFails(r)
    PROVE  /\ call[r] # "none" /\ Grown /\ at' \in [Rpc -> Pod \cup {NoPod}]
           /\ UNCHANGED <<bpc, next, slots, results, pool>>
<1>1. call[r] # "none" /\ UNCHANGED <<bpc, next, slots, results, pool>>
  BY DEF CallFails
<1>2. accounts' = accounts \/ accounts' \in OneMore(r)
  BY DEF CallFails
<1>3. r = Main \/ bpc = "batch"
  BY <1>1, Goroutines DEF ClientInv, Callers
<1>4. Grown
  BY <1>2, <1>3, GrownSame, GrownMore
<1>5. at' \in [Rpc -> Pod \cup {NoPod}]
  <2>1. CASE Hangup(r)
    BY <2>1, HangupType
  <2>2. CASE at' = at \/ at' = [at EXCEPT ![r] = NoPod]
    BY <2>2 DEF ClientInv, ClientTypeOK
  <2> QED BY <2>1, <2>2 DEF CallFails
<1> QED BY <1>1, <1>4, <1>5

\* A call fails: a job has become one error.
LEMMA CreateFailsKeeps ==
    ASSUME ClientInv, NEW w \in BootstrapWorkers, CreateFails(w) PROVE ClientInv'
<1>1. /\ made' = [made EXCEPT ![w] = 0] /\ call' = [call EXCEPT ![w] = "none"]
      /\ errs' = errs + 1
  BY DEF CreateFails, WorkerDone, Begin
<1>2. /\ call[w] # "none" /\ Grown /\ at' \in [Rpc -> Pod \cup {NoPod}]
      /\ UNCHANGED <<bpc, next, slots, results, pool>>
  BY CallFailsRows, Goroutines DEF CreateFails
<1>3. bpc = "batch"
  BY <1>2 DEF ClientInv, Callers
<1>4. IsFiniteSet(results') /\ (\A x \in results' : x \in results) /\ 0 \in 0 .. Len(accounts')
  BY <1>2, <1>3, BatchSum, IdsWithin
<1>5. /\ Callers'
      /\ call' \in [Rpc -> {"none", "create", "balance"}]
      /\ made' \in [Rpc -> 0 .. Len(accounts')]
  BY <1>1, <1>2, <1>3, <1>4, WorkerFrame
<1>6. /\ Cardinality(Busy)' = Cardinality(Busy) - 1 /\ Cardinality(Busy) > 0
      /\ Cardinality(results)' = Cardinality(results)
  BY <1>1, <1>2, BusyStep
<1>7. PoolFaithful'
  BY <1>2, FaithfulKept
<1>8. results' \subseteq Account
  BY <1>2 DEF ClientInv, ClientTypeOK
<1>9. slots' + Cardinality(Busy)' + Cardinality(results)' + errs' = PerCurrency
      /\ slots' \in Nat /\ errs' \in Nat /\ Cardinality(results)' \in Nat /\ Cardinality(Busy)' \in Nat
  BY <1>1, <1>2, <1>3, <1>6, BatchSum
<1> QED BY <1>2, <1>3, <1>5, <1>7, <1>8, <1>9, WorkerAssemble

-----------------------------------------------------------------------------
(* The steps of main.                                                      *)

\* Outside a batch, and when its last worker is done, no worker calls.
AllIdle == \A w \in BootstrapWorkers : call[w] = "none" /\ made[w] = 0

\* Nobody calls outside a batch.
LEMMA IdleOutside == ASSUME ClientInv, bpc # "batch" PROVE AllIdle
BY DEF ClientInv, Callers, AllIdle

\* A step of main while the workers are idle.
LEMMA MainStepKeeps ==
    ASSUME ClientInv, AllIdle, Grown, NEW op \in {"none", "create"},
           call' = [call EXCEPT ![Main] = op], made' = made, at' \in [Rpc -> Pod \cup {NoPod}],
           bpc' \in {"probe", "batch", "load", "close", "ended"},
           op = "create" => bpc' = "probe",
           bpc' = "batch" =>
                next' \in DOMAIN Currencies /\ slots' = PerCurrency /\ results' = {} /\ errs' = 0,
           slots' \in 0 .. PerCurrency, errs' \in 0 .. PerCurrency,
           IsFiniteSet(results'), pool' \cup results' \subseteq pool \cup results
    PROVE  ClientInv'
<1>1. /\ call \in [Rpc -> {"none", "create", "balance"}] /\ Main \in Rpc
      /\ Main \notin BootstrapWorkers /\ BootstrapWorkers \subseteq Rpc
      /\ pool \subseteq Account /\ results \subseteq Account
  BY Goroutines DEF ClientInv, ClientTypeOK
<1>2. /\ call' \in [Rpc -> {"none", "create", "balance"}] /\ call'[Main] = op
      /\ \A w \in BootstrapWorkers : call'[w] = "none" /\ made'[w] = 0
  BY <1>1 DEF AllIdle
<1>3. made' \in [Rpc -> 0 .. Len(accounts')] /\ accounts' \in Seq(Row)
  BY IdsWithin DEF Grown
<1>4. ClientTypeOK'
  BY <1>1, <1>2, <1>3 DEF ClientTypeOK
<1>5. Callers'
  BY <1>2 DEF Callers
<1>6. SlotsAccounted'
  <2> SUFFICES ASSUME bpc' = "batch" PROVE SlotsAccounted'
    BY DEF SlotsAccounted
  <2>1. slots' = PerCurrency /\ results' = {} /\ errs' = 0 /\ PerCurrency \in Nat
    BY Goroutines
  <2>2. {w \in BootstrapWorkers : call'[w] # "none"} = {}
    BY <1>2
  <2>3. Cardinality({}) = 0
    BY FS_EmptySet
  <2>4. slots' + Cardinality({w \in BootstrapWorkers : call'[w] # "none"})
            + Cardinality(results') + errs' = PerCurrency
    BY <2>1, <2>2, <2>3
  <2> QED BY <2>4 DEF SlotsAccounted
<1>7. PoolFaithful'
  BY FaithfulKept
<1> QED BY <1>4, <1>5, <1>6, <1>7 DEF ClientInv

\* What main's steps leave alone, and the empty batch.
LEMMA MainFacts ==
    ASSUME ClientInv
    PROVE  /\ accounts' = accounts => Grown
           /\ call[Main] = "none" => call = [call EXCEPT ![Main] = "none"]
           /\ slots \in 0 .. PerCurrency /\ errs \in 0 .. PerCurrency /\ IsFiniteSet(results)
           /\ at \in [Rpc -> Pod \cup {NoPod}]
           /\ IsFiniteSet({}) /\ 0 \in 0 .. PerCurrency /\ PerCurrency \in 0 .. PerCurrency
           /\ bpc # "probe" => call[Main] = "none"
<1>1. PerCurrency \in Nat /\ Main \in Rpc
  BY Goroutines
<1>2. call \in [Rpc -> {"none", "create", "balance"}]
  BY DEF ClientInv, ClientTypeOK
<1>3. call[Main] = "none" => call = [call EXCEPT ![Main] = "none"]
  BY <1>1, <1>2
<1>4. bpc # "probe" => call[Main] = "none"
  BY DEF ClientInv, Callers
<1> QED BY <1>1, <1>3, <1>4, GrownSame, FS_EmptySet DEF ClientInv, ClientTypeOK, Callers

\* Main probes, or gives up.
LEMMA ProbeKeeps == ASSUME ClientInv, Probe PROVE ClientInv'
<1>1. /\ bpc = "probe" /\ call[Main] = "none"
      /\ UNCHANGED <<accounts, at, made, next, slots, results, errs, pool>>
  BY DEF Probe, batchVars
<1>2. AllIdle
  BY <1>1, IdleOutside
<1>3. CASE call' = [call EXCEPT ![Main] = "create"] /\ bpc' = bpc
  BY <1>1, <1>2, <1>3, MainFacts, MainStepKeeps
<1>4. CASE call' = call /\ bpc' = "close"
  <2>1. call' = [call EXCEPT ![Main] = "none"]
    BY <1>1, <1>4, MainFacts
  <2> QED BY <1>1, <1>2, <1>4, <2>1, MainFacts, MainStepKeeps
<1> QED BY <1>3, <1>4 DEF Probe, Begin

\* The upstream is ready, and the first batch starts.
LEMMA ProbeAnsweredKeeps == ASSUME ClientInv, ProbeAnswered PROVE ClientInv'
<1>1. /\ call[Main] = "create" /\ Hangup(Main) /\ accounts' \in OneMore(Main)
      /\ call' = [call EXCEPT ![Main] = "none"] /\ made' = made /\ pool' = pool
      /\ next' = 1 /\ slots' = PerCurrency /\ results' = {} /\ errs' = 0 /\ bpc' = "batch"
  BY DEF ProbeAnswered, Handling, Begin, StartBatch
<1>2. bpc = "probe" /\ Main \in Rpc
  BY <1>1, Goroutines DEF ClientInv, Callers
<1>3. AllIdle
  BY <1>2, IdleOutside
<1>4. Grown
  BY <1>1, <1>2, GrownMore
<1>5. at' \in [Rpc -> Pod \cup {NoPod}]
  BY <1>1, <1>2, HangupType
<1>6. next' \in DOMAIN Currencies /\ pool' \cup results' \subseteq pool \cup results
  BY <1>1, Goroutines
<1> QED BY <1>1, <1>3, <1>4, <1>5, <1>6, MainFacts, MainStepKeeps

\* The probe fails.
LEMMA ProbeFailsKeeps == ASSUME ClientInv, ProbeFails PROVE ClientInv'
<1>1. /\ call' = [call EXCEPT ![Main] = "none"] /\ made' = made /\ errs' = errs
      /\ CallFails(Main) /\ Main \in Rpc
  BY Goroutines DEF ProbeFails, Begin
<1>2. /\ call[Main] # "none" /\ Grown /\ at' \in [Rpc -> Pod \cup {NoPod}]
      /\ UNCHANGED <<bpc, next, slots, results, pool>>
  BY <1>1, CallFailsRows
<1>3. bpc = "probe"
  BY <1>2 DEF ClientInv, Callers
<1>4. AllIdle
  BY <1>3, IdleOutside
<1> QED BY <1>1, <1>2, <1>3, <1>4, MainFacts, MainStepKeeps

\* The results of the batch go into the pool, and the next batch or the load starts.
LEMMA CollectKeeps == ASSUME ClientInv, Collect PROVE ClientInv'
<1>1. /\ bpc = "batch" /\ \A w \in BootstrapWorkers : call[w] = "none"
      /\ pool' = pool \cup results /\ UNCHANGED <<accounts, call, at, made>>
  BY DEF Collect
<1>2. AllIdle
  BY <1>1 DEF ClientInv, Callers, AllIdle
<1>3. call' = [call EXCEPT ![Main] = "none"]
  BY <1>1, MainFacts
<1>4. CASE next < Len(Currencies) /\ StartBatch(next + 1)
  <2>1. /\ next' = next + 1 /\ slots' = PerCurrency /\ results' = {} /\ errs' = 0
        /\ bpc' = "batch"
    BY <1>4 DEF StartBatch
  <2>2. next' \in DOMAIN Currencies
    <3>1. next \in 1 .. Len(Currencies) /\ Len(Currencies) \in Nat
      BY <1>1, Goroutines DEF ClientInv, Callers
    <3> QED BY <1>4, <2>1, <3>1, Goroutines
  <2> QED BY <1>1, <1>2, <1>3, <2>1, <2>2, MainFacts, MainStepKeeps
<1>5. CASE /\ results' = {} /\ errs' = 0 /\ bpc' \in {"close", "load"}
           /\ UNCHANGED <<next, slots>>
  BY <1>1, <1>2, <1>3, <1>5, MainFacts, MainStepKeeps
<1> QED BY <1>4, <1>5 DEF Collect

\* The load phase ends, and the process.
LEMMA EndKeeps == ASSUME ClientInv, LoadEnds \/ Exit PROVE ClientInv'
<1>1. /\ bpc \in {"load", "close"} /\ bpc' \in {"close", "ended"}
      /\ UNCHANGED <<accounts, call, at, made, next, slots, results, errs, pool>>
  BY DEF LoadEnds, Exit, batchVars
<1>2. AllIdle
  BY <1>1, IdleOutside
<1>3. call' = [call EXCEPT ![Main] = "none"]
  BY <1>1, MainFacts
<1> QED BY <1>1, <1>2, <1>3, MainFacts, MainStepKeeps

-----------------------------------------------------------------------------
(* The invariant.                                                          *)

\* Nothing is open, nothing is made and nobody calls at the start.
LEMMA InitBootstrap == ASSUME Init PROVE BootstrapInv
<1> USE DEF Init
<1>1. PodInv
  BY DEF GatewayInit, PodInv
<1>2. ResolverInv
  BY DEF ResolverInit, ResolverInv, ResolverTypeOK, NothingAfterClose
<1>3. ClientTypeOK
  BY Goroutines DEF ClientTypeOK
<1>4. Callers
  BY FS_EmptySet, Goroutines DEF Callers
<1>5. SlotsAccounted /\ PoolFaithful
  BY DEF SlotsAccounted, PoolFaithful
<1> QED BY <1>1, <1>2, <1>3, <1>4, <1>5 DEF BootstrapInv, ClientInv

\* The client's own variables stay as they are.
LEMMA ClientUnchanged == ASSUME ClientInv, UNCHANGED clientVars PROVE ClientInv'
BY ClientSame DEF clientVars, ClientInv, ClientTypeOK

\* A call waits for a pod among the resolver's addresses, and is taken.
LEMMA SendKeeps ==
    ASSUME PodInv, ResolverInv, ClientInv, NEW r \in Rpc, Send(r)
    PROVE  PodInv' /\ ResolverInv' /\ ClientInv'
<1>1. PICK p \in addrs : Accept(p, r) /\ at' = [at EXCEPT ![r] = p]
  BY DEF Send
<1>2. /\ UNCHANGED <<gpc, deferred>> /\ UNCHANGED resolverVars
      /\ UNCHANGED <<accounts, call, made, bpc, batchVars, pool>>
  BY DEF Send
<1>3. p \in Pod
  BY DEF ResolverInv, ResolverTypeOK
<1>4. at' \in [Rpc -> Pod \cup {NoPod}]
  BY <1>1, <1>3 DEF ClientInv, ClientTypeOK
<1>5. PodInv'
  BY <1>1, <1>2, CallKeeps
<1> QED BY <1>2, <1>4, <1>5, ResolverSame, ClientSame

\* A call that fails leaves the pods as they are, but for its handler.
LEMMA CallFailsPods ==
    ASSUME PodInv, ResolverInv, NEW r \in Rpc, CallFails(r) PROVE PodInv' /\ ResolverInv'
<1>1. UNCHANGED resolverVars
  BY DEF CallFails
<1>2. UNCHANGED <<gpc, deferred, handling>> \/ (Done(at[r], r) /\ UNCHANGED <<gpc, deferred>>)
  BY DEF CallFails, Hangup, gatewayVars
<1>3. PodInv'
  BY <1>2, PodsSame, CallKeeps
<1> QED BY <1>1, <1>3, ResolverSame

\* A goroutine of the batch.
LEMMA WorkerKeeps ==
    ASSUME BootstrapInv, NEW w \in BootstrapWorkers, WorkerGoroutine(w) PROVE BootstrapInv'
<1>0. PodInv /\ ResolverInv /\ ClientInv /\ w \in Rpc
  BY Goroutines DEF BootstrapInv
<1>1. CASE TakeSlot(w)
  <2>1. UNCHANGED <<gpc, deferred, handling>> /\ UNCHANGED resolverVars
    BY <1>1 DEF TakeSlot, gatewayVars
  <2> QED BY <1>0, <1>1, <2>1, PodsSame, ResolverSame, TakeSlotKeeps DEF BootstrapInv
<1>2. CASE Send(w)
  BY <1>0, <1>2, SendKeeps DEF BootstrapInv
<1>3. CASE CreateAnswered(w)
  <2>1. Done(at[w], w) /\ UNCHANGED <<gpc, deferred>> /\ UNCHANGED resolverVars
    BY <1>3 DEF CreateAnswered, Hangup
  <2> QED BY <1>0, <1>3, <2>1, CallKeeps, ResolverSame, CreateAnsweredKeeps DEF BootstrapInv
<1>4. CASE GetBalance(w)
  <2>1. Done(at[w], w) /\ UNCHANGED <<gpc, deferred>> /\ UNCHANGED resolverVars
    BY <1>4 DEF GetBalance, Hangup
  <2> QED BY <1>0, <1>4, <2>1, CallKeeps, ResolverSame, GetBalanceKeeps DEF BootstrapInv
<1>5. CASE CreateFails(w)
  <2>1. PodInv' /\ ResolverInv'
    BY <1>0, <1>5, CallFailsPods DEF CreateFails
  <2> QED BY <1>0, <1>5, <2>1, CreateFailsKeeps DEF BootstrapInv
<1> QED BY <1>1, <1>2, <1>3, <1>4, <1>5 DEF WorkerGoroutine

\* bootstrapAccounts, LoadGenWorker and the connection.
LEMMA MainKeeps == ASSUME BootstrapInv, MainGoroutine PROVE BootstrapInv'
<1>0. PodInv /\ ResolverInv /\ ClientInv /\ Main \in Rpc
  BY Goroutines DEF BootstrapInv
<1>1. CASE Probe \/ Collect \/ LoadEnds \/ Exit
  <2>1. UNCHANGED <<gpc, deferred, handling>> /\ UNCHANGED resolverVars
    BY <1>1 DEF Probe, Collect, LoadEnds, Exit, gatewayVars
  <2>2. ClientInv'
    BY <1>0, <1>1, ProbeKeeps, CollectKeeps, EndKeeps
  <2> QED BY <1>0, <2>1, <2>2, PodsSame, ResolverSame DEF BootstrapInv
<1>2. CASE Connect \/ CloseConn \/ CloseReturns
  <2>1. /\ UNCHANGED <<gpc, deferred, handling>> /\ UNCHANGED clientVars
        /\ Build \/ Close \/ CloseWait
    BY <1>2 DEF Connect, CloseConn, CloseReturns, gatewayVars
  <2> QED BY <1>0, <2>1, PodsSame, ResolverKeeps, ClientUnchanged DEF BootstrapInv
<1>3. CASE Send(Main)
  BY <1>0, <1>3, SendKeeps DEF BootstrapInv
<1>4. CASE ProbeAnswered
  <2>1. Done(at[Main], Main) /\ UNCHANGED <<gpc, deferred>> /\ UNCHANGED resolverVars
    BY <1>4 DEF ProbeAnswered, Hangup
  <2> QED BY <1>0, <1>4, <2>1, CallKeeps, ResolverSame, ProbeAnsweredKeeps DEF BootstrapInv
<1>5. CASE ProbeFails
  <2>1. PodInv' /\ ResolverInv'
    BY <1>0, <1>5, CallFailsPods DEF ProbeFails
  <2> QED BY <1>0, <1>5, <2>1, ProbeFailsKeeps DEF BootstrapInv
<1> QED BY <1>1, <1>2, <1>3, <1>4, <1>5 DEF MainGoroutine

\* Every step, of a pod, of the resolver or of the client.
LEMMA BootstrapStep == ASSUME BootstrapInv, [Next]_bootVars PROVE BootstrapInv'
<1>0. PodInv /\ ResolverInv /\ ClientInv
  BY DEF BootstrapInv
<1>1. ASSUME NEW p \in Pod, PodStep(p) \/ PodFault(p) PROVE BootstrapInv'
  <2>1. UNCHANGED resolverVars /\ UNCHANGED clientVars /\ (MainProgress(p) \/ MainFault(p))
    BY <1>1 DEF PodStep, PodFault
  <2> QED BY <1>0, <2>1, MainProgressKeeps, MainFaultKeeps, ResolverSame, ClientUnchanged
          DEF BootstrapInv
<1>2. ASSUME NEW w \in BootstrapWorkers, WorkerGoroutine(w) PROVE BootstrapInv'
  BY <1>2, WorkerKeeps
<1>3. CASE MainGoroutine
  BY <1>3, MainKeeps
<1>4. CASE WatchGoroutine \/ NowGoroutine \/ Reresolve
  <2>1. /\ UNCHANGED <<gpc, deferred, handling>> /\ UNCHANGED clientVars
        /\ watch \/ UpdateState("watch") \/ UpdateState("now") \/ ResolveNow
    BY <1>4 DEF WatchGoroutine, NowGoroutine, Reresolve, WatchStep, NowStep, gatewayVars
  <2> QED BY <1>0, <2>1, PodsSame, ResolverKeeps, ClientUnchanged DEF BootstrapInv
<1>5. CASE Cancel
  <2>1. /\ UNCHANGED <<gpc, deferred, handling>> /\ UNCHANGED resolverVars
        /\ UNCHANGED <<accounts, call, made, bpc, batchVars, pool>> /\ at' = at
    BY <1>5 DEF Cancel, gatewayVars
  <2>2. at' \in [Rpc -> Pod \cup {NoPod}]
    BY <1>0, <2>1 DEF ClientInv, ClientTypeOK
  <2> QED BY <1>0, <2>1, <2>2, PodsSame, ResolverSame, ClientSame DEF BootstrapInv
<1>6. CASE UNCHANGED bootVars
  <2>1. UNCHANGED <<gpc, deferred, handling>> /\ UNCHANGED resolverVars /\ UNCHANGED clientVars
    BY <1>6 DEF bootVars, gatewayVars
  <2> QED BY <1>0, <2>1, PodsSame, ResolverSame, ClientUnchanged DEF BootstrapInv
<1> QED BY <1>1, <1>2, <1>3, <1>4, <1>5, <1>6 DEF Next, Ended

\* The pods, the resolver and the client keep their promises together, for every
\* set of pods and of workers (gateway/main.go:32, k8sresolver.go:53, Accounts.go:27).
THEOREM BootstrapInductive == Spec => []BootstrapInv
<1>1. Init => BootstrapInv
  BY InitBootstrap
<1>2. BootstrapInv /\ [Next]_bootVars => BootstrapInv'
  BY BootstrapStep
<1> QED BY <1>1, <1>2, PTL DEF Spec

\* Values keep their kinds, each job of a batch ends once, and Close is the end of
\* the resolver's goroutine (Accounts.go:57-88, k8sresolver.go:82).
THEOREM BootstrapSound == Spec => []BootInv
<1>1. BootstrapInv => BootInv
  <2> SUFFICES ASSUME BootstrapInv PROVE BootInv
    OBVIOUS
  <2>1. \A p \in Pod : handling[p] \subseteq Rpc
    BY DEF BootstrapInv, PodInv
  <2> QED BY <2>1 DEF BootstrapInv, ResolverInv, ClientInv, BootInv, BootTypeOK
<1> QED BY <1>1, BootstrapInductive, PTL

\* A call at work finds the clients of its pod open (gateway/main.go:208).
THEOREM OpenWhileServing == Spec => []NoUseAfterClose
<1>1. BootstrapInv => NoUseAfterClose
  BY DEF BootstrapInv, PodInv, NoUseAfterClose
<1> QED BY <1>1, BootstrapInductive, PTL

\* The accounts collected are the gateway's, each once (Accounts.go:79-97).
THEOREM CollectedAccounts == Spec => []PoolFaithful
<1>1. BootstrapInv => PoolFaithful
  BY DEF BootstrapInv, ClientInv
<1> QED BY <1>1, BootstrapInductive, PTL
=============================================================================
