--------------------------- MODULE StatsProjection --------------------------
(***************************************************************************)
(* The read side: the gateway publishes committed transfers to Kafka, the  *)
(* stats worker projects them into Redis, GetTransaction reads Redis first *)
(* and PostgreSQL otherwise (internal/infra/kafka, cmd/stats,              *)
(* internal/usecase/transaction_cache.go, internal/usecase/stats.go).      *)
(*                                                                         *)
(* A message carries a whole transaction, whose row is never changed, and  *)
(* its JSON form loses nothing: it is modelled by the transaction.         *)
(***************************************************************************)
EXTENDS Integers, Sequences, FiniteSets

CONSTANTS
    Tx,         \* transactions
    Partition,  \* partitions of completed_transactions
    Readers,    \* GetTransaction calls
    None,
    MaxFaults   \* bound on failures

ASSUME StatsAssumption == MaxFaults \in Nat

VARIABLES
    committed,  \* rows of ledger.transactions
    sending,    \* in the publishing goroutine or the writer's batch
    log,        \* the messages of each partition
    offset,     \* last message of each partition the group has committed
    position,   \* last message of each partition the reader has handed out
    cpc,        \* where Consumer.Run is
    msg,        \* the message it has fetched
    projected,  \* the messages handled successfully (history)
    failed,     \* the messages whose handling failed (history)
    cache,      \* "transaction:<id>" in Redis
    rpc, asked, known, result,  \* a GetTransaction call, its id, whether that
                                \* was committed when the call began, its answer
    faults

consumerVars == <<offset, position, cpc, msg, projected, failed>>
readerVars == <<rpc, asked, known, result>>
vars == <<committed, sending, log, consumerVars, cache, readerVars, faults>>

Init ==
    /\ committed = {} /\ sending = {} /\ cache = {} /\ faults = 0
    /\ log = [p \in Partition |-> <<>>]
    /\ offset = [p \in Partition |-> 0]
    /\ position = [p \in Partition |-> 0]
    /\ cpc = "fetch" /\ msg = None
    /\ projected = [p \in Partition |-> {}]
    /\ failed = [p \in Partition |-> {}]
    /\ rpc = [r \in Readers |-> "idle"]
    /\ asked = [r \in Readers |-> None]
    /\ known = [r \in Readers |-> FALSE]
    /\ result = [r \in Readers |-> "none"]

Fault == faults < MaxFaults /\ faults' = faults + 1

-----------------------------------------------------------------------------
(* The gateway.                                                            *)

\* Mutant: the transaction is published whether or not its commit succeeds.
CommitPublishFirst(t) ==
    /\ t \notin committed \cup sending
    /\ sending' = sending \cup {t}
    /\ committed' \in {committed, committed \cup {t}}
    /\ UNCHANGED <<log, consumerVars, cache, readerVars, faults>>

\* CommitTx, and if its answer arrives the goroutine that publishes.
Commit(t) ==
    /\ t \notin committed
    /\ committed' = committed \cup {t}
    /\ \/ sending' = sending \cup {t} /\ UNCHANGED faults
       \/ Fault /\ UNCHANGED sending
    /\ UNCHANGED <<log, consumerVars, cache, readerVars>>

\* PublishTransaction puts the message into the asynchronous writer, whose batch
\* goes to some partition (LeastBytes).  A lost acknowledgement sends it twice.
PublishTransaction(t) ==
    /\ t \in sending
    /\ \E p \in Partition : log' = [log EXCEPT ![p] = Append(@, t)]
    /\ \/ sending' = sending \ {t} /\ UNCHANGED faults
       \/ Fault /\ UNCHANGED sending
    /\ UNCHANGED <<committed, consumerVars, cache, readerVars>>

\* The timeout, an error of the asynchronous writer, or the end of the gateway.
PublishFails(t) ==
    /\ t \in sending
    /\ Fault
    /\ sending' = sending \ {t}
    /\ UNCHANGED <<committed, log, consumerVars, cache, readerVars>>

-----------------------------------------------------------------------------
(* The stats worker: Consumer.Run with HandleKafkaMessage.                 *)

\* Mutant: ReadMessage, which commits what it hands out.
ReadMessage(p) ==
    /\ cpc = "fetch"
    /\ position[p] < Len(log[p])
    /\ position' = [position EXCEPT ![p] = @ + 1]
    /\ offset' = [offset EXCEPT ![p] = position[p] + 1]
    /\ msg' = [p |-> p, i |-> position[p] + 1]
    /\ cpc' = "handle"
    /\ UNCHANGED <<committed, sending, log, projected, failed, cache, readerVars, faults>>

FetchMessage(p) ==
    /\ cpc = "fetch"
    /\ position[p] < Len(log[p])
    /\ position' = [position EXCEPT ![p] = @ + 1]
    /\ msg' = [p |-> p, i |-> position[p] + 1]
    /\ cpc' = "handle"
    /\ UNCHANGED <<committed, sending, log, offset, projected, failed, cache, readerVars, faults>>

\* SetTransaction in Redis.
HandleKafkaMessage ==
    /\ cpc = "handle"
    /\ cache' = cache \cup {log[msg.p][msg.i]}
    /\ projected' = [projected EXCEPT ![msg.p] = @ \cup {msg.i}]
    /\ cpc' = "commit"
    /\ UNCHANGED <<committed, sending, log, offset, position, msg, failed, readerVars, faults>>

\* SetTransaction failed, with or without effect: the loop goes on with the next
\* message.
HandleFails ==
    /\ cpc = "handle"
    /\ Fault
    /\ cache' \in {cache, cache \cup {log[msg.p][msg.i]}}
    /\ failed' = [failed EXCEPT ![msg.p] = @ \cup {msg.i}]
    /\ cpc' = "fetch" /\ msg' = None
    /\ UNCHANGED <<committed, sending, log, offset, position, projected, readerVars>>

\* CommitMessages: all messages up to this one are done.
CommitMessages ==
    /\ cpc = "commit"
    /\ offset' = [offset EXCEPT ![msg.p] = msg.i]
    /\ cpc' = "fetch" /\ msg' = None
    /\ UNCHANGED <<committed, sending, log, position, projected, failed, cache, readerVars, faults>>

\* Run returns on an error of FetchMessage or CommitMessages, or the process is
\* stopped; its supervisor starts it again.
Stop ==
    /\ cpc # "down"
    /\ Fault
    /\ cpc' = "down" /\ msg' = None
    /\ UNCHANGED <<committed, sending, log, offset, position, projected, failed, cache, readerVars>>

\* A new reader of the group starts behind the committed offsets.
Restart ==
    /\ cpc = "down"
    /\ position' = offset
    /\ cpc' = "fetch"
    /\ UNCHANGED <<committed, sending, log, offset, msg, projected, failed, cache, readerVars, faults>>

\* TransactionTTL
Expire(t) ==
    /\ t \in cache
    /\ cache' = cache \ {t}
    /\ UNCHANGED <<committed, sending, log, consumerVars, readerVars, faults>>

-----------------------------------------------------------------------------
(* GetTransaction.                                                         *)

Ask(r) ==
    /\ rpc[r] = "idle"
    /\ \E t \in Tx :
        /\ asked' = [asked EXCEPT ![r] = t]
        /\ known' = [known EXCEPT ![r] = t \in committed]
    /\ rpc' = [rpc EXCEPT ![r] = "cache"]
    /\ UNCHANGED <<committed, sending, log, consumerVars, cache, result, faults>>

Reply(r, x) ==
    /\ rpc' = [rpc EXCEPT ![r] = "done"]
    /\ result' = [result EXCEPT ![r] = x]
    /\ UNCHANGED <<committed, sending, log, consumerVars, cache, asked, known, faults>>

\* Mutant: a miss is the answer.
ReadCacheOnly(r) ==
    /\ rpc[r] = "cache"
    /\ Reply(r, IF asked[r] \in cache THEN "found" ELSE "not_found")

\* s.cache.GetTransaction: a miss goes on to the database, an error does not.
ReadCache(r) ==
    /\ rpc[r] = "cache"
    /\ \/ asked[r] \in cache /\ Reply(r, "found")
       \/ /\ asked[r] \notin cache
          /\ rpc' = [rpc EXCEPT ![r] = "db"]
          /\ UNCHANGED <<committed, sending, log, consumerVars, cache, asked, known, result, faults>>
       \/ Reply(r, "internal")

\* s.repo.GetTransactionByID
ReadDB(r) ==
    /\ rpc[r] = "db"
    /\ \/ Reply(r, IF asked[r] \in committed THEN "found" ELSE "not_found")
       \/ Reply(r, "internal")

-----------------------------------------------------------------------------

Consume ==
    \/ \E p \in Partition : FetchMessage(p)
    \/ HandleKafkaMessage \/ CommitMessages \/ Restart

Next ==
    \/ \E t \in Tx : Commit(t) \/ PublishTransaction(t) \/ PublishFails(t) \/ Expire(t)
    \/ Consume \/ HandleFails \/ Stop
    \/ \E r \in Readers : Ask(r) \/ ReadCache(r) \/ ReadDB(r)

Spec == Init /\ [][Next]_vars

\* The worker's loop runs and the supervisor restarts it.
FairSpec == Spec /\ WF_vars(Consume)

-----------------------------------------------------------------------------

Message == [p : Partition, i : Nat \ {0}]

\* Every variable holds values of its kind.
TypeOK ==
    /\ committed \in SUBSET Tx /\ sending \in SUBSET Tx /\ cache \in SUBSET Tx
    /\ log \in [Partition -> Seq(Tx)]
    /\ offset \in [Partition -> Nat] /\ position \in [Partition -> Nat]
    /\ cpc \in {"fetch", "handle", "commit", "down"}
    /\ msg \in Message \cup {None}
    /\ projected \in [Partition -> SUBSET Nat] /\ failed \in [Partition -> SUBSET Nat]
    /\ rpc \in [Readers -> {"idle", "cache", "db", "done"}]
    /\ asked \in [Readers -> Tx \cup {None}]
    /\ known \in [Readers -> BOOLEAN]
    /\ result \in [Readers -> {"none", "found", "not_found", "internal"}]
    /\ faults \in Nat

\* GetTransaction reads its writes and invents nothing: a transfer committed
\* before the call began is never "not found", and what is found is committed,
\* although messages are lost, doubled, late, and cached entries run out between
\* the call's two reads.
ReadsFaithful ==
    \A r \in Readers :
        /\ result[r] = "not_found" => ~known[r]
        /\ result[r] = "found" => asked[r] \in committed

\* Message i of partition p has been handled, if not always well.
Tried(p, i) == i \in projected[p] \cup failed[p]

\* The committed offset covers no message that Run has not handled: whenever the
\* worker stops, what it had only fetched is fetched again.
OffsetCovers == \A p \in Partition : \A i \in 1..offset[p] : Tried(p, i)

\* Every message is handled in the end, whenever the worker stops.
EveryMessageTried ==
    \A p \in Partition : \A i \in 1..(Cardinality(Tx) + MaxFaults) :
        (i <= Len(log[p])) ~> (i <= Len(log[p]) /\ Tried(p, i))

\* Only committed transfers are on their way or in Redis.
OnlyCommitted ==
    /\ sending \subseteq committed /\ cache \subseteq committed
    /\ \A p \in Partition : \A i \in 1..Len(log[p]) : log[p][i] \in committed

\* What Run has fetched is handled, up to the message in its hands.
InHand(p, i) == cpc = "handle" /\ msg.p = p /\ msg.i = i

FetchedInOrder ==
    /\ \A p \in Partition : offset[p] <= position[p] /\ position[p] <= Len(log[p])
    /\ cpc \in {"handle", "commit"} =>
            /\ msg \in Message
            /\ msg.i = position[msg.p]
    /\ cpc # "down" =>
            \A p \in Partition : \A i \in 1..position[p] : Tried(p, i) \/ InHand(p, i)

\* A call has no answer before it is over, and knows of committed transfers only.
CallsTrue ==
    \A r \in Readers :
        /\ rpc[r] # "done" => result[r] = "none"
        /\ known[r] => asked[r] \in committed

\* What makes ReadsFaithful and OffsetCovers inductive.
StatsInv ==
    /\ TypeOK /\ OnlyCommitted /\ FetchedInOrder /\ CallsTrue
    /\ ReadsFaithful /\ OffsetCovers

\* "commit offset after commit tx" (docs/HANDOFF.md): what the committed offset
\* covers has reached Redis.
OffsetAfterEffect == \A p \in Partition : \A i \in 1..offset[p] : i \in projected[p]
=============================================================================
