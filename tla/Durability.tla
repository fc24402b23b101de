----------------------------- MODULE Durability -----------------------------
(***************************************************************************)
(* Transfers on a PostgreSQL that runs with synchronous_commit=off         *)
(* (docker-compose.yaml, k8s/postgres.yaml): a commit is answered before   *)
(* its WAL record is on disk, so a crash of the server forgets the last    *)
(* commits, while Redis still has the currencies and the completed keys    *)
(* that were written behind them.                                          *)
(*                                                                         *)
(* One client per idempotency key sends its transfer again and again.  The *)
(* amounts are left out: what a crash leaves is a prefix of the commits,   *)
(* and Gateway is about what each of them does to the balances.            *)
(***************************************************************************)
EXTENDS Integers, Sequences

CONSTANTS
    Account,
    Key,          \* idempotency keys, one client each
    Ends,         \* the two accounts of a key's transfer
    Prelogged,    \* how far nextval logs a sequence ahead (32 in PostgreSQL)
    MaxCrashes    \* bound on crashes of the server

ASSUME DurabilityAssumption ==
    /\ Ends \in [Key -> SUBSET Account]
    /\ Prelogged \in Nat \ {0} /\ MaxCrashes \in Nat

VARIABLES
    wal,          \* records of the server, the commits among them
    flushed,      \* how many of them are on disk
    sequence,     \* last id nextval has drawn (in memory)
    cached,       \* accounts whose currency is in Redis
    completed,    \* keys whose completion is in Redis
    opened,       \* accounts whose CreateAccount was answered
    pc,           \* per client: its next step
    drawn,        \* per client: the posting id of its open transaction
    crashes

redisVars == <<cached, completed>>
vars == <<wal, flushed, sequence, redisVars, opened, pc, drawn, crashes>>

Init ==
    /\ wal = <<>> /\ flushed = 0 /\ sequence = 0
    /\ cached = {} /\ completed = {} /\ opened = {}
    /\ pc = [k \in Key |-> "idle"] /\ drawn = [k \in Key |-> 0]
    /\ crashes = 0

Records(type) == {i \in DOMAIN wal : wal[i].type = type}

\* The rows a query sees.
Accounts == {wal[i].account : i \in Records("account")}
Keys == {wal[i].key : i \in Records("transfer")}

\* The value the sequence has after a crash.
Logged(w) ==
    LET seq == {i \in DOMAIN w : w[i].type = "sequence"}
    IN IF seq = {} THEN 0 ELSE w[CHOOSE i \in seq : \A j \in seq : j <= i].upto

Step(k, l) == pc' = [pc EXCEPT ![k] = l]

-----------------------------------------------------------------------------
(* Calls.                                                                  *)

\* CreateAccount: the commit, and the currency behind it, which may fail.
CreateAccount(a) ==
    /\ a \notin opened
    /\ wal' = Append(wal, [type |-> "account", account |-> a])
    /\ opened' = opened \cup {a}
    /\ cached' \in {cached, cached \cup {a}}
    /\ UNCHANGED <<flushed, sequence, completed, pc, drawn, crashes>>

\* A completed key is answered from Redis; otherwise the handler runs.
Send(k) ==
    /\ pc[k] = "idle"
    /\ k \notin completed
    /\ Step(k, "currencies")
    /\ UNCHANGED <<wal, flushed, sequence, redisVars, opened, drawn, crashes>>

\* validateTransferCurrencies believes Redis and asks the rows for the rest.
validateTransferCurrencies(k) ==
    /\ pc[k] = "currencies"
    /\ \/ /\ Ends[k] \subseteq cached \cup Accounts
          /\ cached' \in {cached, cached \cup Ends[k]}
          /\ Step(k, "transaction")
       \/ ~(Ends[k] \subseteq cached \cup Accounts) /\ Step(k, "idle") /\ UNCHANGED cached
    /\ UNCHANGED <<wal, flushed, sequence, completed, opened, drawn, crashes>>

\* Mutant: the columns user_from and user_to reference nothing.
CreateTransactionLoose(k) ==
    /\ pc[k] = "transaction"
    /\ Step(k, IF k \notin Keys THEN "postings" ELSE "idle")
    /\ UNCHANGED <<wal, flushed, sequence, redisVars, opened, drawn, crashes>>

\* The row must have a new key and REFERENCES two account rows.
CreateTransaction(k) ==
    /\ pc[k] = "transaction"
    /\ Step(k, IF k \notin Keys /\ Ends[k] \subseteq Accounts THEN "postings" ELSE "idle")
    /\ UNCHANGED <<wal, flushed, sequence, redisVars, opened, drawn, crashes>>

\* Mutant: the ids come from a counter that is not logged.
CreatePostingsUnlogged(k) ==
    /\ pc[k] = "postings"
    /\ sequence' = sequence + 1
    /\ drawn' = [drawn EXCEPT ![k] = sequence']
    /\ Step(k, "commit")
    /\ UNCHANGED <<wal, flushed, redisVars, opened, crashes>>

\* The ids of the two postings, drawn together here; nextval logs ahead.
CreatePostings(k) ==
    /\ pc[k] = "postings"
    /\ sequence' = sequence + 1
    /\ wal' = IF sequence' <= Logged(wal) THEN wal
              ELSE Append(wal, [type |-> "sequence", upto |-> sequence + Prelogged])
    /\ drawn' = [drawn EXCEPT ![k] = sequence']
    /\ Step(k, "commit")
    /\ UNCHANGED <<flushed, redisVars, opened, crashes>>

\* Answered with ok at once, and so is every later attempt that finds the
\* completion in Redis, which may fail to be stored.
CommitTx(k) ==
    /\ pc[k] = "commit"
    /\ wal' = Append(wal, [type |-> "transfer", key |-> k, id |-> drawn[k]])
    /\ completed' \in {completed, completed \cup {k}}
    /\ Step(k, "idle") /\ drawn' = [drawn EXCEPT ![k] = 0]
    /\ UNCHANGED <<flushed, sequence, cached, opened, crashes>>

-----------------------------------------------------------------------------
(* The servers.                                                            *)

\* The WAL writer.
Flush ==
    /\ flushed' = Len(wal) /\ flushed' # flushed
    /\ UNCHANGED <<wal, sequence, redisVars, opened, pc, drawn, crashes>>

\* A crash of PostgreSQL and its recovery: open transactions are gone, and so
\* is the end of the WAL.
Crash ==
    /\ crashes < MaxCrashes /\ crashes' = crashes + 1
    /\ \E n \in flushed .. Len(wal) :
        /\ wal' = SubSeq(wal, 1, n) /\ flushed' = n
        /\ sequence' = Logged(wal')
    /\ pc' = [k \in Key |-> IF pc[k] \in {"postings", "commit"} THEN "idle" ELSE pc[k]]
    /\ drawn' = [k \in Key |-> 0]
    /\ UNCHANGED <<redisVars, opened>>

\* Mutant: completed keys have no TTL.
ExpireNever(k) == FALSE /\ UNCHANGED vars

\* The TTL of a completed key.
ExpireKey(k) ==
    /\ k \in completed
    /\ completed' = completed \ {k}
    /\ UNCHANGED <<wal, flushed, sequence, cached, opened, pc, drawn, crashes>>

\* The TTL of a currency.
ExpireCurrency(a) ==
    /\ a \in cached
    /\ cached' = cached \ {a}
    /\ UNCHANGED <<wal, flushed, sequence, completed, opened, pc, drawn, crashes>>

-----------------------------------------------------------------------------

ClientStep(k) ==
    \/ Send(k) \/ validateTransferCurrencies(k) \/ CreateTransaction(k)
    \/ CreatePostings(k) \/ CommitTx(k)

Next ==
    \/ \E a \in Account : CreateAccount(a) \/ ExpireCurrency(a)
    \/ \E k \in Key : ClientStep(k) \/ ExpireKey(k)
    \/ Flush \/ Crash

Spec == Init /\ [][Next]_vars

\* Calls go on, clients send again, and a TTL ends.  The server need not crash.
FairSpec ==
    /\ Spec
    /\ \A k \in Key : WF_vars(ClientStep(k)) /\ WF_vars(ExpireKey(k))
    /\ \A a \in Account : WF_vars(CreateAccount(a))

-----------------------------------------------------------------------------

\* No transfer is recorded for an account a crash has taken back, although
\* Redis still vouches for its currency: the foreign keys refuse it.
NoGhostTransfer ==
    \A i \in Records("transfer") : Ends[wal[i].key] \subseteq
        {wal[j].account : j \in {j \in Records("account") : j < i}}

\* What survives has one transfer per key and one owner per posting id, also
\* when transfers are repeated and ids drawn again behind a crash.
SurvivorsUnique ==
    \A i, j \in Records("transfer") :
        i # j => wal[i].key # wal[j].key /\ wal[i].id # wal[j].id

\* A transfer that was acknowledged and lost is made good by a client that keeps
\* sending it: the completed key shields the loss for its TTL only.
RetriedLands == \A k \in Key : <>[](k \in Keys \/ ~(Ends[k] \subseteq Accounts))
=============================================================================
