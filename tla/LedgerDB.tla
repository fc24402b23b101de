------------------------------ MODULE LedgerDB ------------------------------
(***************************************************************************)
(* The PostgreSQL database behind the ledger: the tables of                *)
(* migrations/000001_init_schema.up.sql and what the repository's SQL      *)
(* (internal/repository/postgres) relies on at READ COMMITTED:             *)
(*                                                                         *)
(*   - a row version written by an open transaction is invisible to the    *)
(*     others, and the row stays locked until that transaction ends;       *)
(*   - posting ids come from a sequence: they are handed out when the row  *)
(*     is inserted, never given back, and so become visible out of order;  *)
(*   - idempotency_key is UNIQUE, amount carries CHECK (amount >= 0).      *)
(*                                                                         *)
(* A transaction is named after the call that runs it: an account being    *)
(* opened (by the id CreateAccount generates for it), a Transfer call, or  *)
(* the posting worker's correction.                                        *)
(***************************************************************************)
EXTENDS Integers, Sequences, FiniteSets, Sums

CONSTANTS
    Account,     \* account ids, numbered in the order of bytes.Compare
    MaxUUID,     \* the largest of them (a UUID is a 128-bit number)
    Calls,       \* Transfer calls
    Worker,      \* the session of the posting worker's correction
    None,        \* no lock holder
    MaxConns,    \* size of the gateway's connection pool
    MaxBigint    \* the largest BIGINT

ASSUME AccountAssumption == MaxUUID \in Nat /\ Account \subseteq 1 .. MaxUUID

Tx == Account \cup Calls
Session == Tx \cup {Worker}

ASSUME SessionAssumption ==
    /\ Account \cap Calls = {}
    /\ Worker \notin Tx
    /\ None \notin Session

ASSUME BoundAssumption == MaxConns \in Nat /\ MaxBigint \in Nat

VARIABLES
    amount,      \* accounts.amount, the committed row version
    latest,      \* accounts.latest_posting_id, the committed row version
    currency,    \* accounts.currency, written once by the INSERT
    exists,      \* accounts whose row is committed
    lock,        \* the transaction holding the row lock
    newAmount,   \* amount in the row version of the lock holder, else 0
    newLatest,   \* latest_posting_id in that version, else 0
    posting,     \* ledger.postings: posting[id] = [tx, account, amount]
    txrows,      \* ledger.transactions, the open transactions' rows too
    committed,   \* transactions that committed
    conns        \* gateway transactions holding a pool connection

rowVars  == <<amount, latest, currency, exists, lock, newAmount, newLatest>>
tableVars == <<posting, txrows, committed>>
dbVars   == <<rowVars, tableVars, conns>>

DBInit ==
    /\ amount = [a \in Account |-> 0]
    /\ latest = [a \in Account |-> 0]
    /\ currency = [a \in Account |-> 0]
    /\ exists = {}
    /\ lock = [a \in Account |-> None]
    /\ newAmount = [a \in Account |-> 0]
    /\ newLatest = [a \in Account |-> 0]
    /\ posting = <<>>
    /\ txrows = {}
    /\ committed = {}
    /\ conns = {}

\* 2^15; an int16 is one of -HalfInt16 .. HalfInt16 - 1.
HalfInt16 == 32768

\* entity.Currency(req.Currency) in the gRPC handlers: a Go conversion of the
\* protobuf enum (int32) to int16.
ToInt16(n) == ((n + HalfInt16) % (2 * HalfInt16)) - HalfInt16

-----------------------------------------------------------------------------
(* Reads.  A statement sees the rows of committed transactions.            *)

Visible(i) == i \in DOMAIN posting /\ posting[i].tx \in committed

VisibleOf(a) == {i \in DOMAIN posting : Visible(i) /\ posting[i].account = a}

\* What posting i adds to a's balance, 0 for a row that is not a's or not visible.
Delta(a) ==
    [i \in Nat |-> IF Visible(i) /\ posting[i].account = a THEN posting[i].amount ELSE 0]

\* GetPostingsSum: limit 0 asks for the sum of all postings of the account.
PostingsSum(a, limit) ==
    PrefixSum(Delta(a))[IF limit > 0 /\ limit <= Len(posting) THEN limit ELSE Len(posting)]

\* SELECT COALESCE(MAX(id), 0) over a set of posting ids.
MaxId(ids) == IF ids = {} THEN 0 ELSE CHOOSE i \in ids : \A j \in ids : j <= i

-----------------------------------------------------------------------------
(* Writes of transaction s.                                                *)

\* BeginTx: a connection of the pool is free.
TakeConn(s) == Cardinality(conns) < MaxConns /\ conns' = conns \cup {s}

\* Mutant: a row locked by another transaction is written all the same.
WriteRowNoWait(s, a, amt, id) ==
    /\ lock' = [lock EXCEPT ![a] = s]
    /\ newAmount' = [newAmount EXCEPT ![a] = amt]
    /\ newLatest' = [newLatest EXCEPT ![a] = id]

\* s writes a new version of a's row: waits until nobody else holds the row.
WriteRow(s, a, amt, id) ==
    /\ lock[a] \in {None, s}
    /\ lock' = [lock EXCEPT ![a] = s]
    /\ newAmount' = [newAmount EXCEPT ![a] = amt]
    /\ newLatest' = [newLatest EXCEPT ![a] = id]

\* Insert one posting; its id is the next value of the sequence.
InsertPosting(s, a, amt) ==
    posting' = Append(posting, [tx |-> s, account |-> a, amount |-> amt])

NextPostingId == Len(posting) + 1

Mine(s) == {a \in Account : lock[a] = s}

\* End of s: its row locks are released, its connection returns to the pool.
ReleaseRows(s) ==
    /\ lock' = [a \in Account |-> IF lock[a] = s THEN None ELSE lock[a]]
    /\ newAmount' = [a \in Account |-> IF lock[a] = s THEN 0 ELSE newAmount[a]]
    /\ newLatest' = [a \in Account |-> IF lock[a] = s THEN 0 ELSE newLatest[a]]
    /\ conns' = conns \ {s}

\* The row versions s wrote replace the committed ones.
InstallRows(s) ==
    /\ amount' = [a \in Account |-> IF lock[a] = s THEN newAmount[a] ELSE amount[a]]
    /\ latest' = [a \in Account |-> IF lock[a] = s THEN newLatest[a] ELSE latest[a]]
    /\ ReleaseRows(s)

\* COMMIT: everything s wrote becomes visible at once.
CommitRows(s) ==
    /\ InstallRows(s)
    /\ exists' = exists \cup Mine(s)
    /\ committed' = committed \cup {s}
    /\ UNCHANGED <<currency, posting, txrows>>

\* ROLLBACK: nothing s wrote remains, except that its posting ids are spent.
RollbackRows(s) ==
    /\ txrows' = {r \in txrows : r.id # s}
    /\ ReleaseRows(s)
    /\ UNCHANGED <<amount, latest, exists, posting, committed>>

-----------------------------------------------------------------------------
(* What the tables say about each other.                                   *)

\* A row of ledger.transactions whose transaction is still open.
InFlight(r) == r.id \notin committed

\* accounts.amount against the posting journal.
Drift(a) == amount[a] - PostingsSum(a, 0)
=============================================================================
