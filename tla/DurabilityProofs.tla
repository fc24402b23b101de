-------------------------- MODULE DurabilityProofs --------------------------
(***************************************************************************)
(* NoGhostTransfer and SurvivorsUnique for any accounts, transfers and      *)
(* number of crashes.                                                      *)
(***************************************************************************)
EXTENDS Durability, SumLemmas

Record ==
    [type : {"account"}, account : Account]
        \cup [type : {"sequence"}, upto : Nat]
        \cup [type : {"transfer"}, key : Key, id : Nat]

LogType ==
    /\ wal \in Seq(Record)
    /\ flushed \in 0 .. Len(wal)
    /\ sequence \in Nat
    /\ pc \in [Key -> {"idle", "currencies", "transaction", "postings", "commit"}]
    /\ drawn \in [Key -> Nat]

\* A transaction past its INSERT has seen both account rows, and rows only go
\* away in a crash, which ends it.
References == \A k \in Key : pc[k] \in {"postings", "commit"} => Ends[k] \subseteq Accounts

GhostInv == LogType /\ References /\ NoGhostTransfer

-----------------------------------------------------------------------------

\* One record more hides no account row.
LEMMA AppendKeeps ==
    ASSUME NEW w \in Seq(Record), NEW r \in Record
    PROVE  /\ Append(w, r) \in Seq(Record)
           /\ Len(Append(w, r)) = Len(w) + 1
           /\ DOMAIN w = 1 .. Len(w)
           /\ DOMAIN Append(w, r) = 1 .. Len(w) + 1
           /\ \A i \in 1 .. Len(w) : Append(w, r)[i] = w[i]
           /\ Append(w, r)[Len(w) + 1] = r
  OBVIOUS

\* What a crash leaves is the beginning of the log.
LEMMA PrefixKeeps ==
    ASSUME NEW w \in Seq(Record), NEW n \in 0 .. Len(w)
    PROVE  /\ SubSeq(w, 1, n) \in Seq(Record)
           /\ Len(SubSeq(w, 1, n)) = n
           /\ DOMAIN w = 1 .. Len(w)
           /\ DOMAIN SubSeq(w, 1, n) = 1 .. n
           /\ \A i \in 1 .. n : SubSeq(w, 1, n)[i] = w[i]
  OBVIOUS

\* The accounts before place i.
Before(w, i) == {w[j].account : j \in {j \in DOMAIN w : w[j].type = "account" /\ j < i}}

Faithful(w) ==
    \A i \in DOMAIN w : w[i].type = "transfer" => Ends[w[i].key] \subseteq Before(w, i)

\* The property, said of any log.
LEMMA NoGhostFaithful == NoGhostTransfer <=> Faithful(wal)
  BY DEF NoGhostTransfer, Faithful, Before, Records

AccountsOf(w) == {w[j].account : j \in {j \in DOMAIN w : w[j].type = "account"}}

\* The account rows, said of any log.
LEMMA AccountsAre == Accounts = AccountsOf(wal)
  BY DEF Accounts, AccountsOf, Records

\* A record may be added unless it is a transfer between rows that are not there.
LEMMA FaithfulAppend ==
    ASSUME NEW w \in Seq(Record), NEW r \in Record, Faithful(w),
           r.type = "transfer" => Ends[r.key] \subseteq AccountsOf(w)
    PROVE  Faithful(Append(w, r)) /\ AccountsOf(w) \subseteq AccountsOf(Append(w, r))
  <1> DEFINE v == Append(w, r)
  <1>1. /\ DOMAIN w = 1 .. Len(w) /\ DOMAIN v = 1 .. Len(w) + 1 /\ Len(w) \in Nat
        /\ \A i \in 1 .. Len(w) : v[i] = w[i]
        /\ v[Len(w) + 1] = r
    BY AppendKeeps
  <1> HIDE DEF v
  <1>2. \A i \in DOMAIN w : Before(w, i) \subseteq Before(v, i)
    BY <1>1 DEF Before
  <1>3. AccountsOf(w) \subseteq AccountsOf(v) /\ AccountsOf(w) \subseteq Before(v, Len(w) + 1)
    BY <1>1 DEF AccountsOf, Before
  <1>4. Faithful(v)
    <2> SUFFICES ASSUME NEW i \in DOMAIN v, v[i].type = "transfer"
                 PROVE  Ends[v[i].key] \subseteq Before(v, i)
      BY DEF Faithful
    <2>1. CASE i \in 1 .. Len(w)
      BY <1>1, <1>2, <2>1 DEF Faithful
    <2>2. CASE i = Len(w) + 1
      BY <1>1, <1>3, <2>2
    <2> QED BY <1>1, <2>1, <2>2
  <1> QED BY <1>3, <1>4 DEF v

\* A log cut short still has every transfer after its accounts.
LEMMA FaithfulPrefix ==
    ASSUME NEW w \in Seq(Record), NEW n \in 0 .. Len(w), Faithful(w)
    PROVE  Faithful(SubSeq(w, 1, n))
  <1> DEFINE v == SubSeq(w, 1, n)
  <1>1. /\ DOMAIN w = 1 .. Len(w) /\ DOMAIN v = 1 .. n /\ Len(w) \in Nat
        /\ \A i \in 1 .. n : v[i] = w[i]
    BY PrefixKeeps
  <1> HIDE DEF v
  <1>2. \A i \in DOMAIN v : Before(w, i) = Before(v, i)
    BY <1>1 DEF Before
  <1>3. Faithful(v)
    BY <1>1, <1>2 DEF Faithful
  <1> QED BY <1>3 DEF v

SequencesOf(w) == {i \in DOMAIN w : w[i].type = "sequence"}

\* The records that log the sequence have a last one, if there are any.
LEMMA LastSequence ==
    ASSUME NEW w \in Seq(Record), SequencesOf(w) # {}
    PROVE  \E i \in SequencesOf(w) : \A j \in SequencesOf(w) : j <= i
  <1> DEFINE S == SequencesOf(w)
             T == {Len(w) - i : i \in S}
  <1>1. Len(w) \in Nat /\ S \subseteq 1 .. Len(w)
    BY DEF SequencesOf
  <1> HIDE DEF S
  <1>2. T \in SUBSET Nat /\ T # {}
    <2>1. PICK i \in S : TRUE
      BY DEF S
    <2>2. Len(w) - i \in T
      OBVIOUS
    <2>3. \A j \in S : Len(w) - j \in Nat
      BY <1>1
    <2> QED BY <2>2, <2>3
  <1>3. PICK m \in T : \A n \in T : m <= n
    <2> HIDE DEF T
    <2> QED BY <1>2, LeastNat
  <1>4. PICK i \in S : m = Len(w) - i
    OBVIOUS
  <1>5. \A j \in S : Len(w) - i <= Len(w) - j
    BY <1>3, <1>4
  <1>6. \A j \in S : j <= i
    BY <1>1, <1>5
  <1> QED BY <1>6 DEF S

\* A crash sets the sequence to what its last record says.
LEMMA LoggedLast ==
    ASSUME NEW w \in Seq(Record), NEW i \in SequencesOf(w), \A j \in SequencesOf(w) : j <= i
    PROVE  Logged(w) = w[i].upto
  <1> DEFINE last == CHOOSE n \in SequencesOf(w) : \A j \in SequencesOf(w) : j <= n
  <1>1. last \in SequencesOf(w) /\ \A j \in SequencesOf(w) : j <= last
    OBVIOUS
  <1>2. last = i
    <2>1. last <= i /\ i <= last
      BY <1>1
    <2>2. last \in Int /\ i \in Int
      BY <1>1 DEF SequencesOf
    <2> HIDE DEF last
    <2> QED BY <2>1, <2>2
  <1>3. Logged(w) = IF SequencesOf(w) = {} THEN 0 ELSE w[last].upto
    BY DEF Logged, SequencesOf
  <1> QED BY <1>2, <1>3

\* A sequence goes on from a number.
LEMMA LoggedNat ==
    ASSUME NEW w \in Seq(Record)
    PROVE  Logged(w) \in Nat
  <1>1. CASE SequencesOf(w) = {}
    BY <1>1 DEF Logged, SequencesOf
  <1>2. CASE SequencesOf(w) # {}
    <2>1. PICK i \in SequencesOf(w) : \A j \in SequencesOf(w) : j <= i
      BY <1>2, LastSequence
    <2>2. w[i].upto \in Nat
      BY DEF SequencesOf, Record
    <2> QED BY <2>1, <2>2, LoggedLast
  <1> QED BY <1>1, <1>2

-----------------------------------------------------------------------------

\* Nothing is logged and nobody has inserted anything.
LEMMA GhostInit == Init => GhostInv
  BY DEF Init, GhostInv, LogType, References, NoGhostTransfer, Records

\* What an action needs that leaves the log alone.
LEMMA SameLog ==
    ASSUME GhostInv, UNCHANGED wal, LogType', References'
    PROVE  GhostInv'
  BY DEF GhostInv, NoGhostTransfer, Records

\* What an action needs that logs a record.
LEMMA OneMoreRecord ==
    ASSUME GhostInv, NEW r \in Record, wal' = Append(wal, r), LogType',
           r.type = "transfer" => Ends[r.key] \subseteq Accounts,
           \A k \in Key : pc'[k] \in {"postings", "commit"} => pc[k] \in {"postings", "commit"}
    PROVE  GhostInv'
  <1>1. Faithful(wal) /\ wal \in Seq(Record)
    BY NoGhostFaithful DEF GhostInv, LogType
  <1>2. Faithful(wal') /\ AccountsOf(wal) \subseteq AccountsOf(wal')
    BY <1>1, FaithfulAppend, AccountsAre
  <1>3. NoGhostTransfer'
    BY <1>2 DEF NoGhostTransfer, Faithful, Before, Records
  <1>4. Accounts' = AccountsOf(wal')
    BY DEF Accounts, AccountsOf, Records
  <1>5. References'
    BY <1>2, <1>4, AccountsAre DEF GhostInv, References
  <1> QED BY <1>3, <1>5 DEF GhostInv

\* Every step keeps the invariant.
LEMMA GhostStep == GhostInv /\ [Next]_vars => GhostInv'
  <1> SUFFICES ASSUME GhostInv, [Next]_vars PROVE GhostInv'
    OBVIOUS
  <1> USE DurabilityAssumption
  <1>0. LogType /\ References
    BY DEF GhostInv
  <1>1. ASSUME NEW a \in Account, CreateAccount(a) PROVE GhostInv'
    <2> DEFINE r == [type |-> "account", account |-> a]
    <2>1. r \in Record /\ r.type # "transfer"
      BY DEF Record
    <2>2. wal' = Append(wal, r) /\ UNCHANGED <<flushed, sequence, pc, drawn>>
      BY <1>1 DEF CreateAccount
    <2> HIDE DEF r
    <2>3. LogType'
      BY <1>0, <2>1, <2>2, AppendKeeps DEF LogType
    <2> QED BY <2>1, <2>2, <2>3, OneMoreRecord
  <1>2. ASSUME NEW k \in Key, Send(k) PROVE GhostInv'
    <2>1. UNCHANGED wal /\ LogType'
      BY <1>0, <1>2 DEF Send, Step, LogType
    <2>2. References'
      BY <1>0, <1>2 DEF Send, Step, LogType, References, Accounts, Records
    <2> QED BY <2>1, <2>2, SameLog
  <1>3. ASSUME NEW k \in Key, validateTransferCurrencies(k) PROVE GhostInv'
    <2>1. UNCHANGED wal /\ LogType'
      BY <1>0, <1>3 DEF validateTransferCurrencies, Step, LogType
    <2>2. References'
      BY <1>0, <1>3 DEF validateTransferCurrencies, Step, LogType, References, Accounts, Records
    <2> QED BY <2>1, <2>2, SameLog
  <1>4. ASSUME NEW k \in Key, CreateTransaction(k) PROVE GhostInv'
    <2>1. UNCHANGED wal /\ LogType'
      BY <1>0, <1>4 DEF CreateTransaction, Step, LogType
    <2>2. Accounts' = Accounts
      BY <2>1 DEF Accounts, Records
    <2>3. References'
      BY <1>0, <1>4, <2>2 DEF CreateTransaction, Step, LogType, References
    <2> QED BY <2>1, <2>3, SameLog
  <1>5. ASSUME NEW k \in Key, CreatePostings(k) PROVE GhostInv'
    <2>1. /\ pc[k] = "postings" /\ pc' = [pc EXCEPT ![k] = "commit"]
          /\ sequence' = sequence + 1 /\ drawn' = [drawn EXCEPT ![k] = sequence + 1]
          /\ flushed' = flushed
      BY <1>5 DEF CreatePostings, Step
    <2>2. CASE UNCHANGED wal
      <3>1. LogType' /\ Accounts' = Accounts
        BY <1>0, <2>1, <2>2 DEF LogType, Accounts, Records
      <3>2. References'
        BY <1>0, <2>1, <3>1 DEF LogType, References
      <3> QED BY <2>2, <3>1, <3>2, SameLog
    <2> DEFINE r == [type |-> "sequence", upto |-> sequence + Prelogged]
    <2>3. CASE wal' = Append(wal, r)
      <3>1. r \in Record /\ r.type # "transfer"
        BY <1>0 DEF Record, LogType
      <3> HIDE DEF r
      <3>2. LogType'
        BY <1>0, <2>1, <2>3, <3>1, AppendKeeps DEF LogType
      <3>3. \A j \in Key : pc'[j] \in {"postings", "commit"} => pc[j] \in {"postings", "commit"}
        BY <1>0, <2>1 DEF LogType
      <3> QED BY <2>3, <3>1, <3>2, <3>3, OneMoreRecord
    <2> QED BY <1>5, <2>2, <2>3 DEF CreatePostings
  <1>6. ASSUME NEW k \in Key, CommitTx(k) PROVE GhostInv'
    <2> DEFINE r == [type |-> "transfer", key |-> k, id |-> drawn[k]]
    <2>1. r \in Record /\ r.key = k
      BY <1>0 DEF Record, LogType
    <2>2. /\ wal' = Append(wal, r) /\ pc[k] = "commit"
          /\ pc' = [pc EXCEPT ![k] = "idle"] /\ drawn' = [drawn EXCEPT ![k] = 0]
          /\ UNCHANGED <<flushed, sequence>>
      BY <1>6 DEF CommitTx, Step
    <2> HIDE DEF r
    <2>3. LogType'
      BY <1>0, <2>1, <2>2, AppendKeeps DEF LogType
    <2>4. Ends[r.key] \subseteq Accounts
      BY <1>0, <2>1, <2>2 DEF References
    <2>5. \A j \in Key : pc'[j] \in {"postings", "commit"} => pc[j] \in {"postings", "commit"}
      BY <1>0, <2>2 DEF LogType
    <2> QED BY <2>1, <2>2, <2>3, <2>4, <2>5, OneMoreRecord
  <1>7. ASSUME Flush PROVE GhostInv'
    <2>1. UNCHANGED wal /\ LogType'
      BY <1>0, <1>7 DEF Flush, LogType
    <2>2. References'
      BY <1>0, <1>7 DEF Flush, References, Accounts, Records
    <2> QED BY <2>1, <2>2, SameLog
  <1>8. ASSUME Crash PROVE GhostInv'
    <2>1. PICK n \in flushed .. Len(wal) :
            wal' = SubSeq(wal, 1, n) /\ flushed' = n /\ sequence' = Logged(wal')
      BY <1>8 DEF Crash
    <2>2. n \in 0 .. Len(wal) /\ wal \in Seq(Record)
      BY <1>0 DEF LogType
    <2>3. wal' \in Seq(Record) /\ flushed' \in 0 .. Len(wal')
      BY <2>1, <2>2, PrefixKeeps
    <2>4. sequence' \in Nat
      BY <2>1, <2>3, LoggedNat
    <2>5. \A k \in Key : /\ pc'[k] \notin {"postings", "commit"}
                         /\ pc'[k] \in {"idle", "currencies", "transaction"}
      BY <1>0, <1>8 DEF Crash, LogType
    <2>6. LogType'
      BY <1>0, <1>8, <2>3, <2>4, <2>5 DEF Crash, LogType
    <2>7. Faithful(wal')
      BY <2>1, <2>2, FaithfulPrefix, NoGhostFaithful DEF GhostInv
    <2>8. NoGhostTransfer'
      BY <2>7 DEF NoGhostTransfer, Faithful, Before, Records
    <2>9. References'
      BY <2>5 DEF References
    <2> QED BY <2>6, <2>8, <2>9 DEF GhostInv
  <1>9. ASSUME NEW k \in Key, ExpireKey(k) PROVE GhostInv'
    <2>1. UNCHANGED wal /\ LogType'
      BY <1>0, <1>9 DEF ExpireKey, LogType
    <2>2. References'
      BY <1>0, <1>9 DEF ExpireKey, References, Accounts, Records
    <2> QED BY <2>1, <2>2, SameLog
  <1>10. ASSUME NEW a \in Account, ExpireCurrency(a) PROVE GhostInv'
    <2>1. UNCHANGED wal /\ LogType'
      BY <1>0, <1>10 DEF ExpireCurrency, LogType
    <2>2. References'
      BY <1>0, <1>10 DEF ExpireCurrency, References, Accounts, Records
    <2> QED BY <2>1, <2>2, SameLog
  <1>11. ASSUME UNCHANGED vars PROVE GhostInv'
    <2>1. UNCHANGED wal /\ LogType'
      BY <1>0, <1>11 DEF vars, LogType
    <2>2. References'
      BY <1>0, <1>11 DEF vars, References, Accounts, Records
    <2> QED BY <2>1, <2>2, SameLog
  <1> QED
    BY <1>1, <1>2, <1>3, <1>4, <1>5, <1>6, <1>7, <1>8, <1>9, <1>10, <1>11
       DEF Next, ClientStep

\* However often the server forgets its last commits, no transfer is recorded
\* for an account that is not there: the foreign keys of CreateTransaction hold
\* against what the currency cache says.
THEOREM GhostFree == Spec => []NoGhostTransfer
  <1>1. Spec => []GhostInv
    BY GhostInit, GhostStep, PTL DEF Spec
  <1>2. GhostInv => NoGhostTransfer
    BY DEF GhostInv
  <1> QED BY <1>1, <1>2, PTL

-----------------------------------------------------------------------------
(* SurvivorsUnique.  A crash takes the sequence back to its last logged      *)
(* value, so ids are drawn again; what must not happen is that one of them   *)
(* is in the log already.                                                    *)

TransfersOf(w) == {i \in DOMAIN w : w[i].type = "transfer"}

\* The sequence is logged in ascending order.
Ascending(w) == \A i, j \in SequencesOf(w) : i < j => w[i].upto <= w[j].upto

\* An id is logged before the transfer that uses it: a log that keeps the
\* transfer keeps a value of the sequence at or above its id.
Covered(w) == \A i \in TransfersOf(w) : \E j \in SequencesOf(w) : j < i /\ w[i].id <= w[j].upto

Distinct(w) == \A i, j \in TransfersOf(w) : i # j => w[i].key # w[j].key /\ w[i].id # w[j].id

UniqueLog(w) == Ascending(w) /\ Covered(w) /\ Distinct(w)

\* The sequence is never ahead of the log nor behind an id in it.
SequenceLogged ==
    /\ sequence <= Logged(wal)
    /\ \A i \in TransfersOf(wal) : wal[i].id <= sequence

\* A transaction past its INSERT holds a key the log does not have.
KeysFree == \A k \in Key : pc[k] \in {"postings", "commit"} => \A i \in TransfersOf(wal) : wal[i].key # k

\* The id of an open transaction is its own.
DrawnOnce ==
    \A k \in Key : pc[k] = "commit" =>
        /\ drawn[k] \in 1 .. sequence
        /\ \A i \in TransfersOf(wal) : wal[i].id # drawn[k]
        /\ \A l \in Key \ {k} : pc[l] = "commit" => drawn[l] # drawn[k]

UniqueInv == LogType /\ UniqueLog(wal) /\ SequenceLogged /\ KeysFree /\ DrawnOnce

\* The last logged value of the sequence is its largest.
LEMMA LoggedBounds ==
    ASSUME NEW w \in Seq(Record), Ascending(w)
    PROVE  \A j \in SequencesOf(w) : w[j].upto <= Logged(w)
  <1> SUFFICES ASSUME NEW j \in SequencesOf(w) PROVE w[j].upto <= Logged(w)
    OBVIOUS
  <1>1. PICK i \in SequencesOf(w) : \A n \in SequencesOf(w) : n <= i
    BY LastSequence
  <1>2. Logged(w) = w[i].upto
    BY <1>1, LoggedLast
  <1>3. i \in Int /\ j \in Int /\ w[i].upto \in Nat /\ w[j].upto \in Nat
    BY DEF SequencesOf, Record
  <1>4. i = j \/ j < i
    BY <1>1, <1>3
  <1> QED BY <1>2, <1>3, <1>4 DEF Ascending

\* What one record more adds to the log.
LEMMA AppendRecords ==
    ASSUME NEW w \in Seq(Record), NEW r \in Record
    PROVE  /\ SequencesOf(Append(w, r)) =
                SequencesOf(w) \cup (IF r.type = "sequence" THEN {Len(w) + 1} ELSE {})
           /\ TransfersOf(Append(w, r)) =
                TransfersOf(w) \cup (IF r.type = "transfer" THEN {Len(w) + 1} ELSE {})
           /\ SequencesOf(w) \subseteq 1 .. Len(w) /\ TransfersOf(w) \subseteq 1 .. Len(w)
  <1> DEFINE v == Append(w, r)
  <1>1. /\ DOMAIN w = 1 .. Len(w) /\ DOMAIN v = 1 .. Len(w) + 1 /\ Len(w) \in Nat
        /\ \A i \in 1 .. Len(w) : v[i] = w[i]
        /\ v[Len(w) + 1] = r
    BY AppendKeeps
  <1> HIDE DEF v
  <1>2. \A i : i \in DOMAIN v <=> i \in DOMAIN w \/ i = Len(w) + 1
    BY <1>1
  <1>3. SequencesOf(v) = SequencesOf(w) \cup (IF r.type = "sequence" THEN {Len(w) + 1} ELSE {})
    BY <1>1, <1>2 DEF SequencesOf
  <1>4. TransfersOf(v) = TransfersOf(w) \cup (IF r.type = "transfer" THEN {Len(w) + 1} ELSE {})
    BY <1>1, <1>2 DEF TransfersOf
  <1>5. SequencesOf(w) \subseteq 1 .. Len(w) /\ TransfersOf(w) \subseteq 1 .. Len(w)
    BY <1>1 DEF SequencesOf, TransfersOf
  <1> QED BY <1>3, <1>4, <1>5 DEF v

\* The transfers of the log stay as they are, whatever is added.
LEMMA TransfersKept ==
    ASSUME NEW w \in Seq(Record), NEW r \in Record
    PROVE  /\ \A i \in TransfersOf(w) : Append(w, r)[i] = w[i]
           /\ r.type # "transfer" => TransfersOf(Append(w, r)) = TransfersOf(w)
           /\ r.type = "transfer" => /\ TransfersOf(Append(w, r)) = TransfersOf(w) \cup {Len(w) + 1}
                                     /\ Append(w, r)[Len(w) + 1] = r
  <1>1. TransfersOf(w) \subseteq 1 .. Len(w)
    BY AppendRecords
  <1>2. \A i \in 1 .. Len(w) : Append(w, r)[i] = w[i]
    BY AppendKeeps
  <1>3. Append(w, r)[Len(w) + 1] = r
    BY AppendKeeps
  <1>4. TransfersOf(Append(w, r)) = TransfersOf(w) \cup (IF r.type = "transfer" THEN {Len(w) + 1} ELSE {})
    BY AppendRecords
  <1> QED BY <1>1, <1>2, <1>3, <1>4, Zenon

\* The value of the sequence changes with the records that log it.
LEMMA LoggedAppend ==
    ASSUME NEW w \in Seq(Record), NEW r \in Record
    PROVE  Logged(Append(w, r)) = IF r.type = "sequence" THEN r.upto ELSE Logged(w)
  <1> DEFINE v == Append(w, r)
  <1>1. /\ v \in Seq(Record) /\ DOMAIN w = 1 .. Len(w) /\ Len(w) \in Nat
        /\ \A i \in 1 .. Len(w) : v[i] = w[i]
        /\ v[Len(w) + 1] = r
    BY AppendKeeps
  <1>2. /\ SequencesOf(v) = SequencesOf(w) \cup (IF r.type = "sequence" THEN {Len(w) + 1} ELSE {})
        /\ SequencesOf(w) \subseteq 1 .. Len(w)
    BY AppendRecords
  <1> HIDE DEF v
  <1>3. CASE r.type = "sequence"
    <2>1. Len(w) + 1 \in SequencesOf(v) /\ \A j \in SequencesOf(v) : j <= Len(w) + 1
      BY <1>1, <1>2, <1>3
    <2>2. Logged(v) = v[Len(w) + 1].upto
      BY <1>1, <2>1, LoggedLast
    <2> QED BY <1>1, <1>3, <2>2 DEF v
  <1>4. CASE r.type # "sequence" /\ SequencesOf(w) = {}
    <2>1. Logged(v) = 0 /\ Logged(w) = 0
      BY <1>2, <1>4 DEF Logged, SequencesOf
    <2> QED BY <1>4, <2>1 DEF v
  <1>5. CASE r.type # "sequence" /\ SequencesOf(w) # {}
    <2>1. PICK i \in SequencesOf(w) : \A n \in SequencesOf(w) : n <= i
      BY <1>5, LastSequence
    <2>2. Logged(w) = w[i].upto
      BY <2>1, LoggedLast
    <2>3. i \in SequencesOf(v) /\ \A n \in SequencesOf(v) : n <= i
      BY <1>2, <1>5, <2>1
    <2>4. Logged(v) = v[i].upto
      BY <1>1, <2>3, LoggedLast
    <2>5. v[i] = w[i]
      BY <1>1, <1>2
    <2> QED BY <1>5, <2>2, <2>4, <2>5 DEF v
  <1> QED BY <1>3, <1>4, <1>5

\* A log may go on with a sequence value above the last one, or with a transfer
\* whose id is logged and whose key and id are new.
LEMMA UniqueAppend ==
    ASSUME NEW w \in Seq(Record), NEW r \in Record, UniqueLog(w),
           r.type = "sequence" => Logged(w) <= r.upto,
           r.type = "transfer" =>
               /\ r.id \in 1 .. Logged(w)
               /\ \A i \in TransfersOf(w) : w[i].key # r.key /\ w[i].id # r.id
    PROVE  UniqueLog(Append(w, r))
  <1> DEFINE v == Append(w, r)
             n == Len(w) + 1
  <1>1. /\ v \in Seq(Record) /\ DOMAIN w = 1 .. Len(w) /\ Len(w) \in Nat
        /\ \A i \in 1 .. Len(w) : v[i] = w[i]
        /\ v[n] = r
    BY AppendKeeps
  <1>2. /\ SequencesOf(v) = SequencesOf(w) \cup (IF r.type = "sequence" THEN {n} ELSE {})
        /\ TransfersOf(v) = TransfersOf(w) \cup (IF r.type = "transfer" THEN {n} ELSE {})
        /\ SequencesOf(w) \subseteq 1 .. Len(w) /\ TransfersOf(w) \subseteq 1 .. Len(w)
    BY AppendRecords
  <1>3. \A j \in SequencesOf(w) : w[j].upto \in Nat /\ w[j].upto <= Logged(w)
    BY LoggedBounds DEF UniqueLog, SequencesOf, Record
  <1>4. Logged(w) \in Nat /\ (r.type = "sequence" => r.upto \in Nat)
    BY LoggedNat DEF Record
  <1> HIDE DEF v
  <1>5. Ascending(v)
    <2> SUFFICES ASSUME NEW i \in SequencesOf(v), NEW j \in SequencesOf(v), i < j
                 PROVE  v[i].upto <= v[j].upto
      BY DEF Ascending
    <2>1. i \in SequencesOf(w)
      BY <1>1, <1>2
    <2>2. CASE j \in SequencesOf(w)
      BY <1>1, <1>2, <2>1, <2>2 DEF UniqueLog, Ascending
    <2>3. CASE r.type = "sequence" /\ j = n
      BY <1>1, <1>2, <1>3, <1>4, <2>1, <2>3
    <2> QED BY <1>2, <2>2, <2>3
  <1>6. Covered(v)
    <2> SUFFICES ASSUME NEW i \in TransfersOf(v)
                 PROVE  \E j \in SequencesOf(v) : j < i /\ v[i].id <= v[j].upto
      BY DEF Covered
    <2>1. CASE i \in TransfersOf(w)
      BY <1>1, <1>2, <2>1 DEF UniqueLog, Covered
    <2>2. CASE r.type = "transfer" /\ i = n
      <3>1. SequencesOf(w) # {}
        <4> SUFFICES ASSUME SequencesOf(w) = {} PROVE FALSE
          OBVIOUS
        <4>1. Logged(w) = 0
          BY DEF Logged, SequencesOf
        <4> QED BY <2>2, <4>1
      <3>2. PICK j \in SequencesOf(w) : \A l \in SequencesOf(w) : l <= j
        BY <3>1, LastSequence
      <3>3. Logged(w) = w[j].upto
        BY <3>2, LoggedLast
      <3> QED BY <1>1, <1>2, <2>2, <3>3
    <2> QED BY <1>2, <2>1, <2>2
  <1>7. Distinct(v)
    <2> SUFFICES ASSUME NEW i \in TransfersOf(v), NEW j \in TransfersOf(v), i # j
                 PROVE  v[i].key # v[j].key /\ v[i].id # v[j].id
      BY DEF Distinct
    <2>1. CASE i \in TransfersOf(w) /\ j \in TransfersOf(w)
      BY <1>1, <1>2, <2>1 DEF UniqueLog, Distinct
    <2>2. CASE r.type = "transfer" /\ i \in TransfersOf(w) /\ j = n
      BY <1>1, <1>2, <2>2
    <2>3. CASE r.type = "transfer" /\ j \in TransfersOf(w) /\ i = n
      BY <1>1, <1>2, <2>3
    <2> QED BY <1>2, <2>1, <2>2, <2>3
  <1> QED BY <1>5, <1>6, <1>7 DEF UniqueLog, v

\* So may a log that is cut short, and its sequence is not behind its ids.
LEMMA UniquePrefix ==
    ASSUME NEW w \in Seq(Record), NEW n \in 0 .. Len(w), UniqueLog(w)
    PROVE  /\ UniqueLog(SubSeq(w, 1, n))
           /\ \A i \in TransfersOf(SubSeq(w, 1, n)) :
                SubSeq(w, 1, n)[i].id <= Logged(SubSeq(w, 1, n))
  <1> DEFINE v == SubSeq(w, 1, n)
  <1>1. /\ v \in Seq(Record)
        /\ DOMAIN w = 1 .. Len(w) /\ DOMAIN v = 1 .. n /\ Len(w) \in Nat
        /\ \A i \in 1 .. n : v[i] = w[i]
    BY PrefixKeeps
  <1> HIDE DEF v
  <1>2. /\ SequencesOf(v) = SequencesOf(w) \cap 1 .. n
        /\ TransfersOf(v) = TransfersOf(w) \cap 1 .. n
        /\ SequencesOf(w) \subseteq Int /\ TransfersOf(w) \subseteq Int
        /\ \A j \in SequencesOf(w) : j >= 1
    BY <1>1 DEF SequencesOf, TransfersOf
  <1>3. Ascending(v)
    BY <1>1, <1>2 DEF UniqueLog, Ascending
  <1>4. Covered(v)
    <2> SUFFICES ASSUME NEW i \in TransfersOf(v)
                 PROVE  \E j \in SequencesOf(v) : j < i /\ v[i].id <= v[j].upto
      BY DEF Covered
    <2>1. PICK j \in SequencesOf(w) : j < i /\ w[i].id <= w[j].upto
      BY <1>2 DEF UniqueLog, Covered
    <2>2. j \in SequencesOf(v)
      BY <1>2, <2>1
    <2> QED BY <1>1, <1>2, <2>1, <2>2
  <1>5. Distinct(v)
    BY <1>1, <1>2 DEF UniqueLog, Distinct
  <1>6. ASSUME NEW i \in TransfersOf(v) PROVE v[i].id <= Logged(v)
    <2>1. PICK j \in SequencesOf(v) : v[i].id <= v[j].upto
      BY <1>4 DEF Covered
    <2>2. v[j].upto <= Logged(v)
      BY <1>1, <1>3, LoggedBounds
    <2>3. v[i].id \in Nat /\ v[j].upto \in Nat /\ Logged(v) \in Nat
      BY <1>1, LoggedNat DEF TransfersOf, SequencesOf, Record
    <2> QED BY <2>1, <2>2, <2>3
  <1> QED BY <1>3, <1>4, <1>5, <1>6 DEF UniqueLog, v

\* What a step needs that leaves the log and the sequence alone and draws no id.
LEMMA UniqueSame ==
    ASSUME UniqueInv, LogType', UNCHANGED <<wal, sequence, drawn>>,
           \A k \in Key : pc'[k] = "commit" => pc[k] = "commit",
           \A k \in Key : pc'[k] = "postings" =>
               pc[k] = "postings" \/ \A i \in TransfersOf(wal) : wal[i].key # k
    PROVE  UniqueInv'
  <1>1. UniqueLog(wal)' /\ SequenceLogged'
    BY DEF UniqueInv, UniqueLog, SequenceLogged, Ascending, Covered, Distinct, SequencesOf, TransfersOf
  <1>2. TransfersOf(wal)' = TransfersOf(wal)
    BY DEF TransfersOf
  <1>3. KeysFree'
    BY <1>2 DEF UniqueInv, KeysFree
  <1>4. DrawnOnce'
    BY <1>2 DEF UniqueInv, DrawnOnce
  <1> QED BY <1>1, <1>3, <1>4 DEF UniqueInv

\* What a step needs that logs something else than a transfer, with the sequence
\* at most where the log says.
LEMMA UniqueRecord ==
    ASSUME UniqueInv, LogType', NEW r \in Record, wal' = Append(wal, r), r.type # "transfer",
           r.type = "sequence" => Logged(wal) <= r.upto,
           sequence <= sequence', sequence' <= Logged(wal'),
           \A k \in Key : pc'[k] \in {"postings", "commit"} => pc[k] \in {"postings", "commit"},
           DrawnOnce'
    PROVE  UniqueInv'
  <1>0. wal \in Seq(Record) /\ UniqueLog(wal) /\ sequence \in Nat /\ sequence' \in Nat
    BY DEF UniqueInv, LogType
  <1>1. UniqueLog(wal')
    BY <1>0, UniqueAppend
  <1>2. /\ TransfersOf(wal') = TransfersOf(wal)
        /\ \A i \in TransfersOf(wal) : wal'[i] = wal[i] /\ wal[i].id \in Nat
    BY <1>0, AppendRecords, AppendKeeps DEF TransfersOf, Record
  <1>3. SequenceLogged'
    <2>1. \A i \in TransfersOf(wal) : wal[i].id <= sequence
      BY DEF UniqueInv, SequenceLogged
    <2>2. ASSUME NEW i \in TransfersOf(wal') PROVE wal'[i].id <= sequence'
      <3>1. wal'[i].id \in Nat /\ wal'[i].id <= sequence
        BY <1>2, <2>1, Zenon
      <3>2. \A x, y, z \in Nat : x <= y /\ y <= z => x <= z
        OBVIOUS
      <3> QED BY <1>0, <3>1, <3>2, Zenon
    <2> QED BY <2>2, Zenon DEF SequenceLogged
  <1>4. KeysFree'
    BY <1>2 DEF UniqueInv, KeysFree
  <1>5. UniqueLog(wal)'
    BY <1>1 DEF UniqueLog, Ascending, Covered, Distinct, SequencesOf, TransfersOf
  <1> QED BY <1>3, <1>4, <1>5 DEF UniqueInv

\* A new account row.
LEMMA UniqueAccount ==
    ASSUME UniqueInv, LogType', NEW a \in Account, CreateAccount(a)
    PROVE  UniqueInv'
  <1> DEFINE r == [type |-> "account", account |-> a]
  <1>1. /\ r \in Record /\ r.type = "account"
        /\ wal' = Append(wal, r) /\ UNCHANGED <<sequence, pc, drawn>>
    BY DEF CreateAccount, Record
  <1>2. wal \in Seq(Record) /\ sequence \in Nat /\ sequence <= Logged(wal)
    BY DEF UniqueInv, LogType, SequenceLogged
  <1> HIDE DEF r
  <1>3. Logged(wal') = Logged(wal)
    BY <1>1, <1>2, LoggedAppend
  <1>4. TransfersOf(wal') = TransfersOf(wal) /\ \A i \in TransfersOf(wal) : wal'[i] = wal[i]
    BY <1>1, <1>2, TransfersKept
  <1>5. DrawnOnce'
    BY <1>1, <1>4 DEF UniqueInv, DrawnOnce
  <1> QED BY <1>1, <1>2, <1>3, <1>5, UniqueRecord

\* A new id, above every id drawn since the crash and every id in the log.
LEMMA UniqueDraw ==
    ASSUME UniqueInv, LogType', NEW k \in Key, CreatePostings(k)
    PROVE  UniqueInv'
  <1> DEFINE r == [type |-> "sequence", upto |-> sequence + Prelogged]
  <1>0. /\ wal \in Seq(Record) /\ sequence \in Nat /\ sequence <= Logged(wal)
        /\ Prelogged \in Nat /\ Prelogged >= 1 /\ Logged(wal) \in Nat
        /\ DOMAIN pc = Key /\ DOMAIN drawn = Key
        /\ \A i \in TransfersOf(wal) : wal[i].id <= sequence /\ wal[i].id \in Nat
    BY DurabilityAssumption, LoggedNat DEF UniqueInv, LogType, SequenceLogged, TransfersOf, Record
  <1>1. /\ pc[k] = "postings" /\ pc' = [pc EXCEPT ![k] = "commit"]
        /\ sequence' = sequence + 1 /\ drawn' = [drawn EXCEPT ![k] = sequence + 1]
    BY DEF CreatePostings, Step
  <1>2. /\ \A l \in Key \ {k} : pc'[l] = pc[l] /\ drawn'[l] = drawn[l]
        /\ pc'[k] = "commit" /\ drawn'[k] = sequence + 1
    BY <1>0, <1>1
  <1>3. ASSUME TransfersOf(wal') = TransfersOf(wal), \A i \in TransfersOf(wal) : wal'[i] = wal[i]
        PROVE  DrawnOnce'
    <2> SUFFICES ASSUME NEW l \in Key, pc'[l] = "commit"
                 PROVE  /\ drawn'[l] \in 1 .. sequence'
                        /\ \A i \in TransfersOf(wal') : wal'[i].id # drawn'[l]
                        /\ \A m \in Key \ {l} : pc'[m] = "commit" => drawn'[m] # drawn'[l]
      BY DEF DrawnOnce
    <2>1. \A m \in Key \ {k} : pc[m] = "commit" =>
            /\ drawn[m] \in 1 .. sequence
            /\ \A i \in TransfersOf(wal) : wal[i].id # drawn[m]
            /\ \A j \in Key \ {m} : pc[j] = "commit" => drawn[j] # drawn[m]
      BY DEF UniqueInv, DrawnOnce
    <2>2. CASE l = k
      BY <1>0, <1>1, <1>2, <1>3, <2>1, <2>2
    <2>3. CASE l # k
      BY <1>0, <1>1, <1>2, <1>3, <2>1, <2>3
    <2> QED BY <2>2, <2>3
  <1>4. CASE sequence + 1 <= Logged(wal)
    <2>1. UNCHANGED wal
      BY <1>4, <1>1 DEF CreatePostings
    <2>2. DrawnOnce' /\ TransfersOf(wal)' = TransfersOf(wal)
      BY <1>3, <2>1 DEF TransfersOf
    <2>3. UniqueLog(wal)'
      BY <2>1 DEF UniqueInv, UniqueLog, Ascending, Covered, Distinct, SequencesOf, TransfersOf
    <2>4. Logged(wal)' = Logged(wal)
      BY <2>1
    <2>5. SequenceLogged'
      BY <1>0, <1>1, <1>4, <2>1, <2>2, <2>4 DEF SequenceLogged
    <2>6. KeysFree'
      BY <1>1, <1>2, <2>1, <2>2 DEF UniqueInv, KeysFree
    <2> QED BY <2>2, <2>3, <2>5, <2>6 DEF UniqueInv
  <1>5. CASE ~(sequence + 1 <= Logged(wal))
    <2>1. wal' = Append(wal, r)
      BY <1>5, <1>1 DEF CreatePostings
    <2>2. r \in Record /\ r.type = "sequence" /\ r.upto = sequence + Prelogged
      BY <1>0 DEF Record
    <2> HIDE DEF r
    <2>3. Logged(wal') = sequence + Prelogged
      BY <1>0, <2>1, <2>2, LoggedAppend
    <2>4. TransfersOf(wal') = TransfersOf(wal) /\ \A i \in TransfersOf(wal) : wal'[i] = wal[i]
      BY <1>0, <2>1, <2>2, TransfersKept
    <2>7. DrawnOnce'
      BY <1>3, <2>4
    <2>5. /\ Logged(wal) <= r.upto /\ sequence <= sequence' /\ sequence' <= Logged(wal')
      BY <1>0, <1>1, <1>5, <2>2, <2>3
    <2>6. \A l \in Key : pc'[l] \in {"postings", "commit"} => pc[l] \in {"postings", "commit"}
      BY <1>1, <1>2
    <2> QED BY <2>1, <2>2, <2>5, <2>6, <2>7, UniqueRecord
  <1> QED BY <1>4, <1>5

\* A committed transfer: its key and its id are in no other record.
LEMMA UniqueCommit ==
    ASSUME UniqueInv, LogType', NEW k \in Key, CommitTx(k)
    PROVE  UniqueInv'
  <1> DEFINE r == [type |-> "transfer", key |-> k, id |-> drawn[k]]
  <1>0. /\ wal \in Seq(Record) /\ UniqueLog(wal) /\ sequence \in Nat /\ sequence <= Logged(wal)
        /\ Logged(wal) \in Nat /\ DOMAIN pc = Key /\ DOMAIN drawn = Key /\ drawn[k] \in Nat
        /\ \A i \in TransfersOf(wal) : wal[i].id <= sequence
    BY LoggedNat DEF UniqueInv, LogType, SequenceLogged
  <1>1. /\ wal' = Append(wal, r) /\ pc[k] = "commit"
        /\ pc' = [pc EXCEPT ![k] = "idle"] /\ drawn' = [drawn EXCEPT ![k] = 0]
        /\ UNCHANGED sequence
    BY DEF CommitTx, Step
  <1>2. r \in Record /\ r.type = "transfer" /\ r.key = k /\ r.id = drawn[k]
    BY <1>0 DEF Record
  <1> HIDE DEF r
  <1>3. /\ r.id \in 1 .. sequence
        /\ \A i \in TransfersOf(wal) : wal[i].key # k /\ wal[i].id # r.id
    BY <1>1, <1>2 DEF UniqueInv, KeysFree, DrawnOnce
  <1>4. UniqueLog(wal')
    BY <1>0, <1>1, <1>2, <1>3, UniqueAppend
  <1>5. /\ TransfersOf(wal') = TransfersOf(wal) \cup {Len(wal) + 1}
        /\ wal'[Len(wal) + 1] = r /\ \A i \in TransfersOf(wal) : wal'[i] = wal[i]
        /\ Logged(wal') = Logged(wal)
    BY <1>0, <1>1, <1>2, TransfersKept, LoggedAppend
  <1>6. SequenceLogged'
    <2>1. sequence' <= Logged(wal')
      BY <1>0, <1>1, <1>5
    <2>2. ASSUME NEW i \in TransfersOf(wal') PROVE wal'[i].id <= sequence'
      <3>1. CASE i \in TransfersOf(wal)
        BY <1>0, <1>1, <1>5, <3>1, Zenon
      <3>2. CASE i = Len(wal) + 1
        <4>1. r.id <= sequence
          BY <1>3
        <4> QED BY <1>1, <1>5, <3>2, <4>1, Zenon
      <3> QED BY <1>5, <3>1, <3>2, Zenon
    <2> QED BY <2>1, <2>2, Zenon DEF SequenceLogged
  <1>7. \A l \in Key : pc'[l] \in {"postings", "commit"} => l # k /\ pc'[l] = pc[l] /\ drawn'[l] = drawn[l]
    BY <1>0, <1>1
  <1>8. KeysFree'
    BY <1>2, <1>5, <1>7 DEF UniqueInv, KeysFree
  <1>9. DrawnOnce'
    <2> SUFFICES ASSUME NEW l \in Key, pc'[l] = "commit"
                 PROVE  /\ drawn'[l] \in 1 .. sequence'
                        /\ \A i \in TransfersOf(wal') : wal'[i].id # drawn'[l]
                        /\ \A m \in Key \ {l} : pc'[m] = "commit" => drawn'[m] # drawn'[l]
      BY DEF DrawnOnce
    <2>1. /\ l # k /\ pc[l] = "commit" /\ drawn'[l] = drawn[l] /\ drawn[k] # drawn[l]
          /\ drawn[l] \in 1 .. sequence /\ \A i \in TransfersOf(wal) : wal[i].id # drawn[l]
          /\ \A m \in Key \ {l} : pc[m] = "commit" => drawn[m] # drawn[l]
      BY <1>1, <1>7 DEF UniqueInv, DrawnOnce
    <2>2. drawn'[l] \in 1 .. sequence'
      BY <1>1, <2>1
    <2>3. ASSUME NEW i \in TransfersOf(wal') PROVE wal'[i].id # drawn'[l]
      BY <1>2, <1>5, <2>1, <2>3
    <2>4. ASSUME NEW m \in Key \ {l}, pc'[m] = "commit" PROVE drawn'[m] # drawn'[l]
      BY <1>7, <2>1, <2>4
    <2> QED BY <2>2, <2>3, <2>4
  <1>10. UniqueLog(wal)'
    BY <1>4 DEF UniqueLog, Ascending, Covered, Distinct, SequencesOf, TransfersOf
  <1> QED BY <1>6, <1>8, <1>9, <1>10 DEF UniqueInv

\* A crash ends the open transactions and leaves a prefix of the log.
LEMMA UniqueCrash ==
    ASSUME UniqueInv, LogType', Crash
    PROVE  UniqueInv'
  <1>1. PICK n \in flushed .. Len(wal) : wal' = SubSeq(wal, 1, n) /\ sequence' = Logged(wal')
    BY DEF Crash
  <1>2. n \in 0 .. Len(wal) /\ wal \in Seq(Record) /\ UniqueLog(wal)
    BY DEF UniqueInv, LogType
  <1>3. UniqueLog(wal') /\ \A i \in TransfersOf(wal') : wal'[i].id <= Logged(wal')
    BY <1>1, <1>2, UniquePrefix
  <1>4. Logged(wal') \in Nat
    BY LoggedNat DEF LogType
  <1>5. \A k \in Key : pc'[k] \notin {"postings", "commit"}
    BY DEF Crash
  <1>6. SequenceLogged'
    <2>1. \A m \in Nat : m <= m
      OBVIOUS
    <2>2. sequence' <= Logged(wal')
      BY <1>1, <1>4, <2>1, Zenon
    <2>3. \A i \in TransfersOf(wal') : wal'[i].id <= sequence'
      BY <1>1, <1>3, Zenon
    <2> QED BY <2>2, <2>3, Zenon DEF SequenceLogged
  <1>7. KeysFree' /\ DrawnOnce'
    BY <1>5 DEF KeysFree, DrawnOnce
  <1>8. UniqueLog(wal)'
    BY <1>3 DEF UniqueLog, Ascending, Covered, Distinct, SequencesOf, TransfersOf
  <1> QED BY <1>6, <1>7, <1>8 DEF UniqueInv

\* Every step keeps what survives unique.
LEMMA UniqueStep ==
    ASSUME GhostInv, UniqueInv, [Next]_vars
    PROVE  UniqueInv'
  <1>0. LogType' /\ DOMAIN pc = Key
    BY GhostStep DEF GhostInv, LogType
  <1>1. ASSUME NEW k \in Key, Send(k) \/ validateTransferCurrencies(k) PROVE UniqueInv'
    BY <1>0, <1>1, UniqueSame DEF Send, validateTransferCurrencies, Step
  <1>2. ASSUME NEW k \in Key, CreateTransaction(k) PROVE UniqueInv'
    <2>1. k \notin Keys => \A i \in TransfersOf(wal) : wal[i].key # k
      BY DEF Keys, Records, TransfersOf
    <2>2. /\ UNCHANGED <<wal, sequence, drawn>>
          /\ pc' = [pc EXCEPT ![k] = IF k \notin Keys /\ Ends[k] \subseteq Accounts THEN "postings" ELSE "idle"]
      BY <1>2 DEF CreateTransaction, Step
    <2> QED BY <1>0, <2>1, <2>2, UniqueSame
  <1>3. ASSUME UNCHANGED <<wal, sequence, drawn, pc>> PROVE UniqueInv'
    BY <1>0, <1>3, UniqueSame
  <1>4. \/ \E a \in Account : CreateAccount(a)
        \/ \E k \in Key : \/ Send(k) \/ validateTransferCurrencies(k) \/ CreateTransaction(k)
                          \/ CreatePostings(k) \/ CommitTx(k)
        \/ Crash
        \/ UNCHANGED <<wal, sequence, drawn, pc>>
    BY DEF Next, ClientStep, ExpireCurrency, ExpireKey, Flush, vars
  <1> QED BY <1>0, <1>1, <1>2, <1>3, <1>4, UniqueAccount, UniqueDraw, UniqueCommit, UniqueCrash

\* However often a crash forgets commits and takes the sequence of the posting
\* ids back, the log never has two transfers under one key or one id: the UNIQUE
\* key guards the first, nextval logging ahead of what it hands out the second.
THEOREM UniqueAfterCrash == Spec => []SurvivorsUnique
  <1>1. Init => UniqueInv
    <2> SUFFICES ASSUME Init PROVE UniqueInv
      OBVIOUS
    <2>1. LogType
      BY GhostInit DEF GhostInv
    <2>2. SequencesOf(wal) = {} /\ TransfersOf(wal) = {} /\ Logged(wal) = 0
      BY DEF Init, SequencesOf, TransfersOf, Logged
    <2> QED BY <2>1, <2>2 DEF Init, UniqueInv, UniqueLog, Ascending, Covered, Distinct,
           SequenceLogged, KeysFree, DrawnOnce
  <1>2. Spec => []GhostInv
    BY GhostInit, GhostStep, PTL DEF Spec
  <1>3. GhostInv /\ UniqueInv /\ [Next]_vars => UniqueInv'
    BY UniqueStep
  <1>4. UniqueInv => SurvivorsUnique
    BY DEF UniqueInv, UniqueLog, Distinct, TransfersOf, SurvivorsUnique, Records
  <1> QED BY <1>1, <1>2, <1>3, <1>4, PTL DEF Spec
=============================================================================
