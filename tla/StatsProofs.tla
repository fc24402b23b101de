----------------------------- MODULE StatsProofs ----------------------------
(***************************************************************************)
(* Proofs about StatsProjection, for any transactions, partitions, calls   *)
(* and number of failures.                                                 *)
(***************************************************************************)
EXTENDS StatsProjection, TLAPS

\* The read side starts with StatsInv.
LEMMA StatsInit == Init => StatsInv
  <1>. SUFFICES ASSUME Init  PROVE StatsInv
    OBVIOUS
  <1>. USE StatsAssumption DEF Init
  <1>1. TypeOK
    BY DEF TypeOK
  <1>2. OnlyCommitted /\ FetchedInOrder /\ OffsetCovers
    BY DEF OnlyCommitted, FetchedInOrder, OffsetCovers
  <1>3. CallsTrue /\ ReadsFaithful
    BY DEF CallsTrue, ReadsFaithful
  <1>. QED  BY <1>1, <1>2, <1>3 DEF StatsInv

\* Counting a failure keeps the counter a number.
LEMMA FaultCounts == TypeOK /\ Fault => faults' \in Nat
  BY DEF TypeOK, Fault

\* What is in Run's hands is a message of a partition.
LEMMA Fetched ==
  ASSUME TypeOK, FetchedInOrder, cpc \in {"handle", "commit"}
  PROVE  /\ msg.p \in Partition /\ msg.i \in 1..Len(log[msg.p])
         /\ msg.i = position[msg.p]
  BY DEF TypeOK, FetchedInOrder, Message

\* A step that leaves the calls alone and forgets no commit keeps their answers
\* true.
LEMMA CallsKept ==
  ASSUME CallsTrue, ReadsFaithful, committed \subseteq committed', UNCHANGED readerVars
  PROVE  CallsTrue' /\ ReadsFaithful'
  BY DEF CallsTrue, ReadsFaithful, readerVars

\* A step that leaves the worker alone and only appends to the log keeps its
\* progress.
LEMMA WorkerKept ==
  ASSUME TypeOK, FetchedInOrder, OffsetCovers, UNCHANGED consumerVars,
         \A p \in Partition : Len(log[p]) <= Len(log'[p]) /\ Len(log'[p]) \in Nat
  PROVE  FetchedInOrder' /\ OffsetCovers'
  <1>1. OffsetCovers'
    BY DEF OffsetCovers, Tried, consumerVars
  <1>2. \A p \in Partition : offset'[p] <= position'[p] /\ position'[p] <= Len(log'[p])
    BY DEF FetchedInOrder, consumerVars, TypeOK
  <1>3. FetchedInOrder'
    BY <1>2 DEF FetchedInOrder, Tried, InHand, consumerVars
  <1>. QED  BY <1>1, <1>3

\* StatsInv is inductive.
LEMMA StatsStep == StatsInv /\ [Next]_vars => StatsInv'
  <1>. SUFFICES ASSUME StatsInv, [Next]_vars  PROVE StatsInv'
    OBVIOUS
  <1>. USE StatsAssumption DEF StatsInv
  <1>1. ASSUME NEW t \in Tx, Commit(t)  PROVE StatsInv'
    <2>1. TypeOK'
      BY <1>1, FaultCounts DEF Commit, TypeOK, consumerVars, readerVars
    <2>2. OnlyCommitted'
      BY <1>1 DEF Commit, OnlyCommitted
    <2>3. FetchedInOrder' /\ OffsetCovers'
      BY <1>1, WorkerKept DEF Commit, TypeOK
    <2>4. CallsTrue' /\ ReadsFaithful'
      BY <1>1, CallsKept DEF Commit
    <2>. QED  BY <2>1, <2>2, <2>3, <2>4
  <1>2. ASSUME NEW t \in Tx, PublishTransaction(t)  PROVE StatsInv'
    <2>. PICK p \in Partition : log' = [log EXCEPT ![p] = Append(@, t)]
      BY <1>2 DEF PublishTransaction
    <2>1. TypeOK'
      <3>1. log' \in [Partition -> Seq(Tx)]
        BY DEF TypeOK
      <3>2. sending' \in SUBSET Tx /\ faults' \in Nat
        BY <1>2, FaultCounts DEF PublishTransaction, TypeOK
      <3>. QED  BY <1>2, <3>1, <3>2 DEF PublishTransaction, TypeOK, consumerVars, readerVars
    <2>2. OnlyCommitted'
      BY <1>2 DEF PublishTransaction, OnlyCommitted, TypeOK
    <2>3. \A q \in Partition : Len(log[q]) <= Len(log'[q]) /\ Len(log'[q]) \in Nat
      BY DEF TypeOK
    <2>4. FetchedInOrder' /\ OffsetCovers'
      BY <1>2, <2>3, WorkerKept DEF PublishTransaction
    <2>5. CallsTrue' /\ ReadsFaithful'
      BY <1>2, CallsKept DEF PublishTransaction
    <2>. QED  BY <2>1, <2>2, <2>4, <2>5
  <1>3. ASSUME NEW t \in Tx, PublishFails(t) \/ Expire(t)  PROVE StatsInv'
    <2>1. TypeOK'
      BY <1>3, FaultCounts DEF PublishFails, Expire, TypeOK, consumerVars, readerVars
    <2>2. OnlyCommitted'
      BY <1>3 DEF PublishFails, Expire, OnlyCommitted
    <2>3. FetchedInOrder' /\ OffsetCovers'
      BY <1>3, WorkerKept DEF PublishFails, Expire, TypeOK
    <2>4. CallsTrue' /\ ReadsFaithful'
      BY <1>3, CallsKept DEF PublishFails, Expire
    <2>. QED  BY <2>1, <2>2, <2>3, <2>4
  <1>4. ASSUME NEW p \in Partition, FetchMessage(p)  PROVE StatsInv'
    <2>1. TypeOK'
      BY <1>4 DEF FetchMessage, TypeOK, Message, readerVars
    <2>2. OnlyCommitted'
      BY <1>4 DEF FetchMessage, OnlyCommitted
    <2>3. OffsetCovers'
      BY <1>4 DEF FetchMessage, OffsetCovers, Tried
    <2>4. FetchedInOrder'
      <3>1. \A q \in Partition : offset'[q] <= position'[q] /\ position'[q] <= Len(log'[q])
        BY <1>4 DEF FetchMessage, FetchedInOrder, TypeOK
      <3>2. cpc' = "handle" /\ msg' \in Message /\ msg'.p = p /\ msg'.i = position'[p]
        BY <1>4 DEF FetchMessage, TypeOK, Message
      <3>3. ASSUME NEW q \in Partition, NEW i \in 1..position'[q]
            PROVE  (Tried(q, i) \/ InHand(q, i))'
        <4>1. CASE i \in 1..position[q]
          BY <1>4, <4>1 DEF FetchMessage, FetchedInOrder, Tried, InHand
        <4>2. CASE i \notin 1..position[q]
          <5>1. q = p /\ i = position'[p]
            BY <1>4, <4>2 DEF FetchMessage, TypeOK
          <5>. QED  BY <3>2, <5>1 DEF InHand
        <4>. QED  BY <4>1, <4>2
      <3>. QED  BY <3>1, <3>2, <3>3 DEF FetchedInOrder
    <2>5. CallsTrue' /\ ReadsFaithful'
      BY <1>4, CallsKept DEF FetchMessage
    <2>. QED  BY <2>1, <2>2, <2>3, <2>4, <2>5
  <1>5. ASSUME HandleKafkaMessage \/ HandleFails  PROVE StatsInv'
    <2>1. /\ msg.p \in Partition /\ msg.i \in 1..Len(log[msg.p])
          /\ msg.i = position[msg.p]
      BY <1>5, Fetched DEF HandleKafkaMessage, HandleFails
    <2>2. log[msg.p][msg.i] \in Tx /\ log[msg.p][msg.i] \in committed
      BY <2>1 DEF OnlyCommitted, TypeOK
    <2>3. TypeOK'
      <3>1. cache' \in SUBSET Tx /\ faults' \in Nat
        BY <1>5, <2>2, FaultCounts DEF HandleKafkaMessage, HandleFails, TypeOK
      <3>2. projected' \in [Partition -> SUBSET Nat] /\ failed' \in [Partition -> SUBSET Nat]
        <4>1. msg.i \in Nat
          BY <2>1 DEF TypeOK
        <4>2. CASE HandleKafkaMessage
          BY <4>1, <4>2 DEF HandleKafkaMessage, TypeOK
        <4>3. CASE HandleFails
          BY <4>1, <4>3 DEF HandleFails, TypeOK
        <4>. QED  BY <1>5, <4>2, <4>3
      <3>. QED  BY <1>5, <3>1, <3>2 DEF HandleKafkaMessage, HandleFails, TypeOK, readerVars
    <2>4. OnlyCommitted'
      BY <1>5, <2>2 DEF HandleKafkaMessage, HandleFails, OnlyCommitted
    <2>5. \A q \in Partition, i \in Nat : Tried(q, i) \/ InHand(q, i) => Tried(q, i)'
      <3>1. CASE HandleKafkaMessage
        BY <2>1, <3>1 DEF HandleKafkaMessage, Tried, InHand, TypeOK
      <3>2. CASE HandleFails
        BY <2>1, <3>2 DEF HandleFails, Tried, InHand, TypeOK
      <3>. QED  BY <1>5, <3>1, <3>2
    <2>6. OffsetCovers'
      BY <1>5, <2>5 DEF HandleKafkaMessage, HandleFails, OffsetCovers, TypeOK
    <2>7. FetchedInOrder'
      BY <1>5, <2>1, <2>5 DEF HandleKafkaMessage, HandleFails, FetchedInOrder, TypeOK
    <2>8. CallsTrue' /\ ReadsFaithful'
      BY <1>5, CallsKept DEF HandleKafkaMessage, HandleFails
    <2>. QED  BY <2>3, <2>4, <2>6, <2>7, <2>8
  <1>6. ASSUME CommitMessages  PROVE StatsInv'
    <2>1. /\ msg.p \in Partition /\ msg.i \in 1..Len(log[msg.p])
          /\ msg.i = position[msg.p]
      BY <1>6, Fetched DEF CommitMessages
    <2>2. TypeOK'
      BY <1>6, <2>1 DEF CommitMessages, TypeOK, readerVars
    <2>3. OnlyCommitted'
      BY <1>6 DEF CommitMessages, OnlyCommitted
    <2>4. \A q \in Partition : \A i \in 1..position[q] : Tried(q, i)
      BY <1>6 DEF CommitMessages, FetchedInOrder, InHand
    <2>5. OffsetCovers'
      BY <1>6, <2>1, <2>4 DEF CommitMessages, OffsetCovers, Tried, TypeOK
    <2>6. FetchedInOrder'
      BY <1>6, <2>1, <2>4 DEF CommitMessages, FetchedInOrder, Tried, TypeOK
    <2>7. CallsTrue' /\ ReadsFaithful'
      BY <1>6, CallsKept DEF CommitMessages
    <2>. QED  BY <2>2, <2>3, <2>5, <2>6, <2>7
  <1>7. ASSUME Stop \/ Restart  PROVE StatsInv'
    <2>1. TypeOK'
      BY <1>7, FaultCounts DEF Stop, Restart, TypeOK, readerVars
    <2>2. OnlyCommitted'
      BY <1>7 DEF Stop, Restart, OnlyCommitted
    <2>3. OffsetCovers'
      BY <1>7 DEF Stop, Restart, OffsetCovers, Tried
    <2>4. FetchedInOrder'
      BY <1>7 DEF Stop, Restart, FetchedInOrder, OffsetCovers, Tried, TypeOK
    <2>5. CallsTrue' /\ ReadsFaithful'
      BY <1>7, CallsKept DEF Stop, Restart
    <2>. QED  BY <2>1, <2>2, <2>3, <2>4, <2>5
  <1>8. ASSUME NEW r \in Readers, Ask(r) \/ ReadCache(r) \/ ReadDB(r)  PROVE StatsInv'
    <2>1. UNCHANGED <<committed, sending, log, consumerVars, cache, faults>>
      BY <1>8 DEF Ask, ReadCache, ReadDB, Reply
    <2>2. OnlyCommitted'
      BY <2>1 DEF OnlyCommitted
    <2>3. FetchedInOrder' /\ OffsetCovers'
      BY <2>1, WorkerKept DEF TypeOK
    <2>4. CASE Ask(r)
      <3>. PICK t \in Tx : /\ asked' = [asked EXCEPT ![r] = t]
                          /\ known' = [known EXCEPT ![r] = t \in committed]
        BY <2>4 DEF Ask
      <3>1. asked' \in [Readers -> Tx \cup {None}]
        BY DEF TypeOK
      <3>2. known' \in [Readers -> BOOLEAN]
        <4>1. CASE known' = [known EXCEPT ![r] = TRUE]
          BY <4>1 DEF TypeOK
        <4>2. CASE known' = [known EXCEPT ![r] = FALSE]
          BY <4>2 DEF TypeOK
        <4>3. (t \in committed) \in BOOLEAN
          OBVIOUS
        <4>. QED  BY <4>1, <4>2, <4>3, Zenon
      <3>3. TypeOK'
        BY <2>1, <2>4, <3>1, <3>2 DEF Ask, TypeOK, consumerVars
      <3>4. rpc[r] = "idle" /\ result' = result /\ rpc' = [rpc EXCEPT ![r] = "cache"]
        BY <2>4 DEF Ask
      <3>5. result[r] = "none" /\ rpc' \in [Readers -> {"idle", "cache", "db", "done"}]
        BY <3>4 DEF CallsTrue, TypeOK
      <3>6. \A q \in Readers \ {r} : known'[q] = known[q] /\ asked'[q] = asked[q] /\ rpc'[q] = rpc[q]
        BY <3>4 DEF TypeOK
      <3>7. known'[r] => asked'[r] \in committed
        BY DEF TypeOK
      <3>8. CallsTrue'
        BY <2>1, <3>4, <3>5, <3>6, <3>7 DEF CallsTrue
      <3>9. ReadsFaithful'
        BY <2>1, <3>4, <3>5, <3>6 DEF ReadsFaithful
      <3>. QED  BY <2>2, <2>3, <3>3, <3>8, <3>9
    <2>5. ASSUME NEW x \in {"found", "not_found", "internal"}, Reply(r, x),
                 x = "not_found" => ~known[r], x = "found" => asked[r] \in committed
          PROVE  StatsInv'
      <3>1. TypeOK'
        BY <2>1, <2>5 DEF Reply, TypeOK, consumerVars
      <3>2. CallsTrue'
        BY <2>5 DEF Reply, CallsTrue, TypeOK
      <3>3. ReadsFaithful'
        BY <2>5 DEF Reply, ReadsFaithful, TypeOK
      <3>. QED  BY <2>2, <2>3, <3>1, <3>2, <3>3
    <2>6. CASE ReadCache(r)
      <3>1. CASE asked[r] \in cache /\ Reply(r, "found")
        BY <2>5, <3>1 DEF OnlyCommitted
      <3>2. CASE rpc' = [rpc EXCEPT ![r] = "db"] /\ UNCHANGED <<asked, known, result>>
        <4>1. TypeOK'
          BY <2>1, <3>2 DEF TypeOK, consumerVars
        <4>2. CallsTrue' /\ ReadsFaithful'
          BY <2>1, <2>6, <3>2 DEF ReadCache, CallsTrue, ReadsFaithful, TypeOK
        <4>. QED  BY <2>2, <2>3, <4>1, <4>2
      <3>3. CASE Reply(r, "internal")
        BY <2>5, <3>3
      <3>. QED  BY <2>6, <3>1, <3>2, <3>3 DEF ReadCache
    <2>7. CASE ReadDB(r)
      <3>1. asked[r] \notin committed => ~known[r]
        BY DEF CallsTrue
      <3>. QED  BY <2>5, <2>7, <3>1 DEF ReadDB
    <2>. QED  BY <1>8, <2>4, <2>6, <2>7
  <1>9. CASE UNCHANGED vars
    <2>. USE <1>9 DEF vars
    <2>1. TypeOK' /\ OnlyCommitted'
      BY DEF TypeOK, OnlyCommitted, consumerVars, readerVars
    <2>2. FetchedInOrder' /\ OffsetCovers'
      BY WorkerKept DEF TypeOK
    <2>3. CallsTrue' /\ ReadsFaithful'
      BY CallsKept
    <2>. QED  BY <2>1, <2>2, <2>3
  <1>. QED
    BY <1>1, <1>2, <1>3, <1>4, <1>5, <1>6, <1>7, <1>8, <1>9 DEF Next, Consume

\* StatsInv holds in every reachable state of the read side.
THEOREM StatsInductive == Spec => []StatsInv
  BY StatsInit, StatsStep, PTL DEF Spec

\* GetTransaction never denies a transfer committed before the call and never
\* answers with one that is not committed.
THEOREM ReadsCorrect == Spec => []ReadsFaithful
  <1>1. StatsInv => ReadsFaithful
    BY DEF StatsInv
  <1>. QED  BY <1>1, StatsInductive, PTL

\* The group's committed offset passes no message that Run has not handled.
THEOREM OffsetsCorrect == Spec => []OffsetCovers
  <1>1. StatsInv => OffsetCovers
    BY DEF StatsInv
  <1>. QED  BY <1>1, StatsInductive, PTL
=============================================================================
