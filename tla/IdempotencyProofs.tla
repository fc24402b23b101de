-------------------------- MODULE IdempotencyProofs -------------------------
(***************************************************************************)
(* Proofs about Idempotency, for any calls, keys and number of failures.   *)
(***************************************************************************)
EXTENDS Idempotency, TLAPS

\* The interceptor starts with IdemInv.
LEMMA IdemInit == Init => IdemInv
  BY IdempotencyAssumption
  DEF Init, IdemInv, TypeOK, OneCommit, EntryTrue, AnswerTrue, OwnedEntry, NotYetOwner,
      OwnerPhases, OneHolder, Holder, Entries, Answers, Absent, InProcess,
      completedStatus, NoAnswer, Error, Ok

\* The kinds of entries and answers differ.
LEMMA EntryKinds ==
  /\ Absent.st # "completed" /\ InProcess.st # "completed" /\ InProcess # Absent
  /\ \A c \in Calls : completedStatus(c).st = "completed" /\ completedStatus(c).tx = c
  BY DEF Absent, InProcess, completedStatus

\* The code and the transaction of each answer.
LEMMA AnswerKinds ==
  /\ Error("error").code = "error" /\ Error("lost").code = "lost"
  /\ Error("in_progress").code = "in_progress"
  /\ \A c \in Calls : Ok(c).code = "ok" /\ Ok(c).tx = c
  BY DEF Error, Ok

\* The values the actions write are of their kind.
LEMMA Written ==
  /\ Absent \in Entries /\ InProcess \in Entries
  /\ \A c \in Calls : completedStatus(c) \in Entries /\ Ok(c) \in Answers
  /\ Error("error") \in Answers /\ Error("in_progress") \in Answers /\ Error("lost") \in Answers
  BY DEF Entries, Answers

\* Counting a failure keeps the counter a number.
LEMMA FaultCounts == TypeOK /\ Fault => faults' \in Nat
  BY DEF TypeOK, Fault

\* What handleDuplicate makes of an entry: the stored transaction or a refusal.
LEMMA DuplicateAnswer ==
  ASSUME NEW e \in Entries
  PROVE  \/ /\ handleDuplicate(e) = Error("in_progress")
         \/ /\ e.st = "completed" /\ e.tx \in Calls
            /\ handleDuplicate(e) = Ok(e.tx)
  <1>1. CASE e.st = "completed"
    <2>1. PICK c \in Calls : e = completedStatus(c)
      BY <1>1, EntryKinds DEF Entries
    <2>2. e.tx = c
      BY <2>1, EntryKinds
    <2>. QED  BY <1>1, <2>2 DEF handleDuplicate
  <1>2. CASE e.st # "completed"
    BY <1>2 DEF handleDuplicate
  <1>. QED  BY <1>1, <1>2

\* Entries stay true when a step only adds commits and true completions.
LEMMA EntriesKept ==
  ASSUME EntryTrue, committed \subseteq committed',
         \A k \in Keys : \/ entry'[k] = entry[k]
                         \/ entry'[k].st # "completed"
                         \/ entry'[k].tx \in committed' /\ KeyOf[entry'[k].tx] = k
  PROVE  EntryTrue'
  BY DEF EntryTrue

\* The same for answers.
LEMMA AnswersKept ==
  ASSUME AnswerTrue, committed \subseteq committed',
         \A d \in Calls : \/ answer'[d] = answer[d]
                          \/ answer'[d].code # "ok"
                          \/ answer'[d].tx \in committed' /\ KeyOf[answer'[d].tx] = KeyOf[d]
  PROVE  AnswerTrue'
  BY DEF AnswerTrue

\* Ownership stays exclusive when a step makes no owner and leaves the entries of
\* the remaining ones alone.
LEMMA OwnersKept ==
  ASSUME OneHolder, OwnedEntry, disturbed \subseteq disturbed', KeyOf \in [Calls -> Keys],
         \A d \in Calls : Holder(d)' => Holder(d),
         \A d \in Calls : Holder(d)' /\ KeyOf[d] \notin disturbed' => entry'[KeyOf[d]] = entry[KeyOf[d]]
  PROVE  OneHolder' /\ OwnedEntry'
  <1>1. OneHolder'
    BY DEF OneHolder
  <1>2. OwnedEntry'
    BY DEF OwnedEntry
  <1>. QED  BY <1>1, <1>2

\* IdemInv is inductive.  Of the actions only Claim makes an owner, and it finds
\* the key free; everything else only ends ownership.
LEMMA IdemStep == IdemInv /\ [Next]_vars => IdemInv'
  <1>. SUFFICES ASSUME IdemInv, [Next]_vars  PROVE IdemInv'
    OBVIOUS
  <1>. USE IdempotencyAssumption DEF IdemInv
  <1>1. ASSUME NEW c \in Calls, Claim(c)  PROVE IdemInv'
    <2>1. TypeOK'
      BY <1>1, Written DEF Claim, SetEntry, Goto, TypeOK
    <2>2. EntryTrue'
      <3>1. \A k \in Keys : entry'[k] = entry[k] \/ entry'[k].st # "completed"
        BY <1>1, EntryKinds DEF Claim, SetEntry, Goto, TypeOK
      <3>2. committed' = committed
        BY <1>1 DEF Claim
      <3>. QED  BY <3>1, <3>2, EntriesKept
    <2>3. AnswerTrue'
      BY <1>1, AnswersKept DEF Claim
    <2>4. OneCommit' /\ (updating \subseteq committed)'
      BY <1>1 DEF Claim, SetEntry, Goto, OneCommit, TypeOK
    <2>5. NotYetOwner' /\ OwnerPhases'
      BY <1>1 DEF Claim, SetEntry, Goto, NotYetOwner, OwnerPhases, TypeOK
    <2>6. \A d \in Calls : Holder(d)' => Holder(d) \/ d = c
      BY <1>1 DEF Claim, Goto, TypeOK, Holder
    <2>7. \A d \in Calls : Holder(d) /\ KeyOf[d] \notin disturbed => KeyOf[d] # KeyOf[c]
      BY <1>1, EntryKinds DEF Claim, OwnedEntry
    <2>8. OneHolder'
      BY <1>1, <2>6, <2>7 DEF Claim, OneHolder
    <2>9. OwnedEntry'
      BY <1>1, <2>6, <2>7 DEF Claim, SetEntry, OwnedEntry, TypeOK
    <2>. QED  BY <2>1, <2>2, <2>3, <2>4, <2>5, <2>8, <2>9
  <1>2. ASSUME NEW c \in Calls, Duplicate(c)  PROVE IdemInv'
    <2>1. TypeOK'
      BY <1>2, Written, DuplicateAnswer DEF Duplicate, Answer, Goto, TypeOK
    <2>2. entry' = entry /\ EntryTrue'
      <3>1. entry' = entry /\ committed \subseteq committed'
        BY <1>2 DEF Duplicate, Answer, Goto
      <3>. QED  BY <3>1, EntriesKept
    <2>3. AnswerTrue'
      <3>1. committed' = committed
        BY <1>2 DEF Duplicate
      <3>2. ASSUME NEW e \in Calls, answer'[e] # answer[e]
            PROVE  e = c /\ answer'[e] = handleDuplicate(entry[KeyOf[c]])
        BY <1>2, <3>2 DEF Duplicate, Answer, Goto, TypeOK
      <3>3. entry[KeyOf[c]] \in Entries
        BY DEF TypeOK
      <3>4. ASSUME NEW e \in Calls, answer'[e] # answer[e], answer'[e].code = "ok"
            PROVE  answer'[e].tx \in committed' /\ KeyOf[answer'[e].tx] = KeyOf[e]
        BY <3>1, <3>2, <3>3, <3>4, DuplicateAnswer, AnswerKinds DEF EntryTrue
      <3>. QED  BY <3>1, <3>4, AnswersKept
    <2>4. OneCommit' /\ (updating \subseteq committed)'
      BY <1>2 DEF Duplicate, Answer, Goto, OneCommit, TypeOK
    <2>5. NotYetOwner' /\ OwnerPhases'
      BY <1>2, DuplicateAnswer, AnswerKinds DEF Duplicate, Answer, Goto, NotYetOwner, OwnerPhases, TypeOK
    <2>6. \A d \in Calls : Holder(d)' => Holder(d)
      BY <1>2 DEF Duplicate, Goto, TypeOK, Holder, NotYetOwner
    <2>7. disturbed' = disturbed
      BY <1>2 DEF Duplicate
    <2>10. OneHolder' /\ OwnedEntry'
      BY <2>2, <2>6, <2>7, OwnersKept
    <2>. QED  BY <2>1, <2>2, <2>3, <2>4, <2>5, <2>10
  <1>3. ASSUME NEW c \in Calls, ClaimLost(c)  PROVE IdemInv'
    <2>1. TypeOK'
      BY <1>3, Written, FaultCounts DEF ClaimLost, SetEntry, callVars, TypeOK
    <2>2. EntryTrue'
      <3>1. \A k \in Keys : entry'[k] = entry[k] \/ entry'[k].st # "completed"
        BY <1>3, EntryKinds DEF ClaimLost, SetEntry, callVars, TypeOK
      <3>2. committed' = committed
        BY <1>3 DEF ClaimLost
      <3>. QED  BY <3>1, <3>2, EntriesKept
    <2>3. AnswerTrue'
      BY <1>3, AnswersKept DEF ClaimLost, callVars
    <2>4. OneCommit' /\ (updating \subseteq committed)'
      BY <1>3 DEF ClaimLost, SetEntry, callVars, OneCommit, TypeOK
    <2>5. NotYetOwner' /\ OwnerPhases'
      BY <1>3 DEF ClaimLost, SetEntry, callVars, NotYetOwner, OwnerPhases, TypeOK
    <2>6. \A d \in Calls : Holder(d)' => Holder(d)
      BY <1>3 DEF ClaimLost, callVars, TypeOK, Holder, NotYetOwner
    <2>7. disturbed' = disturbed
      BY <1>3 DEF ClaimLost
    <2>8. \A k \in Keys : entry[k] # Absent => entry'[k] = entry[k]
      BY <1>3 DEF ClaimLost, SetEntry, TypeOK
    <2>9. \A d \in Calls : Holder(d) /\ KeyOf[d] \notin disturbed => entry[KeyOf[d]] # Absent
      BY EntryKinds DEF OwnedEntry
    <2>10. OneHolder' /\ OwnedEntry'
      BY <2>6, <2>7, <2>8, <2>9, OwnersKept
    <2>. QED  BY <2>1, <2>2, <2>3, <2>4, <2>5, <2>10
  <1>4. ASSUME NEW c \in Calls, FailOpen(c)  PROVE IdemInv'
    <2>1. TypeOK'
      BY <1>4, Written, FaultCounts DEF FailOpen, SetEntry, Goto, TypeOK
    <2>2. EntryTrue'
      <3>1. \A k \in Keys : entry'[k] = entry[k] \/ entry'[k].st # "completed"
        BY <1>4, EntryKinds DEF FailOpen, SetEntry, Goto, TypeOK
      <3>2. committed' = committed
        BY <1>4 DEF FailOpen
      <3>. QED  BY <3>1, <3>2, EntriesKept
    <2>3. AnswerTrue'
      BY <1>4, AnswersKept DEF FailOpen
    <2>4. OneCommit' /\ (updating \subseteq committed)'
      BY <1>4 DEF FailOpen, SetEntry, Goto, OneCommit, TypeOK
    <2>5. NotYetOwner' /\ OwnerPhases'
      BY <1>4 DEF FailOpen, SetEntry, Goto, NotYetOwner, OwnerPhases, TypeOK
    <2>6. \A d \in Calls : Holder(d)' => Holder(d)
      BY <1>4 DEF FailOpen, Goto, TypeOK, Holder, NotYetOwner
    <2>7. disturbed' = disturbed
      BY <1>4 DEF FailOpen
    <2>8. \A k \in Keys : entry[k] # Absent => entry'[k] = entry[k]
      BY <1>4 DEF FailOpen, SetEntry, TypeOK
    <2>9. \A d \in Calls : Holder(d) /\ KeyOf[d] \notin disturbed => entry[KeyOf[d]] # Absent
      BY EntryKinds DEF OwnedEntry
    <2>10. OneHolder' /\ OwnedEntry'
      BY <2>6, <2>7, <2>8, <2>9, OwnersKept
    <2>. QED  BY <2>1, <2>2, <2>3, <2>4, <2>5, <2>10
  <1>5. ASSUME NEW c \in Calls, Handle(c)  PROVE IdemInv'
    <2>1. TypeOK'
      BY <1>5, Written, FaultCounts DEF Handle, Succeed, FailHandler, Answer, Goto, TypeOK
    <2>2. entry' = entry /\ EntryTrue'
      <3>1. entry' = entry /\ committed \subseteq committed'
        BY <1>5 DEF Handle, Succeed, FailHandler, Answer, Goto
      <3>. QED  BY <3>1, EntriesKept
    <2>3. AnswerTrue'
      <3>1. committed \subseteq committed'
        BY <1>5 DEF Handle
      <3>2. ASSUME NEW e \in Calls, answer'[e] # answer[e]
            PROVE  e = c /\ (answer'[e] = Error("error") \/ (answer'[e] = Ok(c) /\ c \in committed'))
        <4>1. CASE Succeed(c) /\ c \in committed'
          BY <3>2, <4>1 DEF Succeed, Answer, TypeOK
        <4>2. CASE FailHandler(c)
          <5>1. answer' = [answer EXCEPT ![c] = Error("error")]
            BY <4>2 DEF FailHandler, Answer
          <5>. QED  BY <3>2, <5>1 DEF TypeOK
        <4>. QED  BY <1>5, <4>1, <4>2 DEF Handle
      <3>3. ASSUME NEW e \in Calls, answer'[e] # answer[e], answer'[e].code = "ok"
            PROVE  answer'[e].tx \in committed' /\ KeyOf[answer'[e].tx] = KeyOf[e]
        BY <3>2, <3>3, AnswerKinds
      <3>. QED  BY <3>1, <3>3, AnswersKept
    <2>4. OneCommit' /\ (updating \subseteq committed)'
      BY <1>5 DEF Handle, Succeed, FailHandler, Answer, Goto, OneCommit, TypeOK, KeyUsed
    <2>5. NotYetOwner' /\ OwnerPhases'
      BY <1>5, AnswerKinds DEF Handle, Succeed, FailHandler, Answer, Goto, NotYetOwner, OwnerPhases, TypeOK
    <2>6. \A d \in Calls : Holder(d)' => Holder(d)
      BY <1>5 DEF Handle, Succeed, FailHandler, Goto, TypeOK, Holder, NotYetOwner
    <2>7. disturbed' = disturbed
      BY <1>5 DEF Handle, Succeed, FailHandler
    <2>10. OneHolder' /\ OwnedEntry'
      BY <2>2, <2>6, <2>7, OwnersKept
    <2>. QED  BY <2>1, <2>2, <2>3, <2>4, <2>5, <2>10
  <1>6. ASSUME NEW c \in Calls, DeleteIdempotency(c)  PROVE IdemInv'
    <2>1. TypeOK'
      BY <1>6, Written, FaultCounts DEF DeleteIdempotency, SetEntry, Goto, TypeOK
    <2>2. EntryTrue'
      <3>1. \A k \in Keys : entry'[k] = entry[k] \/ entry'[k].st # "completed"
        BY <1>6, EntryKinds DEF DeleteIdempotency, SetEntry, Goto, TypeOK
      <3>2. committed' = committed
        BY <1>6 DEF DeleteIdempotency
      <3>. QED  BY <3>1, <3>2, EntriesKept
    <2>3. AnswerTrue'
      BY <1>6, AnswersKept DEF DeleteIdempotency
    <2>4. OneCommit' /\ (updating \subseteq committed)'
      BY <1>6 DEF DeleteIdempotency, SetEntry, Goto, OneCommit, TypeOK
    <2>5. NotYetOwner' /\ OwnerPhases'
      BY <1>6 DEF DeleteIdempotency, SetEntry, Goto, NotYetOwner, OwnerPhases, TypeOK
    <2>6. \A d \in Calls : Holder(d)' => Holder(d) /\ d # c
      BY <1>6 DEF DeleteIdempotency, Goto, TypeOK, Holder, OwnerPhases
    <2>7. Holder(c) /\ disturbed' = disturbed
      BY <1>6 DEF DeleteIdempotency, Holder, OwnerPhases
    <2>8. \A d \in Calls : Holder(d)' /\ KeyOf[d] \notin disturbed' => KeyOf[d] # KeyOf[c]
      BY <2>6, <2>7 DEF OneHolder
    <2>9. \A k \in Keys : k # KeyOf[c] => entry'[k] = entry[k]
      BY <1>6 DEF DeleteIdempotency, SetEntry, TypeOK
    <2>10. OneHolder' /\ OwnedEntry'
      BY <2>6, <2>7, <2>8, <2>9, OwnersKept
    <2>. QED  BY <2>1, <2>2, <2>3, <2>4, <2>5, <2>10
  <1>7. ASSUME NEW c \in Calls, UpdateIdempotencyStatus(c)  PROVE IdemInv'
    <2>1. TypeOK'
      BY <1>7, Written, FaultCounts DEF UpdateIdempotencyStatus, SetEntry, TypeOK
    <2>2. EntryTrue'
      <3>1. c \in committed /\ committed' = committed
        BY <1>7 DEF UpdateIdempotencyStatus, SetEntry
      <3>2. ASSUME NEW k \in Keys, entry'[k] # entry[k]
            PROVE  entry'[k].tx = c /\ k = KeyOf[c]
        BY <1>7, <3>2, EntryKinds DEF UpdateIdempotencyStatus, SetEntry, TypeOK
      <3>. QED  BY <3>1, <3>2, EntriesKept
    <2>3. AnswerTrue'
      BY <1>7, AnswersKept DEF UpdateIdempotencyStatus
    <2>4. OneCommit' /\ (updating \subseteq committed)'
      BY <1>7 DEF UpdateIdempotencyStatus, SetEntry, OneCommit, TypeOK
    <2>5. NotYetOwner' /\ OwnerPhases'
      BY <1>7 DEF UpdateIdempotencyStatus, SetEntry, NotYetOwner, OwnerPhases, TypeOK
    <2>6. \A d \in Calls : Holder(d)' => Holder(d) /\ d # c
      BY <1>7 DEF UpdateIdempotencyStatus, TypeOK, Holder, OwnerPhases
    <2>7. Holder(c) /\ disturbed' = disturbed
      BY <1>7 DEF UpdateIdempotencyStatus, Holder, OwnerPhases
    <2>8. \A d \in Calls : Holder(d)' /\ KeyOf[d] \notin disturbed' => KeyOf[d] # KeyOf[c]
      BY <2>6, <2>7 DEF OneHolder
    <2>9. \A k \in Keys : k # KeyOf[c] => entry'[k] = entry[k]
      BY <1>7 DEF UpdateIdempotencyStatus, SetEntry, TypeOK
    <2>10. OneHolder' /\ OwnedEntry'
      BY <2>6, <2>7, <2>8, <2>9, OwnersKept
    <2>. QED  BY <2>1, <2>2, <2>3, <2>4, <2>5, <2>10
  <1>8. ASSUME NEW c \in Calls, Crash(c)  PROVE IdemInv'
    <2>1. TypeOK'
      BY <1>8, Written, FaultCounts DEF Crash, Answer, Goto, TypeOK
    <2>2. entry' = entry /\ EntryTrue'
      <3>1. entry' = entry /\ committed \subseteq committed'
        BY <1>8 DEF Crash, Answer, Goto
      <3>. QED  BY <3>1, EntriesKept
    <2>3. AnswerTrue'
      <3>1. committed' = committed
        BY <1>8 DEF Crash
      <3>2. \A e \in Calls : answer'[e] = answer[e] \/ answer'[e] = Error("lost")
        BY <1>8 DEF Crash, Answer, Goto, TypeOK
      <3>3. \A e \in Calls : answer'[e] = answer[e] \/ answer'[e].code # "ok"
        BY <3>2, AnswerKinds
      <3>. QED  BY <3>1, <3>3, AnswersKept
    <2>4. OneCommit' /\ (updating \subseteq committed)'
      BY <1>8 DEF Crash, Answer, Goto, OneCommit, TypeOK
    <2>5. NotYetOwner' /\ OwnerPhases'
      BY <1>8, AnswerKinds DEF Crash, Answer, Goto, NotYetOwner, OwnerPhases, TypeOK
    <2>6. \A d \in Calls : Holder(d)' => Holder(d)
      BY <1>8 DEF Crash, Goto, TypeOK, Holder, NotYetOwner
    <2>7. disturbed' = disturbed
      BY <1>8 DEF Crash
    <2>10. OneHolder' /\ OwnedEntry'
      BY <2>2, <2>6, <2>7, OwnersKept
    <2>. QED  BY <2>1, <2>2, <2>3, <2>4, <2>5, <2>10
  <1>9. ASSUME NEW k \in Keys, Expire(k)  PROVE IdemInv'
    <2>1. TypeOK'
      BY <1>9, Written DEF Expire, SetEntry, callVars, TypeOK
    <2>2. EntryTrue'
      <3>1. \A j \in Keys : entry'[j] = entry[j] \/ entry'[j].st # "completed"
        BY <1>9, EntryKinds DEF Expire, SetEntry, callVars, TypeOK
      <3>2. committed' = committed
        BY <1>9 DEF Expire
      <3>. QED  BY <3>1, <3>2, EntriesKept
    <2>3. AnswerTrue'
      BY <1>9, AnswersKept DEF Expire, callVars
    <2>4. OneCommit' /\ (updating \subseteq committed)'
      BY <1>9 DEF Expire, SetEntry, callVars, OneCommit, TypeOK
    <2>5. NotYetOwner' /\ OwnerPhases'
      BY <1>9 DEF Expire, SetEntry, callVars, NotYetOwner, OwnerPhases, TypeOK
    <2>6. \A d \in Calls : Holder(d)' => Holder(d)
      BY <1>9 DEF Expire, callVars, TypeOK, Holder, NotYetOwner
    <2>7. disturbed' = disturbed \cup {k} /\ \A j \in Keys : j # k => entry'[j] = entry[j]
      BY <1>9 DEF Expire, SetEntry, TypeOK
    <2>10. OneHolder' /\ OwnedEntry'
      BY <2>6, <2>7, OwnersKept
    <2>. QED  BY <2>1, <2>2, <2>3, <2>4, <2>5, <2>10
  <1>10. ASSUME NEW c \in Calls, Resend(c)  PROVE IdemInv'
    <2>1. TypeOK'
      BY <1>10, Written DEF Resend, Goto, TypeOK
    <2>2. entry' = entry /\ EntryTrue'
      <3>1. entry' = entry /\ committed \subseteq committed'
        BY <1>10 DEF Resend, Goto
      <3>. QED  BY <3>1, EntriesKept
    <2>3. AnswerTrue'
      BY <1>10, AnswersKept DEF Resend
    <2>4. OneCommit' /\ (updating \subseteq committed)'
      BY <1>10 DEF Resend, Goto, OneCommit, TypeOK
    <2>5. NotYetOwner' /\ OwnerPhases'
      BY <1>10, AnswerKinds DEF Resend, Goto, NotYetOwner, OwnerPhases, TypeOK
    <2>6. \A d \in Calls : Holder(d)' => Holder(d)
      BY <1>10 DEF Resend, Goto, TypeOK, Holder, NotYetOwner
    <2>7. disturbed' = disturbed
      BY <1>10 DEF Resend
    <2>10. OneHolder' /\ OwnedEntry'
      BY <2>2, <2>6, <2>7, OwnersKept
    <2>. QED  BY <2>1, <2>2, <2>3, <2>4, <2>5, <2>10
  <1>11. CASE UNCHANGED vars
    <2>. USE <1>11 DEF vars, callVars
    <2>1. TypeOK' /\ OneCommit' /\ EntryTrue' /\ AnswerTrue'
      BY DEF TypeOK, OneCommit, EntryTrue, AnswerTrue
    <2>2. OneHolder' /\ OwnedEntry'
      BY DEF OneHolder, OwnedEntry, Holder
    <2>3. NotYetOwner' /\ OwnerPhases' /\ (updating \subseteq committed)'
      BY DEF NotYetOwner, OwnerPhases
    <2>. QED  BY <2>1, <2>2, <2>3
  <1>12. ASSUME NEW c \in Calls, DeleteLost(c)  PROVE IdemInv'
    <2>1. TypeOK'
      BY <1>12, Written, FaultCounts DEF DeleteLost, SetEntry, callVars, TypeOK
    <2>2. EntryTrue'
      <3>1. \A j \in Keys : entry'[j] = entry[j] \/ entry'[j].st # "completed"
        BY <1>12, EntryKinds DEF DeleteLost, SetEntry, callVars, TypeOK
      <3>2. committed' = committed
        BY <1>12 DEF DeleteLost
      <3>. QED  BY <3>1, <3>2, EntriesKept
    <2>3. AnswerTrue'
      BY <1>12, AnswersKept DEF DeleteLost, callVars
    <2>4. OneCommit' /\ (updating \subseteq committed)'
      BY <1>12 DEF DeleteLost, SetEntry, callVars, OneCommit, TypeOK
    <2>5. NotYetOwner' /\ OwnerPhases'
      BY <1>12 DEF DeleteLost, SetEntry, callVars, NotYetOwner, OwnerPhases, TypeOK
    <2>6. \A d \in Calls : Holder(d)' => Holder(d)
      BY <1>12 DEF DeleteLost, callVars, TypeOK, Holder, NotYetOwner
    <2>7. disturbed' = disturbed \cup {KeyOf[c]} /\ \A j \in Keys : j # KeyOf[c] => entry'[j] = entry[j]
      BY <1>12 DEF DeleteLost, SetEntry, TypeOK
    <2>10. OneHolder' /\ OwnedEntry'
      BY <2>6, <2>7, OwnersKept
    <2>. QED  BY <2>1, <2>2, <2>3, <2>4, <2>5, <2>10
  <1>. QED
    BY <1>1, <1>2, <1>3, <1>4, <1>5, <1>6, <1>7, <1>8, <1>9, <1>10, <1>11, <1>12
    DEF Next, Progress, Terminated

\* IdemInv holds in every reachable state.
THEOREM IdemInductive == Spec => []IdemInv
  BY IdemInit, IdemStep, PTL DEF Spec

\* Every "ok" for a key names one committed transaction (interceptor, store and
\* handler together).
THEOREM AnswersAgree == Spec => []SameAnswer
  <1>1. IdemInv => SameAnswer
    BY DEF IdemInv, SameAnswer, AnswerTrue, OneCommit
  <1>. QED  BY <1>1, IdemInductive, PTL

\* No two calls own a key whose entry has not run out and whose DEL was not sent
\* twice (CheckOrLock is a lock).
THEOREM OwnersExclusive == Spec => []OneHolder
  <1>1. IdemInv => OneHolder
    BY DEF IdemInv
  <1>. QED  BY <1>1, IdemInductive, PTL

\* DeleteIdempotency, sent once, never removes a completion before its TTL.
THEOREM CompletionKept == Spec => CompletedStays
  <1>1. IdemInv /\ [Next]_vars =>
          [\A k \in Keys : entry[k].st = "completed" /\ entry'[k].st # "completed"
                              => k \in disturbed']_vars
    <2>. SUFFICES ASSUME IdemInv, Next, NEW k \in Keys,
                         entry[k].st = "completed", entry'[k].st # "completed"
                  PROVE  k \in disturbed'
      OBVIOUS
    <2>. USE IdempotencyAssumption, EntryKinds DEF IdemInv, TypeOK, SetEntry
    <2>1. ASSUME NEW c \in Calls, Claim(c) \/ ClaimLost(c) \/ FailOpen(c)  PROVE FALSE
      BY <2>1 DEF Claim, ClaimLost, FailOpen
    <2>2. ASSUME NEW c \in Calls, Duplicate(c) \/ Handle(c) \/ Crash(c) \/ Resend(c)  PROVE FALSE
      BY <2>2 DEF Duplicate, Handle, Succeed, FailHandler, Crash, Resend
    <2>3. ASSUME NEW c \in Calls, DeleteIdempotency(c)  PROVE k \in disturbed'
      <3>1. KeyOf[c] = k /\ pc[c] = "delete" /\ disturbed' = disturbed
        BY <2>3 DEF DeleteIdempotency
      <3>2. Holder(c)
        BY <3>1 DEF OwnerPhases, Holder
      <3>. QED  BY <3>1, <3>2 DEF OwnedEntry
    <2>4. ASSUME NEW c \in Calls, UpdateIdempotencyStatus(c)  PROVE FALSE
      <3>1. entry'[k] = completedStatus(c)
        BY <2>4 DEF UpdateIdempotencyStatus
      <3>. QED  BY <3>1
    <2>5. ASSUME NEW j \in Keys, Expire(j)  PROVE k \in disturbed'
      BY <2>5 DEF Expire
    <2>6. ASSUME NEW c \in Calls, DeleteLost(c)  PROVE k \in disturbed'
      BY <2>6 DEF DeleteLost
    <2>. QED
      BY <2>1, <2>2, <2>3, <2>4, <2>5, <2>6 DEF Next, Progress, Terminated, vars
  <1>. QED  BY <1>1, IdemInductive, PTL DEF Spec, CompletedStays
=============================================================================
