----------------------------- MODULE Idempotency ----------------------------
(***************************************************************************)
(* UnaryIdempotencyInterceptor in front of Transfer, and its keys in Redis *)
(* (internal/transport/grpc/interceptors, internal/repository/redis).      *)
(* The handler below it is the atomic transfer that Gateway is shown to    *)
(* implement (AtomicLedger): it commits once per key or fails.             *)
(*                                                                         *)
(* Calls without a usable key and other methods pass straight through and  *)
(* touch none of this state.  The third answer of handleDuplicate ("unknown *)
(* status") has no state to occur in: only the two values below are written.*)
(***************************************************************************)
EXTENDS Naturals

CONSTANTS
    Calls,      \* Transfer calls; a call's transaction is named after it
    Keys,
    KeyOf,      \* the key of each call
    None,
    MaxFaults   \* bound on failures

ASSUME IdempotencyAssumption ==
    /\ KeyOf \in [Calls -> Keys]
    /\ None \notin Calls
    /\ MaxFaults \in Nat

VARIABLES
    entry,      \* the value of "idempotency:<key>" in Redis
    committed,  \* the calls whose transaction row is committed
    pc,         \* where the call is in the interceptor
    claimed,    \* the calls for which CheckOrLock returned true
    answer,     \* what the client was told
    updating,   \* the calls whose goroutine has yet to store the completion
    disturbed,  \* the keys whose entry has run out, or whose DEL was sent twice (history)
    faults

callVars == <<pc, claimed, answer, updating>>
vars == <<entry, committed, callVars, disturbed, faults>>

\* Mutant: SET NX GET without a TTL.
InProcessForever == [st |-> "in process", tx |-> None, ttl |-> FALSE]

Absent == [st |-> "absent", tx |-> None, ttl |-> FALSE]
InProcess == [st |-> "in process", tx |-> None, ttl |-> TRUE]
completedStatus(c) == [st |-> "completed", tx |-> c, ttl |-> TRUE]

NoAnswer == [code |-> "none", tx |-> None]
Error(code) == [code |-> code, tx |-> None]
Ok(tx) == [code |-> "ok", tx |-> tx]

Init ==
    /\ entry = [k \in Keys |-> Absent]
    /\ committed = {}
    /\ pc = [c \in Calls |-> "claim"]
    /\ claimed = {}
    /\ answer = [c \in Calls |-> NoAnswer]
    /\ updating = {}
    /\ disturbed = {}
    /\ faults = 0

Fault == faults < MaxFaults /\ faults' = faults + 1

Goto(c, l) == pc' = [pc EXCEPT ![c] = l]
Answer(c, a) == answer' = [answer EXCEPT ![c] = a]
SetEntry(k, e) == entry' = [entry EXCEPT ![k] = e]

handleDuplicate(e) == IF e.st = "completed" THEN Ok(e.tx) ELSE Error("in_progress")

\* CheckOrLock: SET NX GET found nothing; the key is ours.
Claim(c) ==
    /\ pc[c] = "claim" /\ entry[KeyOf[c]] = Absent
    /\ SetEntry(KeyOf[c], InProcess)
    /\ claimed' = claimed \cup {c}
    /\ Goto(c, "handler")
    /\ UNCHANGED <<committed, answer, updating, disturbed, faults>>

\* CheckOrLock returned the value it found.
Duplicate(c) ==
    /\ pc[c] = "claim" /\ entry[KeyOf[c]] # Absent
    /\ Answer(c, handleDuplicate(entry[KeyOf[c]]))
    /\ Goto(c, "done")
    /\ UNCHANGED <<entry, committed, claimed, updating, disturbed, faults>>

\* SET NX GET took effect and its answer was lost: the client library sends the
\* command again (MaxRetries).
ClaimLost(c) ==
    /\ pc[c] = "claim" /\ entry[KeyOf[c]] = Absent
    /\ Fault
    /\ SetEntry(KeyOf[c], InProcess)
    /\ UNCHANGED <<committed, callVars, disturbed>>

\* Mutant: a call that failed open cleans up like the owner of the key.
FailOpenAsOwner(c) ==
    /\ pc[c] = "claim"
    /\ Fault
    /\ UNCHANGED entry
    /\ claimed' = claimed \cup {c}
    /\ Goto(c, "handler")
    /\ UNCHANGED <<committed, answer, updating, disturbed>>

\* CheckOrLock failed, with or without effect: the handler runs all the same.
FailOpen(c) ==
    /\ pc[c] = "claim"
    /\ Fault
    /\ \/ UNCHANGED entry
       \/ entry[KeyOf[c]] = Absent /\ SetEntry(KeyOf[c], InProcess)
    /\ Goto(c, "handler")
    /\ UNCHANGED <<committed, claimed, answer, updating, disturbed>>

KeyUsed(k) == \E d \in committed : KeyOf[d] = k

Succeed(c) ==
    /\ Answer(c, Ok(c))
    /\ Goto(c, "done")
    /\ updating' = IF c \in claimed THEN updating \cup {c} ELSE updating
    /\ UNCHANGED <<entry, claimed, disturbed>>

\* Mutant: the completion is stored whatever the handler returned.
FailHandlerCompletes(c) ==
    /\ Answer(c, Error("error"))
    /\ Goto(c, "done")
    /\ updating' = IF c \in claimed THEN updating \cup {c} ELSE updating
    /\ UNCHANGED <<entry, claimed, disturbed>>

\* An error, or a panic: the recovered one is answered without a message, which
\* gRPC turns into an error too.
FailHandler(c) ==
    /\ Answer(c, Error("error"))
    /\ Goto(c, IF c \in claimed THEN "delete" ELSE "done")
    /\ UNCHANGED <<entry, claimed, updating, disturbed>>

\* Mutant: a conflict in the database is answered like a success.
HandleConflictOk(c) ==
    /\ pc[c] = "handler"
    /\ committed' = IF KeyUsed(KeyOf[c]) THEN committed ELSE committed \cup {c}
    /\ Succeed(c)
    /\ UNCHANGED faults

\* handler(ctx, req)
Handle(c) ==
    /\ pc[c] = "handler"
    /\ \/ /\ ~KeyUsed(KeyOf[c])
          /\ committed' = committed \cup {c}
          /\ \/ Succeed(c) /\ UNCHANGED faults
             \/ Fault /\ FailHandler(c)     \* the commit's answer was lost
       \/ FailHandler(c) /\ UNCHANGED <<committed, faults>>

\* Its error is ignored; with a cancelled context it fails without effect.
DeleteIdempotency(c) ==
    /\ pc[c] = "delete"
    /\ \/ SetEntry(KeyOf[c], Absent) /\ UNCHANGED faults
       \/ Fault /\ UNCHANGED entry
    /\ Goto(c, "done")
    /\ UNCHANGED <<committed, claimed, answer, updating, disturbed>>

\* DEL took effect and its answer was lost: the client library sends it again,
\* and that may find another call's entry.
DeleteLost(c) ==
    /\ pc[c] = "delete"
    /\ Fault
    /\ SetEntry(KeyOf[c], Absent)
    /\ disturbed' = disturbed \cup {KeyOf[c]}
    /\ UNCHANGED <<committed, callVars>>

\* The goroutine started after the answer.  It has 50 ms; a SET sent again within
\* them stores the same value.
UpdateIdempotencyStatus(c) ==
    /\ c \in updating
    /\ updating' = updating \ {c}
    /\ \/ SetEntry(KeyOf[c], completedStatus(c)) /\ UNCHANGED faults
       \/ Fault /\ UNCHANGED entry
    /\ UNCHANGED <<committed, pc, claimed, answer, disturbed>>

\* The gateway process dies under the call, or under its goroutine.
Crash(c) ==
    /\ Fault
    /\ \/ /\ pc[c] # "done"
          /\ Goto(c, "done") /\ Answer(c, Error("lost"))
          /\ UNCHANGED updating
       \/ /\ c \in updating
          /\ updating' = updating \ {c}
          /\ UNCHANGED <<pc, answer>>
    /\ UNCHANGED <<entry, committed, claimed, disturbed>>

\* idempotencyKeyTTL has passed.
Expire(k) ==
    /\ entry[k].ttl
    /\ SetEntry(k, Absent)
    /\ disturbed' = disturbed \cup {k}
    /\ UNCHANGED <<committed, callVars, faults>>

\* A client told "in progress" (codes.Aborted) sends the request again.
Resend(c) ==
    /\ pc[c] = "done" /\ answer[c] = Error("in_progress")
    /\ Goto(c, "claim")
    /\ UNCHANGED <<entry, committed, claimed, answer, updating, disturbed, faults>>

Progress(c) ==
    \/ Claim(c) \/ Duplicate(c) \/ Handle(c) \/ DeleteIdempotency(c)
    \/ UpdateIdempotencyStatus(c) \/ Resend(c)

Answered(c) == pc[c] = "done" /\ answer[c].code # "in_progress"

Terminated == (\A c \in Calls : Answered(c)) /\ updating = {} /\ UNCHANGED vars

Next ==
    \/ \E c \in Calls :
        Progress(c) \/ ClaimLost(c) \/ FailOpen(c) \/ DeleteLost(c) \/ Crash(c)
    \/ \E k \in Keys : Expire(k)
    \/ Terminated

Spec == Init /\ [][Next]_vars

\* Goroutines run, clients send again, and an entry left alone runs out.
FairSpec ==
    /\ Spec
    /\ \A c \in Calls : WF_vars(Progress(c))
    /\ \A k \in Keys : WF_vars(Expire(k))

-----------------------------------------------------------------------------

Entries == {Absent, InProcess} \cup {completedStatus(c) : c \in Calls}

Answers ==
    {NoAnswer} \cup {Error(code) : code \in {"error", "in_progress", "lost"}}
               \cup {Ok(c) : c \in Calls}

\* Every variable holds values of its kind.
TypeOK ==
    /\ entry \in [Keys -> Entries]
    /\ committed \in SUBSET Calls
    /\ pc \in [Calls -> {"claim", "handler", "delete", "done"}]
    /\ claimed \in SUBSET Calls
    /\ answer \in [Calls -> Answers]
    /\ updating \in SUBSET Calls
    /\ disturbed \in SUBSET Keys
    /\ faults \in Nat

\* Every "ok" for a key, fresh or out of Redis, names one and the same committed
\* transaction of that key, although entries are lost, run out under a running
\* call, are overwritten late, and calls run without having claimed the key.
SameAnswer ==
    \A c \in Calls : answer[c].code = "ok" =>
        /\ answer[c].tx \in committed /\ KeyOf[answer[c].tx] = KeyOf[c]
        /\ \A d \in committed : KeyOf[d] = KeyOf[c] => d = answer[c].tx

\* Call c will still write or delete the entry of its key.
Holder(c) == (c \in claimed /\ pc[c] \in {"handler", "delete"}) \/ c \in updating

\* As long as a key's entry has not run out and its DEL was not sent twice, no two
\* calls own it: none deletes or overwrites what another one relies on, whatever
\* else fails or crashes.
OneHolder ==
    \A c, d \in Calls :
        Holder(c) /\ Holder(d) /\ KeyOf[c] = KeyOf[d] /\ KeyOf[c] \notin disturbed => c = d

\* A stored answer is not forgotten before its TTL: unless it was sent twice, the
\* DeleteIdempotency of a failed call never removes the completion another call
\* stored.
CompletedStays ==
    [][\A k \in Keys : entry[k].st = "completed" /\ entry'[k].st # "completed"
                            => k \in disturbed']_vars

\* No client is locked out: one that sends its request again while told "in
\* progress" gets another answer in the end, because every entry has a TTL.
NoLockout == \A c \in Calls : <>[]Answered(c)

\* A key is used by one committed transaction.
OneCommit == \A c, d \in committed : KeyOf[c] = KeyOf[d] => c = d

\* A completion in Redis names the committed transaction of its key.
EntryTrue ==
    \A k \in Keys : entry[k].st = "completed" =>
        entry[k].tx \in committed /\ KeyOf[entry[k].tx] = k

\* So does an "ok".
AnswerTrue ==
    \A c \in Calls : answer[c].code = "ok" =>
        answer[c].tx \in committed /\ KeyOf[answer[c].tx] = KeyOf[c]

\* An owned entry stays "in process" until its owner is through with it.
OwnedEntry ==
    \A c \in Calls : Holder(c) /\ KeyOf[c] \notin disturbed => entry[KeyOf[c]] = InProcess

\* A call that has yet to claim its key, or that will send again, owns nothing.
NotYetOwner ==
    \A c \in Calls :
        pc[c] = "claim" \/ (pc[c] = "done" /\ answer[c].code = "in_progress") =>
            c \notin claimed /\ c \notin updating

\* Only the owner of a key deletes its entry, after an error; the goroutine that
\* stores a completion starts when its call is over.
OwnerPhases ==
    /\ \A c \in Calls : pc[c] = "delete" => c \in claimed /\ answer[c].code = "error"
    /\ \A c \in updating : pc[c] = "done"

\* What makes SameAnswer, OneHolder and CompletedStays inductive.
IdemInv ==
    /\ TypeOK /\ OneCommit /\ EntryTrue /\ AnswerTrue
    /\ OneHolder /\ OwnedEntry /\ NotYetOwner /\ OwnerPhases
    /\ updating \subseteq committed
=============================================================================
