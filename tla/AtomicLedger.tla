---------------------------- MODULE AtomicLedger ----------------------------
(***************************************************************************)
(* What the gateway promises: accounts are opened and transfers happen one *)
(* at a time, each of them as a whole.  A transfer moves money between two *)
(* open accounts of its currency, never overdraws the sender, and happens  *)
(* at most once per idempotency key.  There are no rows, locks, connections*)
(* or half-done transactions here.                                         *)
(***************************************************************************)
EXTENDS Integers

CONSTANTS Account, Key

VARIABLES
    bal,    \* the balance of every account
    cur,    \* the currency of an open account
    open,   \* the open accounts
    log     \* the transactions that took place

vars == <<bal, cur, open, log>>

Init ==
    /\ bal = [a \in Account |-> 0]
    /\ cur = [a \in Account |-> 0]
    /\ open = {}
    /\ log = {}

\* An account comes with a currency and an opening balance of the caller's
\* choosing; a positive one is logged as a transaction to itself.
Open(a) ==
    /\ a \notin open
    /\ open' = open \cup {a}
    /\ cur' = [cur EXCEPT ![a] = cur'[a]] /\ cur'[a] # 0
    /\ bal' = [bal EXCEPT ![a] = bal'[a]] /\ bal'[a] >= 0
    /\ log' = log \cup (IF bal'[a] = 0 THEN {}
                        ELSE {[id |-> a, key |-> a, from |-> a, to |-> a,
                               amount |-> bal'[a], currency |-> cur'[a]]})

\* r is the transaction that happens.
Transfer(r) ==
    /\ r.key \in Key
    /\ \A s \in log : s.key # r.key
    /\ {r.from, r.to} \subseteq open
    /\ r.from # r.to
    /\ r.currency = cur[r.from] /\ r.currency = cur[r.to]
    /\ r.amount > 0 /\ r.amount <= bal[r.from]
    /\ bal' = [bal EXCEPT ![r.from] = @ - r.amount, ![r.to] = @ + r.amount]
    /\ log' = log \cup {r}
    /\ UNCHANGED <<cur, open>>

Next ==
    \/ \E a \in Account : Open(a)
    \/ \E r \in log' \ log : Transfer(r)

Spec == Init /\ [][Next]_vars
=============================================================================
