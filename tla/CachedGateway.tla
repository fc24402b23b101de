---------------------------- MODULE CachedGateway ---------------------------
(***************************************************************************)
(* Gateway with the currency cache of internal/repository/redis/Currency.go*)
(* in front of accounts.currency.  validateTransferCurrencies asks Redis   *)
(* for both accounts in parallel, then the database for what Redis did not *)
(* have, and writes that back; CreateAccount writes the entry of the new   *)
(* account behind its commit.                                              *)
(*                                                                         *)
(* Every step is a step of Gateway or changes nothing that Gateway has:    *)
(* the read of the database (or the last read of the cache, if it had      *)
(* everything) is the CheckCurrencies of Gateway.  The answer of a call is *)
(* fixed there and sent once its entries are written (Filled).             *)
(***************************************************************************)
EXTENDS Gateway

\* An account that was not looked up yet has no currency code.
ASSUME NoneAssumption == None \notin Int

VARIABLES
    cached,    \* currency:<id> in Redis; 0 when there is no such key
    seen,      \* per call and account: what its read returned, None before it
    fill,      \* per call: the entries it has yet to write
    openFill   \* accounts whose CreateAccount has yet to write the entry

cacheVars == <<cached, seen, fill, openFill>>
cachedVars == <<vars, cacheVars>>

CachedInit ==
    /\ Init
    /\ cached = [a \in Account |-> 0]
    /\ seen = [c \in Calls |-> [a \in Account |-> None]]
    /\ fill = [c \in Calls |-> {}]
    /\ openFill = {}

Ends(c) == {req[c].from, req[c].to}

\* The SET takes effect or not; its error is dropped (_ = SetAccountCurrency).
SetAccountCurrency(a, cur) ==
    \/ cached' = [cached EXCEPT ![a] = cur]
    \/ UNCHANGED cached

\* GetAccountCurrency: an error, a missing key and an entry that is no number
\* all leave CURRENCY_UNSPECIFIED.
GetAccountCurrency(c, a) ==
    /\ pc[c] = "currencies" /\ a \in Ends(c) /\ seen[c][a] = None
    /\ \E v \in {ToInt16(cached[a]), 0} : seen' = [seen EXCEPT ![c][a] = v]
    /\ UNCHANGED <<vars, cached, fill, openFill>>

ReadsBack(c) == pc[c] = "currencies" /\ \A a \in Ends(c) : seen[c][a] # None

Missing(c) == {a \in Ends(c) : seen[c][a] = 0}

\* The currency validateTransferCurrencies compares.
CurrencyOf(c, a) == IF a \in Missing(c) THEN currency[a] ELSE seen[c][a]

\* Both ends are known: what GetCurrencies returned is kept until it is written
\* back, the other reads are done with.
Known(c) ==
    /\ Missing(c) \subseteq exists
    /\ seen' = [seen EXCEPT ![c] = [a \in Account |-> IF a \in Missing(c) THEN currency[a] ELSE None]]
    /\ fill' = [fill EXCEPT ![c] = Missing(c)]

\* Mutant: the map is read without its second result, a missing row gives 0.
NotFoundMismatch(c) ==
    /\ ~(Missing(c) \subseteq exists)
    /\ seen' = [seen EXCEPT ![c] = [a \in Account |-> None]]
    /\ UNCHANGED fill
    /\ Return(c, "currency_mismatch")

\* The sender is looked up first: its entry is written although the receiver is
\* not found, and not the other way round.
NotFound(c) ==
    /\ ~(Missing(c) \subseteq exists)
    /\ LET known == {req[c].from} \cap Missing(c) \cap exists IN
        /\ seen' = [seen EXCEPT ![c] = [a \in Account |-> IF a \in known THEN currency[a] ELSE None]]
        /\ fill' = [fill EXCEPT ![c] = known]
    /\ Return(c, "not_found")

\* One SELECT for the accounts Redis did not have, if any, and the comparison.
GetCurrencies(c) ==
    /\ ReadsBack(c)
    /\ \/ NotFound(c)
       \/ Known(c) /\ (\E a \in Ends(c) : CurrencyOf(c, a) # req[c].currency)
          /\ Return(c, "currency_mismatch")
       \/ Known(c) /\ (\A a \in Ends(c) : CurrencyOf(c, a) = req[c].currency)
          /\ Goto(c, "begin") /\ UNCHANGED <<req, postingID, reply, dbVars>>
    /\ UNCHANGED <<accountVars, cached, openFill>>

\* The SELECT fails; without one there is nothing here that can fail.
GetCurrenciesFails(c) ==
    /\ ReadsBack(c) /\ Missing(c) # {}
    /\ seen' = [seen EXCEPT ![c] = [a \in Account |-> None]]
    /\ Return(c, "internal")
    /\ UNCHANGED <<accountVars, cached, fill, openFill>>

\* The entries a call found missing, the sender's first.
FillCache(c) ==
    /\ \E a \in fill[c] :
        /\ req[c].from \in fill[c] => a = req[c].from
        /\ SetAccountCurrency(a, seen[c][a])
        /\ fill' = [fill EXCEPT ![c] = @ \ {a}]
        /\ seen' = [seen EXCEPT ![c][a] = None]
    /\ UNCHANGED <<vars, openFill>>

\* Every other statement of the call, in its turn.
OtherProgress(c) ==
    /\ fill[c] = {} /\ pc[c] # "currencies"
    /\ TransferProgress(c)
    /\ UNCHANGED <<accountVars, cacheVars>>

OtherFail(c) ==
    /\ fill[c] = {} /\ pc[c] # "currencies"
    /\ Fail(c)
    /\ UNCHANGED <<accountVars, cacheVars>>

\* Mutant: the entry is written before the commit.
CachedOpenEarly(a) ==
    /\ OpenProgress(a)
    /\ openFill' = IF opc'[a] = "commit" THEN openFill \cup {a} ELSE openFill
    /\ UNCHANGED <<transferVars, cached, seen, fill>>

\* CreateAccount; a commit that was answered is followed by SetAccountCurrency.
CachedOpen(a) ==
    /\ OpenProgress(a)
    /\ openFill' = IF openReply'[a] = "ok" THEN openFill \cup {a} ELSE openFill
    /\ UNCHANGED <<transferVars, cached, seen, fill>>

CachedOpenFails(a) ==
    /\ OpenFail(a) \/ OpenRefused(a)
    /\ UNCHANGED <<transferVars, cacheVars>>

FillOpened(a) ==
    /\ a \in openFill
    /\ SetAccountCurrency(a, currency[a])
    /\ openFill' = openFill \ {a}
    /\ UNCHANGED <<vars, seen, fill>>

\* The 24 hours are over, or Redis dropped the key.
Expire(a) ==
    /\ cached[a] # 0
    /\ cached' = [cached EXCEPT ![a] = 0]
    /\ UNCHANGED <<vars, seen, fill, openFill>>

-----------------------------------------------------------------------------

Filled == openFill = {} /\ \A c \in Calls : fill[c] = {}

CachedTerminated == AllDone /\ Filled /\ UNCHANGED cachedVars

CachedProgress(c) ==
    \/ \E a \in Account : GetAccountCurrency(c, a)
    \/ GetCurrencies(c) \/ FillCache(c) \/ OtherProgress(c)

CachedNext ==
    \/ \E a \in Account : CachedOpen(a) \/ CachedOpenFails(a) \/ FillOpened(a) \/ Expire(a)
    \/ \E c \in Calls : CachedProgress(c) \/ GetCurrenciesFails(c) \/ OtherFail(c)
    \/ CachedTerminated

CachedSpec == CachedInit /\ [][CachedNext]_cachedVars

\* As in Gateway; Redis answers or the client library gives up.
FairCachedSpec ==
    /\ CachedSpec
    /\ \A a \in Account : WF_cachedVars(CachedOpen(a)) /\ WF_cachedVars(FillOpened(a))
    /\ \A c \in Calls : WF_cachedVars(CachedProgress(c))

-----------------------------------------------------------------------------

\* Whoever reads an entry of the cache reads the currency of a committed row,
\* and so does a call that keeps it across other calls' steps, whatever expires,
\* fails or is written late: an entry is only ever written behind a commit, and
\* no statement changes the currency of a row.
CacheTrue ==
    /\ \A a \in Account : cached[a] # 0 => a \in exists /\ cached[a] = currency[a]
    /\ \A c \in Calls, a \in Account :
        seen[c][a] \notin {None, 0} => a \in exists /\ seen[c][a] = currency[a]
    /\ openFill \subseteq exists

Int16 == -HalfInt16 .. HalfInt16 - 1

CacheTypeOK ==
    /\ cached \in [Account -> Int]
    /\ seen \in [Calls -> [Account -> Int \cup {None}]]
    /\ fill \in [Calls -> SUBSET Account]
    /\ openFill \in SUBSET Account

\* CacheTrue, and why: a currency survives the conversion of what Redis holds,
\* what is still to be written is the currency of a row, and an account that was
\* answered with ok has one.
CacheInv ==
    /\ CacheTypeOK /\ CacheTrue
    /\ \A a \in Account : currency[a] \in Int16
    /\ \A c \in Calls : \A a \in fill[c] : a \in exists /\ seen[c][a] = currency[a]
    /\ \A c \in Calls : pc[c] = "currencies" => fill[c] = {}
    /\ \A a \in Account : openReply[a] = "ok" => a \in exists

\* With the cache the calls do what they do without it: nothing that holds of
\* Gateway is lost.
ImplementsGateway == Spec

\* Every call is answered, its entries written.
AllAnsweredFilled == <>(AllDone /\ Filled)
=============================================================================
