------------------------------ MODULE Resolver ------------------------------
(***************************************************************************)
(* The k8sdns resolver of a client connection                              *)
(* (loadgen/service/k8sresolver.go): a goroutine looks the gateway's name  *)
(* up at every tick, and gRPC asks for a lookup of its own when a          *)
(* connection fails, so that two lookups may run at once and end in any    *)
(* order.                                                                  *)
(***************************************************************************)
EXTENDS GatewayMain

CONSTANTS
    NoAnswer       \* no lookup under way

VARIABLES
    addrs,         \* the addresses of the last UpdateState
    looking,       \* per goroutine: the answer it has yet to deliver
    rstate         \* new, building, open, closing or closed

\* The addresses under the name of the headless service: the pods that accept
\* connections (the time the cluster takes for it is part of a lookup).  A name
\* without addresses has no answer.
dns == {p \in Pod : Serving(p)}

resolverVars == <<addrs, looking, rstate>>

ResolverInit ==
    /\ addrs = {}
    /\ looking = [t \in {"watch", "now"} |-> NoAnswer]
    /\ rstate = "new"

\* net.LookupHost; an error is reported and nothing changes.
LookupHost(t) ==
    /\ looking[t] = NoAnswer /\ dns # {}
    /\ looking' = [looking EXCEPT ![t] = dns]
    /\ UNCHANGED addrs

\* Build looks up once before the goroutine starts, successfully or not.
Build ==
    /\ rstate = "new"
    /\ \/ LookupHost("watch") /\ rstate' = "building"
       \/ rstate' = "open" /\ UNCHANGED <<addrs, looking>>

\* A tick; behind cancel() the select may still choose it.
watch ==
    /\ rstate \in {"open", "closing"}
    /\ LookupHost("watch")
    /\ UNCHANGED rstate

\* gRPC calls it when one of the addresses cannot be reached, and not once it
\* has called Close.
ResolveNow ==
    /\ rstate = "open"
    /\ LookupHost("now")
    /\ UNCHANGED rstate

\* Mutant: addresses are added and never taken away.
UpdateStateAdds(t) ==
    /\ looking[t] # NoAnswer
    /\ addrs' = addrs \cup looking[t]
    /\ looking' = [looking EXCEPT ![t] = NoAnswer]
    /\ rstate' = IF rstate = "building" THEN "open" ELSE rstate

\* cc.UpdateState, which gRPC drops for a closed resolver.
UpdateState(t) ==
    /\ looking[t] # NoAnswer
    /\ addrs' = looking[t]
    /\ looking' = [looking EXCEPT ![t] = NoAnswer]
    /\ rstate' = IF rstate = "building" THEN "open" ELSE rstate

\* cancel(); gRPC calls Close behind the last ResolveNow.
Close ==
    /\ rstate = "open" /\ looking["now"] = NoAnswer
    /\ rstate' = "closing"
    /\ UNCHANGED <<addrs, looking>>

\* wg.Wait(): the goroutine has seen ctx.Done().
CloseWait ==
    /\ rstate = "closing" /\ looking["watch"] = NoAnswer
    /\ rstate' = "closed"
    /\ UNCHANGED <<addrs, looking>>

WatchStep == watch \/ UpdateState("watch")
NowStep == UpdateState("now")

ResolverTypeOK ==
    /\ addrs \subseteq Pod
    /\ looking \in [{"watch", "now"} -> (SUBSET Pod) \cup {NoAnswer}]
    /\ rstate \in {"new", "building", "open", "closing", "closed"}

-----------------------------------------------------------------------------

\* When Close has returned no lookup is under way any more: the goroutine does
\* not outlive the connection.
NothingAfterClose == rstate = "closed" => \A t \in {"watch", "now"} : looking[t] = NoAnswer

\* What makes it so: gRPC's own lookups run only while the resolver is open.
ResolverInv ==
    /\ ResolverTypeOK /\ NothingAfterClose
    /\ rstate # "open" => looking["now"] = NoAnswer

\* The addresses follow the name although lookups overlap, fail and are
\* delivered late: once the name stays as it is (and has addresses at all) the
\* connection has exactly its addresses.
TracksName == <>[](rstate \notin {"building", "open"} \/ dns = {} \/ addrs = dns)
=============================================================================
