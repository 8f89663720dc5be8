----------------------------- MODULE SystemDNS ------------------------------
(***************************************************************************)
(* DNS in the relay: SystemDNS.Exchange of src/internal/relay/dns.go with  *)
(* its cached resolver list, called by the goroutines of serveDNSUDP and   *)
(* serveDNSTCP of engine.go, one per flow to the virtual DNS address,      *)
(* while the Mac's resolver configuration changes.                         *)
(*                                                                         *)
(* The configurations are numbered in the order in which the Mac goes      *)
(* through them, and every list is accompanied by the number of the one it *)
(* was read from.  mu is held while scutil runs and the moment at which    *)
(* scutil reads the configuration is a step of its own.  An exchange that  *)
(* is not answered lasts until the deadline of its query; cancelling the   *)
(* engine's context fails the next dial and stops scutil, but does not     *)
(* interrupt a read in progress.                                           *)
(***************************************************************************)
EXTENDS ResolverChoice

CONSTANTS
    UDPFlows, TCPFlows,
    Names,
    Reports,      \* what scutil prints in each configuration, in order
    MaxQueries,   \* bound: queries of one flow
    None

Flows == UDPFlows \cup TCPFlows

ASSUME FlowsAssumption == UDPFlows \cap TCPFlows = {} /\ None \notin Flows
ASSUME BoundsAssumption == Len(Reports) \in Nat \ {0} /\ MaxQueries \in Nat
ASSUME ReportsAssumption == \A c \in 1 .. Len(Reports) : IsReport(Reports[c])
ASSUME NamesAssumption == None \notin Names /\ \A n \in Names : n \in Seq(ToSet(n))

VARIABLES
    config,       \* the configuration the Mac is in
    resolvers,    \* the cached list, empty before the first load
    fresh,        \* loadedAt is less than reloadInterval ago
    mu,           \* the flow that holds the lock
    loaded,       \* the list its call of Load returned, empty for an error
    cancelled,    \* the engine's context
    \* per flow: where its goroutine is, and the query it serves
    pc, asked, name,
    servers,      \* the nameservers of the selected resolver still to be asked
    transport, pass, expired,
    \* history: the configuration resolvers and loaded were read from, and per flow
    \* that of the list it uses and the one in which its first exchange failed, and
    \* whether scutil failed for its retry
    readAt, loadedFrom, from, failedAt, fellBack

cacheVars == <<config, resolvers, fresh, mu, loaded, cancelled, readAt, loadedFrom>>
queryVars == <<asked, name, servers, transport, pass, expired>>
historyVars == <<from, failedAt, fellBack>>
vars == <<cacheVars, pc, queryVars, historyVars>>

Versions == 1 .. Len(Reports)
Places == {"idle", "lookup", "loading", "loaded", "asking", "waiting",
           "invalidate", "ended"}

Network(f) == IF f \in UDPFlows THEN "udp" ELSE "tcp"
CtxDone(f) == expired[f] \/ cancelled
At(f, place) == pc[f] = place
Goto(f, place) == pc' = [pc EXCEPT ![f] = place]

Init ==
    /\ config = 1 /\ resolvers = <<>> /\ fresh = FALSE /\ mu = None /\ loaded = <<>>
    /\ cancelled = FALSE /\ readAt = 0 /\ loadedFrom = 0
    /\ pc = [f \in Flows |-> "idle"]
    /\ asked = [f \in Flows |-> 0]
    /\ name = [f \in Flows |-> None]
    /\ servers = [f \in Flows |-> <<>>]
    /\ transport = [f \in Flows |-> Network(f)]
    /\ pass = [f \in Flows |-> 1]
    /\ expired = [f \in Flows |-> FALSE]
    /\ from = [f \in Flows |-> 0]
    /\ failedAt = [f \in Flows |-> 0]
    /\ fellBack = [f \in Flows |-> FALSE]

-----------------------------------------------------------------------------
(* The goroutine of a flow: serveDNSUDP, serveDNSTCP. *)

\* Exchange returns, its variables are gone, and the goroutine reads the next query
\* or ends.
Return(f, place) ==
    /\ Goto(f, place)
    /\ name' = [name EXCEPT ![f] = None]
    /\ servers' = [servers EXCEPT ![f] = <<>>]
    /\ transport' = [transport EXCEPT ![f] = Network(f)]
    /\ pass' = [pass EXCEPT ![f] = 1]
    /\ expired' = [expired EXCEPT ![f] = FALSE]
    /\ from' = [from EXCEPT ![f] = 0]
    /\ failedAt' = [failedAt EXCEPT ![f] = 0]
    /\ fellBack' = [fellBack EXCEPT ![f] = FALSE]

\* The response is written to the device; when that fails, the flow ends.
Answer(f) == Return(f, "idle") \/ Return(f, "ended")

\* Over UDP a query that fails is dropped; over TCP it ends the flow.
Fail(f) == Return(f, IF f \in UDPFlows THEN "idle" ELSE "ended")

\* A query is read: Exchange is called with a deadline of its own, and fails at
\* once if the question has no name that can be read.
Ask(f) ==
    /\ At(f, "idle") /\ asked[f] < MaxQueries
    /\ asked' = [asked EXCEPT ![f] = @ + 1]
    /\ \/ /\ \E n \in Names : name' = [name EXCEPT ![f] = n]
          /\ Goto(f, "lookup")
          /\ UNCHANGED <<servers, transport, pass, expired, historyVars>>
       \/ Fail(f)
    /\ UNCHANGED cacheVars

\* The read fails: the idle timeout, the device, or the closed stack.
EndFlow(f) ==
    /\ At(f, "idle") /\ Goto(f, "ended")
    /\ UNCHANGED <<cacheVars, queryVars, historyVars>>

-----------------------------------------------------------------------------
(* currentResolvers *)

\* The nameservers of the selected resolver; none if no resolver is selected.
Selected(list, question) ==
    LET index == selectResolver(list, question)
    IN  IF index = 0 THEN <<>> ELSE list[index].servers

\* exchangeSelected starts over a list.
Select(f, list, version) ==
    /\ servers' = [servers EXCEPT ![f] = Selected(list, name[f])]
    /\ from' = [from EXCEPT ![f] = version]
    /\ transport' = [transport EXCEPT ![f] = Network(f)]
    /\ Goto(f, "asking")

LookUp(f) ==
    /\ At(f, "lookup") /\ mu = None
    /\ \/ /\ resolvers # <<>> /\ fresh
          /\ Select(f, resolvers, readAt)
          /\ UNCHANGED mu
       \/ /\ resolvers = <<>> \/ ~fresh
          /\ mu' = f /\ Goto(f, "loading")
          /\ UNCHANGED <<servers, from, transport>>
    /\ UNCHANGED <<config, resolvers, fresh, loaded, cancelled, readAt, loadedFrom,
                   asked, name, pass, expired, failedAt, fellBack>>

\* scutil prints its report, or fails, is killed, or reports nothing usable.
Scutil(f) ==
    /\ At(f, "loading")
    /\ \/ /\ ~CtxDone(f)
          /\ loaded' = ParseScutilDNS(Reports[config]) /\ loadedFrom' = config
       \/ UNCHANGED <<loaded, loadedFrom>>
    /\ Goto(f, "loaded")
    /\ UNCHANGED <<config, resolvers, fresh, mu, cancelled, readAt, queryVars, historyVars>>

\* The last list is used again, and stays as stale as it was.
FallBack(f) ==
    /\ Select(f, resolvers, readAt)
    /\ fellBack' = [fellBack EXCEPT ![f] = pass[f] = 2]
    /\ UNCHANGED <<resolvers, fresh, readAt, asked, name, pass, expired, failedAt>>

\* The list becomes the cached one.
Renew(f) ==
    /\ resolvers' = loaded /\ readAt' = loadedFrom /\ fresh' = TRUE
    /\ Select(f, loaded, loadedFrom)
    /\ UNCHANGED <<asked, name, pass, expired, failedAt, fellBack>>

\* Mutant of Store: a failed load returns without unlocking.
StoreKeepsLock(f) ==
    /\ At(f, "loaded")
    /\ loaded' = <<>> /\ loadedFrom' = 0
    /\ mu' = IF loaded # <<>> THEN None ELSE mu
    /\ \/ loaded # <<>> /\ Renew(f)
       \/ loaded = <<>> /\ resolvers # <<>> /\ FallBack(f)
       \/ /\ loaded = <<>> /\ resolvers = <<>>
          /\ Fail(f) /\ UNCHANGED <<resolvers, fresh, readAt, asked>>
    /\ UNCHANGED <<config, cancelled>>

\* Load has returned; without any list the query fails.
Store(f) ==
    /\ At(f, "loaded")
    /\ mu' = None /\ loaded' = <<>> /\ loadedFrom' = 0
    /\ \/ loaded # <<>> /\ Renew(f)
       \/ loaded = <<>> /\ resolvers # <<>> /\ FallBack(f)
       \/ /\ loaded = <<>> /\ resolvers = <<>>
          /\ Fail(f) /\ UNCHANGED <<resolvers, fresh, readAt, asked>>
    /\ UNCHANGED <<config, cancelled>>

-----------------------------------------------------------------------------
(* exchangeSelected and exchangeOne *)

NextServer(f) ==
    /\ servers' = [servers EXCEPT ![f] = Tail(@)]
    /\ transport' = [transport EXCEPT ![f] = Network(f)]
    /\ Goto(f, "asking")

\* The next nameserver is dialled, which fails if the context is done, and sent
\* the query.
Dial(f) ==
    /\ At(f, "asking") /\ servers[f] # <<>>
    /\ \/ ~CtxDone(f) /\ Goto(f, "waiting") /\ UNCHANGED <<servers, transport>>
       \/ NextServer(f)
    /\ UNCHANGED <<cacheVars, asked, name, pass, expired, historyVars>>

\* What comes back: a response, a truncated one that is asked for again over TCP,
\* or an error; after the deadline only an error.
Receive(f) ==
    /\ At(f, "waiting")
    /\ \/ ~expired[f] /\ Answer(f) /\ UNCHANGED asked
       \/ /\ ~expired[f] /\ transport[f] = "udp"
          /\ transport' = [transport EXCEPT ![f] = "tcp"]
          /\ Goto(f, "asking")
          /\ UNCHANGED <<asked, name, servers, pass, expired, historyVars>>
       \/ NextServer(f) /\ UNCHANGED <<asked, name, pass, expired, historyVars>>
    /\ UNCHANGED cacheVars

\* Every nameserver failed.  The first time the query goes on to a fresh list,
\* unless its context is done.
Exhausted(f) ==
    /\ At(f, "asking") /\ servers[f] = <<>>
    /\ \/ /\ pass[f] = 1 /\ ~CtxDone(f)
          /\ Goto(f, "invalidate")
          /\ failedAt' = [failedAt EXCEPT ![f] = config]
          /\ from' = [from EXCEPT ![f] = 0]
          /\ UNCHANGED <<queryVars, fellBack>>
       \/ /\ pass[f] = 2 \/ CtxDone(f)
          /\ Fail(f) /\ UNCHANGED asked
    /\ UNCHANGED cacheVars

\* Mutant of Invalidate: without the lock.
InvalidateUnlocked(f) ==
    /\ At(f, "invalidate")
    /\ fresh' = FALSE
    /\ pass' = [pass EXCEPT ![f] = 2]
    /\ Goto(f, "lookup")
    /\ UNCHANGED <<config, resolvers, mu, loaded, cancelled, readAt, loadedFrom, asked, name,
                   servers, transport, expired, from, failedAt, fellBack>>

\* invalidateResolvers, and once more through currentResolvers.
Invalidate(f) ==
    /\ At(f, "invalidate") /\ mu = None
    /\ fresh' = FALSE
    /\ pass' = [pass EXCEPT ![f] = 2]
    /\ Goto(f, "lookup")
    /\ UNCHANGED <<config, resolvers, mu, loaded, cancelled, readAt, loadedFrom, asked, name,
                   servers, transport, expired, from, failedAt, fellBack>>

-----------------------------------------------------------------------------
(* The surroundings *)

Serving(f) == pc[f] \notin {"idle", "ended"}

\* The ten seconds of a query are over.
Expire(f) ==
    /\ Serving(f) /\ ~expired[f]
    /\ expired' = [expired EXCEPT ![f] = TRUE]
    /\ UNCHANGED <<cacheVars, pc, asked, name, servers, transport, pass, historyVars>>

\* The reload interval is over.
Age ==
    /\ fresh /\ fresh' = FALSE
    /\ UNCHANGED <<config, resolvers, mu, loaded, cancelled, readAt, loadedFrom, pc, queryVars,
                   historyVars>>

\* The Mac joins or leaves a network or a VPN.
ChangeConfig ==
    /\ config < Len(Reports) /\ config' = config + 1
    /\ UNCHANGED <<resolvers, fresh, mu, loaded, cancelled, readAt, loadedFrom, pc, queryVars,
                   historyVars>>

\* Engine.Close
Cancel ==
    /\ ~cancelled /\ cancelled' = TRUE
    /\ UNCHANGED <<config, resolvers, fresh, mu, loaded, readAt, loadedFrom, pc, queryVars,
                   historyVars>>

Step(f) ==
    \/ Ask(f) \/ EndFlow(f)
    \/ LookUp(f) \/ Scutil(f) \/ Store(f)
    \/ Dial(f) \/ Receive(f) \/ Exhausted(f) \/ Invalidate(f)
    \/ Expire(f)

Next == Age \/ ChangeConfig \/ Cancel \/ \E f \in Flows : Step(f)

Spec == Init /\ [][Next]_vars

\* A goroutine that can go on does; the deadline of a query passes, and ends scutil
\* and a read; the idle timeout ends a flow that asks nothing more; the mutex is
\* handed to whoever waits for it.
Fairness ==
    \A f \in Flows :
        /\ WF_vars(EndFlow(f))
        /\ SF_vars(LookUp(f)) /\ SF_vars(Invalidate(f))
        /\ WF_vars(CtxDone(f) /\ Scutil(f)) /\ WF_vars(Store(f))
        /\ WF_vars(Dial(f)) /\ WF_vars(expired[f] /\ Receive(f))
        /\ WF_vars(Exhausted(f))
        /\ WF_vars(Expire(f))

FairSpec == Spec /\ Fairness

-----------------------------------------------------------------------------

\* Every field has its type, and no list is from a configuration still to come.
TypeOK ==
    /\ config \in Versions /\ readAt \in 0 .. config /\ loadedFrom \in 0 .. config
    /\ fresh \in BOOLEAN /\ mu \in Flows \cup {None} /\ cancelled \in BOOLEAN
    /\ pc \in [Flows -> Places]
    /\ asked \in [Flows -> 0 .. MaxQueries]
    /\ name \in [Flows -> Names \cup {None}]
    /\ transport \in [Flows -> {"udp", "tcp"}]
    /\ pass \in [Flows -> {1, 2}]
    /\ expired \in [Flows -> BOOLEAN]
    /\ from \in [Flows -> 0 .. config]
    /\ failedAt \in [Flows -> 0 .. config]
    /\ fellBack \in [Flows -> BOOLEAN]

\* The retry after a failed exchange (Exchange, dns.go) never goes to a list older
\* than the configuration in which the exchange failed, however the loads and
\* invalidations of other flows fall between, unless scutil itself failed.
RetryFresh ==
    \A f \in Flows :
        pc[f] \in {"asking", "waiting"} /\ pass[f] = 2 /\ ~fellBack[f]
            => from[f] >= failedAt[f]

\* Split DNS (selectResolver over what ParseScutilDNS made of the report): a query
\* goes to nameservers of the most specific resolver for its name only, and the
\* list it uses offers one whenever the report has one.
AsksResponsible ==
    /\ \A f \in Flows :
            pc[f] \in {"asking", "waiting"} =>
                ToSet(servers[f]) \subseteq Responsible(Reports[from[f]], name[f])
    /\ resolvers # <<>> =>
            \A n \in Names : Selected(resolvers, n) = <<>> => Responsible(Reports[readAt], n) = {}

\* Every query is answered or dropped (serveDNSUDP, serveDNSTCP): neither a hanging
\* scutil under the lock, a silent nameserver nor the retry holds a flow for ever,
\* so that every flow ends and Engine.Close returns.
QueriesSettle == \A f \in Flows : Serving(f) ~> ~Serving(f)

\* What README.md and docs/phase-3.md say of a failed exchange: the configuration
\* is read again at once.  The code does so only if the deadline of the query has
\* not passed, which it has after a nameserver that does not answer.
FailureRefreshes ==
    [][\A f \in Flows :
          At(f, "asking") /\ pc'[f] \in {"idle", "ended"} /\ ~cancelled => pass[f] = 2]_vars
=============================================================================
