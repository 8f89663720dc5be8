-------------------------- MODULE SystemDNSProofs ---------------------------
(***************************************************************************)
(* Proofs about SystemDNS, for every set of flows, every sequence of       *)
(* configurations, every report, every name and every bound.               *)
(*                                                                         *)
(* That a retry uses a list as new as the failure before it needs to be    *)
(* known from the invalidation on: whatever list is in the cache and called *)
(* fresh, or is about to be put there by the holder of the lock, was read  *)
(* after the failure (RetryPending).  An invalidation finds no load under  *)
(* way, because it has the lock (LockHeld, NothingLoaded).  What the parser *)
(* and the selection compute does not matter to that.                      *)
(*                                                                         *)
(* That a query goes to responsible nameservers only rests on ChoiceRight, *)
(* a theorem about the two loops alone: the parser's list has exactly the  *)
(* usable blocks of the report (Sound, Full, carried through the loop by   *)
(* Parsed), sorting keeps them, and the selection ends with the best of    *)
(* them (BestOf).  ChoiceInv then follows the list through the cache.      *)
(***************************************************************************)
EXTENDS SystemDNS, LoopTheorems

\* Whoever runs scutil or has its list holds the lock.
LockHeld == \A f \in Flows : pc[f] \in {"loading", "loaded"} => mu = f

\* There is no loaded list while the lock is free or scutil runs.
NothingLoaded ==
    /\ mu = None => loaded = <<>>
    /\ \A f \in Flows : pc[f] = "loading" => loaded = <<>>

\* A flow on its way to a retry will find no list older than its failure, and
\* every query begins with the first pass.
RetryPending ==
    \A f \in Flows :
        /\ pc[f] = "idle" => pass[f] = 1
        /\ pass[f] = 2 /\ pc[f] \in {"lookup", "loading", "loaded"} =>
              /\ fresh => readAt >= failedAt[f]
              /\ loaded # <<>> => loadedFrom >= failedAt[f]

IInv == TypeOK /\ LockHeld /\ NothingLoaded /\ RetryPending /\ RetryFresh

\* What Exchange's return does to the flow it returns to, and to no other.
Returned(g) ==
    /\ pc' \in [Flows -> Places]
    /\ name' \in [Flows -> Names \cup {None}]
    /\ transport' \in [Flows -> {"udp", "tcp"}]
    /\ pass' \in [Flows -> {1, 2}]
    /\ expired' \in [Flows -> BOOLEAN]
    /\ from' \in [Flows -> 0 .. config]
    /\ failedAt' \in [Flows -> 0 .. config]
    /\ fellBack' \in [Flows -> BOOLEAN]
    /\ pc'[g] \in {"idle", "ended"} /\ pass'[g] = 1
    /\ \A f \in Flows \ {g} :
          /\ pc'[f] = pc[f] /\ pass'[f] = pass[f] /\ from'[f] = from[f]
          /\ failedAt'[f] = failedAt[f] /\ fellBack'[f] = fellBack[f]

\* Return does exactly that.
LEMMA ReturnTypes ==
    ASSUME TypeOK, NEW g \in Flows, NEW place \in {"idle", "ended"}, Return(g, place)
    PROVE  Returned(g)
<1> USE BoundsAssumption
<1>1. place \in Places
    BY DEF Places
<1>2. Network(g) \in {"udp", "tcp"}
    BY DEF Network
<1>3. config \in Nat
    BY DEF TypeOK, Versions
<1>4. QED
    BY <1>1, <1>2, <1>3 DEF Returned, Return, Goto, TypeOK

\* The initial states satisfy the invariant.
LEMMA InitIInv == Init => IInv
<1> SUFFICES ASSUME Init PROVE IInv
    OBVIOUS
<1> USE FlowsAssumption, BoundsAssumption
<1>1. \A f \in Flows : Network(f) \in {"udp", "tcp"}
    BY DEF Network
<1>2. config \in Versions /\ "idle" \in Places
    BY DEF Init, Versions, Places
<1>3. TypeOK
    <2>1. config \in Nat /\ MaxQueries \in Nat
        BY <1>2 DEF Versions
    <2>2. /\ transport \in [Flows -> {"udp", "tcp"}]
          /\ pc \in [Flows -> Places]
        BY <1>1, <1>2 DEF Init
    <2>3. /\ asked \in [Flows -> 0 .. MaxQueries]
          /\ from \in [Flows -> 0 .. config]
          /\ failedAt \in [Flows -> 0 .. config]
        BY <2>1 DEF Init
    <2>4. /\ readAt \in 0 .. config /\ loadedFrom \in 0 .. config
          /\ pass \in [Flows -> {1, 2}]
          /\ expired \in [Flows -> BOOLEAN] /\ fellBack \in [Flows -> BOOLEAN]
        BY <2>1 DEF Init
    <2>5. /\ fresh \in BOOLEAN /\ mu \in Flows \cup {None} /\ cancelled \in BOOLEAN
          /\ name \in [Flows -> Names \cup {None}]
        BY DEF Init
    <2>6. QED
        BY <1>2, <2>2, <2>3, <2>4, <2>5 DEF TypeOK
<1>4. LockHeld /\ NothingLoaded /\ RetryPending /\ RetryFresh
    BY DEF Init, LockHeld, NothingLoaded, RetryPending, RetryFresh
<1>5. QED
    BY <1>3, <1>4 DEF IInv

\* Every step of a flow, of the clock, of the Mac and of Close preserves TypeOK.
LEMMA StepTypeOK == IInv /\ [Next]_vars => TypeOK'
<1> SUFFICES ASSUME IInv, [Next]_vars PROVE TypeOK'
    OBVIOUS
<1> USE FlowsAssumption, BoundsAssumption DEF IInv
<1>1. CASE Age
    BY <1>1 DEF Age, queryVars, historyVars, TypeOK, Versions, Places, Network
<1>2. CASE ChangeConfig
    BY <1>2 DEF ChangeConfig, queryVars, historyVars, TypeOK, Versions, Places, Network
<1>3. CASE Cancel
    BY <1>3 DEF Cancel, queryVars, historyVars, TypeOK, Versions, Places, Network
<1>4. ASSUME NEW g \in Flows, Step(g) PROVE TypeOK'
    <2>1. CASE Ask(g)
        <3>1. CASE Fail(g)
            <4>1. PICK place \in {"idle", "ended"} : Return(g, place)
                BY <3>1 DEF Fail, Answer
            <4>2. Returned(g)
                BY <4>1, ReturnTypes
            <4>3. asked' \in [Flows -> 0 .. MaxQueries]
                BY <2>1, <3>1 DEF Ask, TypeOK
            <4>4. QED
                BY <2>1, <4>2, <4>3 DEF Returned, Ask, cacheVars, TypeOK
        <3>2. CASE (\E n \in Names : name' = [name EXCEPT ![g] = n]) /\ Goto(g, "lookup") /\ UNCHANGED <<servers, transport, pass, expired, historyVars>>
            BY <2>1, <3>2 DEF Ask, Goto, At, cacheVars, historyVars, TypeOK, Versions, Places, Network
        <3>3. QED
            BY <2>1, <3>1, <3>2 DEF Ask
    <2>2. CASE EndFlow(g)
        BY <2>2 DEF EndFlow, Goto, At, cacheVars, queryVars, historyVars, TypeOK, Versions, Places, Network
    <2>3. CASE LookUp(g)
        <3>1. CASE resolvers # <<>> /\ fresh
            <4>1. /\ transport' \in [Flows -> {"udp", "tcp"}]
                  /\ from' \in [Flows -> 0 .. config]
                  /\ pc' \in [Flows -> Places]
                <5>1. Select(g, resolvers, readAt)
                    BY <2>3, <3>1 DEF LookUp
                <5>2. Network(g) \in {"udp", "tcp"}
                    BY DEF Network
                <5>3. transport' \in [Flows -> {"udp", "tcp"}]
                    BY <5>1, <5>2 DEF Select, TypeOK
                <5>4. /\ from' \in [Flows -> 0 .. config]
                      /\ pc' \in [Flows -> Places]
                    BY <5>1 DEF Select, Goto, TypeOK, Places
                <5>5. QED
                    BY <5>3, <5>4
            <4>2. QED
                BY <2>3, <3>1, <4>1 DEF LookUp, TypeOK, Versions, Places
        <3>2. CASE resolvers = <<>> \/ ~fresh
            BY <2>3, <3>2 DEF LookUp, Goto, At, TypeOK, Versions, Places, Network
        <3>3. QED
            BY <2>3, <3>1, <3>2 DEF LookUp
    <2>4. CASE Scutil(g)
        BY <2>4 DEF Scutil, Goto, At, queryVars, historyVars, TypeOK, Versions, Places, Network
    <2>5. CASE Store(g)
        <3>1. CASE loaded # <<>> /\ Renew(g)
            BY <2>5, <3>1 DEF Store, Renew, Select, Goto, At, TypeOK, Versions, Places, Network
        <3>2. CASE loaded = <<>> /\ resolvers # <<>> /\ FallBack(g)
            BY <2>5, <3>2 DEF Store, FallBack, Select, Goto, At, TypeOK, Versions, Places, Network
        <3>3. CASE loaded = <<>> /\ Fail(g) /\ UNCHANGED <<resolvers, fresh, readAt, asked>>
            <4>1. PICK place \in {"idle", "ended"} : Return(g, place)
                BY <3>3 DEF Fail, Answer
            <4>2. Returned(g)
                BY <4>1, ReturnTypes
            <4>3. QED
                BY <2>5, <3>3, <4>2 DEF Returned, Store, At, TypeOK, Versions, Places, Network
        <3>4. QED
            BY <2>5, <3>1, <3>2, <3>3 DEF Store
    <2>6. CASE Dial(g)
        BY <2>6 DEF Dial, NextServer, Goto, At, cacheVars, historyVars, TypeOK, Versions, Places, Network
    <2>7. CASE Receive(g)
        <3>1. CASE Answer(g) /\ UNCHANGED asked
            <4>1. PICK place \in {"idle", "ended"} : Return(g, place)
                BY <3>1 DEF Fail, Answer
            <4>2. Returned(g)
                BY <4>1, ReturnTypes
            <4>3. QED
                BY <2>7, <3>1, <4>2 DEF Returned, Receive, At, cacheVars, TypeOK, Versions, Places, Network
        <3>2. CASE ~Answer(g)
            BY <2>7, <3>2 DEF Receive, NextServer, Goto, At, cacheVars, historyVars, TypeOK, Versions, Places, Network
        <3>3. QED
            BY <2>7, <3>1, <3>2 DEF Receive
    <2>8. CASE Exhausted(g)
        <3>1. CASE (pass[g] = 2 \/ CtxDone(g)) /\ Fail(g) /\ UNCHANGED asked
            <4>1. PICK place \in {"idle", "ended"} : Return(g, place)
                BY <3>1 DEF Fail, Answer
            <4>2. Returned(g)
                BY <4>1, ReturnTypes
            <4>3. QED
                BY <2>8, <3>1, <4>2 DEF Returned, Exhausted, At, cacheVars, TypeOK, Versions, Places, Network
        <3>2. CASE pass[g] = 1 /\ ~CtxDone(g)
            <4>1. /\ pc' = [pc EXCEPT ![g] = "invalidate"]
                  /\ failedAt' = [failedAt EXCEPT ![g] = config]
                  /\ from' = [from EXCEPT ![g] = 0]
                  /\ UNCHANGED <<cacheVars, queryVars, fellBack>>
                BY <2>8, <3>2 DEF Exhausted, Goto, TypeOK, Fail
            <4>2. QED
                BY <2>8, <3>2, <4>1 DEF cacheVars, queryVars, TypeOK, Versions, Places
        <3>3. QED
            BY <2>8, <3>1, <3>2 DEF Exhausted
    <2>9. CASE Invalidate(g)
        BY <2>9 DEF Invalidate, Goto, At, TypeOK, Versions, Places, Network
    <2>10. CASE Expire(g)
        BY <2>10 DEF Expire, Serving, cacheVars, historyVars, TypeOK, Versions, Places, Network
    <2>11. QED
        BY <1>4, <2>1, <2>2, <2>3, <2>4, <2>5, <2>6, <2>7, <2>8, <2>9, <2>10 DEF Step
<1>5. CASE UNCHANGED vars
    BY <1>5 DEF vars, cacheVars, queryVars, historyVars, TypeOK, Versions, Places, Network
<1>6. QED
    BY <1>1, <1>2, <1>3, <1>4, <1>5 DEF Next

\* Every step of a flow, of the clock, of the Mac and of Close preserves LockHeld.
LEMMA StepLockHeld == IInv /\ [Next]_vars => LockHeld'
<1> SUFFICES ASSUME IInv, [Next]_vars PROVE LockHeld'
    OBVIOUS
<1> USE FlowsAssumption, BoundsAssumption DEF IInv
<1>1. CASE Age
    BY <1>1 DEF Age, queryVars, historyVars, LockHeld, TypeOK
<1>2. CASE ChangeConfig
    BY <1>2 DEF ChangeConfig, queryVars, historyVars, LockHeld, TypeOK
<1>3. CASE Cancel
    BY <1>3 DEF Cancel, queryVars, historyVars, LockHeld, TypeOK
<1>4. ASSUME NEW g \in Flows, Step(g) PROVE LockHeld'
    <2>1. CASE Ask(g)
        BY <2>1 DEF Ask, Fail, Return, Goto, At, cacheVars, historyVars, LockHeld, TypeOK
    <2>2. CASE EndFlow(g)
        BY <2>2 DEF EndFlow, Goto, At, cacheVars, queryVars, historyVars, LockHeld, TypeOK
    <2>3. CASE LookUp(g)
        BY <2>3 DEF LookUp, Select, Goto, At, LockHeld, TypeOK
    <2>4. CASE Scutil(g)
        BY <2>4 DEF Scutil, Goto, At, queryVars, historyVars, LockHeld, TypeOK
    <2>5. CASE Store(g)
        BY <2>5 DEF Store, Renew, FallBack, Fail, Return, Select, Goto, At, LockHeld, TypeOK
    <2>6. CASE Dial(g)
        BY <2>6 DEF Dial, NextServer, Goto, At, cacheVars, historyVars, LockHeld, TypeOK
    <2>7. CASE Receive(g)
        BY <2>7 DEF Receive, Answer, NextServer, Return, Goto, At, cacheVars, historyVars, LockHeld, TypeOK
    <2>8. CASE Exhausted(g)
        BY <2>8 DEF Exhausted, Fail, Return, Goto, At, cacheVars, queryVars, LockHeld, TypeOK
    <2>9. CASE Invalidate(g)
        BY <2>9 DEF Invalidate, Goto, At, LockHeld, TypeOK
    <2>10. CASE Expire(g)
        BY <2>10 DEF Expire, Serving, cacheVars, historyVars, LockHeld, TypeOK
    <2>11. QED
        BY <1>4, <2>1, <2>2, <2>3, <2>4, <2>5, <2>6, <2>7, <2>8, <2>9, <2>10 DEF Step
<1>5. CASE UNCHANGED vars
    BY <1>5 DEF vars, cacheVars, queryVars, historyVars, LockHeld, TypeOK
<1>6. QED
    BY <1>1, <1>2, <1>3, <1>4, <1>5 DEF Next

\* Every step of a flow, of the clock, of the Mac and of Close preserves NothingLoaded.
LEMMA StepNothingLoaded == IInv /\ [Next]_vars => NothingLoaded'
<1> SUFFICES ASSUME IInv, [Next]_vars PROVE NothingLoaded'
    OBVIOUS
<1> USE FlowsAssumption, BoundsAssumption DEF IInv
<1>1. CASE Age
    BY <1>1 DEF Age, queryVars, historyVars, NothingLoaded, LockHeld, TypeOK
<1>2. CASE ChangeConfig
    BY <1>2 DEF ChangeConfig, queryVars, historyVars, NothingLoaded, LockHeld, TypeOK
<1>3. CASE Cancel
    BY <1>3 DEF Cancel, queryVars, historyVars, NothingLoaded, LockHeld, TypeOK
<1>4. ASSUME NEW g \in Flows, Step(g) PROVE NothingLoaded'
    <2>1. CASE Ask(g)
        BY <2>1 DEF Ask, Fail, Return, Goto, At, cacheVars, historyVars, NothingLoaded, LockHeld, TypeOK
    <2>2. CASE EndFlow(g)
        BY <2>2 DEF EndFlow, Goto, At, cacheVars, queryVars, historyVars, NothingLoaded, LockHeld, TypeOK
    <2>3. CASE LookUp(g)
        BY <2>3 DEF LookUp, Select, Goto, At, NothingLoaded, LockHeld, TypeOK
    <2>4. CASE Scutil(g)
        BY <2>4 DEF Scutil, Goto, At, queryVars, historyVars, NothingLoaded, LockHeld, TypeOK
    <2>5. CASE Store(g)
        BY <2>5 DEF Store, Renew, FallBack, Fail, Return, Select, Goto, At, NothingLoaded, LockHeld, TypeOK
    <2>6. CASE Dial(g)
        BY <2>6 DEF Dial, NextServer, Goto, At, cacheVars, historyVars, NothingLoaded, LockHeld, TypeOK
    <2>7. CASE Receive(g)
        BY <2>7 DEF Receive, Answer, NextServer, Return, Goto, At, cacheVars, historyVars, NothingLoaded, LockHeld, TypeOK
    <2>8. CASE Exhausted(g)
        BY <2>8 DEF Exhausted, Fail, Return, Goto, At, cacheVars, queryVars, NothingLoaded, LockHeld, TypeOK
    <2>9. CASE Invalidate(g)
        BY <2>9 DEF Invalidate, Goto, At, NothingLoaded, LockHeld, TypeOK
    <2>10. CASE Expire(g)
        BY <2>10 DEF Expire, Serving, cacheVars, historyVars, NothingLoaded, LockHeld, TypeOK
    <2>11. QED
        BY <1>4, <2>1, <2>2, <2>3, <2>4, <2>5, <2>6, <2>7, <2>8, <2>9, <2>10 DEF Step
<1>5. CASE UNCHANGED vars
    BY <1>5 DEF vars, cacheVars, queryVars, historyVars, NothingLoaded, LockHeld, TypeOK
<1>6. QED
    BY <1>1, <1>2, <1>3, <1>4, <1>5 DEF Next

\* Every step of a flow, of the clock, of the Mac and of Close preserves RetryPending.
LEMMA StepRetryPending == IInv /\ [Next]_vars => RetryPending'
<1> SUFFICES ASSUME IInv, [Next]_vars PROVE RetryPending'
    OBVIOUS
<1> USE FlowsAssumption, BoundsAssumption DEF IInv
<1>1. CASE Age
    BY <1>1 DEF Age, queryVars, historyVars, RetryPending, NothingLoaded, LockHeld, TypeOK
<1>2. CASE ChangeConfig
    BY <1>2 DEF ChangeConfig, queryVars, historyVars, RetryPending, NothingLoaded, LockHeld, TypeOK
<1>3. CASE Cancel
    BY <1>3 DEF Cancel, queryVars, historyVars, RetryPending, NothingLoaded, LockHeld, TypeOK
<1>4. ASSUME NEW g \in Flows, Step(g) PROVE RetryPending'
    <2>1. CASE Ask(g)
        <3>1. CASE Fail(g)
            <4>1. PICK place \in {"idle", "ended"} : Return(g, place)
                BY <3>1 DEF Fail, Answer
            <4>2. Returned(g)
                BY <4>1, ReturnTypes
            <4>3. QED
                BY <2>1, <3>1, <4>2 DEF Returned, Ask, At, cacheVars, RetryPending, NothingLoaded, LockHeld, TypeOK
        <3>2. CASE (\E n \in Names : name' = [name EXCEPT ![g] = n]) /\ Goto(g, "lookup") /\ UNCHANGED <<servers, transport, pass, expired, historyVars>>
            BY <2>1, <3>2 DEF Ask, Goto, At, cacheVars, historyVars, RetryPending, NothingLoaded, LockHeld, TypeOK
        <3>3. QED
            BY <2>1, <3>1, <3>2 DEF Ask
    <2>2. CASE EndFlow(g)
        BY <2>2 DEF EndFlow, Goto, At, cacheVars, queryVars, historyVars, RetryPending, NothingLoaded, LockHeld, TypeOK
    <2>3. CASE LookUp(g)
        <3>1. CASE resolvers # <<>> /\ fresh
            BY <2>3, <3>1 DEF LookUp, Select, Goto, At, RetryPending, NothingLoaded, LockHeld, TypeOK
        <3>2. CASE resolvers = <<>> \/ ~fresh
            BY <2>3, <3>2 DEF LookUp, Goto, At, RetryPending, NothingLoaded, LockHeld, TypeOK
        <3>3. QED
            BY <2>3, <3>1, <3>2 DEF LookUp
    <2>4. CASE Scutil(g)
        BY <2>4 DEF Scutil, Goto, At, queryVars, historyVars, RetryPending, NothingLoaded, LockHeld, TypeOK
    <2>5. CASE Store(g)
        <3>1. CASE loaded # <<>> /\ Renew(g)
            BY <2>5, <3>1 DEF Store, Renew, Select, Goto, At, RetryPending, NothingLoaded, LockHeld, TypeOK
        <3>2. CASE loaded = <<>> /\ resolvers # <<>> /\ FallBack(g)
            BY <2>5, <3>2 DEF Store, FallBack, Select, Goto, At, RetryPending, NothingLoaded, LockHeld, TypeOK
        <3>3. CASE loaded = <<>> /\ Fail(g) /\ UNCHANGED <<resolvers, fresh, readAt, asked>>
            <4>1. PICK place \in {"idle", "ended"} : Return(g, place)
                BY <3>3 DEF Fail, Answer
            <4>2. Returned(g)
                BY <4>1, ReturnTypes
            <4>3. QED
                BY <2>5, <3>3, <4>2 DEF Returned, Store, At, RetryPending, NothingLoaded, LockHeld, TypeOK
        <3>4. QED
            BY <2>5, <3>1, <3>2, <3>3 DEF Store
    <2>6. CASE Dial(g)
        BY <2>6 DEF Dial, NextServer, Goto, At, cacheVars, historyVars, RetryPending, NothingLoaded, LockHeld, TypeOK
    <2>7. CASE Receive(g)
        <3>1. CASE Answer(g) /\ UNCHANGED asked
            <4>1. PICK place \in {"idle", "ended"} : Return(g, place)
                BY <3>1 DEF Fail, Answer
            <4>2. Returned(g)
                BY <4>1, ReturnTypes
            <4>3. QED
                BY <2>7, <3>1, <4>2 DEF Returned, Receive, At, cacheVars, RetryPending, NothingLoaded, LockHeld, TypeOK
        <3>2. CASE ~Answer(g)
            BY <2>7, <3>2 DEF Receive, NextServer, Goto, At, cacheVars, historyVars, RetryPending, NothingLoaded, LockHeld, TypeOK
        <3>3. QED
            BY <2>7, <3>1, <3>2 DEF Receive
    <2>8. CASE Exhausted(g)
        <3>1. CASE (pass[g] = 2 \/ CtxDone(g)) /\ Fail(g) /\ UNCHANGED asked
            <4>1. PICK place \in {"idle", "ended"} : Return(g, place)
                BY <3>1 DEF Fail, Answer
            <4>2. Returned(g)
                BY <4>1, ReturnTypes
            <4>3. QED
                BY <2>8, <3>1, <4>2 DEF Returned, Exhausted, At, cacheVars, RetryPending, NothingLoaded, LockHeld, TypeOK
        <3>2. CASE pass[g] = 1 /\ ~CtxDone(g)
            <4>1. /\ pc' = [pc EXCEPT ![g] = "invalidate"]
                  /\ failedAt' = [failedAt EXCEPT ![g] = config]
                  /\ from' = [from EXCEPT ![g] = 0]
                  /\ UNCHANGED <<cacheVars, queryVars, fellBack>>
                BY <2>8, <3>2 DEF Exhausted, Goto, TypeOK, Fail
            <4>2. QED
                BY <2>8, <3>2, <4>1 DEF cacheVars, queryVars, RetryPending, NothingLoaded, LockHeld, TypeOK
        <3>3. QED
            BY <2>8, <3>1, <3>2 DEF Exhausted
    <2>9. CASE Invalidate(g)
        BY <2>9 DEF Invalidate, Goto, At, RetryPending, NothingLoaded, LockHeld, TypeOK
    <2>10. CASE Expire(g)
        BY <2>10 DEF Expire, Serving, cacheVars, historyVars, RetryPending, NothingLoaded, LockHeld, TypeOK
    <2>11. QED
        BY <1>4, <2>1, <2>2, <2>3, <2>4, <2>5, <2>6, <2>7, <2>8, <2>9, <2>10 DEF Step
<1>5. CASE UNCHANGED vars
    BY <1>5 DEF vars, cacheVars, queryVars, historyVars, RetryPending, NothingLoaded, LockHeld, TypeOK
<1>6. QED
    BY <1>1, <1>2, <1>3, <1>4, <1>5 DEF Next

\* Every step of a flow, of the clock, of the Mac and of Close preserves RetryFresh.
LEMMA StepRetryFresh == IInv /\ [Next]_vars => RetryFresh'
<1> SUFFICES ASSUME IInv, [Next]_vars PROVE RetryFresh'
    OBVIOUS
<1> USE FlowsAssumption, BoundsAssumption DEF IInv
<1>1. CASE Age
    BY <1>1 DEF Age, queryVars, historyVars, RetryFresh, RetryPending, LockHeld, TypeOK
<1>2. CASE ChangeConfig
    BY <1>2 DEF ChangeConfig, queryVars, historyVars, RetryFresh, RetryPending, LockHeld, TypeOK
<1>3. CASE Cancel
    BY <1>3 DEF Cancel, queryVars, historyVars, RetryFresh, RetryPending, LockHeld, TypeOK
<1>4. ASSUME NEW g \in Flows, Step(g) PROVE RetryFresh'
    <2>1. CASE Ask(g)
        <3>1. CASE Fail(g)
            <4>1. PICK place \in {"idle", "ended"} : Return(g, place)
                BY <3>1 DEF Fail, Answer
            <4>2. Returned(g)
                BY <4>1, ReturnTypes
            <4>3. QED
                BY <2>1, <3>1, <4>2 DEF Returned, Ask, At, cacheVars, RetryFresh, RetryPending, LockHeld, TypeOK
        <3>2. CASE (\E n \in Names : name' = [name EXCEPT ![g] = n]) /\ Goto(g, "lookup") /\ UNCHANGED <<servers, transport, pass, expired, historyVars>>
            BY <2>1, <3>2 DEF Ask, Goto, At, cacheVars, historyVars, RetryFresh, RetryPending, LockHeld, TypeOK
        <3>3. QED
            BY <2>1, <3>1, <3>2 DEF Ask
    <2>2. CASE EndFlow(g)
        BY <2>2 DEF EndFlow, Goto, At, cacheVars, queryVars, historyVars, RetryFresh, RetryPending, LockHeld, TypeOK
    <2>3. CASE LookUp(g)
        <3>1. CASE resolvers # <<>> /\ fresh
            BY <2>3, <3>1 DEF LookUp, Select, Goto, At, RetryFresh, RetryPending, LockHeld, TypeOK
        <3>2. CASE resolvers = <<>> \/ ~fresh
            BY <2>3, <3>2 DEF LookUp, Goto, At, RetryFresh, RetryPending, LockHeld, TypeOK
        <3>3. QED
            BY <2>3, <3>1, <3>2 DEF LookUp
    <2>4. CASE Scutil(g)
        BY <2>4 DEF Scutil, Goto, At, queryVars, historyVars, RetryFresh, RetryPending, LockHeld, TypeOK
    <2>5. CASE Store(g)
        <3>1. CASE loaded # <<>> /\ Renew(g)
            BY <2>5, <3>1 DEF Store, Renew, Select, Goto, At, RetryFresh, RetryPending, LockHeld, TypeOK
        <3>2. CASE loaded = <<>> /\ resolvers # <<>> /\ FallBack(g)
            BY <2>5, <3>2 DEF Store, FallBack, Select, Goto, At, RetryFresh, RetryPending, LockHeld, TypeOK
        <3>3. CASE loaded = <<>> /\ Fail(g) /\ UNCHANGED <<resolvers, fresh, readAt, asked>>
            <4>1. PICK place \in {"idle", "ended"} : Return(g, place)
                BY <3>3 DEF Fail, Answer
            <4>2. Returned(g)
                BY <4>1, ReturnTypes
            <4>3. QED
                BY <2>5, <3>3, <4>2 DEF Returned, Store, At, RetryFresh, RetryPending, LockHeld, TypeOK
        <3>4. QED
            BY <2>5, <3>1, <3>2, <3>3 DEF Store
    <2>6. CASE Dial(g)
        BY <2>6 DEF Dial, NextServer, Goto, At, cacheVars, historyVars, RetryFresh, RetryPending, LockHeld, TypeOK
    <2>7. CASE Receive(g)
        <3>1. CASE Answer(g) /\ UNCHANGED asked
            <4>1. PICK place \in {"idle", "ended"} : Return(g, place)
                BY <3>1 DEF Fail, Answer
            <4>2. Returned(g)
                BY <4>1, ReturnTypes
            <4>3. QED
                BY <2>7, <3>1, <4>2 DEF Returned, Receive, At, cacheVars, RetryFresh, RetryPending, LockHeld, TypeOK
        <3>2. CASE ~Answer(g)
            BY <2>7, <3>2 DEF Receive, NextServer, Goto, At, cacheVars, historyVars, RetryFresh, RetryPending, LockHeld, TypeOK
        <3>3. QED
            BY <2>7, <3>1, <3>2 DEF Receive
    <2>8. CASE Exhausted(g)
        <3>1. CASE (pass[g] = 2 \/ CtxDone(g)) /\ Fail(g) /\ UNCHANGED asked
            <4>1. PICK place \in {"idle", "ended"} : Return(g, place)
                BY <3>1 DEF Fail, Answer
            <4>2. Returned(g)
                BY <4>1, ReturnTypes
            <4>3. QED
                BY <2>8, <3>1, <4>2 DEF Returned, Exhausted, At, cacheVars, RetryFresh, RetryPending, LockHeld, TypeOK
        <3>2. CASE pass[g] = 1 /\ ~CtxDone(g)
            <4>1. /\ pc' = [pc EXCEPT ![g] = "invalidate"]
                  /\ failedAt' = [failedAt EXCEPT ![g] = config]
                  /\ from' = [from EXCEPT ![g] = 0]
                  /\ UNCHANGED <<cacheVars, queryVars, fellBack>>
                BY <2>8, <3>2 DEF Exhausted, Goto, TypeOK, Fail
            <4>2. QED
                BY <2>8, <3>2, <4>1 DEF cacheVars, queryVars, RetryFresh, RetryPending, LockHeld, TypeOK
        <3>3. QED
            BY <2>8, <3>1, <3>2 DEF Exhausted
    <2>9. CASE Invalidate(g)
        BY <2>9 DEF Invalidate, Goto, At, RetryFresh, RetryPending, LockHeld, TypeOK
    <2>10. CASE Expire(g)
        BY <2>10 DEF Expire, Serving, cacheVars, historyVars, RetryFresh, RetryPending, LockHeld, TypeOK
    <2>11. QED
        BY <1>4, <2>1, <2>2, <2>3, <2>4, <2>5, <2>6, <2>7, <2>8, <2>9, <2>10 DEF Step
<1>5. CASE UNCHANGED vars
    BY <1>5 DEF vars, cacheVars, queryVars, historyVars, RetryFresh, RetryPending, LockHeld, TypeOK
<1>6. QED
    BY <1>1, <1>2, <1>3, <1>4, <1>5 DEF Next

\* The invariant holds in every reachable state.
THEOREM Invariance == Spec => []IInv
<1>1. Init => IInv
    BY InitIInv
<1>2. IInv /\ [Next]_vars => IInv'
    BY StepTypeOK, StepLockHeld, StepNothingLoaded, StepRetryPending, StepRetryFresh DEF IInv
<1>3. QED
    BY <1>1, <1>2, PTL DEF Spec

\* Type correctness of the DNS flows and the resolver cache.
THEOREM TypeCorrect == Spec => []TypeOK
<1>1. IInv => TypeOK
    BY DEF IInv
<1>2. QED
    BY <1>1, Invariance, PTL

\* A retry never goes to a list older than the failure it answers to: for any
\* number of flows that load and invalidate, and any changes of the configuration.
THEOREM RetriesFresh == Spec => []RetryFresh
<1>1. IInv => RetryFresh
    BY DEF IInv
<1>2. QED
    BY <1>1, Invariance, PTL

-----------------------------------------------------------------------------
(* What ParseScutilDNS and selectResolver compute, for every report and    *)
(* every name.                                                             *)

\* The records of the parser over a set of values, and a line of a report.
ResolverOf(V) == [domains : Seq(V), servers : Seq(V), order : Int]
BlockOf(V) == [seen : BOOLEAN, domains : Seq(V), servers : Seq(V), order : Int]
LoopOf(V) == [resolvers : Seq(ResolverOf(V)), block : BlockOf(V)]
IsLine(V, line) == line.value \in V /\ (line.key = "order" => line.value \in Int)

\* The block before the first one.
LEMMA EmptyTypes == ASSUME NEW V PROVE EmptyBlock \in BlockOf(V)
<1>1. <<>> \in Seq(V)  OBVIOUS
<1>2. QED  BY <1>1 DEF EmptyBlock, BlockOf

\* A line added to a block leaves a block.
LEMMA AddLineTypes ==
    ASSUME NEW V, NEW block \in BlockOf(V), NEW line, IsLine(V, line)
    PROVE  AddLine(block, line) \in BlockOf(V)
<1>1. CASE ~block.seen  BY <1>1 DEF AddLine
<1>2. CASE block.seen /\ line.key = "domain"
  <2>1. AddLine(block, line) \in {block, [block EXCEPT !.domains = Append(@, line.value)]}
    BY <1>2 DEF AddLine
  <2>2. Append(block.domains, line.value) \in Seq(V)  BY DEF BlockOf, IsLine
  <2>3. [block EXCEPT !.domains = Append(@, line.value)] \in BlockOf(V)  BY <2>2 DEF BlockOf
  <2>4. QED  BY <2>1, <2>3
<1>3. CASE block.seen /\ line.key = "nameserver"
  <2>1. AddLine(block, line) \in {block, [block EXCEPT !.servers = Append(@, line.value)]}
    BY <1>3 DEF AddLine
  <2>2. Append(block.servers, line.value) \in Seq(V)  BY DEF BlockOf, IsLine
  <2>3. [block EXCEPT !.servers = Append(@, line.value)] \in BlockOf(V)  BY <2>2 DEF BlockOf
  <2>4. QED  BY <2>1, <2>3
<1>4. CASE block.seen /\ line.key = "order"
  <2>1. AddLine(block, line) = [block EXCEPT !.order = line.value]
    BY <1>4 DEF AddLine
  <2>2. QED  BY <1>4, <2>1 DEF BlockOf, IsLine
<1>5. CASE line.key \notin {"domain", "nameserver", "order"}  BY <1>5 DEF AddLine
<1>6. QED  BY <1>1, <1>2, <1>3, <1>4, <1>5 DEF BlockOf

\* A flushed block leaves a list of resolvers.
LEMMA FlushTypes ==
    ASSUME NEW V, NEW list \in Seq(ResolverOf(V)), NEW block \in BlockOf(V)
    PROVE  Flush(list, block) \in Seq(ResolverOf(V))
<1>1. [domains |-> block.domains, servers |-> block.servers, order |-> block.order]
        \in ResolverOf(V)
  BY DEF ResolverOf, BlockOf
<1>2. QED  BY <1>1 DEF Flush

\* A turn of the parser's loop.
LEMMA NextLineTypes ==
    ASSUME NEW V, NEW acc \in LoopOf(V), NEW line, IsLine(V, line)
    PROVE  NextLine(acc, line) \in LoopOf(V)
<1>1. acc.resolvers \in Seq(ResolverOf(V)) /\ acc.block \in BlockOf(V)  BY DEF LoopOf
<1>2. CASE line.key = "resolver"
  <2>1. Flush(acc.resolvers, acc.block) \in Seq(ResolverOf(V))  BY <1>1, FlushTypes
  <2>2. [EmptyBlock EXCEPT !.seen = TRUE] \in BlockOf(V)  BY EmptyTypes DEF BlockOf
  <2>3. QED  BY <1>2, <2>1, <2>2 DEF NextLine, LoopOf
<1>3. CASE line.key # "resolver"
  <2>1. AddLine(acc.block, line) \in BlockOf(V)  BY <1>1, AddLineTypes
  <2>2. QED  BY <1>3, <2>1 DEF NextLine, LoopOf
<1>4. QED  BY <1>2, <1>3

\* The lines of a report.
LEMMA ReportLines ==
    ASSUME NEW report, IsReport(report)
    PROVE  /\ Len(report) \in Nat
           /\ \A i \in 1 .. Len(report) :
                 /\ IsLine({line.value : line \in ToSet(report)}, report[i])
                 /\ report[i].key = "domain" => Len(report[i].value) \in Nat
<1>1. report \in Seq(ToSet(report))  BY DEF IsReport
<1>2. Len(report) \in Nat  BY <1>1
<1>3. ASSUME NEW i \in 1 .. Len(report) PROVE report[i] \in ToSet(report)  BY <1>1
<1>4. ASSUME NEW i \in 1 .. Len(report), report[i].key = "domain"
      PROVE  Len(report[i].value) \in Nat
  <2>1. report[i].value \in Seq(ToSet(report[i].value))  BY <1>3, <1>4 DEF IsReport
  <2>2. QED  BY <2>1
<1>5. QED  BY <1>2, <1>3, <1>4 DEF IsReport, IsLine

\* The states of the parser's loop.
LEMMA ParserStates ==
    ASSUME NEW report, IsReport(report)
    PROVE  \E a \in [0 .. Len(report) -> LoopOf({line.value : line \in ToSet(report)})] :
              /\ a[0] = [resolvers |-> <<>>, block |-> EmptyBlock]
              /\ \A i \in 1 .. Len(report) : a[i] = NextLine(a[i - 1], report[i])
              /\ Collected(report) = a[Len(report)]
<1> DEFINE V == {line.value : line \in ToSet(report)}
<1>0. Len(report) \in Nat /\ \A i \in 1 .. Len(report) : IsLine(V, report[i])  BY ReportLines
<1>1. PICK n \in Nat : n = Len(report)  BY <1>0
<1> HIDE DEF V
<1>2. PICK S : S = LoopOf(V)  OBVIOUS
<1>3. PICK first \in S : first = [resolvers |-> <<>>, block |-> EmptyBlock]
  <2>1. EmptyBlock \in BlockOf(V)  BY EmptyTypes
  <2>2. <<>> \in Seq(ResolverOf(V))  OBVIOUS
  <2>3. QED  BY <1>2, <2>1, <2>2 DEF LoopOf
<1>4. PICK turn : turn = [i \in 1 .. n |-> [acc \in S |-> NextLine(acc, report[i])]]  OBVIOUS
<1>5. ASSUME NEW i \in 1 .. n, NEW acc \in S PROVE NextLine(acc, report[i]) \in S
  BY <1>0, <1>1, <1>2, <1>5, NextLineTypes
<1>6. turn \in Turns(n, S)  BY <1>4, <1>5 DEF Turns
<1>7. PICK a \in [0 .. n -> S] : a[0] = first /\ \A i \in 1 .. n : a[i] = turn[i][a[i - 1]]
  BY <1>6, LoopStates
<1>8. ASSUME NEW i \in 1 .. n PROVE a[i] = NextLine(a[i - 1], report[i])
  <2>1. i - 1 \in 0 .. n  OBVIOUS
  <2>2. a[i - 1] \in S  BY <1>7, <2>1
  <2>3. QED  BY <1>4, <1>7, <2>2
<1> DEFINE G(g) == g = [i \in 0 .. n |-> IF i = 0 THEN first ELSE NextLine(g[i - 1], report[i])]
<1>9. G(a)  BY <1>7, <1>8
<1>10. Collected(report) = (CHOOSE g : G(g))[n]  BY <1>1, <1>3 DEF Collected
<1>11. PICK g : G(g) /\ Collected(report) = g[n]  BY <1>9, <1>10
<1>12. ASSUME NEW i \in 1 .. n, g[i - 1] = a[i - 1] PROVE g[i] = a[i]
  BY <1>8, <1>11, <1>12
<1>13. g[0] = a[0]  BY <1>7, <1>11
<1>14. n \in {i \in 0 .. n : g[i] = a[i]}
  <2> DEFINE P == {i \in 0 .. n : g[i] = a[i]}
  <2>1. 0 \in P  BY <1>13
  <2>2. \A i \in 1 .. n : i - 1 \in P => i \in P  BY <1>12
  <2> HIDE DEF P
  <2>3. \A i \in 0 .. n : i \in P  BY <2>1, <2>2, InductionUpTo
  <2>4. QED  BY <2>3 DEF P
<1>15. QED  BY <1>1, <1>2, <1>3, <1>7, <1>8, <1>11, <1>14 DEF V

\* A set of integers with a bound has a greatest element.
LEMMA MaxOf ==
    ASSUME NEW S, S \subseteq Int, S # {}, NEW bound \in Int, \A x \in S : x <= bound
    PROVE  Max(S) \in S /\ \A x \in S : x <= Max(S)
<1> DEFINE T == {bound - x : x \in S}
<1>1. T \subseteq Nat /\ T # {}
  <2>1. \A x \in S : bound - x \in Nat  OBVIOUS
  <2>2. PICK x \in S : TRUE  OBVIOUS
  <2>3. bound - x \in T  OBVIOUS
  <2>4. QED  BY <2>1, <2>3
<1>2. PICK d \in T : \A e \in T : d <= e  BY <1>1, Least
<1>3. PICK m \in S : d = bound - m  BY <1>2
<1>4. ASSUME NEW x \in S PROVE m >= x
  <2>1. bound - x \in T  OBVIOUS
  <2>2. d <= bound - x  BY <1>2, <2>1
  <2>3. QED  BY <1>3, <2>2
<1>5. QED  BY <1>3, <1>4 DEF Max

\* The least of the numbers up to a bound.
LEMMA MinOf ==
    ASSUME NEW S, S \subseteq Nat, S # {}
    PROVE  Min(S) \in S /\ \A x \in S : Min(S) <= x
BY Least DEF Min

-----------------------------------------------------------------------------

Opens(report, i) == report[i].key = "resolver"

\* The lines i to n are in one block.
Within(report, i, n) ==
    /\ i \in 1 .. n /\ n \in 1 .. Len(report) /\ Opens(report, i)
    /\ \A k \in i + 1 .. n : ~Opens(report, k)

\* They are all of it.
Whole(report, i, e) == Within(report, i, e) /\ (e = Len(report) \/ Opens(report, e + 1))

\* A resolver, or the block it is made from, has what the lines i to n say.
Reflects(r, report, i, n) ==
    /\ ToSet(r.domains) = Values(report, i .. n, "domain")
    /\ ToSet(r.servers) = Values(report, i .. n, "nameserver") \cap IPv4
    /\ r.order = OrderOf(report, i .. n)

\* The elements of a longer list.
LEMMA AppendElements ==
    ASSUME NEW V, NEW s \in Seq(V), NEW x
    PROVE  ToSet(Append(s, x)) = ToSet(s) \cup {x}
<1>1. Len(s) \in Nat /\ DOMAIN s = 1 .. Len(s) /\ DOMAIN Append(s, x) = 1 .. Len(s) + 1
  OBVIOUS
<1>2. \A i \in 1 .. Len(s) : Append(s, x)[i] = s[i]  OBVIOUS
<1>3. Append(s, x)[Len(s) + 1] = x  OBVIOUS
<1>4. QED  BY <1>1, <1>2, <1>3 DEF ToSet

\* One line more, with the key.
LEMMA TakenLine ==
    ASSUME NEW report, NEW i \in Nat, NEW n \in Nat, i <= n + 1, NEW key, report[n + 1].key = key
    PROVE  \A x : x \in Values(report, i .. n + 1, key)
                    <=> x \in Values(report, i .. n, key) \/ x = report[n + 1].value
<1>1. i .. n + 1 = (i .. n) \cup {n + 1}  OBVIOUS
<1>2. Lines(report, i .. n + 1, key) = Lines(report, i .. n, key) \cup {n + 1}
  BY <1>1 DEF Lines
<1>3. QED  BY <1>2 DEF Values

\* One line more, with another key.
LEMMA PassedLine ==
    ASSUME NEW report, NEW i \in Nat, NEW n \in Nat, i <= n + 1, NEW key, report[n + 1].key # key
    PROVE  /\ Lines(report, i .. n + 1, key) = Lines(report, i .. n, key)
           /\ Values(report, i .. n + 1, key) = Values(report, i .. n, key)
<1>1. i .. n + 1 = (i .. n) \cup {n + 1}  OBVIOUS
<1>2. Lines(report, i .. n + 1, key) = Lines(report, i .. n, key)  BY <1>1 DEF Lines
<1>3. QED  BY <1>2 DEF Values

\* The last line about the order decides.
LEMMA MoreOrder ==
    ASSUME NEW report, NEW i \in Nat, NEW n \in Nat, i <= n + 1
    PROVE  OrderOf(report, i .. n + 1)
             = IF report[n + 1].key = "order" THEN report[n + 1].value ELSE OrderOf(report, i .. n)
<1> DEFINE L == Lines(report, i .. n + 1, "order")
<1>1. CASE report[n + 1].key = "order"
  <2>1. n + 1 \in L /\ L \subseteq Int /\ \A x \in L : x <= n + 1  BY <1>1 DEF Lines
  <2> HIDE DEF L
  <2>2. Max(L) \in L /\ \A x \in L : x <= Max(L)  BY <2>1, MaxOf
  <2>3. Max(L) = n + 1
    <3>1. Max(L) \in Int /\ Max(L) <= n + 1 /\ n + 1 <= Max(L)  BY <2>1, <2>2
    <3>2. QED  BY <3>1
  <2>4. L # {}  BY <2>1
  <2>5. QED  BY <1>1, <2>3, <2>4 DEF OrderOf, L
<1>2. CASE report[n + 1].key # "order"
  <2>1. L = Lines(report, i .. n, "order")  BY <1>2, PassedLine
  <2>2. QED  BY <1>2, <2>1 DEF OrderOf
<1>3. QED  BY <1>1, <1>2

\* A block that is opened has no line yet.
LEMMA OpenedBlock ==
    ASSUME NEW report, NEW i \in Nat, Opens(report, i)
    PROVE  Reflects([EmptyBlock EXCEPT !.seen = TRUE], report, i, i)
<1>1. i .. i = {i}  OBVIOUS
<1>2. /\ Lines(report, i .. i, "domain") = {} /\ Lines(report, i .. i, "nameserver") = {}
      /\ Lines(report, i .. i, "order") = {}
  BY <1>1 DEF Lines, Opens
<1>3. Values(report, i .. i, "domain") = {} /\ Values(report, i .. i, "nameserver") = {}
  BY <1>2 DEF Values
<1>4. OrderOf(report, i .. i) = 0  BY <1>2 DEF OrderOf
<1>5. ToSet(<<>>) = {}  BY DEF ToSet
<1>6. QED  BY <1>3, <1>4, <1>5 DEF Reflects, EmptyBlock

\* AddLine takes in the next line.
LEMMA AddedLine ==
    ASSUME NEW report, NEW V, NEW i \in Nat, NEW n \in Nat, i <= n + 1,
           NEW block \in BlockOf(V), block.seen, Reflects(block, report, i, n),
           IsLine(V, report[n + 1])
    PROVE  Reflects(AddLine(block, report[n + 1]), report, i, n + 1)
<1> DEFINE line == report[n + 1]
           b == AddLine(block, line)
<1>0. block.domains \in Seq(V) /\ block.servers \in Seq(V)  BY DEF BlockOf
<1>1. ToSet(b.domains) = Values(report, i .. n + 1, "domain")
  <2>1. CASE line.key = "domain"
    <3>1. Values(report, i .. n + 1, "domain") = ToSet(block.domains) \cup {line.value}
      <4>1. \A x : x \in Values(report, i .. n + 1, "domain")
                     <=> x \in Values(report, i .. n, "domain") \/ x = line.value
        BY <2>1, TakenLine
      <4>2. QED  BY <2>1, <4>1 DEF Reflects
    <3>2. CASE Contains(block.domains, line.value)
      <4>1. b.domains = block.domains  BY <2>1, <3>2 DEF AddLine
      <4>2. line.value \in ToSet(block.domains)  BY <1>0, <3>2 DEF Contains, ToSet
      <4>3. QED  BY <3>1, <4>1, <4>2
    <3>3. CASE ~Contains(block.domains, line.value)
      <4>1. b.domains = Append(block.domains, line.value)
        BY <2>1, <3>3 DEF AddLine, BlockOf
      <4>2. QED  BY <1>0, <3>1, <4>1, AppendElements
    <3>4. QED  BY <3>2, <3>3
  <2>2. CASE line.key # "domain"
    <3>1. b.domains = block.domains  BY <2>2 DEF AddLine, BlockOf
    <3>2. QED  BY <2>2, <3>1, PassedLine DEF Reflects
  <2>3. QED  BY <2>1, <2>2
<1>2. ToSet(b.servers) = Values(report, i .. n + 1, "nameserver") \cap IPv4
  <2>1. CASE line.key = "nameserver"
    <3>1. Values(report, i .. n + 1, "nameserver")
            = Values(report, i .. n, "nameserver") \cup {line.value}
      <4>1. \A x : x \in Values(report, i .. n + 1, "nameserver")
                     <=> x \in Values(report, i .. n, "nameserver") \/ x = line.value
        BY <2>1, TakenLine
      <4>2. QED  BY <2>1, <4>1
    <3>2. CASE line.value \in IPv4
      <4>1. b.servers = Append(block.servers, line.value)
        BY <2>1, <3>2 DEF AddLine, BlockOf
      <4>2. ToSet(b.servers) = ToSet(block.servers) \cup {line.value}
        BY <1>0, <4>1, AppendElements
      <4>3. QED  BY <3>1, <3>2, <4>2 DEF Reflects
    <3>3. CASE line.value \notin IPv4
      <4>1. b.servers = block.servers  BY <2>1, <3>3 DEF AddLine
      <4>2. QED  BY <3>1, <3>3, <4>1 DEF Reflects
    <3>4. QED  BY <3>2, <3>3
  <2>2. CASE line.key # "nameserver"
    <3>1. b.servers = block.servers  BY <2>2 DEF AddLine, BlockOf
    <3>2. QED  BY <2>2, <3>1, PassedLine DEF Reflects
  <2>3. QED  BY <2>1, <2>2
<1>3. b.order = OrderOf(report, i .. n + 1)
  <2>1. CASE line.key = "order"
    <3>1. b.order = line.value  BY <2>1 DEF AddLine, BlockOf
    <3>2. QED  BY <2>1, <3>1, MoreOrder
  <2>2. CASE line.key # "order"
    <3>1. b.order = block.order  BY <2>2 DEF AddLine, BlockOf
    <3>2. QED  BY <2>2, <3>1, MoreOrder DEF Reflects
  <2>3. QED  BY <2>1, <2>2
<1>4. QED  BY <1>1, <1>2, <1>3 DEF Reflects

\* Every resolver of a list comes from a block, with a nameserver.
Sound(list, report) ==
    \A r \in ToSet(list) :
        /\ r.servers # <<>>
        /\ \E i, e \in 1 .. Len(report) : Whole(report, i, e) /\ Reflects(r, report, i, e)

\* Every block that can be used and ends by line m is in the list.
Full(list, report, m) ==
    \A i, e \in 1 .. Len(report) :
        Whole(report, i, e) /\ e <= m /\ Values(report, i .. e, "nameserver") \cap IPv4 # {}
            => \E r \in ToSet(list) : Reflects(r, report, i, e)

\* The block the parser is in after n lines.
Current(block, report, n) ==
    /\ ~block.seen => \A i \in 1 .. n : ~Opens(report, i)
    /\ block.seen => \E i \in 1 .. n : Within(report, i, n) /\ Reflects(block, report, i, n)

\* flush takes over the block that has ended.
LEMMA FlushedBlock ==
    ASSUME NEW report, NEW V, NEW list \in Seq(ResolverOf(V)), NEW block \in BlockOf(V),
           Len(report) \in Nat, NEW n \in 0 .. Len(report),
           n = Len(report) \/ Opens(report, n + 1),
           Sound(list, report), Full(list, report, n - 1), Current(block, report, n)
    PROVE  Sound(Flush(list, block), report) /\ Full(Flush(list, block), report, n)
<1> DEFINE r == [domains |-> block.domains, servers |-> block.servers, order |-> block.order]
<1>1. CASE ~block.seen
  <2>1. Flush(list, block) = list  BY <1>1 DEF Flush
  <2>2. Full(list, report, n)
    <3> SUFFICES ASSUME NEW i \in 1 .. Len(report), NEW e \in 1 .. Len(report),
                        Whole(report, i, e), e <= n
                 PROVE  e <= n - 1
      BY DEF Full
    <3>1. i \in 1 .. n /\ Opens(report, i)  BY DEF Whole, Within
    <3>2. QED  BY <1>1, <3>1 DEF Current
  <2>3. QED  BY <2>1, <2>2
<1>2. CASE block.seen
  <2>1. PICK i \in 1 .. n : Within(report, i, n) /\ Reflects(block, report, i, n)
    BY <1>2 DEF Current
  <2>2. Whole(report, i, n) /\ i \in 1 .. Len(report) /\ n \in 1 .. Len(report)
    BY <2>1 DEF Whole
  <2>3. ASSUME NEW j \in 1 .. Len(report), Whole(report, j, n) PROVE j = i
    <3>1. j \in 1 .. n /\ Opens(report, j) /\ \A k \in j + 1 .. n : ~Opens(report, k)
      BY <2>3 DEF Whole, Within
    <3>2. i \in 1 .. n /\ Opens(report, i) /\ \A k \in i + 1 .. n : ~Opens(report, k)
      BY <2>1 DEF Within
    <3>3. ~(j > i) /\ ~(i > j)  BY <3>1, <3>2
    <3>4. QED  BY <3>3
  <2>4. block.servers \in Seq(V) /\ ToSet(block.servers) = Values(report, i .. n, "nameserver") \cap IPv4
    BY <2>1 DEF Reflects, BlockOf
  <2>5. CASE block.servers = <<>>
    <3>1. Flush(list, block) = list  BY <2>5 DEF Flush
    <3>2. ToSet(block.servers) = {}  BY <2>5 DEF ToSet
    <3>3. Full(list, report, n)
      <4> SUFFICES ASSUME NEW j \in 1 .. Len(report), NEW e \in 1 .. Len(report),
                          Whole(report, j, e), e <= n,
                          Values(report, j .. e, "nameserver") \cap IPv4 # {}
                   PROVE  e <= n - 1
        BY DEF Full
      <4>1. CASE e = n  BY <2>3, <2>4, <3>2, <4>1
      <4>2. QED  BY <4>1
    <3>4. QED  BY <3>1, <3>3
  <2>6. CASE block.servers # <<>>
    <3>1. Flush(list, block) = Append(list, r)  BY <1>2, <2>6 DEF Flush
    <3>2. ToSet(Append(list, r)) = ToSet(list) \cup {r}  BY AppendElements
    <3>3. Reflects(r, report, i, n) /\ r.servers # <<>>  BY <2>1, <2>6 DEF Reflects
    <3> HIDE DEF r
    <3>4. Sound(Append(list, r), report)  BY <2>2, <3>2, <3>3 DEF Sound
    <3>5. Full(Append(list, r), report, n)
      <4> SUFFICES ASSUME NEW j \in 1 .. Len(report), NEW e \in 1 .. Len(report),
                          Whole(report, j, e), e <= n,
                          Values(report, j .. e, "nameserver") \cap IPv4 # {}
                   PROVE  \E q \in ToSet(list) \cup {r} : Reflects(q, report, j, e)
        BY <3>2 DEF Full
      <4>1. CASE e = n  BY <2>3, <3>3, <4>1
      <4>2. CASE e # n
        <5>1. e <= n - 1  BY <4>2
        <5>2. QED  BY <5>1 DEF Full
      <4>3. QED  BY <4>1, <4>2
    <3>6. QED  BY <3>1, <3>4, <3>5
  <2>7. QED  BY <2>5, <2>6
<1>3. QED  BY <1>1, <1>2 DEF BlockOf

\* The parser's loop after n lines.
Parsed(acc, report, n) ==
    Sound(acc.resolvers, report) /\ Full(acc.resolvers, report, n - 1) /\ Current(acc.block, report, n)

\* A turn of the loop.
LEMMA ParsedLine ==
    ASSUME NEW report, NEW V, NEW acc \in LoopOf(V), Len(report) \in Nat,
           NEW n \in 1 .. Len(report), IsLine(V, report[n]), Parsed(acc, report, n - 1)
    PROVE  Parsed(NextLine(acc, report[n]), report, n)
<1> DEFINE line == report[n]
           next == NextLine(acc, line)
<1>0. acc.resolvers \in Seq(ResolverOf(V)) /\ acc.block \in BlockOf(V) /\ n - 1 \in 0 .. Len(report)
  BY DEF LoopOf
<1>1. CASE Opens(report, n)
  <2>1. /\ next.resolvers = Flush(acc.resolvers, acc.block)
        /\ next.block = [EmptyBlock EXCEPT !.seen = TRUE]
    BY <1>1 DEF NextLine, Opens
  <2>2. Opens(report, (n - 1) + 1)  BY <1>1
  <2>3. /\ Sound(Flush(acc.resolvers, acc.block), report)
        /\ Full(Flush(acc.resolvers, acc.block), report, n - 1)
    <3>1. PICK m \in 0 .. Len(report) : m = n - 1  BY <1>0
    <3>2. /\ Sound(acc.resolvers, report) /\ Full(acc.resolvers, report, m - 1)
          /\ Current(acc.block, report, m) /\ Opens(report, m + 1)
      BY <2>2, <3>1 DEF Parsed
    <3>3. /\ Sound(Flush(acc.resolvers, acc.block), report)
          /\ Full(Flush(acc.resolvers, acc.block), report, m)
      BY <1>0, <3>2, FlushedBlock
    <3>4. QED  BY <3>1, <3>3
  <2>4. Reflects(next.block, report, n, n)
    <3>1. n \in Nat  OBVIOUS
    <3>2. Reflects([EmptyBlock EXCEPT !.seen = TRUE], report, n, n)  BY <1>1, <3>1, OpenedBlock
    <3>3. QED  BY <2>1, <3>2
  <2>5. Within(report, n, n)  BY <1>1 DEF Within
  <2>6. next.block.seen  BY <2>1 DEF EmptyBlock
  <2>7. Current(next.block, report, n)  BY <2>4, <2>5, <2>6 DEF Current
  <2>8. QED  BY <2>1, <2>3, <2>7 DEF Parsed
<1>2. CASE ~Opens(report, n)
  <2>1. next.resolvers = acc.resolvers /\ next.block = AddLine(acc.block, line)
    BY <1>2 DEF NextLine, Opens, LoopOf
  <2>2. Full(acc.resolvers, report, n - 1)
    <3> SUFFICES ASSUME NEW i \in 1 .. Len(report), NEW e \in 1 .. Len(report),
                        Whole(report, i, e), e <= n - 1
                 PROVE  e <= (n - 1) - 1
      BY DEF Full, Parsed
    <3>1. CASE e = n - 1
      <4>1. e + 1 = n /\ e # Len(report)  BY <3>1
      <4>2. QED  BY <1>2, <4>1 DEF Whole
    <3>2. QED  BY <3>1
  <2>3. Current(next.block, report, n)
    <3>1. CASE ~acc.block.seen
      <4>1. next.block = acc.block  BY <2>1, <3>1 DEF AddLine
      <4>2. \A i \in 1 .. n - 1 : ~Opens(report, i)  BY <3>1 DEF Parsed, Current
      <4>3. \A i \in 1 .. n : ~Opens(report, i)  BY <1>2, <4>2
      <4>4. QED  BY <3>1, <4>1, <4>3 DEF Current
    <3>2. CASE acc.block.seen
      <4>1. PICK i \in 1 .. n - 1 : Within(report, i, n - 1) /\ Reflects(acc.block, report, i, n - 1)
        BY <3>2 DEF Parsed, Current
      <4>2. (n - 1) + 1 = n /\ i \in Nat /\ n - 1 \in Nat /\ i <= (n - 1) + 1 /\ i \in 1 .. n  OBVIOUS
      <4>3. IsLine(V, report[(n - 1) + 1])  BY <4>2
      <4>4. Reflects(AddLine(acc.block, report[(n - 1) + 1]), report, i, (n - 1) + 1)
        BY <1>0, <3>2, <4>1, <4>2, <4>3, AddedLine
      <4>5. Reflects(next.block, report, i, n)  BY <2>1, <4>2, <4>4
      <4>6. Within(report, i, n)
        <5>1. Opens(report, i) /\ \A k \in i + 1 .. n - 1 : ~Opens(report, k)  BY <4>1 DEF Within
        <5>2. \A k \in i + 1 .. n : ~Opens(report, k)  BY <1>2, <5>1
        <5>3. QED  BY <4>2, <5>1, <5>2 DEF Within
      <4>7. next.block.seen
        BY <1>0, <2>1, <3>2 DEF AddLine, BlockOf
      <4>8. QED  BY <4>2, <4>5, <4>6, <4>7 DEF Current
    <3>3. QED  BY <1>0, <3>1, <3>2 DEF BlockOf
  <2>4. QED  BY <2>1, <2>2, <2>3 DEF Parsed
<1>3. QED  BY <1>1, <1>2

\* The parser's list has exactly the blocks that can be used.
LEMMA ParserList ==
    ASSUME NEW report, IsReport(report)
    PROVE  LET end == Collected(report)
               list == Flush(end.resolvers, end.block)
           IN  /\ list \in Seq(ResolverOf({line.value : line \in ToSet(report)}))
               /\ Sound(list, report) /\ Full(list, report, Len(report))
<1> DEFINE V == {line.value : line \in ToSet(report)}
<1>1. Len(report) \in Nat /\ \A i \in 1 .. Len(report) : IsLine(V, report[i])  BY ReportLines
<1>2. PICK a \in [0 .. Len(report) -> LoopOf(V)] :
        /\ a[0] = [resolvers |-> <<>>, block |-> EmptyBlock]
        /\ \A i \in 1 .. Len(report) : a[i] = NextLine(a[i - 1], report[i])
        /\ Collected(report) = a[Len(report)]
  BY ParserStates
<1> HIDE DEF V
<1> DEFINE P == {n \in 0 .. Len(report) : Parsed(a[n], report, n)}
<1>3. 0 \in P
  <2>1. ToSet(<<>>) = {}  BY DEF ToSet
  <2>2. Sound(<<>>, report)  BY <2>1 DEF Sound
  <2>3. Full(<<>>, report, -1)  BY <1>1 DEF Full
  <2>4. Current(EmptyBlock, report, 0)  BY DEF Current, EmptyBlock
  <2>5. a[0].resolvers = <<>> /\ a[0].block = EmptyBlock  BY <1>2
  <2>6. 0 - 1 = -1 /\ 0 \in 0 .. Len(report)  BY <1>1
  <2>7. Parsed(a[0], report, 0)  BY <2>2, <2>3, <2>4, <2>5, <2>6 DEF Parsed
  <2>8. QED  BY <2>6, <2>7
<1>4. ASSUME NEW n \in 1 .. Len(report), n - 1 \in P PROVE n \in P
  <2>1. n - 1 \in 0 .. Len(report) /\ n \in 0 .. Len(report)  BY <1>1
  <2>2. a[n - 1] \in LoopOf(V) /\ Parsed(a[n - 1], report, n - 1)  BY <1>2, <1>4, <2>1
  <2>3. IsLine(V, report[n])  BY <1>1
  <2>4. Parsed(NextLine(a[n - 1], report[n]), report, n)  BY <1>1, <2>2, <2>3, ParsedLine
  <2>5. Parsed(a[n], report, n)  BY <1>2, <2>4
  <2>6. QED  BY <2>1, <2>5
<1>5. Len(report) \in P
  <2> HIDE DEF P
  <2>1. \A n \in 0 .. Len(report) : n \in P  BY <1>1, <1>3, <1>4, InductionUpTo
  <2>2. QED  BY <1>1, <2>1
<1>6. Parsed(Collected(report), report, Len(report)) /\ Collected(report) \in LoopOf(V)
  BY <1>1, <1>2, <1>5
<1>7. Collected(report).resolvers \in Seq(ResolverOf(V)) /\ Collected(report).block \in BlockOf(V)
  BY <1>6 DEF LoopOf
<1>8. Flush(Collected(report).resolvers, Collected(report).block) \in Seq(ResolverOf(V))
  BY <1>7, FlushTypes
<1>9. /\ Sound(Flush(Collected(report).resolvers, Collected(report).block), report)
      /\ Full(Flush(Collected(report).resolvers, Collected(report).block), report, Len(report))
  <2>1. Len(report) \in 0 .. Len(report)  BY <1>1
  <2>2. QED  BY <1>1, <1>6, <1>7, <2>1, FlushedBlock DEF Parsed
<1>10. QED  BY <1>8, <1>9 DEF V

\* The blocks of a report are the whole ones.
LEMMA BlocksWhole ==
    ASSUME NEW report, Len(report) \in Nat
    PROVE  /\ \A i, e \in 1 .. Len(report) : Whole(report, i, e) => i .. e \in Blocks(report)
           /\ \A b \in Blocks(report) :
                 \E i, e \in 1 .. Len(report) : Whole(report, i, e) /\ b = i .. e
<1> DEFINE starts == {i \in 1 .. Len(report) : report[i].key = "resolver"}
           later(i) == {j \in starts : j > i} \cup {Len(report) + 1}
<1>1. ASSUME NEW i \in starts
      PROVE  Min(later(i)) \in later(i) /\ \A x \in later(i) : Min(later(i)) <= x
  <2>1. later(i) \subseteq Nat /\ later(i) # {}  OBVIOUS
  <2> HIDE DEF later
  <2>2. QED  BY <2>1, MinOf
<1>2. Blocks(report) = {i .. Min(later(i)) - 1 : i \in starts}  BY DEF Blocks
<1>3. ASSUME NEW i \in 1 .. Len(report), NEW e \in 1 .. Len(report), Whole(report, i, e)
      PROVE  i .. e \in Blocks(report)
  <2>1. i \in starts /\ i <= e  BY <1>3 DEF Whole, Within, Opens
  <2>2. e + 1 \in later(i)  BY <1>3, <2>1 DEF Whole, Opens
  <2>3. ASSUME NEW x \in later(i) PROVE e + 1 <= x
    <3>1. CASE x = Len(report) + 1  BY <3>1
    <3>2. CASE x \in starts /\ x > i
      <4>1. ~(x \in i + 1 .. e)  BY <1>3, <3>2 DEF Whole, Within, Opens
      <4>2. QED  BY <3>2, <4>1
    <3>3. QED  BY <3>1, <3>2
  <2>4. Min(later(i)) \in later(i) /\ \A x \in later(i) : Min(later(i)) <= x  BY <1>1, <2>1
  <2>5. later(i) \subseteq Nat  OBVIOUS
  <2>6. Min(later(i)) \in Nat /\ Min(later(i)) <= e + 1 /\ e + 1 <= Min(later(i))
    BY <2>2, <2>3, <2>4, <2>5
  <2>7. Min(later(i)) - 1 = e  BY <2>6
  <2>8. QED  BY <1>2, <2>1, <2>7
<1>4. ASSUME NEW b \in Blocks(report)
      PROVE  \E i, e \in 1 .. Len(report) : Whole(report, i, e) /\ b = i .. e
  <2>1. PICK i \in starts : b = i .. Min(later(i)) - 1  BY <1>2
  <2>2. Min(later(i)) \in later(i) /\ \A x \in later(i) : Min(later(i)) <= x  BY <1>1
  <2>3. PICK e : e = Min(later(i)) - 1  OBVIOUS
  <2>4. e + 1 \in later(i) /\ (\A x \in later(i) : e + 1 <= x) /\ e \in Int
    <3>1. Min(later(i)) \in Nat  BY <2>2
    <3>2. e + 1 = Min(later(i)) /\ e \in Int  BY <2>3, <3>1
    <3>3. QED  BY <2>2, <3>2
  <2>5. i \in 1 .. Len(report) /\ e \in i .. Len(report)  BY <2>4
  <2>6. ASSUME NEW k \in i + 1 .. e PROVE ~Opens(report, k)
    <3>1. k \in 1 .. Len(report) /\ k > i /\ ~(e + 1 <= k)  BY <2>5
    <3>2. QED  BY <2>4, <3>1 DEF Opens
  <2>7. e = Len(report) \/ Opens(report, e + 1)  BY <2>4 DEF Opens
  <2>8. Whole(report, i, e) /\ e \in 1 .. Len(report)  BY <2>5, <2>6, <2>7 DEF Whole, Within, Opens
  <2>9. QED  BY <2>1, <2>3, <2>5, <2>8
<1>5. QED  BY <1>3, <1>4

\* Insert adds the resolver and keeps the others.
LEMMA InsertTypes ==
    ASSUME NEW V, NEW list \in Seq(ResolverOf(V)), NEW r \in ResolverOf(V)
    PROVE  /\ Insert(list, r) \in Seq(ResolverOf(V))
           /\ \A x : x \in ToSet(Insert(list, r)) <=> x \in ToSet(list) \/ x = r
<1> DEFINE S == {i \in DOMAIN list : list[i].order <= r.order} \cup {0}
<1>1. PICK last \in 0 .. Len(list) : last = Max(S)
  <2>1. Len(list) \in Nat /\ DOMAIN list = 1 .. Len(list)  OBVIOUS
  <2>2. S \subseteq Int /\ S # {} /\ (\A x \in S : x <= Len(list)) /\ S \subseteq 0 .. Len(list)
    BY <2>1
  <2> HIDE DEF S
  <2>3. Len(list) \in Int  BY <2>1
  <2>4. Max(S) \in S  BY <2>2, <2>3, MaxOf
  <2>5. QED  BY <2>2, <2>4
<1> DEFINE t == SubSeq(list, 1, last) \o <<r>> \o SubSeq(list, last + 1, Len(list))
<1>2. Insert(list, r) = t
  <2>1. (last + 1) - 1 = last  OBVIOUS
  <2>2. QED  BY <1>1, <2>1 DEF Insert, InsertAt
<1> DEFINE A == SubSeq(list, 1, last)
           B == SubSeq(list, last + 1, Len(list))
<1>3. A \in Seq(ResolverOf(V)) /\ Len(A) = last /\ \A i \in 1 .. last : A[i] = list[i]  OBVIOUS
<1>4. /\ B \in Seq(ResolverOf(V)) /\ Len(B) = Len(list) - last
      /\ \A i \in 1 .. Len(list) - last : B[i] = list[last + i]
  <2>1. Len(list) \in Nat /\ last + 1 \in 1 .. Len(list) + 1  OBVIOUS
  <2>2. QED  BY <2>1
<1>5. t = A \o <<r>> \o B  OBVIOUS
<1> HIDE DEF A, B, t
<1>6. t \in Seq(ResolverOf(V)) /\ Len(t) = Len(list) + 1  BY <1>3, <1>4, <1>5
<1>7. \A i \in 1 .. last : t[i] = list[i]  BY <1>3, <1>4, <1>5
<1>8. t[last + 1] = r  BY <1>3, <1>4, <1>5
<1>9. ASSUME NEW i \in last + 1 .. Len(list) PROVE t[i + 1] = list[i]
  <2>1. i - last \in 1 .. Len(list) - last /\ i + 1 = (last + 1) + (i - last) /\ last + (i - last) = i
    OBVIOUS
  <2>2. t[i + 1] = B[i - last]  BY <1>3, <1>4, <1>5, <2>1
  <2>3. QED  BY <1>4, <2>1, <2>2
<1>10. ASSUME NEW x \in ToSet(t) PROVE x \in ToSet(list) \/ x = r
  <2>1. PICK i \in 1 .. Len(list) + 1 : x = t[i]  BY <1>6 DEF ToSet
  <2>2. CASE i <= last  BY <1>7, <2>1, <2>2 DEF ToSet
  <2>3. CASE i = last + 1  BY <1>8, <2>1, <2>3
  <2>4. CASE i > last + 1
    <3>1. i - 1 \in last + 1 .. Len(list) /\ (i - 1) + 1 = i  BY <2>4
    <3>2. x = list[i - 1]  BY <1>9, <2>1, <3>1
    <3>3. QED  BY <3>1, <3>2 DEF ToSet
  <2>5. QED  BY <2>2, <2>3, <2>4
<1>11. ASSUME NEW x \in ToSet(list) PROVE x \in ToSet(t)
  <2>1. PICK i \in 1 .. Len(list) : x = list[i]  BY DEF ToSet
  <2>2. CASE i <= last  BY <1>6, <1>7, <2>1, <2>2 DEF ToSet
  <2>3. CASE i > last
    <3>1. x = t[i + 1] /\ i + 1 \in 1 .. Len(t)  BY <1>6, <1>9, <2>1, <2>3
    <3>2. QED  BY <1>6, <3>1 DEF ToSet
  <2>4. QED  BY <2>2, <2>3
<1>12. r \in ToSet(t)
  <2>1. last + 1 \in 1 .. Len(t)  BY <1>6
  <2>2. QED  BY <1>6, <1>8, <2>1 DEF ToSet
<1>13. QED  BY <1>2, <1>6, <1>10, <1>11, <1>12

\* The first n entries of a list.
AreResolvers(list, n, V) == \A i \in 1 .. n : list[i] \in ResolverOf(V)

\* The loop of the sort.
LEMMA SortLoop ==
    ASSUME NEW V, NEW list, NEW n \in Nat, n = Len(list), AreResolvers(list, n, V)
    PROVE  /\ SortByOrder(list) \in Seq(ResolverOf(V))
           /\ \A x : x \in ToSet(SortByOrder(list)) <=> \E k \in 1 .. n : x = list[k]
<1>1. PICK turn, S : /\ S = Seq(ResolverOf(V))
                     /\ turn = [i \in 1 .. n |-> [l \in S |-> Insert(l, list[i])]]
  OBVIOUS
<1>2. S = Seq(ResolverOf(V))  BY <1>1
<1>3. PICK first \in S : first = <<>>
  <2>1. <<>> \in Seq(ResolverOf(V))  OBVIOUS
  <2>2. QED  BY <1>2, <2>1
<1>4. ASSUME NEW i \in 1 .. n, NEW l \in S
      PROVE  /\ Insert(l, list[i]) \in S
             /\ \A x : x \in ToSet(Insert(l, list[i])) <=> x \in ToSet(l) \/ x = list[i]
  BY <1>2, InsertTypes DEF AreResolvers
<1>5. PICK a \in [0 .. n -> S] :
        a[0] = first /\ \A i \in 1 .. n : a[i] = Insert(a[i - 1], list[i])
  <2>1. turn \in Turns(n, S)  BY <1>1, <1>4 DEF Turns
  <2>2. PICK a \in [0 .. n -> S] : a[0] = first /\ \A i \in 1 .. n : a[i] = turn[i][a[i - 1]]
    BY <2>1, LoopStates
  <2>3. ASSUME NEW i \in 1 .. n PROVE a[i] = Insert(a[i - 1], list[i])
    <3>1. i - 1 \in 0 .. n  OBVIOUS
    <3>2. a[i - 1] \in S  BY <2>2, <3>1
    <3>3. QED  BY <1>1, <2>2, <3>2
  <2>4. QED  BY <2>2, <2>3
<1>6. ASSUME NEW i \in 1 .. n PROVE a[i - 1] \in S
  <2>1. i - 1 \in 0 .. n  OBVIOUS
  <2>2. QED  BY <1>5, <2>1
<1> DEFINE G(g) == g = [i \in 0 .. n |-> IF i = 0 THEN first ELSE Insert(g[i - 1], list[i])]
<1>9. G(a)  BY <1>5
<1>10. SortByOrder(list) = (CHOOSE g : G(g))[n]  BY <1>3 DEF SortByOrder
<1>11. PICK g : G(g) /\ SortByOrder(list) = g[n]  BY <1>9, <1>10
<1> DEFINE P == {i \in 0 .. n : /\ g[i] = a[i]
                                /\ \A x : x \in ToSet(a[i]) <=> \E k \in 1 .. i : x = list[k]}
<1>12. 0 \in P
  <2>1. g[0] = a[0] /\ a[0] = <<>>  BY <1>3, <1>5, <1>11
  <2>2. ToSet(<<>>) = {}  BY DEF ToSet
  <2>3. QED  BY <2>1, <2>2
<1>13. ASSUME NEW i \in 1 .. n, i - 1 \in P PROVE i \in P
  <2>1. g[i - 1] = a[i - 1] /\ \A x : x \in ToSet(a[i - 1]) <=> \E k \in 1 .. i - 1 : x = list[k]
    BY <1>13
  <2>2. g[i] = a[i]  BY <1>5, <1>11, <2>1
  <2>3. \A x : x \in ToSet(a[i]) <=> x \in ToSet(a[i - 1]) \/ x = list[i]  BY <1>4, <1>5, <1>6
  <2>4. \A x : (\E k \in 1 .. i : x = list[k]) <=> (\E k \in 1 .. i - 1 : x = list[k]) \/ x = list[i]
    OBVIOUS
  <2>5. QED  BY <2>1, <2>2, <2>3, <2>4
<1>14. n \in P
  <2> HIDE DEF P
  <2>1. \A i \in 0 .. n : i \in P  BY <1>12, <1>13, InductionUpTo
  <2>2. QED  BY <2>1
<1>15. SortByOrder(list) = a[n] /\ a[n] \in S  BY <1>5, <1>11, <1>14
<1>16. \A x : x \in ToSet(a[n]) <=> \E k \in 1 .. n : x = list[k]  BY <1>14
<1>17. QED  BY <1>2, <1>15, <1>16

\* The sorted list has the same resolvers.
LEMMA SortedList ==
    ASSUME NEW V, NEW list \in Seq(ResolverOf(V))
    PROVE  /\ SortByOrder(list) \in Seq(ResolverOf(V))
           /\ \A x : x \in ToSet(SortByOrder(list)) <=> x \in ToSet(list)
<1>1. PICK n \in Nat : n = Len(list)  OBVIOUS
<1>2. AreResolvers(list, n, V)  BY <1>1 DEF AreResolvers
<1>3. \A x : x \in ToSet(list) <=> \E k \in 1 .. n : x = list[k]  BY <1>1 DEF ToSet
<1>4. QED  BY <1>1, <1>2, <1>3, SortLoop

-----------------------------------------------------------------------------

\* What a resolver offers is the best match of its block.
LEMMA OfferMatches ==
    ASSUME NEW report, IsReport(report), NEW V, NEW r \in ResolverOf(V),
           NEW i \in 1 .. Len(report), NEW e \in 1 .. Len(report), Reflects(r, report, i, e),
           NEW question, question \in Seq(ToSet(question))
    PROVE  /\ Matches(report, i .. e, question) \subseteq Nat
           /\ Offer(r, question) \in Int
           /\ \A m \in Matches(report, i .. e, question) : m <= Offer(r, question)
           /\ Offer(r, question) >= 0 => Offer(r, question) \in Matches(report, i .. e, question)
<1> DEFINE D == Values(report, i .. e, "domain")
           M == {Len(d) : d \in {d \in D : IsSuffix(d, question)}}
<1>0. Len(report) \in Nat /\ r.domains \in Seq(V) /\ ToSet(r.domains) = D
  BY ReportLines DEF Reflects, ResolverOf
<1>1. ASSUME NEW d \in D PROVE Len(d) \in Nat
  <2>1. PICK k \in i .. e : report[k].key = "domain" /\ d = report[k].value
    BY <1>1 DEF Values, Lines
  <2>2. k \in 1 .. Len(report)  BY <1>0
  <2>3. QED  BY <2>1, <2>2, ReportLines
<1>2. ASSUME NEW d \in D, IsSuffix(d, question) PROVE Len(d) <= Len(question)
  <2>1. Len(Reverse(d)) <= Len(Reverse(question))  BY <1>2 DEF IsSuffix, IsPrefix
  <2>2. Len(d) \in Nat /\ Len(question) \in Nat  BY <1>1
  <2>3. Len(Reverse(d)) = Len(d) /\ Len(Reverse(question)) = Len(question)  BY <2>2 DEF Reverse
  <2>4. QED  BY <2>1, <2>3
<1>3. M \subseteq Nat /\ \A m \in M : m <= Len(question)  BY <1>1, <1>2
<1>4. CASE r.domains = <<>>
  <2>1. ToSet(<<>>) = {}  BY DEF ToSet
  <2>2. D = {}  BY <1>0, <1>4, <2>1
  <2>3. Matches(report, i .. e, question) = {0}  BY <2>2 DEF Matches
  <2>4. Offer(r, question) = 0  BY <1>4 DEF Offer
  <2>5. QED  BY <2>3, <2>4
<1>5. CASE r.domains # <<>>
  <2>1. D # {}
    <3>1. Len(r.domains) \in Nat /\ 1 \in DOMAIN r.domains  BY <1>0, <1>5
    <3>2. r.domains[1] \in ToSet(r.domains)  BY <3>1 DEF ToSet
    <3>3. QED  BY <1>0, <3>2
  <2>2. Matches(report, i .. e, question) = M  BY <2>1 DEF Matches
  <2>3. Offer(r, question) = Max(M \cup {-1})  BY <1>0, <1>5 DEF Offer
  <2> HIDE DEF M
  <2>4. M \cup {-1} \subseteq Int /\ M \cup {-1} # {} /\ Len(question) \in Int
    BY <1>3
  <2>5. \A m \in M \cup {-1} : m <= Len(question)
    <3>1. Len(question) \in Nat  OBVIOUS
    <3>2. QED  BY <1>3, <3>1
  <2>6. PICK T : T = M \cup {-1}  OBVIOUS
  <2>7. Max(T) \in T /\ \A m \in T : m <= Max(T)  BY <2>4, <2>5, <2>6, MaxOf
  <2>8. Max(T) \in Int /\ (Max(T) >= 0 => Max(T) \in M)
    <3>1. PICK x : x = Max(T)  OBVIOUS
    <3>2. x \in T  BY <2>7, <3>1
    <3>3. x \in M \cup {-1}  BY <2>6, <3>2
    <3>4. x \in Int /\ (x >= 0 => x \in M)  BY <1>3, <3>3
    <3>5. QED  BY <3>1, <3>4
  <2>9. \A m \in M : m <= Max(T)  BY <2>6, <2>7
  <2>10. QED  BY <1>3, <2>2, <2>3, <2>6, <2>8, <2>9
<1>6. QED  BY <1>4, <1>5

\* The first n entries of a list can be compared.
Comparable(list, n, question) ==
    \A i \in 1 .. n : Offer(list[i], question) \in Int /\ list[i].order \in Int

\* The best of the first n: none offers anything, or it has the longest match and of
\* those the lowest order.
BestOf(b, list, n, question) ==
    \/ /\ b.index = 0 /\ b.length = -1
       /\ \A k \in 1 .. n : Offer(list[k], question) < 0
    \/ /\ b.index \in 1 .. n /\ b.length >= 0
       /\ b.length = Offer(list[b.index], question) /\ b.order = list[b.index].order
       /\ \A k \in 1 .. n :
             \/ Offer(list[k], question) < b.length
             \/ Offer(list[k], question) = b.length /\ b.order <= list[k].order

Candidates == [index : Nat, length : Int, order : Int]

\* A turn of selectResolver's loop.
Turn(b, i, list, question) ==
    IF Better(b, Offer(list[i], question), list[i].order)
    THEN [index |-> i, length |-> Offer(list[i], question), order |-> list[i].order]
    ELSE b

\* A turn keeps the best.
LEMMA BestTurn ==
    ASSUME NEW list, NEW n \in Nat, NEW question, Comparable(list, n, question),
           NEW i \in 1 .. n, NEW b \in Candidates
    PROVE  /\ Turn(b, i, list, question) \in Candidates
           /\ BestOf(b, list, i - 1, question) => BestOf(Turn(b, i, list, question), list, i, question)
<1>1. Offer(list[i], question) \in Int /\ list[i].order \in Int  BY DEF Comparable
<1>2. Turn(b, i, list, question) \in Candidates  BY <1>1 DEF Turn, Candidates
<1>3. ASSUME BestOf(b, list, i - 1, question) PROVE BestOf(Turn(b, i, list, question), list, i, question)
  <2>0. \A k \in 1 .. i : k \in 1 .. i - 1 \/ k = i  OBVIOUS
  <2>1. \A k \in 1 .. i : Offer(list[k], question) \in Int /\ list[k].order \in Int  BY DEF Comparable
  <2>2. b.length \in Int /\ b.order \in Int  BY DEF Candidates
  <2>3. CASE Better(b, Offer(list[i], question), list[i].order)
    <3> DEFINE c == Turn(b, i, list, question)
    <3>1. c.index = i /\ c.length = Offer(list[i], question) /\ c.order = list[i].order
      BY <2>3 DEF Turn
    <3>2. c.length >= 0  BY <1>1, <1>3, <2>2, <2>3, <3>1 DEF Better, BestOf
    <3>3. ASSUME NEW k \in 1 .. i
          PROVE  \/ Offer(list[k], question) < c.length
                 \/ Offer(list[k], question) = c.length /\ c.order <= list[k].order
      <4>1. CASE k = i  BY <1>1, <3>1, <4>1
      <4>2. CASE k \in 1 .. i - 1 /\ b.index = 0
        <5>1. Offer(list[k], question) < 0  BY <1>3, <4>2 DEF BestOf
        <5>2. QED  BY <1>1, <2>1, <3>1, <3>2, <5>1
      <4>3. CASE k \in 1 .. i - 1 /\ b.index # 0
        <5>1. \/ Offer(list[k], question) < b.length
              \/ Offer(list[k], question) = b.length /\ b.order <= list[k].order
          BY <1>3, <4>3 DEF BestOf
        <5>2. c.length > b.length \/ (c.length = b.length /\ c.order < b.order)
          BY <2>3, <3>1 DEF Better
        <5> HIDE DEF c
        <5>3. c.length \in Int /\ c.order \in Int  BY <1>1, <3>1
        <5>4. QED  BY <2>1, <2>2, <5>1, <5>2, <5>3
      <4>4. QED  BY <2>0, <4>1, <4>2, <4>3
    <3> HIDE DEF c
    <3>4. c.index \in 1 .. i  BY <3>1
    <3>5. c.length = Offer(list[c.index], question) /\ c.order = list[c.index].order  BY <3>1
    <3>6. BestOf(c, list, i, question)  BY <3>2, <3>3, <3>4, <3>5 DEF BestOf
    <3>7. QED  BY <3>6 DEF c
  <2>4. CASE ~Better(b, Offer(list[i], question), list[i].order)
    <3>1. Turn(b, i, list, question) = b  BY <2>4 DEF Turn
    <3>2. CASE b.index = 0
      <4>1. b.length = -1 /\ \A k \in 1 .. i - 1 : Offer(list[k], question) < 0  BY <1>3, <3>2 DEF BestOf
      <4>2. Offer(list[i], question) < 0  BY <1>1, <2>4, <4>1 DEF Better
      <4>3. \A k \in 1 .. i : Offer(list[k], question) < 0  BY <2>0, <4>1, <4>2
      <4>4. QED  BY <3>1, <3>2, <4>1, <4>3 DEF BestOf
    <3>3. CASE b.index # 0
      <4>1. /\ b.index \in 1 .. i - 1 /\ b.length >= 0
            /\ b.length = Offer(list[b.index], question) /\ b.order = list[b.index].order
            /\ \A k \in 1 .. i - 1 :
                  \/ Offer(list[k], question) < b.length
                  \/ Offer(list[k], question) = b.length /\ b.order <= list[k].order
        BY <1>3, <3>3 DEF BestOf
      <4>2. \/ Offer(list[i], question) < b.length
            \/ Offer(list[i], question) = b.length /\ b.order <= list[i].order
        BY <1>1, <2>2, <2>4, <4>1 DEF Better
      <4>3. b.index \in 1 .. i  BY <4>1
      <4>4. \A k \in 1 .. i :
                  \/ Offer(list[k], question) < b.length
                  \/ Offer(list[k], question) = b.length /\ b.order <= list[k].order
        BY <2>0, <4>1, <4>2
      <4>5. QED  BY <3>1, <4>1, <4>3, <4>4 DEF BestOf
    <3>4. QED  BY <3>2, <3>3
  <2>5. QED  BY <2>3, <2>4
<1>4. QED  BY <1>2, <1>3

\* selectResolver finds the best of the list.
LEMMA SelectLoop ==
    ASSUME NEW list, NEW n \in Nat, n = Len(list), NEW question, Comparable(list, n, question)
    PROVE  \E b \in Candidates : BestOf(b, list, n, question) /\ selectResolver(list, question) = b.index
<1>1. PICK turn, S : /\ S = Candidates
                     /\ turn = [i \in 1 .. n |-> [b \in S |-> Turn(b, i, list, question)]]
  OBVIOUS
<1>2. PICK first \in S : first = [index |-> 0, length |-> -1, order |-> 0]
  <2>1. -1 \in Int /\ 0 \in Int /\ 0 \in Nat  OBVIOUS
  <2>2. [index |-> 0, length |-> -1, order |-> 0] \in Candidates  BY <2>1 DEF Candidates
  <2>3. QED  BY <1>1, <2>2
<1>3. ASSUME NEW i \in 1 .. n, NEW b \in S
      PROVE  /\ Turn(b, i, list, question) \in S
             /\ BestOf(b, list, i - 1, question) => BestOf(Turn(b, i, list, question), list, i, question)
  BY <1>1, BestTurn
<1>4. turn \in Turns(n, S)  BY <1>1, <1>3 DEF Turns
<1>5. PICK a \in [0 .. n -> S] : a[0] = first /\ \A i \in 1 .. n : a[i] = turn[i][a[i - 1]]
  BY <1>4, LoopStates
<1>6. ASSUME NEW i \in 1 .. n PROVE a[i - 1] \in S /\ a[i] = Turn(a[i - 1], i, list, question)
  <2>1. i - 1 \in 0 .. n  OBVIOUS
  <2>2. a[i - 1] \in S  BY <1>5, <2>1
  <2>3. QED  BY <1>1, <1>5, <2>2
<1> DEFINE G(g) == g = [i \in 0 .. n |-> IF i = 0 THEN first ELSE Turn(g[i - 1], i, list, question)]
<1>7. G(a)  BY <1>5, <1>6
<1>8. selectResolver(list, question) = (CHOOSE g : G(g))[n].index  BY <1>2 DEF selectResolver, Turn
<1>9. PICK g : G(g) /\ selectResolver(list, question) = g[n].index  BY <1>7, <1>8
<1> DEFINE P == {i \in 0 .. n : g[i] = a[i] /\ BestOf(a[i], list, i, question)}
<1>10. 0 \in P
  <2>1. g[0] = a[0] /\ a[0] = first  BY <1>5, <1>9
  <2>2. BestOf(first, list, 0, question)  BY <1>2 DEF BestOf
  <2>3. QED  BY <2>1, <2>2
<1>11. ASSUME NEW i \in 1 .. n, i - 1 \in P PROVE i \in P
  <2>1. g[i - 1] = a[i - 1] /\ BestOf(a[i - 1], list, i - 1, question)  BY <1>11
  <2>2. g[i] = a[i]  BY <1>6, <1>9, <2>1
  <2>3. BestOf(a[i], list, i, question)  BY <1>3, <1>6, <2>1
  <2>4. QED  BY <2>2, <2>3
<1>12. n \in P
  <2> HIDE DEF P
  <2>1. \A i \in 0 .. n : i \in P  BY <1>10, <1>11, InductionUpTo
  <2>2. QED  BY <2>1
<1>13. a[n] \in Candidates /\ BestOf(a[n], list, n, question) /\ selectResolver(list, question) = a[n].index
  BY <1>1, <1>5, <1>9, <1>12
<1>14. QED  BY <1>13

\* Split DNS, for every report and every name: selectResolver, over the list that
\* ParseScutilDNS makes of the report, picks a resolver whose nameservers are all
\* responsible for the name, and finds one whenever the report has one.
THEOREM ChoiceRight ==
    ASSUME NEW report, IsReport(report), NEW question, question \in Seq(ToSet(question))
    PROVE  LET list == ParseScutilDNS(report)
               index == selectResolver(list, question)
           IN  /\ index \in 0 .. Len(list)
               /\ index # 0 =>
                     /\ list[index].servers \in Seq({line.value : line \in ToSet(report)}) \ {<<>>}
                     /\ ToSet(list[index].servers) \subseteq Responsible(report, question)
               /\ index = 0 => Responsible(report, question) = {}
<1> DEFINE V == {line.value : line \in ToSet(report)}
           unsorted == Flush(Collected(report).resolvers, Collected(report).block)
           list == ParseScutilDNS(report)
<1>1. unsorted \in Seq(ResolverOf(V)) /\ Sound(unsorted, report) /\ Full(unsorted, report, Len(report))
  BY ParserList
<1>2. Len(report) \in Nat  BY ReportLines
<1> HIDE DEF V, unsorted
<1>3. list = SortByOrder(unsorted)  BY DEF ParseScutilDNS, unsorted
<1>4. list \in Seq(ResolverOf(V)) /\ \A x : x \in ToSet(list) <=> x \in ToSet(unsorted)
  BY <1>1, <1>3, SortedList
<1> HIDE DEF list
<1>5. Sound(list, report) /\ Full(list, report, Len(report))  BY <1>1, <1>4 DEF Sound, Full
<1>6. PICK n \in Nat : n = Len(list)  BY <1>4
<1>7. ASSUME NEW k \in 1 .. n
      PROVE  /\ list[k] \in ResolverOf(V) /\ list[k] \in ToSet(list)
             /\ list[k].order \in Int /\ Offer(list[k], question) \in Int
  <2>1. list[k] \in ResolverOf(V) /\ list[k] \in ToSet(list)  BY <1>4, <1>6 DEF ToSet
  <2>2. PICK i, e \in 1 .. Len(report) : Reflects(list[k], report, i, e)  BY <1>5, <2>1 DEF Sound
  <2>3. Offer(list[k], question) \in Int  BY <2>1, <2>2, OfferMatches
  <2>4. QED  BY <2>1, <2>3 DEF ResolverOf
<1>8. Comparable(list, n, question)  BY <1>7 DEF Comparable
<1>9. PICK b \in Candidates : BestOf(b, list, n, question) /\ selectResolver(list, question) = b.index
  BY <1>6, <1>8, SelectLoop
\* Every block that can be used is in the list, and offers no less than it matches.
<1>10. ASSUME NEW c \in Usable(report)
       PROVE  \E k \in 1 .. n : /\ list[k].order = OrderOf(report, c)
                                /\ \A m \in Matches(report, c, question) : m \in Nat /\ m <= Offer(list[k], question)
  <2>1. c \in Blocks(report) /\ Values(report, c, "nameserver") \cap IPv4 # {}  BY <1>10 DEF Usable
  <2>2. PICK i, e \in 1 .. Len(report) : Whole(report, i, e) /\ c = i .. e  BY <1>2, <2>1, BlocksWhole
  <2>3. e <= Len(report)  BY <1>2
  <2>4. PICK r \in ToSet(list) : Reflects(r, report, i, e)  BY <1>5, <2>1, <2>2, <2>3 DEF Full
  <2>5. PICK k \in 1 .. n : r = list[k]  BY <1>4, <1>6, <2>4 DEF ToSet
  <2>6. r \in ResolverOf(V)  BY <1>7, <2>5
  <2>7. \A m \in Matches(report, c, question) : m \in Nat /\ m <= Offer(r, question)
    BY <2>2, <2>4, <2>6, OfferMatches
  <2>8. r.order = OrderOf(report, c)  BY <2>2, <2>4 DEF Reflects
  <2>9. QED  BY <2>5, <2>7, <2>8
<1>11. CASE b.index = 0
  <2>1. \A k \in 1 .. n : Offer(list[k], question) < 0  BY <1>11, <1>9 DEF BestOf
  <2>2. ASSUME NEW c \in Usable(report) PROVE Matches(report, c, question) = {}
    <3>1. PICK k \in 1 .. n : \A m \in Matches(report, c, question) : m \in Nat /\ m <= Offer(list[k], question)
      BY <1>10
    <3>2. Offer(list[k], question) < 0 /\ Offer(list[k], question) \in Int  BY <1>7, <2>1
    <3>3. QED  BY <3>1, <3>2
  <2>3. Responsible(report, question) = {}  BY <2>2 DEF Responsible
  <2>4. QED  BY <1>6, <1>9, <1>11, <2>3 DEF list
<1>12. CASE b.index # 0
  <2>1. /\ b.index \in 1 .. n /\ b.length >= 0
        /\ b.length = Offer(list[b.index], question) /\ b.order = list[b.index].order
        /\ \A k \in 1 .. n :
              \/ Offer(list[k], question) < b.length
              \/ Offer(list[k], question) = b.length /\ b.order <= list[k].order
    BY <1>9, <1>12 DEF BestOf
  <2>2. PICK r : r = list[b.index]  OBVIOUS
  <2>3. r \in ResolverOf(V) /\ r \in ToSet(list) /\ r.order \in Int /\ Offer(r, question) \in Int
    BY <1>7, <2>1, <2>2
  <2>4. r.servers # <<>> /\ \E i, e \in 1 .. Len(report) : Whole(report, i, e) /\ Reflects(r, report, i, e)
    BY <1>5, <2>3 DEF Sound
  <2>5. PICK i, e \in 1 .. Len(report) : Whole(report, i, e) /\ Reflects(r, report, i, e)  BY <2>4
  <2>6. PICK B : B = i .. e  OBVIOUS
  <2>7. /\ B \in Blocks(report) /\ r.order = OrderOf(report, B)
        /\ ToSet(r.servers) = Values(report, B, "nameserver") \cap IPv4
    BY <1>2, <2>5, <2>6, BlocksWhole DEF Reflects
  <2>8. r.servers \in Seq(V) /\ ToSet(r.servers) # {}
    <3>1. r.servers \in Seq(V)  BY <2>3 DEF ResolverOf
    <3>2. 1 \in DOMAIN r.servers  BY <2>4, <3>1
    <3>3. r.servers[1] \in ToSet(r.servers)  BY <3>2 DEF ToSet
    <3>4. QED  BY <3>1, <3>3
  <2>9. B \in Usable(report)  BY <2>7, <2>8 DEF Usable
  <2>10. Offer(r, question) >= 0 /\ Offer(r, question) \in Matches(report, B, question)
    BY <2>1, <2>2, <2>3, <2>5, <2>6, OfferMatches
  <2>11. ASSUME NEW c \in Usable(report), NEW m \in Matches(report, c, question)
         PROVE  \/ m < Offer(r, question)
                \/ m = Offer(r, question) /\ OrderOf(report, B) <= OrderOf(report, c)
    <3>1. PICK k \in 1 .. n : /\ list[k].order = OrderOf(report, c)
                              /\ m \in Nat /\ m <= Offer(list[k], question)
      BY <1>10
    <3>2. \/ Offer(list[k], question) < Offer(r, question)
          \/ Offer(list[k], question) = Offer(r, question) /\ r.order <= list[k].order
      BY <2>1, <2>2
    <3>3. Offer(list[k], question) \in Int /\ list[k].order \in Int  BY <1>7
    <3>4. QED  BY <2>3, <2>7, <3>1, <3>2, <3>3
  <2>12. Values(report, B, "nameserver") \cap IPv4 \subseteq Responsible(report, question)
    BY <2>9, <2>10, <2>11 DEF Responsible
  <2>13. b.index \in 0 .. n  BY <2>1
  <2>14. QED  BY <1>6, <1>9, <1>12, <2>2, <2>4, <2>7, <2>8, <2>12, <2>13 DEF list, V
<1>13. QED  BY <1>11, <1>12

-----------------------------------------------------------------------------
(* The flows ask the right nameservers. *)

\* A list is empty or what the parser made of the report of a configuration.
Source(list, version) ==
    list = <<>> \/ (version \in Versions /\ list = ParseScutilDNS(Reports[version]))

\* A flow at a place, with a name, nameservers and the version of their list: it has
\* a name while it serves a query, and asks responsible nameservers only.
Right(place, question, list, version) ==
    /\ place \in Places \ {"idle", "ended"} => question \in Names
    /\ place \in {"asking", "waiting"} => ToSet(list) \subseteq Responsible(Reports[version], question)
    /\ place = "waiting" => list # <<>>

FlowsRight == \A f \in Flows : Right(pc[f], name[f], servers[f], from[f])

ChoiceInv ==
    /\ Source(resolvers, readAt) /\ Source(loaded, loadedFrom)
    /\ servers \in [Flows -> Seq(IPv4)]
    /\ FlowsRight

\* What is selected from the list of a configuration, and when nothing is.
LEMMA SelectedRight ==
    ASSUME NEW list, NEW version, Source(list, version), list # <<>>, NEW n \in Names
    PROVE  /\ Selected(list, n) \in Seq(IPv4)
           /\ ToSet(Selected(list, n)) \subseteq Responsible(Reports[version], n)
           /\ Selected(list, n) = <<>> => Responsible(Reports[version], n) = {}
<1> DEFINE report == Reports[version]
           V == {line.value : line \in ToSet(report)}
           index == selectResolver(list, n)
<1>1. version \in Versions /\ list = ParseScutilDNS(report)  BY DEF Source
<1>2. IsReport(report) /\ n \in Seq(ToSet(n))
  BY <1>1, ReportsAssumption, NamesAssumption DEF Versions
<1> HIDE DEF report
<1>3. /\ index # 0 => /\ list[index].servers \in Seq(V) \ {<<>>}
                      /\ ToSet(list[index].servers) \subseteq Responsible(report, n)
      /\ index = 0 => Responsible(report, n) = {}
  BY <1>1, <1>2, ChoiceRight
<1> HIDE DEF V, index
<1>4. CASE index = 0
  <2>1. Selected(list, n) = <<>>  BY <1>4 DEF Selected, index
  <2>2. <<>> \in Seq(IPv4)  OBVIOUS
  <2>3. ToSet(<<>>) = {}  BY DEF ToSet
  <2>4. QED  BY <1>3, <1>4, <2>1, <2>2, <2>3 DEF report
<1>5. CASE index # 0
  <2>1. Selected(list, n) = list[index].servers  BY <1>5 DEF Selected, index
  <2>2. PICK s \in Seq(V) : s = list[index].servers /\ s # <<>>  BY <1>3, <1>5
  <2>3. ToSet(s) \subseteq Responsible(report, n)  BY <1>3, <1>5, <2>2
  <2>4. Responsible(report, n) \subseteq IPv4  BY DEF Responsible
  <2>5. \A i \in 1 .. Len(s) : s[i] \in IPv4  BY <2>2, <2>3, <2>4 DEF ToSet
  <2>6. s \in Seq(IPv4)  BY <2>2, <2>5
  <2>7. QED  BY <2>1, <2>2, <2>3, <2>6 DEF report
<1>6. QED  BY <1>4, <1>5

\* A step of one flow leaves the others as right as they were.
LEMMA OthersRight ==
    ASSUME FlowsRight, NEW g \in Flows,
           \A f \in Flows \ {g} : /\ pc'[f] = pc[f] /\ name'[f] = name[f]
                                  /\ servers'[f] = servers[f] /\ from'[f] = from[f],
           Right(pc'[g], name'[g], servers'[g], from'[g])
    PROVE  FlowsRight'
BY DEF FlowsRight

\* A flow that returns from Exchange asks nobody.
LEMMA ReturnRight ==
    ASSUME TypeOK, ChoiceInv, NEW g \in Flows, NEW place \in {"idle", "ended"}, Return(g, place)
    PROVE  servers' \in [Flows -> Seq(IPv4)] /\ FlowsRight'
<1>1. servers' \in [Flows -> Seq(IPv4)]
  <2>1. <<>> \in Seq(IPv4)  OBVIOUS
  <2>2. QED  BY <2>1 DEF Return, ChoiceInv
<1>2. pc'[g] = place  BY DEF Return, Goto, TypeOK
<1>3. Right(pc'[g], name'[g], servers'[g], from'[g])  BY <1>2 DEF Right
<1>4. \A f \in Flows \ {g} : /\ pc'[f] = pc[f] /\ name'[f] = name[f]
                             /\ servers'[f] = servers[f] /\ from'[f] = from[f]
  BY DEF Return, Goto, TypeOK, ChoiceInv
<1>5. QED  BY <1>1, <1>3, <1>4, OthersRight DEF ChoiceInv

\* A flow that starts over a list asks the right nameservers.
LEMMA SelectRight ==
    ASSUME TypeOK, ChoiceInv, NEW g \in Flows, pc[g] \in {"lookup", "loaded"},
           NEW list, NEW version, Source(list, version), list # <<>>,
           Select(g, list, version), UNCHANGED name
    PROVE  servers' \in [Flows -> Seq(IPv4)] /\ FlowsRight'
<1>1. name[g] \in Names  BY DEF ChoiceInv, FlowsRight, Right, Places
<1>2. /\ Selected(list, name[g]) \in Seq(IPv4)
      /\ ToSet(Selected(list, name[g])) \subseteq Responsible(Reports[version], name[g])
  BY <1>1, SelectedRight
<1>3. servers' \in [Flows -> Seq(IPv4)]  BY <1>2 DEF Select, ChoiceInv
<1>4. /\ pc'[g] = "asking" /\ name'[g] = name[g] /\ from'[g] = version
      /\ servers'[g] = Selected(list, name[g])
  BY DEF Select, Goto, TypeOK, ChoiceInv
<1>5. Right(pc'[g], name'[g], servers'[g], from'[g])  BY <1>1, <1>2, <1>4 DEF Right
<1>6. \A f \in Flows \ {g} : /\ pc'[f] = pc[f] /\ name'[f] = name[f]
                             /\ servers'[f] = servers[f] /\ from'[f] = from[f]
  BY DEF Select, Goto, TypeOK, ChoiceInv
<1>7. QED  BY <1>3, <1>5, <1>6, OthersRight DEF ChoiceInv

\* A flow that goes on with the next nameserver has one less to ask.
LEMMA NextRight ==
    ASSUME TypeOK, ChoiceInv, NEW g \in Flows, pc[g] \in {"asking", "waiting"}, servers[g] # <<>>,
           NextServer(g), UNCHANGED <<name, from>>
    PROVE  servers' \in [Flows -> Seq(IPv4)] /\ FlowsRight'
<1>1. PICK s \in Seq(IPv4) : s = servers[g] /\ s # <<>>  BY DEF ChoiceInv
<1>2. Tail(s) \in Seq(IPv4) /\ \A i \in 1 .. Len(Tail(s)) : Tail(s)[i] = s[i + 1] /\ i + 1 \in 1 .. Len(s)
  BY <1>1
<1>3. ToSet(Tail(s)) \subseteq ToSet(s)
  <2>1. DOMAIN Tail(s) = 1 .. Len(Tail(s)) /\ DOMAIN s = 1 .. Len(s)  BY <1>2
  <2>2. QED  BY <1>2, <2>1 DEF ToSet
<1>4. servers' \in [Flows -> Seq(IPv4)]  BY <1>1, <1>2 DEF NextServer, ChoiceInv
<1>5. /\ pc'[g] = "asking" /\ name'[g] = name[g] /\ from'[g] = from[g] /\ servers'[g] = Tail(s)
  BY <1>1 DEF NextServer, Goto, TypeOK, ChoiceInv
<1>6. name[g] \in Names /\ ToSet(s) \subseteq Responsible(Reports[from[g]], name[g])
  BY <1>1 DEF ChoiceInv, FlowsRight, Right, Places
<1>7. Right(pc'[g], name'[g], servers'[g], from'[g])  BY <1>3, <1>5, <1>6 DEF Right
<1>8. \A f \in Flows \ {g} : /\ pc'[f] = pc[f] /\ name'[f] = name[f]
                             /\ servers'[f] = servers[f] /\ from'[f] = from[f]
  BY DEF NextServer, Goto, TypeOK, ChoiceInv
<1>9. QED  BY <1>4, <1>7, <1>8, OthersRight DEF ChoiceInv

\* A flow that only moves stays right, at a place where no more is asked of it.
LEMMA GotoRight ==
    ASSUME TypeOK, ChoiceInv, NEW g \in Flows, NEW place, Goto(g, place),
           UNCHANGED <<name, servers, from>>,
           Right(place, name[g], servers[g], from[g])
    PROVE  servers' \in [Flows -> Seq(IPv4)] /\ FlowsRight'
<1>1. pc'[g] = place /\ \A f \in Flows \ {g} : pc'[f] = pc[f]  BY DEF Goto, TypeOK
<1>2. QED  BY <1>1, OthersRight DEF ChoiceInv

\* The initial states.
LEMMA InitChoice == Init => ChoiceInv
<1> SUFFICES ASSUME Init PROVE ChoiceInv  OBVIOUS
<1>1. <<>> \in Seq(IPv4)  OBVIOUS
<1>2. servers \in [Flows -> Seq(IPv4)]  BY <1>1 DEF Init
<1>3. Source(resolvers, readAt) /\ Source(loaded, loadedFrom)  BY DEF Init, Source
<1>4. FlowsRight  BY DEF Init, FlowsRight, Right
<1>5. QED  BY <1>2, <1>3, <1>4 DEF ChoiceInv

\* Every step of a flow, of the clock, of the Mac and of Close preserves ChoiceInv.
LEMMA StepChoice == IInv /\ ChoiceInv /\ [Next]_vars => ChoiceInv'
<1> SUFFICES ASSUME IInv, ChoiceInv, [Next]_vars PROVE ChoiceInv'
    OBVIOUS
<1>0. TypeOK  BY DEF IInv
<1>1. CASE Age \/ ChangeConfig \/ Cancel \/ UNCHANGED vars
  BY <1>1 DEF Age, ChangeConfig, Cancel, vars, cacheVars, queryVars, historyVars,
              ChoiceInv, FlowsRight
<1>2. ASSUME NEW g \in Flows, Step(g) PROVE ChoiceInv'
  <2>0. Right(pc[g], name[g], servers[g], from[g])  BY DEF ChoiceInv, FlowsRight
  <2>1. CASE Ask(g)
    <3>0. Source(resolvers, readAt)' /\ Source(loaded, loadedFrom)'  BY <2>1 DEF Ask, cacheVars, ChoiceInv
    <3>1. CASE Fail(g)
      <4>1. PICK place \in {"idle", "ended"} : Return(g, place)  BY <3>1 DEF Fail
      <4>2. QED  BY <1>0, <3>0, <4>1, ReturnRight DEF ChoiceInv
    <3>2. CASE /\ \E n \in Names : name' = [name EXCEPT ![g] = n]
               /\ Goto(g, "lookup")
               /\ UNCHANGED <<servers, transport, pass, expired, historyVars>>
      <4>1. PICK n \in Names : name' = [name EXCEPT ![g] = n]  BY <3>2
      <4>2. pc'[g] = "lookup" /\ name'[g] \in Names  BY <1>0, <3>2, <4>1 DEF Goto, TypeOK
      <4>3. Right(pc'[g], name'[g], servers'[g], from'[g])  BY <4>2 DEF Right
      <4>4. \A f \in Flows \ {g} : /\ pc'[f] = pc[f] /\ name'[f] = name[f]
                                   /\ servers'[f] = servers[f] /\ from'[f] = from[f]
        BY <1>0, <3>2, <4>1 DEF Goto, historyVars, TypeOK
      <4>5. FlowsRight'  BY <4>3, <4>4, OthersRight DEF ChoiceInv
      <4>6. QED  BY <3>0, <3>2, <4>5 DEF ChoiceInv
    <3>3. QED  BY <2>1, <3>1, <3>2 DEF Ask
  <2>2. CASE EndFlow(g)
    <3>1. Right("ended", name[g], servers[g], from[g])  BY DEF Right
    <3>2. servers' \in [Flows -> Seq(IPv4)] /\ FlowsRight'
      BY <1>0, <2>2, <3>1, GotoRight DEF EndFlow, queryVars, historyVars
    <3>3. QED  BY <2>2, <3>2 DEF EndFlow, cacheVars, ChoiceInv
  <2>3. CASE LookUp(g)
    <3>0. Source(resolvers, readAt)' /\ Source(loaded, loadedFrom)'  BY <2>3 DEF LookUp, ChoiceInv
    <3>1. CASE resolvers # <<>> /\ fresh
      <4>1. Select(g, resolvers, readAt) /\ UNCHANGED name /\ pc[g] = "lookup"
        BY <2>3, <3>1 DEF LookUp, At
      <4>2. Source(resolvers, readAt)  BY DEF ChoiceInv
      <4>3. servers' \in [Flows -> Seq(IPv4)] /\ FlowsRight'
        BY <1>0, <3>1, <4>1, <4>2, SelectRight
      <4>4. QED  BY <3>0, <4>3 DEF ChoiceInv
    <3>2. CASE resolvers = <<>> \/ ~fresh
      <4>1. Goto(g, "loading") /\ UNCHANGED <<name, servers, from>>  BY <2>3, <3>2 DEF LookUp
      <4>2. Right("loading", name[g], servers[g], from[g])
        BY <2>0, <2>3 DEF Right, LookUp, At, Places
      <4>3. servers' \in [Flows -> Seq(IPv4)] /\ FlowsRight'  BY <1>0, <4>1, <4>2, GotoRight
      <4>4. QED  BY <3>0, <4>3 DEF ChoiceInv
    <3>3. QED  BY <3>1, <3>2
  <2>4. CASE Scutil(g)
    <3>1. Goto(g, "loaded") /\ UNCHANGED <<name, servers, from>>
      BY <2>4 DEF Scutil, queryVars, historyVars
    <3>2. Right("loaded", name[g], servers[g], from[g])  BY <2>0, <2>4 DEF Right, Scutil, At, Places
    <3>3. servers' \in [Flows -> Seq(IPv4)] /\ FlowsRight'  BY <1>0, <3>1, <3>2, GotoRight
    <3>4. Source(resolvers, readAt)'  BY <2>4 DEF Scutil, ChoiceInv
    <3>5. Source(loaded, loadedFrom)'
      <4>1. CASE UNCHANGED <<loaded, loadedFrom>>  BY <4>1 DEF ChoiceInv
      <4>2. CASE loaded' = ParseScutilDNS(Reports[config]) /\ loadedFrom' = config
        BY <1>0, <4>2 DEF Source, TypeOK
      <4>3. QED  BY <2>4, <4>1, <4>2 DEF Scutil
    <3>6. QED  BY <3>3, <3>4, <3>5 DEF ChoiceInv
  <2>5. CASE Store(g)
    <3>1. loaded' = <<>> /\ pc[g] = "loaded"  BY <2>5 DEF Store, At
    <3>2. Source(loaded, loadedFrom)'  BY <3>1 DEF Source
    <3>3. Source(resolvers, readAt) /\ Source(loaded, loadedFrom)  BY DEF ChoiceInv
    <3>4. CASE loaded # <<>> /\ Renew(g)
      <4>1. Select(g, loaded, loadedFrom) /\ UNCHANGED name  BY <3>4 DEF Renew
      <4>2. servers' \in [Flows -> Seq(IPv4)] /\ FlowsRight'
        BY <1>0, <3>1, <3>3, <3>4, <4>1, SelectRight
      <4>3. Source(resolvers, readAt)'  BY <3>3, <3>4 DEF Renew
      <4>4. QED  BY <3>2, <4>2, <4>3 DEF ChoiceInv
    <3>5. CASE resolvers # <<>> /\ FallBack(g)
      <4>1. Select(g, resolvers, readAt) /\ UNCHANGED name  BY <3>5 DEF FallBack
      <4>2. servers' \in [Flows -> Seq(IPv4)] /\ FlowsRight'
        BY <1>0, <3>1, <3>3, <3>5, <4>1, SelectRight
      <4>3. Source(resolvers, readAt)'  BY <3>3, <3>5 DEF FallBack
      <4>4. QED  BY <3>2, <4>2, <4>3 DEF ChoiceInv
    <3>6. CASE Fail(g) /\ UNCHANGED <<resolvers, fresh, readAt, asked>>
      <4>1. PICK place \in {"idle", "ended"} : Return(g, place)  BY <3>6 DEF Fail
      <4>2. servers' \in [Flows -> Seq(IPv4)] /\ FlowsRight'  BY <1>0, <4>1, ReturnRight
      <4>3. Source(resolvers, readAt)'  BY <3>3, <3>6
      <4>4. QED  BY <3>2, <4>2, <4>3 DEF ChoiceInv
    <3>7. QED  BY <2>5, <3>4, <3>5, <3>6 DEF Store
  <2>6. CASE Dial(g)
    <3>0. /\ Source(resolvers, readAt)' /\ Source(loaded, loadedFrom)'
          /\ pc[g] = "asking" /\ servers[g] # <<>> /\ UNCHANGED <<name, from>>
      BY <2>6 DEF Dial, At, cacheVars, historyVars, ChoiceInv
    <3>1. CASE Goto(g, "waiting") /\ UNCHANGED <<servers, transport>>
      <4>1. Right("waiting", name[g], servers[g], from[g])  BY <2>0, <3>0 DEF Right, Places
      <4>2. servers' \in [Flows -> Seq(IPv4)] /\ FlowsRight'
        BY <1>0, <3>0, <3>1, <4>1, GotoRight
      <4>3. QED  BY <3>0, <4>2 DEF ChoiceInv
    <3>2. CASE NextServer(g)
      <4>1. servers' \in [Flows -> Seq(IPv4)] /\ FlowsRight'  BY <1>0, <3>0, <3>2, NextRight
      <4>2. QED  BY <3>0, <4>1 DEF ChoiceInv
    <3>3. QED  BY <2>6, <3>1, <3>2 DEF Dial
  <2>7. CASE Receive(g)
    <3>0. /\ Source(resolvers, readAt)' /\ Source(loaded, loadedFrom)'
          /\ pc[g] = "waiting" /\ servers[g] # <<>>
      BY <2>0, <2>7 DEF Receive, At, cacheVars, ChoiceInv, Right
    <3>1. CASE Answer(g)
      <4>1. PICK place \in {"idle", "ended"} : Return(g, place)  BY <3>1 DEF Answer
      <4>2. QED  BY <1>0, <3>0, <4>1, ReturnRight DEF ChoiceInv
    <3>2. CASE Goto(g, "asking") /\ UNCHANGED <<asked, name, servers, pass, expired, historyVars>>
      <4>1. Right("asking", name[g], servers[g], from[g])  BY <2>0, <3>0 DEF Right, Places
      <4>2. servers' \in [Flows -> Seq(IPv4)] /\ FlowsRight'
        BY <1>0, <3>2, <4>1, GotoRight DEF historyVars
      <4>3. QED  BY <3>0, <4>2 DEF ChoiceInv
    <3>3. CASE NextServer(g) /\ UNCHANGED <<asked, name, pass, expired, historyVars>>
      <4>1. servers' \in [Flows -> Seq(IPv4)] /\ FlowsRight'
        BY <1>0, <3>0, <3>3, NextRight DEF historyVars
      <4>2. QED  BY <3>0, <4>1 DEF ChoiceInv
    <3>4. QED  BY <2>7, <3>1, <3>2, <3>3 DEF Receive
  <2>8. CASE Exhausted(g)
    <3>0. /\ Source(resolvers, readAt)' /\ Source(loaded, loadedFrom)' /\ pc[g] = "asking"
      BY <2>8 DEF Exhausted, At, cacheVars, ChoiceInv
    <3>1. CASE Fail(g)
      <4>1. PICK place \in {"idle", "ended"} : Return(g, place)  BY <3>1 DEF Fail
      <4>2. QED  BY <1>0, <3>0, <4>1, ReturnRight DEF ChoiceInv
    <3>2. CASE /\ Goto(g, "invalidate") /\ from' = [from EXCEPT ![g] = 0]
               /\ UNCHANGED <<queryVars, fellBack>>
      <4>1. pc'[g] = "invalidate" /\ name'[g] = name[g]  BY <1>0, <3>2 DEF Goto, queryVars, TypeOK
      <4>2. Right(pc'[g], name'[g], servers'[g], from'[g])  BY <2>0, <3>0, <4>1 DEF Right, Places
      <4>3. \A f \in Flows \ {g} : /\ pc'[f] = pc[f] /\ name'[f] = name[f]
                                   /\ servers'[f] = servers[f] /\ from'[f] = from[f]
        BY <1>0, <3>2 DEF Goto, queryVars, TypeOK
      <4>4. FlowsRight'  BY <4>2, <4>3, OthersRight DEF ChoiceInv
      <4>5. QED  BY <3>0, <3>2, <4>4 DEF ChoiceInv, queryVars
    <3>3. QED  BY <2>8, <3>1, <3>2 DEF Exhausted
  <2>9. CASE Invalidate(g)
    <3>1. Right("lookup", name[g], servers[g], from[g])
      BY <2>0, <2>9 DEF Right, Invalidate, At, Places
    <3>2. servers' \in [Flows -> Seq(IPv4)] /\ FlowsRight'
      BY <1>0, <2>9, <3>1, GotoRight DEF Invalidate
    <3>3. QED  BY <2>9, <3>2 DEF Invalidate, ChoiceInv
  <2>10. CASE Expire(g)
    BY <2>10 DEF Expire, cacheVars, historyVars, ChoiceInv, FlowsRight
  <2>11. QED
    BY <1>2, <2>1, <2>2, <2>3, <2>4, <2>5, <2>6, <2>7, <2>8, <2>9, <2>10 DEF Step
<1>3. QED
  BY <1>1, <1>2 DEF Next

\* Split DNS in every reachable state: whatever list a flow got hold of, in the
\* middle of whatever reloads and fallbacks, its query goes only to nameservers
\* that are responsible for the name in the configuration the list was read from,
\* and the cached list has one for every name the report has one for.
THEOREM AsksRight == Spec => []AsksResponsible
<1>1. Init => ChoiceInv
    BY InitChoice
<1>2. IInv /\ ChoiceInv /\ [Next]_vars => ChoiceInv'
    BY StepChoice
<1>3. ChoiceInv => AsksResponsible
  <2> SUFFICES ASSUME ChoiceInv PROVE AsksResponsible  OBVIOUS
  <2>1. \A f \in Flows : pc[f] \in {"asking", "waiting"} =>
            ToSet(servers[f]) \subseteq Responsible(Reports[from[f]], name[f])
    BY DEF ChoiceInv, FlowsRight, Right
  <2>2. Source(resolvers, readAt)  BY DEF ChoiceInv
  <2>3. ASSUME resolvers # <<>>, NEW n \in Names, Selected(resolvers, n) = <<>>
        PROVE  Responsible(Reports[readAt], n) = {}
    BY <2>2, <2>3, SelectedRight
  <2>4. QED  BY <2>1, <2>3 DEF AsksResponsible
<1>4. QED
    BY <1>1, <1>2, <1>3, Invariance, PTL DEF Spec
=============================================================================
