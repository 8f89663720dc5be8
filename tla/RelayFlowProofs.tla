--------------------------- MODULE RelayFlowProofs ---------------------------
(***************************************************************************)
(* Theorems about RelayFlow, for any stream of the device and any sizes of *)
(* the sniffer: that a flow leaves nothing open, that the host gets the    *)
(* device's bytes in order and all of them when the device half-closes,    *)
(* and that CONNECT names the host the stream names.  The last rests on    *)
(* what sniffHostname computes for every stream (SnifferExact).            *)
(***************************************************************************)
EXTENDS RelayFlow, LoopTheorems

\* The goroutines of bridgeTCP are started by the handler; main ends after the copies.
Stages ==
    /\ DOMAIN pc = Threads
    /\ pc["handler"] # "done" => pc["main"] = "none"
    /\ pc["main"] = "none" => pc["up"] = "none" /\ pc["down"] = "none" /\ pc["closer"] = "none"
    /\ pc["main"] \in {"stop", "hostClose", "sockClose", "deviceClose", "done"}
           => pc["up"] = "done" /\ pc["down"] = "done"

\* Before that, there is at most a direct connection.
Early ==
    /\ pc["handler"] = "dial" => socket = "none"
    /\ pc["handler"] \in {"dial", "accept"} => device = "none"
    /\ pc["main"] = "none" /\ pc["handler"] = "done" => device = "none" /\ socket \in {"none", "closed"}
    /\ pc["main"] = "none" /\ proxied => socket = "none" /\ ~connection

\* A connection to the proxy is installed once, by up.
Establishing ==
    /\ pc["up"] \in {"dial", "connect", "install"} => proxied /\ ~connection
    /\ proxied /\ ~connection => socket \in {"none", "dialled", "closed"}
    /\ proxied /\ ~connection /\ socket = "dialled" => pc["up"] \in {"connect", "install"}

\* Once closed is set the socket is closed, or somebody is about to close it.
Closing ==
    proxied /\ closed =>
        \/ socket \in {"none", "closed"}
        \/ pc["up"] \in {"connect", "install", "sockClose"} \/ pc["down"] = "sockClose"
        \/ pc["main"] \in {"sockClose", "forceSock"} \/ pc["closer"] = "sockClose"

\* What main has closed when it returns.
Returned ==
    /\ pc["main"] \in {"sockClose", "deviceClose", "done"} /\ proxied => closed
    /\ pc["main"] \in {"deviceClose", "done"} /\ ~proxied => socket \in {"none", "closed"}
    /\ pc["main"] = "done" => device = "closed"

Inv == Stages /\ Early /\ Establishing /\ Closing /\ Returned

\* What Goto does to pc.
LEMMA GotoSets ==
    ASSUME DOMAIN pc = Threads, NEW t \in Threads, NEW from, NEW to, Goto(t, from, to)
    PROVE  /\ pc[t] = from /\ pc'[t] = to /\ DOMAIN pc' = Threads
           /\ \A u \in Threads \ {t} : pc'[u] = pc[u]
  BY DEF Goto

\* What StartBridge does to pc.
LEMMA StartSets ==
    ASSUME DOMAIN pc = Threads, StartBridge
    PROVE  /\ DOMAIN pc' = Threads /\ pc["handler"] = "start" /\ pc'["handler"] = "done"
           /\ pc'["up"] = "read" /\ pc'["down"] = "wait" /\ pc'["main"] = "first" /\ pc'["closer"] = "watch"
  BY DEF StartBridge, Threads

-----------------------------------------------------------------------------
(* Nothing is left open *)

\* Goroutine t moves, the others stay where they are.
Moves(t, from, to) ==
    /\ DOMAIN pc' = Threads /\ pc[t] = from /\ pc'[t] = to
    /\ \A u \in Threads \ {t} : pc'[u] = pc[u]

\* Where a goroutine that moves is, and that the others stay.
LEMMA MovesBy ==
    ASSUME Inv, NEW t \in Threads, NEW from, NEW to, Goto(t, from, to) PROVE Moves(t, from, to)
  BY GotoSets DEF Inv, Stages, Moves

\* handleTCP preserves Inv.
LEMMA HandlerInv == ASSUME Inv, Handler PROVE Inv'
<1> USE MovesBy DEF Inv, Stages, Early, Establishing, Closing, Returned, proxied, Threads, Moves, connVars, fieldVars, socketVars, writeVars, bridgeVars
<1>1. CASE Dial  BY <1>1 DEF Dial
<1>2. CASE CreateEndpoint  BY <1>2 DEF CreateEndpoint
<1>3. CASE CreateEndpointFails  BY <1>3 DEF CreateEndpointFails, MarkClosed, CloseSocket
<1>4. CASE StartBridge  BY <1>4, StartSets DEF StartBridge
<1>5. QED  BY <1>1, <1>2, <1>3, <1>4 DEF Handler

\* The copy towards the host, with Write and establish, preserves Inv.
LEMMA UpInv == ASSUME Inv, Up PROVE Inv'
<1> USE MovesBy DEF Inv, Stages, Early, Establishing, Closing, Returned, proxied, Threads, Moves, connVars, fieldVars, socketVars, writeVars, bridgeVars
<1>1. ASSUME NEW k, ReadDevice(k) PROVE Inv'
  BY <1>1 DEF ReadDevice
<1>2. CASE DeviceEnds  BY <1>2 DEF DeviceEnds
<1>3. CASE Write  BY <1>3 DEF Write, Through, Overflows, Buffers, Decides, Refused, Unsettled
<1>4. CASE DialProxy(TRUE) /\ Goto("up", "dial", "connect") /\ UNCHANGED <<stream, bridgeVars>>  BY <1>4 DEF DialProxy
<1>5. CASE DialProxy(FALSE) /\ Goto("up", "dial", "install") /\ UNCHANGED <<stream, bridgeVars>>  BY <1>5 DEF DialProxy
<1>6. ASSUME NEW ok \in BOOLEAN, performConnect(ok), Goto("up", "connect", "install"), UNCHANGED <<stream, bridgeVars>>
      PROVE  Inv'
  BY <1>6 DEF performConnect
<1>7. CASE /\ Install /\ UNCHANGED <<stream, bridgeVars>>
           /\ Goto("up", "install", IF closed \/ dialError THEN "closeWrite" ELSE "send")
  <2>1. CASE closed \/ dialError
    <3>1. ~connection' /\ closed' = closed
      BY <1>7, <2>1, Zenon DEF Install
    <3>2. socket' = IF socket = "dialled" THEN "closed" ELSE socket  BY <1>7, <2>1 DEF Install
    <3>3. Moves("up", "install", "closeWrite")  BY <1>7, <2>1
    <3>4. QED  BY <1>7, <3>1, <3>2, <3>3
  <2>2. CASE ~(closed \/ dialError)
    <3>1. connection' /\ ~closed' /\ ~closed
      BY <1>7, <2>2, Zenon DEF Install
    <3>2. Moves("up", "install", "send")  BY <1>7, <2>2
    <3>3. QED  BY <1>7, <3>1, <3>2
  <2>3. QED  BY <2>1, <2>2
<1>8. CASE WriteHost  BY <1>8 DEF WriteHost, Send, SendFails
<1>9. CASE CloseWrite  BY <1>9 DEF CloseWrite
<1>10. CASE Finish  BY <1>10 DEF Finish, FinishSocket
<1>11. CASE HostClose("up", "hostClose", "sockClose", "done")  BY <1>11 DEF HostClose, MarkClosed, CloseSocket
<1>12. CASE SockClose("up", "sockClose", "done")  BY <1>12 DEF SockClose, CloseSocket
<1>13. QED  BY <1>1, <1>2, <1>3, <1>4, <1>5, <1>6, <1>7, <1>8, <1>9, <1>10, <1>11, <1>12 DEF Up, Establish, HostCloses

\* The copy towards the device, with Read, preserves Inv.
LEMMA DownInv == ASSUME Inv, Down PROVE Inv'
<1> USE MovesBy DEF Inv, Stages, Early, Establishing, Closing, Returned, proxied, Threads, Moves, connVars, fieldVars, socketVars, writeVars, bridgeVars
<1>1. CASE AwaitReady  BY <1>1 DEF AwaitReady
<1>2. CASE Receive  BY <1>2 DEF Receive
<1>3. CASE HostEnds  BY <1>3 DEF HostEnds
<1>4. CASE WriteDevice  BY <1>4 DEF WriteDevice
<1>5. CASE CloseRead  BY <1>5 DEF CloseRead
<1>6. CASE HostClose("down", "hostClose", "sockClose", "done")  BY <1>6 DEF HostClose, MarkClosed, CloseSocket
<1>7. CASE SockClose("down", "sockClose", "done")  BY <1>7 DEF SockClose, CloseSocket
<1>8. QED  BY <1>1, <1>2, <1>3, <1>4, <1>5, <1>6, <1>7 DEF Down, HostCloses

\* bridgeTCP preserves Inv.
LEMMA MainInv == ASSUME Inv, Main PROVE Inv'
<1> USE MovesBy DEF Inv, Stages, Early, Establishing, Closing, Returned, proxied, Threads, Moves, connVars, fieldVars, socketVars, writeVars, bridgeVars
<1>1. CASE AwaitFirst  BY <1>1 DEF AwaitFirst, Step
<1>2. CASE AwaitDrain  BY <1>2 DEF AwaitDrain, Step, Completed
<1>3. CASE AwaitSecond  BY <1>3 DEF AwaitSecond, Step, Completed
<1>4. CASE DrainExpires  BY <1>4 DEF DrainExpires, Step
<1>5. CASE DeviceClose("main", "forceDevice", "forceHost")  BY <1>5 DEF DeviceClose
<1>6. CASE HostClose("main", "forceHost", "forceSock", "second")  BY <1>6 DEF HostClose, MarkClosed, CloseSocket
<1>7. CASE SockClose("main", "forceSock", "second")  BY <1>7 DEF SockClose, CloseSocket
<1>8. CASE Step("main", "stop", "hostClose")  BY <1>8 DEF Step
<1>9. CASE HostClose("main", "hostClose", "sockClose", "deviceClose")  BY <1>9 DEF HostClose, MarkClosed, CloseSocket
<1>10. CASE SockClose("main", "sockClose", "deviceClose")  BY <1>10 DEF SockClose, CloseSocket
<1>11. CASE Goto("main", "deviceClose", "done") /\ device' = "closed" /\ UNCHANGED connVars  BY <1>11
<1>12. QED  BY <1>1, <1>2, <1>3, <1>4, <1>5, <1>6, <1>7, <1>8, <1>9, <1>10, <1>11 DEF Main, ForceClose, Return

\* The goroutine that watches the context preserves Inv.
LEMMA CloserInv == ASSUME Inv, Closer PROVE Inv'
<1> USE MovesBy DEF Inv, Stages, Early, Establishing, Closing, Returned, proxied, Threads, Moves, connVars, fieldVars, socketVars, writeVars, bridgeVars
<1>1. CASE WatchContext  BY <1>1 DEF WatchContext, Step
<1>2. CASE DeviceClose("closer", "deviceClose", "hostClose")  BY <1>2 DEF DeviceClose
<1>3. CASE HostClose("closer", "hostClose", "sockClose", "done")  BY <1>3 DEF HostClose, MarkClosed, CloseSocket
<1>4. CASE SockClose("closer", "sockClose", "done")  BY <1>4 DEF SockClose, CloseSocket
<1>5. QED  BY <1>1, <1>2, <1>3, <1>4 DEF Closer, CloseBoth, HostCloses

\* Engine.Close preserves Inv.
LEMMA EngineInv == ASSUME Inv, Engine PROVE Inv'
<1> USE MovesBy DEF Inv, Stages, Early, Establishing, Closing, Returned, proxied, Threads, Moves, connVars, fieldVars, socketVars, writeVars, bridgeVars
<1>1. CASE Cancel  BY <1>1 DEF Cancel
<1>2. CASE CloseStack  BY <1>2 DEF CloseStack
<1>3. CASE AwaitFlows  BY <1>3 DEF AwaitFlows, Step
<1>4. QED  BY <1>1, <1>2, <1>3 DEF Engine

\* The peers preserve Inv.
LEMMA EndsInv == ASSUME Inv, ClientEnds \/ UpstreamEnds \/ UNCHANGED vars PROVE Inv'
<1> USE MovesBy DEF Inv, Stages, Early, Establishing, Closing, Returned, proxied, Threads, Moves, connVars, fieldVars, socketVars, writeVars, bridgeVars
<1>1. CASE ClientEnds  BY <1>1 DEF ClientEnds
<1>2. CASE UpstreamEnds  BY <1>2 DEF UpstreamEnds
<1>3. CASE UNCHANGED vars  BY <1>3 DEF vars
<1>4. QED  BY <1>1, <1>2, <1>3

\* Every step preserves Inv.
LEMMA InvStep == Inv /\ [Next]_vars => Inv'
  BY HandlerInv, UpInv, DownInv, MainInv, CloserInv, EngineInv, EndsInv DEF Next

\* Inv holds at first.
LEMMA InitInv == Init => Inv
  BY DEF Init, ConnInit, Inv, Stages, Early, Establishing, Closing, Returned, Threads

\* However Close, the copies and the drain timer interleave, a flow that is over has
\* left no socket and no endpoint open, also one that was dialled while it was closed
\* (bridgeTCPWithDrainTimeout, establish, Close).
THEOREM LeavesNothing == Spec => []NothingLeaks
<1>1. Inv => NothingLeaks
  BY DEF Inv, Stages, Early, Establishing, Closing, Returned, NothingLeaks
<1>2. QED  BY <1>1, InitInv, InvStep, PTL DEF Spec

-----------------------------------------------------------------------------
(* The bytes arrive in order *)

\* up has given up on the bytes that it holds.
Given == {"closeWrite", "finish", "hostClose", "sockClose", "done"}

\* Elements a + 1, a + 2 and so on of what the device sent.
Run(s, a) == \A i \in 1 .. Len(s) : s[i] = a + i

\* What has arrived, what is buffered and what is being written are consecutive.
Bytes ==
    /\ stream \in Streams /\ taken \in Nat
    /\ tunnel \in Seq(Nat) /\ pending \in Seq(Nat) /\ out \in Seq(Nat)
    /\ Run(tunnel, 0) /\ Run(pending, Len(tunnel)) /\ Run(out, Len(tunnel) + Len(pending))
    /\ Len(tunnel) + Len(pending) + Len(out) <= taken
    /\ pc["up"] \notin Given => Len(tunnel) + Len(pending) + Len(out) = taken

Buffered ==
    /\ pc["up"] \in {"read", "none"} => out = <<>>
    /\ pc["up"] \in {"dial", "connect", "install", "send"} => pending = <<>>
    /\ connection \/ ~proxied => pending = <<>>

OrderInv == Bytes /\ Buffered

\* Two adjoining runs of positions make one.
LEMMA RunConcat ==
    ASSUME NEW s \in Seq(Nat), NEW t \in Seq(Nat), NEW a \in Nat, Run(s, a), Run(t, a + Len(s))
    PROVE  s \o t \in Seq(Nat) /\ Len(s \o t) = Len(s) + Len(t) /\ Run(s \o t, a)
<1>1. s \o t \in Seq(Nat) /\ Len(s \o t) = Len(s) + Len(t)  OBVIOUS
<1>2. ASSUME NEW i \in 1 .. Len(s) + Len(t) PROVE (s \o t)[i] = a + i
  <2>1. CASE i <= Len(s)  BY <2>1 DEF Run
  <2>2. CASE i > Len(s)
    <3>1. i - Len(s) \in 1 .. Len(t) /\ (s \o t)[i] = t[i - Len(s)]  BY <2>2
    <3>2. QED  BY <3>1 DEF Run
  <2>3. QED  BY <2>1, <2>2
<1>3. QED  BY <1>1, <1>2 DEF Run

\* A run cut in two gives two adjoining runs.
LEMMA RunPieces ==
    ASSUME NEW s \in Seq(Nat), NEW a \in Nat, Run(s, a), NEW k \in 1 .. Len(s)
    PROVE  /\ SubSeq(s, 1, k) \in Seq(Nat) /\ Len(SubSeq(s, 1, k)) = k /\ Run(SubSeq(s, 1, k), a)
           /\ SubSeq(s, k + 1, Len(s)) \in Seq(Nat) /\ Len(SubSeq(s, k + 1, Len(s))) = Len(s) - k
           /\ Run(SubSeq(s, k + 1, Len(s)), a + k)
<1>1. SubSeq(s, 1, k) \in Seq(Nat) /\ Len(SubSeq(s, 1, k)) = k  OBVIOUS
<1>2. SubSeq(s, k + 1, Len(s)) \in Seq(Nat) /\ Len(SubSeq(s, k + 1, Len(s))) = Len(s) - k  OBVIOUS
<1>3. Run(SubSeq(s, 1, k), a)  BY <1>1 DEF Run
<1>4. Run(SubSeq(s, k + 1, Len(s)), a + k)  BY <1>2 DEF Run
<1>5. QED  BY <1>1, <1>2, <1>3, <1>4

\* Steps that leave the bytes alone.
LEMMA OrderQuiet ==
    ASSUME OrderInv, UNCHANGED <<stream, taken, tunnel, pending, out, connection>>,
           \/ pc'["up"] = pc["up"] \/ pc'["up"] \in Given
           \/ pc["up"] = "none" /\ pc'["up"] = "read"
           \/ pc["up"] \in {"dial", "connect"} /\ pc'["up"] \in {"connect", "install"}
    PROVE  OrderInv'
<1>1. Bytes'  BY DEF OrderInv, Bytes, Run, Given
<1>2. Buffered'  BY DEF OrderInv, Buffered, Given, proxied
<1>3. QED  BY <1>1, <1>2 DEF OrderInv

\* handleTCP moves no bytes.
LEMMA HandlerOrder == ASSUME Inv, OrderInv, Handler PROVE OrderInv'
<1> USE MovesBy, OrderQuiet DEF Moves, Threads, connVars, fieldVars, socketVars, writeVars, bridgeVars
<1>1. CASE Dial  BY <1>1 DEF Dial
<1>2. CASE CreateEndpoint  BY <1>2 DEF CreateEndpoint
<1>3. CASE CreateEndpointFails  BY <1>3 DEF CreateEndpointFails, MarkClosed, CloseSocket
<1>4. CASE StartBridge  BY <1>4, StartSets DEF StartBridge, Inv, Stages
<1>5. QED  BY <1>1, <1>2, <1>3, <1>4 DEF Handler

\* Nor does the copy towards the device.
LEMMA DownOrder == ASSUME Inv, OrderInv, Down PROVE OrderInv'
<1> USE MovesBy, OrderQuiet DEF Moves, Threads, connVars, fieldVars, socketVars, writeVars, bridgeVars
<1>1. CASE AwaitReady  BY <1>1 DEF AwaitReady
<1>2. CASE Receive  BY <1>2 DEF Receive
<1>3. CASE HostEnds  BY <1>3 DEF HostEnds
<1>4. CASE WriteDevice  BY <1>4 DEF WriteDevice
<1>5. CASE CloseRead  BY <1>5 DEF CloseRead
<1>6. CASE HostClose("down", "hostClose", "sockClose", "done")  BY <1>6 DEF HostClose, MarkClosed, CloseSocket
<1>7. CASE SockClose("down", "sockClose", "done")  BY <1>7 DEF SockClose, CloseSocket
<1>8. QED  BY <1>1, <1>2, <1>3, <1>4, <1>5, <1>6, <1>7 DEF Down, HostCloses

\* Nor does bridgeTCP.
LEMMA MainOrder == ASSUME Inv, OrderInv, Main PROVE OrderInv'
<1> USE MovesBy, OrderQuiet DEF Moves, Threads, connVars, fieldVars, socketVars, writeVars, bridgeVars
<1>1. CASE AwaitFirst  BY <1>1 DEF AwaitFirst, Step
<1>2. CASE AwaitDrain  BY <1>2 DEF AwaitDrain, Step
<1>3. CASE AwaitSecond  BY <1>3 DEF AwaitSecond, Step
<1>4. CASE DrainExpires  BY <1>4 DEF DrainExpires, Step
<1>5. CASE DeviceClose("main", "forceDevice", "forceHost")  BY <1>5 DEF DeviceClose
<1>6. CASE HostClose("main", "forceHost", "forceSock", "second")  BY <1>6 DEF HostClose, MarkClosed, CloseSocket
<1>7. CASE SockClose("main", "forceSock", "second")  BY <1>7 DEF SockClose, CloseSocket
<1>8. CASE Step("main", "stop", "hostClose")  BY <1>8 DEF Step
<1>9. CASE HostClose("main", "hostClose", "sockClose", "deviceClose")  BY <1>9 DEF HostClose, MarkClosed, CloseSocket
<1>10. CASE SockClose("main", "sockClose", "deviceClose")  BY <1>10 DEF SockClose, CloseSocket
<1>11. CASE Goto("main", "deviceClose", "done") /\ UNCHANGED <<connVars, taken>>  BY <1>11 DEF vars
<1>12. QED  BY <1>1, <1>2, <1>3, <1>4, <1>5, <1>6, <1>7, <1>8, <1>9, <1>10, <1>11 DEF Main, ForceClose, Return

\* Nor does the goroutine that watches the context.
LEMMA CloserOrder == ASSUME Inv, OrderInv, Closer PROVE OrderInv'
<1> USE MovesBy, OrderQuiet DEF Moves, Threads, connVars, fieldVars, socketVars, writeVars, bridgeVars
<1>1. CASE WatchContext  BY <1>1 DEF WatchContext, Step
<1>2. CASE DeviceClose("closer", "deviceClose", "hostClose")  BY <1>2 DEF DeviceClose
<1>3. CASE HostClose("closer", "hostClose", "sockClose", "done")  BY <1>3 DEF HostClose, MarkClosed, CloseSocket
<1>4. CASE SockClose("closer", "sockClose", "done")  BY <1>4 DEF SockClose, CloseSocket
<1>5. QED  BY <1>1, <1>2, <1>3, <1>4 DEF Closer, CloseBoth, HostCloses

\* Nor does Engine.Close.
LEMMA EngineOrder == ASSUME Inv, OrderInv, Engine PROVE OrderInv'
<1> USE MovesBy, OrderQuiet DEF Moves, Threads, connVars, fieldVars, socketVars, writeVars, bridgeVars
<1>1. CASE Cancel  BY <1>1 DEF Cancel
<1>2. CASE CloseStack  BY <1>2 DEF CloseStack
<1>3. CASE AwaitFlows  BY <1>3 DEF AwaitFlows, Step
<1>4. QED  BY <1>1, <1>2, <1>3 DEF Engine

\* Nor do the peers.
LEMMA EndsOrder == ASSUME Inv, OrderInv, ClientEnds \/ UpstreamEnds \/ UNCHANGED vars PROVE OrderInv'
<1> USE MovesBy, OrderQuiet DEF Moves, Threads, connVars, fieldVars, socketVars, writeVars, bridgeVars
<1>1. CASE ClientEnds  BY <1>1 DEF ClientEnds
<1>2. CASE UpstreamEnds  BY <1>2 DEF UpstreamEnds
<1>3. CASE UNCHANGED vars  BY <1>3 DEF vars
<1>4. QED  BY <1>1, <1>2, <1>3

\* The copy towards the host reads, buffers and sends bytes in their order.
LEMMA UpOrder == ASSUME Inv, OrderInv, Up PROVE OrderInv'
<1>0. /\ stream \in Streams /\ taken \in Nat /\ tunnel \in Seq(Nat) /\ pending \in Seq(Nat) /\ out \in Seq(Nat)
      /\ Len(tunnel) \in Nat /\ Len(pending) \in Nat /\ Len(out) \in Nat
      /\ Run(tunnel, 0) /\ Run(pending, Len(tunnel)) /\ Run(out, Len(tunnel) + Len(pending))
  BY DEF OrderInv, Bytes
<1>e. <<>> \in Seq(Nat) /\ Len(<<>>) = 0 /\ \A a : Run(<<>>, a)  BY DEF Run
<1> USE DEF connVars, fieldVars, socketVars, writeVars, bridgeVars
\* The bytes in hand are dropped.
<1>d. ASSUME out' = <<>>, UNCHANGED <<stream, taken, tunnel, pending>>, pc'["up"] = "closeWrite",
             (connection \/ ~proxied)' => pending = <<>>
      PROVE  OrderInv'
  <2>1. Bytes'  BY <1>0, <1>e, <1>d DEF OrderInv, Bytes, Given, Run
  <2>2. Buffered'  BY <1>d DEF OrderInv, Buffered, proxied
  <2>3. QED  BY <2>1, <2>2 DEF OrderInv
\* The bytes in hand are joined to the buffered ones and leave for the socket.
<1>j. ASSUME out' = pending \o out, pending' = <<>>, UNCHANGED <<stream, taken, tunnel, connection>>,
             Moves("up", "write", "dial")
      PROVE  OrderInv'
  <2>1. out' \in Seq(Nat) /\ Len(out') = Len(pending) + Len(out) /\ Run(out', Len(tunnel))
    BY <1>0, <1>j, RunConcat
  <2>2. pc["up"] = "write" /\ pc'["up"] = "dial"  BY <1>j DEF Moves
  <2>3. Len(tunnel) + Len(pending) + Len(out) = taken  BY <2>2 DEF OrderInv, Bytes, Given
  <2>4. Bytes'  BY <1>0, <1>e, <1>j, <2>1, <2>3 DEF Bytes, Run
  <2>5. Buffered'  BY <1>j, <2>2 DEF Buffered
  <2>6. QED  BY <2>4, <2>5 DEF OrderInv
<1>1. ASSUME NEW k \in 1 .. stream.size, ReadDevice(k) PROVE OrderInv'
  <2>1. k \in Nat  BY <1>0, <1>1, StreamsAssumption
  <2>2. pc["up"] = "read" /\ pc'["up"] = "write"  BY <1>1, MovesBy DEF ReadDevice, Moves, Threads
  <2>3. out = <<>> /\ Len(tunnel) + Len(pending) = taken
    BY <1>0, <2>2 DEF OrderInv, Bytes, Buffered, Given
  <2>4. out' = [i \in 1 .. k |-> taken + i]  BY <1>1 DEF ReadDevice
  <2>5. out' \in Seq(Nat) /\ Len(out') = k /\ Run(out', taken)  BY <1>0, <2>1, <2>4 DEF Run
  <2>6. taken' = taken + k /\ UNCHANGED <<stream, tunnel, pending, connection>>  BY <1>1 DEF ReadDevice
  <2>7. Bytes'
    <3>1. Run(tunnel, 0)' /\ Run(pending, Len(tunnel))'  BY <1>0, <2>6 DEF Run
    <3>2. Run(out, Len(tunnel) + Len(pending))'  BY <2>3, <2>5, <2>6 DEF Run
    <3>3. (Len(tunnel) + Len(pending) + Len(out) = taken)'  BY <1>0, <2>1, <2>3, <2>5, <2>6
    <3>4. taken' \in Nat /\ (Len(tunnel) + Len(pending) + Len(out) <= taken)'  BY <1>0, <2>1, <2>6, <3>3
    <3>5. QED  BY <1>0, <2>5, <2>6, <3>1, <3>2, <3>3, <3>4 DEF Bytes
  <2>8. Buffered'  BY <2>2, <2>6 DEF OrderInv, Buffered, proxied
  <2>9. QED  BY <2>7, <2>8 DEF OrderInv
<1>2. CASE DeviceEnds  BY <1>2, MovesBy, OrderQuiet DEF DeviceEnds, Moves, Threads, Given
<1>3. CASE Write
  <2>0. UNCHANGED <<stream, taken, tunnel, connection>>  BY <1>3 DEF Write
  <2>1. CASE Through /\ Goto("up", "write", "send")
    <3>1. pc["up"] = "write" /\ pc'["up"] = "send" /\ UNCHANGED <<pending, out>> /\ (connection \/ ~proxied)
      BY <2>1, MovesBy DEF Through, Moves, Threads
    <3>2. pending = <<>>  BY <3>1 DEF OrderInv, Buffered
    <3>3. Bytes'  BY <2>0, <3>1 DEF OrderInv, Bytes, Run, Given
    <3>4. Buffered'  BY <2>0, <3>1, <3>2 DEF Buffered
    <3>5. QED  BY <3>3, <3>4 DEF OrderInv
  <2>2. CASE Overflows /\ Goto("up", "write", "dial")
    BY <1>j, <2>0, <2>2, MovesBy DEF Overflows, Threads
  <2>3. CASE Decides /\ Goto("up", "write", "dial")
    BY <1>j, <2>0, <2>3, MovesBy DEF Decides, Threads
  <2>4. CASE Buffers /\ Goto("up", "write", "read")
    <3>1. pc["up"] = "write" /\ pc'["up"] = "read" /\ pending' = pending \o out /\ out' = <<>>
          /\ proxied /\ ~connection
      BY <2>4, MovesBy DEF Buffers, Unsettled, Moves, Threads
    <3>2. pending' \in Seq(Nat) /\ Len(pending') = Len(pending) + Len(out) /\ Run(pending', Len(tunnel))
      BY <1>0, <3>1, RunConcat
    <3>3. Len(tunnel) + Len(pending) + Len(out) = taken  BY <3>1 DEF OrderInv, Bytes, Given
    <3>4. Bytes'  BY <1>0, <1>e, <2>0, <3>1, <3>2, <3>3 DEF Bytes, Run
    <3>5. Buffered'  BY <2>0, <3>1 DEF Buffered, proxied
    <3>6. QED  BY <3>4, <3>5 DEF OrderInv
  <2>5. CASE Refused /\ Goto("up", "write", "closeWrite") /\ out' = <<>> /\ UNCHANGED <<pending, target>>
    <3>1. pc'["up"] = "closeWrite"  BY <2>5, MovesBy DEF Moves, Threads
    <3>2. (connection \/ ~proxied)' => pending = <<>>  BY <2>0 DEF OrderInv, Buffered, proxied
    <3>3. QED  BY <1>d, <2>0, <2>5, <3>1, <3>2
  <2>6. QED  BY <1>3, <2>1, <2>2, <2>3, <2>4, <2>5 DEF Write
<1>4. ASSUME NEW ok \in BOOLEAN, DialProxy(ok), NEW to \in {"connect", "install"}, Goto("up", "dial", to),
             UNCHANGED <<stream, bridgeVars>>
      PROVE  OrderInv'
  BY <1>4, MovesBy, OrderQuiet DEF DialProxy, Moves, Threads
<1>5. ASSUME NEW ok \in BOOLEAN, performConnect(ok), Goto("up", "connect", "install"),
             UNCHANGED <<stream, bridgeVars>>
      PROVE  OrderInv'
  BY <1>5, MovesBy, OrderQuiet DEF performConnect, Moves, Threads
<1>6. CASE /\ Install /\ UNCHANGED <<stream, bridgeVars>>
           /\ Goto("up", "install", IF closed \/ dialError THEN "closeWrite" ELSE "send")
  <2>1. pc["up"] = "install"  BY <1>6 DEF Goto
  <2>2. pending = <<>>  BY <2>1 DEF OrderInv, Buffered
  <2>3. CASE closed \/ dialError
    <3>1. pc'["up"] = "closeWrite"  BY <1>6, <2>3, MovesBy DEF Moves, Threads
    <3>2. QED  BY <1>6, <1>d, <2>2, <2>3, <3>1 DEF Install
  <2>4. CASE ~(closed \/ dialError)
    <3>1. pc'["up"] = "send"  BY <1>6, <2>4, MovesBy DEF Moves, Threads
    <3>2. UNCHANGED <<stream, taken, tunnel, pending, out>>  BY <1>6, <2>4 DEF Install
    <3>3. Bytes'  BY <2>1, <3>1, <3>2 DEF OrderInv, Bytes, Run, Given
    <3>4. Buffered'  BY <2>2, <3>1, <3>2 DEF Buffered
    <3>5. QED  BY <3>3, <3>4 DEF OrderInv
  <2>5. QED  BY <2>3, <2>4
<1>7. CASE WriteHost
  <2>0. UNCHANGED <<stream, taken, pending, connection>> /\ pc["up"] = "send" /\ pending = <<>>
    BY <1>7 DEF WriteHost, Send, SendFails, Goto, OrderInv, Buffered
  <2>1. ASSUME NEW k \in 1 .. Len(out), Send(k), Goto("up", "send", IF k = Len(out) THEN "read" ELSE "send")
        PROVE  OrderInv'
    <3>1. tunnel' = tunnel \o SubSeq(out, 1, k) /\ out' = SubSeq(out, k + 1, Len(out))  BY <2>1 DEF Send
    <3>2. Run(out, Len(tunnel))  BY <1>0, <1>e, <2>0 DEF Run
    <3>3. /\ SubSeq(out, 1, k) \in Seq(Nat) /\ Len(SubSeq(out, 1, k)) = k /\ Run(SubSeq(out, 1, k), 0 + Len(tunnel))
          /\ out' \in Seq(Nat) /\ Len(out') = Len(out) - k /\ Run(out', Len(tunnel) + k)
      BY <1>0, <3>1, <3>2, RunPieces
    <3>4. tunnel' \in Seq(Nat) /\ Len(tunnel') = Len(tunnel) + k /\ Run(tunnel', 0)
      <4>1. PICK t : t = SubSeq(out, 1, k)  OBVIOUS
      <4>2. t \in Seq(Nat) /\ Len(t) = k /\ Run(t, 0 + Len(tunnel)) /\ tunnel' = tunnel \o t /\ 0 \in Nat
        BY <3>1, <3>3, <4>1
      <4>3. QED  BY <1>0, <4>2, RunConcat
    <3>5. Len(tunnel) + Len(out) = taken  BY <1>0, <1>e, <2>0 DEF OrderInv, Bytes, Given
    <3>6. Bytes'
      <4>1. Run(tunnel, 0)' /\ Run(pending, Len(tunnel))'  BY <1>e, <2>0, <3>4 DEF Run
      <4>2. Len(pending') = 0 /\ pending' \in Seq(Nat)  BY <1>e, <2>0
      <4>3. Len(tunnel') + Len(pending') = Len(tunnel) + k  BY <1>0, <3>4, <4>2
      <4>4. Run(out, Len(tunnel) + Len(pending))'  BY <3>3, <4>3 DEF Run
      <4>5. (Len(tunnel) + Len(pending) + Len(out) = taken)'
        <5>1. Len(out') = Len(out) - k /\ taken' = taken /\ k \in Nat  BY <1>0, <2>0, <2>1, <3>3
        <5>2. \A a, b, n \in Nat : (a + n) + 0 + (b - n) = a + b  OBVIOUS
        <5>3. Len(tunnel') = Len(tunnel) + k /\ Len(pending') = 0  BY <3>4, <4>2
        <5>4. (Len(tunnel) + k) + 0 + (Len(out) - k) = Len(tunnel) + Len(out)  BY <1>0, <5>1, <5>2
        <5>5. QED  BY <3>5, <5>1, <5>3, <5>4
      <4>6. (Len(tunnel) + Len(pending) + Len(out) <= taken)'  BY <1>0, <2>0, <4>5
      <4>7. QED  BY <1>0, <2>0, <3>3, <3>4, <4>1, <4>2, <4>4, <4>5, <4>6 DEF Bytes
    <3>7. pc'["up"] = IF k = Len(out) THEN "read" ELSE "send"  BY <2>1, MovesBy DEF Moves, Threads
    <3>8. k = Len(out) => out' = <<>>  BY <1>0, <3>3
    <3>9. Buffered'  BY <2>0, <3>7, <3>8 DEF OrderInv, Buffered, proxied
    <3>10. QED  BY <3>6, <3>9 DEF OrderInv
  <2>2. CASE SendFails /\ Goto("up", "send", "closeWrite")
    <3>1. pc'["up"] = "closeWrite" /\ out' = <<>> /\ tunnel' = tunnel
      BY <2>2, MovesBy DEF Moves, Threads, SendFails
    <3>2. QED  BY <1>d, <2>0, <3>1
  <2>3. QED  BY <1>7, <2>1, <2>2 DEF WriteHost
<1>8. CASE CloseWrite  BY <1>8, MovesBy, OrderQuiet DEF CloseWrite, Moves, Threads, Given
<1>9. CASE Finish  BY <1>9, MovesBy, OrderQuiet DEF Finish, FinishSocket, Moves, Threads, Given
<1>10. CASE HostClose("up", "hostClose", "sockClose", "done")
  BY <1>10, MovesBy, OrderQuiet DEF HostClose, MarkClosed, CloseSocket, Moves, Threads, Given
<1>11. CASE SockClose("up", "sockClose", "done")
  BY <1>11, MovesBy, OrderQuiet DEF SockClose, CloseSocket, Moves, Threads, Given
<1>12. QED
  BY <1>1, <1>2, <1>3, <1>4, <1>5, <1>6, <1>7, <1>8, <1>9, <1>10, <1>11 DEF Up, Establish, HostCloses

\* Every step preserves the order.
LEMMA OrderStep == Inv /\ OrderInv /\ [Next]_vars => OrderInv'
  BY HandlerOrder, UpOrder, DownOrder, MainOrder, CloserOrder, EngineOrder, EndsOrder DEF Next

\* There are no bytes at first.
LEMMA InitOrder == Init => OrderInv
  BY DEF Init, ConnInit, OrderInv, Bytes, Buffered, Run, Threads

\* What reaches the host is a prefix of what the device sent, however the bytes are cut
\* into reads, held back for the sniffer and cut into writes (Write, establish).
THEOREM ArrivesInOrder == Spec => []InOrder
<1>1. ASSUME OrderInv PROVE InOrder
  <2> DEFINE all == [i \in 1 .. taken |-> i]
  <2>1. /\ taken \in Nat /\ tunnel \in Seq(Nat) /\ Len(tunnel) \in Nat /\ Len(tunnel) <= taken
        /\ \A i \in 1 .. Len(tunnel) : tunnel[i] = i
    BY <1>1 DEF OrderInv, Bytes, Run
  <2>2. all \in Seq(Nat) /\ Len(all) = taken /\ \A i \in 1 .. taken : all[i] = i  BY <2>1
  <2> HIDE DEF all
  <2>3. SubSeq(tunnel, 1, Len(tunnel)) = SubSeq(all, 1, Len(tunnel))  BY <2>1, <2>2
  <2>4. IsPrefix(tunnel, all)  BY <2>1, <2>2, <2>3 DEF IsPrefix
  <2>5. QED  BY <2>4 DEF InOrder, all
<1>2. QED  BY <1>1, InitInv, InvStep, InitOrder, OrderStep, PTL DEF Spec

-----------------------------------------------------------------------------
(* The flow is a pipe *)

\* Who the flow talks to is settled before the socket is open, and once.
Chosen ==
    /\ pc["handler"] = "dial" => target = "none"
    /\ ~proxied /\ (pc["handler"] \in {"accept", "start"} \/ pc["main"] # "none") => target # "none"
    /\ connection => target # "none"
    /\ pc["up"] \in {"dial", "connect", "install", "send"} => target # "none"
    /\ proxied /\ ~connection /\ pc["up"] \in {"none", "read", "write"} => target = "none" /\ socket = "none"

\* While up establishes the connection nobody else touches the socket.
Untouched ==
    /\ pc["up"] = "dial" => socket = "none"
    /\ pc["up"] = "connect" => socket = "dialled"
    /\ pc["up"] = "install" /\ ~dialError => socket = "dialled"
    /\ pc["down"] = "sockClose" \/ pc["main"] \in {"sockClose", "forceSock"} \/ pc["closer"] = "sockClose"
           => connection

PipeInv == Chosen /\ Untouched

\* A step in which no bytes move.
LEMMA PipeQuiet ==
    ASSUME UNCHANGED <<taken, tunnel, target>>,
           \/ socket' = socket \/ socket' \in {"finished", "closed"}
           \/ socket \notin {"finished", "closed"} /\ socket' \notin {"finished", "closed"}
    PROVE  [Pipe!Next]_(Pipe!vars)
<1>1. CASE socket' \in {"finished", "closed"}
  <2>1. Pipe!End  BY <1>1 DEF Pipe!End
  <2>2. QED  BY <2>1 DEF Pipe!Next
<1>2. CASE socket' \notin {"finished", "closed"}
  BY <1>2 DEF Pipe!vars
<1>3. QED  BY <1>1, <1>2

\* The peer is chosen.
LEMMA PipeChoose ==
    ASSUME UNCHANGED <<taken, tunnel>>, target = "none", target' \in {"hostname", "destination"},
           socket \notin {"finished", "closed"}, socket' \notin {"finished", "closed"}
    PROVE  [Pipe!Next]_(Pipe!vars)
<1>1. Pipe!Choose(target')  BY DEF Pipe!Choose
<1>2. QED  BY <1>1 DEF Pipe!Next

\* handleTCP chooses the peer of a direct flow, and that is a step of the pipe.
LEMMA HandlerPipe == ASSUME Inv, PipeInv, Handler PROVE PipeInv' /\ [Pipe!Next]_(Pipe!vars)
<1> USE MovesBy, PipeQuiet DEF Inv, Stages, Early, Establishing, PipeInv, Chosen, Untouched, proxied, Threads, Moves, connVars, fieldVars, socketVars, writeVars, bridgeVars
<1>1. CASE Dial  BY <1>1, PipeChoose DEF Dial
<1>2. CASE CreateEndpoint  BY <1>2 DEF CreateEndpoint
<1>3. CASE CreateEndpointFails  BY <1>3 DEF CreateEndpointFails, MarkClosed, CloseSocket
<1>4. CASE StartBridge  BY <1>4, StartSets DEF StartBridge
<1>5. QED  BY <1>1, <1>2, <1>3, <1>4 DEF Handler

\* The copy towards the device at most ends the pipe.
LEMMA DownPipe == ASSUME Inv, PipeInv, Down PROVE PipeInv' /\ [Pipe!Next]_(Pipe!vars)
<1> USE MovesBy, PipeQuiet DEF Inv, Stages, Early, Establishing, PipeInv, Chosen, Untouched, proxied, Threads, Moves, connVars, fieldVars, socketVars, writeVars, bridgeVars
<1>1. CASE AwaitReady  BY <1>1 DEF AwaitReady
<1>2. CASE Receive  BY <1>2 DEF Receive
<1>3. CASE HostEnds  BY <1>3 DEF HostEnds
<1>4. CASE WriteDevice  BY <1>4 DEF WriteDevice
<1>5. CASE CloseRead  BY <1>5 DEF CloseRead
<1>6. CASE HostClose("down", "hostClose", "sockClose", "done")  BY <1>6 DEF HostClose, MarkClosed, CloseSocket
<1>7. CASE SockClose("down", "sockClose", "done")  BY <1>7 DEF SockClose, CloseSocket
<1>8. QED  BY <1>1, <1>2, <1>3, <1>4, <1>5, <1>6, <1>7 DEF Down, HostCloses

\* bridgeTCP at most ends the pipe.
LEMMA MainPipe == ASSUME Inv, PipeInv, Main PROVE PipeInv' /\ [Pipe!Next]_(Pipe!vars)
<1> USE MovesBy, PipeQuiet DEF Inv, Stages, Early, Establishing, PipeInv, Chosen, Untouched, proxied, Threads, Moves, connVars, fieldVars, socketVars, writeVars, bridgeVars
<1>1. CASE AwaitFirst  BY <1>1 DEF AwaitFirst, Step
<1>2. CASE AwaitDrain  BY <1>2 DEF AwaitDrain, Step
<1>3. CASE AwaitSecond  BY <1>3 DEF AwaitSecond, Step
<1>4. CASE DrainExpires  BY <1>4 DEF DrainExpires, Step
<1>5. CASE DeviceClose("main", "forceDevice", "forceHost")  BY <1>5 DEF DeviceClose
<1>6. CASE HostClose("main", "forceHost", "forceSock", "second")  BY <1>6 DEF HostClose, MarkClosed, CloseSocket
<1>7. CASE SockClose("main", "forceSock", "second")  BY <1>7 DEF SockClose, CloseSocket
<1>8. CASE Step("main", "stop", "hostClose")  BY <1>8 DEF Step
<1>9. CASE HostClose("main", "hostClose", "sockClose", "deviceClose")  BY <1>9 DEF HostClose, MarkClosed, CloseSocket
<1>10. CASE SockClose("main", "sockClose", "deviceClose")  BY <1>10 DEF SockClose, CloseSocket
<1>11. CASE Goto("main", "deviceClose", "done") /\ UNCHANGED <<connVars, taken>>  BY <1>11 DEF vars
<1>12. QED  BY <1>1, <1>2, <1>3, <1>4, <1>5, <1>6, <1>7, <1>8, <1>9, <1>10, <1>11 DEF Main, ForceClose, Return

\* So does the goroutine that watches the context.
LEMMA CloserPipe == ASSUME Inv, PipeInv, Closer PROVE PipeInv' /\ [Pipe!Next]_(Pipe!vars)
<1> USE MovesBy, PipeQuiet DEF Inv, Stages, Early, Establishing, PipeInv, Chosen, Untouched, proxied, Threads, Moves, connVars, fieldVars, socketVars, writeVars, bridgeVars
<1>1. CASE WatchContext  BY <1>1 DEF WatchContext, Step
<1>2. CASE DeviceClose("closer", "deviceClose", "hostClose")  BY <1>2 DEF DeviceClose
<1>3. CASE HostClose("closer", "hostClose", "sockClose", "done")  BY <1>3 DEF HostClose, MarkClosed, CloseSocket
<1>4. CASE SockClose("closer", "sockClose", "done")  BY <1>4 DEF SockClose, CloseSocket
<1>5. QED  BY <1>1, <1>2, <1>3, <1>4 DEF Closer, CloseBoth, HostCloses

\* Engine.Close does not touch the pipe itself.
LEMMA EnginePipe == ASSUME Inv, PipeInv, Engine PROVE PipeInv' /\ [Pipe!Next]_(Pipe!vars)
<1> USE MovesBy, PipeQuiet DEF Inv, Stages, Early, Establishing, PipeInv, Chosen, Untouched, proxied, Threads, Moves, connVars, fieldVars, socketVars, writeVars, bridgeVars
<1>1. CASE Cancel  BY <1>1 DEF Cancel
<1>2. CASE CloseStack  BY <1>2 DEF CloseStack
<1>3. CASE AwaitFlows  BY <1>3 DEF AwaitFlows, Step
<1>4. QED  BY <1>1, <1>2, <1>3 DEF Engine

\* Nor do the peers.
LEMMA EndsPipe == ASSUME Inv, PipeInv, ClientEnds \/ UpstreamEnds \/ UNCHANGED vars PROVE PipeInv' /\ [Pipe!Next]_(Pipe!vars)
<1> USE MovesBy, PipeQuiet DEF Inv, Stages, Early, Establishing, PipeInv, Chosen, Untouched, proxied, Threads, Moves, connVars, fieldVars, socketVars, writeVars, bridgeVars
<1>1. CASE ClientEnds  BY <1>1 DEF ClientEnds
<1>2. CASE UpstreamEnds  BY <1>2 DEF UpstreamEnds
<1>3. CASE UNCHANGED vars  BY <1>3 DEF vars
<1>4. QED  BY <1>1, <1>2, <1>3

\* The copy towards the host takes, chooses, lets arrive or ends, one at a time.
LEMMA UpPipe == ASSUME Inv, OrderInv, PipeInv, Up PROVE PipeInv' /\ [Pipe!Next]_(Pipe!vars)
<1> USE MovesBy DEF Inv, Stages, Early, Establishing, PipeInv, Chosen, Untouched, proxied, Threads, Moves,
        connVars, fieldVars, socketVars, writeVars, bridgeVars
<1>1. ASSUME NEW k \in 1 .. stream.size, ReadDevice(k) PROVE PipeInv' /\ [Pipe!Next]_(Pipe!vars)
  <2>1. k \in Nat /\ k > 0 /\ taken \in Nat  BY StreamsAssumption DEF OrderInv, Bytes
  <2>2. PipeInv'  BY <1>1 DEF ReadDevice
  <2>3. Pipe!Take  BY <1>1, <2>1 DEF ReadDevice, Pipe!Take
  <2>4. QED  BY <2>2, <2>3 DEF Pipe!Next
<1>2. CASE DeviceEnds  BY <1>2, PipeQuiet DEF DeviceEnds
<1>3. CASE Write
  <2>1. CASE Overflows /\ Goto("up", "write", "dial")
    BY <1>3, <2>1, PipeChoose DEF Write, Overflows, Unsettled
  <2>2. CASE Decides /\ Goto("up", "write", "dial")
    BY <1>3, <2>2, PipeChoose DEF Write, Decides, Unsettled
  <2>3. CASE ~(Overflows /\ Goto("up", "write", "dial")) /\ ~(Decides /\ Goto("up", "write", "dial"))
    BY <1>3, <2>3, PipeQuiet DEF Write, Through, Buffers
  <2>4. QED  BY <2>1, <2>2, <2>3
<1>4. CASE DialProxy(TRUE) /\ Goto("up", "dial", "connect") /\ UNCHANGED <<stream, bridgeVars>>
  BY <1>4, PipeQuiet DEF DialProxy
<1>5. CASE DialProxy(FALSE) /\ Goto("up", "dial", "install") /\ UNCHANGED <<stream, bridgeVars>>
  <2>1. dialError'  BY <1>5, Zenon DEF DialProxy
  <2>2. QED  BY <1>5, <2>1, PipeQuiet DEF DialProxy
<1>6. ASSUME NEW ok \in BOOLEAN, performConnect(ok), Goto("up", "connect", "install"),
             UNCHANGED <<stream, bridgeVars>>
      PROVE  PipeInv' /\ [Pipe!Next]_(Pipe!vars)
  <2>1. ok \/ dialError'  BY <1>6, Zenon DEF performConnect
  <2>2. QED  BY <1>6, <2>1, PipeQuiet DEF performConnect
<1>7. CASE /\ Install /\ UNCHANGED <<stream, bridgeVars>>
           /\ Goto("up", "install", IF closed \/ dialError THEN "closeWrite" ELSE "send")
  <2>0. UNCHANGED <<stream, taken, tunnel, target>> /\ pc["up"] = "install"  BY <1>7 DEF Install, Goto
  <2>1. CASE closed \/ dialError
    <3>1. ~connection'  BY <1>7, <2>1, Zenon DEF Install
    <3>2. socket' = IF socket = "dialled" THEN "closed" ELSE socket  BY <1>7, <2>1 DEF Install
    <3>3. Moves("up", "install", "closeWrite")  BY <1>7, <2>1
    <3>4. QED  BY <2>0, <3>1, <3>2, <3>3, PipeQuiet
  <2>2. CASE ~(closed \/ dialError)
    <3>1. connection' /\ socket' = "open"  BY <1>7, <2>2, Zenon DEF Install
    <3>2. Moves("up", "install", "send")  BY <1>7, <2>2
    <3>3. socket = "dialled"  BY <2>0, <2>2
    <3>4. QED  BY <2>0, <3>1, <3>2, <3>3, PipeQuiet
  <2>3. QED  BY <2>1, <2>2
<1>8. CASE WriteHost
  <2>1. ASSUME NEW k \in 1 .. Len(out), Send(k), Goto("up", "send", IF k = Len(out) THEN "read" ELSE "send")
        PROVE  PipeInv' /\ [Pipe!Next]_(Pipe!vars)
    <3>1. pc["up"] = "send"  BY <2>1 DEF Goto
    <3>2. UNCHANGED <<stream, connection, socket, target, dialError, taken>> /\ socket = "open" /\ target # "none"
      BY <1>8, <2>1, <3>1 DEF WriteHost, Send, Writable
    <3>3. PipeInv'
      BY <2>1, <3>1, <3>2
    <3>4. tunnel \in Seq(Nat) /\ out \in Seq(Nat) /\ taken \in Nat /\ Len(tunnel) + Len(out) <= taken
          /\ Len(tunnel) \in Nat /\ Len(out) \in Nat
      BY <3>1 DEF OrderInv, Bytes, Buffered
    <3>5. Len(SubSeq(out, 1, k)) = k /\ SubSeq(out, 1, k) \in Seq(Nat)  BY <3>4
    <3>6. Len(tunnel') = Len(tunnel) + k  BY <2>1, <3>4, <3>5 DEF Send
    <3>7. Len(tunnel) + k <= taken /\ k \in 1 .. (taken - Len(tunnel))  BY <3>4
    <3>8. Pipe!Arrive(k)  BY <3>2, <3>6, <3>7 DEF Pipe!Arrive
    <3>9. QED  BY <3>3, <3>7, <3>8 DEF Pipe!Next
  <2>2. CASE SendFails /\ Goto("up", "send", "closeWrite")
    BY <1>8, <2>2, PipeQuiet DEF WriteHost, SendFails
  <2>3. QED  BY <1>8, <2>1, <2>2 DEF WriteHost
<1>9. CASE CloseWrite  BY <1>9, PipeQuiet DEF CloseWrite
<1>10. CASE Finish  BY <1>10, PipeQuiet DEF Finish, FinishSocket
<1>11. CASE HostClose("up", "hostClose", "sockClose", "done")
  BY <1>11, PipeQuiet DEF HostClose, MarkClosed, CloseSocket
<1>12. CASE SockClose("up", "sockClose", "done")  BY <1>12, PipeQuiet DEF SockClose, CloseSocket
<1>13. QED
  BY <1>1, <1>2, <1>3, <1>4, <1>5, <1>6, <1>7, <1>8, <1>9, <1>10, <1>11, <1>12 DEF Up, Establish, HostCloses

\* The flow implements the pipe that FlowPipe specifies: bytes are taken, arrive once and
\* in order at a peer chosen before, and nothing arrives after the end (bridgeTCP over
\* hostnameSniffingConn).
THEOREM IsPipe == Spec => ImplementsPipe
<1>1. Init => PipeInv /\ Pipe!Init
  BY DEF Init, ConnInit, PipeInv, Chosen, Untouched, Threads, Pipe!Init
<1>2. Inv /\ OrderInv /\ PipeInv /\ [Next]_vars => PipeInv' /\ [Pipe!Next]_(Pipe!vars)
  BY HandlerPipe, UpPipe, DownPipe, MainPipe, CloserPipe, EnginePipe, EndsPipe DEF Next
<1>3. QED
  BY <1>1, <1>2, InitInv, InvStep, InitOrder, OrderStep, PTL DEF Spec, ImplementsPipe, Pipe!Spec

-----------------------------------------------------------------------------
(* What the sniffer computes *)

\* The elements of a sequence.
LEMMA Elements ==
    ASSUME NEW S, NEW q \in Seq(S) PROVE Len(q) \in Nat /\ \A i \in 1 .. Len(q) : q[i] \in S
  OBVIOUS

\* The records of a stream.
LEMMA RecordTypes ==
    ASSUME NEW s, s.records \in Seq([handshake : BOOLEAN, length : Nat])
    PROVE  /\ Len(s.records) \in Nat
           /\ \A i \in 1 .. Len(s.records) : s.records[i].length \in Nat /\ s.records[i].handshake \in BOOLEAN
<1> DEFINE R == [handshake : BOOLEAN, length : Nat]
<1>1. \A r \in R : r.length \in Nat /\ r.handshake \in BOOLEAN  OBVIOUS
<1>2. s.records \in Seq(R)  OBVIOUS
<1> HIDE DEF R
<1>3. PICK q : q = s.records  OBVIOUS
<1>4. Len(q) \in Nat /\ \A i \in 1 .. Len(q) : q[i] \in R  BY <1>2, <1>3, Elements
<1>5. QED  BY <1>1, <1>3, <1>4

\* What the first k records carry is the sum of their lengths.
LEMMA CarriedStep ==
    ASSUME NEW s, s.records \in Seq([handshake : BOOLEAN, length : Nat])
    PROVE  /\ Carried(s, 0) = 0
           /\ \A k \in 1 .. Len(s.records) : Carried(s, k) = Carried(s, k - 1) + s.records[k].length
           /\ \A k \in 0 .. Len(s.records) : Carried(s, k) \in Nat
<1> DEFINE n == Len(s.records)
           turn == [i \in 1 .. n |-> [x \in Nat |-> x + s.records[i].length]]
           sum[i \in 0 .. n] == IF i = 0 THEN 0 ELSE sum[i - 1] + s.records[i].length
<1>1. n \in Nat /\ \A i \in 1 .. n : s.records[i].length \in Nat  BY RecordTypes
<1>2. turn \in [1 .. n -> [Nat -> Nat]]  BY <1>1
<1>3. PICK f \in [0 .. n -> Nat] : f[0] = 0 /\ \A i \in 1 .. n : f[i] = turn[i][f[i - 1]]
  <2> DEFINE S == Nat
  <2>1. turn \in Turns(n, S) /\ n \in Nat  BY <1>1, <1>2 DEF Turns
  <2>2. PICK z \in S : z = 0  OBVIOUS
  <2> HIDE DEF n, turn, S
  <2>3. \E f \in [0 .. n -> S] : f[0] = z /\ \A i \in 1 .. n : f[i] = turn[i][f[i - 1]]
    BY <2>1, <2>2, LoopStates
  <2>4. QED  BY <2>2, <2>3 DEF S
<1>4. ASSUME NEW i \in 0 .. n
      PROVE  f[i] = (IF i = 0 THEN 0 ELSE f[i - 1] + s.records[i].length)
  <2>1. CASE i = 0  BY <1>3, <2>1
  <2>2. CASE i # 0
    <3>1. i \in 1 .. n /\ i - 1 \in 0 .. n  BY <1>1, <2>2
    <3>2. f[i - 1] \in Nat  BY <3>1
    <3>3. QED  BY <1>3, <2>2, <3>1, <3>2
  <2>3. QED  BY <2>1, <2>2
<1>5. f = [i \in 0 .. n |-> IF i = 0 THEN 0 ELSE f[i - 1] + s.records[i].length]
  BY <1>3, <1>4
<1>6. sum = [i \in 0 .. n |-> IF i = 0 THEN 0 ELSE sum[i - 1] + s.records[i].length]
  BY <1>5
<1>7. \A k : Carried(s, k) = sum[k]  BY DEF Carried
<1> HIDE DEF sum, n
<1>8. \A k \in 1 .. n : sum[k] = sum[k - 1] + s.records[k].length  BY <1>1, <1>6
<1>9. sum[0] = 0  BY <1>1, <1>6
<1>10. \A k \in 0 .. n : sum[k] \in Nat
  <2> DEFINE P == {k \in 0 .. n : sum[k] \in Nat}
  <2>0. 0 \in P  BY <1>1, <1>9
  <2>1. ASSUME NEW i \in 1 .. n, i - 1 \in P PROVE i \in P
    <3>1. sum[i - 1] \in Nat /\ i \in 0 .. n  BY <1>1, <2>1
    <3>2. sum[i] = sum[i - 1] + s.records[i].length  BY <1>8
    <3>3. s.records[i].length \in Nat  BY <1>1
    <3>4. sum[i] \in Nat  BY <3>1, <3>2, <3>3
    <3>5. QED  BY <3>1, <3>4
  <2> HIDE DEF P
  <2>2. \A k \in 0 .. n : k \in P  BY <1>1, <2>0, <2>1, InductionUpTo
  <2>3. QED  BY <2>2 DEF P
<1>11. QED  BY <1>7, <1>8, <1>9, <1>10 DEF n

\* More records carry at least as much.
LEMMA CarriedGrows ==
    ASSUME NEW s, s.records \in Seq([handshake : BOOLEAN, length : Nat]),
           NEW j \in 0 .. Len(s.records), NEW k \in j .. Len(s.records)
    PROVE  Carried(s, j) <= Carried(s, k)
<1> DEFINE n == Len(s.records)
           P == {i \in 0 .. n : j <= i => Carried(s, j) <= Carried(s, i)}
<1>1. n \in Nat /\ \A i \in 1 .. n : s.records[i].length \in Nat  BY RecordTypes
<1>2. \A i \in 0 .. n : Carried(s, i) \in Nat  BY CarriedStep
<1>3. \A i \in 1 .. n : Carried(s, i) = Carried(s, i - 1) + s.records[i].length  BY CarriedStep
<1> HIDE DEF n
<1>4. j \in 0 .. n /\ k \in 0 .. n /\ j <= k  BY <1>1 DEF n
<1>5. 0 \in P  BY <1>1, <1>2, <1>4
<1>6. ASSUME NEW i \in 1 .. n, i - 1 \in P PROVE i \in P
  <2>1. i \in 0 .. n /\ i - 1 \in 0 .. n /\ (j <= i - 1 => Carried(s, j) <= Carried(s, i - 1))  BY <1>1, <1>6
  <2>2. Carried(s, i) = Carried(s, i - 1) + s.records[i].length  BY <1>3
  <2>3. s.records[i].length \in Nat /\ Carried(s, i - 1) \in Nat /\ Carried(s, j) \in Nat  BY <1>1, <1>2, <1>4, <2>1
  <2>4. j <= i => Carried(s, j) <= Carried(s, i)
    <3>1. CASE j = i  BY <2>2, <2>3, <3>1
    <3>2. CASE j # i  BY <1>1, <1>4, <2>1, <2>2, <2>3, <3>2
    <3>3. QED  BY <3>1, <3>2
  <2>5. QED  BY <2>1, <2>4
<1> HIDE DEF P
<1>7. \A i \in 0 .. n : i \in P  BY <1>1, <1>5, <1>6, InductionUpTo
<1>8. QED  BY <1>4, <1>7 DEF P

\* The least element of a set of record numbers.
LEMMA MinOf ==
    ASSUME NEW T, T \subseteq Nat, T # {} PROVE Min(T) \in T /\ \A n \in T : Min(T) <= n
  BY Least DEF Min

\* Where the first k records end.
LEMMA OffsetTypes ==
    ASSUME NEW s, s.records \in Seq([handshake : BOOLEAN, length : Nat]),
           NEW j \in 0 .. Len(s.records), NEW k \in j .. Len(s.records)
    PROVE  /\ Offset(s, j) \in Nat /\ Offset(s, k) \in Nat
           /\ j < k => Offset(s, j) < Offset(s, k) /\ Offset(s, k - 1) + RecordHeader <= Offset(s, k)
<1> DEFINE n == Len(s.records)
<1>1. n \in Nat /\ j \in Nat /\ k \in Nat /\ RecordHeader \in Nat \ {0}  BY RecordTypes, SizesAssumption
<1>2. Carried(s, j) \in Nat /\ Carried(s, k) \in Nat /\ Carried(s, j) <= Carried(s, k)
  BY <1>1, CarriedStep, CarriedGrows
<1>3. \A a, b, c \in Nat : a * c \in Nat /\ (a < b /\ c > 0 => a * c + c <= b * c)
  <2>1. ASSUME NEW a \in Nat, NEW b \in Nat, NEW c \in Nat, a < b, c > 0 PROVE a * c + c <= b * c
    <3>1. PICK d \in Nat : b = a + 1 + d
      <4>1. b - a - 1 \in Nat /\ b = a + 1 + (b - a - 1)  BY <2>1
      <4>2. QED  BY <4>1
    <3>2. b * c = a * c + c + d * c  BY <3>1
    <3>3. d * c \in Nat /\ a * c \in Nat  OBVIOUS
    <3>4. QED  BY <3>2, <3>3
  <2>2. \A a, c \in Nat : a * c \in Nat  OBVIOUS
  <2>3. QED  BY <2>1, <2>2
<1>4. Offset(s, j) \in Nat /\ Offset(s, k) \in Nat
  <2>1. j * RecordHeader \in Nat /\ k * RecordHeader \in Nat  BY <1>1, <1>3
  <2>2. QED  BY <1>2, <2>1 DEF Offset
<1>5. ASSUME j < k PROVE Offset(s, j) < Offset(s, k)
  <2>1. j * RecordHeader + RecordHeader <= k * RecordHeader /\ j * RecordHeader \in Nat /\ k * RecordHeader \in Nat
    BY <1>1, <1>3, <1>5
  <2>2. \A p, q, x, y, h \in Nat : p <= q /\ x + h <= y /\ h > 0 => p + x < q + y  OBVIOUS
  <2> DEFINE x == j * RecordHeader
             y == k * RecordHeader
  <2>5. x \in Nat /\ y \in Nat /\ x + RecordHeader <= y /\ RecordHeader \in Nat /\ RecordHeader > 0  BY <1>1, <2>1
  <2> HIDE DEF x, y
  <2>3. Carried(s, j) + x < Carried(s, k) + y  BY <1>2, <2>2, <2>5
  <2>4. QED  BY <2>3 DEF Offset, x, y
<1>6. ASSUME j < k PROVE Offset(s, k - 1) + RecordHeader <= Offset(s, k)
  <2>1. k - 1 \in 0 .. Len(s.records) /\ k - 1 \in Nat /\ k - 1 < k /\ k \in k - 1 .. Len(s.records)  BY <1>1, <1>6
  <2>2. Carried(s, k - 1) \in Nat /\ Carried(s, k - 1) <= Carried(s, k)  BY <1>1, <2>1, CarriedStep, CarriedGrows
  <2>3. /\ (k - 1) * RecordHeader + RecordHeader <= k * RecordHeader
        /\ (k - 1) * RecordHeader \in Nat /\ k * RecordHeader \in Nat
    BY <1>1, <1>3, <2>1
  <2>4. QED  BY <1>1, <1>2, <2>2, <2>3 DEF Offset
<1>7. QED  BY <1>4, <1>5, <1>6

\* The record that completes the ClientHello, if the stream names a host.
LEMMA HelloComplete ==
    ASSUME NEW s, s.records \in Seq([handshake : BOOLEAN, length : Nat]), s.tls, NamedAfter(s) # 0
    PROVE  /\ HelloRecords(s) \in 1 .. Len(s.records)
           /\ Carried(s, HelloRecords(s)) >= HandshakeHeader + s.hello
           /\ \A k \in 1 .. Len(s.records) :
                 Carried(s, k) >= HandshakeHeader + s.hello => HelloRecords(s) <= k
<1> DEFINE last == HelloRecords(s)
           ends == {k \in 1 .. Len(s.records) : Carried(s, k) >= HandshakeHeader + s.hello}
<1>1. last # 0  BY DEF NamedAfter
<1>2. ends # {} /\ last = Min(ends)  BY <1>1 DEF HelloRecords
<1>3. ends \subseteq Nat  BY RecordTypes
<1>4. last \in ends /\ \A k \in ends : last <= k
  <2> HIDE DEF ends, last
  <2>1. QED  BY <1>2, <1>3, MinOf
<1>5. QED  BY <1>4

\* Every turn of the loop before the record that completes the ClientHello goes on to the
\* next one, once that record has arrived; it decides nothing earlier, and it resolves.
LEMMA HelloSteps ==
    ASSUME NEW s, s.records \in Seq([handshake : BOOLEAN, length : Nat]), s.hello \in Nat,
           s.isHello \in BOOLEAN, s.named \in BOOLEAN, NEW n \in Nat, s.tls, NamedAfter(s) # 0
    PROVE  LET last == HelloRecords(s)
           IN  /\ last \in 1 .. Len(s.records) /\ NamedAfter(s) = Offset(s, last)
               /\ \A k \in 1 .. last : HelloStep(s, n, k) # "unavailable"
               /\ n >= Offset(s, last) => HelloStep(s, n, last) = "resolved"
               /\ \A k \in 1 .. last - 1 : /\ HelloStep(s, n, k) # "resolved"
                                           /\ n >= Offset(s, last) => HelloStep(s, n, k) = "next"
<1> DEFINE last == HelloRecords(s)
<1>1. /\ last # 0 /\ s.isHello /\ s.named /\ Carried(s, last) <= MaxInitial
      /\ \A k \in 1 .. last : s.records[k].handshake /\ s.records[k].length > 0
      /\ NamedAfter(s) = Offset(s, last)
  BY DEF NamedAfter
<1>3. /\ last \in 1 .. Len(s.records) /\ Carried(s, last) >= HandshakeHeader + s.hello
      /\ \A k \in 1 .. Len(s.records) : Carried(s, k) >= HandshakeHeader + s.hello => last <= k
  BY HelloComplete
<1> HIDE DEF last
<1>4. Len(s.records) \in Nat /\ HandshakeHeader \in Nat \ {0} /\ RecordHeader \in Nat /\ MaxInitial \in Nat
  BY RecordTypes, SizesAssumption
<1>5. ASSUME NEW k \in 1 .. last
      PROVE  /\ k \in 1 .. Len(s.records) /\ last \in k .. Len(s.records)
             /\ Carried(s, k) \in Nat /\ Carried(s, last) \in Nat /\ Carried(s, k) <= MaxInitial
             /\ Offset(s, k) \in Nat /\ Offset(s, k - 1) \in Nat /\ Offset(s, last) \in Nat
             /\ Offset(s, k - 1) + RecordHeader <= Offset(s, k)
             /\ k < last => Offset(s, k) < Offset(s, last) /\ Carried(s, k) < HandshakeHeader + s.hello
  <2>1. k \in 1 .. Len(s.records) /\ last \in k .. Len(s.records) /\ k - 1 \in 0 .. Len(s.records)
        /\ k \in k - 1 .. Len(s.records) /\ k \in 0 .. Len(s.records) /\ last \in 0 .. Len(s.records) /\ k - 1 < k
    BY <1>3, <1>4
  <2>2. Carried(s, k) \in Nat /\ Carried(s, last) \in Nat /\ Carried(s, k) <= Carried(s, last)
    BY <2>1, CarriedStep, CarriedGrows
  <2>3. Offset(s, k) \in Nat /\ Offset(s, last) \in Nat /\ (k < last => Offset(s, k) < Offset(s, last))
    BY <2>1, OffsetTypes
  <2>4. Offset(s, k - 1) \in Nat /\ Offset(s, k - 1) + RecordHeader <= Offset(s, k)  BY <2>1, OffsetTypes
  <2>5. k < last => Carried(s, k) < HandshakeHeader + s.hello
    <3>1. k < last => ~(Carried(s, k) >= HandshakeHeader + s.hello)  BY <1>3, <1>4, <2>1
    <3>2. QED  BY <1>4, <2>2, <3>1
  <2>6. QED  BY <1>1, <1>4, <2>1, <2>2, <2>3, <2>4, <2>5
<1>r. ASSUME NEW k \in 1 .. last
      PROVE  s.records[k].handshake /\ s.records[k].length # 0 /\ ~(Carried(s, k) > MaxInitial)
  <2>1. s.records[k].length \in Nat /\ Carried(s, k) \in Nat /\ Carried(s, k) <= MaxInitial
    BY <1>5, RecordTypes
  <2>2. s.records[k].handshake /\ s.records[k].length > 0  BY <1>1
  <2>3. s.records[k].length # 0  BY <2>1, <2>2
  <2>4. ~(Carried(s, k) > MaxInitial)  BY <1>4, <2>1
  <2>5. QED  BY <2>2, <2>3, <2>4
<1>6. HandshakeHeader + s.hello <= MaxInitial /\ HandshakeHeader + s.hello \in Nat
  <2>1. Carried(s, last) \in Nat  BY <1>3, <1>5
  <2>2. QED  BY <1>1, <1>3, <1>4, <2>1
<1>7. ASSUME NEW k \in 1 .. last PROVE HelloStep(s, n, k) # "unavailable"
  <2>1. s.records[k].handshake /\ s.records[k].length # 0 /\ ~(Carried(s, k) > MaxInitial)  BY <1>r
  <2>2. ~(s.hello + HandshakeHeader > MaxInitial)  BY <1>4, <1>6
  <2>3. QED  BY <1>1, <2>1, <2>2 DEF HelloStep
<1>8. ASSUME n >= Offset(s, last) PROVE HelloStep(s, n, last) = "resolved"
  <2>1. last \in 1 .. last  BY <1>3, <1>4
  <2>2. ~(n < Offset(s, last - 1) + RecordHeader) /\ ~(n < Offset(s, last))  BY <1>4, <1>5, <1>8, <2>1
  <2>3. s.records[last].handshake /\ s.records[last].length # 0 /\ ~(Carried(s, last) > MaxInitial)
    BY <1>r, <2>1
  <2>4. ~(s.hello + HandshakeHeader > MaxInitial)  BY <1>4, <1>6
  <2>5. QED  BY <1>1, <1>3, <2>2, <2>3, <2>4 DEF HelloStep
<1>9. ASSUME NEW k \in 1 .. last - 1
      PROVE  HelloStep(s, n, k) # "resolved" /\ (n >= Offset(s, last) => HelloStep(s, n, k) = "next")
  <2>1. k \in 1 .. last /\ k < last  BY <1>3, <1>4
  <2>2. Carried(s, k) < HandshakeHeader + s.hello /\ Carried(s, k) \in Nat /\ Offset(s, k) < Offset(s, last)
    BY <1>5, <2>1
  <2>3. ~(Carried(s, k) >= HandshakeHeader + s.hello)  BY <1>6, <2>2
  <2>4. HelloStep(s, n, k) # "resolved"  BY <2>3 DEF HelloStep
  <2>5. ASSUME n >= Offset(s, last) PROVE HelloStep(s, n, k) = "next"
    <3>0. /\ Offset(s, k - 1) \in Nat /\ Offset(s, k) \in Nat /\ Offset(s, last) \in Nat /\ RecordHeader \in Nat
          /\ Offset(s, k - 1) + RecordHeader <= Offset(s, k) /\ Offset(s, k) < Offset(s, last)
      BY <1>4, <1>5, <2>1
    <3>1. ~(n < Offset(s, k - 1) + RecordHeader) /\ ~(n < Offset(s, k)) /\ n # Offset(s, k)
      BY <2>5, <3>0
    <3>2. s.records[k].handshake /\ s.records[k].length # 0 /\ ~(Carried(s, k) > MaxInitial)
      BY <1>r, <2>1
    <3>3. ~(s.hello + HandshakeHeader > MaxInitial)  BY <1>4, <1>6
    <3>4. QED  BY <1>1, <2>3, <3>1, <3>2, <3>3 DEF HelloStep
  <2>6. QED  BY <2>4, <2>5
<1>10. QED  BY <1>1, <1>3, <1>7, <1>8, <1>9 DEF last

\* What a turn that does not decide, and one that resolves, have seen.
LEMMA HelloTurn ==
    ASSUME NEW s, NEW n, NEW k
    PROVE  /\ HelloStep(s, n, k) = "next"
                => /\ s.records[k].handshake /\ s.records[k].length # 0
                   /\ ~(Carried(s, k) >= HandshakeHeader + s.hello)
           /\ HelloStep(s, n, k) = "resolved"
                => /\ s.records[k].handshake /\ s.records[k].length # 0
                   /\ Carried(s, k) >= HandshakeHeader + s.hello /\ ~(Carried(s, k) > MaxInitial)
                   /\ ~(n < Offset(s, k)) /\ s.named
                   /\ Carried(s, k) >= HandshakeHeader => s.isHello
           /\ HelloStep(s, n, k) \in {"needMore", "unavailable", "resolved", "next"}
  BY DEF HelloStep

\* A loop that resolves does so in the record that completes the ClientHello.
LEMMA HelloResolved ==
    ASSUME NEW s, s.records \in Seq([handshake : BOOLEAN, length : Nat]), s.hello \in Nat,
           NEW n \in Nat, s.tls, sniffTLSClientHello(s, n) = "resolved"
    PROVE  NamedAfter(s) # 0 /\ n >= NamedAfter(s)
<1> DEFINE decisive == {k \in 1 .. Len(s.records) : HelloStep(s, n, k) # "next"}
           m == Min(decisive)
           ends == {k \in 1 .. Len(s.records) : Carried(s, k) >= HandshakeHeader + s.hello}
<1>1. decisive # {} /\ HelloStep(s, n, m) = "resolved"  BY DEF sniffTLSClientHello
<1>2. Len(s.records) \in Nat /\ decisive \subseteq Nat /\ ends \subseteq Nat  BY RecordTypes
<1>3. m \in decisive /\ \A k \in decisive : m <= k
  <2> HIDE DEF decisive
  <2>1. QED  BY <1>1, <1>2, MinOf
<1> HIDE DEF m
<1>4. \A k \in 1 .. m - 1 : HelloStep(s, n, k) = "next"
  <2>1. ASSUME NEW k \in 1 .. m - 1 PROVE HelloStep(s, n, k) = "next"
    <3>1. k \in 1 .. Len(s.records) /\ ~(m <= k)  BY <1>2, <1>3
    <3>2. QED  BY <1>3, <3>1
  <2>2. QED  BY <2>1
<1>5. m \in 1 .. Len(s.records)  BY <1>3
<1> HIDE DEF decisive
<1>6. m \in ends  BY <1>1, <1>5, HelloTurn
<1>7. Min(ends) \in ends /\ \A k \in ends : Min(ends) <= k
  <2> HIDE DEF ends
  <2>1. QED  BY <1>2, <1>6, MinOf
<1>8. HelloRecords(s) = m
  <2>1. \A k \in 1 .. m - 1 : k \notin ends  BY <1>4, HelloTurn
  <2>2. Min(ends) <= m /\ Min(ends) \in 1 .. Len(s.records)  BY <1>6, <1>7
  <2>3. Min(ends) = m
    <3>1. PICK e : e = Min(ends)  OBVIOUS
    <3>2. e \in ends /\ e <= m /\ e \in 1 .. Len(s.records) /\ e \notin 1 .. m - 1  BY <1>7, <2>1, <2>2, <3>1
    <3>3. e = m  BY <1>2, <1>5, <3>2
    <3>4. QED  BY <3>1, <3>3
  <2>4. QED  BY <1>6, <2>3 DEF HelloRecords
<1>9. \A k \in 1 .. m : s.records[k].handshake /\ s.records[k].length > 0
  <2>1. ASSUME NEW k \in 1 .. m PROVE s.records[k].handshake /\ s.records[k].length > 0
    <3>1. k \in 1 .. Len(s.records) /\ (k = m \/ k \in 1 .. m - 1)  BY <1>2, <1>5
    <3>2. s.records[k].handshake /\ s.records[k].length # 0  BY <1>1, <1>4, <3>1, HelloTurn
    <3>3. s.records[k].length \in Nat  BY <3>1, RecordTypes
    <3>4. QED  BY <3>2, <3>3
  <2>2. QED  BY <2>1
<1>10. m \in 0 .. Len(s.records) /\ 0 \in 0 .. Len(s.records) /\ m \in 0 .. Len(s.records)  BY <1>2, <1>5
<1>11. Carried(s, m) \in Nat /\ Offset(s, m) \in Nat /\ Offset(s, 0) \in Nat /\ Offset(s, 0) < Offset(s, m)
  BY <1>2, <1>5, <1>10, CarriedStep, OffsetTypes
<1>12. Carried(s, m) <= MaxInitial /\ Carried(s, m) >= HandshakeHeader /\ n >= Offset(s, m) /\ s.named
  BY <1>1, <1>11, HelloTurn, SizesAssumption
<1>13. s.isHello  BY <1>1, <1>12, HelloTurn
<1>14. NamedAfter(s) = Offset(s, m)
  BY <1>5, <1>8, <1>9, <1>12, <1>13 DEF NamedAfter
<1>15. QED  BY <1>11, <1>12, <1>14

\* For every stream of bytes and however many of them have arrived, sniffHostname resolves
\* the host exactly once the bytes that name it are there, and gives up only on a stream
\* that does not name one within the buffer (sniffTLSClientHello's loop over the records,
\* sniffHTTPHost).
THEOREM SnifferExact ==
    ASSUME NEW s, s.records \in Seq([handshake : BOOLEAN, length : Nat]), s.hello \in Nat, s.head \in Nat,
           {s.tls, s.https, s.isHello, s.named} \subseteq BOOLEAN, NEW n \in Nat
    PROVE  /\ sniffHostname(s, n) \in {"needMore", "resolved", "unavailable"}
           /\ sniffHostname(s, n) = "resolved" <=> NamedAfter(s) # 0 /\ n >= NamedAfter(s)
           /\ sniffHostname(s, n) = "unavailable" => NamedAfter(s) = 0
<1>1. CASE ~s.tls
  BY <1>1 DEF sniffHostname, sniffHTTPHost, NamedAfter
<1>2. CASE s.tls
  <2> DEFINE decisive == {k \in 1 .. Len(s.records) : HelloStep(s, n, k) # "next"}
             m == Min(decisive)
             last == HelloRecords(s)
  <2>1. Len(s.records) \in Nat /\ decisive \subseteq Nat  BY RecordTypes
  <2>2. sniffTLSClientHello(s, n) = IF decisive = {} THEN "needMore" ELSE HelloStep(s, n, m)
    BY DEF sniffTLSClientHello
  <2>3. decisive # {} => m \in decisive /\ \A k \in decisive : m <= k
    <3> HIDE DEF decisive
    <3>1. QED  BY <2>1, MinOf
  <2> HIDE DEF m
  <2>4. sniffTLSClientHello(s, n) \in {"needMore", "resolved", "unavailable"}
    BY <2>2, <2>3, HelloTurn
  <2>5. ASSUME NamedAfter(s) # 0
        PROVE  /\ sniffTLSClientHello(s, n) # "unavailable"
               /\ n >= NamedAfter(s) => n # 0 /\ sniffTLSClientHello(s, n) = "resolved"
    <3>1. /\ last \in 1 .. Len(s.records) /\ NamedAfter(s) = Offset(s, last)
          /\ \A k \in 1 .. last : HelloStep(s, n, k) # "unavailable"
          /\ n >= Offset(s, last) => HelloStep(s, n, last) = "resolved"
          /\ \A k \in 1 .. last - 1 : /\ HelloStep(s, n, k) # "resolved"
                                      /\ n >= Offset(s, last) => HelloStep(s, n, k) = "next"
      BY <1>2, <2>5, HelloSteps
    <3> HIDE DEF last
    <3>2. ASSUME n >= NamedAfter(s) PROVE n # 0 /\ sniffTLSClientHello(s, n) = "resolved"
      <4>1. last \in decisive  BY <3>1, <3>2
      <4>2. \A k \in 1 .. last - 1 : k \notin decisive  BY <3>1, <3>2
      <4>3. m = last
        <5>1. m \in 1 .. Len(s.records) /\ m <= last /\ m \in decisive  BY <2>3, <4>1
        <5>2. QED  BY <2>1, <3>1, <4>2, <5>1
      <4>4. Offset(s, last) \in Nat /\ Offset(s, 0) \in Nat /\ Offset(s, 0) < Offset(s, last)
        <5>1. 0 \in 0 .. Len(s.records) /\ last \in 0 .. Len(s.records) /\ 0 < last  BY <2>1, <3>1
        <5>2. QED  BY <5>1, OffsetTypes
      <4>5. QED  BY <2>2, <3>1, <3>2, <4>1, <4>3, <4>4
    <3>3. sniffTLSClientHello(s, n) # "unavailable"
      <4>1. SUFFICES ASSUME decisive # {}, HelloStep(s, n, m) = "unavailable" PROVE FALSE  BY <2>2
      <4>2. m \in decisive /\ m \in 1 .. Len(s.records) /\ m \notin 1 .. last  BY <2>3, <3>1, <4>1
      <4>3. m > last  BY <2>1, <3>1, <4>2
      <4>4. last \notin decisive  BY <2>1, <2>3, <3>1, <4>1, <4>3
      <4>5. HelloStep(s, n, last) = "next"  BY <3>1, <4>4
      <4>6. ~(Carried(s, last) >= HandshakeHeader + s.hello)  BY <4>5, HelloTurn
      <4>7. Carried(s, last) >= HandshakeHeader + s.hello  BY <1>2, <2>5, HelloComplete DEF last
      <4>8. QED  BY <4>6, <4>7
    <3>4. QED  BY <3>2, <3>3
  <2>6. sniffTLSClientHello(s, n) = "resolved" => NamedAfter(s) # 0 /\ n >= NamedAfter(s)
    BY <1>2, HelloResolved
  <2>7. CASE n = 0
    <3>1. sniffHostname(s, n) = "needMore"  BY <2>7 DEF sniffHostname
    <3>2. NamedAfter(s) # 0 => ~(n >= NamedAfter(s))  BY <2>5, <2>7
    <3>3. QED  BY <3>1, <3>2
  <2>8. CASE n # 0
    <3>1. sniffHostname(s, n) = sniffTLSClientHello(s, n)  BY <1>2, <2>8 DEF sniffHostname
    <3>2. QED  BY <2>4, <2>5, <2>6, <3>1
  <2>9. QED  BY <2>7, <2>8
<1>3. QED  BY <1>1, <1>2

-----------------------------------------------------------------------------
(* Types *)

\* The types TypeOK asks for, with what they need to be kept.
Typed ==
    /\ connection \in BOOLEAN /\ initErr \in BOOLEAN /\ closed \in BOOLEAN /\ ready \in BOOLEAN
    /\ dialError \in BOOLEAN /\ cancelled \in BOOLEAN
    /\ socket \in {"none", "dialled", "open", "finished", "closed"}
    /\ upstream \in {"up", "fin", "reset"} /\ target \in {"none", "hostname", "destination"}
    /\ device \in {"none", "open", "closed"} /\ client \in {"talking", "fin", "reset"}
    /\ \A t \in Threads : pc[t] \in Points[t]
    /\ taken <= stream.size /\ replies \in 0 .. MaxReplies
    /\ wg = IF pc["main"] \in {"none", "done"} THEN 0 ELSE 1

\* A goroutine that moves goes to a place of its own code.
LEMMA MovesTyped ==
    ASSUME Inv, Typed, NEW t \in Threads, NEW from, NEW to \in Points[t], Goto(t, from, to)
    PROVE  /\ \A u \in Threads : pc'[u] \in Points[u]
           /\ Moves(t, from, to)
  BY MovesBy DEF Typed, Moves

\* Close, by whichever goroutine, keeps the types.
LEMMA ClosesTyped ==
    ASSUME Typed, MarkClosed \/ CloseSocket \/ UNCHANGED <<fieldVars, socketVars, writeVars>>
    PROVE  /\ connection' \in BOOLEAN /\ initErr' \in BOOLEAN /\ closed' \in BOOLEAN /\ ready' \in BOOLEAN
           /\ dialError' = dialError /\ upstream' = upstream /\ target' = target
           /\ socket' \in {"none", "dialled", "open", "finished", "closed"}
<1> USE DEF Typed, fieldVars, socketVars, writeVars
<1>1. CASE MarkClosed
  <2>1. closed' \in BOOLEAN /\ initErr' \in BOOLEAN /\ ready' \in BOOLEAN  BY <1>1, Zenon DEF MarkClosed
  <2>2. QED  BY <1>1, <2>1 DEF MarkClosed
<1>2. CASE CloseSocket  BY <1>2 DEF CloseSocket
<1>3. CASE UNCHANGED <<fieldVars, socketVars, writeVars>>  BY <1>3
<1>4. QED  BY <1>1, <1>2, <1>3

\* handleTCP keeps the types.
LEMMA HandlerTyped == ASSUME Inv, Typed, Handler PROVE Typed'
<1> USE MovesTyped DEF Typed, Threads, Points, Moves, connVars, fieldVars, socketVars, writeVars, bridgeVars
<1>1. CASE Dial  BY <1>1 DEF Dial
<1>2. CASE CreateEndpoint  BY <1>2 DEF CreateEndpoint
<1>3. CASE CreateEndpointFails  BY <1>3, ClosesTyped DEF CreateEndpointFails
<1>4. CASE StartBridge
  <2>1. \A t \in Threads : pc'[t] \in Points[t]
    <3>1. DOMAIN pc = Threads  BY DEF Inv, Stages
    <3>2. pc'["engine"] = pc["engine"]  BY <1>4, <3>1 DEF StartBridge
    <3>3. QED  BY <1>4, <3>1, <3>2, StartSets
  <2>2. pc["main"] = "none" /\ pc'["main"] = "first"  BY <1>4, StartSets DEF Inv, Stages
  <2>3. QED  BY <1>4, <2>1, <2>2 DEF StartBridge
<1>5. QED  BY <1>1, <1>2, <1>3, <1>4 DEF Handler

\* The copy towards the host keeps the types.
LEMMA UpTyped == ASSUME Inv, Typed, OrderInv, Up PROVE Typed'
<1> USE MovesTyped DEF Typed, Threads, Points, Moves, connVars, fieldVars, socketVars, writeVars, bridgeVars
<1>1. ASSUME NEW k, ReadDevice(k) PROVE Typed'
  BY <1>1 DEF ReadDevice
<1>2. CASE DeviceEnds  BY <1>2 DEF DeviceEnds
<1>3. CASE Write  BY <1>3 DEF Write, Through, Overflows, Buffers, Decides, Refused
<1>4. CASE Establish
  <2>1. CASE DialProxy(TRUE) /\ Goto("up", "dial", "connect")  BY <1>4, <2>1 DEF Establish, DialProxy
  <2>2. CASE DialProxy(FALSE) /\ Goto("up", "dial", "install")  BY <1>4, <2>2 DEF Establish, DialProxy
  <2>3. ASSUME NEW ok \in BOOLEAN, performConnect(ok), Goto("up", "connect", "install") PROVE Typed'
    BY <1>4, <2>3 DEF Establish, performConnect
  <2>4. CASE Install /\ Goto("up", "install", IF closed \/ dialError THEN "closeWrite" ELSE "send")
    <3>1. initErr' \in BOOLEAN /\ connection' \in BOOLEAN /\ ready' \in BOOLEAN /\ UNCHANGED <<closed, dialError>>
      BY <2>4, Zenon DEF Install
    <3>2. QED  BY <1>4, <2>4, <3>1 DEF Establish, Install
  <2>5. QED  BY <1>4, <2>1, <2>2, <2>3, <2>4 DEF Establish
<1>5. CASE WriteHost  BY <1>5 DEF WriteHost, Send, SendFails
<1>6. CASE CloseWrite  BY <1>6 DEF CloseWrite
<1>7. CASE Finish  BY <1>7 DEF Finish, FinishSocket
<1>8. CASE HostClose("up", "hostClose", "sockClose", "done")  BY <1>8, ClosesTyped DEF HostClose
<1>9. CASE SockClose("up", "sockClose", "done")  BY <1>9 DEF SockClose, CloseSocket
<1>10. QED  BY <1>1, <1>2, <1>3, <1>4, <1>5, <1>6, <1>7, <1>8, <1>9 DEF Up, HostCloses

\* The copy towards the device keeps the types.
LEMMA DownTyped == ASSUME Inv, Typed, Down PROVE Typed'
<1> USE MovesTyped, RepliesAssumption DEF Typed, Threads, Points, Moves, connVars, fieldVars, socketVars, writeVars, bridgeVars
<1>1. CASE AwaitReady  BY <1>1 DEF AwaitReady
<1>2. CASE Receive  BY <1>2 DEF Receive
<1>3. CASE HostEnds  BY <1>3 DEF HostEnds
<1>4. CASE WriteDevice  BY <1>4 DEF WriteDevice
<1>5. CASE CloseRead  BY <1>5 DEF CloseRead
<1>6. CASE HostClose("down", "hostClose", "sockClose", "done")  BY <1>6, ClosesTyped DEF HostClose
<1>7. CASE SockClose("down", "sockClose", "done")  BY <1>7 DEF SockClose, CloseSocket
<1>8. QED  BY <1>1, <1>2, <1>3, <1>4, <1>5, <1>6, <1>7 DEF Down, HostCloses

\* bridgeTCP keeps the types, and counts its flow down once.
LEMMA MainTyped == ASSUME Inv, Typed, Main PROVE Typed'
<1> USE MovesTyped DEF Typed, Threads, Points, Moves, connVars, fieldVars, socketVars, writeVars, bridgeVars
<1>1. CASE AwaitFirst  BY <1>1 DEF AwaitFirst, Step
<1>2. CASE AwaitDrain  BY <1>2 DEF AwaitDrain, Step
<1>3. CASE AwaitSecond  BY <1>3 DEF AwaitSecond, Step
<1>4. CASE DrainExpires  BY <1>4 DEF DrainExpires, Step
<1>5. CASE DeviceClose("main", "forceDevice", "forceHost")  BY <1>5 DEF DeviceClose
<1>6. CASE HostClose("main", "forceHost", "forceSock", "second")  BY <1>6, ClosesTyped DEF HostClose
<1>7. CASE SockClose("main", "forceSock", "second")  BY <1>7 DEF SockClose, CloseSocket
<1>8. CASE Step("main", "stop", "hostClose")  BY <1>8 DEF Step
<1>9. CASE HostClose("main", "hostClose", "sockClose", "deviceClose")  BY <1>9, ClosesTyped DEF HostClose
<1>10. CASE SockClose("main", "sockClose", "deviceClose")  BY <1>10 DEF SockClose, CloseSocket
<1>11. CASE /\ Goto("main", "deviceClose", "done") /\ device' = "closed" /\ wg' = wg - 1
            /\ UNCHANGED <<connVars, client, taken, replies, cancelled>>
  BY <1>11
<1>12. QED  BY <1>1, <1>2, <1>3, <1>4, <1>5, <1>6, <1>7, <1>8, <1>9, <1>10, <1>11 DEF Main, ForceClose, Return

\* So do the goroutine that watches the context, Engine.Close and the peers.
LEMMA OthersTyped == ASSUME Inv, Typed, Closer \/ Engine \/ ClientEnds \/ UpstreamEnds \/ UNCHANGED vars PROVE Typed'
<1> USE MovesTyped DEF Typed, Threads, Points, Moves, connVars, fieldVars, socketVars, writeVars, bridgeVars
<1>1. CASE WatchContext  BY <1>1 DEF WatchContext, Step
<1>2. CASE DeviceClose("closer", "deviceClose", "hostClose")  BY <1>2 DEF DeviceClose
<1>3. CASE HostClose("closer", "hostClose", "sockClose", "done")  BY <1>3, ClosesTyped DEF HostClose
<1>4. CASE SockClose("closer", "sockClose", "done")  BY <1>4 DEF SockClose, CloseSocket
<1>5. CASE Cancel  BY <1>5 DEF Cancel
<1>6. CASE CloseStack  BY <1>6 DEF CloseStack
<1>7. CASE AwaitFlows  BY <1>7 DEF AwaitFlows, Step
<1>8. CASE ClientEnds  BY <1>8 DEF ClientEnds
<1>9. CASE UpstreamEnds  BY <1>9 DEF UpstreamEnds
<1>10. CASE UNCHANGED vars  BY <1>10 DEF vars
<1>11. QED
  BY <1>1, <1>2, <1>3, <1>4, <1>5, <1>6, <1>7, <1>8, <1>9, <1>10 DEF Closer, CloseBoth, HostCloses, Engine

\* A sequence whose elements are in a set is a sequence over it.
LEMMA SeqOver ==
    ASSUME NEW S, NEW q \in Seq(Nat), \A i \in 1 .. Len(q) : q[i] \in S PROVE q \in Seq(S)
  OBVIOUS

\* Every goroutine of a flow stays in its code, the flow is counted at most once, and no
\* byte is held that the device did not send (handleTCP, bridgeTCP, Engine.Close).
THEOREM TypeCorrect == Spec => []TypeOK
<1>1. ASSUME Init PROVE Typed
  <2>1. /\ connection \in BOOLEAN /\ initErr \in BOOLEAN /\ closed \in BOOLEAN /\ ready \in BOOLEAN
        /\ dialError \in BOOLEAN /\ cancelled \in BOOLEAN
    BY <1>1, Zenon DEF Init, ConnInit
  <2>2. stream.size \in Nat /\ MaxReplies \in Nat  BY <1>1, StreamsAssumption, RepliesAssumption DEF Init, ConnInit
  <2>3. \A t \in Threads : pc[t] \in Points[t]  BY <1>1 DEF Init, Threads, Points
  <2>4. pc["main"] = "none"  BY <1>1 DEF Init, Threads
  <2>5. QED  BY <1>1, <2>1, <2>2, <2>3, <2>4 DEF Init, ConnInit, Typed
<1>2. Inv /\ OrderInv /\ Typed /\ [Next]_vars => Typed'
  BY HandlerTyped, UpTyped, DownTyped, MainTyped, OthersTyped DEF Next
<1>3. ASSUME Inv, OrderInv, Typed PROVE TypeOK
  <2>0. /\ stream \in Streams /\ taken \in Nat /\ tunnel \in Seq(Nat) /\ pending \in Seq(Nat) /\ out \in Seq(Nat)
        /\ Len(tunnel) \in Nat /\ Len(pending) \in Nat /\ Len(out) \in Nat
        /\ Run(tunnel, 0) /\ Run(pending, Len(tunnel)) /\ Run(out, Len(tunnel) + Len(pending))
        /\ Len(tunnel) + Len(pending) + Len(out) <= taken
    BY <1>3 DEF OrderInv, Bytes
  <2>1. stream.size \in Nat /\ taken <= stream.size  BY <1>3, <2>0, StreamsAssumption DEF Typed
  <2> DEFINE positions == 1 .. stream.size
  <2>2. tunnel \in Seq(positions)
    <3>1. \A i \in 1 .. Len(tunnel) : tunnel[i] \in positions  BY <2>0, <2>1 DEF Run
    <3>2. QED  BY <2>0, <3>1, SeqOver
  <2>3. pending \in Seq(positions)
    <3>1. \A i \in 1 .. Len(pending) : pending[i] \in positions  BY <2>0, <2>1 DEF Run
    <3>2. QED  BY <2>0, <3>1, SeqOver
  <2>4. out \in Seq(positions)
    <3>1. \A i \in 1 .. Len(out) : out[i] \in positions  BY <2>0, <2>1 DEF Run
    <3>2. QED  BY <2>0, <3>1, SeqOver
  <2>5. {connection, initErr, closed, ready, dialError, cancelled} \subseteq BOOLEAN  BY <1>3 DEF Typed
  <2>6. DOMAIN pc = Threads /\ \A t \in Threads : pc[t] \in Points[t]  BY <1>3 DEF Typed, Inv, Stages
  <2>7. taken \in 0 .. stream.size /\ replies \in 0 .. MaxReplies /\ wg \in 0 .. 1  BY <1>3, <2>0, <2>1 DEF Typed
  <2>8. QED  BY <1>3, <2>0, <2>2, <2>3, <2>4, <2>5, <2>6, <2>7 DEF TypeOK, Typed
<1>4. QED  BY <1>1, <1>2, <1>3, InitInv, InvStep, InitOrder, OrderStep, PTL DEF Spec

-----------------------------------------------------------------------------
(* Whom CONNECT names, and what a half-closing device can rely on *)

\* Nothing failed so far.
Fine == upstream = "up" /\ ~dialError /\ ~cancelled /\ client # "reset"

\* While nothing is dialled the sniffer has asked for more than what is buffered.
Withheld ==
    /\ proxied /\ ~connection => tunnel = <<>> /\ pc["up"] # "send"
    /\ proxied /\ ~connection /\ pc["up"] \in {"none", "read", "write"}
           => Len(pending) <= MaxInitial /\ sniffHostname(stream, Len(pending)) = "needMore"

\* What the flow is like before its bridge starts.
Unbridged ==
    /\ pc["engine"] # "open" => cancelled
    /\ pc["handler"] = "start" /\ ~cancelled => device = "open"
    /\ pc["handler"] \in {"accept", "start"} /\ ~proxied => socket = "open"
    /\ pc["handler"] # "done" => ~closed /\ ~initErr /\ ~ready

\* As long as nothing fails, nobody closes anything before the copy to the host ends.
Undisturbed ==
    /\ dialError => pc["up"] \in Given \cup {"install"}
    /\ Fine /\ pc["main"] # "none" /\ pc["up"] \notin Given =>
          /\ device = "open" /\ ~closed /\ ~initErr
          /\ pc["main"] = "first" /\ pc["closer"] = "watch" /\ pc["down"] \in {"wait", "receive", "deliver"}
          /\ proxied /\ ready => connection
          /\ pc["down"] = "receive" => connection \/ ~proxied
          /\ connection \/ ~proxied => socket = "open"

\* All was delivered, or the sniffer was still asking for more.
Kept ==
    Fine /\ pc["up"] \in Given =>
        \/ Len(tunnel) = taken
        \/ proxied /\ taken <= MaxInitial /\ sniffHostname(stream, taken) = "needMore"

DeliverInv == Withheld /\ Unbridged /\ Undisturbed /\ Kept /\ TargetRight

\* A step that leaves the bytes and the place of the copy to the host alone.
LEMMA DeliverQuiet ==
    ASSUME DeliverInv, UNCHANGED <<stream, taken, tunnel, pending, connection, dialError>>,
           pc'["up"] = pc["up"], pc["up"] = "dial" => target' = target, Fine' => Fine
    PROVE  Withheld' /\ Kept' /\ TargetRight' /\ (dialError => pc["up"] \in Given \cup {"install"})'
<1>1. Withheld'  BY DEF DeliverInv, Withheld, proxied
<1>2. Kept'  BY DEF DeliverInv, Kept, proxied
<1>3. TargetRight'  BY DEF DeliverInv, TargetRight
<1>4. QED  BY <1>1, <1>2, <1>3 DEF DeliverInv, Undisturbed

\* handleTCP starts a bridge whose connections are open.
LEMMA HandlerDeliver == ASSUME Inv, OrderInv, PipeInv, DeliverInv, Handler PROVE DeliverInv'
<1> USE MovesBy DEF Inv, Stages, Early, Moves, Threads, connVars, fieldVars, socketVars, writeVars, bridgeVars, proxied, Fine
<1>1. CASE Dial
  <2>1. Withheld' /\ Kept' /\ TargetRight' /\ (dialError => pc["up"] \in Given \cup {"install"})'
    BY <1>1, DeliverQuiet DEF Dial
  <2>2. Unbridged' /\ Undisturbed'  BY <1>1, <2>1 DEF Dial, DeliverInv, Unbridged, Undisturbed
  <2>3. QED  BY <2>1, <2>2 DEF DeliverInv
<1>2. CASE CreateEndpoint
  <2>1. Withheld' /\ Kept' /\ TargetRight' /\ (dialError => pc["up"] \in Given \cup {"install"})'
    BY <1>2, DeliverQuiet DEF CreateEndpoint
  <2>2. Unbridged' /\ Undisturbed'  BY <1>2, <2>1 DEF CreateEndpoint, DeliverInv, Unbridged, Undisturbed
  <2>3. QED  BY <2>1, <2>2 DEF DeliverInv
<1>3. CASE CreateEndpointFails
  <2>1. Withheld' /\ Kept' /\ TargetRight' /\ (dialError => pc["up"] \in Given \cup {"install"})'
    BY <1>3, DeliverQuiet DEF CreateEndpointFails, MarkClosed, CloseSocket
  <2>2. Unbridged' /\ Undisturbed'
    BY <1>3, <2>1 DEF CreateEndpointFails, MarkClosed, CloseSocket, DeliverInv, Unbridged, Undisturbed
  <2>3. QED  BY <2>1, <2>2 DEF DeliverInv
<1>4. CASE StartBridge
  <2>1. /\ pc["up"] = "none" /\ pc'["up"] = "read" /\ pc["handler"] = "start" /\ pc'["handler"] = "done"
        /\ pc'["main"] = "first" /\ pc'["closer"] = "watch" /\ pc'["down"] = "wait" /\ pc["main"] = "none"
    BY <1>4, StartSets
  <2>2. UNCHANGED <<connVars, device, client, taken, cancelled>> /\ pc'["engine"] = pc["engine"]
    BY <1>4 DEF StartBridge
  <2>3. Withheld'  BY <2>1, <2>2 DEF DeliverInv, Withheld
  <2>4. Kept' /\ TargetRight'  BY <2>1 DEF Kept, TargetRight, Given
  <2>5. Unbridged'  BY <2>1, <2>2 DEF DeliverInv, Unbridged
  <2>6. ~dialError /\ ~closed /\ ~initErr /\ ~ready  BY <2>1 DEF DeliverInv, Undisturbed, Unbridged, Given
  <2>7. Undisturbed'
    <3>1. ~cancelled => device = "open"  BY <2>1 DEF DeliverInv, Unbridged
    <3>2. ~proxied => socket = "open"  BY <2>1 DEF DeliverInv, Unbridged
    <3>3. proxied => ~connection  BY <2>1
    <3>4. QED  BY <2>1, <2>2, <2>6, <3>1, <3>2, <3>3 DEF Undisturbed
  <2>8. QED  BY <2>3, <2>4, <2>5, <2>7 DEF DeliverInv
<1>5. QED  BY <1>1, <1>2, <1>3, <1>4 DEF Handler

\* The copy towards the device ends, and closes, only after something failed.
LEMMA DownDeliver == ASSUME Inv, OrderInv, PipeInv, DeliverInv, Down PROVE DeliverInv'
<1> USE MovesBy DEF Inv, Stages, Early, Moves, Threads, connVars, fieldVars, socketVars, writeVars, bridgeVars, proxied, Fine
<1>1. CASE AwaitReady
  <2>1. Withheld' /\ Kept' /\ TargetRight' /\ (dialError => pc["up"] \in Given \cup {"install"})'
    BY <1>1, DeliverQuiet DEF AwaitReady
  <2>2. Unbridged' /\ Undisturbed'  BY <1>1, <2>1 DEF AwaitReady, DeliverInv, Unbridged, Undisturbed
  <2>3. QED  BY <2>1, <2>2 DEF DeliverInv
<1>2. CASE Receive
  <2>1. Withheld' /\ Kept' /\ TargetRight' /\ (dialError => pc["up"] \in Given \cup {"install"})'
    BY <1>2, DeliverQuiet DEF Receive
  <2>2. Unbridged' /\ Undisturbed'  BY <1>2, <2>1 DEF Receive, DeliverInv, Unbridged, Undisturbed
  <2>3. QED  BY <2>1, <2>2 DEF DeliverInv
<1>3. CASE HostEnds
  <2>1. Withheld' /\ Kept' /\ TargetRight' /\ (dialError => pc["up"] \in Given \cup {"install"})'
    BY <1>3, DeliverQuiet DEF HostEnds
  <2>2. Unbridged' /\ Undisturbed'  BY <1>3, <2>1 DEF HostEnds, DeliverInv, Unbridged, Undisturbed
  <2>3. QED  BY <2>1, <2>2 DEF DeliverInv
<1>4. CASE WriteDevice
  <2>1. Withheld' /\ Kept' /\ TargetRight' /\ (dialError => pc["up"] \in Given \cup {"install"})'
    BY <1>4, DeliverQuiet DEF WriteDevice
  <2>2. Unbridged' /\ Undisturbed'  BY <1>4, <2>1 DEF WriteDevice, DeliverInv, Unbridged, Undisturbed
  <2>3. QED  BY <2>1, <2>2 DEF DeliverInv
<1>5. CASE CloseRead
  <2>1. Withheld' /\ Kept' /\ TargetRight' /\ (dialError => pc["up"] \in Given \cup {"install"})'
    BY <1>5, DeliverQuiet DEF CloseRead
  <2>2. Unbridged' /\ Undisturbed'  BY <1>5, <2>1 DEF CloseRead, DeliverInv, Unbridged, Undisturbed
  <2>3. QED  BY <2>1, <2>2 DEF DeliverInv
<1>6. CASE HostClose("down", "hostClose", "sockClose", "done")
  <2>1. Withheld' /\ Kept' /\ TargetRight' /\ (dialError => pc["up"] \in Given \cup {"install"})'
    BY <1>6, DeliverQuiet DEF HostClose, MarkClosed, CloseSocket
  <2>2. Unbridged' /\ Undisturbed'  BY <1>6, <2>1 DEF HostClose, MarkClosed, CloseSocket, DeliverInv, Unbridged, Undisturbed
  <2>3. QED  BY <2>1, <2>2 DEF DeliverInv
<1>7. CASE SockClose("down", "sockClose", "done")
  <2>1. Withheld' /\ Kept' /\ TargetRight' /\ (dialError => pc["up"] \in Given \cup {"install"})'
    BY <1>7, DeliverQuiet DEF SockClose, CloseSocket
  <2>2. Unbridged' /\ Undisturbed'  BY <1>7, <2>1 DEF SockClose, CloseSocket, DeliverInv, Unbridged, Undisturbed
  <2>3. QED  BY <2>1, <2>2 DEF DeliverInv
<1>8. QED  BY <1>1, <1>2, <1>3, <1>4, <1>5, <1>6, <1>7 DEF Down, HostCloses

\* bridgeTCP closes nothing before one of the copies has ended.
LEMMA MainDeliver == ASSUME Inv, OrderInv, PipeInv, DeliverInv, Main PROVE DeliverInv'
<1> USE MovesBy DEF Inv, Stages, Early, Moves, Threads, connVars, fieldVars, socketVars, writeVars, bridgeVars, proxied, Fine
<1>1. CASE AwaitFirst
  <2>1. Withheld' /\ Kept' /\ TargetRight' /\ (dialError => pc["up"] \in Given \cup {"install"})'
    BY <1>1, DeliverQuiet DEF AwaitFirst, Step, Completed, Given
  <2>2. Unbridged' /\ Undisturbed'  BY <1>1, <2>1 DEF AwaitFirst, Step, Completed, Given, DeliverInv, Unbridged, Undisturbed
  <2>3. QED  BY <2>1, <2>2 DEF DeliverInv
<1>2. CASE AwaitDrain
  <2>1. Withheld' /\ Kept' /\ TargetRight' /\ (dialError => pc["up"] \in Given \cup {"install"})'
    BY <1>2, DeliverQuiet DEF AwaitDrain, Step
  <2>2. Unbridged' /\ Undisturbed'  BY <1>2, <2>1 DEF AwaitDrain, Step, DeliverInv, Unbridged, Undisturbed
  <2>3. QED  BY <2>1, <2>2 DEF DeliverInv
<1>3. CASE AwaitSecond
  <2>1. Withheld' /\ Kept' /\ TargetRight' /\ (dialError => pc["up"] \in Given \cup {"install"})'
    BY <1>3, DeliverQuiet DEF AwaitSecond, Step
  <2>2. Unbridged' /\ Undisturbed'  BY <1>3, <2>1 DEF AwaitSecond, Step, DeliverInv, Unbridged, Undisturbed
  <2>3. QED  BY <2>1, <2>2 DEF DeliverInv
<1>4. CASE DrainExpires
  <2>1. Withheld' /\ Kept' /\ TargetRight' /\ (dialError => pc["up"] \in Given \cup {"install"})'
    BY <1>4, DeliverQuiet DEF DrainExpires, Step
  <2>2. Unbridged' /\ Undisturbed'  BY <1>4, <2>1 DEF DrainExpires, Step, DeliverInv, Unbridged, Undisturbed
  <2>3. QED  BY <2>1, <2>2 DEF DeliverInv
<1>5. CASE DeviceClose("main", "forceDevice", "forceHost")
  <2>1. Withheld' /\ Kept' /\ TargetRight' /\ (dialError => pc["up"] \in Given \cup {"install"})'
    BY <1>5, DeliverQuiet DEF DeviceClose
  <2>2. Unbridged' /\ Undisturbed'  BY <1>5, <2>1 DEF DeviceClose, DeliverInv, Unbridged, Undisturbed
  <2>3. QED  BY <2>1, <2>2 DEF DeliverInv
<1>6. CASE HostClose("main", "forceHost", "forceSock", "second")
  <2>1. Withheld' /\ Kept' /\ TargetRight' /\ (dialError => pc["up"] \in Given \cup {"install"})'
    BY <1>6, DeliverQuiet DEF HostClose, MarkClosed, CloseSocket
  <2>2. Unbridged' /\ Undisturbed'  BY <1>6, <2>1 DEF HostClose, MarkClosed, CloseSocket, DeliverInv, Unbridged, Undisturbed
  <2>3. QED  BY <2>1, <2>2 DEF DeliverInv
<1>7. CASE SockClose("main", "forceSock", "second")
  <2>1. Withheld' /\ Kept' /\ TargetRight' /\ (dialError => pc["up"] \in Given \cup {"install"})'
    BY <1>7, DeliverQuiet DEF SockClose, CloseSocket
  <2>2. Unbridged' /\ Undisturbed'  BY <1>7, <2>1 DEF SockClose, CloseSocket, DeliverInv, Unbridged, Undisturbed
  <2>3. QED  BY <2>1, <2>2 DEF DeliverInv
<1>8. CASE Step("main", "stop", "hostClose")
  <2>1. Withheld' /\ Kept' /\ TargetRight' /\ (dialError => pc["up"] \in Given \cup {"install"})'
    BY <1>8, DeliverQuiet DEF Step
  <2>2. Unbridged' /\ Undisturbed'  BY <1>8, <2>1 DEF Step, DeliverInv, Unbridged, Undisturbed
  <2>3. QED  BY <2>1, <2>2 DEF DeliverInv
<1>9. CASE HostClose("main", "hostClose", "sockClose", "deviceClose")
  <2>1. Withheld' /\ Kept' /\ TargetRight' /\ (dialError => pc["up"] \in Given \cup {"install"})'
    BY <1>9, DeliverQuiet DEF HostClose, MarkClosed, CloseSocket
  <2>2. Unbridged' /\ Undisturbed'  BY <1>9, <2>1 DEF HostClose, MarkClosed, CloseSocket, DeliverInv, Unbridged, Undisturbed
  <2>3. QED  BY <2>1, <2>2 DEF DeliverInv
<1>10. CASE SockClose("main", "sockClose", "deviceClose")
  <2>1. Withheld' /\ Kept' /\ TargetRight' /\ (dialError => pc["up"] \in Given \cup {"install"})'
    BY <1>10, DeliverQuiet DEF SockClose, CloseSocket
  <2>2. Unbridged' /\ Undisturbed'  BY <1>10, <2>1 DEF SockClose, CloseSocket, DeliverInv, Unbridged, Undisturbed
  <2>3. QED  BY <2>1, <2>2 DEF DeliverInv
<1>11. CASE Goto("main", "deviceClose", "done") /\ device' = "closed" /\ UNCHANGED <<connVars, client, taken, cancelled>>
  <2>1. Withheld' /\ Kept' /\ TargetRight' /\ (dialError => pc["up"] \in Given \cup {"install"})'
    BY <1>11, DeliverQuiet DEF vars
  <2>2. Unbridged' /\ Undisturbed'  BY <1>11, <2>1 DEF vars, DeliverInv, Unbridged, Undisturbed
  <2>3. QED  BY <2>1, <2>2 DEF DeliverInv
<1>12. QED  BY <1>1, <1>2, <1>3, <1>4, <1>5, <1>6, <1>7, <1>8, <1>9, <1>10, <1>11 DEF Main, ForceClose, Return

\* The goroutine that watches the context acts only once it is cancelled.
LEMMA CloserDeliver == ASSUME Inv, OrderInv, PipeInv, DeliverInv, Closer PROVE DeliverInv'
<1> USE MovesBy DEF Inv, Stages, Early, Moves, Threads, connVars, fieldVars, socketVars, writeVars, bridgeVars, proxied, Fine
<1>1. CASE WatchContext
  <2>1. Withheld' /\ Kept' /\ TargetRight' /\ (dialError => pc["up"] \in Given \cup {"install"})'
    BY <1>1, DeliverQuiet DEF WatchContext, StopCloser, Step
  <2>2. Unbridged' /\ Undisturbed'  BY <1>1, <2>1 DEF WatchContext, StopCloser, Step, DeliverInv, Unbridged, Undisturbed
  <2>3. QED  BY <2>1, <2>2 DEF DeliverInv
<1>2. CASE DeviceClose("closer", "deviceClose", "hostClose")
  <2>1. Withheld' /\ Kept' /\ TargetRight' /\ (dialError => pc["up"] \in Given \cup {"install"})'
    BY <1>2, DeliverQuiet DEF DeviceClose
  <2>2. Unbridged' /\ Undisturbed'  BY <1>2, <2>1 DEF DeviceClose, DeliverInv, Unbridged, Undisturbed
  <2>3. QED  BY <2>1, <2>2 DEF DeliverInv
<1>3. CASE HostClose("closer", "hostClose", "sockClose", "done")
  <2>1. Withheld' /\ Kept' /\ TargetRight' /\ (dialError => pc["up"] \in Given \cup {"install"})'
    BY <1>3, DeliverQuiet DEF HostClose, MarkClosed, CloseSocket
  <2>2. Unbridged' /\ Undisturbed'  BY <1>3, <2>1 DEF HostClose, MarkClosed, CloseSocket, DeliverInv, Unbridged, Undisturbed
  <2>3. QED  BY <2>1, <2>2 DEF DeliverInv
<1>4. CASE SockClose("closer", "sockClose", "done")
  <2>1. Withheld' /\ Kept' /\ TargetRight' /\ (dialError => pc["up"] \in Given \cup {"install"})'
    BY <1>4, DeliverQuiet DEF SockClose, CloseSocket
  <2>2. Unbridged' /\ Undisturbed'  BY <1>4, <2>1 DEF SockClose, CloseSocket, DeliverInv, Unbridged, Undisturbed
  <2>3. QED  BY <2>1, <2>2 DEF DeliverInv
<1>5. QED  BY <1>1, <1>2, <1>3, <1>4 DEF Closer, CloseBoth, HostCloses

\* Engine.Close cancels before it closes anything.
LEMMA EngineDeliver == ASSUME Inv, OrderInv, PipeInv, DeliverInv, Engine PROVE DeliverInv'
<1> USE MovesBy DEF Inv, Stages, Early, Moves, Threads, connVars, fieldVars, socketVars, writeVars, bridgeVars, proxied, Fine
<1>1. CASE Cancel
  <2>1. Withheld' /\ Kept' /\ TargetRight' /\ (dialError => pc["up"] \in Given \cup {"install"})'
    BY <1>1, DeliverQuiet DEF Cancel
  <2>2. Unbridged' /\ Undisturbed'  BY <1>1, <2>1 DEF Cancel, DeliverInv, Unbridged, Undisturbed
  <2>3. QED  BY <2>1, <2>2 DEF DeliverInv
<1>2. CASE CloseStack
  <2>1. Withheld' /\ Kept' /\ TargetRight' /\ (dialError => pc["up"] \in Given \cup {"install"})'
    BY <1>2, DeliverQuiet DEF CloseStack
  <2>2. Unbridged' /\ Undisturbed'  BY <1>2, <2>1 DEF CloseStack, DeliverInv, Unbridged, Undisturbed
  <2>3. QED  BY <2>1, <2>2 DEF DeliverInv
<1>3. CASE AwaitFlows
  <2>1. Withheld' /\ Kept' /\ TargetRight' /\ (dialError => pc["up"] \in Given \cup {"install"})'
    BY <1>3, DeliverQuiet DEF AwaitFlows, Step
  <2>2. Unbridged' /\ Undisturbed'  BY <1>3, <2>1 DEF AwaitFlows, Step, DeliverInv, Unbridged, Undisturbed
  <2>3. QED  BY <2>1, <2>2 DEF DeliverInv
<1>4. QED  BY <1>1, <1>2, <1>3 DEF Engine

\* A peer that ends is a failure, except for the device's half-close.
LEMMA EndsDeliver == ASSUME Inv, OrderInv, PipeInv, DeliverInv, ClientEnds \/ UpstreamEnds \/ UNCHANGED vars PROVE DeliverInv'
<1> USE MovesBy DEF Inv, Stages, Early, Moves, Threads, connVars, fieldVars, socketVars, writeVars, bridgeVars, proxied, Fine
<1>1. CASE ClientEnds
  <2>1. Withheld' /\ Kept' /\ TargetRight' /\ (dialError => pc["up"] \in Given \cup {"install"})'
    BY <1>1, DeliverQuiet DEF ClientEnds
  <2>2. Unbridged' /\ Undisturbed'  BY <1>1, <2>1 DEF ClientEnds, DeliverInv, Unbridged, Undisturbed
  <2>3. QED  BY <2>1, <2>2 DEF DeliverInv
<1>2. CASE UpstreamEnds
  <2>1. Withheld' /\ Kept' /\ TargetRight' /\ (dialError => pc["up"] \in Given \cup {"install"})'
    BY <1>2, DeliverQuiet DEF UpstreamEnds
  <2>2. Unbridged' /\ Undisturbed'  BY <1>2, <2>1 DEF UpstreamEnds, DeliverInv, Unbridged, Undisturbed
  <2>3. QED  BY <2>1, <2>2 DEF DeliverInv
<1>3. CASE UNCHANGED vars
  <2>1. Withheld' /\ Kept' /\ TargetRight' /\ (dialError => pc["up"] \in Given \cup {"install"})'
    BY <1>3, DeliverQuiet DEF vars
  <2>2. Unbridged' /\ Undisturbed'  BY <1>3, <2>1 DEF vars, DeliverInv, Unbridged, Undisturbed
  <2>3. QED  BY <2>1, <2>2 DEF DeliverInv
<1>4. QED  BY <1>1, <1>2, <1>3

\* The copy to the host has given up and only closes what is left.
LEMMA GivenDeliver ==
    ASSUME Inv, DeliverInv, pc["up"] \in Given, pc'["up"] \in Given, pc'["handler"] = pc["handler"],
           pc'["engine"] = pc["engine"], pc["handler"] = "done", Fine' => Fine,
           UNCHANGED <<stream, taken, tunnel, pending, connection, dialError, cancelled>>
    PROVE  DeliverInv'
<1>1. Withheld'  BY DEF DeliverInv, Withheld, proxied, Given
<1>2. Kept'  BY DEF DeliverInv, Kept, proxied
<1>3. TargetRight' /\ Undisturbed'  BY DEF TargetRight, Undisturbed, Given
<1>4. Unbridged'  BY DEF DeliverInv, Unbridged
<1>5. QED  BY <1>1, <1>2, <1>3, <1>4 DEF DeliverInv

\* The copy to the host gives up: after a failure, or when all was delivered or withheld.
LEMMA GivesUp ==
    ASSUME Inv, DeliverInv, Kept', pc'["up"] = "closeWrite", pc'["engine"] = pc["engine"],
           pc["handler"] = "done", pc'["handler"] = "done",
           (proxied /\ ~connection => tunnel = <<>>)', UNCHANGED cancelled
    PROVE  DeliverInv'
<1>1. Withheld'  BY DEF Withheld
<1>2. TargetRight' /\ Undisturbed'  BY DEF TargetRight, Undisturbed, Given
<1>3. Unbridged'  BY DEF DeliverInv, Unbridged
<1>4. QED  BY <1>1, <1>2, <1>3 DEF DeliverInv

\* The copy to the host keeps what it reads, and asks the sniffer about all of it.
LEMMA UpDeliver == ASSUME Inv, OrderInv, PipeInv, DeliverInv, Up PROVE DeliverInv'
<1> USE MovesBy DEF Moves, Threads, connVars, fieldVars, socketVars, writeVars, bridgeVars, proxied, Fine
<1>0. /\ stream \in Streams /\ taken \in Nat /\ tunnel \in Seq(Nat) /\ pending \in Seq(Nat) /\ out \in Seq(Nat)
      /\ Len(tunnel) \in Nat /\ Len(pending) \in Nat /\ Len(out) \in Nat /\ Len(<<>>) = 0
  BY DEF OrderInv, Bytes
<1>a. ASSUME pc["up"] # "none" PROVE pc["main"] # "none" /\ pc["handler"] = "done"  BY <1>a DEF Inv, Stages
<1>1. ASSUME NEW k, ReadDevice(k) PROVE DeliverInv'
  <2>1. pc["up"] = "read" /\ pc'["up"] = "write"  BY <1>1 DEF ReadDevice
  <2>2. Withheld'  BY <1>1, <2>1 DEF ReadDevice, DeliverInv, Withheld
  <2>3. Kept' /\ TargetRight'  BY <2>1 DEF Kept, TargetRight, Given
  <2>4. Undisturbed'  BY <1>1, <2>1 DEF ReadDevice, DeliverInv, Undisturbed, Given
  <2>5. Unbridged'  BY <1>1 DEF ReadDevice, DeliverInv, Unbridged
  <2>6. QED  BY <2>2, <2>3, <2>4, <2>5 DEF DeliverInv
<1>2. CASE DeviceEnds
  <2>1. pc["up"] = "read" /\ pc'["up"] = "closeWrite" /\ pc'["engine"] = pc["engine"] /\ pc'["handler"] = pc["handler"]
    BY <1>2 DEF DeviceEnds
  <2>2. out = <<>> /\ Len(tunnel) + Len(pending) = taken
    BY <1>0, <2>1 DEF OrderInv, Bytes, Buffered, Given
  <2>3. CASE connection \/ ~proxied
    <3>1. pending = <<>>  BY <2>3 DEF OrderInv, Buffered
    <3>2. Len(tunnel) = taken  BY <1>0, <2>2, <3>1
    <3>3. Kept'  BY <1>2, <3>2 DEF DeviceEnds, Kept
    <3>4. QED  BY <1>2, <1>a, <2>1, <2>3, <3>3, GivesUp DEF DeviceEnds
  <2>4. CASE ~(connection \/ ~proxied)
    <3>1. tunnel = <<>> /\ Len(pending) <= MaxInitial /\ sniffHostname(stream, Len(pending)) = "needMore"
      BY <2>1, <2>4 DEF DeliverInv, Withheld
    <3>2. Len(pending) = taken  BY <1>0, <2>2, <3>1
    <3>3. Kept'  BY <1>2, <2>4, <3>1, <3>2 DEF DeviceEnds, Kept
    <3>4. QED  BY <1>2, <1>a, <2>1, <3>1, <3>3, GivesUp DEF DeviceEnds
  <2>5. QED  BY <2>3, <2>4
<1>3. CASE Write
  <2>0. /\ UNCHANGED <<stream, connection, initErr, closed, ready, socketVars, dialError, bridgeVars>>
        /\ pc["up"] = "write" /\ pc'["engine"] = pc["engine"] /\ pc'["handler"] = pc["handler"]
        /\ pc'["main"] = pc["main"] /\ pc'["closer"] = pc["closer"] /\ pc'["down"] = pc["down"]
    BY <1>3 DEF Write
  <2>1. Len(tunnel) + Len(pending) + Len(out) = taken  BY <2>0 DEF OrderInv, Bytes, Given
  <2>2. Unbridged'  BY <2>0 DEF DeliverInv, Unbridged
  <2>3. pc'["up"] \notin Given => Undisturbed'  BY <2>0 DEF DeliverInv, Undisturbed, Given
  <2>4. ASSUME Unsettled PROVE tunnel = <<>> /\ Len(pending) + Len(out) = taken /\ Len(out) + Len(pending) = taken
    <3>1. tunnel = <<>>  BY <2>4 DEF Unsettled, DeliverInv, Withheld
    <3>2. QED  BY <1>0, <2>1, <3>1
  <2>5. CASE Through /\ Goto("up", "write", "send")
    <3>1. pc'["up"] = "send"  BY <2>5
    <3>2. Withheld' /\ Kept' /\ TargetRight'  BY <2>0, <2>5, <3>1 DEF Through, Withheld, Kept, TargetRight, Given
    <3>3. QED  BY <2>2, <2>3, <3>1, <3>2 DEF DeliverInv, Given
  <2>6. CASE Overflows /\ Goto("up", "write", "dial")
    <3>1. pc'["up"] = "dial" /\ Unsettled  BY <2>6 DEF Overflows
    <3>2. TargetRight'
      <4>1. taken > MaxInitial /\ target' = "destination" /\ taken' = taken  BY <2>0, <2>4, <2>6, <3>1 DEF Overflows
      <4>2. ~(taken <= MaxInitial)  BY <1>0, <4>1, SizesAssumption
      <4>3. QED  BY <2>0, <4>1, <4>2 DEF TargetRight
    <3>3. Withheld' /\ Kept'  BY <2>0, <2>4, <3>1 DEF Withheld, Kept, Given
    <3>4. QED  BY <2>2, <2>3, <3>1, <3>2, <3>3 DEF DeliverInv, Given
  <2>7. CASE Decides /\ Goto("up", "write", "dial")
    <3>1. pc'["up"] = "dial" /\ Unsettled  BY <2>7 DEF Decides
    <3>2. TargetRight'
      <4>1. /\ taken <= MaxInitial /\ taken' = taken /\ stream' = stream /\ Verdict = sniffHostname(stream, taken)
            /\ Verdict # "needMore" /\ target' = IF Verdict = "resolved" THEN "hostname" ELSE "destination"
        BY <2>0, <2>4, <2>7, <3>1 DEF Decides, Verdict
      <4>2. /\ Verdict \in {"needMore", "resolved", "unavailable"}
            /\ Verdict = "resolved" <=> NamedAfter(stream) # 0 /\ taken >= NamedAfter(stream)
            /\ Verdict = "unavailable" => NamedAfter(stream) = 0
        <5>1. /\ stream.records \in Seq([handshake : BOOLEAN, length : Nat])
              /\ stream.hello \in Nat /\ stream.head \in Nat
              /\ {stream.tls, stream.https, stream.isHello, stream.named} \subseteq BOOLEAN
          BY <1>0, StreamsAssumption
        <5>2. QED  BY <1>0, <4>1, <5>1, SnifferExact
      <4>3. QED  BY <4>1, <4>2 DEF TargetRight
    <3>3. Withheld' /\ Kept'  BY <2>0, <2>4, <3>1 DEF Withheld, Kept, Given
    <3>4. QED  BY <2>2, <2>3, <3>1, <3>2, <3>3 DEF DeliverInv, Given
  <2>8. CASE Buffers /\ Goto("up", "write", "read")
    <3>1. pc'["up"] = "read" /\ Unsettled /\ pending' = pending \o out  BY <2>8 DEF Buffers
    <3>2. Len(pending') = taken  BY <1>0, <2>4, <3>1
    <3>3. taken <= MaxInitial /\ sniffHostname(stream, taken) = "needMore"  BY <2>4, <2>8, <3>1 DEF Buffers, Verdict
    <3>4. Withheld'  BY <2>0, <2>4, <3>1, <3>2, <3>3 DEF Withheld
    <3>5. Kept' /\ TargetRight'  BY <3>1 DEF Kept, TargetRight, Given
    <3>6. QED  BY <2>2, <2>3, <3>1, <3>4, <3>5 DEF DeliverInv, Given
  <2>9. CASE Refused /\ Goto("up", "write", "closeWrite") /\ out' = <<>> /\ UNCHANGED <<pending, target>>
    <3>1. pc'["up"] = "closeWrite"  BY <2>9
    <3>2. ~Fine'  BY <1>a, <2>0, <2>9 DEF Refused, DeliverInv, Undisturbed, Given
    <3>3. Kept'  BY <3>2 DEF Kept
    <3>4. (proxied /\ ~connection => tunnel = <<>>)'  BY <2>0 DEF DeliverInv, Withheld
    <3>5. QED  BY <1>a, <2>0, <3>1, <3>3, <3>4, GivesUp
  <2>10. QED  BY <1>3, <2>5, <2>6, <2>7, <2>8, <2>9 DEF Write
<1>4. ASSUME NEW ok \in BOOLEAN, DialProxy(ok) \/ performConnect(ok), NEW from \in {"dial", "connect"},
             NEW to \in {"connect", "install"}, Goto("up", from, to), ok \/ to = "install",
             UNCHANGED <<stream, bridgeVars>>
      PROVE  DeliverInv'
  <2>1. /\ pc["up"] = from /\ pc'["up"] = to /\ pc'["engine"] = pc["engine"] /\ pc'["handler"] = pc["handler"]
        /\ pc'["main"] = pc["main"] /\ pc'["closer"] = pc["closer"] /\ pc'["down"] = pc["down"]
    BY <1>4
  <2>2. UNCHANGED <<fieldVars, upstream, tunnel, out, target, stream, bridgeVars>>  BY <1>4 DEF DialProxy, performConnect
  <2>3. dialError' = ~ok  BY <1>4, Zenon DEF DialProxy, performConnect
  <2>4. proxied /\ ~connection  BY <2>1 DEF Inv, Establishing
  <2>5. Withheld' /\ Kept' /\ TargetRight'  BY <2>1, <2>2 DEF DeliverInv, Withheld, Kept, TargetRight, Given
  <2>6. Unbridged'  BY <1>a, <2>1, <2>2 DEF DeliverInv, Unbridged
  <2>7. Undisturbed'
    <3>1. dialError' => to = "install"  BY <1>4, <2>3
    <3>2. ~dialError  BY <2>1 DEF DeliverInv, Undisturbed, Given
    <3>3. Fine' => Fine  BY <2>2, <3>2
    <3>4. QED  BY <2>1, <2>2, <2>4, <3>1, <3>3 DEF DeliverInv, Undisturbed, Given
  <2>8. QED  BY <2>5, <2>6, <2>7 DEF DeliverInv
<1>5. CASE /\ Install /\ UNCHANGED <<stream, bridgeVars>>
           /\ Goto("up", "install", IF closed \/ dialError THEN "closeWrite" ELSE "send")
  <2>1. /\ pc["up"] = "install" /\ pc'["engine"] = pc["engine"] /\ pc'["handler"] = pc["handler"]
        /\ pc'["main"] = pc["main"] /\ pc'["closer"] = pc["closer"] /\ pc'["down"] = pc["down"]
    BY <1>5
  <2>2. UNCHANGED <<stream, closed, upstream, tunnel, target, dialError, bridgeVars>>  BY <1>5 DEF Install
  <2>3. proxied /\ ~connection /\ tunnel = <<>>  BY <2>1 DEF Inv, Establishing, DeliverInv, Withheld
  <2>4. CASE closed \/ dialError
    <3>1. pc'["up"] = "closeWrite"  BY <1>5, <2>4
    <3>2. ~Fine  BY <1>a, <2>1, <2>4 DEF DeliverInv, Undisturbed, Given
    <3>3. Kept'  BY <2>2, <3>2 DEF Kept
    <3>4. QED  BY <1>a, <2>1, <2>2, <2>3, <3>1, <3>3, GivesUp
  <2>5. CASE ~(closed \/ dialError)
    <3>1. pc'["up"] = "send"  BY <1>5, <2>5
    <3>2. connection' /\ socket' = "open" /\ (initErr' => initErr)  BY <1>5, <2>5, Zenon DEF Install
    <3>3. Withheld' /\ Kept' /\ TargetRight'  BY <3>1, <3>2 DEF Withheld, Kept, TargetRight, Given
    <3>4. Undisturbed'  BY <1>5, <2>1, <2>2, <2>5, <3>1, <3>2 DEF DeliverInv, Undisturbed, Given
    <3>5. Unbridged'  BY <1>a, <2>1, <2>2 DEF DeliverInv, Unbridged
    <3>6. QED  BY <3>3, <3>4, <3>5 DEF DeliverInv
  <2>6. QED  BY <2>4, <2>5
<1>6. CASE WriteHost
  <2>1. /\ pc["up"] = "send" /\ pc'["engine"] = pc["engine"] /\ pc'["handler"] = pc["handler"]
        /\ pc'["main"] = pc["main"] /\ pc'["closer"] = pc["closer"] /\ pc'["down"] = pc["down"]
    BY <1>6 DEF WriteHost
  <2>2. connection \/ ~proxied  BY <2>1 DEF DeliverInv, Withheld
  <2>3. UNCHANGED <<stream, fieldVars, socket, upstream, target, dialError, bridgeVars>>
    BY <1>6 DEF WriteHost, Send, SendFails
  <2>4. ASSUME pc'["up"] \in {"read", "send"} PROVE DeliverInv'
    <3>1. Withheld' /\ Kept' /\ TargetRight'  BY <2>2, <2>3, <2>4 DEF Withheld, Kept, TargetRight, Given
    <3>2. Undisturbed'  BY <2>1, <2>3, <2>4 DEF DeliverInv, Undisturbed, Given
    <3>3. Unbridged'  BY <1>a, <2>1, <2>3 DEF DeliverInv, Unbridged
    <3>4. QED  BY <3>1, <3>2, <3>3 DEF DeliverInv
  <2>5. CASE SendFails /\ Goto("up", "send", "closeWrite")
    <3>1. pc'["up"] = "closeWrite"  BY <2>5
    <3>2. ~Fine  BY <1>a, <2>1, <2>2, <2>5 DEF SendFails, Writable, DeliverInv, Undisturbed, Given
    <3>3. Kept'  BY <2>3, <3>2 DEF Kept
    <3>4. QED  BY <1>a, <2>1, <2>2, <2>3, <3>1, <3>3, GivesUp
  <2>6. ASSUME NEW k \in 1 .. Len(out), Goto("up", "send", IF k = Len(out) THEN "read" ELSE "send") PROVE DeliverInv'
    BY <2>4, <2>6
  <2>7. QED  BY <1>6, <2>5, <2>6 DEF WriteHost
<1>7. CASE CloseWrite  BY <1>7, <1>a, GivenDeliver DEF CloseWrite, Given
<1>8. CASE Finish  BY <1>8, <1>a, GivenDeliver DEF Finish, FinishSocket, Given
<1>9. CASE HostClose("up", "hostClose", "sockClose", "done")
  BY <1>9, <1>a, GivenDeliver DEF HostClose, MarkClosed, CloseSocket, Given
<1>10. CASE SockClose("up", "sockClose", "done")  BY <1>10, <1>a, GivenDeliver DEF SockClose, CloseSocket, Given
<1>11. CASE Establish
  <2>1. TRUE \in BOOLEAN /\ FALSE \in BOOLEAN  OBVIOUS
  <2>2. QED  BY <1>4, <1>5, <1>11, <2>1 DEF Establish
<1>12. QED
  BY <1>1, <1>2, <1>3, <1>6, <1>7, <1>8, <1>9, <1>10, <1>11 DEF Up, HostCloses

\* The invariant holds at first and is kept by every step.
LEMMA Delivers == Spec => [](Inv /\ OrderInv /\ PipeInv /\ DeliverInv)
<1>1. ASSUME Init PROVE PipeInv /\ DeliverInv
  <2>1. sniffHostname(stream, 0) = "needMore"  BY DEF sniffHostname
  <2>2. Len(pending) = 0 /\ MaxInitial \in Nat  BY <1>1, SizesAssumption DEF Init, ConnInit
  <2>3. /\ pc["up"] = "none" /\ pc["main"] = "none" /\ pc["handler"] = "dial" /\ pc["engine"] = "open"
        /\ pc["down"] = "none" /\ pc["closer"] = "none"
    BY <1>1 DEF Init, Threads
  <2>4. Withheld  BY <1>1, <2>1, <2>2, <2>3 DEF Init, ConnInit, Withheld
  <2>5. Unbridged /\ Undisturbed /\ Kept /\ TargetRight
    BY <1>1, <2>3 DEF Init, ConnInit, Unbridged, Undisturbed, Kept, TargetRight, Given
  <2>6. PipeInv  BY <1>1, <2>3 DEF Init, ConnInit, PipeInv, Chosen, Untouched
  <2>7. QED  BY <2>4, <2>5, <2>6 DEF DeliverInv
<1>2. Inv /\ OrderInv /\ PipeInv /\ DeliverInv /\ [Next]_vars => PipeInv' /\ DeliverInv'
  <2>1. Inv /\ OrderInv /\ PipeInv /\ [Next]_vars => PipeInv'
    BY HandlerPipe, UpPipe, DownPipe, MainPipe, CloserPipe, EnginePipe, EndsPipe DEF Next
  <2>2. Inv /\ OrderInv /\ PipeInv /\ DeliverInv /\ [Next]_vars => DeliverInv'
    BY HandlerDeliver, UpDeliver, DownDeliver, MainDeliver, CloserDeliver, EngineDeliver, EndsDeliver DEF Next
  <2>3. QED  BY <2>1, <2>2
<1>3. QED  BY <1>1, <1>2, InitInv, InvStep, InitOrder, OrderStep, PTL DEF Spec

\* In whatever pieces the device's bytes are read, CONNECT names the host exactly when the
\* stream names one within the sniffer's buffer (hostnameSniffingConn.Write, sniffHostname).
THEOREM ConnectsToNamed == Spec => []TargetRight
<1>1. DeliverInv => TargetRight  BY DEF DeliverInv
<1>2. QED  BY <1>1, Delivers, PTL

\* A device that half-closes has had all it sent delivered, unless something failed or the
\* sniffer was still waiting (bridgeTCP's copy to the host, CloseWrite).
THEOREM HalfClosed == Spec => []HalfCloseDelivers
<1>1. DeliverInv => HalfCloseDelivers  BY DEF DeliverInv, Kept, Fine, HalfCloseDelivers, Given
<1>2. QED  BY <1>1, Delivers, PTL
=============================================================================
