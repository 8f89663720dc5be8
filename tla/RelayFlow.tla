----------------------------- MODULE RelayFlow ------------------------------
(***************************************************************************)
(* One TCP flow of the packet relay, src/internal/relay/engine.go: the     *)
(* goroutine of handleTCP that dials and accepts it, the goroutines of     *)
(* bridgeTCP (one per direction, the one that waits for them, the one that *)
(* watches the engine's context) and Engine.Close, over a host connection  *)
(* that is a plain socket or a SniffingConn.                               *)
(*                                                                         *)
(* io.Copy is a loop of reads and writes; the connection to the device     *)
(* (gVisor) is open or closed, its peer talks, has finished or has reset.  *)
(* CloseRead changes nothing another goroutine could observe, SetLinger    *)
(* only how the host's socket is closed; neither is modelled.              *)
(***************************************************************************)
EXTENDS SniffingConn

CONSTANT MaxReplies    \* bound: payloads the host sends

ASSUME RepliesAssumption == MaxReplies \in Nat

VARIABLES
    pc,
    device,      \* the connection to the device
    client,      \* what the device does with it
    taken,       \* bytes read from the device
    replies,     \* payloads read from the host, and not all written yet
    cancelled,   \* the engine's context
    wg           \* flows the engine waits for

bridgeVars == <<device, client, taken, replies, cancelled, wg>>
vars == <<connVars, pc, bridgeVars>>

Threads == {"handler", "up", "down", "main", "closer", "engine"}
Points == [handler |-> {"dial", "accept", "start", "done"},
           up      |-> {"none", "read", "write", "dial", "connect", "install", "send",
                        "closeWrite", "finish", "hostClose", "sockClose", "done"},
           down    |-> {"none", "wait", "receive", "deliver", "closeRead", "hostClose",
                        "sockClose", "done"},
           main    |-> {"none", "first", "drain", "forceDevice", "forceHost", "forceSock",
                        "second", "stop", "hostClose", "sockClose", "deviceClose", "done"},
           closer  |-> {"none", "watch", "deviceClose", "hostClose", "sockClose", "done"},
           engine  |-> {"open", "stack", "wait", "closed"}]

Init ==
    /\ ConnInit
    /\ pc = [t \in Threads |-> CASE t = "handler" -> "dial" [] t = "engine" -> "open" [] OTHER -> "none"]
    /\ device = "none" /\ client = "talking" /\ taken = 0 /\ replies = 0
    /\ cancelled = FALSE /\ wg = 0

Goto(t, from, to) == pc[t] = from /\ pc' = [pc EXCEPT ![t] = to]

-----------------------------------------------------------------------------
(* handleTCP *)

\* e.dial, ConnectDialer.DialContext: an intercepted address gets a connection
\* that dials later and cannot fail here; another one is dialled, and a context
\* that is cancelled makes that fail.
Dial ==
    /\ \/ /\ proxied
          /\ Goto("handler", "dial", "accept")
          /\ UNCHANGED <<socket, target>>
       \/ /\ ~proxied /\ ~cancelled
          /\ Goto("handler", "dial", "accept")
          /\ socket' = "open" /\ target' = "destination"
       \/ /\ ~proxied
          /\ Goto("handler", "dial", "done")
          /\ UNCHANGED <<socket, target>>
    /\ UNCHANGED <<stream, fieldVars, upstream, tunnel, out, dialError, bridgeVars>>

\* CreateEndpoint completes the device's handshake; when it fails the host
\* connection is closed.
CreateEndpoint ==
    /\ Goto("handler", "accept", "start")
    /\ device' = "open"
    /\ UNCHANGED <<connVars, client, taken, replies, cancelled, wg>>

CreateEndpointFails ==
    /\ Goto("handler", "accept", "done")
    /\ IF proxied THEN MarkClosed ELSE CloseSocket
    /\ UNCHANGED <<stream, bridgeVars>>

\* wg.Add and bridgeTCP's goroutines.
StartBridge ==
    /\ pc.handler = "start"
    /\ pc' = [pc EXCEPT !.handler = "done", !.up = "read", !.down = "wait",
                        !.main = "first", !.closer = "watch"]
    /\ wg' = wg + 1
    /\ UNCHANGED <<connVars, device, client, taken, replies, cancelled>>

-----------------------------------------------------------------------------
(* io.Copy(host, device), then host.CloseWrite and device.CloseRead *)

ReadDevice(k) ==
    /\ device = "open" /\ client = "talking"
    /\ taken + k <= stream.size
    /\ Goto("up", "read", "write")
    /\ out' = [i \in 1 .. k |-> taken + i]
    /\ taken' = taken + k
    /\ UNCHANGED <<stream, fieldVars, socketVars, target, dialError,
                   device, client, replies, cancelled, wg>>

\* End of file, a reset, or the connection was closed on this side.
DeviceEnds ==
    /\ device = "closed" \/ client # "talking"
    /\ Goto("up", "read", "closeWrite")
    /\ UNCHANGED <<connVars, bridgeVars>>

Write ==
    /\ \/ Through /\ Goto("up", "write", "send")
       \/ Overflows /\ Goto("up", "write", "dial")
       \/ Buffers /\ Goto("up", "write", "read")
       \/ Decides /\ Goto("up", "write", "dial")
       \/ /\ Refused /\ Goto("up", "write", "closeWrite")
          /\ out' = <<>> /\ UNCHANGED <<pending, target>>
    /\ UNCHANGED <<stream, connection, initErr, closed, ready, socketVars, dialError, bridgeVars>>

Establish ==
    /\ \/ DialProxy(TRUE) /\ Goto("up", "dial", "connect")
       \/ DialProxy(FALSE) /\ Goto("up", "dial", "install")
       \/ \E ok \in BOOLEAN : performConnect(ok) /\ Goto("up", "connect", "install")
       \/ /\ Install
          /\ Goto("up", "install", IF closed \/ dialError THEN "closeWrite" ELSE "send")
    /\ UNCHANGED <<stream, bridgeVars>>

WriteHost ==
    /\ \/ \E k \in 1 .. Len(out) :
             Send(k) /\ Goto("up", "send", IF k = Len(out) THEN "read" ELSE "send")
       \/ SendFails /\ Goto("up", "send", "closeWrite")
    /\ UNCHANGED <<stream, bridgeVars>>

\* CloseWrite looks for the connection under mu; without one it is Close.
CloseWrite ==
    /\ Goto("up", "closeWrite", IF connection \/ ~proxied THEN "finish" ELSE "hostClose")
    /\ UNCHANGED <<connVars, bridgeVars>>

Finish ==
    /\ FinishSocket /\ Goto("up", "finish", "done")
    /\ UNCHANGED <<stream, bridgeVars>>

-----------------------------------------------------------------------------
(* io.Copy(device, host), then device.CloseWrite and host.CloseRead *)

\* Read waits for ready, then takes the connection or the error.
AwaitReady ==
    /\ ready \/ ~proxied
    /\ Goto("down", "wait", IF connection \/ ~proxied THEN "receive" ELSE "closeRead")
    /\ UNCHANGED <<connVars, bridgeVars>>

Receive ==
    /\ socket \in {"open", "finished"} /\ upstream = "up" /\ replies < MaxReplies
    /\ Goto("down", "receive", "deliver")
    /\ replies' = replies + 1
    /\ UNCHANGED <<connVars, device, client, taken, cancelled, wg>>

HostEnds ==
    /\ socket = "closed" \/ upstream # "up"
    /\ Goto("down", "receive", "closeRead")
    /\ UNCHANGED <<connVars, bridgeVars>>

WriteDevice ==
    /\ \/ device = "open" /\ client # "reset" /\ Goto("down", "deliver", "wait")
       \/ (device = "closed" \/ client = "reset") /\ Goto("down", "deliver", "closeRead")
    /\ UNCHANGED <<connVars, bridgeVars>>

\* CloseRead as CloseWrite above; with a connection nothing else sees it.
CloseRead ==
    /\ Goto("down", "closeRead", IF connection \/ ~proxied THEN "done" ELSE "hostClose")
    /\ UNCHANGED <<connVars, bridgeVars>>

-----------------------------------------------------------------------------
(* host.Close, by whichever goroutine: the critical section, then the socket *)

HostClose(t, from, socketStep, after) ==
    /\ IF ~proxied THEN CloseSocket /\ Goto(t, from, after)
       ELSE IF closed THEN Goto(t, from, after) /\ UNCHANGED <<fieldVars, socketVars, writeVars>>
       ELSE MarkClosed /\ Goto(t, from, IF connection THEN socketStep ELSE after)
    /\ UNCHANGED <<stream, bridgeVars>>

SockClose(t, from, after) ==
    /\ CloseSocket /\ Goto(t, from, after)
    /\ UNCHANGED <<stream, bridgeVars>>

DeviceClose(t, from, after) ==
    /\ Goto(t, from, after)
    /\ device' = "closed"
    /\ UNCHANGED <<connVars, client, taken, replies, cancelled, wg>>

HostCloses(t) == HostClose(t, "hostClose", "sockClose", "done") \/ SockClose(t, "sockClose", "done")

-----------------------------------------------------------------------------
(* bridgeTCPWithDrainTimeout *)

Completed == {t \in {"up", "down"} : pc[t] = "done"}

Step(t, from, to) == Goto(t, from, to) /\ UNCHANGED <<connVars, bridgeVars>>

AwaitFirst  == Completed # {} /\ Step("main", "first", "drain")
AwaitDrain  == Completed = {"up", "down"} /\ Step("main", "drain", "stop")
AwaitSecond == Completed = {"up", "down"} /\ Step("main", "second", "stop")

\* The timer fires: both connections are closed, so that both copies end.
DrainExpires == Step("main", "drain", "forceDevice")

ForceClose ==
    \/ DeviceClose("main", "forceDevice", "forceHost")
    \/ HostClose("main", "forceHost", "forceSock", "second")
    \/ SockClose("main", "forceSock", "second")

\* close(stopCloser), then the deferred closes in reverse order, and wg.Done.
Return ==
    \/ Step("main", "stop", "hostClose")
    \/ HostClose("main", "hostClose", "sockClose", "deviceClose")
    \/ SockClose("main", "sockClose", "deviceClose")
    \/ /\ Goto("main", "deviceClose", "done")
       /\ device' = "closed" /\ wg' = wg - 1
       /\ UNCHANGED <<connVars, client, taken, replies, cancelled>>

StopCloser == pc.main \in {"hostClose", "sockClose", "deviceClose", "done"}

\* Mutant of WatchContext: the closer does not watch the context.
WatchNothing == StopCloser /\ Step("closer", "watch", "done")

\* The goroutine that waits for the context or for the bridge to end.
WatchContext ==
    \/ cancelled /\ Step("closer", "watch", "deviceClose")
    \/ StopCloser /\ Step("closer", "watch", "done")

CloseBoth == DeviceClose("closer", "deviceClose", "hostClose") \/ HostCloses("closer")

-----------------------------------------------------------------------------
(* Engine.Close *)

Cancel ==
    /\ Goto("engine", "open", "stack")
    /\ cancelled' = TRUE
    /\ UNCHANGED <<connVars, device, client, taken, replies, wg>>

\* stack.Close closes every endpoint.
CloseStack ==
    /\ Goto("engine", "stack", "wait")
    /\ device' = IF device = "open" THEN "closed" ELSE device
    /\ UNCHANGED <<connVars, client, taken, replies, cancelled, wg>>

AwaitFlows == wg = 0 /\ Step("engine", "wait", "closed")

-----------------------------------------------------------------------------
(* The two ends *)

ClientEnds ==
    /\ device = "open" /\ client = "talking"
    /\ client' \in {"fin", "reset"}
    /\ UNCHANGED <<connVars, pc, device, taken, replies, cancelled, wg>>

UpstreamEnds ==
    /\ socket \in {"open", "finished"} /\ upstream = "up"
    /\ upstream' \in {"fin", "reset"}
    /\ UNCHANGED <<stream, fieldVars, socket, tunnel, writeVars, pc, bridgeVars>>

Handler == Dial \/ CreateEndpoint \/ CreateEndpointFails \/ StartBridge
Up == \/ \E k \in 1 .. stream.size : ReadDevice(k)
      \/ DeviceEnds \/ Write \/ Establish \/ WriteHost \/ CloseWrite \/ Finish \/ HostCloses("up")
Down == AwaitReady \/ Receive \/ HostEnds \/ WriteDevice \/ CloseRead \/ HostCloses("down")
Main == AwaitFirst \/ AwaitDrain \/ DrainExpires \/ ForceClose \/ AwaitSecond \/ Return
Closer == WatchContext \/ CloseBoth
Engine == Cancel \/ CloseStack \/ AwaitFlows

Next == Handler \/ Up \/ Down \/ Main \/ Closer \/ Engine \/ ClientEnds \/ UpstreamEnds

Spec == Init /\ [][Next]_vars

\* A goroutine that is not blocked goes on.  Blocked are a read while the peer
\* is silent and a write while it does not take anything; a dial and a CONNECT
\* have a deadline, the drain timer fires.
Fairness ==
    /\ WF_vars(Handler)
    /\ WF_vars(Up /\ pc.up # "read" /\ (pc.up = "send" => ~Writable))
    /\ WF_vars(DeviceEnds)
    /\ WF_vars(Down /\ pc.down # "receive" /\ (pc.down = "deliver" => device = "closed"))
    /\ WF_vars(HostEnds)
    /\ WF_vars(Main)
    /\ WF_vars(Closer)
    /\ WF_vars(CloseStack) /\ WF_vars(AwaitFlows)

FairSpec == Spec /\ Fairness

-----------------------------------------------------------------------------
(* Properties *)

\* Every field has its type, every goroutine of the flow is at a place of its own
\* code, and the engine counts the flow at most once (e.wg).
TypeOK ==
    /\ stream \in Streams
    /\ {connection, initErr, closed, ready, dialError, cancelled} \subseteq BOOLEAN
    /\ socket \in {"none", "dialled", "open", "finished", "closed"}
    /\ upstream \in {"up", "fin", "reset"}
    /\ target \in {"none", "hostname", "destination"}
    /\ {pending, out, tunnel} \subseteq Seq(1 .. stream.size)
    /\ DOMAIN pc = Threads /\ \A t \in Threads : pc[t] \in Points[t]
    /\ device \in {"none", "open", "closed"} /\ client \in {"talking", "fin", "reset"}
    /\ taken \in 0 .. stream.size /\ replies \in 0 .. MaxReplies /\ wg \in 0 .. 1

\* However the device's bytes are cut into reads, buffered, flushed and cut into
\* writes: what reached the host is a prefix of what the device sent.
InOrder == IsPrefix(tunnel, [i \in 1 .. taken |-> i])

\* CONNECT names the host exactly when the stream names one and what was read of it
\* by then fits into the buffer: the sniffer neither gives up on a prefix of such a
\* stream nor finds a name in another.  A read that completes the name and overruns
\* the buffer is the code's exception: the stream goes to its destination.
TargetRight ==
    pc.up = "dial" => (target = "hostname" <=> NamedAfter(stream) # 0 /\ taken <= MaxInitial)

\* A device that has finished its request and half-closes (the host answers
\* later) has had all of it delivered, unless something failed.  The exception
\* is the code's: what is buffered when no verdict was reached is dropped.
HalfCloseDelivers ==
    pc.up = "done" /\ client = "fin" /\ upstream = "up" /\ ~dialError /\ ~cancelled
        => \/ Len(tunnel) = taken
           \/ proxied /\ taken <= MaxInitial /\ sniffHostname(stream, taken) = "needMore"

\* When handleTCP has refused the flow, or bridgeTCP has returned, no socket is
\* left, also when Close came while Write was dialling; at most the goroutine
\* that watches the context, which nobody waits for, has yet to close it.
NothingLeaks ==
    pc.handler = "done" /\ pc.main \in {"none", "done"}
        => /\ socket \in {"none", "closed"} \/ pc.closer = "sockClose"
           /\ device \in {"none", "closed"}
           /\ pc.up \in {"none", "done"} /\ pc.down \in {"none", "done"}

Pipe == INSTANCE FlowPipe WITH
    arrived <- Len(tunnel),
    peer <- target,
    ended <- socket \in {"finished", "closed"}

\* The flow is the pipe the device takes it for.
ImplementsPipe == Pipe!Spec

\* When one direction has ended so does the flow: the other one drains or is cut
\* off, even if it waits for a connection that Write has not dialled.
FlowEnds == Completed # {} ~> pc.main = "done"

\* Close of the engine returns although flows are blocked, and what a handler
\* was still setting up is released as well.
CloseReleases ==
    cancelled ~> /\ pc.engine = "closed" /\ pc.handler = "done"
                 /\ socket \in {"none", "closed"} /\ device # "open"
=============================================================================
