# HarmonyNetBridge in TLA+

HarmonyNetBridge gives a HarmonyOS device the network of a Mac over USB. This
directory models its own core logic, model-checks it with TLC and proves its
main safety properties with TLAPS. Line numbers refer to the files under `src/`.

## 1. The system

| Component | State it keeps | Operations | What is hard |
|---|---|---|---|
| Daemon sessions (`internal/daemon/server.go`) | the Control and Data connection, mode, token, relay, `reconnectPending`, `stopping` under `mu`; the status snapshot under its own lock | HELLO, DATA_HELLO, VPN_STATUS, release of either connection, mapping monitor, shutdown | one goroutine per connection; decisions under `mu`, publications after it; `relay.Close` may take long in between |
| Daemon lifecycle (`Run`, `shutdown`, `listenControlSocket`, `cmd/.../main.go`) | state file, control socket path, hdc mapping, mitmweb child | start, recovery after a kill, serve, stop | kills between two steps, a successor that starts while its predecessor still cleans up, steps that fail half-way |
| HNB/1 channel (`internal/protocol`, `frameWriter`, `heartbeatTracker`, `VpnControlSession.ets`, `HnbProtocol.ets`) | sequence numbers, the outstanding heartbeat, watchdog times | write, read, PING/PONG, timeout | wrap-around past 2^32-1 without 0, concurrent writers, late PONGs |
| Packet relay (`internal/relay/engine.go`) | open flows, counters, output queue | inject, accept TCP/UDP, bridge, close | half-close and drain timeouts, close while flows open |
| System DNS (`internal/relay/dns.go`) | cached resolvers and their age | exchange, invalidate, reload | concurrent queries around an invalidation, suffix choice |
| Capture proxy (`internal/proxy`) | mitmweb process, lazily dialled connections | start, recover, supervise, dial, sniff | reader waits for a connection that the writer dials; orphaned process |
| hdc manager (`internal/hdc`) | none (talks to hdc) | AddReverse, HasReverse, Remove, SelectTarget | outcomes that are unknown or late |
| VPN extension (`HarmonyNetBridgeVpnExtensionAbility.ets`) | control session, VPN connection, pump, cleanup promise | session loop with back-off, stop, destroy, cleanup | every `await` can be overtaken by a stop |
| Packet pump (`packet_pump.cpp`) | TUN and socket descriptors, two threads | connect, start, stop | join against blocked reads, shared writer |
| App bridge session and pages (`BridgeSession.ets`, `Index.ets`) | connection state, reconnect timer | connect, disconnect, retry | timers and callbacks of old attempts |
| CLI, logging, diagnostics, scripts | little | | |

Interactions: CLI and daemon talk over the control socket; the device reaches
the daemon through the hdc reverse mapping with one Control and one Data
connection; the daemon binds a relay to the Data connection; the relay dials
through the capture proxy when it is on; the extension drives the packet pump
and reports VPN_STATUS on the Control connection. Each component is listed
with its status in `PROJECT.json`, and so are the hazards, each at its line.

What makes each component correct, in a sentence: a session's data channel and
relay live and die with it, and the status tells the truth once the daemon has
caught up (sessions); what a killed daemon leaves is found and removed, and a
stop leaves nothing (lifecycle); both ends agree on the next sequence number
and a dead peer is noticed (channel); every flow ends, with its bytes in order and
its sockets closed (relay, proxy connections); a query goes to the responsible
resolver, and a retry never to a list older than the failure (DNS); no
black-hole tunnel is left after an end of any kind (extension, pump).

## 2. Modules

| Module | What it is |
|---|---|
| `DaemonSession` | session handling of the daemon |
| `SessionRegistry` | abstract specification: what the daemon promises about connections |
| `DaemonSessionProofs` | the theorems about `DaemonSession`, machine-checked |
| `DaemonLifecycle` | the life of daemon processes and what outlives them |
| `VpnExtension` | the device's VPN extension with its Control session |
| `VpnExtensionProofs` | the theorems about `VpnExtension`, machine-checked |
| `PacketPump` | the native packet pump: the extension's thread and two pump threads |
| `PumpFacade` | abstract specification: what the extension takes the native module for |
| `PacketPumpProofs` | the theorems about `PacketPump`, machine-checked |
| `DaemonLifecycleProofs` | the theorems about `DaemonLifecycle`, machine-checked |
| `HnbChannel`, `HnbChannelProofs` | one HNB/1 connection with its writers, heartbeat and reader, and the theorems |
| `HostnameSniffing` | the sniffer: which host the first bytes of a stream name (operators) |
| `SniffingConn` | the lazily dialled proxy connection: one operator per critical section |
| `RelayFlow` | one TCP flow of the relay, whose goroutines call `SniffingConn` |
| `FlowPipe` | abstract specification: what a flow is for the device that sends |
| `RelayFlowProofs` | the theorems about `RelayFlow`, machine-checked |
| `ResolverChoice` | parsing of `scutil --dns` and choice of a resolver (operators) |
| `SystemDNS`, `SystemDNSProofs` | resolver cache and queries of several flows, and the theorems |
| `LoopTheorems` | induction up to a number, and the states of a loop; `RelayFlowProofs` and `SystemDNSProofs` rest on it |
| `MCDaemonSession`, `MCDaemonLifecycle`, `MCRelayFlow`, `MCSystemDNS` | instances for TLC (the other modules have plain constants and are checked directly) |

Operators whose comment begins with "Mutant of" are deliberately wrong variants
of the definition after them. `PROJECT.json` says which property each of them
must break; they belong to no specification.

### 2.1 DaemonSession

One step is what the code does under one lock: a critical section of `mu`, a
read of the snapshot or a publication. Variables named after the fields of
`Server` are those fields; `transport`, `vpn`, `reconnects` and `message` are
the snapshot; `pc`, `hello`, `presented`, `report`, `previous`, `grabbed` and
`counting` are what the handler goroutines hold in locals.

| Actions | Code |
|---|---|
| `RegisterControl`, `PublishControl`, `WriteHelloAck`, `ControlEnds` | `handleControlConnection` 781-916 |
| `CheckStatus`, `PublishStatus` | `applyVPNStatus` 1116-1163, checked under `mu`, published after it |
| `ReadPrevious`, `UnregisterControl`, `CloseGrabbed`, `PublishControlLoss` | `releaseControl` 1165-1218 |
| `BindData`, `CreateRelay`, `InstallRelay`, `DiscardRelay`, `DataEnds` | `handleDataConnection` 918-1006 |
| `UnbindData`, `CloseData`, `PublishDataLoss` | `releaseData` 1220-1255 |
| `CheckMapping`, `MarkChecks`, `MarkReads`, `MarkPublishes`, `RestoreMapping` | `monitorMapping` and the two mark functions 408-517 |
| `BeginShutdown`, `JoinMonitor`, `AwaitStopAck`, `CloseSession` | `shutdown` 1277-1348 |

Abstractions: a token is the connection it was issued to (16 random bytes); a
relay is the Data connection it was created for; of the snapshot's message only
the two texts by which the monitor recognises its own publications are told
apart; PING, PONG and packets change none of this state. The history
variable `losses` records which sessions' ends were classified as unexpected; no
action reads it.

`SessionRegistry` has one atomic step per promise (open, attach, carry, detach,
drop, halt). The refinement maps the registry fields to it and takes as fresh
the connections that have not asked for anything.

### 2.2 DaemonLifecycle

A daemon is an element of `Instances`; it also names its ephemeral host port
(hence its mapping) and its mitmweb child. `file`, `socket`, `mappings` and
`proxies` outlive it. `socket` is the listener that the path is bound to, so a
path left by a killed daemon refuses connections and a path removed by somebody
else leaves a daemon unreachable.

| Actions | Code |
|---|---|
| `Start` | `startCommand` main.go 102-138: a daemon that answers prevents the spawn; the spawn itself 221-233 |
| `ProbeSocket`, `UnlinkStale`, `Listen` | `listenControlSocket` 1420-1449 |
| `Persist` ... `PublishRunning` | `Run` 270-366 |
| `EndServing` | the select of `Run` 368-393 |
| `AcceptStop`, `ApplyStop` | `handleControl` 530-553 |
| `Signal` | the signal context of `Run`, main.go 381 |
| `MonitorMisses`, `MonitorRestores`, `MonitorEnds` | `monitorMapping` |
| `JoinMonitor` ... `Exit` | `shutdown` 1277-1383 |
| `Republish` | any later `update` by sessions, heartbeats or status requests |
| `Crash`, `Unplug`, `ProxyExits` | environment |

Closing a Go Unix listener unlinks its path, so `CloseListeners` does too, and
`UnlinkFiles` removes the path a second time, as the code does. Which faults can
happen is the constant `Faults`. Daemons may be started at any time, also while
another one starts, serves or stops. The history variable `holder` is the daemon
that bound the path last, or None if at that moment another one was past its probe
and could still remove the path by name; the safety properties are about the
holder, and `OneDaemon` shows what happens to the others.

Failures the code survives are faults: a state file that cannot be written
(`writeFails`: `update` only logs), an AddReverse that fails although hdc has made
the mapping (`answerLost`), a `Close` of the proxy that returns an error because
mitmweb ended just before it was killed (`killFails`). The AddReverse of `Run` (344)
has no deadline, unlike every other call to hdc; it ends when the process is
signalled, which is why `Signal` can come during a start. Not modelled: a mitmweb
that survives SIGKILL, a reused PID or host port, different devices sharing one
state directory.

### 2.3 VpnExtension

ArkTS code runs in one thread, so a step is what happens between two `await`s.
Three coroutines can wait at the same time: the session loop (`run`, the place
where it waits or runs on), the shared clean-up (`cleanup`, with what its caller
asked for and whether it took the Control session) and the handler of a
STOP_REQUEST (`ack`). A continuation whose promise has been settled is a
microtask and runs before any other event; `Ready` says that there is one, and
every event has `~Ready` in its guard. What happens outside the thread (pump
threads, the Mac, a late `destroy()`) does not wait for it.

| Actions | Code |
|---|---|
| `OnCreate` | `onCreate` and the head of `runPhase3`, with the configuration check |
| `Dialled`, `HandshakeSettled`, `Undialled` | `VpnControlSession.connect` as `runVpnSession` awaits it |
| `StartingReported`, `ConnectData`, `Protected`, `Created`, `ActiveReported`, `EnterRace`, `Raced` | the rest of `runVpnSession` |
| `Caught`, `LossReported`, `Teardown`, `TornDown`, `RetryElapsed`, `RetryStopped` | the catch of `runPhase3` and its back-off |
| `Finally`, `CleanedUp`, `StoppedPublished`, `StopOwnExtension` | the finally of `runPhase3` |
| `BeginCleanup`, `Destroyed`, `CleanupControl`, `StoppedReported`, `ControlClosed` | `cleanupPhase3`, `performPhase3Cleanup`, `close` |
| `HelloAck`, `SocketFd`, `ControlFails`, `HandshakeTimesOut`, `StopRequest`, `StopAckSent` | callbacks and timers of `VpnControlSession` |
| `PumpPolled`, `UIStop`, `OnDestroy` | `waitForPumpStop`, the stop event, `onDestroy` |
| `StopAckArrives`, `MacStops`, `MacCloses`, `MacRestarts`, `PumpFails`, `DestroyedLate` | environment |

The send queue of the Control session lets one frame out at a time. Besides STOP_ACK
at most one frame is unconfirmed (HELLO or a VPN_STATUS that the loop or the
clean-up awaits), so of the queue there is the order of these two: a STOP_REQUEST
that arrives while another send is awaited leaves STOP_ACK `queued`, and its send
begins when that one is confirmed, fails or is no longer awaited; a frame sent after
STOP_ACK is confirmed only after it.

Abstractions. Awaits with nothing between them that another coroutine could see
are one. Of the frames only HELLO_ACK and STOP_REQUEST matter here; sequence
numbers and PING are `HnbChannel`'s. Of the native pump there is the
data socket and whether it runs. The length of the back-off and the Gate V probe
mode are left out. Only the latest attempt's Control session is kept: the loop
closes one before it opens the next. A VPN whose destruction outlasted its
deadline is one flag, `orphan`, however many there are, which makes the state
space finite without a counter.

### 2.4 PacketPump

Three threads: the extension's, which calls `Connect`, `Start` and `Stop` one
after another (`caller`), and the two pump threads (`pc`). A step is one access
to what they share: `running_`, `lastError_`, `writeMutex_`, the socket. `Fail`
is three steps, `StopLocked` five, and `Start` lets the first thread run before
the second exists.

| Actions | Code (`packet_pump.cpp`) |
|---|---|
| `CallStop`, `StopShutdown`, `JoinTun`, `JoinSocket`, `StopClose` | `Stop`, `StopLocked` 265-310, also at the head of `Connect` |
| `Dial` | the rest of `Connect` 157-242 |
| `Start`, `Spawn` | `Start` 244-263 |
| `Lock`, `SendHeader`, `SendPayload` | `SendFrame` 320-333 |
| `FailRecords`, `FailClears`, `FailShuts` | `Fail` 312-318 |
| `LoopTest`, `TunPolled` | `PumpTunToSocket` 335-380 |
| `LoopTest`, `ReadHeader`, `ReadError`, `ReadBody`, `WriteTun` | `PumpSocketToTun` 382-440 |
| `LinkBreaks` | environment: a broken or a half-open connection |

`mac` is the reader at the other end: the sequence number it expects, whose
header it has read, and whether it could follow so far. An error is `induced` if
the socket had been shut when it was met, and a `cause` otherwise. A blocking
send waits while the other side does not read; it fails only on a broken or shut
connection, and then every later one fails too. `PumpFacade` has the two
variables `data` and `pump` of `VpnExtension` and the steps that may change them.
Both sides implement it: the refinement from `PacketPump` takes `connected_` for
the first, and `running_` with the existence of threads for the second; `VpnExtension`
has the two variables itself (`UsesPump`).

### 2.5 HnbChannel

One connection after its handshake, Control or Data, seen from the Mac. Three
goroutines write to it: the handler (its acknowledgement, then PONGs), the
heartbeat, and a third one, which is the relay's output on Data and `shutdown`
on Control. A frame is two writes, header and payload; the socket takes
`Capacity` parts and then blocks until the deadline of the write. Once the
acknowledgement is written the handler clears all deadlines of the connection
(`ClearDeadline`); a STOP_REQUEST that is being written just then loses its own
(`untimed`).

| Actions | Code |
|---|---|
| `Lock`, `WriteHeader`, `WritePayload`, `WriteFails` | `frameWriter.Write` 162-169, `WriteFrame` protocol.go 158-177 |
| `ReadFrame`, `ReadFails` | the reading loops 879-914 and 978-1006, `ReadFrame` |
| `Beat`, `BeatExpired`, `BeatStops`, `Elapse` | `runHeartbeat` 1018-1045, `heartbeatTracker` 171-200 |
| `Third`, `OutputEnds`, `SessionEnds`, `Leave` | `writeRelayOutput` 1008-1016, `shutdown`, `releaseControl` |
| `ClearDeadline` | `SetDeadline(time.Time{})` and the start of the channel's goroutines 871-877, 972-977 |
| `Activate`, `Deactivate` | what `runHeartbeat` reads from the snapshot at each tick (1024): `applyVPNStatus` 1151-1157 sets it, a later VPN_STATUS or a late loss (1197, 1242) replaces it |
| `Hear`, `Say`, `FallSilent` | the device: it reads and answers by the same rules, refuses what is out of sequence, and may fall silent with the connection open |

`HELLO_ACK` and `DATA_ACK` do not go through the writer, and the handler holds no
lock while it writes them; the model keeps that. `SilenceNoticed` and
`WriterReleased` name what can defeat them: a snapshot that leaves ACTIVE, and a
cleared deadline (section 6). A frame is its type, number and nonce; `bad` is any
frame the reader does not accept.

### 2.6 RelayFlow, SniffingConn, HostnameSniffing

A flow has six goroutines: `handleTCP`, two copies, `bridgeTCP` which waits for
them, the watcher of the context, and `Engine.Close`. The host side is a plain
socket, or a `hostnameSniffingConn`, whose critical sections are the operators of
`SniffingConn`: `Write` buffers until the bytes name a host, then dials, sends
CONNECT and installs the connection, while `Read` waits and `Close` may come at
any point. A byte is its position in the stream, which makes loss, repetition and
reordering visible; a stream is described by what the parser tells apart (TLS
records, length of the ClientHello, end of the HTTP header, whether there is a
valid name), and `sniffHostname` gives its verdict on each prefix of it.

| Actions | Code |
|---|---|
| `Dial`, `CreateEndpoint`, `CreateEndpointFails`, `StartBridge` | `handleTCP` engine.go 284-318, `DialContext` connect.go 64-90 |
| `ReadDevice`, `DeviceEnds`, `Write`, `Establish`, `WriteHost`, `CloseWrite`, `Finish` | copy towards the host; `Write` 227-286, `establish` 288-328, `CloseWrite` 413-424 |
| `AwaitReady`, `Receive`, `HostEnds`, `WriteDevice`, `CloseRead` | copy towards the device; `Read` 213-225, `CloseRead` 400-411 |
| `AwaitFirst`, `AwaitDrain`, `DrainExpires`, `ForceClose`, `AwaitSecond`, `Return`, `StopCloser` | `bridgeTCPWithDrainTimeout` 461-507 |
| `WatchContext`, `CloseBoth`, `Cancel`, `CloseStack`, `AwaitFlows` | the watcher and `Engine.Close` 247-256 |
| `ClientEnds`, `UpstreamEnds` | environment: a half-close or a reset |

`writeMu` has one caller and is left out; the deadline setters have none here.
`FlowPipe` is the abstract pipe: bytes taken arrive in order and once, at one peer
that is chosen before the first arrives, and nothing arrives after the end.
`NamedAfter` says without the parser's loop after how many bytes a stream has
named its host.

### 2.7 SystemDNS, ResolverChoice

Several flows query through one `SystemDNS`. Configurations of the Mac are
numbered in the order in which it goes through them, and every list carries the
number of the one it was read from, which is how staleness is observed. `mu` is
held while `scutil` runs; the moment at which `scutil` reads the configuration is
a step of its own, so that a change can fall before or after it.

| Actions | Code |
|---|---|
| `Ask`, `Answer`, `Fail`, `EndFlow` | `serveDNSUDP`, `serveDNSTCP` engine.go 384-427 |
| `LookUp`, `Scutil`, `Store` | `currentResolvers` dns.go 152-179, `Load` 341-347 |
| `Dial`, `Receive`, `NextServer` | `exchangeSelected` 119-139, `exchangeOne` 181-212, with the change to TCP after a truncated answer |
| `Exhausted`, `Invalidate` | the failure path of `Exchange` 102-117, `invalidate` 141-150 |
| `Expire`, `Age`, `ChangeConfig`, `Cancel` | deadline, reload interval, environment, `Engine.Close` |

`ParseScutilDNS` and `selectResolver` are operators over reports, which are
sequences of key/value lines; `Responsible` states, without the loops, which
nameservers may be asked about a name: those of a block of lines that no other
usable block beats by a longer suffix, or by a lower order for the same one.

## 3. Runs

| Run | Bounds | Shows |
|---|---|---|
| `DaemonSession` | 2 Control, 2 Data connections, reports STOPPED and ACTIVE, probes find the mapping | `DataOfSession`, `RelayOwned`, `HandshakeNotLast`, `LossCountedOnce`, refinement of `SessionRegistry` |
| `DaemonLiveness` | 1 + 1 connections, reports STOPPED and ACTIVE, all probe outcomes, with fairness | `OfflineRecovers`, `ShutdownCompletes`, `OrphanEnds` |
| `DaemonRestarts` | two daemons, one after the other or side by side; signals and kills anywhere, unplugging, failing starts, hdc and `Close`; with fairness | `Reachable`, `LeftoversRecorded`, `RecordReclaimed`, `ExitsClean`, `StopCompletes` |
| `VpnExtension` | faults `transport`, `setup`, `destroy`, `ackTimeout`, `system`; with fairness | `TunnelOwned`, `RebuildsFromNothing`, `EndsReleased`, refinement of `PumpFacade` (`UsesPump`), `UIStopEnds`, `DeadLinkGivenUp`, `PumpFailureNoticed` |
| `PacketPump` | sequence numbers wrap after 3; with fairness | `FailureExplained`, `DescriptorHeld`, `FramesWhole`, refinement of `PumpFacade`, `StopReturns`, `BothEnd` |
| `HnbChannel` | both kinds of connection, numbers wrap after 2, 1 part in flight each way, 1 nonce; with fairness | `InSequence`, `WriterReleased`, `SilenceNoticed` |
| `RelayFlow` | four streams of 2 to 5 bytes, headers of 1 byte, a buffer of 4, 1 reply; with fairness | `InOrder`, `TargetRight`, `HalfCloseDelivers`, `NothingLeaks`, refinement of `FlowPipe`, `FlowEnds`, `CloseReleases` |
| `SystemDNS` | a UDP and a TCP flow with 1 query each, two configurations; with fairness | `RetryFresh`, `AsksResponsible`, `QueriesSettle` |
| `StopNotMistaken` | no faults | violated, see section 6 |
| `OneDaemon` | 3 daemons, no faults | violated |
| `Reclaimed` | 3 daemons, kills while serving, failing starts | violated |
| `FailureRefreshes` | as `SystemDNS` | violated |

Bounds. A connection is used once, so two of each kind give a session, its
successor and every mix of the two; the safety properties of this run are
proved for any number. A mapping probe has three outcomes and all occur in
`DaemonLiveness`. In `DaemonRestarts` each daemon sees at most one predecessor's
record, so two instances show a kill and the recovery from it, and a start beside
a daemon at any point of its life; the theorems are for any number. The faults
`reclaimFails` (hdc does not remove a recorded mapping) and `writeFails` (the state
file cannot be written), which the code only logs, are in no passing run: they
defeat `RecordReclaimed` and `LeftoversRecorded` by definition, and the other
theorems cover them. `DaemonSession` uses
symmetry in the connections and only for safety. `VpnExtension` needs no bound:
attempts, stops and restarts of the Mac are unlimited. Nor does `PacketPump`,
but for the width of the sequence number: 3 stands for 2^32-1, so that the
wrap-around happens within a few frames (the proofs are for every width). The
fault `fd` of `VpnExtension` (the platform's `getSocketFd` fails) is covered by
the proofs but is in no passing run: it leaves the handshake promise unsettled
for good, and then neither `UIStopEnds` nor `DeadLinkGivenUp` holds.

In `HnbChannel` one part in flight is the hardest case for the writers: each of
them blocks at each of its writes. The number wraps at once. A nonce is used again
only after the one before was acknowledged, so one suffices. The streams of
`RelayFlow` are a ClientHello in two records that ends exactly where the buffer
does, an HTTP request without a name, bytes that outgrow the buffer undecided, and
a flow that is not intercepted; each is cut into reads and writes in every way.
The two configurations of `MCSystemDNS` are a home network and a VPN with split
DNS, with two resolvers for one suffix whose order decides against their place, a
repeated domain, a more specific resolver without a usable nameserver, and lines
outside every block; with one query per flow, both flows
load, invalidate and retry around each other and around the change.

Deadlock is checked for the daemon, the extension and the pump. The only ways for
them to stop are `Exited`, `Done` and, in `VpnExtension`, `Finished`: the loop has
ended, or `onDestroy` was called, after which the system may end the process at
any time. A channel, a flow and the queries of a relay do end, so their runs do
not check it; that they end is what `FlowEnds`, `CloseReleases` and
`QueriesSettle` say.

Fairness. In `DaemonSession` a goroutine that is not waiting for its peer goes
on (writes have deadlines, hdc calls have a timeout, `relay.Close` cancels its
flows), the monitor's ticker ticks, and the read loop of a connection that the
daemon itself closed fails. Nothing is assumed about what the device sends. In
`DaemonLifecycle` a live process goes on, a stop request that was accepted is
handled, and `Run`'s select is woken by a closed `stopRequested` and by the signal.
The exception is the AddReverse of `Run`, which has no deadline: it ends for certain
only once the process is signalled, so no property says that a start ends by itself.
Nobody has to start, signal or stop a daemon. In `VpnExtension` the platform's promises settle, timers
fire, and connections that the Mac has closed are noticed (the close event or
the inbound watchdog). Nothing is assumed of the Mac, the user or the system. In
`PacketPump` the extension's thread goes on, and so does a pump thread (`poll`
and the reads have deadlines) except in a send: nobody promises that the Mac
reads, so a send ends for certain only once the connection is broken or shut.
In `HnbChannel` the goroutines go on, timers fire, and the writer's lock goes to
whoever waits for it (strong fairness: a Go mutex hands over after a waiter has
starved for a millisecond); a write ends by its deadline unless that was cleared.
Nothing is assumed of the device. In `RelayFlow` a goroutine goes on unless it waits in a read for a
silent peer or in a write to one that takes nothing; dials, CONNECT and the drain
have timers. In `SystemDNS` deadlines pass, and they end `scutil` and reads;
nothing is assumed of nameservers.

## 4. Proofs

`DaemonSessionProofs` proves, for every set of connections (the Control ones
finite), every set of reports and every set of probe outcomes:

| Theorem | States |
|---|---|
| `TypeCorrect` | `Spec => []TypeOK` |
| `DataOfSessionHolds` | `Spec => []DataOfSession` |
| `RelayOwnedHolds` | `Spec => []RelayOwned` |
| `HandshakeNotLastHolds` | `Spec => []HandshakeNotLast` |
| `LossCountedOnceHolds` | `Spec => []LossCountedOnce` |
| `OfflineRecoversHolds` | `Spec => []OfflineRecovers` |
| `RegistryImplemented` | `Spec => ImplementsRegistry` |

Assumptions: `ConnsAssumption` (the two kinds of connections are disjoint, None
is neither, Control connections are finite), `ReportsAssumption` and
`OutcomesAssumption`.

The argument is one inductive invariant, `Inv`, proved conjunct by conjunct with
one step per action. None of the listed properties is inductive alone:

- `SessionInv` adds to `DataOfSession` that the token in force is the live
  session's, that the bound Data handler has not ended and that an installed
  relay's handler serves it; without it `BindData` could not conclude whose
  session the presented token belongs to.
- `RelayInv` adds to `RelayOwned` that a relay just created is open
  (`CreatedOpen`) and that one taken out to be closed is never installed again
  (`NoneReused`), which is what keeps an installed relay from being closed.
- `CountInv` adds to `LossCountedOnce` that who claims a loss has yet to publish
  it, that no loss is pending while a VPN session is up, and that a session is
  lost once, so that classifying a loss adds exactly one; the equation is over
  cardinalities, hence the finiteness assumption.
- `MonitorInv` adds to `OfflineRecovers` that the monitor's locals follow its
  place in the loop: on its way to AddReverse it holds the mapping unavailable,
  on its way to announce it back there is nothing left to restore.

`RegistryStep` then shows that under `Inv` every step of `DaemonSession` is a
step of `SessionRegistry` or leaves it alone. Lemmas `ControlMoves` and
`DataMoves` state once what a handler's step does to `pc`, so that no proof
expands it again.

`VpnExtensionProofs` proves, for every set of faults (`FaultsAssumption` only says
which kinds there are and no proof needs it):

| Theorem | States |
|---|---|
| `TypeCorrect` | `Spec => []TypeOK` |
| `TunnelOwnedHolds` | `Spec => []TunnelOwned` |
| `RebuildsFromNothingHolds` | `Spec => []RebuildsFromNothing` |
| `PumpHasBothEndsHolds` | `Spec => []PumpHasBothEnds` |
| `EndsReleasedHolds` | `Spec => []EndsReleased` |
| `PumpUsed` | `Spec => UsesPump` |

Again one inductive invariant, `TypeOK /\ Safe`, and one step per action:

- `FieldsInv`: until `onDestroy` the fields describe the attempt, either `Owned`
  (everything that exists is in them) or `Released` (everything was taken, and
  what still exists is in the hands of the clean-up under way). Without it
  nothing says that a clean-up finds what it has to take.
- `DestroyInv`: no VPN is destroyed under a running pump, and no clean-up that is
  destroying one overlaps the `create()` of another attempt.
- `ReleaseInv`: `Released` at the places from which the loop goes on to another
  attempt or ends, also when `onDestroy` began the clean-up that it joins.
- `OutcomeInv`: the Control session of a live attempt is open until `onDestroy`,
  so its end is never the loop's own doing; hence `terminal` is a reason that is
  published, which `EndsReleased` needs.
- `PumpUse`: where the loop is about to connect the data socket there is none,
  and where it is about to start a pump there is none, also when an `onDestroy`
  came in between and the loop goes on. `FacadeStep` needs it to map
  `ConnectData` and `Created` to steps of `PumpFacade`.

The Boolean and the other conjuncts of `TypeOK` are proved apart (`FlagsStep`,
`PlacesStep`), because Zenon does the former and the SMT solver the latter.

`PacketPumpProofs` proves, for every largest sequence number of at least 2:

| Theorem | States |
|---|---|
| `TypeCorrect` | `Spec => []TypeOK` |
| `RunningIsTrueHolds` | `Spec => []RunningIsTrue` |
| `FailureExplainedHolds` | `Spec => []FailureExplained` |
| `ErrorIsCauseHolds` | `Spec => []ErrorIsCause` |
| `DescriptorHeldHolds` | `Spec => []DescriptorHeld` |
| `FramesWholeHolds` | `Spec => []FramesWhole` |
| `FacadeImplemented` | `Spec => ImplementsFacade` |

Its invariant has four parts. `CallInv` ties the place of the extension's thread
to the threads that exist. `SocketInv` says that the socket outlives them and is
shut only by a stop or after an error was recorded. `FailInv` orders the three
steps of `Fail`: who has ended has cleared `running_`, who has cleared it has
recorded an error, and who meets an induced error comes after a recorded one.
`StreamInv` says that the lock is held exactly while a frame is sent and that, on
a connection that works, the Mac expects the next number and is inside a frame
exactly when a thread is.

`DaemonLifecycleProofs` proves, for any finite set of daemons, which may start,
serve and stop beside each other, and any set of faults:

| Theorem | States |
|---|---|
| `TypeCorrect` | `Spec => []TypeOK` |
| `ServingReachable` | `Spec => []Reachable` |
| `KilledOnRecord` | `Spec => []LeftoversRecorded`, if the state file can be written (`"writeFails" \notin Faults`) |
| `EndsClean` | `Spec => []ExitsClean` |
| `FoundReclaimed` | `Spec => []RecordReclaimed`, if hdc does remove a recorded mapping (`"reclaimFails" \notin Faults`) |

All but `EndsClean` are about the `holder`: of a daemon that bound the path while
another could still remove it they do not hold, which is what the run `OneDaemon`
shows. The invariant says of each daemon, by its place, what it owns (`Own`: its
listener, mitmweb, mapping and stop request, from the step that makes them to the
step that removes them) and of a holder that lives (`HolderOf`) that every other
daemon is `Harmless`, that is before its listener or dead, and that the path is the
holder's exactly while it is bound. It is inductive because a harmless daemon that
goes on finds the holder's path in its probe or in its `Listen` and exits; lemma
`Quiet` says that until then its steps disturb nothing. `FileInv` adds that the file
is the holder's snapshot, and `RecordInv` that a record names only daemons that had
got as far as publishing it, and that what a daemon found on record is gone once it
is past the step that looks at it.

`HnbChannelProofs` proves, for every width of the sequence number, every capacity
and both kinds of connection:

| Theorem | States |
|---|---|
| `TypeCorrect` | `Spec => []TypeOK`, hence no sequence number is 0 |
| `StreamInSequence` | `Spec => []InSequence` |

The invariant: `LockInv`, that `mu` is held by exactly the writer between its lock
and its last part, except for the acknowledgement, which holds none; and
`StreamInv`, that unless a write has failed, or a STOP_REQUEST has met a pending
HELLO_ACK, what the device has read, what is in flight and what a writer holds
form one chain of parts whose numbers follow each other up to `sequence`.

`RelayFlowProofs` proves, for every set of streams and every size of headers,
buffer and replies (`StreamsAssumption` only types the fields of a stream,
`SizesAssumption` says that headers and buffer are not empty):

| Theorem | States |
|---|---|
| `TypeCorrect` | `Spec => []TypeOK` |
| `LeavesNothing` | `Spec => []NothingLeaks` |
| `ArrivesInOrder` | `Spec => []InOrder` |
| `IsPipe` | `Spec => ImplementsPipe` |
| `SnifferExact` | for every stream and every number of bytes arrived, `sniffHostname` resolves exactly if `NamedAfter` is reached, and gives up only if the stream names no host |
| `ConnectsToNamed` | `Spec => []TargetRight` |
| `HalfClosed` | `Spec => []HalfCloseDelivers` |

`Inv` relates the goroutines: which of them exist at each stage of the handler
(`Stages`), what may be open before the bridge runs (`Early`), that only `Write`
holds a connection that is dialled and not installed (`Establishing`), that once
`closed` is set the socket is closed or somebody is about to close it, which is
why `establish` looks at `closed` again (`Closing`), and what has been closed when
`bridgeTCP` returns (`Returned`). `OrderInv` says that what has reached the host,
what is buffered and what `Write` holds are, in this order, runs of consecutive
positions from 1, up to `taken` as long as nothing was given up. `PipeInv` says
that a peer is chosen before anything is sent, and by whom the socket is touched
before it is installed. `Typed` adds to the types that the engine counts the flow
exactly while its `main` goroutine lives.

`SnifferExact` is about the operators alone: the loop over the records of a
ClientHello stops at the least record that decides (`HelloTurn`), and that record
is where the reference definition finds the name. `DeliverInv` carries it to the
flow: while nothing is dialled, the sniffer has asked for more than is buffered
(`Withheld`), so the write that brings the verdict decides on all that was
`taken`; as long as nothing fails, nobody closes anything before the copy to the
host has ended (`Undisturbed`, with `Unbridged` for the time before the bridge),
so a half-close finds all delivered or no verdict reached (`Kept`).

`SystemDNSProofs` proves, for any flows, names and configurations
(`ReportsAssumption` types the lines of a report, `NamesAssumption` says that a
name is a sequence of labels):

| Theorem | States |
|---|---|
| `TypeCorrect` | `Spec => []TypeOK` |
| `RetriesFresh` | `Spec => []RetryFresh` |
| `ChoiceRight` | for every report and name, `selectResolver` over the list of `ParseScutilDNS` picks a resolver whose nameservers are all in `Responsible`, and none only if `Responsible` is empty |
| `AsksRight` | `Spec => []AsksResponsible` |

`RetryFresh` needs that a flow that loads has the lock (`LockHeld`), that no loaded
list is lying about while the lock is free or `scutil` still runs
(`NothingLoaded`), and that a flow on its way to a retry will find neither a fresh
cached list nor a loaded one that is older than its failure (`RetryPending`).

`ChoiceRight` follows three loops. The parser's: after n lines every resolver in
the list reflects a whole block with a nameserver (`Sound`), every usable block
that has ended is in it (`Full`), and the block being built reflects the lines
since the last `resolver` line (`Current`). The sort's: insertion keeps the
elements. The choice's: after i resolvers the candidate has the longest match
and, of those, the lowest order (`BestOf`); with the strictness of `Better`, and
because a block's longest domain is its `Offer`, that is what `Responsible` asks
for. `AsksRight` carries it to the flows by `ChoiceInv`: the cached and the loaded
list are empty or what the parser made of the report they were read from, and the
nameservers a flow still has to ask are among those it selected.

Loops over data. TLAPS' induction theorems take a predicate as a parameter, which
its provers cannot instantiate, and a recursive function is known to them only
once it is known to exist. `LoopTheorems` states both with sets and functions in
place of predicates and operators: `InductionUpTo` for a set of numbers, and
`LoopStates`, that a loop of n turns over a set of states has its n + 1 states.
The sniffer's sum over records, the parser, the sort and the choice are recursive
functions over `0 .. n`, so these two lemmas suffice; they are derived from the
library's `WFMin`.

Only model-checked: liveness, which is outside the prover's reach, and the
violated properties. Every safety property of a passing run, invariant or
refinement, has its theorem. `RunningIsTrue`, `ErrorIsCause`, `PumpHasBothEnds`
and the type invariants are left to their proofs and are in no run.

## 5. What is not modelled

- gVisor, hdc and mitmweb themselves: third-party code, present as the outcomes
  that the modelled code branches on.
- UDP bridging, `Inject` and the relay's output queue: copies of datagrams that
  may be dropped, with no state but counters.
- The encoding of frames and the device's incremental decoder; `SelectTarget` and
  the parsing of hdc's output; the parsing of names in a ClientHello or an HTTP
  header: text and byte formats, covered by the repository's unit tests.
- The signals and waits inside the proxy session's `Close` (it is one step, which
  may return an error), a mitmweb that survives SIGKILL, a reused PID.
- The composition of the daemon with the extension in one state space. Each is
  the other's environment: `VpnExtension` has the Mac's steps as actions without
  fairness, `DaemonSession` has every order of connections and reports, so what
  either proves does not rest on the other.
- The app's pages, the hello/world session outside VPN mode (`BridgeSession.ets`),
  device HTTP endpoints, diagnostics, logging, argument parsing, build scripts.
  They hold little state of their own or none that the modelled parts read.

## 6. Where the code and its documents disagree

Four statements of the repository are refuted by what the code does; each has a
run whose counterexample TLC prints. The quotations are in `PROJECT.json`.

- `OneDaemon`: the last clean-up of a stopping daemon removes its successor's
  control socket by name, and CLI `stop` returns before that clean-up.
- `Reclaimed`: the state file is overwritten before what it records has been
  reclaimed. Should hdc refuse a second mapping for the device port, the third
  daemon of the counterexample fails to start instead.
- `StopNotMistaken`: the daemon closes as soon as it has STOP_ACK; on the device
  the close event can precede the confirmation of the send, and a normal stop is
  taken for a lost transport, after which the extension reconnects.
- `FailureRefreshes`: after a failed exchange the resolver configuration is read
  again only if the deadline of the query has not passed, and a nameserver that
  does not answer uses up that deadline.

Other behaviours that the models contain and a reader of the properties should
know of, because the properties are stated so as to allow them:

- A loss is published after `mu` was released and `relay.Close` has returned,
  without looking whether it is still news. A data loss can so be shown after the
  later control loss (CONTROL_CONNECTED without a session), and the loss of an old
  session can overwrite the ACTIVE of the next (server.go 1197, 1242). The data
  heartbeat looks at the snapshot at every tick (1024), so it then pauses, and a
  data channel that falls silent goes unnoticed by the Mac, against
  docs/protocol.md:129 and the comment at 952-955. `Deactivate` is that step, and
  `SilenceNoticed` states the exception; the Control heartbeat is not affected.
- The handler clears the deadlines of the connection after HELLO_ACK (871) although
  the session is already registered. A shutdown that is just writing its
  STOP_REQUEST then writes without a deadline; if the connection is full and the
  device does not read, shutdown waits until the device or the link ends the
  connection, since the heartbeat waits behind it for the writer's lock. This needs
  full buffers right after a handshake. `WriterReleased` and `SilenceNoticed` state
  the exception; `DaemonSession`, which has no deadlines, takes a write to end, so
  `ShutdownCompletes` is subject to it.
- The AddReverse of `Run` has no deadline: a hung hdc leaves the daemon STARTING
  until it is signalled. If it fails although the mapping was made, nobody removes
  the mapping: it is neither `mappingAdded` nor on record. `ExitsClean` asks that
  the failure be reported, which it is.
- A state file that cannot be written is only logged, and what the daemon then
  leaves after a kill is on no record (`KilledOnRecord` excludes it).
- A STOP_REQUEST that comes during a set-up which then fails is forgotten: only the
  race at the end of the set-up reads the stop promise, and the loop reconnects,
  although docs/protocol.md:151 calls STOP_REQUEST terminal.
- A loss is classified as expected or not by a snapshot read before `mu` is taken
  (1169); `LossCountedOnce` counts losses as they were classified. DEVICE_OFFLINE
  can be published over a session that has just begun (473-517), and then stands
  until that session publishes something; `OfflineRecovers` allows it.
- A `destroy()` past its deadline is given up, and the next attempt creates another
  VPN beside it (`orphan`); no property asks that there be only one.
- `onDestroy` during the set-up takes the fields before `create()` has returned;
  the VPN created afterwards is in nobody's hands (`TunnelOwned` ends with
  `onDestroy`).
- The pump's reading thread answers PINGs in a send without a deadline. While it
  blocks there on a connection that nobody reads, the device does not notice that
  the connection is dead (`BothEnd` starts from one that is broken or shut).
- A STOP_REQUEST can overtake HELLO_ACK, or fall between its header and its
  payload, because the session is registered before the acknowledgement is
  written and the acknowledgement bypasses the writer (the exception in
  `InSequence`).
- Bytes that the sniffer has buffered without a verdict are dropped when the
  device half-closes (the exception in `HalfCloseDelivers`).
