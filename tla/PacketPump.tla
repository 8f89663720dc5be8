----------------------------- MODULE PacketPump -----------------------------
(***************************************************************************)
(* The native packet pump of the device, packet_pump.cpp: the thread of    *)
(* the extension, which connects, starts and stops it, and the two threads *)
(* that copy packets from the TUN to the data socket and back.             *)
(*                                                                         *)
(* A step is one access to what the threads share: an atomic field, the    *)
(* write lock, the socket.  Only the extension's thread calls the          *)
(* operations, so operationMutex_ is never waited for.                     *)
(*                                                                         *)
(* Abstractions: a packet is that there is one; of an inbound frame there  *)
(* is its kind, "bad" being every one that is refused; of an error there   *)
(* is whether the pump's own shutdown of the socket brought it about.  A   *)
(* blocking send waits as long as the Mac does not read; it fails only on  *)
(* a connection that is broken or shut, and then so does every later one.  *)
(***************************************************************************)
EXTENDS Naturals

CONSTANT
    MaxSeq      \* UINT32_MAX

ASSUME MaxSeqAssumption == MaxSeq \in Nat /\ MaxSeq >= 2

VARIABLES
    caller,             \* where the thread of the extension is
    connecting,         \* it is in Connect, not in Stop
    sock,               \* the socket behind socketFd_; "closed" if that is -1
    connected,          \* connected_
    running,            \* running_
    lastError,          \* lastError_
    outgoingSequence,   \* outgoingSequence_
    writeMutex,         \* the thread that holds writeMutex_
    pc,                 \* where the pump threads are; "ended" until joined
    why,                \* the error with which a thread is about to call Fail
    link,               \* the connection: "silent" is half-open
    mac                 \* the reader of the Mac

callVars   == <<caller, connecting>>
socketVars == <<sock, connected>>
statusVars == <<running, lastError>>
writeVars  == <<outgoingSequence, writeMutex, mac>>
threadVars == <<pc, why>>
vars == <<callVars, socketVars, statusVars, writeVars, threadVars, link>>

Threads == {"tunToSocket", "socketToTun"}
NoThread == "none"

Places == {"none", "loop", "poll", "lock", "header", "payload", "read", "readError",
           "bodyPing", "bodyPacket", "write", "fail", "clear", "shut", "ended"}

FlagsOK == connecting \in BOOLEAN /\ connected \in BOOLEAN /\ running \in BOOLEAN

MacOK == mac \in [next : 1..MaxSeq, after : Threads \cup {NoThread}, ok : BOOLEAN]

PlacesOK ==
    /\ caller \in {"idle", "spawn", "shutdown", "joinTun", "joinSocket", "close", "dial"}
    /\ sock \in {"closed", "open", "shut"}
    /\ lastError \in {"none", "cause", "induced"}
    /\ outgoingSequence \in 1..MaxSeq
    /\ writeMutex \in Threads \cup {NoThread}
    /\ pc \in [Threads -> Places]
    /\ why \in [Threads -> {"none", "cause", "induced"}]
    /\ link \in {"up", "reset", "silent"}

\* Every variable keeps its type; in particular sequence number 0 is never used.
TypeOK == FlagsOK /\ PlacesOK /\ MacOK

Alive(t) == pc[t] \notin {"none", "ended"}

\* Sends fail and reads end with an error.
Broken == sock = "shut" \/ link = "reset"

NextSequence(n) == IF n = MaxSeq THEN 1 ELSE n + 1

\* The decoder of the Mac follows the same rule.
MacNextSequence(n) == IF n = MaxSeq THEN 1 ELSE n + 1

Init ==
    /\ caller = "idle" /\ connecting = FALSE
    /\ sock = "closed" /\ connected = FALSE
    /\ running = FALSE /\ lastError = "none"
    /\ outgoingSequence = 2 /\ writeMutex = NoThread
    /\ pc = [t \in Threads |-> "none"] /\ why = [t \in Threads |-> "none"]
    /\ link = "up" /\ mac = [next |-> 2, after |-> NoThread, ok |-> TRUE]

Goto(t, place) == pc' = [pc EXCEPT ![t] = place]

-----------------------------------------------------------------------------
(* The thread of the extension *)

\* Stop, and Connect, which begins with a stop: StopLocked clears running_.
CallStop(connect) ==
    /\ caller = "idle"
    /\ connecting' = connect
    /\ running' = FALSE
    /\ caller' = "shutdown"
    /\ UNCHANGED <<socketVars, lastError, writeVars, threadVars, link>>

\* Mutant of StopShutdown: leaves the socket as it is.
StopShutdownNot ==
    /\ caller = "shutdown"
    /\ caller' = "joinTun"
    /\ UNCHANGED <<connecting, socketVars, statusVars, writeVars, threadVars, link>>

StopShutdown ==
    /\ caller = "shutdown"
    /\ sock' = IF sock = "open" THEN "shut" ELSE sock
    /\ caller' = "joinTun"
    /\ UNCHANGED <<connecting, connected, statusVars, writeVars, threadVars, link>>

JoinTun ==
    /\ caller = "joinTun" /\ ~Alive("tunToSocket")
    /\ caller' = "joinSocket"
    /\ UNCHANGED <<connecting, socketVars, statusVars, writeVars, threadVars, link>>

\* Mutant of JoinSocket: does not wait for the thread.
JoinSocketNot ==
    /\ caller = "joinSocket"
    /\ caller' = "close"
    /\ UNCHANGED <<connecting, socketVars, statusVars, writeVars, threadVars, link>>

JoinSocket ==
    /\ caller = "joinSocket" /\ ~Alive("socketToTun")
    /\ caller' = "close"
    /\ UNCHANGED <<connecting, socketVars, statusVars, writeVars, threadVars, link>>

\* Mutant of StopClose: forgets connected_.
StopCloseConnected ==
    /\ caller = "close"
    /\ sock' = "closed"
    /\ pc' = [t \in Threads |-> IF Alive(t) THEN pc[t] ELSE "none"]
    /\ caller' = IF connecting THEN "dial" ELSE "idle"
    /\ UNCHANGED <<connecting, connected, statusVars, writeVars, why, link>>

\* The rest of StopLocked; the threads that were joined are gone.
StopClose ==
    /\ caller = "close"
    /\ sock' = "closed" /\ connected' = FALSE
    /\ pc' = [t \in Threads |-> IF Alive(t) THEN pc[t] ELSE "none"]
    /\ caller' = IF connecting THEN "dial" ELSE "idle"
    /\ UNCHANGED <<connecting, statusVars, writeVars, why, link>>

\* The rest of Connect: socket, connect, DATA_HELLO with sequence 1, DATA_ACK.
Dial(ok) ==
    /\ caller = "dial"
    /\ IF ok
       THEN /\ sock' = "open" /\ connected' = TRUE /\ lastError' = "none"
            /\ link' = "up"
            /\ mac' = [next |-> 2, after |-> NoThread, ok |-> TRUE]
       ELSE UNCHANGED <<sock, connected, lastError, link, mac>>
    /\ caller' = "idle"
    /\ UNCHANGED <<connecting, running, outgoingSequence, writeMutex, threadVars>>

\* Start up to the first thread; it is refused without a connected socket or
\* with threads that have not been joined.
Start ==
    /\ caller = "idle" /\ sock # "closed" /\ connected
    /\ \A t \in Threads : pc[t] = "none"
    /\ running' = TRUE /\ lastError' = "none"
    /\ outgoingSequence' = 2
    /\ Goto("tunToSocket", "loop")
    /\ caller' = "spawn"
    /\ UNCHANGED <<connecting, socketVars, writeMutex, mac, why, link>>

\* Mutant of Spawn: lastError_ is reset after the first thread has been started.
SpawnResetsError ==
    /\ caller = "spawn"
    /\ lastError' = "none"
    /\ Goto("socketToTun", "loop")
    /\ caller' = "idle"
    /\ UNCHANGED <<connecting, socketVars, running, writeVars, why, link>>

Spawn ==
    /\ caller = "spawn"
    /\ Goto("socketToTun", "loop")
    /\ caller' = "idle"
    /\ UNCHANGED <<connecting, socketVars, statusVars, writeVars, why, link>>

-----------------------------------------------------------------------------
(* What both pump threads do *)

\* An error of thread t: what it was, and the way to Fail.
Failing(t) ==
    /\ Goto(t, "fail")
    /\ why' = [why EXCEPT ![t] = IF sock = "shut" THEN "induced" ELSE "cause"]

LoopTest(t) ==
    /\ pc[t] = "loop"
    /\ Goto(t, IF ~running THEN "ended" ELSE IF t = "tunToSocket" THEN "poll" ELSE "read")
    /\ UNCHANGED <<callVars, socketVars, statusVars, writeVars, why, link>>

\* Mutant of Lock: every thread has a lock of its own.
LockOwn(t) ==
    /\ pc[t] = "lock"
    /\ writeMutex' = t
    /\ Goto(t, "header")
    /\ UNCHANGED <<callVars, socketVars, statusVars, outgoingSequence, mac, why, link>>

Lock(t) ==
    /\ pc[t] = "lock" /\ writeMutex = NoThread
    /\ writeMutex' = t
    /\ Goto(t, "header")
    /\ UNCHANGED <<callVars, socketVars, statusVars, outgoingSequence, mac, why, link>>

\* SendFrame: the header with the current sequence number.
SendHeader(t) ==
    /\ pc[t] = "header"
    /\ \/ /\ ~Broken
          /\ mac' = [mac EXCEPT !.after = t,
                                !.ok = @ /\ mac.after = NoThread /\ outgoingSequence = mac.next]
          /\ Goto(t, "payload")
          /\ UNCHANGED <<writeMutex, why>>
       \/ /\ Broken
          /\ writeMutex' = NoThread
          /\ Failing(t)
          /\ UNCHANGED mac
    /\ UNCHANGED <<callVars, socketVars, statusVars, outgoingSequence, link>>

\* SendFrame: the payload; the number is used up when both have been sent.
SendPayload(t) ==
    /\ pc[t] = "payload"
    /\ \/ /\ ~Broken
          /\ mac' = [next  |-> MacNextSequence(mac.next),
                     after |-> NoThread,
                     ok    |-> mac.ok /\ mac.after = t]
          /\ outgoingSequence' = NextSequence(outgoingSequence)
          /\ Goto(t, "loop")
          /\ UNCHANGED why
       \/ /\ Broken
          /\ Failing(t)
          /\ UNCHANGED <<mac, outgoingSequence>>
    /\ writeMutex' = NoThread
    /\ UNCHANGED <<callVars, socketVars, statusVars, link>>

\* Fail: the first error is kept.
FailRecords(t) ==
    /\ pc[t] = "fail"
    /\ lastError' = IF lastError = "none" THEN why[t] ELSE lastError
    /\ Goto(t, "clear")
    /\ UNCHANGED <<callVars, socketVars, running, writeVars, why, link>>

\* Mutant of FailClears: the thread ends and the other is left to itself.
FailClearsOnly(t) ==
    /\ pc[t] = "clear"
    /\ running' = FALSE
    /\ Goto(t, "ended")
    /\ UNCHANGED <<callVars, socketVars, lastError, writeVars, why, link>>

FailClears(t) ==
    /\ pc[t] = "clear"
    /\ running' = FALSE
    /\ Goto(t, "shut")
    /\ UNCHANGED <<callVars, socketVars, lastError, writeVars, why, link>>

FailShuts(t) ==
    /\ pc[t] = "shut"
    /\ sock' = IF sock = "open" THEN "shut" ELSE sock
    /\ Goto(t, "ended")
    /\ UNCHANGED <<callVars, connected, statusVars, writeVars, why, link>>

-----------------------------------------------------------------------------
(* PumpTunToSocket and PumpSocketToTun *)

\* poll and read of the TUN: nothing or a packet to drop, a packet, an error.
TunPolled ==
    /\ pc["tunToSocket"] = "poll"
    /\ \/ Goto("tunToSocket", "loop") /\ UNCHANGED why
       \/ Goto("tunToSocket", "lock") /\ UNCHANGED why
       \/ /\ Goto("tunToSocket", "fail")
          /\ why' = [why EXCEPT !["tunToSocket"] = "cause"]
    /\ UNCHANGED <<callVars, socketVars, statusVars, writeVars, link>>

\* The header of a frame, one that is refused, or the error or deadline of the
\* read.  What the Mac has sent before a shutdown can still be read.
ReadHeader ==
    /\ pc["socketToTun"] = "read"
    /\ \/ /\ link = "up"
          /\ Goto("socketToTun", "bodyPing") \/ Goto("socketToTun", "bodyPacket")
          /\ UNCHANGED why
       \/ /\ link = "up"
          /\ Goto("socketToTun", "fail")
          /\ why' = [why EXCEPT !["socketToTun"] = "cause"]
       \/ /\ Goto("socketToTun", "readError")
          /\ why' = [why EXCEPT !["socketToTun"] = IF sock = "shut" THEN "induced" ELSE "cause"]
    /\ UNCHANGED <<callVars, socketVars, statusVars, writeVars, link>>

\* An error while a header is awaited counts only if the pump still runs.
ReadError ==
    /\ pc["socketToTun"] = "readError"
    /\ Goto("socketToTun", IF running THEN "fail" ELSE "ended")
    /\ UNCHANGED <<callVars, socketVars, statusVars, writeVars, why, link>>

ReadBody ==
    /\ pc["socketToTun"] \in {"bodyPing", "bodyPacket"}
    /\ \/ /\ link = "up"
          /\ Goto("socketToTun", IF pc["socketToTun"] = "bodyPing" THEN "lock" ELSE "write")
          /\ UNCHANGED why
       \/ Failing("socketToTun")
    /\ UNCHANGED <<callVars, socketVars, statusVars, writeVars, link>>

\* The packet is written to the TUN, or it is not what its header says, or the
\* write fails.
WriteTun ==
    /\ pc["socketToTun"] = "write"
    /\ \/ Goto("socketToTun", "loop") /\ UNCHANGED why
       \/ /\ Goto("socketToTun", "fail")
          /\ why' = [why EXCEPT !["socketToTun"] = "cause"]
    /\ UNCHANGED <<callVars, socketVars, statusVars, writeVars, link>>

-----------------------------------------------------------------------------
\* The connection breaks, or it stays open and the Mac is not heard any more.
LinkBreaks ==
    /\ link = "up" /\ sock # "closed"
    /\ link' \in {"reset", "silent"}
    /\ UNCHANGED <<callVars, socketVars, statusVars, writeVars, threadVars>>

Calls ==
    \/ \E connect \in BOOLEAN : CallStop(connect)
    \/ Start

Caller ==
    \/ StopShutdown \/ JoinTun \/ JoinSocket \/ StopClose \/ Spawn
    \/ \E ok \in BOOLEAN : Dial(ok)

Thread(t) ==
    \/ LoopTest(t) \/ Lock(t) \/ SendHeader(t) \/ SendPayload(t)
    \/ FailRecords(t) \/ FailClears(t) \/ FailShuts(t)
    \/ t = "tunToSocket" /\ TunPolled
    \/ t = "socketToTun" /\ (ReadHeader \/ ReadError \/ ReadBody \/ WriteTun)

Next == Calls \/ Caller \/ (\E t \in Threads : Thread(t)) \/ LinkBreaks

Spec == Init /\ [][Next]_vars

\* poll and reads have deadlines, so the threads go on, except that a send waits
\* for a Mac that does not read until the connection is broken or shut.
Fairness ==
    /\ WF_vars(Caller)
    /\ \A t \in Threads :
          WF_vars((pc[t] \in {"header", "payload"} => Broken) /\ Thread(t))

FairSpec == Spec /\ Fairness

-----------------------------------------------------------------------------
(* Properties *)

\* What getPacketPumpStatus tells the extension: while running is true, both
\* threads copy; a thread that ends has cleared it before.
RunningIsTrue == caller = "idle" /\ running => \A t \in Threads : Alive(t)

\* A pump that stopped without being told to has left an error, whichever of the
\* two threads met it (waitForPumpStop puts it into its pump_error reason).
FailureExplained ==
    caller = "idle" /\ ~running /\ (\E t \in Threads : pc[t] # "none") => lastError # "none"

\* The error of a pump that failed is the one that made it fail, never one that
\* the other thread met because Fail had shut the socket.
ErrorIsCause ==
    caller = "idle" /\ (\E t \in Threads : pc[t] # "none") => lastError # "induced"

\* A descriptor is closed, and its number free for others, only when no thread
\* is left that would read, write or shut it.
DescriptorHeld == \A t \in Threads : Alive(t) => sock # "closed"

\* docs/protocol.md: packets and PONGs share one sequence and never break into
\* each other's frames; the Mac can follow the stream to its end.
FramesWhole == mac.ok

\* The pump is what the extension takes it for.
Facade == INSTANCE PumpFacade WITH
    data <- connected,
    pump <- IF \A t \in Threads : pc[t] = "none" THEN "off"
            ELSE IF running THEN "running" ELSE "failed"

\* Every step of the pump is a step the facade allows, or none.
ImplementsFacade == Facade!Spec

\* Stop returns, also when both threads are waiting for the Mac or for each
\* other: nothing but the shutdown of the socket has to wake them.
StopReturns == caller # "idle" ~> caller = "idle"

\* When one thread has ended, so does the other.
BothEnd ==
    (\E t \in Threads : pc[t] = "ended") ~> (\A t \in Threads : ~Alive(t))
=============================================================================
