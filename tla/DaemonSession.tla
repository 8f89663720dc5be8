--------------------------- MODULE DaemonSession ---------------------------
(***************************************************************************)
(* The HNB/1 session handling of the Mac daemon, src/internal/daemon/      *)
(* server.go: one goroutine per device connection, the hdc mapping monitor *)
(* and the goroutine of Run that ends in shutdown.  They share the fields  *)
(* of Server guarded by mu (control, mode, token, data, relay, pending,    *)
(* stopping) and the status snapshot, which has a lock of its own.         *)
(*                                                                         *)
(* A step is what the code does under one lock: a critical section of mu,  *)
(* one read of the snapshot (store.Get) or one publication (update).  What *)
(* a goroutine learned in one step may be stale in its next one; that gap  *)
(* is what the module is about.                                            *)
(*                                                                         *)
(* Data abstraction: a session token is the connection whose HELLO_ACK     *)
(* carried it (NewSessionToken draws 16 random bytes, so tokens never      *)
(* repeat); a relay is the Data connection it was created for; of the      *)
(* snapshot only transport, vpn, reconnects and the two messages by which  *)
(* the monitor recognises its own publications are kept.  PING, PONG and   *)
(* IP_PACKET leave all of this alone and are not steps here; every way a   *)
(* reading loop can end (peer close, bad frame, bad sequence, heartbeat    *)
(* timeout) is ControlEnds or DataEnds.                                    *)
(***************************************************************************)
EXTENDS FiniteSets, Naturals

CONSTANTS
    ControlConns,   \* connections that open with HELLO
    DataConns,      \* connections that open with DATA_HELLO
    Reports,        \* the states a device reports in VPN_STATUS
    Outcomes,       \* what HasReverse finds: "present", "absent" or "error"
    None

VPNStatus == {"AUTH_REQUIRED", "STARTING", "RECONNECTING", "ACTIVE", "STOPPED", "FAILED"}
TransportStatus == {"DEVICE_OFFLINE", "PORT_READY", "CONTROL_CONNECTED", "DATA_CONNECTED"}

Conns == ControlConns \cup DataConns

ASSUME ConnsAssumption ==
    /\ ControlConns \cap DataConns = {}
    /\ None \notin Conns
    /\ IsFiniteSet(ControlConns)
ASSUME ReportsAssumption == Reports \subseteq VPNStatus
ASSUME OutcomesAssumption == Outcomes \subseteq {"present", "absent", "error"}

VARIABLES
    \* Server fields guarded by mu
    control,    \* controlConnection (with its writer and stop-ack channel)
    mode,       \* controlMode
    token,      \* controlToken
    data,       \* dataConnection
    relay,      \* dataRelay
    pending,    \* reconnectPending
    stopping,
    \* the published snapshot
    transport, vpn, reconnects, message,
    \* the handler goroutines and what they hold in local variables
    pc,         \* where each connection's handler is
    hello,      \* hello.Mode of a Control handler
    presented,  \* hello.SessionToken of a Data handler
    report,     \* the VPN_STATUS a Control handler is applying
    previous,   \* the VPN status releaseControl read first
    grabbed,    \* the data connection and relay releaseControl took out
    counting,   \* Control handlers with isReconnect set and not yet published
    \* sockets and relays
    issued,     \* tokens a device has received
    closed,     \* connections the daemon has closed
    open,       \* relays created and not closed
    \* the mapping monitor and the goroutine of Run
    monitor, unavailable, restore, monitorVPN,
    main, mainHolds,
    losses      \* history: sessions whose end was classified as an unexpected loss

serverVars  == <<control, mode, token, data, relay, pending, stopping>>
snapVars    == <<transport, vpn, reconnects, message>>
localVars   == <<report, previous, grabbed, counting>>
handlerVars == <<pc, hello, presented, localVars>>
socketVars  == <<issued, closed, open>>
monitorVars == <<monitor, unavailable, restore, monitorVPN>>
mainVars    == <<main, mainHolds>>
vars == <<serverVars, snapVars, handlerVars, socketVars, monitorVars, mainVars, losses>>

ControlPC == {"idle", "registered", "acking", "reading", "reporting", "leaving",
              "releasing", "closing", "closingQuiet", "publishing", "done"}
DataPC == {"idle", "bound", "created", "reading", "releasing", "discarding",
           "closing", "closingQuiet", "publishing", "done"}
Holding == [conn : DataConns \cup {None}, relay : DataConns \cup {None}]
Nothing == [conn |-> None, relay |-> None]
HoldsNothing == [control |-> None, conn |-> None, relay |-> None]

(***************************************************************************)
(* Run has created the mapping and published RUNNING / PORT_READY.         *)
(***************************************************************************)
Init ==
    /\ control = None /\ mode = "" /\ token = None
    /\ data = None /\ relay = None
    /\ pending = FALSE /\ stopping = FALSE
    /\ transport = "PORT_READY" /\ vpn = "STOPPED"
    /\ reconnects = 0 /\ message = "other"
    /\ pc = [h \in Conns |-> "idle"]
    /\ hello = [c \in ControlConns |-> ""]
    /\ presented = [d \in DataConns |-> None]
    /\ report = [c \in ControlConns |-> "STOPPED"]
    /\ previous = [c \in ControlConns |-> "STOPPED"]
    /\ grabbed = [c \in ControlConns |-> Nothing]
    /\ counting = {}
    /\ issued = {} /\ closed = {} /\ open = {}
    /\ monitor = "waiting" /\ unavailable = FALSE /\ restore = FALSE /\ monitorVPN = "STOPPED"
    /\ main = "serving" /\ mainHolds = HoldsNothing
    /\ losses = {}

\* A handler's step from one point to the next, while the process lives.
Goto(h, from, to) ==
    /\ main # "exited"
    /\ pc[h] = from
    /\ pc' = [pc EXCEPT ![h] = to]

\* s.update by anyone but the monitor: the whole snapshot under its own lock.
Publish(t, v) == transport' = t /\ vpn' = v /\ message' = "other"

-----------------------------------------------------------------------------
(* handleControlConnection *)

\* Mutant of RegisterControl: reconnectPending is not reset.
RegisterControlKeepsPending(c, m) ==
    /\ control = None /\ ~stopping
    /\ Goto(c, "idle", "registered")
    /\ control' = c /\ mode' = m /\ token' = c
    /\ hello' = [hello EXCEPT ![c] = m]
    /\ counting' = IF m = "vpn" /\ pending THEN counting \cup {c} ELSE counting
    /\ UNCHANGED <<pending, data, relay, stopping, snapVars, presented, report, previous, grabbed,
                   socketVars, monitorVars, mainVars, losses>>

\* The critical section that follows HELLO validation: SESSION_BUSY, or the
\* connection becomes the one Control session.
RegisterControl(c, m) ==
    /\ IF control # None \/ stopping
       THEN /\ Goto(c, "idle", "done")
            /\ UNCHANGED <<control, mode, token, pending, hello, counting>>
       ELSE /\ Goto(c, "idle", "registered")
            /\ control' = c
            /\ mode' = m
            /\ token' = c
            /\ hello' = [hello EXCEPT ![c] = m]
            /\ counting' = IF m = "vpn" /\ pending THEN counting \cup {c} ELSE counting
            /\ pending' = IF m = "vpn" THEN FALSE ELSE pending
    /\ UNCHANGED <<data, relay, stopping, snapVars, presented, report, previous, grabbed,
                   socketVars, monitorVars, mainVars, losses>>

\* The accepted session is published before HELLO_ACK is written.
PublishControl(c) ==
    /\ Goto(c, "registered", "acking")
    /\ Publish("CONTROL_CONNECTED", IF hello[c] = "vpn" THEN "STARTING" ELSE "STOPPED")
    /\ reconnects' = IF c \in counting THEN reconnects + 1 ELSE reconnects
    /\ counting' = counting \ {c}
    /\ UNCHANGED <<serverVars, hello, presented, report, previous, grabbed,
                   socketVars, monitorVars, mainVars, losses>>

\* HELLO_ACK is written: the device learns the token.
WriteHelloAck(c) ==
    /\ Goto(c, "acking", "reading")
    /\ issued' = issued \cup {c}
    /\ UNCHANGED <<serverVars, snapVars, hello, presented, localVars,
                   closed, open, monitorVars, mainVars, losses>>

\* The write fails, or the reading loop ends: STOP_ACK (which also lets go of
\* shutdown, see AwaitStopAck), a closed connection or a frame that is refused.
ControlEnds(c) ==
    /\ Goto(c, "acking", "leaving") \/ Goto(c, "reading", "leaving")
    /\ UNCHANGED <<serverVars, snapVars, hello, presented, localVars,
                   socketVars, monitorVars, mainVars, losses>>

\* applyVPNStatus, first half: the report is checked under mu.
CheckStatus(c, s) ==
    /\ LET valid == /\ hello[c] = "vpn" /\ control = c /\ mode = "vpn"
                    /\ s = "ACTIVE" => data # None
       IN  IF valid
           THEN Goto(c, "reading", "reporting") /\ report' = [report EXCEPT ![c] = s]
           ELSE Goto(c, "reading", "leaving") /\ UNCHANGED report
    /\ UNCHANGED <<serverVars, snapVars, hello, presented, previous, grabbed, counting,
                   socketVars, monitorVars, mainVars, losses>>

\* applyVPNStatus, second half: the report is published, mu no longer held.
PublishStatus(c) ==
    /\ Goto(c, "reporting", "reading")
    /\ Publish(transport, report[c])
    /\ report' = [report EXCEPT ![c] = "STOPPED"]
    /\ UNCHANGED <<serverVars, reconnects, hello, presented, previous, grabbed, counting,
                   socketVars, monitorVars, mainVars, losses>>

-----------------------------------------------------------------------------
(* releaseControl, deferred by handleControlConnection *)

\* previous := s.store.Get(), before the lock is taken.
ReadPrevious(c) ==
    /\ Goto(c, "leaving", "releasing")
    /\ previous' = [previous EXCEPT ![c] = vpn]
    /\ UNCHANGED <<serverVars, snapVars, hello, presented, report, grabbed, counting,
                   socketVars, monitorVars, mainVars, losses>>

\* Mutant of UnregisterControl: dataRelay is cleared but not taken out.
UnregisterControlDropsRelay(c) ==
    /\ control = c
    /\ Goto(c, "releasing", "closing")
    /\ control' = None /\ mode' = "" /\ token' = None /\ data' = None /\ relay' = None
    /\ grabbed' = [grabbed EXCEPT ![c] = [conn |-> data, relay |-> None]]
    /\ UNCHANGED <<pending, previous, stopping, snapVars, hello, presented, report, counting,
                   socketVars, monitorVars, mainVars, losses>>

\* The critical section: the session, its data connection and its relay are
\* taken out together.  A session that shutdown already took is left alone.
UnregisterControl(c) ==
    /\ IF control # c
       THEN /\ Goto(c, "releasing", "done")
            /\ UNCHANGED <<control, mode, token, data, relay, pending, grabbed, losses>>
       ELSE /\ Goto(c, "releasing", IF stopping THEN "closingQuiet" ELSE "closing")
            /\ control' = None /\ mode' = "" /\ token' = None
            /\ data' = None /\ relay' = None
            /\ grabbed' = [grabbed EXCEPT ![c] = [conn |-> data, relay |-> relay]]
            /\ IF mode = "vpn" /\ ~stopping /\ previous[c] # "STOPPED"
               THEN pending' = TRUE /\ losses' = losses \cup {c}
               ELSE UNCHANGED <<pending, losses>>
    /\ previous' = [previous EXCEPT ![c] = "STOPPED"]
    /\ UNCHANGED <<stopping, snapVars, hello, presented, report, counting,
                   socketVars, monitorVars, mainVars>>

\* What a releasing handler does next: publish the loss, unless it saw stopping.
AfterClose(h) == IF pc[h] = "closing" THEN "publishing" ELSE "done"

\* Mutant of CloseGrabbed: the connection is not closed.
CloseGrabbedRelayOnly(c) ==
    /\ pc[c] \in {"closing", "closingQuiet"}
    /\ Goto(c, pc[c], AfterClose(c))
    /\ open' = open \ {grabbed[c].relay}
    /\ grabbed' = [grabbed EXCEPT ![c] = Nothing]
    /\ UNCHANGED <<closed, serverVars, snapVars, hello, presented, report, previous, counting,
                   issued, monitorVars, mainVars, losses>>

\* The data connection is closed, then the relay: Close returns only when
\* every flow of the relay has ended, so this may take long.
CloseGrabbed(c) ==
    /\ pc[c] \in {"closing", "closingQuiet"}
    /\ Goto(c, pc[c], AfterClose(c))
    /\ closed' = closed \cup ({grabbed[c].conn} \ {None})
    /\ open' = open \ {grabbed[c].relay}
    /\ grabbed' = [grabbed EXCEPT ![c] = Nothing]
    /\ UNCHANGED <<serverVars, snapVars, hello, presented, report, previous, counting,
                   issued, monitorVars, mainVars, losses>>

PublishControlLoss(c) ==
    /\ Goto(c, "publishing", "done")
    /\ Publish("PORT_READY",
               IF hello[c] = "vpn" /\ vpn # "STOPPED" THEN "RECONNECTING" ELSE "STOPPED")
    /\ UNCHANGED <<serverVars, reconnects, hello, presented, localVars,
                   socketVars, monitorVars, mainVars, losses>>

-----------------------------------------------------------------------------
(* handleDataConnection *)

\* Mutant of BindData: a second Data connection is not rejected.
BindDataReplaces(d, t) ==
    /\ ~stopping /\ control # None /\ mode = "vpn" /\ token = t
    /\ Goto(d, "idle", "bound")
    /\ data' = d
    /\ presented' = [presented EXCEPT ![d] = t]
    /\ UNCHANGED <<control, mode, token, relay, pending, stopping, snapVars, hello,
                   localVars, socketVars, monitorVars, mainVars, losses>>

\* DATA_HELLO with token t: DATA_SESSION_REJECTED, or the connection is bound.
BindData(d, t) ==
    /\ IF stopping \/ control = None \/ mode # "vpn" \/ token # t \/ data # None
       THEN Goto(d, "idle", "done") /\ UNCHANGED <<data, presented>>
       ELSE /\ Goto(d, "idle", "bound")
            /\ data' = d
            /\ presented' = [presented EXCEPT ![d] = t]
    /\ UNCHANGED <<control, mode, token, relay, pending, stopping, snapVars, hello,
                   localVars, socketVars, monitorVars, mainVars, losses>>

\* newRelay runs without the lock, and may fail.
CreateRelay(d) ==
    /\ \/ Goto(d, "bound", "created") /\ open' = open \cup {d}
       \/ Goto(d, "bound", "releasing") /\ UNCHANGED open
    /\ UNCHANGED <<serverVars, snapVars, hello, presented, localVars,
                   issued, closed, monitorVars, mainVars, losses>>

\* Mutant of InstallRelay: only a session, not this one, is checked for again.
InstallRelayUnchecked(d) ==
    /\ control # None /\ ~stopping
    /\ Goto(d, "created", "reading")
    /\ relay' = d
    /\ Publish("DATA_CONNECTED", "STARTING")
    /\ UNCHANGED <<control, mode, token, data, pending, stopping, reconnects, hello, presented,
                   localVars, socketVars, monitorVars, mainVars, losses>>

\* The session is checked again; the relay is installed and DATA_CONNECTED is
\* published without letting go of mu.
InstallRelay(d) ==
    /\ IF data # d \/ control = None \/ stopping
       THEN /\ Goto(d, "created", "discarding")
            /\ UNCHANGED <<relay, transport, vpn, message>>
       ELSE /\ Goto(d, "created", "reading")
            /\ relay' = d
            /\ Publish("DATA_CONNECTED", "STARTING")
    /\ UNCHANGED <<control, mode, token, data, pending, stopping, reconnects, hello, presented,
                   localVars, socketVars, monitorVars, mainVars, losses>>

\* The session went away while the relay was being created.
DiscardRelay(d) ==
    /\ Goto(d, "discarding", "done")
    /\ open' = open \ {d}
    /\ UNCHANGED <<serverVars, snapVars, hello, presented, localVars,
                   issued, closed, monitorVars, mainVars, losses>>

\* DATA_ACK cannot be written, or the packet loop ends for any reason.
DataEnds(d) ==
    /\ Goto(d, "reading", "releasing")
    /\ UNCHANGED <<serverVars, snapVars, hello, presented, localVars,
                   socketVars, monitorVars, mainVars, losses>>

-----------------------------------------------------------------------------
(* releaseData; both callers pass failed = true *)

\* Mutant of UnbindData: the loss of the data channel is not published.
UnbindDataSilently(d) ==
    /\ data = d
    /\ Goto(d, "releasing", "closingQuiet")
    /\ data' = None
    /\ relay' = None
    /\ UNCHANGED <<control, mode, token, pending, stopping, snapVars, hello, presented,
                   localVars, socketVars, monitorVars, mainVars, losses>>

UnbindData(d) ==
    /\ IF data # d
       THEN Goto(d, "releasing", "done") /\ UNCHANGED <<data, relay>>
       ELSE /\ Goto(d, "releasing", IF control # None /\ mode = "vpn" /\ ~stopping
                                    THEN "closing" ELSE "closingQuiet")
            /\ data' = None
            /\ relay' = None
    /\ UNCHANGED <<control, mode, token, pending, stopping, snapVars, hello, presented,
                   localVars, socketVars, monitorVars, mainVars, losses>>

\* Relay counters are published, then relay.Close waits for its flows.
CloseData(d) ==
    /\ pc[d] \in {"closing", "closingQuiet"}
    /\ Goto(d, pc[d], AfterClose(d))
    /\ closed' = closed \cup {d}
    /\ open' = open \ {d}
    /\ UNCHANGED <<serverVars, snapVars, hello, presented, localVars,
                   issued, monitorVars, mainVars, losses>>

PublishDataLoss(d) ==
    /\ Goto(d, "publishing", "done")
    /\ Publish("CONTROL_CONNECTED", "RECONNECTING")
    /\ UNCHANGED <<serverVars, reconnects, hello, presented, localVars,
                   socketVars, monitorVars, mainVars, losses>>

-----------------------------------------------------------------------------
(* monitorMapping, markMappingUnavailable, markMappingAvailable *)

\* Mutant of CheckMapping: the monitor does not look whether it should end.
CheckMappingForever(outcome) ==
    /\ monitor = "waiting"
    /\ monitor' = CASE outcome # "present" -> "markDown"
                    [] outcome = "present" /\ unavailable -> "markUp"
                    [] OTHER -> "waiting"
    /\ unavailable' = (outcome # "present")
    /\ restore' = (outcome = "absent")
    /\ UNCHANGED <<serverVars, snapVars, handlerVars, socketVars, monitorVPN, mainVars, losses>>

\* HasReverse returns an error, "present" or "absent".  The monitor ends when
\* it finds the daemon stopping (or its context cancelled, which shutdown does
\* after it set stopping).
CheckMapping(outcome) ==
    /\ monitor = "waiting"
    /\ IF stopping
       THEN monitor' = "done" /\ UNCHANGED <<unavailable, restore>>
       ELSE /\ monitor' = CASE outcome # "present" -> "markDown"
                            [] outcome = "present" /\ unavailable -> "markUp"
                            [] OTHER -> "waiting"
            /\ unavailable' = (outcome # "present")
            /\ restore' = (outcome = "absent")
    /\ UNCHANGED <<serverVars, snapVars, handlerVars, socketVars, monitorVPN, mainVars, losses>>

\* Where the monitor goes from a mark function: to AddReverse if the mapping
\* was found absent, else back to its ticker.
AfterMark == IF restore THEN "restore" ELSE "waiting"

\* Both mark functions look under mu whether a Control session exists.
MarkChecks ==
    /\ monitor \in {"markDown", "markUp"}
    /\ monitor' = IF stopping \/ control # None THEN AfterMark
                  ELSE IF monitor = "markDown" THEN "readDown" ELSE "readUp"
    /\ UNCHANGED <<serverVars, snapVars, handlerVars, socketVars,
                   unavailable, restore, monitorVPN, mainVars, losses>>

\* The VPN status that an unusable mapping leaves.
Interrupted(v) == IF v \in {"ACTIVE", "STARTING", "AUTH_REQUIRED"} THEN "RECONNECTING" ELSE v

\* They read the snapshot, return if it already says what they would publish...
MarkReads ==
    /\ monitor \in {"readDown", "readUp"}
    /\ LET down == monitor = "readDown"
           told == /\ transport = IF down THEN "DEVICE_OFFLINE" ELSE "PORT_READY"
                   /\ message = IF down THEN "unavailable" ELSE "available"
                   /\ vpn = Interrupted(vpn)
       IN  IF told
           THEN monitor' = AfterMark /\ UNCHANGED monitorVPN
           ELSE /\ monitor' = IF down THEN "publishDown" ELSE "publishUp"
                /\ monitorVPN' = Interrupted(vpn)
    /\ UNCHANGED <<serverVars, snapVars, handlerVars, socketVars, unavailable, restore,
                   mainVars, losses>>

\* ...and publish what they derived from it.
MarkPublishes ==
    /\ \/ /\ monitor = "publishDown"
          /\ transport' = "DEVICE_OFFLINE" /\ message' = "unavailable"
       \/ /\ monitor = "publishUp"
          /\ transport' = "PORT_READY" /\ message' = "available"
    /\ monitor' = AfterMark
    /\ vpn' = monitorVPN
    /\ monitorVPN' = "STOPPED"
    /\ UNCHANGED <<serverVars, reconnects, handlerVars, socketVars,
                   unavailable, restore, mainVars, losses>>

\* Mutant of RestoreMapping: the restored mapping is not announced.
RestoreMappingSilently(ok) ==
    /\ monitor = "restore"
    /\ monitor' = IF stopping THEN "done" ELSE "waiting"
    /\ unavailable' = IF ok /\ ~stopping THEN FALSE ELSE unavailable
    /\ restore' = FALSE
    /\ UNCHANGED <<serverVars, snapVars, handlerVars, socketVars, monitorVPN, mainVars, losses>>

\* AddReverse after the mapping was found absent.
RestoreMapping(ok) ==
    /\ monitor = "restore"
    /\ monitor' = IF stopping THEN "done" ELSE IF ok THEN "markUp" ELSE "waiting"
    /\ unavailable' = IF ok /\ ~stopping THEN FALSE ELSE unavailable
    /\ restore' = FALSE
    /\ UNCHANGED <<serverVars, snapVars, handlerVars, socketVars, monitorVPN, mainVars, losses>>

-----------------------------------------------------------------------------
(* Run's select ends and shutdown runs *)

\* Context cancelled, CLI stop, listener failure or proxy exit: whatever ends
\* the select, shutdown first takes the whole session out under mu.
BeginShutdown ==
    /\ main = "serving"
    /\ main' = "joining"
    /\ stopping' = TRUE
    /\ mainHolds' = [control |-> control, conn |-> data, relay |-> relay]
    /\ control' = None /\ mode' = "" /\ token' = None
    /\ data' = None /\ relay' = None
    /\ UNCHANGED <<pending, snapVars, handlerVars, socketVars, monitorVars, losses>>

\* <-mappingDone, the stopping message is published, then STOP_REQUEST goes to
\* the session that was taken, if any.
JoinMonitor ==
    /\ main = "joining"
    /\ monitor = "done"
    /\ main' = IF mainHolds.control # None THEN "awaitingAck" ELSE "closing"
    /\ Publish(transport, vpn)
    /\ UNCHANGED <<serverVars, reconnects, handlerVars, socketVars, monitorVars, mainHolds, losses>>

\* STOP_ACK arrived, or the 2 s timer fired; the model has no clock, so it may
\* fire before the device has had a chance to answer.
AwaitStopAck ==
    /\ main = "awaitingAck"
    /\ main' = "closing"
    /\ UNCHANGED <<serverVars, snapVars, handlerVars, socketVars, monitorVars, mainHolds, losses>>

\* Data connection, relay, Control connection and listeners are closed; the
\* proxy and the mapping are removed; Run returns and the process ends.
CloseSession ==
    /\ main = "closing"
    /\ main' = "exited"
    /\ closed' = closed \cup ({mainHolds.conn, mainHolds.control} \ {None})
    /\ open' = open \ {mainHolds.relay}
    /\ mainHolds' = HoldsNothing
    /\ UNCHANGED <<serverVars, snapVars, handlerVars, issued, monitorVars, losses>>

-----------------------------------------------------------------------------
ControlStep(c) ==
    \/ \E m \in {"phase1", "vpn"} : RegisterControl(c, m)
    \/ PublishControl(c) \/ WriteHelloAck(c) \/ ControlEnds(c)
    \/ \E s \in Reports : CheckStatus(c, s)
    \/ PublishStatus(c)
    \/ ReadPrevious(c) \/ UnregisterControl(c) \/ CloseGrabbed(c) \/ PublishControlLoss(c)

DataStep(d) ==
    \/ \E t \in issued : BindData(d, t)
    \/ CreateRelay(d) \/ InstallRelay(d) \/ DiscardRelay(d) \/ DataEnds(d)
    \/ UnbindData(d) \/ CloseData(d) \/ PublishDataLoss(d)

MonitorStep ==
    \/ \E outcome \in Outcomes : CheckMapping(outcome)
    \/ MarkChecks \/ MarkReads \/ MarkPublishes
    \/ \E ok \in BOOLEAN : RestoreMapping(ok)

MainStep == BeginShutdown \/ JoinMonitor \/ AwaitStopAck \/ CloseSession


\* The process is gone: no goroutine of it runs any more.
Exited == main = "exited" /\ UNCHANGED vars

Next ==
    \/ \E c \in ControlConns : ControlStep(c)
    \/ \E d \in DataConns : DataStep(d)
    \/ MonitorStep
    \/ MainStep
    \/ Exited

Spec == Init /\ [][Next]_vars

(***************************************************************************)
(* Fairness.  A goroutine that is not waiting for its peer takes its next  *)
(* step: writes have deadlines, relay.Close and hdc calls return.  What a  *)
(* device sends is never promised, except that the reading loop on a       *)
(* connection the daemon itself has closed fails.                          *)
(***************************************************************************)
Busy(h) == pc[h] \notin {"idle", "reading"}

Fairness ==
    /\ \A c \in ControlConns : /\ WF_vars(Busy(c) /\ ControlStep(c))
                               /\ WF_vars(c \in closed /\ ControlEnds(c))
    /\ \A d \in DataConns : /\ WF_vars(Busy(d) /\ DataStep(d))
                            /\ WF_vars(d \in closed /\ DataEnds(d))
    /\ WF_vars(MonitorStep)
    /\ WF_vars(JoinMonitor \/ AwaitStopAck \/ CloseSession)

FairSpec == Spec /\ Fairness
-----------------------------------------------------------------------------
(* Properties *)

ServerTypeOK ==
    /\ control \in ControlConns \cup {None}
    /\ mode \in {"", "phase1", "vpn"}
    /\ token \in ControlConns \cup {None}
    /\ data \in DataConns \cup {None}
    /\ relay \in DataConns \cup {None}
    /\ pending \in BOOLEAN /\ stopping \in BOOLEAN

SnapshotTypeOK ==
    /\ transport \in TransportStatus /\ vpn \in VPNStatus
    /\ reconnects \in Nat /\ message \in {"other", "unavailable", "available"}

HandlerTypeOK ==
    /\ pc \in [Conns -> ControlPC \cup DataPC]
    /\ hello \in [ControlConns -> {"", "phase1", "vpn"}]
    /\ presented \in [DataConns -> ControlConns \cup {None}]
    /\ report \in [ControlConns -> VPNStatus]
    /\ previous \in [ControlConns -> VPNStatus]
    /\ grabbed \in [ControlConns -> Holding]
    /\ counting \subseteq ControlConns

SocketTypeOK ==
    issued \subseteq ControlConns /\ closed \subseteq Conns /\ open \subseteq DataConns

MonitorTypeOK ==
    /\ monitor \in {"waiting", "markDown", "markUp", "readDown", "readUp",
                    "publishDown", "publishUp", "restore", "done"}
    /\ unavailable \in BOOLEAN /\ restore \in BOOLEAN /\ monitorVPN \in VPNStatus

MainTypeOK ==
    /\ main \in {"serving", "joining", "awaitingAck", "closing", "exited"}
    /\ mainHolds \in [control : ControlConns \cup {None}, conn : DataConns \cup {None},
                      relay : DataConns \cup {None}]

HistoryTypeOK == losses \subseteq ControlConns

\* Every variable of the daemon has the type its Go declaration gives it.
TypeOK ==
    /\ ServerTypeOK /\ SnapshotTypeOK /\ HandlerTypeOK /\ SocketTypeOK
    /\ MonitorTypeOK /\ MainTypeOK /\ HistoryTypeOK

\* A Data connection is bound only to the live VPN session whose token it
\* presented, so no packet of an older session reaches a newer one; the relay
\* in use is that connection's own; a stopping daemon has no session at all.
\* (The checks of handleDataConnection are made in two critical sections with
\* newRelay between them, and releaseControl can run in that gap.)
DataOfSession ==
    /\ data # None => control # None /\ mode = "vpn" /\ presented[data] = control
    /\ relay # None => relay = data
    /\ stopping => control = None /\ data = None

\* Who is going to close relay d, if it is not the session that uses it.
ToBeClosed(d) ==
    \/ pc[d] \in {"created", "discarding", "closing", "closingQuiet"}
    \/ \E c \in ControlConns : grabbed[c].relay = d /\ pc[c] \in {"closing", "closingQuiet"}
    \/ mainHolds.relay = d

\* No relay is leaked and none is closed while in use: an open relay is
\* installed, or its own handler will discard or close it, or a releasing
\* Control handler or shutdown has taken it out to close it.
RelayOwned ==
    /\ relay # None => relay \in open
    /\ \A d \in open : relay = d \/ ToBeClosed(d)

\* DATA_CONNECTED is never the last word about a session that is gone: while
\* it is shown the relay is installed, or whoever took the relay out has yet
\* to publish the loss.  (handleDataConnection keeps mu while it publishes.)
HandshakeNotLast ==
    transport = "DATA_CONNECTED" =>
        \/ relay # None
        \/ stopping
        \/ \E h \in Conns : pc[h] \in {"closing", "publishing"}

\* Every unexpected loss of a VPN session is counted as one reconnect by the
\* next VPN session and by no other: it is pending, claimed or counted.
LossCountedOnce ==
    Cardinality(losses) = reconnects + Cardinality(counting) + IF pending THEN 1 ELSE 0

\* DEVICE_OFFLINE is not left standing once the mapping works again: while it
\* is shown the monitor still finds the mapping unusable or is about to publish
\* that it is back, or a Control session is there or about to publish its loss.
\* (markMappingAvailable publishes nothing while a Control session exists.)
OfflineRecovers ==
    transport = "DEVICE_OFFLINE" =>
        \/ unavailable \/ stopping
        \/ monitor \in {"markUp", "readUp", "publishUp"}
        \/ control # None
        \/ \E h \in Conns : pc[h] \in {"closing", "publishing"}

\* The promise of the daemon to its devices, see SessionRegistry: the registry
\* fields change together, and each critical section is one of its steps.
Registry == INSTANCE SessionRegistry WITH
    session <- control, kind <- mode, channel <- data, tunnel <- relay,
    fresh <- {h \in Conns : pc[h] = "idle"}, halted <- stopping

ImplementsRegistry == Registry!Spec

\* Once shutdown has begun it ends, whatever the device does.
ShutdownCompletes == stopping ~> main = "exited"

\* A Data handler whose session was released under it ends, because the
\* release closes its connection.
OrphanEnds ==
    \A d \in DataConns :
        (pc[d] = "reading" /\ data # d) ~> (pc[d] = "done" \/ main = "exited")
=============================================================================
