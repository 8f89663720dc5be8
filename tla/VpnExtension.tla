---------------------------- MODULE VpnExtension ----------------------------
(***************************************************************************)
(* The VPN extension of the device, HarmonyNetBridgeVpnExtensionAbility    *)
(* .ets, with the Control session it owns, VpnControlSession.ets.          *)
(*                                                                         *)
(* ArkTS runs one thread: a step is what it does between two awaits.  The  *)
(* session loop runPhase3 (run), a clean-up (cleanup) and the handler of a *)
(* STOP_REQUEST (ack) are the coroutines that may wait at the same time;   *)
(* socket callbacks, timers, the stop event of the app and onDestroy come  *)
(* in between.  A continuation whose promise is settled runs before any    *)
(* other event: Ready says that there is one, and an event waits for it.   *)
(*                                                                         *)
(* Abstractions: awaits with nothing between them are one (connect, set    *)
(* options and send HELLO; the two protects and generateVpnId); of the     *)
(* frames received only HELLO_ACK and STOP_REQUEST matter, and every       *)
(* reason to give up the connection is ControlFails; of the sendQueue,     *)
(* whether STOP_ACK comes before or after the one other frame that may be  *)
(* unconfirmed (PONGs are left out); the native pump is its data socket    *)
(* and whether it runs; the back-off is a delay that ends some time.  Only *)
(* the latest attempt's Control session is kept, for the one before it has *)
(* been closed and nothing waits for it any more.                          *)
(***************************************************************************)
EXTENDS Naturals

CONSTANT
    Faults      \* what may go wrong; Faults \subseteq FaultKinds

\* "transport": a connection breaks, a send or a data handshake fails;
\* "setup": protect, generateVpnId, create or the pump's start fail; "fd": getSocketFd fails;
\* "destroy": destroying the VPN outlasts its deadline; "ackTimeout": the Mac
\* gives up waiting for STOP_ACK; "system": the system destroys the extension
\* unasked.
FaultKinds == {"transport", "setup", "fd", "destroy", "ackTimeout", "system"}

ASSUME FaultsAssumption == Faults \subseteq FaultKinds

VARIABLES
    \* runPhase3 and its locals
    run,        \* where the session loop is
    outcome,    \* what the race at the end of runVpnSession gave
    terminal,   \* terminalReason
    \* fields of the ability
    conn,       \* vpnConnection is set
    created,    \* vpnCreated
    held,       \* controlSession is set
    cleanup,    \* the clean-up behind cleanupPromise
    uiStop,     \* the value of uiStopPromise
    uiResolve,  \* uiStopResolve is set
    destroyRequested,
    status,     \* what VpnRuntimeState published last
    \* the Control session of the latest attempt
    ctl,        \* whether its client is set ("open") or close() was called
    handshake,  \* its handshakePromise, "fd" and "stuck" while handshakeComplete
    stop,       \* the value of its stopPromise
    ack,        \* the handler of STOP_REQUEST and its STOP_ACK in the sendQueue
    \* native code, system and Mac
    data,       \* the native data socket is connected
    pump,
    tunnel,     \* the VPN of the latest attempt exists
    orphan,     \* a VPN whose destruction outlasted its deadline exists
    link,       \* whether the Mac still serves the connections of the attempt
    mac,        \* the daemon
    stopAsked   \* stopVpnExtensionAbility was called

loopVars    == <<run, outcome, terminal>>
fieldVars   == <<conn, created, held>>
uiVars      == <<uiStop, uiResolve>>
sessionVars == <<ctl, handshake, stop, ack>>
nativeVars  == <<data, pump>>
vpnVars     == <<tunnel, orphan>>
macVars     == <<link, mac>>
vars == <<loopVars, fieldVars, cleanup, uiVars, destroyRequested, status,
          sessionVars, nativeVars, vpnVars, macVars, stopAsked>>

\* The places where runPhase3 runs on at once and those where it waits.
Running == {"connectData", "enterRace", "raced", "caught", "teardown", "finally"}
Waiting == {"new", "dial", "hello", "undial", "starting", "protect", "create",
            "active", "race", "report", "cleanup", "retry", "final", "publish",
            "stopOwn", "done"}
Losses  == {"transport_lost", "pump_error"}
Reasons == {"ui_requested", "user_requested", "system_stop", "local_stop"} \cup Losses
NoCleanup == [at |-> "none", stopped |-> FALSE, session |-> FALSE]

FlagsOK ==
    /\ conn \in BOOLEAN /\ created \in BOOLEAN /\ held \in BOOLEAN
    /\ uiResolve \in BOOLEAN /\ destroyRequested \in BOOLEAN /\ stopAsked \in BOOLEAN
    /\ data \in BOOLEAN /\ tunnel \in BOOLEAN /\ orphan \in BOOLEAN

CleanupRecord ==
    [at : {"none", "destroy", "control", "report", "closing"},
     stopped : BOOLEAN, session : BOOLEAN]

PlacesOK ==
    /\ run \in Running \cup Waiting
    /\ outcome \in Reasons \cup {"none"}
    /\ terminal \in Reasons \ Losses
    /\ cleanup \in CleanupRecord
    /\ uiStop \in {"none", "ui_requested", "system_stop"}
    /\ status \in {"STARTING", "RECONNECTING", "ACTIVE", "STOPPED", "FAILED"}
    /\ ctl \in {"open", "closed"}
    /\ handshake \in {"pending", "fd", "resolved", "rejected", "stuck"}
    /\ stop \in {"none", "user_requested", "transport_lost", "local_stop"}
    /\ ack \in {"no", "queued", "sending", "sent", "done", "failed"}
    /\ pump \in {"off", "running", "failed"}
    /\ link \in {"up", "down"}
    /\ mac \in {"up", "stopping", "acked", "closed"}

\* Every variable keeps its type; in particular a lost connection never becomes
\* the reason for which the loop of runPhase3 ends.
TypeOK == FlagsOK /\ PlacesOK

Complete == handshake \notin {"pending", "rejected"}     \* handshakeComplete
CanReport == ctl = "open" /\ Complete

\* A continuation is due.
Ready ==
    \/ run \in Running
    \/ run = "hello" /\ handshake \in {"resolved", "rejected"}
    \/ run \in {"cleanup", "final"} /\ cleanup.at = "none"
    \/ run = "retry" /\ uiStop # "none"
    \/ cleanup.at = "control"

Init ==
    /\ run = "new" /\ outcome = "none" /\ terminal = "system_stop"
    /\ conn = FALSE /\ created = FALSE /\ held = FALSE /\ cleanup = NoCleanup
    /\ uiStop = "none" /\ uiResolve = FALSE /\ destroyRequested = FALSE
    /\ status = "STARTING"
    /\ ctl = "closed" /\ handshake = "pending" /\ stop = "none" /\ ack = "no"
    /\ data = FALSE /\ pump = "off" /\ tunnel = FALSE /\ orphan = FALSE
    /\ link = "up" /\ mac = "up" /\ stopAsked = FALSE

-----------------------------------------------------------------------------
(* What several steps have in common *)

\* A promise of the race at the end of runVpnSession is settled: the first
\* one decides.
Wake(reason) ==
    /\ run'     = IF run = "race" THEN "raced" ELSE run
    /\ outcome' = IF run = "race" THEN reason ELSE outcome
    /\ UNCHANGED terminal

Resolved(reason) == IF stop = "none" THEN reason ELSE stop

ResolveStop(reason) == stop' = Resolved(reason) /\ Wake(reason)

\* A send whose confirmation the session waits for: HELLO or a status.
Sending == run \in {"dial", "starting", "active", "report"} \/ cleanup.at = "report"

\* The sendQueue: a send is begun, and so confirmed, only after those before it.
NextSend == ack' = IF ack = "queued" THEN "sending" ELSE ack
SendEnds == ack \notin {"sending", "sent"} /\ NextSend

\* VpnControlSession.fail: nobody is told twice and nothing is closed.
Fail ==
    /\ ctl = "open"
    /\ handshake' = IF Complete THEN handshake ELSE "rejected"
    /\ ResolveStop("transport_lost")

\* The part of runVpnSession before its first await.
NewAttempt ==
    /\ conn' = TRUE /\ held' = TRUE /\ UNCHANGED created
    /\ ctl' = "open" /\ handshake' = "pending" /\ stop' = "none" /\ ack' = "no"
    /\ link' = "up"
    /\ run' = "dial"

\* Mutant of BeginCleanup: destroys the VPN only if the pump still runs.
BeginCleanupWhilePumping(stopped) ==
    IF cleanup.at # "none"
    THEN UNCHANGED <<cleanup, fieldVars>>
    ELSE /\ cleanup' = [at      |-> IF conn /\ pump = "running" THEN "destroy" ELSE "control",
                        stopped |-> stopped,
                        session |-> held]
         /\ conn' = FALSE /\ created' = FALSE /\ held' = FALSE

\* cleanupPhase3 up to its first await.  A clean-up that is under way is
\* shared, whatever its caller asked for.
BeginCleanup(stopped) ==
    IF cleanup.at # "none"
    THEN UNCHANGED <<cleanup, fieldVars>>
    ELSE /\ cleanup' = [at      |-> IF created /\ conn THEN "destroy" ELSE "control",
                        stopped |-> stopped,
                        session |-> held]
         /\ conn' = FALSE /\ created' = FALSE /\ held' = FALSE

StopPacketPump == data' = FALSE /\ pump' = "off"

CleanupPhase3(stopped) ==
    /\ BeginCleanup(stopped)
    /\ IF cleanup.at = "none" THEN StopPacketPump ELSE UNCHANGED nativeVars

-----------------------------------------------------------------------------
(* runPhase3 and runVpnSession *)

OnCreate(valid) ==
    /\ run = "new"
    /\ IF valid
       THEN /\ NewAttempt
            /\ uiResolve' = TRUE
            /\ UNCHANGED status
       ELSE /\ run' = "stopOwn"
            /\ status' = "FAILED"
            /\ UNCHANGED <<fieldVars, sessionVars, link, uiResolve>>
    /\ UNCHANGED <<outcome, terminal, cleanup, uiStop, destroyRequested, nativeVars,
                   vpnVars, mac, stopAsked>>

\* connect() has failed: it closes the session and throws.
GiveUpConnect ==
    /\ run' = IF ctl = "open" THEN "undial" ELSE "caught"
    /\ ctl' = "closed"
    /\ stop' = Resolved("local_stop")

Dialled(ok) ==
    /\ run = "dial" /\ ~Ready
    /\ ok \/ "transport" \in Faults \/ mac = "closed"
    /\ SendEnds
    /\ IF ok
       THEN run' = "hello" /\ UNCHANGED <<ctl, stop>>
       ELSE GiveUpConnect
    /\ UNCHANGED <<outcome, terminal, fieldVars, cleanup, uiVars, destroyRequested, status,
                   handshake, nativeVars, vpnVars, macVars, stopAsked>>

HandshakeSettled ==
    /\ run = "hello"
    /\ \/ /\ handshake = "resolved"
          /\ status' = "STARTING"
          /\ run' = IF CanReport THEN "starting" ELSE "connectData"
          /\ UNCHANGED <<ctl, stop>>
       \/ /\ handshake = "rejected"
          /\ GiveUpConnect
          /\ UNCHANGED status
    /\ UNCHANGED <<outcome, terminal, fieldVars, cleanup, uiVars, destroyRequested,
                   handshake, ack, nativeVars, vpnVars, macVars, stopAsked>>

\* An await of the loop ends and nothing else happens: it goes on or throws.
Proceed(from, fault, to) ==
    /\ run = from /\ ~Ready
    /\ run' = to \/ (fault /\ run' = "caught")
    /\ UNCHANGED <<outcome, terminal, fieldVars, cleanup, uiVars, destroyRequested, status,
                   ctl, handshake, stop, nativeVars, vpnVars, macVars, stopAsked>>

SendFails == "transport" \in Faults \/ link = "down" \/ ctl = "closed"

Undialled        == Proceed("undial", FALSE, "caught") /\ UNCHANGED ack
StartingReported == Proceed("starting", SendFails, "connectData") /\ SendEnds
Protected        == Proceed("protect", "setup" \in Faults, "create") /\ UNCHANGED ack
ActiveReported   == Proceed("active", SendFails, "enterRace") /\ SendEnds
LossReported     == Proceed("report", FALSE, "teardown") /\ SendEnds
StoppedPublished == Proceed("publish", FALSE, "stopOwn") /\ UNCHANGED ack

ConnectData(ok) ==
    /\ run = "connectData"
    /\ IF ok THEN link = "up" /\ mac = "up"
             ELSE "transport" \in Faults \/ link = "down" \/ mac # "up" \/ ctl = "closed"
    /\ data' = ok /\ pump' = "off"
    /\ run' = IF ok THEN "protect" ELSE "caught"
    /\ UNCHANGED <<outcome, terminal, fieldVars, cleanup, uiVars, destroyRequested, status,
                   sessionVars, vpnVars, macVars, stopAsked>>

\* Mutant of Created: startPacketPump takes any data socket.
CreatedUnconnected(ok) ==
    /\ run = "create" /\ ~Ready
    /\ ok \/ "setup" \in Faults
    /\ IF ok
       THEN /\ tunnel' = TRUE /\ created' = TRUE
            /\ pump' = "running" /\ status' = "ACTIVE"
            /\ run' = IF CanReport THEN "active" ELSE "enterRace"
       ELSE run' = "caught" /\ UNCHANGED <<tunnel, created, pump, status>>
    /\ UNCHANGED <<outcome, terminal, conn, held, cleanup, uiVars, destroyRequested,
                   sessionVars, data, orphan, macVars, stopAsked>>

\* create() returns; startPacketPump fails without a connected data socket, or for
\* the descriptor that it was given.
Created(ok) ==
    /\ run = "create" /\ ~Ready
    /\ ok \/ "setup" \in Faults
    /\ IF ok
       THEN /\ tunnel' = TRUE /\ created' = TRUE
            /\ \/ /\ data
                  /\ pump' = "running"
                  /\ status' = "ACTIVE"
                  /\ run' = IF CanReport THEN "active" ELSE "enterRace"
               \/ /\ ~data \/ "setup" \in Faults
                  /\ run' = "caught"
                  /\ UNCHANGED <<pump, status>>
       ELSE run' = "caught" /\ UNCHANGED <<tunnel, created, pump, status>>
    /\ UNCHANGED <<outcome, terminal, conn, held, cleanup, uiVars, destroyRequested,
                   sessionVars, data, orphan, macVars, stopAsked>>

\* Mutants of EnterRace: a stop of the app, or the end of the Control session,
\* that came during the set-up is not looked at.
EnterRaceMissesUI ==
    /\ run = "enterRace"
    /\ outcome' = stop
    /\ run' = IF outcome' # "none" THEN "raced" ELSE "race"
    /\ UNCHANGED <<terminal, fieldVars, cleanup, uiVars, destroyRequested, status,
                   sessionVars, nativeVars, vpnVars, macVars, stopAsked>>

EnterRaceMissesControl ==
    /\ run = "enterRace"
    /\ outcome' = uiStop
    /\ run' = IF outcome' # "none" THEN "raced" ELSE "race"
    /\ UNCHANGED <<terminal, fieldVars, cleanup, uiVars, destroyRequested, status,
                   sessionVars, nativeVars, vpnVars, macVars, stopAsked>>

\* The race: a promise that is settled already wins in the order of the array.
EnterRace ==
    /\ run = "enterRace"
    /\ outcome' = IF stop # "none" THEN stop ELSE uiStop
    /\ run' = IF outcome' # "none" THEN "raced" ELSE "race"
    /\ UNCHANGED <<terminal, fieldVars, cleanup, uiVars, destroyRequested, status,
                   sessionVars, nativeVars, vpnVars, macVars, stopAsked>>

Raced ==
    /\ run = "raced"
    /\ IF outcome \in Losses
       THEN run' = "caught" /\ UNCHANGED terminal
       ELSE run' = "finally" /\ terminal' = outcome
    /\ UNCHANGED <<outcome, fieldVars, cleanup, uiVars, destroyRequested, status,
                   sessionVars, nativeVars, vpnVars, macVars, stopAsked>>

Caught ==
    /\ run = "caught"
    /\ run' = IF destroyRequested THEN "finally"
              ELSE IF held /\ CanReport THEN "report" ELSE "teardown"
    /\ UNCHANGED <<outcome, terminal, fieldVars, cleanup, uiVars, destroyRequested, status,
                   sessionVars, nativeVars, vpnVars, macVars, stopAsked>>

\* Mutant of Teardown: the pump is left to end by itself.
TeardownKeepsPump ==
    /\ run = "teardown"
    /\ BeginCleanup(FALSE)
    /\ run' = "cleanup"
    /\ UNCHANGED <<outcome, terminal, uiVars, destroyRequested, status, sessionVars,
                   nativeVars, vpnVars, macVars, stopAsked>>

Teardown ==
    /\ run = "teardown"
    /\ CleanupPhase3(FALSE)
    /\ run' = "cleanup"
    /\ UNCHANGED <<outcome, terminal, uiVars, destroyRequested, status, sessionVars,
                   vpnVars, macVars, stopAsked>>

TornDown ==
    /\ run = "cleanup" /\ cleanup.at = "none"
    /\ status' = "RECONNECTING"
    /\ run' = "retry"
    /\ UNCHANGED <<outcome, terminal, fieldVars, cleanup, uiVars, destroyRequested,
                   sessionVars, nativeVars, vpnVars, macVars, stopAsked>>

RetryElapsed ==
    /\ run = "retry" /\ ~Ready
    /\ NewAttempt
    /\ status' = "STARTING"
    /\ UNCHANGED <<outcome, terminal, cleanup, uiVars, destroyRequested, nativeVars,
                   vpnVars, mac, stopAsked>>

RetryStopped ==
    /\ run = "retry" /\ uiStop # "none"
    /\ terminal' = uiStop
    /\ run' = "finally"
    /\ UNCHANGED <<outcome, fieldVars, cleanup, uiVars, destroyRequested, status,
                   sessionVars, nativeVars, vpnVars, macVars, stopAsked>>

\* Mutant of ReportStopped: only a stop of the Mac or of the system is published.
ReportStoppedByOthers == terminal \in {"user_requested", "system_stop"}

ReportStopped == terminal \in {"ui_requested", "user_requested", "system_stop"}

Finally ==
    /\ run = "finally"
    /\ CleanupPhase3(ReportStopped)
    /\ run' = "final"
    /\ UNCHANGED <<outcome, terminal, uiVars, destroyRequested, status, sessionVars,
                   vpnVars, macVars, stopAsked>>

CleanedUp ==
    /\ run = "final" /\ cleanup.at = "none"
    /\ uiResolve' = FALSE
    /\ IF ReportStopped
       THEN status' = "STOPPED" /\ run' = "publish"
       ELSE run' = "stopOwn" /\ UNCHANGED status
    /\ UNCHANGED <<outcome, terminal, fieldVars, cleanup, uiStop, destroyRequested,
                   sessionVars, nativeVars, vpnVars, macVars, stopAsked>>

StopOwnExtension ==
    /\ run = "stopOwn" /\ ~Ready
    /\ stopAsked' = TRUE
    /\ run' = "done"
    /\ UNCHANGED <<outcome, terminal, fieldVars, cleanup, uiVars, destroyRequested, status,
                   sessionVars, nativeVars, vpnVars, macVars>>

-----------------------------------------------------------------------------
(* performPhase3Cleanup after the fields have been taken *)

\* The VPN is destroyed, or its deadline passes first.
Destroyed(inTime) ==
    /\ cleanup.at = "destroy" /\ ~Ready
    /\ inTime \/ "destroy" \in Faults
    /\ tunnel' = FALSE
    /\ orphan' = (orphan \/ ~inTime)
    /\ cleanup' = [cleanup EXCEPT !.at = "control"]
    /\ UNCHANGED <<loopVars, fieldVars, uiVars, destroyRequested, status, sessionVars,
                   nativeVars, macVars, stopAsked>>

DestroyedLate ==
    /\ orphan
    /\ orphan' = FALSE
    /\ UNCHANGED <<loopVars, fieldVars, cleanup, uiVars, destroyRequested, status, sessionVars,
                   nativeVars, tunnel, macVars, stopAsked>>

\* close() of the Control session, which ends waitForStop as well.
CloseSession ==
    /\ cleanup' = [cleanup EXCEPT !.at = IF ctl = "open" THEN "closing" ELSE "none"]
    /\ ctl' = "closed"
    /\ ResolveStop("local_stop")

CleanupControl ==
    /\ cleanup.at = "control"
    /\ \/ /\ ~cleanup.session
          /\ cleanup' = [cleanup EXCEPT !.at = "none"]
          /\ UNCHANGED <<loopVars, ctl, stop>>
       \/ /\ cleanup.session /\ cleanup.stopped /\ CanReport
          /\ cleanup' = [cleanup EXCEPT !.at = "report"]
          /\ UNCHANGED <<loopVars, ctl, stop>>
       \/ /\ cleanup.session /\ ~(cleanup.stopped /\ CanReport)
          /\ CloseSession
    /\ UNCHANGED <<fieldVars, uiVars, destroyRequested, status, handshake, ack, nativeVars,
                   vpnVars, macVars, stopAsked>>

\* STOPPED has been sent, or its deadline has passed, whatever is before it.
StoppedReported ==
    /\ cleanup.at = "report" /\ ~Ready
    /\ CloseSession
    /\ NextSend
    /\ UNCHANGED <<fieldVars, uiVars, destroyRequested, status, handshake, nativeVars,
                   vpnVars, macVars, stopAsked>>

ControlClosed ==
    /\ cleanup.at = "closing" /\ ~Ready
    /\ cleanup' = [cleanup EXCEPT !.at = "none"]
    /\ UNCHANGED <<loopVars, fieldVars, uiVars, destroyRequested, status, sessionVars,
                   nativeVars, vpnVars, macVars, stopAsked>>

-----------------------------------------------------------------------------
(* Callbacks of the Control session *)

\* A valid HELLO_ACK: the handshake timer is cleared, the descriptor asked for.
HelloAck ==
    /\ ~Ready /\ run \in {"dial", "hello"} /\ ctl = "open" /\ handshake = "pending"
    /\ link = "up" /\ mac = "up"
    /\ handshake' = "fd"
    /\ UNCHANGED <<loopVars, fieldVars, cleanup, uiVars, destroyRequested, status, ctl, stop, ack,
                   nativeVars, vpnVars, macVars, stopAsked>>

\* A getSocketFd that fails leaves the handshake promise unsettled for good.
SocketFd(ok) ==
    /\ ~Ready /\ handshake = "fd"
    /\ ok \/ "fd" \in Faults
    /\ handshake' = IF ok THEN "resolved" ELSE "stuck"
    /\ IF ~ok /\ ctl = "open"
       THEN ResolveStop("transport_lost")
       ELSE UNCHANGED <<loopVars, stop>>
    /\ UNCHANGED <<fieldVars, cleanup, uiVars, destroyRequested, status, ctl, ack,
                   nativeVars, vpnVars, macVars, stopAsked>>

\* Socket error or close, invalid frame, ERROR frame, inbound watchdog.
ControlFails ==
    /\ ~Ready
    /\ link = "down" \/ "transport" \in Faults
    /\ stop = "none"
    /\ Fail
    /\ UNCHANGED <<fieldVars, cleanup, uiVars, destroyRequested, status, ctl, ack,
                   nativeVars, vpnVars, macVars, stopAsked>>

HandshakeTimesOut ==
    /\ ~Ready /\ run = "hello" /\ handshake = "pending"
    /\ Fail
    /\ UNCHANGED <<fieldVars, cleanup, uiVars, destroyRequested, status, ctl, ack,
                   nativeVars, vpnVars, macVars, stopAsked>>

\* handleFrame answers a STOP_REQUEST and waits for the answer to be sent, after
\* the frame that is not confirmed yet.
StopRequest ==
    /\ ~Ready /\ ctl = "open" /\ handshake \in {"resolved", "stuck"} /\ ack = "no"
    /\ link = "up" /\ mac = "stopping"
    /\ ack' = IF Sending THEN "queued" ELSE "sending"
    /\ UNCHANGED <<loopVars, fieldVars, cleanup, uiVars, destroyRequested, status, ctl, handshake,
                   stop, nativeVars, vpnVars, macVars, stopAsked>>

\* STOP_ACK reaches the daemon, before its send is confirmed or after.
StopAckArrives ==
    /\ ack \in {"sending", "done"} /\ link = "up" /\ mac = "stopping"
    /\ ack' = IF ack = "sending" THEN "sent" ELSE ack
    /\ mac' = "acked"
    /\ UNCHANGED <<loopVars, fieldVars, cleanup, uiVars, destroyRequested, status, ctl, handshake,
                   stop, nativeVars, vpnVars, link, stopAsked>>

\* Only when the send has been confirmed is the request itself acted upon.
StopAckSent(ok) ==
    /\ ~Ready /\ ack \in {"sending", "sent"}
    /\ ok \/ SendFails
    /\ ack' = IF ok THEN "done" ELSE "failed"
    /\ IF ok THEN ResolveStop("user_requested")
       ELSE IF ctl = "open" THEN ResolveStop("transport_lost")
       ELSE UNCHANGED <<loopVars, stop>>
    /\ UNCHANGED <<fieldVars, cleanup, uiVars, destroyRequested, status, ctl, handshake,
                   nativeVars, vpnVars, macVars, stopAsked>>

-----------------------------------------------------------------------------
(* Pump, app, system and Mac *)

PumpFails ==
    /\ pump = "running"
    /\ link = "down" \/ "transport" \in Faults
    /\ pump' = "failed"
    /\ UNCHANGED <<loopVars, fieldVars, cleanup, uiVars, destroyRequested, status, sessionVars,
                   data, vpnVars, macVars, stopAsked>>

\* Mutant of PumpPolled: polls whether the data socket is connected.
PumpPolledConnected ==
    /\ ~Ready /\ run = "race" /\ ~data
    /\ Wake(IF destroyRequested THEN "system_stop" ELSE "pump_error")
    /\ UNCHANGED <<fieldVars, cleanup, uiVars, destroyRequested, status, sessionVars,
                   nativeVars, vpnVars, macVars, stopAsked>>

\* The poll of waitForPumpStop.
PumpPolled ==
    /\ ~Ready /\ run = "race" /\ pump # "running"
    /\ Wake(IF destroyRequested THEN "system_stop" ELSE "pump_error")
    /\ UNCHANGED <<fieldVars, cleanup, uiVars, destroyRequested, status, sessionVars,
                   nativeVars, vpnVars, macVars, stopAsked>>

UIStop ==
    /\ ~Ready /\ uiResolve
    /\ uiStop' = "ui_requested" /\ uiResolve' = FALSE
    /\ Wake("ui_requested")
    /\ UNCHANGED <<fieldVars, cleanup, destroyRequested, status, sessionVars,
                   nativeVars, vpnVars, macVars, stopAsked>>

OnDestroy ==
    /\ ~Ready /\ run # "new" /\ ~destroyRequested
    /\ stopAsked \/ "system" \in Faults
    /\ destroyRequested' = TRUE
    /\ uiResolve' = FALSE
    /\ IF uiResolve
       THEN uiStop' = "system_stop" /\ Wake("system_stop")
       ELSE UNCHANGED <<loopVars, uiStop>>
    /\ BeginCleanup(FALSE)
    /\ StopPacketPump
    /\ UNCHANGED <<status, sessionVars, vpnVars, macVars, stopAsked>>

\* The daemon's shutdown sends STOP_REQUEST, waits for STOP_ACK and closes.
MacStops ==
    /\ mac = "up" /\ link = "up" /\ CanReport
    /\ mac' = "stopping"
    /\ UNCHANGED <<loopVars, fieldVars, cleanup, uiVars, destroyRequested, status, sessionVars,
                   nativeVars, vpnVars, link, stopAsked>>

MacCloses ==
    /\ mac = "acked" \/ (mac = "stopping" /\ (ctl = "closed" \/ "ackTimeout" \in Faults))
    /\ mac' = "closed" /\ link' = "down"
    /\ UNCHANGED <<loopVars, fieldVars, cleanup, uiVars, destroyRequested, status, sessionVars,
                   nativeVars, vpnVars, stopAsked>>

MacRestarts ==
    /\ mac = "closed"
    /\ mac' = "up"
    /\ UNCHANGED <<loopVars, fieldVars, cleanup, uiVars, destroyRequested, status, sessionVars,
                   nativeVars, vpnVars, link, stopAsked>>

\* After onDestroy the process may end; without it, when the loop has ended.
Finished == (run = "done" \/ destroyRequested) /\ UNCHANGED vars

-----------------------------------------------------------------------------
Loop ==
    \/ \E valid \in BOOLEAN : OnCreate(valid)
    \/ \E ok \in BOOLEAN : Dialled(ok) \/ ConnectData(ok) \/ Created(ok)
    \/ HandshakeSettled \/ Undialled \/ StartingReported \/ Protected \/ ActiveReported
    \/ EnterRace \/ Raced \/ Caught \/ LossReported \/ Teardown \/ TornDown
    \/ RetryElapsed \/ RetryStopped \/ Finally \/ CleanedUp \/ StoppedPublished
    \/ StopOwnExtension

Cleanup ==
    \/ \E inTime \in BOOLEAN : Destroyed(inTime)
    \/ CleanupControl \/ StoppedReported \/ ControlClosed

Session ==
    \/ HelloAck \/ ControlFails \/ HandshakeTimesOut \/ StopRequest \/ StopAckArrives
    \/ \E ok \in BOOLEAN : SocketFd(ok) \/ StopAckSent(ok)

World ==
    \/ DestroyedLate \/ PumpFails \/ PumpPolled \/ UIStop \/ OnDestroy
    \/ MacStops \/ MacCloses \/ MacRestarts

Next == Loop \/ Cleanup \/ Session \/ World \/ Finished

Spec == Init /\ [][Next]_vars

\* Promises of the platform settle, timers fire, and connections the Mac has
\* closed are noticed.  Nothing is assumed of the Mac, the user or the system.
Fairness ==
    /\ WF_vars(Loop) /\ WF_vars(Cleanup)
    /\ WF_vars(HandshakeTimesOut)
    /\ WF_vars(\E ok \in BOOLEAN : SocketFd(ok))
    /\ WF_vars(link = "down" /\ ControlFails)
    /\ WF_vars(PumpPolled)
    /\ WF_vars(\E ok \in BOOLEAN : StopAckSent(ok))

FairSpec == Spec /\ Fairness
-----------------------------------------------------------------------------
(* Properties *)

\* Until the system destroys the extension, an existing VPN is one that a
\* clean-up will find in the fields (vpnConnection with vpnCreated) or is just
\* destroying: no await of runVpnSession leaves a default route behind.
TunnelOwned ==
    tunnel /\ ~destroyRequested => (conn /\ created) \/ cleanup.at = "destroy"

\* While runPhase3 waits for its next attempt, and while that one connects,
\* nothing of the lost one is left: pump stopped, data socket closed, VPN gone,
\* Control session closed (only a destroy() past its deadline may linger).
RebuildsFromNothing ==
    /\ run \in {"retry", "dial", "hello"} => pump = "off" /\ ~data /\ ~tunnel /\ ~created
    /\ run = "retry" => ctl = "closed" /\ ~conn /\ ~held

\* The pump copies packets only between a VPN that exists and a data socket that
\* is connected: every clean-up stops it before it destroys the VPN.
PumpHasBothEnds == pump = "running" => tunnel /\ data

\* A loop that ends by itself has released everything and has published that it
\* has ended, whatever ended it.
EndsReleased ==
    run \in {"stopOwn", "done"} /\ ~destroyRequested =>
        /\ status \in {"STOPPED", "FAILED"}
        /\ ~tunnel /\ pump = "off" /\ ~data /\ ctl = "closed"

\* The extension uses the native module as the module's own promise allows: it
\* finds nothing to stop when it connects the data socket, starts one pump per
\* connected socket, even when onDestroy has closed the socket between the two,
\* and only a stop takes a failed pump away.
Facade == INSTANCE PumpFacade

UsesPump == Facade!Spec

\* A stop asked for in the app ends the extension at whichever await it arrives,
\* in the middle of a set-up, of a clean-up or of the back-off.
UIStopEnds == uiStop = "ui_requested" ~> (run = "done" \/ destroyRequested)

\* A session whose connections the Mac has closed is given up, for a new attempt
\* or for good, even when they were closed in the middle of its set-up.
DeadLinkGivenUp == link = "down" ~> (link = "up" \/ run = "done" \/ destroyRequested)

\* A pump that has failed on its own is noticed by the poll of waitForPumpStop.
PumpFailureNoticed == pump = "failed" ~> (pump # "failed" \/ destroyRequested)

\* docs/protocol.md: a daemon that closes only after STOP_ACK is not taken for a
\* transport failure by the device.
StopNotMistaken == ack \in {"sent", "done"} => stop # "transport_lost"
=============================================================================
