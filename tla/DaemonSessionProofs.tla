------------------------ MODULE DaemonSessionProofs ------------------------
(***************************************************************************)
(* What DaemonSession guarantees for any number of connections, proved.    *)
(***************************************************************************)
EXTENDS DaemonSession, FiniteSetTheorems, TLAPS

-----------------------------------------------------------------------------
(* Types *)

\* A part of the type invariant holds on as long as its variables do.
LEMMA TypeFrame ==
    /\ UNCHANGED serverVars /\ ServerTypeOK => ServerTypeOK'
    /\ UNCHANGED snapVars /\ SnapshotTypeOK => SnapshotTypeOK'
    /\ UNCHANGED handlerVars /\ HandlerTypeOK => HandlerTypeOK'
    /\ UNCHANGED socketVars /\ SocketTypeOK => SocketTypeOK'
    /\ UNCHANGED monitorVars /\ MonitorTypeOK => MonitorTypeOK'
    /\ UNCHANGED mainVars /\ MainTypeOK => MainTypeOK'
    /\ UNCHANGED losses /\ HistoryTypeOK => HistoryTypeOK'
<1>1. UNCHANGED serverVars /\ ServerTypeOK => ServerTypeOK'  BY DEF serverVars, ServerTypeOK
<1>2. UNCHANGED snapVars /\ SnapshotTypeOK => SnapshotTypeOK'  BY DEF snapVars, SnapshotTypeOK
<1>3. UNCHANGED handlerVars /\ HandlerTypeOK => HandlerTypeOK'
  BY DEF handlerVars, localVars, HandlerTypeOK
<1>4. UNCHANGED socketVars /\ SocketTypeOK => SocketTypeOK'  BY DEF socketVars, SocketTypeOK
<1>5. UNCHANGED monitorVars /\ MonitorTypeOK => MonitorTypeOK'
  BY DEF monitorVars, MonitorTypeOK
<1>6. UNCHANGED mainVars /\ MainTypeOK => MainTypeOK'  BY DEF mainVars, MainTypeOK
<1>7. UNCHANGED losses /\ HistoryTypeOK => HistoryTypeOK'
  BY DEF HistoryTypeOK
<1>8. QED  BY <1>1, <1>2, <1>3, <1>4, <1>5, <1>6, <1>7

\* Every step of a handler, the monitor or Run keeps the types.
LEMMA TypeStep == TypeOK /\ [Next]_vars => TypeOK'
<1> SUFFICES ASSUME TypeOK, [Next]_vars PROVE TypeOK'  OBVIOUS
<1> USE ConnsAssumption, ReportsAssumption DEF TypeOK
<1>1. ASSUME NEW c \in ControlConns, NEW m \in {"phase1", "vpn"}, RegisterControl(c, m)
      PROVE TypeOK'
  <2>0. c \in Conns  BY DEF Conns
  <2>1. ServerTypeOK'  BY <1>1 DEF ServerTypeOK, RegisterControl
  <2>2. HandlerTypeOK'
    <3>1. pc' \in [Conns -> ControlPC \cup DataPC]
      BY <2>0, <1>1 DEF HandlerTypeOK, RegisterControl, Goto, ControlPC, DataPC
    <3>2. hello' \in [ControlConns -> {"", "phase1", "vpn"}] /\ counting' \subseteq ControlConns
      BY <1>1 DEF HandlerTypeOK, RegisterControl
    <3>3. QED  BY <3>1, <3>2, <1>1 DEF HandlerTypeOK, RegisterControl
  <2>3. QED  BY <1>1, <2>1, <2>2, TypeFrame DEF RegisterControl
<1>2. ASSUME NEW c \in ControlConns, PublishControl(c) PROVE TypeOK'
  <2>0. c \in Conns  BY DEF Conns
  <2>1. SnapshotTypeOK'
    BY <1>2 DEF SnapshotTypeOK, PublishControl, Publish, VPNStatus, TransportStatus
  <2>2. HandlerTypeOK'
    BY <2>0, <1>2
       DEF HandlerTypeOK, localVars, PublishControl, Goto, ControlPC, DataPC, VPNStatus
  <2>3. QED  BY <1>2, <2>1, <2>2, TypeFrame DEF PublishControl
<1>3. ASSUME NEW c \in ControlConns, WriteHelloAck(c) PROVE TypeOK'
  <2>0. c \in Conns  BY DEF Conns
  <2>1. HandlerTypeOK'
    BY <2>0, <1>3 DEF HandlerTypeOK, localVars, WriteHelloAck, Goto, ControlPC, DataPC
  <2>2. SocketTypeOK'  BY <2>0, <1>3 DEF SocketTypeOK, WriteHelloAck
  <2>3. QED  BY <1>3, <2>1, <2>2, TypeFrame DEF WriteHelloAck
<1>4. ASSUME NEW c \in ControlConns, ControlEnds(c) PROVE TypeOK'
  <2>0. c \in Conns  BY DEF Conns
  <2>1. HandlerTypeOK'
    BY <2>0, <1>4 DEF HandlerTypeOK, localVars, ControlEnds, Goto, ControlPC, DataPC
  <2>2. QED  BY <1>4, <2>1, TypeFrame DEF ControlEnds
<1>5. ASSUME NEW c \in ControlConns, NEW s \in Reports, CheckStatus(c, s) PROVE TypeOK'
  <2>0. c \in Conns  BY DEF Conns
  <2>1. HandlerTypeOK'
    BY <2>0, <1>5 DEF HandlerTypeOK, localVars, CheckStatus, Goto, ControlPC, DataPC
  <2>2. QED  BY <1>5, <2>1, TypeFrame DEF CheckStatus
<1>6. ASSUME NEW c \in ControlConns, PublishStatus(c) PROVE TypeOK'
  <2>0. c \in Conns  BY DEF Conns
  <2>1. SnapshotTypeOK'
    BY <1>6 DEF SnapshotTypeOK, HandlerTypeOK, PublishStatus, Publish, VPNStatus
  <2>2. HandlerTypeOK'
    BY <2>0, <1>6
       DEF HandlerTypeOK, localVars, PublishStatus, Goto, ControlPC, DataPC, VPNStatus
  <2>3. QED  BY <1>6, <2>1, <2>2, TypeFrame DEF PublishStatus
<1>7. ASSUME NEW c \in ControlConns, ReadPrevious(c) PROVE TypeOK'
  <2>0. c \in Conns  BY DEF Conns
  <2>1. HandlerTypeOK'
    BY <2>0, <1>7
       DEF HandlerTypeOK, SnapshotTypeOK, localVars, ReadPrevious, Goto, ControlPC, DataPC
  <2>2. QED  BY <1>7, <2>1, TypeFrame DEF ReadPrevious
<1>8. ASSUME NEW c \in ControlConns, UnregisterControl(c) PROVE TypeOK'
  <2>0. c \in Conns  BY DEF Conns
  <2>1. ServerTypeOK'  BY <1>8 DEF ServerTypeOK, UnregisterControl
  <2>2. HandlerTypeOK'
    <3>1. pc' \in [Conns -> ControlPC \cup DataPC]
      BY <2>0, <1>8 DEF HandlerTypeOK, UnregisterControl, Goto, ControlPC, DataPC
    <3>2. grabbed' \in [ControlConns -> Holding]
      <4>1. [conn |-> data, relay |-> relay] \in Holding  BY DEF ServerTypeOK, Holding
      <4>2. QED  BY <4>1, <1>8 DEF HandlerTypeOK, UnregisterControl
    <3>3. previous' \in [ControlConns -> VPNStatus]
      BY <1>8 DEF HandlerTypeOK, UnregisterControl, VPNStatus
    <3>4. QED  BY <3>1, <3>2, <3>3, <1>8 DEF HandlerTypeOK, UnregisterControl
  <2>3. HistoryTypeOK'  BY <1>8 DEF HistoryTypeOK, UnregisterControl
  <2>4. QED  BY <1>8, <2>1, <2>2, <2>3, TypeFrame DEF UnregisterControl
<1>9. ASSUME NEW c \in ControlConns, CloseGrabbed(c) PROVE TypeOK'
  <2>0. c \in Conns  BY DEF Conns
  <2>1. HandlerTypeOK'
    BY <2>0, <1>9
       DEF HandlerTypeOK, localVars, CloseGrabbed, Goto, ControlPC, DataPC, AfterClose, Holding,
           Nothing
  <2>2. SocketTypeOK'
    BY <2>0, <1>9 DEF SocketTypeOK, HandlerTypeOK, CloseGrabbed, Holding, Conns
  <2>3. QED  BY <1>9, <2>1, <2>2, TypeFrame DEF CloseGrabbed
<1>10. ASSUME NEW c \in ControlConns, PublishControlLoss(c) PROVE TypeOK'
  <2>0. c \in Conns  BY DEF Conns
  <2>1. SnapshotTypeOK'
    BY <1>10 DEF SnapshotTypeOK, PublishControlLoss, Publish, VPNStatus, TransportStatus
  <2>2. HandlerTypeOK'
    BY <2>0, <1>10
       DEF HandlerTypeOK, localVars, PublishControlLoss, Goto, ControlPC, DataPC, VPNStatus
  <2>3. QED  BY <1>10, <2>1, <2>2, TypeFrame DEF PublishControlLoss
<1>11. ASSUME NEW d \in DataConns, NEW t \in issued, BindData(d, t) PROVE TypeOK'
  <2>0. d \in Conns  BY DEF Conns
  <2>1. ServerTypeOK'  BY <1>11 DEF ServerTypeOK, BindData
  <2>2. HandlerTypeOK'
    BY <2>0, <1>11 DEF HandlerTypeOK, SocketTypeOK, localVars, BindData, Goto, ControlPC, DataPC
  <2>3. QED  BY <1>11, <2>1, <2>2, TypeFrame DEF BindData
<1>12. ASSUME NEW d \in DataConns, CreateRelay(d) PROVE TypeOK'
  <2>0. d \in Conns  BY DEF Conns
  <2>1. HandlerTypeOK'
    BY <2>0, <1>12 DEF HandlerTypeOK, localVars, CreateRelay, Goto, ControlPC, DataPC
  <2>2. SocketTypeOK'  BY <2>0, <1>12 DEF SocketTypeOK, CreateRelay
  <2>3. QED  BY <1>12, <2>1, <2>2, TypeFrame DEF CreateRelay
<1>13. ASSUME NEW d \in DataConns, InstallRelay(d) PROVE TypeOK'
  <2>0. d \in Conns  BY DEF Conns
  <2>1. ServerTypeOK'  BY <1>13 DEF ServerTypeOK, InstallRelay
  <2>2. SnapshotTypeOK'
    BY <1>13 DEF SnapshotTypeOK, InstallRelay, Publish, VPNStatus, TransportStatus
  <2>3. HandlerTypeOK'
    BY <2>0, <1>13
       DEF HandlerTypeOK, localVars, InstallRelay, Goto, ControlPC, DataPC, VPNStatus
  <2>4. QED  BY <1>13, <2>1, <2>2, <2>3, TypeFrame DEF InstallRelay
<1>14. ASSUME NEW d \in DataConns, DiscardRelay(d) PROVE TypeOK'
  <2>0. d \in Conns  BY DEF Conns
  <2>1. HandlerTypeOK'
    BY <2>0, <1>14 DEF HandlerTypeOK, localVars, DiscardRelay, Goto, ControlPC, DataPC
  <2>2. SocketTypeOK'  BY <2>0, <1>14 DEF SocketTypeOK, DiscardRelay
  <2>3. QED  BY <1>14, <2>1, <2>2, TypeFrame DEF DiscardRelay
<1>15. ASSUME NEW d \in DataConns, DataEnds(d) PROVE TypeOK'
  <2>0. d \in Conns  BY DEF Conns
  <2>1. HandlerTypeOK'
    BY <2>0, <1>15 DEF HandlerTypeOK, localVars, DataEnds, Goto, ControlPC, DataPC
  <2>2. QED  BY <1>15, <2>1, TypeFrame DEF DataEnds
<1>16. ASSUME NEW d \in DataConns, UnbindData(d) PROVE TypeOK'
  <2>0. d \in Conns  BY DEF Conns
  <2>1. ServerTypeOK'  BY <1>16 DEF ServerTypeOK, UnbindData
  <2>2. HandlerTypeOK'
    BY <2>0, <1>16 DEF HandlerTypeOK, localVars, UnbindData, Goto, ControlPC, DataPC
  <2>3. QED  BY <1>16, <2>1, <2>2, TypeFrame DEF UnbindData
<1>17. ASSUME NEW d \in DataConns, CloseData(d) PROVE TypeOK'
  <2>0. d \in Conns  BY DEF Conns
  <2>1. HandlerTypeOK'
    BY <2>0, <1>17 DEF HandlerTypeOK, localVars, CloseData, Goto, ControlPC, DataPC, AfterClose
  <2>2. SocketTypeOK'  BY <2>0, <1>17 DEF SocketTypeOK, CloseData
  <2>3. QED  BY <1>17, <2>1, <2>2, TypeFrame DEF CloseData
<1>18. ASSUME NEW d \in DataConns, PublishDataLoss(d) PROVE TypeOK'
  <2>0. d \in Conns  BY DEF Conns
  <2>1. SnapshotTypeOK'
    BY <1>18 DEF SnapshotTypeOK, PublishDataLoss, Publish, VPNStatus, TransportStatus
  <2>2. HandlerTypeOK'
    BY <2>0, <1>18
       DEF HandlerTypeOK, localVars, PublishDataLoss, Goto, ControlPC, DataPC, VPNStatus
  <2>3. QED  BY <1>18, <2>1, <2>2, TypeFrame DEF PublishDataLoss
<1>19. ASSUME NEW outcome \in Outcomes, CheckMapping(outcome) PROVE TypeOK'
  <2>1. MonitorTypeOK'  BY <1>19 DEF MonitorTypeOK, CheckMapping
  <2>2. QED  BY <1>19, <2>1, TypeFrame DEF CheckMapping
<1>20. ASSUME MarkChecks PROVE TypeOK'
  <2>1. MonitorTypeOK'  BY <1>20 DEF MonitorTypeOK, MarkChecks, AfterMark
  <2>2. QED  BY <1>20, <2>1, TypeFrame DEF MarkChecks
<1>21. ASSUME MarkReads PROVE TypeOK'
  <2>1. MonitorTypeOK'
    BY <1>21 DEF MonitorTypeOK, SnapshotTypeOK, MarkReads, AfterMark, Interrupted, VPNStatus
  <2>2. QED  BY <1>21, <2>1, TypeFrame DEF MarkReads
<1>22. ASSUME MarkPublishes PROVE TypeOK'
  <2>1. SnapshotTypeOK'
    BY <1>22 DEF SnapshotTypeOK, MonitorTypeOK, MarkPublishes, VPNStatus, TransportStatus
  <2>2. MonitorTypeOK'  BY <1>22 DEF MonitorTypeOK, MarkPublishes, AfterMark, VPNStatus
  <2>3. QED  BY <1>22, <2>1, <2>2, TypeFrame DEF MarkPublishes
<1>23. ASSUME NEW ok \in BOOLEAN, RestoreMapping(ok) PROVE TypeOK'
  <2>1. MonitorTypeOK'  BY <1>23 DEF MonitorTypeOK, RestoreMapping
  <2>2. QED  BY <1>23, <2>1, TypeFrame DEF RestoreMapping
<1>24. ASSUME BeginShutdown PROVE TypeOK'
  <2>1. ServerTypeOK'  BY <1>24 DEF ServerTypeOK, BeginShutdown
  <2>2. MainTypeOK'  BY <1>24 DEF MainTypeOK, ServerTypeOK, BeginShutdown
  <2>3. QED  BY <1>24, <2>1, <2>2, TypeFrame DEF BeginShutdown
<1>25. ASSUME JoinMonitor PROVE TypeOK'
  <2>1. MainTypeOK'  BY <1>25 DEF MainTypeOK, JoinMonitor
  <2>2. SnapshotTypeOK'  BY <1>25 DEF SnapshotTypeOK, JoinMonitor, Publish
  <2>3. QED  BY <1>25, <2>1, <2>2, TypeFrame DEF JoinMonitor
<1>26. ASSUME AwaitStopAck PROVE TypeOK'
  <2>1. MainTypeOK'  BY <1>26 DEF MainTypeOK, AwaitStopAck
  <2>2. QED  BY <1>26, <2>1, TypeFrame DEF AwaitStopAck
<1>27. ASSUME CloseSession PROVE TypeOK'
  <2>1. SocketTypeOK'  BY <1>27 DEF SocketTypeOK, MainTypeOK, CloseSession, Conns
  <2>2. MainTypeOK'  BY <1>27 DEF MainTypeOK, CloseSession, HoldsNothing
  <2>3. QED  BY <1>27, <2>1, <2>2, TypeFrame DEF CloseSession
<1>28. CASE UNCHANGED vars  BY <1>28, TypeFrame DEF vars
<1>29. QED
  BY <1>1, <1>2, <1>3, <1>4, <1>5, <1>6, <1>7, <1>8, <1>9, <1>10, <1>11, <1>12, <1>13, <1>14,
     <1>15, <1>16, <1>17, <1>18, <1>19, <1>20, <1>21, <1>22, <1>23, <1>24, <1>25, <1>26, <1>27,
     <1>28
  DEF Next, ControlStep, DataStep, MonitorStep, MainStep, Exited

\* Before the first connection every variable has its type.
LEMMA TypeInit == Init => TypeOK
<1> SUFFICES ASSUME Init PROVE TypeOK  OBVIOUS
<1> USE DEF Init, HoldsNothing
<1>1. ServerTypeOK /\ SocketTypeOK /\ MainTypeOK
  BY DEF ServerTypeOK, SocketTypeOK, MainTypeOK
<1>2. SnapshotTypeOK /\ MonitorTypeOK
  BY DEF SnapshotTypeOK, MonitorTypeOK, VPNStatus, TransportStatus
<1>3. HandlerTypeOK
  BY DEF HandlerTypeOK, ControlPC, DataPC, VPNStatus, Holding, Nothing
<1>4. HistoryTypeOK
  BY DEF HistoryTypeOK
<1>5. QED
  BY <1>1, <1>2, <1>3, <1>4 DEF TypeOK

\* Type correctness of the daemon's session state and of every goroutine's
\* local variables.
THEOREM TypeCorrect == Spec => []TypeOK
  BY TypeInit, TypeStep, PTL DEF Spec

-----------------------------------------------------------------------------
(* The inductive invariant *)

\* DataOfSession, and what keeps it: the token in force is the live session's,
\* the bound Data handler has not ended, an installed relay's handler serves it.
SessionInv ==
    /\ DataOfSession
    /\ control # None => token = control
    /\ data # None => pc[data] \in {"bound", "created", "reading", "releasing"}
    /\ relay # None => pc[relay] \in {"reading", "releasing"}

\* RelayOwned, and what keeps it: a relay exists as soon as its handler says
\* so, and one that was taken out to be closed is never installed again.
CreatedOpen == \A d \in DataConns : pc[d] = "created" => d \in open

TakenOut(d) == d # None => data # d /\ pc[d] \notin {"idle", "bound", "created"}

NoneReused ==
    /\ \A c \in ControlConns : TakenOut(grabbed[c].relay)
    /\ TakenOut(mainHolds.relay)
    /\ main = "serving" => mainHolds.relay = None

RelayInv == RelayOwned /\ CreatedOpen /\ NoneReused

\* LossCountedOnce, and what keeps it: who claims a loss has yet to publish, a
\* loss is not pending while a VPN session is up, a session is lost once.
CountInv ==
    /\ LossCountedOnce
    /\ \A c \in counting : pc[c] = "registered"
    /\ control # None /\ mode = "vpn" => ~pending
    /\ \A c \in losses : pc[c] \in {"closing", "closingQuiet", "publishing", "done"}

\* OfflineRecovers, and what keeps it: the monitor's own variables follow its
\* place in the loop.
MonitorInv ==
    /\ OfflineRecovers
    /\ monitor \in {"markDown", "readDown", "publishDown", "restore"} => unavailable
    /\ monitor \in {"markUp", "readUp", "publishUp"} => ~restore

-----------------------------------------------------------------------------
(* Where each action moves its handler *)

Moves(h, from, to) ==
    /\ pc[h] = from /\ pc'[h] = to
    /\ \A x \in Conns \ {h} : pc'[x] = pc[x]

\* Goto moves one handler and no other.
LEMMA GotoMoves ==
    ASSUME TypeOK, NEW h \in Conns, NEW from, NEW to, Goto(h, from, to)
    PROVE  Moves(h, from, to)
BY DEF TypeOK, HandlerTypeOK, Goto, Moves

\* The handler of a Control connection.
LEMMA ControlMoves ==
    ASSUME TypeOK, NEW c \in ControlConns
    PROVE  /\ \A m : RegisterControl(c, m) =>
                Moves(c, "idle", IF control # None \/ stopping THEN "done" ELSE "registered")
           /\ PublishControl(c) => Moves(c, "registered", "acking")
           /\ WriteHelloAck(c) => Moves(c, "acking", "reading")
           /\ ControlEnds(c) => Moves(c, "acking", "leaving") \/ Moves(c, "reading", "leaving")
           /\ \A s : CheckStatus(c, s) =>
                Moves(c, "reading", "reporting") \/ Moves(c, "reading", "leaving")
           /\ PublishStatus(c) => Moves(c, "reporting", "reading")
           /\ ReadPrevious(c) => Moves(c, "leaving", "releasing")
           /\ UnregisterControl(c) =>
                Moves(c, "releasing", IF control # c THEN "done"
                                      ELSE IF stopping THEN "closingQuiet" ELSE "closing")
           /\ CloseGrabbed(c) =>
                Moves(c, "closing", "publishing") \/ Moves(c, "closingQuiet", "done")
           /\ PublishControlLoss(c) => Moves(c, "publishing", "done")
<1> c \in Conns  BY DEF Conns
<1> USE GotoMoves
<1>1. \A m : RegisterControl(c, m) =>
        Moves(c, "idle", IF control # None \/ stopping THEN "done" ELSE "registered")
  BY DEF RegisterControl
<1>2. /\ PublishControl(c) => Moves(c, "registered", "acking")
      /\ WriteHelloAck(c) => Moves(c, "acking", "reading")
  BY DEF PublishControl, WriteHelloAck
<1>3. ControlEnds(c) => Moves(c, "acking", "leaving") \/ Moves(c, "reading", "leaving")
  BY DEF ControlEnds
<1>4. \A s : CheckStatus(c, s) =>
        Moves(c, "reading", "reporting") \/ Moves(c, "reading", "leaving")
  BY DEF CheckStatus
<1>5. /\ PublishStatus(c) => Moves(c, "reporting", "reading")
      /\ ReadPrevious(c) => Moves(c, "leaving", "releasing")
  BY DEF PublishStatus, ReadPrevious
<1>6. UnregisterControl(c) =>
        Moves(c, "releasing", IF control # c THEN "done"
                              ELSE IF stopping THEN "closingQuiet" ELSE "closing")
  BY DEF UnregisterControl
<1>7. CloseGrabbed(c) => Moves(c, "closing", "publishing") \/ Moves(c, "closingQuiet", "done")
  BY DEF CloseGrabbed, AfterClose
<1>8. PublishControlLoss(c) => Moves(c, "publishing", "done")
  BY DEF PublishControlLoss
<1>9. QED
  BY <1>1, <1>2, <1>3, <1>4, <1>5, <1>6, <1>7, <1>8

\* The handler of a Data connection.
LEMMA DataMoves ==
    ASSUME TypeOK, NEW d \in DataConns
    PROVE  /\ \A t : BindData(d, t) => Moves(d, "idle", "done") \/ Moves(d, "idle", "bound")
           /\ CreateRelay(d) => Moves(d, "bound", "created") \/ Moves(d, "bound", "releasing")
           /\ InstallRelay(d) =>
                Moves(d, "created", IF data # d \/ control = None \/ stopping
                                    THEN "discarding" ELSE "reading")
           /\ DiscardRelay(d) => Moves(d, "discarding", "done")
           /\ DataEnds(d) => Moves(d, "reading", "releasing")
           /\ UnbindData(d) =>
                Moves(d, "releasing", IF data # d THEN "done"
                                      ELSE IF control # None /\ mode = "vpn" /\ ~stopping
                                           THEN "closing" ELSE "closingQuiet")
           /\ CloseData(d) =>
                Moves(d, "closing", "publishing") \/ Moves(d, "closingQuiet", "done")
           /\ PublishDataLoss(d) => Moves(d, "publishing", "done")
<1> d \in Conns  BY DEF Conns
<1> USE GotoMoves
<1>1. \A t : BindData(d, t) => Moves(d, "idle", "done") \/ Moves(d, "idle", "bound")
  BY DEF BindData
<1>2. CreateRelay(d) => Moves(d, "bound", "created") \/ Moves(d, "bound", "releasing")
  BY DEF CreateRelay
<1>3. InstallRelay(d) =>
        Moves(d, "created", IF data # d \/ control = None \/ stopping
                            THEN "discarding" ELSE "reading")
  BY DEF InstallRelay
<1>4. /\ DiscardRelay(d) => Moves(d, "discarding", "done")
      /\ DataEnds(d) => Moves(d, "reading", "releasing")
  BY DEF DiscardRelay, DataEnds
<1>5. UnbindData(d) =>
        Moves(d, "releasing", IF data # d THEN "done"
                              ELSE IF control # None /\ mode = "vpn" /\ ~stopping
                                   THEN "closing" ELSE "closingQuiet")
  BY DEF UnbindData
<1>6. CloseData(d) => Moves(d, "closing", "publishing") \/ Moves(d, "closingQuiet", "done")
  BY DEF CloseData, AfterClose
<1>7. PublishDataLoss(d) => Moves(d, "publishing", "done")
  BY DEF PublishDataLoss
<1>8. QED
  BY <1>1, <1>2, <1>3, <1>4, <1>5, <1>6, <1>7

-----------------------------------------------------------------------------
(* Each part is kept by every step *)

\* SessionInv is inductive.
LEMMA SessionStep == TypeOK /\ SessionInv /\ [Next]_vars => SessionInv'
<1> SUFFICES ASSUME TypeOK, SessionInv, [Next]_vars PROVE SessionInv'  OBVIOUS
<1>0. /\ data \in DataConns \cup {None} /\ relay \in DataConns \cup {None}
      /\ ControlConns \cap DataConns = {} /\ None \notin Conns
  BY ConnsAssumption DEF TypeOK, ServerTypeOK
<1> USE <1>0 DEF SessionInv, DataOfSession, Moves, Conns, serverVars, handlerVars
<1>1. ASSUME NEW c \in ControlConns, NEW m \in {"phase1", "vpn"}, RegisterControl(c, m)
      PROVE SessionInv'
  BY <1>1, ControlMoves DEF RegisterControl
<1>2. ASSUME NEW c \in ControlConns, PublishControl(c) PROVE SessionInv'
  BY <1>2, ControlMoves DEF PublishControl
<1>3. ASSUME NEW c \in ControlConns, WriteHelloAck(c) PROVE SessionInv'
  BY <1>3, ControlMoves DEF WriteHelloAck
<1>4. ASSUME NEW c \in ControlConns, ControlEnds(c) PROVE SessionInv'
  BY <1>4, ControlMoves DEF ControlEnds
<1>5. ASSUME NEW c \in ControlConns, NEW s \in Reports, CheckStatus(c, s) PROVE SessionInv'
  BY <1>5, ControlMoves DEF CheckStatus
<1>6. ASSUME NEW c \in ControlConns, PublishStatus(c) PROVE SessionInv'
  BY <1>6, ControlMoves DEF PublishStatus
<1>7. ASSUME NEW c \in ControlConns, ReadPrevious(c) PROVE SessionInv'
  BY <1>7, ControlMoves DEF ReadPrevious
<1>8. ASSUME NEW c \in ControlConns, UnregisterControl(c) PROVE SessionInv'
  BY <1>8, ControlMoves DEF UnregisterControl
<1>9. ASSUME NEW c \in ControlConns, CloseGrabbed(c) PROVE SessionInv'
  BY <1>9, ControlMoves DEF CloseGrabbed
<1>10. ASSUME NEW c \in ControlConns, PublishControlLoss(c) PROVE SessionInv'
  BY <1>10, ControlMoves DEF PublishControlLoss
<1>11. ASSUME NEW d \in DataConns, NEW t \in issued, BindData(d, t) PROVE SessionInv'
  <2>1. CASE data' = data
    BY <1>11, <2>1, DataMoves DEF BindData
  <2>2. CASE data' # data
    <3>1. /\ control # None /\ mode = "vpn" /\ t = control /\ data = None /\ data' = d
          /\ ~stopping /\ UNCHANGED <<control, mode, token, relay, stopping>>
      BY <1>11, <2>2 DEF BindData
    <3>2. presented'[d] = t /\ pc'[d] = "bound"
      BY <1>11, <2>2, GotoMoves DEF BindData, TypeOK, HandlerTypeOK
    <3>3. QED  BY <3>1, <3>2
  <2>3. QED  BY <2>1, <2>2
<1>12. ASSUME NEW d \in DataConns, CreateRelay(d) PROVE SessionInv'
  BY <1>12, DataMoves DEF CreateRelay
<1>13. ASSUME NEW d \in DataConns, InstallRelay(d) PROVE SessionInv'
  BY <1>13, DataMoves DEF InstallRelay
<1>14. ASSUME NEW d \in DataConns, DiscardRelay(d) PROVE SessionInv'
  BY <1>14, DataMoves DEF DiscardRelay
<1>15. ASSUME NEW d \in DataConns, DataEnds(d) PROVE SessionInv'
  BY <1>15, DataMoves DEF DataEnds
<1>16. ASSUME NEW d \in DataConns, UnbindData(d) PROVE SessionInv'
  BY <1>16, DataMoves DEF UnbindData
<1>17. ASSUME NEW d \in DataConns, CloseData(d) PROVE SessionInv'
  BY <1>17, DataMoves DEF CloseData
<1>18. ASSUME NEW d \in DataConns, PublishDataLoss(d) PROVE SessionInv'
  BY <1>18, DataMoves DEF PublishDataLoss
<1>19. ASSUME NEW outcome \in Outcomes, CheckMapping(outcome) PROVE SessionInv'
  BY <1>19 DEF CheckMapping
<1>20. ASSUME MarkChecks PROVE SessionInv'
  BY <1>20 DEF MarkChecks
<1>21. ASSUME MarkReads PROVE SessionInv'
  BY <1>21 DEF MarkReads
<1>22. ASSUME MarkPublishes PROVE SessionInv'
  BY <1>22 DEF MarkPublishes
<1>23. ASSUME NEW ok \in BOOLEAN, RestoreMapping(ok) PROVE SessionInv'
  BY <1>23 DEF RestoreMapping
<1>24. ASSUME BeginShutdown PROVE SessionInv'
  BY <1>24 DEF BeginShutdown
<1>25. ASSUME JoinMonitor PROVE SessionInv'
  BY <1>25 DEF JoinMonitor
<1>26. ASSUME AwaitStopAck PROVE SessionInv'
  BY <1>26 DEF AwaitStopAck
<1>27. ASSUME CloseSession PROVE SessionInv'
  BY <1>27 DEF CloseSession
<1>28. CASE UNCHANGED vars  BY <1>28 DEF vars
<1>29. QED
  BY <1>1, <1>2, <1>3, <1>4, <1>5, <1>6, <1>7, <1>8, <1>9, <1>10, <1>11, <1>12, <1>13, <1>14,
     <1>15, <1>16, <1>17, <1>18, <1>19, <1>20, <1>21, <1>22, <1>23, <1>24, <1>25, <1>26, <1>27,
     <1>28
  DEF Next, ControlStep, DataStep, MonitorStep, MainStep, Exited

Early == {"idle", "bound", "created"}
Closing == {"closing", "closingQuiet"}

\* RelayInv outlives a step that leaves the relays and who holds them alone,
\* if handlers on their way to close a relay stay so.
LEMMA RelayFrame ==
    ASSUME TypeOK, RelayInv, UNCHANGED <<data, relay, open, grabbed, mainHolds>>,
           main' = "serving" => main = "serving",
           \A d \in DataConns : /\ pc[d] \notin Early => pc'[d] \notin Early
                                /\ pc'[d] = "created" => pc[d] = "created"
                                /\ pc[d] \in {"created", "discarding"} \cup Closing => pc'[d] = pc[d],
           \A c \in ControlConns : pc[c] \in Closing => pc'[c] = pc[c]
    PROVE  RelayInv'
<1>1. /\ open \subseteq DataConns /\ mainHolds.relay \in DataConns \cup {None}
      /\ \A c \in ControlConns : grabbed[c].relay \in DataConns \cup {None}
  BY DEF TypeOK, HandlerTypeOK, MainTypeOK, SocketTypeOK, Holding
<1>2. ASSUME NEW d \in open, ToBeClosed(d) PROVE ToBeClosed(d)'
  BY <1>1, <1>2 DEF ToBeClosed, Closing
<1>3. RelayOwned'
  BY <1>2 DEF RelayInv, RelayOwned
<1>4. CreatedOpen'
  BY DEF RelayInv, CreatedOpen
<1>5. NoneReused'
  BY <1>1 DEF RelayInv, NoneReused, TakenOut, Early
<1>6. QED
  BY <1>3, <1>4, <1>5 DEF RelayInv

\* RelayInv is inductive, given SessionInv.
LEMMA RelayStep == TypeOK /\ SessionInv /\ RelayInv /\ [Next]_vars => RelayInv'
<1> SUFFICES ASSUME TypeOK, SessionInv, RelayInv, [Next]_vars PROVE RelayInv'  OBVIOUS
<1>0. /\ data \in DataConns \cup {None} /\ relay \in DataConns \cup {None}
      /\ mainHolds.relay \in DataConns \cup {None} /\ open \subseteq DataConns
      /\ \A c \in ControlConns : grabbed[c].relay \in DataConns \cup {None}
      /\ grabbed = [c \in ControlConns |-> grabbed[c]]
      /\ ControlConns \cap DataConns = {} /\ None \notin DataConns
  BY ConnsAssumption
     DEF TypeOK, ServerTypeOK, HandlerTypeOK, MainTypeOK, SocketTypeOK, Holding, Conns
<1> USE <1>0
<1>1. ASSUME NEW c \in ControlConns, NEW m \in {"phase1", "vpn"}, RegisterControl(c, m)
      PROVE RelayInv'
  BY <1>1, ControlMoves, RelayFrame
     DEF RegisterControl, Moves, Conns, Closing, socketVars, mainVars
<1>2. ASSUME NEW c \in ControlConns, PublishControl(c) PROVE RelayInv'
  BY <1>2, ControlMoves, RelayFrame
     DEF PublishControl, Moves, Conns, Closing, serverVars, socketVars, mainVars
<1>3. ASSUME NEW c \in ControlConns, WriteHelloAck(c) PROVE RelayInv'
  BY <1>3, ControlMoves, RelayFrame
     DEF WriteHelloAck, Moves, Conns, Closing, serverVars, localVars, mainVars
<1>4. ASSUME NEW c \in ControlConns, ControlEnds(c) PROVE RelayInv'
  BY <1>4, ControlMoves, RelayFrame
     DEF ControlEnds, Moves, Conns, Closing, serverVars, localVars, socketVars, mainVars
<1>5. ASSUME NEW c \in ControlConns, NEW s \in Reports, CheckStatus(c, s) PROVE RelayInv'
  BY <1>5, ControlMoves, RelayFrame
     DEF CheckStatus, Moves, Conns, Closing, serverVars, socketVars, mainVars
<1>6. ASSUME NEW c \in ControlConns, PublishStatus(c) PROVE RelayInv'
  BY <1>6, ControlMoves, RelayFrame
     DEF PublishStatus, Moves, Conns, Closing, serverVars, socketVars, mainVars
<1>7. ASSUME NEW c \in ControlConns, ReadPrevious(c) PROVE RelayInv'
  BY <1>7, ControlMoves, RelayFrame
     DEF ReadPrevious, Moves, Conns, Closing, serverVars, socketVars, mainVars
<1>8. ASSUME NEW c \in ControlConns, UnregisterControl(c) PROVE RelayInv'
  <2>0. CASE control # c
    BY <1>8, <2>0, ControlMoves, RelayFrame
       DEF UnregisterControl, Moves, Conns, Closing, socketVars, mainVars
  <2> SUFFICES ASSUME control = c PROVE RelayInv'  BY <2>0
  <2>1. /\ pc[c] = "releasing" /\ pc'[c] \in Closing
        /\ \A x \in Conns \ {c} : pc'[x] = pc[x]
        /\ relay' = None /\ data' = None /\ open' = open /\ UNCHANGED <<main, mainHolds>>
        /\ grabbed'[c].relay = relay
        /\ \A b \in ControlConns \ {c} : grabbed'[b] = grabbed[b]
    <3>1. Moves(c, "releasing", IF stopping THEN "closingQuiet" ELSE "closing")
      BY <1>8, ControlMoves
    <3>2. /\ relay' = None /\ data' = None /\ UNCHANGED <<open, main, mainHolds>>
          /\ grabbed' = [grabbed EXCEPT ![c] = [conn |-> data, relay |-> relay]]
      BY <1>8 DEF UnregisterControl, socketVars, mainVars
    <3>3. /\ grabbed'[c].relay = relay
          /\ \A b \in ControlConns \ {c} : grabbed'[b] = grabbed[b]
      BY <3>2
    <3>4. QED
      BY <3>1, <3>2, <3>3 DEF Moves, Closing
  <2>2. ASSUME NEW d \in open PROVE ToBeClosed(d)'
    <3>1. CASE relay = d
      BY <2>1, <3>1 DEF ToBeClosed, Closing
    <3>2. CASE ToBeClosed(d)
      BY <2>1, <3>2 DEF ToBeClosed, Conns
    <3>3. QED  BY <3>1, <3>2 DEF RelayInv, RelayOwned
  <2>3. RelayOwned'
    BY <2>1, <2>2 DEF RelayOwned
  <2>4. CreatedOpen'
    BY <2>1 DEF RelayInv, CreatedOpen, Conns
  <2>5. NoneReused'
    BY <2>1 DEF RelayInv, NoneReused, TakenOut, SessionInv, Conns
  <2>6. QED  BY <2>3, <2>4, <2>5 DEF RelayInv
<1>9. ASSUME NEW c \in ControlConns, CloseGrabbed(c) PROVE RelayInv'
  <2>1. /\ pc[c] \in Closing /\ \A x \in Conns \ {c} : pc'[x] = pc[x]
        /\ relay' = relay /\ data' = data /\ UNCHANGED <<main, mainHolds>>
        /\ open' = open \ {grabbed[c].relay}
        /\ grabbed'[c].relay = None
        /\ \A b \in ControlConns \ {c} : grabbed'[b] = grabbed[b]
    <3>1. Moves(c, "closing", "publishing") \/ Moves(c, "closingQuiet", "done")
      BY <1>9, ControlMoves
    <3>2. QED
      BY <1>9, <3>1 DEF CloseGrabbed, Moves, Closing, Nothing, serverVars, mainVars
  <2>2. ASSUME NEW d \in open', ToBeClosed(d) PROVE ToBeClosed(d)'
    BY <2>1, <2>2 DEF ToBeClosed, Conns
  <2>3. relay # None => relay # grabbed[c].relay
    BY DEF RelayInv, NoneReused, TakenOut, SessionInv, DataOfSession
  <2>4. RelayOwned'
    BY <2>1, <2>2, <2>3 DEF RelayInv, RelayOwned
  <2>5. CreatedOpen'
    BY <2>1 DEF RelayInv, CreatedOpen, NoneReused, TakenOut, Conns
  <2>6. NoneReused'
    BY <2>1 DEF RelayInv, NoneReused, TakenOut, Conns
  <2>7. QED  BY <2>4, <2>5, <2>6 DEF RelayInv
<1>10. ASSUME NEW c \in ControlConns, PublishControlLoss(c) PROVE RelayInv'
  BY <1>10, ControlMoves, RelayFrame
     DEF PublishControlLoss, Moves, Conns, Closing, serverVars, localVars, socketVars, mainVars
<1>11. ASSUME NEW d \in DataConns, NEW t \in issued, BindData(d, t) PROVE RelayInv'
  <2>1. /\ pc[d] = "idle" /\ pc'[d] \in {"done", "bound"} /\ \A x \in Conns \ {d} : pc'[x] = pc[x]
        /\ UNCHANGED <<relay, open, grabbed, main, mainHolds>> /\ data' \in {d, data}
    BY <1>11, DataMoves DEF BindData, Moves, localVars, socketVars, mainVars
  <2>2. ASSUME NEW e \in open, ToBeClosed(e) PROVE ToBeClosed(e)'
    BY <2>1, <2>2 DEF ToBeClosed, Conns
  <2>3. RelayOwned'
    BY <2>1, <2>2 DEF RelayInv, RelayOwned
  <2>4. CreatedOpen'
    BY <2>1 DEF RelayInv, CreatedOpen, Conns
  <2>5. NoneReused'
    BY <2>1 DEF RelayInv, NoneReused, TakenOut, Conns
  <2>6. QED  BY <2>3, <2>4, <2>5 DEF RelayInv
<1>12. ASSUME NEW d \in DataConns, CreateRelay(d) PROVE RelayInv'
  <2>1. /\ pc[d] = "bound" /\ \A x \in Conns \ {d} : pc'[x] = pc[x]
        /\ UNCHANGED <<data, relay, grabbed, main, mainHolds>>
        /\ \/ pc'[d] = "created" /\ open' = open \cup {d}
           \/ pc'[d] = "releasing" /\ open' = open
    <3>1. d \in Conns  BY DEF Conns
    <3>2. QED
      BY <1>12, <3>1, GotoMoves DEF CreateRelay, Moves, serverVars, localVars, mainVars
  <2>2. ASSUME NEW e \in open', (e = d /\ pc'[d] = "created") \/ ToBeClosed(e) PROVE ToBeClosed(e)'
    BY <2>1, <2>2 DEF ToBeClosed, Conns
  <2>3. RelayOwned'
    BY <2>1, <2>2 DEF RelayInv, RelayOwned
  <2>4. CreatedOpen'
    BY <2>1 DEF RelayInv, CreatedOpen, Conns
  <2>5. NoneReused'
    BY <2>1 DEF RelayInv, NoneReused, TakenOut, Conns
  <2>6. QED  BY <2>3, <2>4, <2>5 DEF RelayInv
<1>13. ASSUME NEW d \in DataConns, InstallRelay(d) PROVE RelayInv'
  <2>1. /\ pc[d] = "created" /\ \A x \in Conns \ {d} : pc'[x] = pc[x]
        /\ UNCHANGED <<data, open, grabbed, main, mainHolds>>
        /\ \/ pc'[d] = "discarding" /\ relay' = relay
           \/ pc'[d] = "reading" /\ relay' = d /\ data = d
    <3>1. d \in Conns  BY DEF Conns
    <3>2. QED
      BY <1>13, <3>1, GotoMoves DEF InstallRelay, Moves, localVars, socketVars, mainVars
  <2>2. d \in open
    BY <2>1 DEF CreatedOpen, RelayInv
  <2>3. relay \in {None, d} \/ relay' = relay
    BY <2>1 DEF SessionInv, DataOfSession
  <2>4. ASSUME NEW e \in open, ToBeClosed(e), e # d PROVE ToBeClosed(e)'
    BY <2>1, <2>4 DEF ToBeClosed, Conns
  <2>5. relay' = d \/ ToBeClosed(d)'
    BY <2>1 DEF ToBeClosed
  <2>6. RelayOwned'
    BY <2>1, <2>2, <2>3, <2>4, <2>5 DEF RelayInv, RelayOwned
  <2>7. CreatedOpen'
    BY <2>1 DEF RelayInv, CreatedOpen, Conns
  <2>8. NoneReused'
    BY <2>1 DEF RelayInv, NoneReused, TakenOut, Conns
  <2>9. QED  BY <2>6, <2>7, <2>8 DEF RelayInv
<1>14. ASSUME NEW d \in DataConns, DiscardRelay(d) PROVE RelayInv'
  <2>1. /\ pc[d] = "discarding" /\ pc'[d] = "done" /\ \A x \in Conns \ {d} : pc'[x] = pc[x]
        /\ UNCHANGED <<data, relay, grabbed, main, mainHolds>> /\ open' = open \ {d}
    BY <1>14, DataMoves DEF DiscardRelay, Moves, serverVars, localVars, mainVars
  <2>2. ASSUME NEW e \in open', ToBeClosed(e) PROVE ToBeClosed(e)'
    BY <2>1, <2>2 DEF ToBeClosed, Conns
  <2>3. relay # d
    BY <2>1 DEF SessionInv
  <2>4. RelayOwned'
    BY <2>1, <2>2, <2>3 DEF RelayInv, RelayOwned
  <2>5. CreatedOpen'
    BY <2>1 DEF RelayInv, CreatedOpen, Conns
  <2>6. NoneReused'
    BY <2>1 DEF RelayInv, NoneReused, TakenOut, Conns
  <2>7. QED  BY <2>4, <2>5, <2>6 DEF RelayInv
<1>15. ASSUME NEW d \in DataConns, DataEnds(d) PROVE RelayInv'
  BY <1>15, DataMoves, RelayFrame
     DEF DataEnds, Moves, Conns, Early, Closing, serverVars, localVars, socketVars, mainVars
<1>16. ASSUME NEW d \in DataConns, UnbindData(d) PROVE RelayInv'
  <2>0. CASE data # d
    BY <1>16, <2>0, DataMoves, RelayFrame
       DEF UnbindData, Moves, Conns, Early, Closing, localVars, socketVars, mainVars
  <2> SUFFICES ASSUME data = d PROVE RelayInv'  BY <2>0
  <2>1. /\ pc[d] = "releasing" /\ pc'[d] \in Closing /\ \A x \in Conns \ {d} : pc'[x] = pc[x]
        /\ UNCHANGED <<open, grabbed, main, mainHolds>> /\ data' = None /\ relay' = None
    BY <1>16, DataMoves DEF UnbindData, Moves, Closing, localVars, socketVars, mainVars
  <2>2. ASSUME NEW e \in open, ToBeClosed(e) \/ e = d PROVE ToBeClosed(e)'
    BY <2>1, <2>2 DEF ToBeClosed, Closing, Conns
  <2>3. relay \in {None, d}
    BY DEF SessionInv, DataOfSession
  <2>4. RelayOwned'
    BY <2>1, <2>2, <2>3 DEF RelayInv, RelayOwned
  <2>5. CreatedOpen'
    BY <2>1 DEF RelayInv, CreatedOpen, Closing, Conns
  <2>6. NoneReused'
    BY <2>1 DEF RelayInv, NoneReused, TakenOut, Closing, Conns
  <2>7. QED  BY <2>4, <2>5, <2>6 DEF RelayInv
<1>17. ASSUME NEW d \in DataConns, CloseData(d) PROVE RelayInv'
  <2>1. /\ pc[d] \in Closing /\ pc'[d] \in {"publishing", "done"}
        /\ \A x \in Conns \ {d} : pc'[x] = pc[x]
        /\ UNCHANGED <<data, relay, grabbed, main, mainHolds>> /\ open' = open \ {d}
    BY <1>17, DataMoves DEF CloseData, Moves, Closing, serverVars, localVars, mainVars
  <2>2. ASSUME NEW e \in open', ToBeClosed(e) PROVE ToBeClosed(e)'
    BY <2>1, <2>2 DEF ToBeClosed, Conns
  <2>3. relay # d
    BY <2>1 DEF SessionInv, Closing
  <2>4. RelayOwned'
    BY <2>1, <2>2, <2>3 DEF RelayInv, RelayOwned
  <2>5. CreatedOpen'
    BY <2>1 DEF RelayInv, CreatedOpen, Conns
  <2>6. NoneReused'
    BY <2>1 DEF RelayInv, NoneReused, TakenOut, Conns
  <2>7. QED  BY <2>4, <2>5, <2>6 DEF RelayInv
<1>18. ASSUME NEW d \in DataConns, PublishDataLoss(d) PROVE RelayInv'
  BY <1>18, DataMoves, RelayFrame
     DEF PublishDataLoss, Moves, Conns, Early, Closing, serverVars, localVars, socketVars, mainVars
<1>19. ASSUME MonitorStep PROVE RelayInv'
  <2>1. UNCHANGED <<serverVars, handlerVars, socketVars, mainVars>>
    BY <1>19 DEF MonitorStep, CheckMapping, MarkChecks, MarkReads, MarkPublishes, RestoreMapping
  <2>2. QED
    BY <2>1, RelayFrame DEF serverVars, handlerVars, localVars, socketVars, mainVars
<1>20. CASE BeginShutdown
  <2>1. /\ pc' = pc /\ UNCHANGED <<open, grabbed>> /\ data' = None /\ relay' = None
        /\ mainHolds'.relay = relay /\ main' # "serving"
    BY <1>20 DEF BeginShutdown, handlerVars, localVars, socketVars
  <2>2. mainHolds.relay = None
    BY <1>20 DEF BeginShutdown, RelayInv, NoneReused
  <2>3. ASSUME NEW e \in open, ToBeClosed(e) \/ relay = e PROVE ToBeClosed(e)'
    BY <2>1, <2>2, <2>3 DEF ToBeClosed
  <2>4. RelayOwned'
    BY <2>1, <2>3 DEF RelayInv, RelayOwned
  <2>5. CreatedOpen'
    BY <2>1 DEF RelayInv, CreatedOpen
  <2>6. NoneReused'
    BY <2>1 DEF RelayInv, NoneReused, TakenOut, SessionInv
  <2>7. QED  BY <2>4, <2>5, <2>6 DEF RelayInv
<1>21. CASE JoinMonitor \/ AwaitStopAck
  <2>1. UNCHANGED <<serverVars, handlerVars, socketVars, mainHolds>> /\ main' # "serving"
    BY <1>21 DEF JoinMonitor, AwaitStopAck
  <2>2. QED
    BY <2>1, RelayFrame DEF serverVars, handlerVars, localVars, socketVars
<1>22. CASE CloseSession
  <2>1. /\ pc' = pc /\ UNCHANGED <<data, relay, grabbed>>
        /\ open' = open \ {mainHolds.relay} /\ mainHolds'.relay = None /\ main' # "serving"
    BY <1>22 DEF CloseSession, HoldsNothing, serverVars, handlerVars, localVars
  <2>2. ASSUME NEW e \in open', ToBeClosed(e) PROVE ToBeClosed(e)'
    BY <2>1, <2>2 DEF ToBeClosed
  <2>3. relay # None => relay # mainHolds.relay
    BY DEF RelayInv, NoneReused, TakenOut, SessionInv, DataOfSession
  <2>4. RelayOwned'
    BY <2>1, <2>2, <2>3 DEF RelayInv, RelayOwned
  <2>5. CreatedOpen'
    BY <2>1 DEF RelayInv, CreatedOpen, NoneReused, TakenOut
  <2>6. NoneReused'
    BY <2>1 DEF RelayInv, NoneReused, TakenOut
  <2>7. QED  BY <2>4, <2>5, <2>6 DEF RelayInv
<1>23. CASE UNCHANGED vars
  BY <1>23, RelayFrame DEF vars, serverVars, handlerVars, localVars, socketVars, mainVars
<1>24. QED
  BY <1>1, <1>2, <1>3, <1>4, <1>5, <1>6, <1>7, <1>8, <1>9, <1>10, <1>11, <1>12, <1>13, <1>14,
     <1>15, <1>16, <1>17, <1>18, <1>19, <1>20, <1>21, <1>22, <1>23
  DEF Next, ControlStep, DataStep, MainStep, Exited

\* HandshakeNotLast is inductive, given SessionInv.
LEMMA HandshakeStep == TypeOK /\ SessionInv /\ HandshakeNotLast /\ [Next]_vars => HandshakeNotLast'
<1> SUFFICES ASSUME TypeOK, SessionInv, HandshakeNotLast, [Next]_vars
      PROVE HandshakeNotLast'  OBVIOUS
<1>0. /\ data \in DataConns \cup {None} /\ relay \in DataConns \cup {None}
      /\ control \in ControlConns \cup {None}
      /\ ControlConns \cap DataConns = {} /\ None \notin Conns
  BY ConnsAssumption DEF TypeOK, ServerTypeOK
<1> USE <1>0 DEF HandshakeNotLast, Moves, Conns, serverVars, snapVars, handlerVars
<1>1. ASSUME NEW c \in ControlConns, NEW m \in {"phase1", "vpn"}, RegisterControl(c, m)
      PROVE HandshakeNotLast'
  BY <1>1, ControlMoves DEF RegisterControl
<1>2. ASSUME NEW c \in ControlConns, PublishControl(c) PROVE HandshakeNotLast'
  BY <1>2, ControlMoves DEF PublishControl, Publish
<1>3. ASSUME NEW c \in ControlConns, WriteHelloAck(c) PROVE HandshakeNotLast'
  BY <1>3, ControlMoves DEF WriteHelloAck
<1>4. ASSUME NEW c \in ControlConns, ControlEnds(c) PROVE HandshakeNotLast'
  BY <1>4, ControlMoves DEF ControlEnds
<1>5. ASSUME NEW c \in ControlConns, NEW s \in Reports, CheckStatus(c, s)
      PROVE HandshakeNotLast'
  BY <1>5, ControlMoves DEF CheckStatus
<1>6. ASSUME NEW c \in ControlConns, PublishStatus(c) PROVE HandshakeNotLast'
  BY <1>6, ControlMoves DEF PublishStatus, Publish
<1>7. ASSUME NEW c \in ControlConns, ReadPrevious(c) PROVE HandshakeNotLast'
  BY <1>7, ControlMoves DEF ReadPrevious
<1>8. ASSUME NEW c \in ControlConns, UnregisterControl(c) PROVE HandshakeNotLast'
  BY <1>8, ControlMoves DEF UnregisterControl, SessionInv, DataOfSession
<1>9. ASSUME NEW c \in ControlConns, CloseGrabbed(c) PROVE HandshakeNotLast'
  BY <1>9, ControlMoves DEF CloseGrabbed
<1>10. ASSUME NEW c \in ControlConns, PublishControlLoss(c) PROVE HandshakeNotLast'
  BY <1>10, ControlMoves DEF PublishControlLoss, Publish
<1>11. ASSUME NEW d \in DataConns, NEW t \in issued, BindData(d, t) PROVE HandshakeNotLast'
  BY <1>11, DataMoves DEF BindData
<1>12. ASSUME NEW d \in DataConns, CreateRelay(d) PROVE HandshakeNotLast'
  BY <1>12, DataMoves DEF CreateRelay
<1>13. ASSUME NEW d \in DataConns, InstallRelay(d) PROVE HandshakeNotLast'
  BY <1>13, DataMoves DEF InstallRelay, Publish
<1>14. ASSUME NEW d \in DataConns, DiscardRelay(d) PROVE HandshakeNotLast'
  BY <1>14, DataMoves DEF DiscardRelay
<1>15. ASSUME NEW d \in DataConns, DataEnds(d) PROVE HandshakeNotLast'
  BY <1>15, DataMoves DEF DataEnds
<1>16. ASSUME NEW d \in DataConns, UnbindData(d) PROVE HandshakeNotLast'
  BY <1>16, DataMoves DEF UnbindData, SessionInv, DataOfSession
<1>17. ASSUME NEW d \in DataConns, CloseData(d) PROVE HandshakeNotLast'
  BY <1>17, DataMoves DEF CloseData
<1>18. ASSUME NEW d \in DataConns, PublishDataLoss(d) PROVE HandshakeNotLast'
  BY <1>18, DataMoves DEF PublishDataLoss, Publish
<1>19. ASSUME NEW outcome \in Outcomes, CheckMapping(outcome) PROVE HandshakeNotLast'
  BY <1>19 DEF CheckMapping
<1>20. ASSUME MarkChecks PROVE HandshakeNotLast'
  BY <1>20 DEF MarkChecks
<1>21. ASSUME MarkReads PROVE HandshakeNotLast'
  BY <1>21 DEF MarkReads
<1>22. ASSUME MarkPublishes PROVE HandshakeNotLast'
  BY <1>22 DEF MarkPublishes
<1>23. ASSUME NEW ok \in BOOLEAN, RestoreMapping(ok) PROVE HandshakeNotLast'
  BY <1>23 DEF RestoreMapping
<1>24. ASSUME BeginShutdown PROVE HandshakeNotLast'
  BY <1>24 DEF BeginShutdown
<1>25. ASSUME JoinMonitor PROVE HandshakeNotLast'
  BY <1>25 DEF JoinMonitor, Publish
<1>26. ASSUME AwaitStopAck PROVE HandshakeNotLast'
  BY <1>26 DEF AwaitStopAck
<1>27. ASSUME CloseSession PROVE HandshakeNotLast'
  BY <1>27 DEF CloseSession
<1>28. CASE UNCHANGED vars  BY <1>28 DEF vars
<1>29. QED
  BY <1>1, <1>2, <1>3, <1>4, <1>5, <1>6, <1>7, <1>8, <1>9, <1>10, <1>11, <1>12, <1>13, <1>14,
     <1>15, <1>16, <1>17, <1>18, <1>19, <1>20, <1>21, <1>22, <1>23, <1>24, <1>25, <1>26, <1>27,
     <1>28
  DEF Next, ControlStep, DataStep, MonitorStep, MainStep, Exited

\* CountInv is inductive.
LEMMA CountStep == TypeOK /\ CountInv /\ [Next]_vars => CountInv'
<1> SUFFICES ASSUME TypeOK, CountInv, [Next]_vars PROVE CountInv'  OBVIOUS
<1>0. /\ control \in ControlConns \cup {None} /\ counting \subseteq ControlConns
      /\ losses \subseteq ControlConns /\ reconnects \in Nat /\ pending \in BOOLEAN
      /\ ControlConns \cap DataConns = {} /\ None \notin Conns /\ IsFiniteSet(ControlConns)
  BY ConnsAssumption DEF TypeOK, ServerTypeOK, SnapshotTypeOK, HandlerTypeOK, HistoryTypeOK
<1>a. /\ IsFiniteSet(counting) /\ Cardinality(counting) \in Nat
      /\ IsFiniteSet(losses) /\ Cardinality(losses) \in Nat
  BY <1>0, FS_Subset, FS_CardinalityType
<1> USE <1>0
    DEF CountInv, Moves, Conns, serverVars, snapVars, handlerVars, localVars
<1>1. ASSUME NEW c \in ControlConns, NEW m \in {"phase1", "vpn"}, RegisterControl(c, m)
      PROVE CountInv'
  <2>1. CASE control # None \/ stopping
    BY <1>1, <2>1, ControlMoves DEF RegisterControl, LossCountedOnce
  <2>2. CASE ~(control # None \/ stopping) /\ m = "vpn" /\ pending
    <3>1. /\ counting' = counting \cup {c} /\ pending' = FALSE /\ c \notin counting
          /\ UNCHANGED <<losses, reconnects>>
      BY <1>1, <2>2, ControlMoves DEF RegisterControl
    <3>2. Cardinality(counting') = Cardinality(counting) + 1
      BY <1>a, <3>1, FS_AddElement
    <3>3. LossCountedOnce'
      BY <1>a, <2>2, <3>1, <3>2 DEF LossCountedOnce
    <3>4. QED  BY <1>1, <2>2, <3>1, <3>3, ControlMoves DEF RegisterControl
  <2>3. CASE ~(control # None \/ stopping) /\ ~(m = "vpn" /\ pending)
    BY <1>1, <2>3, ControlMoves DEF RegisterControl, LossCountedOnce
  <2>4. QED  BY <2>1, <2>2, <2>3
<1>2. ASSUME NEW c \in ControlConns, PublishControl(c) PROVE CountInv'
  <2>1. pc[c] = "registered" /\ UNCHANGED <<losses, pending, control, mode>>
    BY <1>2, ControlMoves DEF PublishControl
  <2>2. LossCountedOnce'
    <3>1. CASE c \in counting
      <4>1. Cardinality(counting') = Cardinality(counting) - 1
        BY <1>2, <1>a, <3>1, FS_RemoveElement DEF PublishControl
      <4>2. reconnects' = reconnects + 1  BY <1>2, <3>1 DEF PublishControl
      <4>3. QED  BY <1>a, <2>1, <4>1, <4>2 DEF LossCountedOnce
    <3>2. CASE c \notin counting
      BY <1>2, <2>1, <3>2 DEF PublishControl, LossCountedOnce
    <3>3. QED  BY <3>1, <3>2
  <2>3. QED  BY <1>2, <2>1, <2>2, ControlMoves DEF PublishControl
<1>3. ASSUME NEW c \in ControlConns, WriteHelloAck(c) PROVE CountInv'
  BY <1>3, ControlMoves DEF WriteHelloAck, LossCountedOnce
<1>4. ASSUME NEW c \in ControlConns, ControlEnds(c) PROVE CountInv'
  BY <1>4, ControlMoves DEF ControlEnds, LossCountedOnce
<1>5. ASSUME NEW c \in ControlConns, NEW s \in Reports, CheckStatus(c, s) PROVE CountInv'
  BY <1>5, ControlMoves DEF CheckStatus, LossCountedOnce
<1>6. ASSUME NEW c \in ControlConns, PublishStatus(c) PROVE CountInv'
  BY <1>6, ControlMoves DEF PublishStatus, LossCountedOnce
<1>7. ASSUME NEW c \in ControlConns, ReadPrevious(c) PROVE CountInv'
  BY <1>7, ControlMoves DEF ReadPrevious, LossCountedOnce
<1>8. ASSUME NEW c \in ControlConns, UnregisterControl(c) PROVE CountInv'
  <2>1. CASE control = c /\ mode = "vpn" /\ ~stopping /\ previous[c] # "STOPPED"
    <3>1. /\ losses' = losses \cup {c} /\ c \notin losses /\ pending = FALSE /\ pending' = TRUE
          /\ UNCHANGED <<counting, reconnects>>
      BY <1>8, <2>1, ControlMoves DEF UnregisterControl
    <3>2. Cardinality(losses') = Cardinality(losses) + 1
      BY <1>a, <3>1, FS_AddElement
    <3>3. LossCountedOnce'
      BY <1>a, <3>1, <3>2 DEF LossCountedOnce
    <3>4. QED  BY <1>8, <2>1, <3>1, <3>3, ControlMoves DEF UnregisterControl
  <2>2. CASE ~(control = c /\ mode = "vpn" /\ ~stopping /\ previous[c] # "STOPPED")
    <3>1. UNCHANGED <<losses, pending, counting, reconnects>>
      BY <1>8, <2>2 DEF UnregisterControl
    <3>2. LossCountedOnce'  BY <3>1 DEF LossCountedOnce
    <3>3. QED  BY <1>8, <3>1, <3>2, ControlMoves DEF UnregisterControl
  <2>3. QED  BY <2>1, <2>2
<1>9. ASSUME NEW c \in ControlConns, CloseGrabbed(c) PROVE CountInv'
  BY <1>9, ControlMoves DEF CloseGrabbed, LossCountedOnce
<1>10. ASSUME NEW c \in ControlConns, PublishControlLoss(c) PROVE CountInv'
  BY <1>10, ControlMoves DEF PublishControlLoss, LossCountedOnce
<1>11. ASSUME NEW d \in DataConns, NEW t \in issued, BindData(d, t) PROVE CountInv'
  BY <1>11, DataMoves DEF BindData, LossCountedOnce
<1>12. ASSUME NEW d \in DataConns, CreateRelay(d) PROVE CountInv'
  BY <1>12, DataMoves DEF CreateRelay, LossCountedOnce
<1>13. ASSUME NEW d \in DataConns, InstallRelay(d) PROVE CountInv'
  BY <1>13, DataMoves DEF InstallRelay, LossCountedOnce
<1>14. ASSUME NEW d \in DataConns, DiscardRelay(d) PROVE CountInv'
  BY <1>14, DataMoves DEF DiscardRelay, LossCountedOnce
<1>15. ASSUME NEW d \in DataConns, DataEnds(d) PROVE CountInv'
  BY <1>15, DataMoves DEF DataEnds, LossCountedOnce
<1>16. ASSUME NEW d \in DataConns, UnbindData(d) PROVE CountInv'
  BY <1>16, DataMoves DEF UnbindData, LossCountedOnce
<1>17. ASSUME NEW d \in DataConns, CloseData(d) PROVE CountInv'
  BY <1>17, DataMoves DEF CloseData, LossCountedOnce
<1>18. ASSUME NEW d \in DataConns, PublishDataLoss(d) PROVE CountInv'
  BY <1>18, DataMoves DEF PublishDataLoss, LossCountedOnce
<1>19. ASSUME NEW outcome \in Outcomes, CheckMapping(outcome) PROVE CountInv'
  BY <1>19 DEF CheckMapping, LossCountedOnce
<1>20. ASSUME MarkChecks PROVE CountInv'
  BY <1>20 DEF MarkChecks, LossCountedOnce
<1>21. ASSUME MarkReads PROVE CountInv'
  BY <1>21 DEF MarkReads, LossCountedOnce
<1>22. ASSUME MarkPublishes PROVE CountInv'
  BY <1>22 DEF MarkPublishes, LossCountedOnce
<1>23. ASSUME NEW ok \in BOOLEAN, RestoreMapping(ok) PROVE CountInv'
  BY <1>23 DEF RestoreMapping, LossCountedOnce
<1>24. ASSUME BeginShutdown PROVE CountInv'
  BY <1>24 DEF BeginShutdown, LossCountedOnce
<1>25. ASSUME JoinMonitor PROVE CountInv'
  BY <1>25 DEF JoinMonitor, LossCountedOnce
<1>26. ASSUME AwaitStopAck PROVE CountInv'
  BY <1>26 DEF AwaitStopAck, LossCountedOnce
<1>27. ASSUME CloseSession PROVE CountInv'
  BY <1>27 DEF CloseSession, LossCountedOnce
<1>28. CASE UNCHANGED vars  BY <1>28 DEF vars, LossCountedOnce
<1>29. QED
  BY <1>1, <1>2, <1>3, <1>4, <1>5, <1>6, <1>7, <1>8, <1>9, <1>10, <1>11, <1>12, <1>13, <1>14,
     <1>15, <1>16, <1>17, <1>18, <1>19, <1>20, <1>21, <1>22, <1>23, <1>24, <1>25, <1>26, <1>27,
     <1>28
  DEF Next, ControlStep, DataStep, MonitorStep, MainStep, Exited

\* MonitorInv is inductive, given SessionInv.
LEMMA MonitorInvStep == TypeOK /\ SessionInv /\ MonitorInv /\ [Next]_vars => MonitorInv'
<1> SUFFICES ASSUME TypeOK, SessionInv, MonitorInv, [Next]_vars PROVE MonitorInv'  OBVIOUS
<1>0. /\ data \in DataConns \cup {None} /\ relay \in DataConns \cup {None}
      /\ control \in ControlConns \cup {None}
      /\ ControlConns \cap DataConns = {} /\ None \notin Conns
  BY ConnsAssumption DEF TypeOK, ServerTypeOK
<1> USE <1>0
    DEF MonitorInv, OfflineRecovers, Moves, Conns, serverVars, snapVars, handlerVars,
        monitorVars
<1>1. ASSUME NEW c \in ControlConns, NEW m \in {"phase1", "vpn"}, RegisterControl(c, m)
      PROVE MonitorInv'
  BY <1>1, ControlMoves DEF RegisterControl
<1>2. ASSUME NEW c \in ControlConns, PublishControl(c) PROVE MonitorInv'
  BY <1>2, ControlMoves DEF PublishControl, Publish
<1>3. ASSUME NEW c \in ControlConns, WriteHelloAck(c) PROVE MonitorInv'
  BY <1>3, ControlMoves DEF WriteHelloAck
<1>4. ASSUME NEW c \in ControlConns, ControlEnds(c) PROVE MonitorInv'
  BY <1>4, ControlMoves DEF ControlEnds
<1>5. ASSUME NEW c \in ControlConns, NEW s \in Reports, CheckStatus(c, s) PROVE MonitorInv'
  BY <1>5, ControlMoves DEF CheckStatus
<1>6. ASSUME NEW c \in ControlConns, PublishStatus(c) PROVE MonitorInv'
  BY <1>6, ControlMoves DEF PublishStatus, Publish
<1>7. ASSUME NEW c \in ControlConns, ReadPrevious(c) PROVE MonitorInv'
  BY <1>7, ControlMoves DEF ReadPrevious
<1>8. ASSUME NEW c \in ControlConns, UnregisterControl(c) PROVE MonitorInv'
  BY <1>8, ControlMoves DEF UnregisterControl, SessionInv, DataOfSession
<1>9. ASSUME NEW c \in ControlConns, CloseGrabbed(c) PROVE MonitorInv'
  BY <1>9, ControlMoves DEF CloseGrabbed
<1>10. ASSUME NEW c \in ControlConns, PublishControlLoss(c) PROVE MonitorInv'
  BY <1>10, ControlMoves DEF PublishControlLoss, Publish
<1>11. ASSUME NEW d \in DataConns, NEW t \in issued, BindData(d, t) PROVE MonitorInv'
  BY <1>11, DataMoves DEF BindData
<1>12. ASSUME NEW d \in DataConns, CreateRelay(d) PROVE MonitorInv'
  BY <1>12, DataMoves DEF CreateRelay
<1>13. ASSUME NEW d \in DataConns, InstallRelay(d) PROVE MonitorInv'
  BY <1>13, DataMoves DEF InstallRelay, Publish
<1>14. ASSUME NEW d \in DataConns, DiscardRelay(d) PROVE MonitorInv'
  BY <1>14, DataMoves DEF DiscardRelay
<1>15. ASSUME NEW d \in DataConns, DataEnds(d) PROVE MonitorInv'
  BY <1>15, DataMoves DEF DataEnds
<1>16. ASSUME NEW d \in DataConns, UnbindData(d) PROVE MonitorInv'
  BY <1>16, DataMoves DEF UnbindData
<1>17. ASSUME NEW d \in DataConns, CloseData(d) PROVE MonitorInv'
  BY <1>17, DataMoves DEF CloseData
<1>18. ASSUME NEW d \in DataConns, PublishDataLoss(d) PROVE MonitorInv'
  BY <1>18, DataMoves DEF PublishDataLoss, Publish
<1>19. ASSUME NEW outcome \in Outcomes, CheckMapping(outcome) PROVE MonitorInv'
  BY <1>19 DEF CheckMapping
<1>20. ASSUME MarkChecks PROVE MonitorInv'
  BY <1>20 DEF MarkChecks, AfterMark
<1>21. ASSUME MarkReads PROVE MonitorInv'
  BY <1>21 DEF MarkReads, AfterMark
<1>22. ASSUME MarkPublishes PROVE MonitorInv'
  BY <1>22 DEF MarkPublishes, AfterMark
<1>23. ASSUME NEW ok \in BOOLEAN, RestoreMapping(ok) PROVE MonitorInv'
  BY <1>23 DEF RestoreMapping
<1>24. ASSUME BeginShutdown PROVE MonitorInv'
  BY <1>24 DEF BeginShutdown
<1>25. ASSUME JoinMonitor PROVE MonitorInv'
  BY <1>25 DEF JoinMonitor, Publish
<1>26. ASSUME AwaitStopAck PROVE MonitorInv'
  BY <1>26 DEF AwaitStopAck
<1>27. ASSUME CloseSession PROVE MonitorInv'
  BY <1>27 DEF CloseSession
<1>28. CASE UNCHANGED vars  BY <1>28 DEF vars
<1>29. QED
  BY <1>1, <1>2, <1>3, <1>4, <1>5, <1>6, <1>7, <1>8, <1>9, <1>10, <1>11, <1>12, <1>13, <1>14,
     <1>15, <1>16, <1>17, <1>18, <1>19, <1>20, <1>21, <1>22, <1>23, <1>24, <1>25, <1>26, <1>27,
     <1>28
  DEF Next, ControlStep, DataStep, MonitorStep, MainStep, Exited

-----------------------------------------------------------------------------
(* Refinement *)

Fresh == {h \in Conns : pc[h] = "idle"}

\* Every step of the daemon is a step of the registry or invisible to it.
LEMMA RegistryStep == TypeOK /\ SessionInv /\ [Next]_vars => [Registry!Next]_Registry!vars
<1> SUFFICES ASSUME TypeOK, SessionInv, [Next]_vars PROVE [Registry!Next]_Registry!vars  OBVIOUS
<1>0. /\ control \in ControlConns \cup {None} /\ data \in DataConns \cup {None}
      /\ relay \in DataConns \cup {None}
      /\ ControlConns \cap DataConns = {} /\ None \notin Conns
      /\ control # None => ~stopping
      /\ data # None => control # None /\ mode = "vpn"
      /\ relay # None => relay = data /\ pc[relay] \in {"reading", "releasing"}
  BY ConnsAssumption DEF TypeOK, ServerTypeOK, SessionInv, DataOfSession
<1> USE <1>0
<1>a. ASSUME UNCHANGED serverVars, Fresh' = Fresh PROVE UNCHANGED Registry!vars
  BY <1>a DEF serverVars, Fresh, Registry!vars
<1>1. ASSUME NEW c \in ControlConns, NEW m \in {"phase1", "vpn"}, RegisterControl(c, m)
      PROVE [Registry!Next]_Registry!vars
  <2>1. c \in Fresh /\ Fresh' = Fresh \ {c}
    BY <1>1, ControlMoves DEF Moves, Fresh, Conns
  <2>2. CASE control # None \/ stopping
    <3>1. Registry!Refuse(c)
      BY <1>1, <2>1, <2>2 DEF RegisterControl, Registry!Refuse, Fresh
    <3>2. QED  BY <3>1 DEF Registry!Next
  <2>3. CASE ~(control # None \/ stopping)
    <3>1. Registry!Open(c, m)
      BY <1>1, <2>1, <2>3 DEF RegisterControl, Registry!Open, Fresh
    <3>2. QED  BY <3>1 DEF Registry!Next
  <2>4. QED  BY <2>2, <2>3
<1>2. ASSUME NEW c \in ControlConns, PublishControl(c) PROVE UNCHANGED Registry!vars
  <2>1. Fresh' = Fresh  BY <1>2, ControlMoves DEF Moves, Fresh, Conns
  <2>2. QED  BY <1>2, <1>a, <2>1 DEF PublishControl
<1>3. ASSUME NEW c \in ControlConns, WriteHelloAck(c) PROVE UNCHANGED Registry!vars
  <2>1. Fresh' = Fresh  BY <1>3, ControlMoves DEF Moves, Fresh, Conns
  <2>2. QED  BY <1>3, <1>a, <2>1 DEF WriteHelloAck
<1>4. ASSUME NEW c \in ControlConns, ControlEnds(c) PROVE UNCHANGED Registry!vars
  <2>1. Fresh' = Fresh  BY <1>4, ControlMoves DEF Moves, Fresh, Conns
  <2>2. QED  BY <1>4, <1>a, <2>1 DEF ControlEnds
<1>5. ASSUME NEW c \in ControlConns, NEW s \in Reports, CheckStatus(c, s)
      PROVE UNCHANGED Registry!vars
  <2>1. Fresh' = Fresh  BY <1>5, ControlMoves DEF Moves, Fresh, Conns
  <2>2. QED  BY <1>5, <1>a, <2>1 DEF CheckStatus
<1>6. ASSUME NEW c \in ControlConns, PublishStatus(c) PROVE UNCHANGED Registry!vars
  <2>1. Fresh' = Fresh  BY <1>6, ControlMoves DEF Moves, Fresh, Conns
  <2>2. QED  BY <1>6, <1>a, <2>1 DEF PublishStatus
<1>7. ASSUME NEW c \in ControlConns, ReadPrevious(c) PROVE UNCHANGED Registry!vars
  <2>1. Fresh' = Fresh  BY <1>7, ControlMoves DEF Moves, Fresh, Conns
  <2>2. QED  BY <1>7, <1>a, <2>1 DEF ReadPrevious
<1>8. ASSUME NEW c \in ControlConns, UnregisterControl(c) PROVE [Registry!Next]_Registry!vars
  <2>1. Fresh' = Fresh  BY <1>8, ControlMoves DEF Moves, Fresh, Conns
  <2>2. CASE control # c
    BY <1>8, <1>a, <2>1, <2>2 DEF UnregisterControl, serverVars
  <2>3. CASE control = c
    <3>1. Registry!Drop
      BY <1>8, <2>1, <2>3 DEF UnregisterControl, Registry!Drop, Fresh, Conns
    <3>2. QED  BY <3>1 DEF Registry!Next
  <2>4. QED  BY <2>2, <2>3
<1>9. ASSUME NEW c \in ControlConns, CloseGrabbed(c) PROVE UNCHANGED Registry!vars
  <2>1. Fresh' = Fresh  BY <1>9, ControlMoves DEF Moves, Fresh, Conns
  <2>2. QED  BY <1>9, <1>a, <2>1 DEF CloseGrabbed
<1>10. ASSUME NEW c \in ControlConns, PublishControlLoss(c) PROVE UNCHANGED Registry!vars
  <2>1. Fresh' = Fresh  BY <1>10, ControlMoves DEF Moves, Fresh, Conns
  <2>2. QED  BY <1>10, <1>a, <2>1 DEF PublishControlLoss
<1>11. ASSUME NEW d \in DataConns, NEW t \in issued, BindData(d, t)
       PROVE [Registry!Next]_Registry!vars
  <2>1. d \in Fresh /\ Fresh' = Fresh \ {d}
    BY <1>11, DataMoves DEF Moves, Fresh, Conns
  <2>2. CASE stopping \/ control = None \/ mode # "vpn" \/ token # t \/ data # None
    <3>1. Registry!Refuse(d)
      BY <1>11, <2>1, <2>2 DEF BindData, Registry!Refuse, Fresh
    <3>2. QED  BY <3>1 DEF Registry!Next
  <2>3. CASE ~(stopping \/ control = None \/ mode # "vpn" \/ token # t \/ data # None)
    <3>1. Registry!Attach(d)
      BY <1>11, <2>1, <2>3 DEF BindData, Registry!Attach, Fresh
    <3>2. QED  BY <3>1 DEF Registry!Next
  <2>4. QED  BY <2>2, <2>3
<1>12. ASSUME NEW d \in DataConns, CreateRelay(d) PROVE UNCHANGED Registry!vars
  <2>1. Fresh' = Fresh  BY <1>12, DataMoves DEF Moves, Fresh, Conns
  <2>2. QED  BY <1>12, <1>a, <2>1 DEF CreateRelay
<1>13. ASSUME NEW d \in DataConns, InstallRelay(d) PROVE [Registry!Next]_Registry!vars
  <2>1. Fresh' = Fresh /\ pc[d] = "created"
    BY <1>13, DataMoves DEF Moves, Fresh, Conns
  <2>2. CASE data # d \/ control = None \/ stopping
    BY <1>13, <1>a, <2>1, <2>2 DEF InstallRelay, serverVars
  <2>3. CASE ~(data # d \/ control = None \/ stopping)
    <3>1. Registry!Carry(d)
      BY <1>13, <2>1, <2>3 DEF InstallRelay, Registry!Carry, Fresh
    <3>2. QED  BY <3>1 DEF Registry!Next
  <2>4. QED  BY <2>2, <2>3
<1>14. ASSUME NEW d \in DataConns, DiscardRelay(d) PROVE UNCHANGED Registry!vars
  <2>1. Fresh' = Fresh  BY <1>14, DataMoves DEF Moves, Fresh, Conns
  <2>2. QED  BY <1>14, <1>a, <2>1 DEF DiscardRelay
<1>15. ASSUME NEW d \in DataConns, DataEnds(d) PROVE UNCHANGED Registry!vars
  <2>1. Fresh' = Fresh  BY <1>15, DataMoves DEF Moves, Fresh, Conns
  <2>2. QED  BY <1>15, <1>a, <2>1 DEF DataEnds
<1>16. ASSUME NEW d \in DataConns, UnbindData(d) PROVE [Registry!Next]_Registry!vars
  <2>1. Fresh' = Fresh  BY <1>16, DataMoves DEF Moves, Fresh, Conns
  <2>2. CASE data # d
    BY <1>16, <1>a, <2>1, <2>2 DEF UnbindData, serverVars
  <2>3. CASE data = d
    <3>1. Registry!Detach
      BY <1>16, <2>1, <2>3 DEF UnbindData, Registry!Detach, Fresh, Conns
    <3>2. QED  BY <3>1 DEF Registry!Next
  <2>4. QED  BY <2>2, <2>3
<1>17. ASSUME NEW d \in DataConns, CloseData(d) PROVE UNCHANGED Registry!vars
  <2>1. Fresh' = Fresh  BY <1>17, DataMoves DEF Moves, Fresh, Conns
  <2>2. QED  BY <1>17, <1>a, <2>1 DEF CloseData
<1>18. ASSUME NEW d \in DataConns, PublishDataLoss(d) PROVE UNCHANGED Registry!vars
  <2>1. Fresh' = Fresh  BY <1>18, DataMoves DEF Moves, Fresh, Conns
  <2>2. QED  BY <1>18, <1>a, <2>1 DEF PublishDataLoss
<1>19. ASSUME MonitorStep \/ JoinMonitor \/ AwaitStopAck \/ CloseSession
       PROVE UNCHANGED Registry!vars
  <2>1. UNCHANGED <<serverVars, handlerVars>>
    BY <1>19
       DEF MonitorStep, CheckMapping, MarkChecks, MarkReads, MarkPublishes, RestoreMapping,
                JoinMonitor, AwaitStopAck, CloseSession
  <2>2. QED  BY <1>a, <2>1 DEF handlerVars, Fresh
<1>20. ASSUME BeginShutdown PROVE [Registry!Next]_Registry!vars
  <2>1. Registry!Halt
    BY <1>20 DEF BeginShutdown, Registry!Halt, handlerVars
  <2>2. QED  BY <2>1 DEF Registry!Next
<1>21. CASE UNCHANGED vars  BY <1>21, <1>a DEF vars, handlerVars, Fresh
<1>22. QED
  BY <1>1, <1>2, <1>3, <1>4, <1>5, <1>6, <1>7, <1>8, <1>9, <1>10, <1>11, <1>12, <1>13,
     <1>14, <1>15, <1>16, <1>17, <1>18, <1>19, <1>20, <1>21
  DEF Next, ControlStep, DataStep, MainStep, Exited

-----------------------------------------------------------------------------
(* The theorems *)

Inv == TypeOK /\ SessionInv /\ RelayInv /\ HandshakeNotLast /\ CountInv /\ MonitorInv

\* The initial state, before the first connection, satisfies all of it.
LEMMA InvInit == Init => Inv
<1> SUFFICES ASSUME Init PROVE Inv  OBVIOUS
<1>1. TypeOK  BY TypeInit
<1>2. SessionInv  BY DEF Init, SessionInv, DataOfSession
<1>3. RelayInv
  BY DEF Init, RelayInv, RelayOwned, CreatedOpen, NoneReused, TakenOut, Nothing, HoldsNothing,
     Conns
<1>4. HandshakeNotLast  BY DEF Init, HandshakeNotLast
<1>5. CountInv
  <2>1. Cardinality({}) = 0  BY FS_EmptySet
  <2>2. losses = {} /\ counting = {} /\ reconnects = 0 /\ pending = FALSE /\ control = None
    BY DEF Init
  <2>3. LossCountedOnce  BY <2>1, <2>2 DEF LossCountedOnce
  <2>4. QED  BY <2>2, <2>3 DEF CountInv
<1>6. MonitorInv  BY DEF Init, MonitorInv, OfflineRecovers
<1>7. QED  BY <1>1, <1>2, <1>3, <1>4, <1>5, <1>6 DEF Inv

\* The conjunction of the parts is an invariant.
LEMMA InvHolds == Spec => []Inv
<1>1. Inv /\ [Next]_vars => Inv'
  BY TypeStep, SessionStep, RelayStep, HandshakeStep, CountStep, MonitorInvStep DEF Inv
<1>2. QED  BY InvInit, <1>1, PTL DEF Spec

\* A Data connection only ever belongs to the live VPN session whose token it
\* presented, although handleDataConnection creates the relay without the lock.
THEOREM DataOfSessionHolds == Spec => []DataOfSession
<1>1. Inv => DataOfSession  BY DEF Inv, SessionInv
<1>2. QED  BY InvHolds, <1>1, PTL

\* No relay leaks and none is closed under the session that uses it, however
\* releaseControl, releaseData, the handshake and shutdown interleave.
THEOREM RelayOwnedHolds == Spec => []RelayOwned
<1>1. Inv => RelayOwned  BY DEF Inv, RelayInv
<1>2. QED  BY InvHolds, <1>1, PTL

\* The data handshake never has the last word about a lost session.
THEOREM HandshakeNotLastHolds == Spec => []HandshakeNotLast
<1>1. Inv => HandshakeNotLast  BY DEF Inv
<1>2. QED  BY InvHolds, <1>1, PTL

\* Every unexpected loss is counted as exactly one reconnect.
THEOREM LossCountedOnceHolds == Spec => []LossCountedOnce
<1>1. Inv => LossCountedOnce  BY DEF Inv, CountInv
<1>2. QED  BY InvHolds, <1>1, PTL

\* DEVICE_OFFLINE does not outlive the outage of the mapping.
THEOREM OfflineRecoversHolds == Spec => []OfflineRecovers
<1>1. Inv => OfflineRecovers  BY DEF Inv, MonitorInv
<1>2. QED  BY InvHolds, <1>1, PTL

\* The daemon's critical sections implement the atomic session registry.
THEOREM RegistryImplemented == Spec => ImplementsRegistry
<1>1. Init => Registry!Init
  BY ConnsAssumption DEF Init, Registry!Init, Conns
<1>2. Inv /\ [Next]_vars => [Registry!Next]_Registry!vars
  BY RegistryStep DEF Inv
<1>3. QED  BY InvHolds, <1>1, <1>2, PTL DEF Spec, ImplementsRegistry, Registry!Spec
=============================================================================
