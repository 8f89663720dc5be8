------------------------- MODULE VpnExtensionProofs -------------------------
(***************************************************************************)
(* Theorems about VpnExtension, for every set of faults.                   *)
(***************************************************************************)
EXTENDS VpnExtension, TLAPS

\* The places of an attempt before create() has returned, those after it, and
\* those of an attempt whose Control session has not been closed by connect().
BeforeCreate == {"dial", "hello", "undial", "starting", "connectData", "protect", "create"}
AfterCreate  == {"active", "enterRace", "race", "raced", "caught", "report", "teardown",
                 "finally", "cleanup", "final"}
Alive        == {"dial", "hello", "starting", "connectData", "protect", "create", "active",
                 "enterRace", "race"}
Attempt      == BeforeCreate \cup {"active", "enterRace", "race", "raced", "caught", "report",
                                   "teardown"}

\* Everything a clean-up takes has been taken, and what still exists is in the
\* hands of the clean-up under way.
Released ==
    /\ pump = "off" /\ ~data /\ ~created /\ ~conn /\ ~held
    /\ tunnel => cleanup.at = "destroy"
    /\ ctl = "open" => cleanup.at \in {"destroy", "control", "report"} /\ cleanup.session

\* The fields hold everything that exists.
Owned == conn /\ held /\ cleanup.at = "none" /\ (tunnel <=> created)

\* Until onDestroy the fields describe the attempt.
FieldsInv ==
    /\ run = "new" => ~destroyRequested
    /\ ~destroyRequested =>
        /\ run \in Attempt => Owned
        /\ created => run \in AfterCreate
        /\ run \notin Attempt \cup {"finally", "cleanup", "final"} => cleanup.at = "none"
        /\ run \in {"new", "publish", "stopOwn", "done"} => Released
        /\ run = "finally" => Owned \/ (Released /\ cleanup.at = "none")

\* A VPN is destroyed under no running pump, and created under no clean-up that
\* is destroying one.
DestroyInv ==
    /\ PumpHasBothEnds
    /\ cleanup.at = "destroy" => pump # "running" /\ run \in AfterCreate

\* The loop leaves nothing behind when it goes on to another attempt or ends.
ReleaseInv ==
    /\ run \in {"cleanup", "retry"} => Released
    /\ run \in {"report", "teardown"} /\ destroyRequested => Released
    /\ run = "final" /\ ~destroyRequested => Released
    /\ run = "retry" => ctl = "closed" /\ ~tunnel

\* The Control session of a live attempt is open until onDestroy, hence its end
\* is not the loop's own doing and the loop's end is published.
OutcomeInv ==
    /\ run = "raced" => outcome # "none"
    /\ ~destroyRequested =>
         /\ run \in Alive => ctl = "open" /\ stop # "local_stop"
         /\ run = "raced" => outcome # "local_stop"
         /\ terminal # "local_stop"
         /\ run = "publish" => status = "STOPPED"
         /\ run \in {"stopOwn", "done"} => status \in {"STOPPED", "FAILED"}

\* The loop connects a data socket when there is none, and starts a pump when
\* there is none, even after an onDestroy that has not stopped the loop.
PumpUse ==
    /\ run \in {"starting", "connectData"} => pump = "off" /\ ~data
    /\ run \in {"protect", "create"} => pump = "off"

Safe ==
    /\ FieldsInv
    /\ DestroyInv
    /\ ReleaseInv
    /\ OutcomeInv
    /\ PumpUse
    /\ RebuildsFromNothing

Inv == TypeOK /\ Safe

-----------------------------------------------------------------------------
(* Types *)

\* The Boolean part of the type invariant.
LEMMA FlagsStep == FlagsOK /\ [Next]_vars => FlagsOK'
<1> SUFFICES ASSUME FlagsOK, [Next]_vars PROVE FlagsOK'  OBVIOUS
<1> USE DEF FlagsOK, vars, fieldVars, uiVars, nativeVars, vpnVars
<1>1. ASSUME NEW valid \in BOOLEAN, OnCreate(valid) PROVE FlagsOK'
  BY <1>1, Zenon DEF OnCreate, NewAttempt
<1>2. ASSUME NEW ok \in BOOLEAN, Dialled(ok) PROVE FlagsOK'
  BY <1>2, Zenon DEF Dialled, GiveUpConnect, Resolved
<1>3. CASE HandshakeSettled  BY <1>3, Zenon DEF HandshakeSettled, GiveUpConnect, Resolved
<1>4. CASE Undialled  BY <1>4, Zenon DEF Undialled, Proceed, SendFails
<1>5. CASE StartingReported  BY <1>5, Zenon DEF StartingReported, Proceed, SendFails
<1>6. CASE Protected  BY <1>6, Zenon DEF Protected, Proceed, SendFails
<1>7. CASE ActiveReported  BY <1>7, Zenon DEF ActiveReported, Proceed, SendFails
<1>8. CASE LossReported  BY <1>8, Zenon DEF LossReported, Proceed, SendFails
<1>9. CASE StoppedPublished  BY <1>9, Zenon DEF StoppedPublished, Proceed, SendFails
<1>10. ASSUME NEW ok \in BOOLEAN, ConnectData(ok) PROVE FlagsOK'  BY <1>10, Zenon DEF ConnectData
<1>11. ASSUME NEW ok \in BOOLEAN, Created(ok) PROVE FlagsOK'  BY <1>11, Zenon DEF Created
<1>12. CASE EnterRace  BY <1>12, Zenon DEF EnterRace
<1>13. CASE Raced  BY <1>13, Zenon DEF Raced
<1>14. CASE Caught  BY <1>14, Zenon DEF Caught
<1>15. CASE Teardown  BY <1>15, Zenon DEF Teardown, CleanupPhase3, BeginCleanup, StopPacketPump
<1>16. CASE TornDown  BY <1>16, Zenon DEF TornDown
<1>17. CASE RetryElapsed  BY <1>17, Zenon DEF RetryElapsed, NewAttempt
<1>18. CASE RetryStopped  BY <1>18, Zenon DEF RetryStopped
<1>19. CASE Finally
  BY <1>19, Zenon DEF Finally, CleanupPhase3, BeginCleanup, StopPacketPump, ReportStopped
<1>20. CASE CleanedUp  BY <1>20, Zenon DEF CleanedUp, ReportStopped
<1>21. CASE StopOwnExtension  BY <1>21, Zenon DEF StopOwnExtension
<1>22. ASSUME NEW inTime \in BOOLEAN, Destroyed(inTime) PROVE FlagsOK'
  BY <1>22, Zenon DEF Destroyed
<1>23. CASE DestroyedLate  BY <1>23, Zenon DEF DestroyedLate
<1>24. CASE CleanupControl
  BY <1>24, Zenon DEF CleanupControl, CloseSession, ResolveStop, Resolved, Wake
<1>25. CASE StoppedReported
  BY <1>25, Zenon DEF StoppedReported, CloseSession, ResolveStop, Resolved, Wake
<1>26. CASE ControlClosed  BY <1>26, Zenon DEF ControlClosed
<1>27. CASE HelloAck  BY <1>27, Zenon DEF HelloAck
<1>28. ASSUME NEW ok \in BOOLEAN, SocketFd(ok) PROVE FlagsOK'
  BY <1>28, Zenon DEF SocketFd, ResolveStop, Resolved, Wake
<1>29. CASE ControlFails  BY <1>29, Zenon DEF ControlFails, Fail, ResolveStop, Resolved, Wake
<1>30. CASE HandshakeTimesOut
  BY <1>30, Zenon DEF HandshakeTimesOut, Fail, ResolveStop, Resolved, Wake
<1>31. CASE StopRequest  BY <1>31, Zenon DEF StopRequest
<1>32. CASE StopAckArrives  BY <1>32, Zenon DEF StopAckArrives
<1>33. ASSUME NEW ok \in BOOLEAN, StopAckSent(ok) PROVE FlagsOK'
  BY <1>33, Zenon DEF StopAckSent, ResolveStop, Resolved, Wake
<1>34. CASE PumpFails  BY <1>34, Zenon DEF PumpFails
<1>35. CASE PumpPolled  BY <1>35, Zenon DEF PumpPolled, Wake
<1>36. CASE UIStop  BY <1>36, Zenon DEF UIStop, Wake
<1>37. CASE OnDestroy  BY <1>37, Zenon DEF OnDestroy, Wake, BeginCleanup, StopPacketPump
<1>38. CASE MacStops  BY <1>38, Zenon DEF MacStops
<1>39. CASE MacCloses  BY <1>39, Zenon DEF MacCloses
<1>40. CASE MacRestarts  BY <1>40, Zenon DEF MacRestarts
<1>41. CASE UNCHANGED vars  BY <1>41, Zenon
<1>42. QED
  BY <1>1, <1>2, <1>3, <1>4, <1>5, <1>6, <1>7, <1>8, <1>9, <1>10, <1>11, <1>12, <1>13, <1>14,
     <1>15, <1>16, <1>17, <1>18, <1>19, <1>20, <1>21, <1>22, <1>23, <1>24, <1>25, <1>26,
     <1>27, <1>28, <1>29, <1>30, <1>31, <1>32, <1>33, <1>34, <1>35, <1>36, <1>37, <1>38,
     <1>39, <1>40, <1>41
     DEF Next, Loop, Cleanup, Session, World, Finished

\* A clean-up keeps its type however it begins.
LEMMA CleanupType ==
    ASSUME NEW stopped \in BOOLEAN, held \in BOOLEAN, cleanup \in CleanupRecord,
           BeginCleanup(stopped)
    PROVE  cleanup' \in CleanupRecord
<1>1. CASE cleanup.at # "none"  BY <1>1, Zenon DEF BeginCleanup
<1>2. CASE cleanup.at = "none"
  <2> DEFINE at == IF created /\ conn THEN "destroy" ELSE "control"
  <2>1. cleanup' = [at |-> at, stopped |-> stopped, session |-> held]
    BY <1>2, Zenon DEF BeginCleanup
  <2>2. at \in {"none", "destroy", "control", "report", "closing"}  OBVIOUS
  <2> HIDE DEF at
  <2>3. QED  BY <2>1, <2>2, Zenon DEF CleanupRecord
<1>3. QED  BY <1>1, <1>2

\* The rest of it; Raced needs that a race has an outcome.
LEMMA PlacesStep ==
    TypeOK /\ (run = "raced" => outcome # "none") /\ [Next]_vars => PlacesOK'
<1> SUFFICES ASSUME TypeOK, run = "raced" => outcome # "none", [Next]_vars PROVE PlacesOK'
  OBVIOUS
<1>0. PlacesOK /\ held \in BOOLEAN  BY DEF TypeOK, FlagsOK
<1> USE DEF PlacesOK, Running, Waiting, Losses, Reasons, vars, loopVars, uiVars, sessionVars,
            nativeVars, macVars
<1>1. ASSUME NEW valid \in BOOLEAN, OnCreate(valid) PROVE PlacesOK'
  BY <1>0, <1>1 DEF OnCreate, NewAttempt
<1>2. ASSUME NEW ok \in BOOLEAN, Dialled(ok) PROVE PlacesOK'
  BY <1>0, <1>2 DEF Dialled, GiveUpConnect, Resolved, SendEnds, NextSend
<1>3. CASE HandshakeSettled  BY <1>0, <1>3 DEF HandshakeSettled, GiveUpConnect, Resolved
<1>4. CASE Undialled  BY <1>0, <1>4 DEF Undialled, Proceed, SendFails
<1>5. CASE StartingReported  BY <1>0, <1>5 DEF StartingReported, Proceed, SendFails, SendEnds, NextSend
<1>6. CASE Protected  BY <1>0, <1>6 DEF Protected, Proceed, SendFails
<1>7. CASE ActiveReported  BY <1>0, <1>7 DEF ActiveReported, Proceed, SendFails, SendEnds, NextSend
<1>8. CASE LossReported  BY <1>0, <1>8 DEF LossReported, Proceed, SendFails, SendEnds, NextSend
<1>9. CASE StoppedPublished  BY <1>0, <1>9 DEF StoppedPublished, Proceed, SendFails
<1>10. ASSUME NEW ok \in BOOLEAN, ConnectData(ok) PROVE PlacesOK'  BY <1>0, <1>10 DEF ConnectData
<1>11. ASSUME NEW ok \in BOOLEAN, Created(ok) PROVE PlacesOK'  BY <1>0, <1>11 DEF Created
<1>12. CASE EnterRace  BY <1>0, <1>12 DEF EnterRace
<1>13. CASE Raced  BY <1>0, <1>13 DEF Raced
<1>14. CASE Caught  BY <1>0, <1>14 DEF Caught
<1>15. CASE Teardown
  <2>1. FALSE \in BOOLEAN  OBVIOUS
  <2>2. BeginCleanup(FALSE)  BY <1>15, Zenon DEF Teardown, CleanupPhase3
  <2>3. cleanup' \in CleanupRecord  BY <1>0, <2>1, <2>2, CleanupType
  <2>4. QED  BY <1>0, <1>15, <2>3 DEF Teardown, CleanupPhase3, BeginCleanup, StopPacketPump
<1>16. CASE TornDown  BY <1>0, <1>16 DEF TornDown
<1>17. CASE RetryElapsed  BY <1>0, <1>17 DEF RetryElapsed, NewAttempt
<1>18. CASE RetryStopped  BY <1>0, <1>18 DEF RetryStopped
<1>19. CASE Finally
  <2>1. ReportStopped \in BOOLEAN  BY DEF ReportStopped
  <2>2. BeginCleanup(ReportStopped)  BY <1>19, Zenon DEF Finally, CleanupPhase3
  <2>3. cleanup' \in CleanupRecord  BY <1>0, <2>1, <2>2, CleanupType
  <2>4. QED  BY <1>0, <1>19, <2>3 DEF Finally, CleanupPhase3, BeginCleanup, StopPacketPump
<1>20. CASE CleanedUp  BY <1>0, <1>20 DEF CleanedUp, ReportStopped
<1>21. CASE StopOwnExtension  BY <1>0, <1>21 DEF StopOwnExtension
<1>22. ASSUME NEW inTime \in BOOLEAN, Destroyed(inTime) PROVE PlacesOK'
  BY <1>0, <1>22 DEF CleanupRecord, Destroyed
<1>23. CASE DestroyedLate  BY <1>0, <1>23 DEF DestroyedLate
<1>24. CASE CleanupControl
  BY <1>0, <1>24 DEF CleanupRecord, CleanupControl, CloseSession, ResolveStop, Resolved, Wake
<1>25. CASE StoppedReported
  BY <1>0, <1>25 DEF CleanupRecord, StoppedReported, CloseSession, ResolveStop, Resolved, Wake, NextSend
<1>26. CASE ControlClosed  BY <1>0, <1>26 DEF CleanupRecord, ControlClosed
<1>27. CASE HelloAck  BY <1>0, <1>27 DEF HelloAck
<1>28. ASSUME NEW ok \in BOOLEAN, SocketFd(ok) PROVE PlacesOK'
  BY <1>0, <1>28 DEF SocketFd, ResolveStop, Resolved, Wake
<1>29. CASE ControlFails  BY <1>0, <1>29 DEF ControlFails, Fail, ResolveStop, Resolved, Wake
<1>30. CASE HandshakeTimesOut
  BY <1>0, <1>30 DEF HandshakeTimesOut, Fail, ResolveStop, Resolved, Wake
<1>31. CASE StopRequest  BY <1>0, <1>31 DEF StopRequest
<1>32. CASE StopAckArrives  BY <1>0, <1>32 DEF StopAckArrives
<1>33. ASSUME NEW ok \in BOOLEAN, StopAckSent(ok) PROVE PlacesOK'
  BY <1>0, <1>33 DEF StopAckSent, ResolveStop, Resolved, Wake
<1>34. CASE PumpFails  BY <1>0, <1>34 DEF PumpFails
<1>35. CASE PumpPolled  BY <1>0, <1>35 DEF PumpPolled, Wake
<1>36. CASE UIStop  BY <1>0, <1>36 DEF UIStop, Wake
<1>37. CASE OnDestroy
  <2>1. FALSE \in BOOLEAN  OBVIOUS
  <2>2. BeginCleanup(FALSE)  BY <1>37, Zenon DEF OnDestroy
  <2>3. cleanup' \in CleanupRecord  BY <1>0, <2>1, <2>2, CleanupType
  <2>4. QED  BY <1>0, <1>37, <2>3 DEF OnDestroy, Wake, BeginCleanup, StopPacketPump
<1>38. CASE MacStops  BY <1>0, <1>38 DEF MacStops
<1>39. CASE MacCloses  BY <1>0, <1>39 DEF MacCloses
<1>40. CASE MacRestarts  BY <1>0, <1>40 DEF MacRestarts
<1>41. CASE UNCHANGED vars  BY <1>0, <1>41
<1>42. QED
  BY <1>1, <1>2, <1>3, <1>4, <1>5, <1>6, <1>7, <1>8, <1>9, <1>10, <1>11, <1>12, <1>13, <1>14,
     <1>15, <1>16, <1>17, <1>18, <1>19, <1>20, <1>21, <1>22, <1>23, <1>24, <1>25, <1>26,
     <1>27, <1>28, <1>29, <1>30, <1>31, <1>32, <1>33, <1>34, <1>35, <1>36, <1>37, <1>38,
     <1>39, <1>40, <1>41
     DEF Next, Loop, Cleanup, Session, World, Finished

-----------------------------------------------------------------------------
(* The inductive invariant *)

\* No step of the loop, of a clean-up, of the Control session or of the world
\* around them breaks it.
LEMMA SafeStep == Inv /\ [Next]_vars => Safe'
<1> SUFFICES ASSUME Inv, [Next]_vars PROVE Safe'  OBVIOUS
<1> USE DEF Inv, TypeOK, FlagsOK, PlacesOK, CleanupRecord, Safe, FieldsInv, DestroyInv,
            ReleaseInv, OutcomeInv, PumpUse,
            RebuildsFromNothing, PumpHasBothEnds, Owned, Released, BeforeCreate, AfterCreate,
            Alive, Attempt, Running, Waiting, Losses, Reasons, Complete, CanReport, Ready,
            vars, loopVars, fieldVars, uiVars, sessionVars, nativeVars, vpnVars, macVars
<1>1. ASSUME NEW valid \in BOOLEAN, OnCreate(valid) PROVE Safe'  BY <1>1 DEF OnCreate, NewAttempt
<1>2. ASSUME NEW ok \in BOOLEAN, Dialled(ok) PROVE Safe'
  BY <1>2 DEF Dialled, GiveUpConnect, Resolved
<1>3. CASE HandshakeSettled  BY <1>3 DEF HandshakeSettled, GiveUpConnect, Resolved
<1>4. CASE Undialled  BY <1>4 DEF Undialled, Proceed, SendFails
<1>5. CASE StartingReported  BY <1>5 DEF StartingReported, Proceed, SendFails
<1>6. CASE Protected  BY <1>6 DEF Protected, Proceed, SendFails
<1>7. CASE ActiveReported  BY <1>7 DEF ActiveReported, Proceed, SendFails
<1>8. CASE LossReported  BY <1>8 DEF LossReported, Proceed, SendFails
<1>9. CASE StoppedPublished  BY <1>9 DEF StoppedPublished, Proceed, SendFails
<1>10. ASSUME NEW ok \in BOOLEAN, ConnectData(ok) PROVE Safe'  BY <1>10 DEF ConnectData
<1>11. ASSUME NEW ok \in BOOLEAN, Created(ok) PROVE Safe'  BY <1>11 DEF Created
<1>12. CASE EnterRace  BY <1>12 DEF EnterRace
<1>13. CASE Raced  BY <1>13 DEF Raced
<1>14. CASE Caught  BY <1>14 DEF Caught
<1>15. CASE Teardown  BY <1>15 DEF Teardown, CleanupPhase3, BeginCleanup, StopPacketPump
<1>16. CASE TornDown  BY <1>16 DEF TornDown
<1>17. CASE RetryElapsed  BY <1>17 DEF RetryElapsed, NewAttempt
<1>18. CASE RetryStopped  BY <1>18 DEF RetryStopped
<1>19. CASE Finally
  BY <1>19 DEF Finally, CleanupPhase3, BeginCleanup, StopPacketPump, ReportStopped
<1>20. CASE CleanedUp  BY <1>20 DEF CleanedUp, ReportStopped
<1>21. CASE StopOwnExtension  BY <1>21 DEF StopOwnExtension
<1>22. ASSUME NEW inTime \in BOOLEAN, Destroyed(inTime) PROVE Safe'  BY <1>22 DEF Destroyed
<1>23. CASE DestroyedLate  BY <1>23 DEF DestroyedLate
<1>24. CASE CleanupControl
  BY <1>24 DEF CleanupControl, CloseSession, ResolveStop, Resolved, Wake
<1>25. CASE StoppedReported
  BY <1>25 DEF StoppedReported, CloseSession, ResolveStop, Resolved, Wake
<1>26. CASE ControlClosed  BY <1>26 DEF ControlClosed
<1>27. CASE HelloAck  BY <1>27 DEF HelloAck
<1>28. ASSUME NEW ok \in BOOLEAN, SocketFd(ok) PROVE Safe'
  BY <1>28 DEF SocketFd, ResolveStop, Resolved, Wake
<1>29. CASE ControlFails  BY <1>29 DEF ControlFails, Fail, ResolveStop, Resolved, Wake
<1>30. CASE HandshakeTimesOut  BY <1>30 DEF HandshakeTimesOut, Fail, ResolveStop, Resolved, Wake
<1>31. CASE StopRequest  BY <1>31 DEF StopRequest
<1>32. CASE StopAckArrives  BY <1>32 DEF StopAckArrives
<1>33. ASSUME NEW ok \in BOOLEAN, StopAckSent(ok) PROVE Safe'
  BY <1>33 DEF StopAckSent, ResolveStop, Resolved, Wake
<1>34. CASE PumpFails  BY <1>34 DEF PumpFails
<1>35. CASE PumpPolled  BY <1>35 DEF PumpPolled, Wake
<1>36. CASE UIStop  BY <1>36 DEF UIStop, Wake
<1>37. CASE OnDestroy  BY <1>37 DEF OnDestroy, Wake, BeginCleanup, StopPacketPump
<1>38. CASE MacStops  BY <1>38 DEF MacStops
<1>39. CASE MacCloses  BY <1>39 DEF MacCloses
<1>40. CASE MacRestarts  BY <1>40 DEF MacRestarts
<1>41. CASE UNCHANGED vars  BY <1>41
<1>42. QED
  BY <1>1, <1>2, <1>3, <1>4, <1>5, <1>6, <1>7, <1>8, <1>9, <1>10, <1>11, <1>12, <1>13, <1>14,
     <1>15, <1>16, <1>17, <1>18, <1>19, <1>20, <1>21, <1>22, <1>23, <1>24, <1>25, <1>26,
     <1>27, <1>28, <1>29, <1>30, <1>31, <1>32, <1>33, <1>34, <1>35, <1>36, <1>37, <1>38,
     <1>39, <1>40, <1>41
     DEF Next, Loop, Cleanup, Session, World, Finished

\* The extension starts with nothing.
LEMMA InvInit == Init => Inv
<1> SUFFICES ASSUME Init PROVE Inv  OBVIOUS
<1>1. FlagsOK  BY Zenon DEF Init, FlagsOK
<1>2. PlacesOK  BY DEF Init, PlacesOK, CleanupRecord, NoCleanup, Running, Waiting, Losses, Reasons
<1>3. Safe
  BY DEF Init, NoCleanup, Safe, FieldsInv, DestroyInv, ReleaseInv, OutcomeInv,
         PumpUse, RebuildsFromNothing, PumpHasBothEnds, Owned, Released, BeforeCreate, AfterCreate,
         Alive, Attempt
<1>4. QED  BY <1>1, <1>2, <1>3 DEF Inv, TypeOK

\* It holds at all times.
LEMMA InvHolds == Spec => []Inv
<1>1. Inv /\ [Next]_vars => Inv'
  <2>1. Inv => TypeOK /\ FlagsOK /\ (run = "raced" => outcome # "none")
    BY DEF Inv, TypeOK, Safe, OutcomeInv
  <2>2. QED  BY <2>1, FlagsStep, PlacesStep, SafeStep DEF Inv, TypeOK
<1>2. QED  BY InvInit, <1>1, PTL DEF Spec

-----------------------------------------------------------------------------
(* Refinement *)

\* What the native module's promise allows of a step.
PumpStep ==
    \/ ~data /\ pump = "off" /\ data' = TRUE /\ UNCHANGED pump
    \/ data /\ pump = "off" /\ pump' = "running" /\ UNCHANGED data
    \/ pump = "running" /\ pump' = "failed" /\ UNCHANGED data
    \/ data' = FALSE /\ pump' = "off"
    \/ UNCHANGED <<data, pump>>

\* Every step that touches the native module is one of its promise.
LEMMA FacadeStep == Inv /\ [Next]_vars => [Facade!Next]_(Facade!vars)
<1> SUFFICES ASSUME Inv, [Next]_vars PROVE PumpStep
  BY Zenon DEF PumpStep, Facade!Next, Facade!Connect, Facade!Start, Facade!Fail,
               Facade!Stop, Facade!vars
<1> USE DEF PumpStep, vars, nativeVars
<1>1. ASSUME NEW ok \in BOOLEAN, ConnectData(ok) PROVE PumpStep
  <2>1. pump = "off" /\ ~data  BY <1>1 DEF ConnectData, Inv, Safe, PumpUse
  <2>2. CASE ok  BY <1>1, <2>1, <2>2, Zenon DEF ConnectData
  <2>3. CASE ~ok  BY <1>1, <2>3, Zenon DEF ConnectData
  <2>4. QED  BY <2>2, <2>3
<1>2. ASSUME NEW ok \in BOOLEAN, Created(ok) PROVE PumpStep
  <2>1. pump = "off"  BY <1>2 DEF Created, Inv, Safe, PumpUse
  <2>2. CASE ok /\ data  BY <1>2, <2>1, <2>2, Zenon DEF Created
  <2>3. CASE ~(ok /\ data)  BY <1>2, <2>3, Zenon DEF Created
  <2>4. QED  BY <2>2, <2>3
<1>3. CASE Teardown  BY <1>3, Zenon DEF Teardown, CleanupPhase3, StopPacketPump
<1>4. CASE Finally  BY <1>4, Zenon DEF Finally, CleanupPhase3, StopPacketPump
<1>5. CASE OnDestroy  BY <1>5, Zenon DEF OnDestroy, StopPacketPump
<1>6. CASE PumpFails  BY <1>6, Zenon DEF PumpFails
<1>7. CASE UNCHANGED <<data, pump>>  BY <1>7, Zenon
<1>8. CASE Loop
  <2>1. Loop => \/ \E ok \in BOOLEAN : ConnectData(ok) \/ Created(ok)
                \/ Teardown \/ Finally \/ UNCHANGED <<data, pump>>
    BY Zenon DEF Loop, OnCreate, Dialled, HandshakeSettled, Undialled, StartingReported,
           Protected, ActiveReported, LossReported, StoppedPublished, Proceed, EnterRace, Raced,
           Caught, TornDown, RetryElapsed, RetryStopped, CleanedUp, StopOwnExtension
  <2>2. QED  BY <1>1, <1>2, <1>3, <1>4, <1>7, <1>8, <2>1, Zenon
<1>9. CASE Cleanup
  BY <1>9, Zenon DEF Cleanup, Destroyed, CleanupControl, StoppedReported, ControlClosed
<1>10. CASE Session
  BY <1>10, Zenon DEF Session, HelloAck, ControlFails, HandshakeTimesOut, StopRequest,
                      StopAckArrives, SocketFd, StopAckSent
<1>11. CASE World
  BY <1>5, <1>6, <1>11, Zenon DEF World, DestroyedLate, PumpPolled, UIStop, MacStops, MacCloses,
                                  MacRestarts
<1>12. QED
  BY <1>7, <1>8, <1>9, <1>10, <1>11, Zenon DEF Next, Finished

-----------------------------------------------------------------------------
(* Theorems *)

\* Every variable keeps its type whatever fails; a lost connection never becomes
\* the reason for which runPhase3 ends.
THEOREM TypeCorrect == Spec => []TypeOK
<1>1. Inv => TypeOK  BY DEF Inv
<1>2. QED  BY InvHolds, <1>1, PTL

\* Until onDestroy, no await of the set-up loses sight of the VPN it created.
THEOREM TunnelOwnedHolds == Spec => []TunnelOwned
<1>1. ASSUME Inv PROVE TunnelOwned
  <2> SUFFICES ASSUME tunnel, ~destroyRequested
               PROVE  (conn /\ created) \/ cleanup.at = "destroy"
    BY DEF TunnelOwned
  <2> USE <1>1 DEF Inv, TypeOK, PlacesOK, CleanupRecord, Safe, FieldsInv, ReleaseInv,
                   RebuildsFromNothing,
                   Owned, Released, Attempt, BeforeCreate, Running, Waiting
  <2>1. CASE run \in Attempt \cup {"finally"}  BY <2>1
  <2>2. CASE run \notin Attempt \cup {"finally"}  BY <2>2
  <2>3. QED  BY <2>1, <2>2
<1>2. QED  BY InvHolds, <1>1, PTL

\* An attempt begins with nothing of the lost one left: performPhase3Cleanup has
\* run to its end whoever started it.
THEOREM RebuildsFromNothingHolds == Spec => []RebuildsFromNothing
<1>1. Inv => RebuildsFromNothing  BY DEF Inv, Safe
<1>2. QED  BY InvHolds, <1>1, PTL

\* The pump never runs without its VPN and its data socket.
THEOREM PumpHasBothEndsHolds == Spec => []PumpHasBothEnds
<1>1. Inv => PumpHasBothEnds  BY DEF Inv, Safe, DestroyInv
<1>2. QED  BY InvHolds, <1>1, PTL

\* A loop that ends by itself has released everything and published its end.
THEOREM EndsReleasedHolds == Spec => []EndsReleased
<1>1. ASSUME Inv PROVE EndsReleased
  BY <1>1 DEF Inv, TypeOK, PlacesOK, CleanupRecord, Safe, FieldsInv, OutcomeInv, Released,
              EndsReleased,
              Attempt, BeforeCreate
<1>2. QED  BY InvHolds, <1>1, PTL

\* The extension stays within what the native module promises: with
\* FacadeImplemented of PacketPumpProofs, both sides keep to one contract.
THEOREM PumpUsed == Spec => UsesPump
<1>1. Init => Facade!Init  BY DEF Init, Facade!Init
<1>2. QED  BY InvHolds, <1>1, FacadeStep, PTL DEF Spec, UsesPump, Facade!Spec
=============================================================================
