------------------------ MODULE DaemonLifecycleProofs ------------------------
(***************************************************************************)
(* Theorems about DaemonLifecycle, for any number of daemons that are      *)
(* started whenever somebody likes, overlap, and die wherever they are.    *)
(***************************************************************************)
EXTENDS DaemonLifecycle, TLAPS

Places == {"off", "serving"} \cup Startup \cup Shutdown \cup Dead
Bound == {"persisting", "recovering", "proxying", "recordingProxy", "reclaiming", "adding",
          "recording", "serving", "joining", "closing"}
Recorded == (Bound \ {"persisting"}) \cup {"closingProxy", "unmapping", "unlinkingFiles"}
ProxyUp == {"recordingProxy", "reclaiming", "adding", "recording", "serving", "joining",
            "closing", "closingProxy"}

\* A listener is open while its daemon is bound, and the path leads to no daemon that
\* is not, unless it was killed.
SocketOf(p) ==
    /\ pc[p] \in Bound <=> p \in listening
    /\ socket = p => pc[p] \in Bound \cup {"crashed"}

\* A mitmweb runs while its daemon lives, from StartProxy to CloseProxy.
ProxyOf(p) ==
    p \in proxies => /\ pc[p] \in ProxyUp \cup {"crashed"}
                     /\ pc[p] \in ProxyUp \ {"recordingProxy"} => store[p].proxy = p

\* A mapping is its daemon's own and is not restored once the monitor has ended; one that
\* the daemon does not know of, or could not remove, goes with a failure.
MappingOf(p) ==
    /\ p \in added => pc[p] \in {"recording", "serving"} \cup Shutdown
    /\ pc[p] \in {"recording", "serving"} => p \in added
    /\ p \in added /\ pc[p] # "recording" => store[p].port = p
    /\ monitor[p] # "off" => p \in added /\ pc[p] \in {"serving", "joining"}
    /\ p \in mappings => pc[p] \in {"recording", "serving"} \cup Shutdown \cup Dead
    /\ p \in mappings /\ pc[p] \in Shutdown /\ p \notin added =>
           store[p].daemon = "FAILED" \/ p \in stopped
    /\ p \in mappings /\ pc[p] \in {"unlinkingFiles", "returning", "exited"} =>
           store[p].daemon = "FAILED" \/ p \in stopped

\* A stop request is applied before its daemon ends.
AskedOf(p) == p \in asked => pc[p] \in {"serving"} \cup Shutdown

Own(p) == SocketOf(p) /\ ProxyOf(p) /\ MappingOf(p) /\ AskedOf(p)

\* While the daemon that bound the path undisturbed lives, the others are dead or have
\* not come past Listen, and the path is its own until it closes it.
HolderOf(p) ==
    holder = p =>
        /\ pc[p] \in Bound \cup Shutdown \cup Dead
        /\ Alive(p) => /\ \A q \in Instances \ {p} : Harmless(q)
                       /\ socket = IF pc[p] \in Bound THEN p ELSE None

Inv == TypeOK /\ \A p \in Instances : Own(p) /\ HolderOf(p)

\* The file is what the daemon that holds the path has published last.
FileOf(p) == holder = p /\ pc[p] \in Recorded => file = store[p]

FileInv == \A p \in Instances : FileOf(p)

\* A snapshot, live or on record, names a process only after that has published it.
HasPort == {"serving"} \cup Shutdown \cup Dead
HasProxy == {"reclaiming", "adding", "recording"} \cup HasPort
Known(s) ==
    \A r \in Instances : (s.port = r => pc[r] \in HasPort) /\ (s.proxy = r => pc[r] \in HasProxy)
KnownInv == Known(file) /\ \A p \in Instances : Known(store[p]) /\ Known(prior[p])

\* What a daemon found on record is gone once it has looked at it, unless a signal ends
\* its start.
PriorOf(p) ==
    /\ prior[p].port # p /\ prior[p].proxy # p
    /\ holder = p =>
        /\ pc[p] \in {"proxying", "recordingProxy", "reclaiming", "adding", "recording", "serving"}
               => prior[p].proxy \notin proxies
        /\ pc[p] \in {"recording", "serving"} \/ (pc[p] = "adding" /\ p \notin signalled)
               => prior[p].port \notin mappings

RecordInv == KnownInv /\ \A p \in Instances : PriorOf(p)

-----------------------------------------------------------------------------
(* Types *)

\* What Run, fail and shutdown make of a snapshot is one.
LEMMA SnapshotType ==
    ASSUME NEW s \in Snapshot
    PROVE  /\ Failed(s) \in Snapshot /\ Stopping(s) \in Snapshot
           /\ \A d \in Daemon : [s EXCEPT !.daemon = d] \in Snapshot
           /\ \A o \in Owner : [s EXCEPT !.proxy = o] \in Snapshot
           /\ \A o \in Owner : [s EXCEPT !.daemon = "RUNNING", !.port = o] \in Snapshot
  BY DEF Snapshot, Daemon, Failed, Stopping

\* A daemon that moves is at one of its places.
LEMMA GotoType ==
    ASSUME TypeOK, NEW p \in Instances, NEW from, NEW to \in Places, Goto(p, from, to)
    PROVE  pc' \in [Instances -> Places]
  BY DEF TypeOK, Goto, Places

\* update keeps store and file snapshots.
LEMMA UpdateType ==
    ASSUME TypeOK, NEW p \in Instances, NEW s \in Snapshot, Update(p, s)
    PROVE  file' \in Snapshot \cup {NoFile} /\ store' \in [Instances -> Snapshot]
  BY DEF TypeOK, Update

\* Every step preserves the types.
LEMMA TypeStep == TypeOK /\ [Next]_vars => TypeOK'
<1> SUFFICES ASSUME TypeOK, [Next]_vars PROVE TypeOK'  OBVIOUS
<1> USE DEF vars, control, orders
<1>1. ASSUME NEW p \in Instances, Process(p) PROVE TypeOK'
  <2>0. /\ store[p] \in Snapshot /\ prior[p] \in Snapshot \cup {NoFile} /\ p \in Owner /\ None \in Owner
        /\ prior[p].proxy \in Owner /\ Starting \in Snapshot
    BY DEF TypeOK, Owner, Snapshot, NoFile, Starting, Daemon
  <2>1. ASSUME NEW proxy \in BOOLEAN, Start(p, proxy) PROVE TypeOK'
    BY <2>1, <2>0, GotoType DEF Start, TypeOK, Places, Startup, Shutdown, Dead
  <2>2. CASE ProbeSocket(p)
    BY <2>2, <2>0, GotoType DEF ProbeSocket, TypeOK, Places, Startup, Shutdown, Dead
  <2>3. CASE UnlinkStale(p)
    BY <2>3, <2>0, GotoType DEF UnlinkStale, TypeOK, Places, Startup, Shutdown, Dead, Owner
  <2>4. CASE Listen(p)
    BY <2>4, <2>0, GotoType DEF Listen, TypeOK, Places, Startup, Shutdown, Dead, Owner
  <2>5. CASE Persist(p)
    BY <2>5, <2>0, GotoType DEF Persist, TypeOK, Places, Startup, Shutdown, Dead, Owner
  <2>6. CASE RecoverProxy(p)
    BY <2>6, <2>0, GotoType, UpdateType, SnapshotType DEF RecoverProxy, TypeOK, Places, Startup, Shutdown, Dead, Daemon
  <2>7. CASE StartProxy(p)
    BY <2>7, <2>0, GotoType, UpdateType, SnapshotType DEF StartProxy, TypeOK, Places, Startup, Shutdown, Dead, Daemon
  <2>8. CASE RecordProxy(p)
    BY <2>8, <2>0, GotoType, UpdateType, SnapshotType DEF RecordProxy, TypeOK, Places, Startup, Shutdown, Dead, Daemon
  <2>9. CASE ReclaimMapping(p)
    BY <2>9, <2>0, GotoType DEF ReclaimMapping, TypeOK, Places, Startup, Shutdown, Dead
  <2>10. CASE AddMapping(p)
    BY <2>10, <2>0, GotoType, UpdateType, SnapshotType DEF AddMapping, TypeOK, Places, Startup, Shutdown, Dead, Daemon
  <2>11. CASE PublishRunning(p)
    BY <2>11, <2>0, GotoType, UpdateType, SnapshotType DEF PublishRunning, TypeOK, Places, Startup, Shutdown, Dead, Daemon
  <2>12. CASE Republish(p)
    BY <2>12, <2>0 DEF Republish, TypeOK
  <2>13. CASE Signal(p)
    BY <2>13, <2>0 DEF Signal, TypeOK
  <2>14. CASE AcceptStop(p)
    BY <2>14, <2>0 DEF AcceptStop, TypeOK
  <2>15. CASE ApplyStop(p)
    BY <2>15, <2>0, UpdateType, SnapshotType DEF ApplyStop, TypeOK, Daemon
  <2>16. CASE EndServing(p)
    BY <2>16, <2>0, GotoType, UpdateType, SnapshotType DEF EndServing, TypeOK, Places, Startup, Shutdown, Dead, Daemon
  <2>17. CASE MonitorMisses(p)
    BY <2>17, <2>0 DEF MonitorMisses, TypeOK
  <2>18. CASE MonitorRestores(p)
    BY <2>18, <2>0 DEF MonitorRestores, TypeOK
  <2>19. CASE MonitorEnds(p)
    BY <2>19, <2>0 DEF MonitorEnds, TypeOK
  <2>20. CASE JoinMonitor(p)
    BY <2>20, <2>0, GotoType, UpdateType, SnapshotType DEF JoinMonitor, TypeOK, Places, Startup, Shutdown, Dead, Daemon
  <2>21. CASE CloseListeners(p)
    BY <2>21, <2>0, GotoType DEF CloseListeners, TypeOK, Places, Startup, Shutdown, Dead, Owner
  <2>22. CASE CloseProxy(p)
    BY <2>22, <2>0, GotoType, UpdateType, SnapshotType DEF CloseProxy, TypeOK, Places, Startup, Shutdown, Dead, Daemon
  <2>23. CASE RemoveMapping(p)
    BY <2>23, <2>0, GotoType, UpdateType, SnapshotType DEF RemoveMapping, TypeOK, Places, Startup, Shutdown, Dead, Daemon
  <2>24. CASE UnlinkFiles(p)
    BY <2>24, <2>0, GotoType DEF UnlinkFiles, TypeOK, Places, Startup, Shutdown, Dead, Owner
  <2>25. CASE Exit(p)
    BY <2>25, <2>0, GotoType DEF Exit, TypeOK, Places, Startup, Shutdown, Dead
  <2>26. CASE Crash(p)
    BY <2>26, <2>0 DEF Crash, TypeOK, Places, Startup, Shutdown, Dead
  <2>27. CASE ProxyExits(p)
    BY <2>27, <2>0 DEF ProxyExits, TypeOK
  <2>q. QED
    BY <1>1, <2>1, <2>2, <2>3, <2>4, <2>5, <2>6, <2>7, <2>8, <2>9, <2>10, <2>11, <2>12, <2>13, <2>14, <2>15, <2>16, <2>17, <2>18, <2>19, <2>20, <2>21, <2>22, <2>23, <2>24, <2>25, <2>26, <2>27 DEF Process, Starts, Stops, Monitors
<1>2. CASE Unplug  BY <1>2 DEF Unplug, TypeOK
<1>3. CASE UNCHANGED vars  BY <1>3 DEF TypeOK
<1>4. QED  BY <1>1, <1>2, <1>3 DEF Next, Done

\* The types hold at first.
LEMMA InitType == Init => TypeOK
  BY DEF Init, TypeOK, Snapshot, NoFile, Starting, Daemon, Owner

-----------------------------------------------------------------------------
(* Each daemon's own *)

\* The fields of daemon q stay, and it gets no mapping, no mitmweb and no socket.
Same(q) ==
    /\ pc'[q] = pc[q] /\ store'[q] = store[q] /\ prior'[q] = prior[q] /\ monitor'[q] = monitor[q]
    /\ q \in added' <=> q \in added
    /\ q \in listening' <=> q \in listening
    /\ q \in asked' <=> q \in asked
    /\ q \in stopped' <=> q \in stopped
    /\ q \in signalled' <=> q \in signalled
    /\ q \in mappings' => q \in mappings
    /\ q \in proxies' => q \in proxies
    /\ socket' = q => socket = q
    /\ holder' = q => holder = q

\* A step of p leaves the fields of the others alone.
LEMMA Local ==
    ASSUME TypeOK, NEW p \in Instances, Process(p), NEW q \in Instances, q # p
    PROVE  Same(q)
<1> USE InstancesAssumption DEF TypeOK, control, orders, Same
<1>1. ASSUME NEW proxy \in BOOLEAN, Start(p, proxy) PROVE Same(q)
  BY <1>1 DEF Start, Goto
<1>2. CASE ProbeSocket(p)
  BY <1>2 DEF ProbeSocket, Goto
<1>3. CASE UnlinkStale(p)
  BY <1>3 DEF UnlinkStale, Goto
<1>4. CASE Listen(p)
  BY <1>4 DEF Listen, Goto
<1>5. CASE Persist(p)
  BY <1>5 DEF Persist, Goto
<1>6. CASE RecoverProxy(p)
  BY <1>6 DEF RecoverProxy, Goto, Update
<1>7. CASE StartProxy(p)
  BY <1>7 DEF StartProxy, Goto, Update
<1>8. CASE RecordProxy(p)
  BY <1>8 DEF RecordProxy, Goto, Update
<1>9. CASE ReclaimMapping(p)
  BY <1>9 DEF ReclaimMapping, Goto
<1>10. CASE AddMapping(p)
  BY <1>10 DEF AddMapping, Goto, Update
<1>11. CASE PublishRunning(p)
  BY <1>11 DEF PublishRunning, Goto, Update
<1>12. CASE Republish(p)
  BY <1>12 DEF Republish
<1>13. CASE Signal(p)
  BY <1>13 DEF Signal
<1>14. CASE AcceptStop(p)
  BY <1>14 DEF AcceptStop
<1>15. CASE ApplyStop(p)
  BY <1>15 DEF ApplyStop, Update
<1>16. CASE EndServing(p)
  BY <1>16 DEF EndServing, Goto, Update
<1>17. CASE MonitorMisses(p)
  BY <1>17 DEF MonitorMisses
<1>18. CASE MonitorRestores(p)
  BY <1>18 DEF MonitorRestores
<1>19. CASE MonitorEnds(p)
  BY <1>19 DEF MonitorEnds
<1>20. CASE JoinMonitor(p)
  BY <1>20 DEF JoinMonitor, Goto, Update
<1>21. CASE CloseListeners(p)
  BY <1>21 DEF CloseListeners, Goto
<1>22. CASE CloseProxy(p)
  BY <1>22 DEF CloseProxy, Goto, Update
<1>23. CASE RemoveMapping(p)
  BY <1>23 DEF RemoveMapping, Goto, Update
<1>24. CASE UnlinkFiles(p)
  BY <1>24 DEF UnlinkFiles, Goto
<1>25. CASE Exit(p)
  BY <1>25 DEF Exit, Goto
<1>26. CASE Crash(p)
  BY <1>26 DEF Crash
<1>27. CASE ProxyExits(p)
  BY <1>27 DEF ProxyExits
<1>q. QED
  BY <1>1, <1>2, <1>3, <1>4, <1>5, <1>6, <1>7, <1>8, <1>9, <1>10, <1>11, <1>12, <1>13, <1>14, <1>15, <1>16, <1>17, <1>18, <1>19, <1>20, <1>21, <1>22, <1>23, <1>24, <1>25, <1>26, <1>27 DEF Process, Starts, Stops, Monitors

\* The daemon that acts, its listener and its path.
LEMMA SocketOwn ==
    ASSUME TypeOK, NEW p \in Instances, Own(p), Process(p) PROVE SocketOf(p)'
<1>0. /\ pc \in [Instances -> Places] /\ store \in [Instances -> Snapshot] /\ store[p] \in Snapshot
      /\ monitor \in [Instances -> {"off", "watching", "restoring"}] /\ None \notin Instances
  BY InstancesAssumption DEF TypeOK, Places
<1> USE <1>0, Own(p) DEF Own, SocketOf, Bound, control, orders
<1>1. ASSUME NEW proxy \in BOOLEAN, Start(p, proxy) PROVE SocketOf(p)'
  BY <1>1 DEF Start, Goto
<1>2. CASE ProbeSocket(p)
  BY <1>2 DEF ProbeSocket, Goto
<1>3. CASE UnlinkStale(p)
  BY <1>3 DEF UnlinkStale, Goto
<1>4. CASE Listen(p)
  BY <1>4 DEF Listen, Goto
<1>5. CASE Persist(p)
  BY <1>5 DEF Persist, Goto
<1>6. CASE RecoverProxy(p)
  BY <1>6 DEF RecoverProxy, Goto, Update
<1>7. CASE StartProxy(p)
  BY <1>7 DEF StartProxy, Goto, Update
<1>8. CASE RecordProxy(p)
  BY <1>8 DEF RecordProxy, Goto, Update
<1>9. CASE ReclaimMapping(p)
  BY <1>9 DEF ReclaimMapping, Goto
<1>10. CASE AddMapping(p)
  BY <1>10 DEF AddMapping, Goto, Update
<1>11. CASE PublishRunning(p)
  BY <1>11 DEF PublishRunning, Goto, Update
<1>12. CASE Republish(p)
  BY <1>12 DEF Republish
<1>13. CASE Signal(p)
  BY <1>13 DEF Signal
<1>14. CASE AcceptStop(p)
  BY <1>14 DEF AcceptStop
<1>15. CASE ApplyStop(p)
  BY <1>15 DEF ApplyStop, Update
<1>16. CASE EndServing(p)
  BY <1>16 DEF EndServing, Goto, Update
<1>17. CASE MonitorMisses(p)
  BY <1>17 DEF MonitorMisses
<1>18. CASE MonitorRestores(p)
  BY <1>18 DEF MonitorRestores
<1>19. CASE MonitorEnds(p)
  BY <1>19 DEF MonitorEnds
<1>20. CASE JoinMonitor(p)
  BY <1>20 DEF JoinMonitor, Goto, Update
<1>21. CASE CloseListeners(p)
  BY <1>21 DEF CloseListeners, Goto
<1>22. CASE CloseProxy(p)
  BY <1>22 DEF CloseProxy, Goto, Update
<1>23. CASE RemoveMapping(p)
  BY <1>23 DEF RemoveMapping, Goto, Update
<1>24. CASE UnlinkFiles(p)
  BY <1>24 DEF UnlinkFiles, Goto
<1>25. CASE Exit(p)
  BY <1>25 DEF Exit, Goto
<1>26. CASE Crash(p)
  BY <1>26 DEF Crash
<1>27. CASE ProxyExits(p)
  BY <1>27 DEF ProxyExits
<1>q. QED
  BY <1>1, <1>2, <1>3, <1>4, <1>5, <1>6, <1>7, <1>8, <1>9, <1>10, <1>11, <1>12, <1>13, <1>14, <1>15, <1>16, <1>17, <1>18, <1>19, <1>20, <1>21, <1>22, <1>23, <1>24, <1>25, <1>26, <1>27 DEF Process, Starts, Stops, Monitors

\* The steps of a daemon start, record and end its own mitmweb only.
LEMMA ProxyOwn ==
    ASSUME TypeOK, NEW p \in Instances, Own(p), Process(p) PROVE ProxyOf(p)'
<1>0. /\ pc \in [Instances -> Places] /\ store \in [Instances -> Snapshot] /\ store[p] \in Snapshot
      /\ monitor \in [Instances -> {"off", "watching", "restoring"}] /\ None \notin Instances
  BY InstancesAssumption DEF TypeOK, Places
<1> USE <1>0, Own(p) DEF Own, ProxyOf, MappingOf, ProxyUp, Shutdown, Dead, control, orders
<1>1. ASSUME NEW proxy \in BOOLEAN, Start(p, proxy) PROVE ProxyOf(p)'
  BY <1>1 DEF Start, Goto
<1>2. CASE ProbeSocket(p)
  BY <1>2 DEF ProbeSocket, Goto
<1>3. CASE UnlinkStale(p)
  BY <1>3 DEF UnlinkStale, Goto
<1>4. CASE Listen(p)
  BY <1>4 DEF Listen, Goto
<1>5. CASE Persist(p)
  BY <1>5 DEF Persist, Goto, Starting
<1>6. CASE RecoverProxy(p)
  BY <1>6 DEF RecoverProxy, Goto, Update, Snapshot, Failed
<1>7. CASE StartProxy(p)
  BY <1>7 DEF StartProxy, Goto, Update, Snapshot, Failed
<1>8. CASE RecordProxy(p)
  BY <1>8 DEF RecordProxy, Goto, Update, Snapshot
<1>9. CASE ReclaimMapping(p)
  BY <1>9 DEF ReclaimMapping, Goto
<1>10. CASE AddMapping(p)
  BY <1>10 DEF AddMapping, Goto, Update, Snapshot, Failed
<1>11. CASE PublishRunning(p)
  BY <1>11 DEF PublishRunning, Goto, Update, Snapshot
<1>12. CASE Republish(p)
  BY <1>12 DEF Republish
<1>13. CASE Signal(p)
  BY <1>13 DEF Signal
<1>14. CASE AcceptStop(p)
  BY <1>14 DEF AcceptStop
<1>15. CASE ApplyStop(p)
  BY <1>15 DEF ApplyStop, Update, Snapshot
<1>16. CASE EndServing(p)
  BY <1>16 DEF EndServing, Goto, Update, Snapshot, Failed
<1>17. CASE MonitorMisses(p)
  BY <1>17 DEF MonitorMisses
<1>18. CASE MonitorRestores(p)
  BY <1>18 DEF MonitorRestores
<1>19. CASE MonitorEnds(p)
  BY <1>19 DEF MonitorEnds
<1>20. CASE JoinMonitor(p)
  BY <1>20 DEF JoinMonitor, Goto, Update, Snapshot, Stopping
<1>21. CASE CloseListeners(p)
  BY <1>21 DEF CloseListeners, Goto
<1>22. CASE CloseProxy(p)
  BY <1>22 DEF CloseProxy, Goto, Update, Snapshot, Failed
<1>23. CASE RemoveMapping(p)
  BY <1>23 DEF RemoveMapping, Goto, Update, Snapshot, Failed
<1>24. CASE UnlinkFiles(p)
  BY <1>24 DEF UnlinkFiles, Goto
<1>25. CASE Exit(p)
  BY <1>25 DEF Exit, Goto
<1>26. CASE Crash(p)
  BY <1>26 DEF Crash, Starting
<1>27. CASE ProxyExits(p)
  BY <1>27 DEF ProxyExits
<1>q. QED
  BY <1>1, <1>2, <1>3, <1>4, <1>5, <1>6, <1>7, <1>8, <1>9, <1>10, <1>11, <1>12, <1>13, <1>14, <1>15, <1>16, <1>17, <1>18, <1>19, <1>20, <1>21, <1>22, <1>23, <1>24, <1>25, <1>26, <1>27 DEF Process, Starts, Stops, Monitors

\* The steps of a daemon and of its monitor add and remove its own mapping only.
LEMMA MappingOwn ==
    ASSUME TypeOK, NEW p \in Instances, Own(p), Process(p) PROVE MappingOf(p)'
<1>0. /\ pc \in [Instances -> Places] /\ store \in [Instances -> Snapshot] /\ store[p] \in Snapshot
      /\ monitor \in [Instances -> {"off", "watching", "restoring"}] /\ None \notin Instances
  BY InstancesAssumption DEF TypeOK, Places
<1> USE <1>0, Own(p) DEF Own, MappingOf, AskedOf, Shutdown, Dead, control, orders
<1>1. ASSUME NEW proxy \in BOOLEAN, Start(p, proxy) PROVE MappingOf(p)'
  BY <1>1 DEF Start, Goto
<1>2. CASE ProbeSocket(p)
  BY <1>2 DEF ProbeSocket, Goto
<1>3. CASE UnlinkStale(p)
  BY <1>3 DEF UnlinkStale, Goto
<1>4. CASE Listen(p)
  BY <1>4 DEF Listen, Goto
<1>5. CASE Persist(p)
  BY <1>5 DEF Persist, Goto, Starting
<1>6. CASE RecoverProxy(p)
  BY <1>6 DEF RecoverProxy, Goto, Update, Snapshot, Failed
<1>7. CASE StartProxy(p)
  BY <1>7 DEF StartProxy, Goto, Update, Snapshot, Failed
<1>8. CASE RecordProxy(p)
  BY <1>8 DEF RecordProxy, Goto, Update, Snapshot
<1>9. CASE ReclaimMapping(p)
  BY <1>9 DEF ReclaimMapping, Goto
<1>10. CASE AddMapping(p)
  BY <1>10 DEF AddMapping, Goto, Update, Snapshot, Failed
<1>11. CASE PublishRunning(p)
  BY <1>11 DEF PublishRunning, Goto, Update, Snapshot
<1>12. CASE Republish(p)
  BY <1>12 DEF Republish
<1>13. CASE Signal(p)
  BY <1>13 DEF Signal
<1>14. CASE AcceptStop(p)
  BY <1>14 DEF AcceptStop
<1>15. CASE ApplyStop(p)
  BY <1>15 DEF ApplyStop, Update, Snapshot
<1>16. CASE EndServing(p)
  <2>1. CASE UNCHANGED <<file, store>>  BY <1>16, <2>1 DEF EndServing, Goto
  <2>2. CASE Update(p, Failed(store[p]))
    BY <1>16, <2>2 DEF EndServing, Goto, Update, Snapshot, Failed
  <2>3. CASE Update(p, Failed([store[p] EXCEPT !.proxy = None]))
    BY <1>16, <2>3 DEF EndServing, Goto, Update, Snapshot, Failed
  <2>q. QED  BY <1>16, <2>1, <2>2, <2>3 DEF EndServing
<1>17. CASE MonitorMisses(p)
  BY <1>17 DEF MonitorMisses
<1>18. CASE MonitorRestores(p)
  BY <1>18 DEF MonitorRestores
<1>19. CASE MonitorEnds(p)
  BY <1>19 DEF MonitorEnds
<1>20. CASE JoinMonitor(p)
  BY <1>20 DEF JoinMonitor, Goto, Update, Snapshot, Stopping
<1>21. CASE CloseListeners(p)
  BY <1>21 DEF CloseListeners, Goto
<1>22. CASE CloseProxy(p)
  <2>1. CASE UNCHANGED <<file, store>>  BY <1>22, <2>1 DEF CloseProxy, Goto
  <2>2. CASE Update(p, [store[p] EXCEPT !.proxy = None])
    BY <1>22, <2>2 DEF CloseProxy, Goto, Update, Snapshot, Failed
  <2>3. CASE Update(p, Failed([store[p] EXCEPT !.proxy = None]))
    BY <1>22, <2>3 DEF CloseProxy, Goto, Update, Snapshot, Failed
  <2>q. QED  BY <1>22, <2>1, <2>2, <2>3 DEF CloseProxy
<1>23. CASE RemoveMapping(p)
  BY <1>23 DEF RemoveMapping, Goto, Update, Snapshot, Failed
<1>24. CASE UnlinkFiles(p)
  BY <1>24 DEF UnlinkFiles, Goto
<1>25. CASE Exit(p)
  BY <1>25 DEF Exit, Goto
<1>26. CASE Crash(p)
  BY <1>26 DEF Crash, Starting
<1>27. CASE ProxyExits(p)
  BY <1>27 DEF ProxyExits
<1>q. QED
  BY <1>1, <1>2, <1>3, <1>4, <1>5, <1>6, <1>7, <1>8, <1>9, <1>10, <1>11, <1>12, <1>13, <1>14, <1>15, <1>16, <1>17, <1>18, <1>19, <1>20, <1>21, <1>22, <1>23, <1>24, <1>25, <1>26, <1>27 DEF Process, Starts, Stops, Monitors

\* A request is accepted while the daemon serves.
LEMMA AskedOwn ==
    ASSUME TypeOK, NEW p \in Instances, Own(p), Process(p) PROVE AskedOf(p)'
<1>0. /\ pc \in [Instances -> Places] /\ store \in [Instances -> Snapshot] /\ store[p] \in Snapshot
      /\ monitor \in [Instances -> {"off", "watching", "restoring"}] /\ None \notin Instances
  BY InstancesAssumption DEF TypeOK, Places
<1> USE <1>0, Own(p) DEF Own, AskedOf, Shutdown, control, orders
<1>1. ASSUME NEW proxy \in BOOLEAN, Start(p, proxy) PROVE AskedOf(p)'
  BY <1>1 DEF Start, Goto
<1>2. CASE ProbeSocket(p)
  BY <1>2 DEF ProbeSocket, Goto
<1>3. CASE UnlinkStale(p)
  BY <1>3 DEF UnlinkStale, Goto
<1>4. CASE Listen(p)
  BY <1>4 DEF Listen, Goto
<1>5. CASE Persist(p)
  BY <1>5 DEF Persist, Goto
<1>6. CASE RecoverProxy(p)
  BY <1>6 DEF RecoverProxy, Goto, Update
<1>7. CASE StartProxy(p)
  BY <1>7 DEF StartProxy, Goto, Update
<1>8. CASE RecordProxy(p)
  BY <1>8 DEF RecordProxy, Goto, Update
<1>9. CASE ReclaimMapping(p)
  BY <1>9 DEF ReclaimMapping, Goto
<1>10. CASE AddMapping(p)
  BY <1>10 DEF AddMapping, Goto, Update
<1>11. CASE PublishRunning(p)
  BY <1>11 DEF PublishRunning, Goto, Update
<1>12. CASE Republish(p)
  BY <1>12 DEF Republish
<1>13. CASE Signal(p)
  BY <1>13 DEF Signal
<1>14. CASE AcceptStop(p)
  BY <1>14 DEF AcceptStop
<1>15. CASE ApplyStop(p)
  BY <1>15 DEF ApplyStop, Update
<1>16. CASE EndServing(p)
  BY <1>16 DEF EndServing, Goto, Update
<1>17. CASE MonitorMisses(p)
  BY <1>17 DEF MonitorMisses
<1>18. CASE MonitorRestores(p)
  BY <1>18 DEF MonitorRestores
<1>19. CASE MonitorEnds(p)
  BY <1>19 DEF MonitorEnds
<1>20. CASE JoinMonitor(p)
  BY <1>20 DEF JoinMonitor, Goto, Update
<1>21. CASE CloseListeners(p)
  BY <1>21 DEF CloseListeners, Goto
<1>22. CASE CloseProxy(p)
  BY <1>22 DEF CloseProxy, Goto, Update
<1>23. CASE RemoveMapping(p)
  BY <1>23 DEF RemoveMapping, Goto, Update
<1>24. CASE UnlinkFiles(p)
  BY <1>24 DEF UnlinkFiles, Goto
<1>25. CASE Exit(p)
  BY <1>25 DEF Exit, Goto
<1>26. CASE Crash(p)
  BY <1>26 DEF Crash
<1>27. CASE ProxyExits(p)
  BY <1>27 DEF ProxyExits
<1>q. QED
  BY <1>1, <1>2, <1>3, <1>4, <1>5, <1>6, <1>7, <1>8, <1>9, <1>10, <1>11, <1>12, <1>13, <1>14, <1>15, <1>16, <1>17, <1>18, <1>19, <1>20, <1>21, <1>22, <1>23, <1>24, <1>25, <1>26, <1>27 DEF Process, Starts, Stops, Monitors

-----------------------------------------------------------------------------
(* The daemon that holds the path *)

\* Its own steps: Listen makes it the holder, CloseListeners gives the path up.
LEMMA HolderOwn ==
    ASSUME TypeOK, NEW p \in Instances, HolderOf(p), Process(p) PROVE HolderOf(p)'
<1>0. pc \in [Instances -> Places] /\ None \notin Instances /\ \A q \in Instances \ {p} : pc'[q] = pc[q]
  BY InstancesAssumption, Local DEF TypeOK, Places, Same
<1> USE <1>0, HolderOf(p) DEF HolderOf, Alive, Harmless, Bound, Shutdown, Dead, control, orders
<1>1. ASSUME NEW proxy \in BOOLEAN, Start(p, proxy) PROVE HolderOf(p)'
  BY <1>1 DEF Start, Goto
<1>2. CASE ProbeSocket(p)
  BY <1>2 DEF ProbeSocket, Goto
<1>3. CASE UnlinkStale(p)
  BY <1>3 DEF UnlinkStale, Goto
<1>4. CASE Listen(p)
  BY <1>4 DEF Listen, Goto
<1>5. CASE Persist(p)
  BY <1>5 DEF Persist, Goto
<1>6. CASE RecoverProxy(p)
  BY <1>6 DEF RecoverProxy, Goto, Update
<1>7. CASE StartProxy(p)
  BY <1>7 DEF StartProxy, Goto, Update
<1>8. CASE RecordProxy(p)
  BY <1>8 DEF RecordProxy, Goto, Update
<1>9. CASE ReclaimMapping(p)
  BY <1>9 DEF ReclaimMapping, Goto
<1>10. CASE AddMapping(p)
  BY <1>10 DEF AddMapping, Goto, Update
<1>11. CASE PublishRunning(p)
  BY <1>11 DEF PublishRunning, Goto, Update
<1>12. CASE Republish(p)
  BY <1>12 DEF Republish
<1>13. CASE Signal(p)
  BY <1>13 DEF Signal
<1>14. CASE AcceptStop(p)
  BY <1>14 DEF AcceptStop
<1>15. CASE ApplyStop(p)
  BY <1>15 DEF ApplyStop, Update
<1>16. CASE EndServing(p)
  BY <1>16 DEF EndServing, Goto, Update
<1>17. CASE MonitorMisses(p)
  BY <1>17 DEF MonitorMisses
<1>18. CASE MonitorRestores(p)
  BY <1>18 DEF MonitorRestores
<1>19. CASE MonitorEnds(p)
  BY <1>19 DEF MonitorEnds
<1>20. CASE JoinMonitor(p)
  BY <1>20 DEF JoinMonitor, Goto, Update
<1>21. CASE CloseListeners(p)
  BY <1>21 DEF CloseListeners, Goto
<1>22. CASE CloseProxy(p)
  BY <1>22 DEF CloseProxy, Goto, Update
<1>23. CASE RemoveMapping(p)
  BY <1>23 DEF RemoveMapping, Goto, Update
<1>24. CASE UnlinkFiles(p)
  BY <1>24 DEF UnlinkFiles, Goto
<1>25. CASE Exit(p)
  BY <1>25 DEF Exit, Goto
<1>26. CASE Crash(p)
  BY <1>26 DEF Crash
<1>27. CASE ProxyExits(p)
  BY <1>27 DEF ProxyExits
<1>q. QED
  BY <1>1, <1>2, <1>3, <1>4, <1>5, <1>6, <1>7, <1>8, <1>9, <1>10, <1>11, <1>12, <1>13, <1>14, <1>15, <1>16, <1>17, <1>18, <1>19, <1>20, <1>21, <1>22, <1>23, <1>24, <1>25, <1>26, <1>27 DEF Process, Starts, Stops, Monitors

\* A daemon that has not come past Listen touches neither the file nor what others added,
\* and if the path leads nowhere else it takes it at once or stays where it is.
LEMMA Quiet ==
    ASSUME TypeOK, NEW p \in Instances, Own(p), Harmless(p), Process(p), socket \in listening \cup {None}
    PROVE  /\ file' = file /\ mappings' = mappings /\ proxies' \subseteq proxies
           /\ \/ holder' \in {p, None}
              \/ socket' = socket /\ holder' = holder /\ pc'[p] \in {"off", "probing", "listening"} \cup Dead
<1> DEFINE Goal == /\ file' = file /\ mappings' = mappings /\ proxies' \subseteq proxies
                   /\ \/ holder' \in {p, None}
                      \/ socket' = socket /\ holder' = holder /\ pc'[p] \in {"off", "probing", "listening"} \cup Dead
<1>0. pc \in [Instances -> Places] /\ MappingOf(p) /\ AskedOf(p)  BY DEF TypeOK, Places, Own
<1> USE <1>0, Harmless(p), socket \in listening \cup {None} DEF Harmless, Shutdown, Dead, control, orders
<1>1. ASSUME NEW proxy \in BOOLEAN, Start(p, proxy) PROVE Goal
  BY <1>1 DEF Start, Goto
<1>2. CASE ProbeSocket(p)
  BY <1>2 DEF ProbeSocket, Goto
<1>3. CASE UnlinkStale(p)
  BY <1>3 DEF UnlinkStale, Goto
<1>4. CASE Listen(p)
  BY <1>4 DEF Listen, Goto
<1>5. CASE Persist(p)
  BY <1>5 DEF Persist, Goto
<1>6. CASE RecoverProxy(p)
  BY <1>6 DEF RecoverProxy, Goto
<1>7. CASE StartProxy(p)
  BY <1>7 DEF StartProxy, Goto
<1>8. CASE RecordProxy(p)
  BY <1>8 DEF RecordProxy, Goto
<1>9. CASE ReclaimMapping(p)
  BY <1>9 DEF ReclaimMapping, Goto
<1>10. CASE AddMapping(p)
  BY <1>10 DEF AddMapping, Goto
<1>11. CASE PublishRunning(p)
  BY <1>11 DEF PublishRunning, Goto
<1>12. CASE Republish(p)
  BY <1>12 DEF Republish
<1>13. CASE Signal(p)
  BY <1>13 DEF Signal
<1>14. CASE AcceptStop(p)
  BY <1>14 DEF AcceptStop
<1>15. CASE ApplyStop(p)
  BY <1>15 DEF ApplyStop, AskedOf
<1>16. CASE EndServing(p)
  BY <1>16 DEF EndServing, Goto
<1>17. CASE MonitorMisses(p)
  BY <1>17 DEF MonitorMisses, MappingOf
<1>18. CASE MonitorRestores(p)
  BY <1>18 DEF MonitorRestores, MappingOf
<1>19. CASE MonitorEnds(p)
  BY <1>19 DEF MonitorEnds, MappingOf
<1>20. CASE JoinMonitor(p)
  BY <1>20 DEF JoinMonitor, Goto
<1>21. CASE CloseListeners(p)
  BY <1>21 DEF CloseListeners, Goto
<1>22. CASE CloseProxy(p)
  BY <1>22 DEF CloseProxy, Goto
<1>23. CASE RemoveMapping(p)
  BY <1>23 DEF RemoveMapping, Goto
<1>24. CASE UnlinkFiles(p)
  BY <1>24 DEF UnlinkFiles, Goto
<1>25. CASE Exit(p)
  BY <1>25 DEF Exit, Goto
<1>26. CASE Crash(p)
  BY <1>26 DEF Crash, Alive
<1>27. CASE ProxyExits(p)
  BY <1>27 DEF ProxyExits
<1>q. QED
  BY <1>1, <1>2, <1>3, <1>4, <1>5, <1>6, <1>7, <1>8, <1>9, <1>10, <1>11, <1>12, <1>13, <1>14, <1>15, <1>16, <1>17, <1>18, <1>19, <1>20, <1>21, <1>22, <1>23, <1>24, <1>25, <1>26, <1>27 DEF Process, Starts, Stops, Monitors

\* The steps of the others do not take the path from a daemon that lives.
LEMMA HolderOther ==
    ASSUME TypeOK, NEW p \in Instances, Own(p), NEW q \in Instances, q # p, Own(q), HolderOf(q), Process(p)
    PROVE  HolderOf(q)'
<1>0. None \notin Instances /\ Same(q) /\ SocketOf(q)  BY InstancesAssumption, Local DEF Own
<1>1. CASE holder' # q  BY <1>1 DEF HolderOf
<1>2. CASE holder' = q /\ ~Alive(q)  BY <1>0, <1>2 DEF HolderOf, Same, Alive
<1>3. CASE holder' = q /\ Alive(q)
  <2>1. holder = q /\ pc'[q] = pc[q]  BY <1>0, <1>3 DEF Same
  <2>2. /\ \A r \in Instances \ {q} : Harmless(r)
        /\ socket = IF pc[q] \in Bound THEN q ELSE None
    BY <1>3, <2>1 DEF HolderOf
  <2>3. socket \in listening \cup {None}  BY <1>0, <2>2 DEF SocketOf
  <2>4. Harmless(p)  BY <2>2
  <2>5. socket' = socket /\ pc'[p] \in {"off", "probing", "listening"} \cup Dead
    BY <1>0, <1>3, <2>3, <2>4, Quiet
  <2>6. \A r \in Instances \ {p} : pc'[r] = pc[r]  BY Local DEF Same
  <2>7. \A r \in Instances \ {q} : Harmless(r)'  BY <2>2, <2>5, <2>6 DEF Harmless
  <2>8. QED  BY <2>1, <2>2, <2>5, <2>7 DEF HolderOf
<1>4. QED  BY <1>1, <1>2, <1>3

\* Every step keeps every daemon's own, and the holder's.
LEMMA InvStep == Inv /\ [Next]_vars => Inv'
<1> SUFFICES ASSUME Inv, [Next]_vars PROVE Inv'  OBVIOUS
<1>0. TypeOK /\ TypeOK'  BY TypeStep DEF Inv
<1>1. ASSUME NEW p \in Instances, Process(p), NEW q \in Instances PROVE (Own(q) /\ HolderOf(q))'
  <2>0. Own(p) /\ Own(q) /\ HolderOf(q)  BY DEF Inv
  <2>1. CASE q = p
    BY <1>0, <1>1, <2>0, <2>1, SocketOwn, ProxyOwn, MappingOwn, AskedOwn, HolderOwn DEF Own
  <2>2. CASE q # p
    <3>1. Same(q)  BY <1>0, <1>1, <2>2, Local
    <3>2. SocketOf(q)' /\ AskedOf(q)'  BY <2>0, <3>1 DEF Own, SocketOf, AskedOf, Same
    <3>3. ProxyOf(q)'  BY <2>0, <3>1 DEF Own, ProxyOf, Same
    <3>4. MappingOf(q)'  BY <2>0, <3>1 DEF Own, MappingOf, Same
    <3>5. HolderOf(q)'  BY <1>0, <1>1, <2>0, <2>2, HolderOther
    <3>6. QED  BY <3>2, <3>3, <3>4, <3>5 DEF Own
  <2>3. QED  BY <2>1, <2>2
<1>2. ASSUME UNCHANGED <<control, proxies, pc, store, prior, added, monitor, orders>>, mappings' \subseteq mappings,
             NEW q \in Instances
      PROVE  (Own(q) /\ HolderOf(q))'
  <2>0. Own(q) /\ HolderOf(q)  BY DEF Inv
  <2>1. SocketOf(q)' /\ AskedOf(q)' /\ ProxyOf(q)'
    BY <1>2, <2>0 DEF Own, SocketOf, AskedOf, ProxyOf, control, orders
  <2>2. MappingOf(q)'  BY <1>2, <2>0 DEF Own, MappingOf, control, orders
  <2>3. HolderOf(q)'  BY <1>2, <2>0 DEF HolderOf, Alive, Harmless, control
  <2>4. QED  BY <2>1, <2>2, <2>3 DEF Own
<1>3. ASSUME NEW q \in Instances PROVE (Own(q) /\ HolderOf(q))'
  <2>1. CASE Unplug  BY <1>2, <2>1 DEF Unplug
  <2>2. CASE UNCHANGED vars  BY <1>2, <2>2 DEF vars
  <2>3. QED  BY <1>1, <2>1, <2>2 DEF Next, Done
<1>4. QED  BY <1>0, <1>3 DEF Inv

\* The invariant holds in every behaviour.
LEMMA InvHolds == Spec => []Inv
<1>1. Init => Inv
  <2> SUFFICES ASSUME Init PROVE Inv  OBVIOUS
  <2>1. ASSUME NEW p \in Instances PROVE Own(p) /\ HolderOf(p)
    BY InstancesAssumption
    DEF Init, Own, SocketOf, ProxyOf, MappingOf, AskedOf, HolderOf, Bound, Shutdown, Dead
  <2>2. QED  BY <2>1, InitType DEF Inv
<1>2. QED  BY <1>1, InvStep, PTL DEF Spec

-----------------------------------------------------------------------------
(* The file *)

\* The steps of the daemon that holds the path keep the file equal to its store.
LEMMA FileOwn ==
    ASSUME TypeOK, "writeFails" \notin Faults, NEW p \in Instances, HolderOf(p), FileOf(p), Process(p)
    PROVE  FileOf(p)'
<1>0. pc \in [Instances -> Places] /\ store \in [Instances -> Snapshot] /\ None \notin Instances
  BY InstancesAssumption DEF TypeOK, Places
<1> USE <1>0, FileOf(p), HolderOf(p), "writeFails" \notin Faults
        DEF FileOf, HolderOf, Bound, Recorded, Shutdown, Dead, control, orders
<1>1. ASSUME NEW proxy \in BOOLEAN, Start(p, proxy) PROVE FileOf(p)'
  BY <1>1 DEF Start, Goto
<1>2. CASE ProbeSocket(p)
  BY <1>2 DEF ProbeSocket, Goto
<1>3. CASE UnlinkStale(p)
  BY <1>3 DEF UnlinkStale, Goto
<1>4. CASE Listen(p)
  BY <1>4 DEF Listen, Goto
<1>5. CASE Persist(p)
  BY <1>5 DEF Persist, Goto
<1>6. CASE RecoverProxy(p)
  BY <1>6 DEF RecoverProxy, Goto, Update
<1>7. CASE StartProxy(p)
  BY <1>7 DEF StartProxy, Goto, Update
<1>8. CASE RecordProxy(p)
  BY <1>8 DEF RecordProxy, Goto, Update
<1>9. CASE ReclaimMapping(p)
  BY <1>9 DEF ReclaimMapping, Goto
<1>10. CASE AddMapping(p)
  BY <1>10 DEF AddMapping, Goto, Update
<1>11. CASE PublishRunning(p)
  BY <1>11 DEF PublishRunning, Goto, Update
<1>12. CASE Republish(p)
  BY <1>12 DEF Republish
<1>13. CASE Signal(p)
  BY <1>13 DEF Signal
<1>14. CASE AcceptStop(p)
  BY <1>14 DEF AcceptStop
<1>15. CASE ApplyStop(p)
  BY <1>15 DEF ApplyStop, Update
<1>16. CASE EndServing(p)
  BY <1>16 DEF EndServing, Goto, Update
<1>17. CASE MonitorMisses(p)
  BY <1>17 DEF MonitorMisses
<1>18. CASE MonitorRestores(p)
  BY <1>18 DEF MonitorRestores
<1>19. CASE MonitorEnds(p)
  BY <1>19 DEF MonitorEnds
<1>20. CASE JoinMonitor(p)
  BY <1>20 DEF JoinMonitor, Goto, Update
<1>21. CASE CloseListeners(p)
  BY <1>21 DEF CloseListeners, Goto
<1>22. CASE CloseProxy(p)
  BY <1>22 DEF CloseProxy, Goto, Update
<1>23. CASE RemoveMapping(p)
  BY <1>23 DEF RemoveMapping, Goto, Update
<1>24. CASE UnlinkFiles(p)
  BY <1>24 DEF UnlinkFiles, Goto
<1>25. CASE Exit(p)
  BY <1>25 DEF Exit, Goto
<1>26. CASE Crash(p)
  BY <1>26 DEF Crash
<1>27. CASE ProxyExits(p)
  BY <1>27 DEF ProxyExits
<1>q. QED
  BY <1>1, <1>2, <1>3, <1>4, <1>5, <1>6, <1>7, <1>8, <1>9, <1>10, <1>11, <1>12, <1>13, <1>14, <1>15, <1>16, <1>17, <1>18, <1>19, <1>20, <1>21, <1>22, <1>23, <1>24, <1>25, <1>26, <1>27 DEF Process, Starts, Stops, Monitors

\* No step of another daemon changes it.
LEMMA FileStep ==
    ASSUME Inv, FileInv, "writeFails" \notin Faults, [Next]_vars PROVE FileInv'
<1>0. TypeOK /\ None \notin Instances  BY InstancesAssumption DEF Inv
<1>1. ASSUME NEW p \in Instances, Process(p), NEW q \in Instances PROVE FileOf(q)'
  <2>0. Own(p) /\ Own(q) /\ HolderOf(p) /\ HolderOf(q) /\ FileOf(q)  BY DEF Inv, FileInv
  <2>1. CASE q = p  BY <1>0, <1>1, <2>0, <2>1, FileOwn
  <2>2. CASE q # p
    <3>1. Same(q)  BY <1>0, <1>1, <2>2, Local
    <3>2. SUFFICES ASSUME holder' = q, pc'[q] \in Recorded PROVE file' = store'[q]  BY DEF FileOf
    <3>3. holder = q /\ pc[q] \in Recorded  BY <3>1, <3>2 DEF Same
    <3>4. Harmless(p) /\ socket \in listening \cup {None}
      BY <2>0, <2>2, <3>3 DEF HolderOf, Own, SocketOf, Alive, Recorded, Bound, Dead
    <3>5. file' = file  BY <1>0, <1>1, <2>0, <3>4, Quiet
    <3>6. QED  BY <2>0, <3>1, <3>3, <3>5 DEF FileOf, Same
  <2>3. QED  BY <2>1, <2>2
<1>2. CASE UNCHANGED <<file, store, pc, holder>>  BY <1>2 DEF FileInv, FileOf
<1>3. QED  BY <1>1, <1>2 DEF Next, Done, Unplug, vars, control, FileInv

-----------------------------------------------------------------------------
(* What is on record *)

KnownNext(s) ==
    \A r \in Instances : (s.port = r => pc'[r] \in HasPort) /\ (s.proxy = r => pc'[r] \in HasProxy)

\* A process that has published something does not go back.
LEMMA Forward ==
    ASSUME TypeOK, [Next]_vars, NEW r \in Instances
    PROVE  (pc[r] \in HasPort => pc'[r] \in HasPort) /\ (pc[r] \in HasProxy => pc'[r] \in HasProxy)
<1> DEFINE Kept(q) == (pc[q] \in HasPort => pc'[q] \in HasPort) /\ (pc[q] \in HasProxy => pc'[q] \in HasProxy)
<1>0. pc \in [Instances -> Places]  BY DEF TypeOK, Places
<1>p. ASSUME NEW p \in Instances, Process(p) PROVE Kept(p)
  <2> USE <1>0 DEF HasPort, HasProxy, Shutdown, Dead
  <2>1. ASSUME NEW proxy \in BOOLEAN, Start(p, proxy) PROVE Kept(p)
    BY <2>1 DEF Start, Goto
  <2>2. CASE ProbeSocket(p)
    BY <2>2 DEF ProbeSocket, Goto
  <2>3. CASE UnlinkStale(p)
    BY <2>3 DEF UnlinkStale, Goto
  <2>4. CASE Listen(p)
    BY <2>4 DEF Listen, Goto
  <2>5. CASE Persist(p)
    BY <2>5 DEF Persist, Goto
  <2>6. CASE RecoverProxy(p)
    BY <2>6 DEF RecoverProxy, Goto
  <2>7. CASE StartProxy(p)
    BY <2>7 DEF StartProxy, Goto
  <2>8. CASE RecordProxy(p)
    BY <2>8 DEF RecordProxy, Goto
  <2>9. CASE ReclaimMapping(p)
    BY <2>9 DEF ReclaimMapping, Goto
  <2>10. CASE AddMapping(p)
    BY <2>10 DEF AddMapping, Goto
  <2>11. CASE PublishRunning(p)
    BY <2>11 DEF PublishRunning, Goto
  <2>12. CASE Republish(p)
    BY <2>12 DEF Republish
  <2>13. CASE Signal(p)
    BY <2>13 DEF Signal
  <2>14. CASE AcceptStop(p)
    BY <2>14 DEF AcceptStop
  <2>15. CASE ApplyStop(p)
    BY <2>15 DEF ApplyStop
  <2>16. CASE EndServing(p)
    BY <2>16 DEF EndServing, Goto
  <2>17. CASE MonitorMisses(p)
    BY <2>17 DEF MonitorMisses
  <2>18. CASE MonitorRestores(p)
    BY <2>18 DEF MonitorRestores
  <2>19. CASE MonitorEnds(p)
    BY <2>19 DEF MonitorEnds
  <2>20. CASE JoinMonitor(p)
    BY <2>20 DEF JoinMonitor, Goto
  <2>21. CASE CloseListeners(p)
    BY <2>21 DEF CloseListeners, Goto
  <2>22. CASE CloseProxy(p)
    BY <2>22 DEF CloseProxy, Goto
  <2>23. CASE RemoveMapping(p)
    BY <2>23 DEF RemoveMapping, Goto
  <2>24. CASE UnlinkFiles(p)
    BY <2>24 DEF UnlinkFiles, Goto
  <2>25. CASE Exit(p)
    BY <2>25 DEF Exit, Goto
  <2>26. CASE Crash(p)
    BY <2>26 DEF Crash
  <2>27. CASE ProxyExits(p)
    BY <2>27 DEF ProxyExits
  <2>q. QED
    BY <1>p, <2>1, <2>2, <2>3, <2>4, <2>5, <2>6, <2>7, <2>8, <2>9, <2>10, <2>11, <2>12, <2>13, <2>14, <2>15, <2>16, <2>17, <2>18, <2>19, <2>20, <2>21, <2>22, <2>23, <2>24, <2>25, <2>26, <2>27 DEF Process, Starts, Stops, Monitors
<1>1. ASSUME NEW p \in Instances, Process(p) PROVE Kept(r)
  <2>1. CASE r = p  BY <1>1, <1>p, <2>1
  <2>2. CASE r # p  BY <1>1, <2>2, Local DEF Same
  <2>3. QED  BY <2>1, <2>2
<1>2. CASE Unplug  BY <1>2 DEF Unplug
<1>3. CASE UNCHANGED vars  BY <1>3 DEF vars
<1>4. QED  BY <1>1, <1>2, <1>3 DEF Next, Done

\* What the daemon that acts publishes.
LEMMA Publishes ==
    ASSUME TypeOK, KnownInv, NEW p \in Instances, Process(p), \A s : Known(s) => KnownNext(s)
    PROVE  /\ KnownNext(store'[p]) /\ file' \in {file, NoFile, store'[p]}
           /\ prior'[p] \in {prior[p], file, NoFile}
<1> DEFINE Goal == /\ KnownNext(store'[p]) /\ file' \in {file, NoFile, store'[p]}
                   /\ prior'[p] \in {prior[p], file, NoFile}
<1>0. /\ pc \in [Instances -> Places] /\ store \in [Instances -> Snapshot] /\ store[p] \in Snapshot
      /\ prior \in [Instances -> Snapshot \cup {NoFile}] /\ None \notin Instances
      /\ KnownNext(store[p]) /\ KnownNext(prior[p])
  BY InstancesAssumption DEF TypeOK, Places, KnownInv
<1> USE <1>0 DEF control, orders
<1>1. ASSUME NEW proxy \in BOOLEAN, Start(p, proxy) PROVE Goal
  BY <1>1 DEF Start
<1>2. CASE ProbeSocket(p)
  BY <1>2 DEF ProbeSocket
<1>3. CASE UnlinkStale(p)
  BY <1>3 DEF UnlinkStale
<1>4. CASE Listen(p)
  BY <1>4 DEF Listen
<1>5. CASE Persist(p)
  BY <1>5 DEF Persist, Starting, KnownNext
<1>6. CASE RecoverProxy(p)
  <2>1. CASE UNCHANGED <<file, store>>  BY <1>6, <2>1 DEF RecoverProxy
  <2>2. CASE Update(p, Failed([store[p] EXCEPT !.proxy = prior[p].proxy]))
    BY <1>6, <2>2 DEF RecoverProxy, Update, KnownNext, Snapshot, Failed
  <2>q. QED  BY <1>6, <2>1, <2>2 DEF RecoverProxy
<1>7. CASE StartProxy(p)
  BY <1>7 DEF StartProxy, Update, Snapshot, Failed, KnownNext
<1>8. CASE RecordProxy(p)
  BY <1>8 DEF RecordProxy, Update, Snapshot, KnownNext, Goto, HasPort, HasProxy
<1>9. CASE ReclaimMapping(p)
  BY <1>9 DEF ReclaimMapping
<1>10. CASE AddMapping(p)
  BY <1>10 DEF AddMapping, Update, Snapshot, Failed, KnownNext
<1>11. CASE PublishRunning(p)
  BY <1>11 DEF PublishRunning, Update, Snapshot, KnownNext, Goto, HasPort, HasProxy
<1>12. CASE Republish(p)
  BY <1>12 DEF Republish
<1>13. CASE Signal(p)
  BY <1>13 DEF Signal
<1>14. CASE AcceptStop(p)
  BY <1>14 DEF AcceptStop
<1>15. CASE ApplyStop(p)
  BY <1>15 DEF ApplyStop, Update, Snapshot, KnownNext
<1>16. CASE EndServing(p)
  <2>1. CASE UNCHANGED <<file, store>>  BY <1>16, <2>1 DEF EndServing
  <2>2. CASE Update(p, Failed(store[p]))
    BY <1>16, <2>2 DEF EndServing, Update, KnownNext, Snapshot, Failed
  <2>3. CASE Update(p, Failed([store[p] EXCEPT !.proxy = None]))
    BY <1>16, <2>3 DEF EndServing, Update, KnownNext, Snapshot, Failed
  <2>q. QED  BY <1>16, <2>1, <2>2, <2>3 DEF EndServing
<1>17. CASE MonitorMisses(p)
  BY <1>17 DEF MonitorMisses
<1>18. CASE MonitorRestores(p)
  BY <1>18 DEF MonitorRestores
<1>19. CASE MonitorEnds(p)
  BY <1>19 DEF MonitorEnds
<1>20. CASE JoinMonitor(p)
  BY <1>20 DEF JoinMonitor, Update, Snapshot, Stopping, KnownNext
<1>21. CASE CloseListeners(p)
  BY <1>21 DEF CloseListeners
<1>22. CASE CloseProxy(p)
  <2>1. CASE UNCHANGED <<file, store>>  BY <1>22, <2>1 DEF CloseProxy
  <2>2. CASE Update(p, [store[p] EXCEPT !.proxy = None])
    BY <1>22, <2>2 DEF CloseProxy, Update, KnownNext, Snapshot, Failed
  <2>3. CASE Update(p, Failed([store[p] EXCEPT !.proxy = None]))
    BY <1>22, <2>3 DEF CloseProxy, Update, KnownNext, Snapshot, Failed
  <2>q. QED  BY <1>22, <2>1, <2>2, <2>3 DEF CloseProxy
<1>23. CASE RemoveMapping(p)
  BY <1>23 DEF RemoveMapping, Update, Snapshot, Failed, KnownNext
<1>24. CASE UnlinkFiles(p)
  BY <1>24 DEF UnlinkFiles
<1>25. CASE Exit(p)
  BY <1>25 DEF Exit
<1>26. CASE Crash(p)
  BY <1>26 DEF Crash, Starting, KnownNext
<1>27. CASE ProxyExits(p)
  BY <1>27 DEF ProxyExits
<1>q. QED
  BY <1>1, <1>2, <1>3, <1>4, <1>5, <1>6, <1>7, <1>8, <1>9, <1>10, <1>11, <1>12, <1>13, <1>14, <1>15, <1>16, <1>17, <1>18, <1>19, <1>20, <1>21, <1>22, <1>23, <1>24, <1>25, <1>26, <1>27 DEF Process, Starts, Stops, Monitors

\* A record never names a daemon that has not published it (update, persist).
LEMMA KnownStep == ASSUME TypeOK, KnownInv, [Next]_vars PROVE KnownInv'
<1>0. \A s : Known(s) => KnownNext(s)  BY Forward DEF Known, KnownNext
<1>1. KnownNext(file) /\ KnownNext(NoFile) /\ \A q \in Instances : KnownNext(store[q]) /\ KnownNext(prior[q])
  BY <1>0, InstancesAssumption DEF KnownInv, KnownNext, NoFile
<1>2. ASSUME NEW p \in Instances, Process(p) PROVE KnownInv'
  <2>1. /\ KnownNext(store'[p]) /\ file' \in {file, NoFile, store'[p]}
        /\ prior'[p] \in {prior[p], file, NoFile}
    BY <1>0, <1>2, Publishes
  <2>2. KnownNext(file') /\ KnownNext(prior'[p])  BY <1>1, <2>1
  <2>3. \A q \in Instances \ {p} : store'[q] = store[q] /\ prior'[q] = prior[q]
    BY <1>2, Local DEF Same
  <2>4. \A q \in Instances : KnownNext(store'[q]) /\ KnownNext(prior'[q])  BY <1>1, <2>1, <2>2, <2>3
  <2>5. QED  BY <2>2, <2>4 DEF KnownInv, Known, KnownNext
<1>3. CASE UNCHANGED <<file, store, prior>>
  BY <1>1, <1>3 DEF KnownInv, Known, KnownNext
<1>4. QED  BY <1>2, <1>3 DEF Next, Done, Unplug, vars

\* RecoverProxy and ReclaimMapping remove what the daemon found on record.
LEMMA PriorOwn ==
    ASSUME Inv, KnownInv, "reclaimFails" \notin Faults, NEW p \in Instances, PriorOf(p), Process(p)
    PROVE  PriorOf(p)'
<1>0. /\ pc \in [Instances -> Places] /\ prior \in [Instances -> Snapshot \cup {NoFile}]
      /\ MappingOf(p) /\ HolderOf(p) /\ None \notin Instances
      /\ \A r \in Instances : (file.port = r => pc[r] \in HasPort) /\ (file.proxy = r => pc[r] \in HasProxy)
  BY InstancesAssumption DEF Inv, Own, TypeOK, Places, KnownInv, Known
<1> USE <1>0, PriorOf(p), "reclaimFails" \notin Faults DEF PriorOf, HolderOf, control, orders
<1>1. ASSUME NEW proxy \in BOOLEAN, Start(p, proxy) PROVE PriorOf(p)'
  BY <1>1 DEF Start, Goto, Bound, Shutdown, Dead
<1>2. CASE ProbeSocket(p)
  BY <1>2 DEF ProbeSocket, Goto
<1>3. CASE UnlinkStale(p)
  BY <1>3 DEF UnlinkStale, Goto
<1>4. CASE Listen(p)
  BY <1>4 DEF Listen, Goto, Bound, Shutdown, Dead
<1>5. CASE Persist(p)
  BY <1>5 DEF Persist, Goto, HasPort, HasProxy, Shutdown, Dead
<1>6. CASE RecoverProxy(p)
  BY <1>6 DEF RecoverProxy, Goto
<1>7. CASE StartProxy(p)
  BY <1>7 DEF StartProxy, Goto
<1>8. CASE RecordProxy(p)
  BY <1>8 DEF RecordProxy, Goto
<1>9. CASE ReclaimMapping(p)
  BY <1>9 DEF ReclaimMapping, Goto
<1>10. CASE AddMapping(p)
  BY <1>10 DEF AddMapping, Goto
<1>11. CASE PublishRunning(p)
  BY <1>11 DEF PublishRunning, Goto
<1>12. CASE Republish(p)
  BY <1>12 DEF Republish
<1>13. CASE Signal(p)
  BY <1>13 DEF Signal
<1>14. CASE AcceptStop(p)
  BY <1>14 DEF AcceptStop
<1>15. CASE ApplyStop(p)
  BY <1>15 DEF ApplyStop
<1>16. CASE EndServing(p)
  BY <1>16 DEF EndServing, Goto
<1>17. CASE MonitorMisses(p)
  BY <1>17 DEF MonitorMisses
<1>18. CASE MonitorRestores(p)
  BY <1>18 DEF MonitorRestores, MappingOf
<1>19. CASE MonitorEnds(p)
  BY <1>19 DEF MonitorEnds
<1>20. CASE JoinMonitor(p)
  BY <1>20 DEF JoinMonitor, Goto
<1>21. CASE CloseListeners(p)
  BY <1>21 DEF CloseListeners, Goto
<1>22. CASE CloseProxy(p)
  BY <1>22 DEF CloseProxy, Goto
<1>23. CASE RemoveMapping(p)
  BY <1>23 DEF RemoveMapping, Goto
<1>24. CASE UnlinkFiles(p)
  BY <1>24 DEF UnlinkFiles, Goto
<1>25. CASE Exit(p)
  BY <1>25 DEF Exit, Goto, NoFile
<1>26. CASE Crash(p)
  BY <1>26 DEF Crash, Dead, NoFile
<1>27. CASE ProxyExits(p)
  BY <1>27 DEF ProxyExits
<1>q. QED
  BY <1>1, <1>2, <1>3, <1>4, <1>5, <1>6, <1>7, <1>8, <1>9, <1>10, <1>11, <1>12, <1>13, <1>14, <1>15, <1>16, <1>17, <1>18, <1>19, <1>20, <1>21, <1>22, <1>23, <1>24, <1>25, <1>26, <1>27 DEF Process, Starts, Stops, Monitors

\* No step of another daemon brings back what was removed.
LEMMA PriorStep ==
    ASSUME Inv, RecordInv, "reclaimFails" \notin Faults, [Next]_vars, NEW q \in Instances
    PROVE  PriorOf(q)'
<1>0. TypeOK /\ KnownInv /\ PriorOf(q) /\ None \notin Instances  BY InstancesAssumption DEF Inv, RecordInv
<1>1. ASSUME NEW p \in Instances, Process(p) PROVE PriorOf(q)'
  <2>0. Own(p) /\ Own(q) /\ HolderOf(q)  BY DEF Inv
  <2>1. CASE q = p  BY <1>0, <1>1, <2>1, PriorOwn
  <2>2. CASE q # p
    <3>1. Same(q)  BY <1>0, <1>1, <2>2, Local
    <3>2. CASE holder' # q \/ pc[q] \notin Bound  BY <1>0, <3>1, <3>2 DEF Same, PriorOf, Bound
    <3>3. CASE holder' = q /\ pc[q] \in Bound
      <4>1. Harmless(p) /\ socket \in listening \cup {None}
        BY <2>0, <2>2, <3>1, <3>3 DEF HolderOf, Own, SocketOf, Same, Alive, Bound, Dead
      <4>2. mappings' = mappings /\ proxies' \subseteq proxies  BY <1>0, <1>1, <2>0, <4>1, Quiet
      <4>3. QED  BY <1>0, <3>1, <4>2 DEF Same, PriorOf
    <3>4. QED  BY <3>2, <3>3
  <2>3. QED  BY <2>1, <2>2
<1>2. CASE Unplug  BY <1>0, <1>2 DEF Unplug, PriorOf, control, orders
<1>3. CASE UNCHANGED vars  BY <1>0, <1>3 DEF vars, control, orders, PriorOf
<1>4. QED  BY <1>1, <1>2, <1>3 DEF Next, Done

-----------------------------------------------------------------------------

\* Every field keeps its type (Server.Run, shutdown).
THEOREM TypeCorrect == Spec => []TypeOK
<1>1. Init => TypeOK  BY InitType
<1>2. TypeOK /\ [Next]_vars => TypeOK'  BY TypeStep
<1>3. QED  BY <1>1, <1>2, PTL DEF Spec

\* A daemon that serves and bound the path while no other could remove it is reached over
\* it and serves alone, whoever is started beside it and whoever was killed before it
\* (listenControlSocket, shutdown).
THEOREM ServingReachable == Spec => []Reachable
<1>1. ASSUME Inv PROVE Reachable
  <2> SUFFICES ASSUME NEW p \in Instances, holder = p, pc[p] = "serving"
               PROVE  /\ socket = p /\ p \in listening
                      /\ \A q \in Instances : pc[q] = "serving" => q = p
    BY DEF Reachable
  <2>1. SocketOf(p) /\ HolderOf(p)  BY <1>1 DEF Inv, Own
  <2>2. Alive(p) /\ pc[p] \in Bound  BY DEF Alive, Dead, Bound
  <2>3. socket = p /\ p \in listening  BY <2>1, <2>2 DEF SocketOf, HolderOf
  <2>4. \A q \in Instances \ {p} : Harmless(q)  BY <2>1, <2>2 DEF HolderOf
  <2>5. QED  BY <2>3, <2>4 DEF Harmless, Dead
<1>2. QED  BY <1>1, InvHolds, PTL

\* If the state file can be written, it names the mapping and the mitmweb that a daemon
\* leaves wherever it is killed, outside the windows that LeftoversRecorded names
\* (Server.Run, shutdown).
THEOREM KilledOnRecord == ASSUME "writeFails" \notin Faults PROVE Spec => []LeftoversRecorded
<1>1. ASSUME Inv, FileInv PROVE LeftoversRecorded
  <2> SUFFICES ASSUME NEW p \in Instances, holder = p, Alive(p), pc[p] # "returning"
               PROVE  /\ p \in mappings \cap added /\ pc[p] # "recording" => file.port = p
                      /\ p \in proxies /\ pc[p] # "recordingProxy" => file.proxy = p
    BY DEF LeftoversRecorded
  <2>1. FileOf(p) /\ ProxyOf(p) /\ MappingOf(p)  BY <1>1 DEF Inv, Own, FileInv
  <2>2. p \in mappings \cap added /\ pc[p] # "recording" => file.port = p
    BY <2>1 DEF FileOf, MappingOf, Alive, Recorded, Bound, Shutdown, Dead
  <2>3. p \in proxies /\ pc[p] # "recordingProxy" => file.proxy = p
    BY <2>1 DEF FileOf, ProxyOf, Alive, Recorded, Bound, ProxyUp, Dead
  <2>4. QED  BY <2>2, <2>3
<1>2. Init => FileInv  BY DEF Init, FileInv, FileOf, Recorded, Bound
<1>3. Inv /\ FileInv /\ [Next]_vars => FileInv'  BY FileStep
<1>4. QED  BY <1>1, <1>2, <1>3, InvHolds, PTL DEF Spec

\* A daemon that ends by itself leaves no mitmweb, no socket and no mapping, or says so,
\* however many others run beside it (shutdown).
THEOREM EndsClean == Spec => []ExitsClean
<1>1. Inv => ExitsClean
  BY DEF Inv, Own, SocketOf, ProxyOf, MappingOf, ExitsClean, Bound, ProxyUp
<1>2. QED  BY <1>1, InvHolds, PTL

\* If hdc removes the mapping it is told to, a daemon that serves has removed the
\* mapping and the mitmweb it found on record (Server.Run).
THEOREM FoundReclaimed == ASSUME "reclaimFails" \notin Faults PROVE Spec => []RecordReclaimed
<1>1. Init => RecordInv
  BY InstancesAssumption DEF Init, RecordInv, KnownInv, Known, PriorOf, NoFile, Starting
<1>2. Inv /\ RecordInv /\ [Next]_vars => RecordInv'
  <2> SUFFICES ASSUME Inv, RecordInv, [Next]_vars PROVE RecordInv'  OBVIOUS
  <2>1. KnownInv'  BY KnownStep DEF Inv, RecordInv
  <2>2. \A p \in Instances : PriorOf(p)'  BY PriorStep
  <2>3. QED  BY <2>1, <2>2 DEF RecordInv
<1>3. RecordInv => RecordReclaimed  BY DEF RecordInv, PriorOf, RecordReclaimed
<1>4. QED  BY <1>1, <1>2, <1>3, InvHolds, PTL DEF Spec
=============================================================================
