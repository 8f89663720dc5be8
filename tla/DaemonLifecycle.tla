-------------------------- MODULE DaemonLifecycle --------------------------
(***************************************************************************)
(* The life of a daemon process, from __daemon to its exit: Server.Run,    *)
(* shutdown, listenControlSocket and the CLI stop handler of src/internal/ *)
(* daemon/server.go.  What survives a process is shared by all of them:    *)
(* the state file, the control socket path, the hdc reverse mappings of    *)
(* the device port and the mitmweb children.                               *)
(*                                                                         *)
(* A daemon is an element of Instances and is started once.  It also names *)
(* its ephemeral host port, hence its mapping, and its mitmweb process.    *)
(* Device label and device port are the same for all of them, and so are   *)
(* the proxy's ports.  A snapshot keeps the fields that a later process    *)
(* reads.  Device sessions are DaemonSession; here they only republish.    *)
(***************************************************************************)
EXTENDS FiniteSets

CONSTANTS
    Instances,
    Faults,     \* what can go wrong
    None

AllFaults == {"crash",      \* the process dies while it is serving
              "crashAny",   \* the process dies at any point
              "unplug",     \* the device loses its mappings
              "listener",   \* Accept fails
              "proxyExit",  \* mitmweb exits by itself
              "startFails", \* the state file, proxy recovery, mitmweb or AddReverse fails
              "reclaimFails",   \* hdc does not remove the mapping found on record
              "removeFails",    \* hdc does not remove the daemon's own mapping
              "answerLost",     \* AddReverse fails although the mapping was added
              "killFails",      \* mitmweb ends only as it is being killed
              "writeFails"}     \* the state file cannot be written any more

ASSUME InstancesAssumption == None \notin Instances /\ IsFiniteSet(Instances)
ASSUME FaultsAssumption == Faults \subseteq AllFaults

VARIABLES
    \* what outlives a process
    file,       \* the state file, NoFile if there is none
    socket,     \* whose listener the control socket path is bound to, or None
    mappings,   \* reverse mappings of the device port, by the host port's owner
    proxies,    \* mitmweb processes, by the daemon that started them
    \* a process
    pc,         \* where Run or shutdown is
    store,      \* its snapshot
    prior,      \* previousState as read from the file
    added,      \* mappingAdded
    listening,  \* processes whose control listener is open
    monitor,    \* the goroutine of startMappingMonitor
    \* what it was told
    wantsProxy, \* ProxyFactory is configured
    asked,      \* processes with a stop request accepted, not yet applied
    stopped,    \* processes whose stopRequested channel is closed
    signalled,  \* processes whose signal context is cancelled
    holder      \* history: who bound the path last, None if somebody else could
                \* still remove it then

control == <<socket, listening, holder>>
orders == <<wantsProxy, asked, stopped, signalled>>
vars == <<file, control, mappings, proxies, pc, store, prior, added, monitor, orders>>

Daemon == {"STARTING", "RUNNING", "STOPPING", "FAILED"}
Owner == Instances \cup {None}
Snapshot == [daemon : Daemon, port : Owner, proxy : Owner]
NoFile == [daemon |-> "none", port |-> None, proxy |-> None]
Starting == [daemon |-> "STARTING", port |-> None, proxy |-> None]

Startup == {"probing", "unlinking", "listening", "persisting", "recovering", "proxying",
            "recordingProxy", "reclaiming", "adding", "recording"}
Shutdown == {"joining", "closing", "closingProxy", "unmapping", "unlinkingFiles", "returning"}
Dead == {"exited", "crashed"}
Alive(p) == pc[p] \notin Dead \cup {"off"}

Init ==
    /\ file = NoFile /\ socket = None /\ mappings = {} /\ proxies = {}
    /\ pc = [p \in Instances |-> "off"]
    /\ store = [p \in Instances |-> Starting]
    /\ prior = [p \in Instances |-> NoFile]
    /\ wantsProxy = [p \in Instances |-> FALSE]
    /\ added = {} /\ listening = {} /\ asked = {} /\ stopped = {} /\ signalled = {} /\ holder = None
    /\ monitor = [p \in Instances |-> "off"]

Goto(p, from, to) == pc[p] = from /\ pc' = [pc EXCEPT ![p] = to]

\* s.update: the snapshot changes and is written to the file; an error is only logged.
Update(p, snapshot) ==
    /\ store' = [store EXCEPT ![p] = snapshot]
    /\ file' = snapshot \/ ("writeFails" \in Faults /\ UNCHANGED file)

\* s.fail.
Failed(snapshot) == [snapshot EXCEPT !.daemon = "FAILED"]

-----------------------------------------------------------------------------
(* startCommand and listenControlSocket *)

\* The CLI asks for a status first, and only a daemon that serves answers.
Start(p, proxy) ==
    /\ Goto(p, "off", "probing")
    /\ ~(socket \in listening /\ pc[socket] = "serving")
    /\ wantsProxy' = [wantsProxy EXCEPT ![p] = proxy]
    /\ UNCHANGED <<file, control, mappings, proxies, store, prior, added, monitor, asked, stopped,
                   signalled>>

\* Mutant of ProbeSocket: a path that exists is taken for stale without a dial.
ProbeSocketUndialled(p) ==
    /\ Goto(p, "probing", IF socket = None THEN "listening" ELSE "unlinking")
    /\ UNCHANGED <<file, control, mappings, proxies, store, prior, added, monitor, orders>>

\* Lstat and the probing dial: another daemon, a stale socket or none.
ProbeSocket(p) ==
    /\ \/ socket \in listening /\ Goto(p, "probing", "exited")
       \/ socket # None /\ socket \notin listening /\ Goto(p, "probing", "unlinking")
       \/ socket = None /\ Goto(p, "probing", "listening")
    /\ UNCHANGED <<file, control, mappings, proxies, store, prior, added, monitor, orders>>

\* os.Remove(path), whoever the path belongs to by now; gone already is an error.
UnlinkStale(p) ==
    /\ Goto(p, "unlinking", IF socket = None THEN "exited" ELSE "listening")
    /\ socket' = None
    /\ UNCHANGED <<file, listening, holder, mappings, proxies, store, prior, added, monitor, orders>>

\* A process that will not remove the path, or write the file, of one that binds now.
Harmless(q) == pc[q] \in {"off", "probing", "listening"} \cup Dead

\* net.Listen("unix") fails if the path exists.
Listen(p) ==
    /\ IF socket # None
       THEN Goto(p, "listening", "exited") /\ UNCHANGED control
       ELSE /\ Goto(p, "listening", "persisting")
            /\ socket' = p
            /\ listening' = listening \cup {p}
            /\ holder' = IF \A q \in Instances \ {p} : Harmless(q) THEN p ELSE None
    /\ UNCHANGED <<file, mappings, proxies, store, prior, added, monitor, orders>>

-----------------------------------------------------------------------------
(* Run *)

\* The previous state is read and the fresh one written over it.  If it cannot
\* be written, the listeners are closed and Run returns without a shutdown.
Persist(p) ==
    /\ \/ /\ Goto(p, "persisting", "recovering")
          /\ prior' = [prior EXCEPT ![p] = file]
          /\ store' = [store EXCEPT ![p] = Starting]
          /\ file' = Starting
          /\ UNCHANGED <<socket, listening>>
       \/ /\ "startFails" \in Faults /\ Goto(p, "persisting", "exited")
          /\ socket' = None
          /\ listening' = listening \ {p}
          /\ UNCHANGED <<file, store, prior>>
    /\ UNCHANGED <<holder, mappings, proxies, added, monitor, orders>>

\* ProxyRecovery ends the mitmweb that the previous state records; it refuses to
\* touch a process that it cannot identify, and that is put on record again.
RecoverProxy(p) ==
    /\ \/ /\ Goto(p, "recovering", "proxying")
          /\ proxies' = proxies \ {prior[p].proxy}
          /\ UNCHANGED <<file, store>>
       \/ /\ "startFails" \in Faults /\ prior[p].proxy # None
          /\ Goto(p, "recovering", "joining")
          /\ Update(p, Failed([store[p] EXCEPT !.proxy = prior[p].proxy]))
          /\ UNCHANGED proxies
    /\ UNCHANGED <<control, mappings, prior, added, monitor, orders>>

\* ProxyFactory: mitmweb is started, unless its ports are taken.
StartProxy(p) ==
    /\ \/ /\ ~wantsProxy[p] /\ Goto(p, "proxying", "reclaiming")
          /\ UNCHANGED <<proxies, file, store>>
       \/ /\ wantsProxy[p] /\ proxies = {} /\ Goto(p, "proxying", "recordingProxy")
          /\ proxies' = proxies \cup {p}
          /\ UNCHANGED <<file, store>>
       \/ /\ wantsProxy[p] /\ (proxies # {} \/ "startFails" \in Faults)
          /\ Goto(p, "proxying", "joining")
          /\ Update(p, Failed(store[p]))
          /\ UNCHANGED proxies
    /\ UNCHANGED <<control, mappings, prior, added, monitor, orders>>

RecordProxy(p) ==
    /\ Goto(p, "recordingProxy", "reclaiming")
    /\ Update(p, [store[p] EXCEPT !.proxy = p])
    /\ UNCHANGED <<control, mappings, proxies, prior, added, monitor, orders>>

\* Mutant of ReclaimMapping: only a daemon that was RUNNING left a mapping.
ReclaimMappingOfRunning(p) ==
    /\ Goto(p, "reclaiming", "adding")
    /\ mappings' = IF prior[p].daemon = "RUNNING" THEN mappings \ {prior[p].port} ELSE mappings
    /\ UNCHANGED <<file, control, proxies, store, prior, added, monitor, orders>>

\* The previously recorded mapping is removed; failing to is only logged, also if
\* it is because the process was signalled.
ReclaimMapping(p) ==
    /\ Goto(p, "reclaiming", "adding")
    /\ \/ mappings' = mappings \ {prior[p].port}
       \/ ("reclaimFails" \in Faults \/ p \in signalled) /\ UNCHANGED mappings
    /\ UNCHANGED <<file, control, proxies, store, prior, added, monitor, orders>>

\* AddReverse, which has no deadline and ends with an error once the process is
\* signalled; its error may leave the mapping.
AddMapping(p) ==
    /\ \/ /\ p \notin signalled /\ Goto(p, "adding", "recording")
          /\ mappings' = mappings \cup {p}
          /\ added' = added \cup {p}
          /\ UNCHANGED <<file, store>>
       \/ /\ "startFails" \in Faults \/ p \in signalled
          /\ Goto(p, "adding", "joining")
          /\ Update(p, Failed(store[p]))
          /\ UNCHANGED mappings \/ ("answerLost" \in Faults /\ mappings' = mappings \cup {p})
          /\ UNCHANGED added
    /\ UNCHANGED <<control, proxies, prior, monitor, orders>>

\* Mutant of PublishRunning: HostPort is not published.
PublishRunningNoPort(p) ==
    /\ Goto(p, "recording", "serving")
    /\ Update(p, [store[p] EXCEPT !.daemon = "RUNNING"])
    /\ monitor' = [monitor EXCEPT ![p] = "watching"]
    /\ UNCHANGED <<control, mappings, proxies, prior, added, orders>>

\* RUNNING is published with the host port; monitor and listeners are served.
PublishRunning(p) ==
    /\ Goto(p, "recording", "serving")
    /\ Update(p, [store[p] EXCEPT !.daemon = "RUNNING", !.port = p])
    /\ monitor' = [monitor EXCEPT ![p] = "watching"]
    /\ UNCHANGED <<control, mappings, proxies, prior, added, orders>>

\* Device sessions, heartbeats and status requests publish the snapshot again,
\* as long as the process lives.
Republish(p) ==
    /\ pc[p] \in {"serving"} \cup Shutdown /\ p \in added
    /\ file' = store[p]
    /\ UNCHANGED <<control, mappings, proxies, pc, store, prior, added, monitor, orders>>

-----------------------------------------------------------------------------
(* handleControl, and the signal context *)

\* SIGINT or SIGTERM.  Nobody looks at the context before ReclaimMapping, so that an
\* earlier signal is as good as one there, nor after serving.
Signal(p) ==
    /\ pc[p] \in {"reclaiming", "adding", "serving"} /\ p \notin signalled
    /\ signalled' = signalled \cup {p}
    /\ UNCHANGED <<file, control, mappings, proxies, pc, store, prior, added, monitor,
                   wantsProxy, asked, stopped>>

\* A stop command reaches the process its socket path leads to.
AcceptStop(p) ==
    /\ pc[p] = "serving" /\ socket = p /\ p \in listening
    /\ p \notin asked \cup stopped
    /\ asked' = asked \cup {p}
    /\ UNCHANGED <<file, control, mappings, proxies, pc, store, prior, added, monitor,
                   wantsProxy, stopped, signalled>>

\* STOPPING is published whatever the daemon's status is by now.
ApplyStop(p) ==
    /\ p \in asked /\ Alive(p)
    /\ Update(p, [store[p] EXCEPT !.daemon = "STOPPING"])
    /\ asked' = asked \ {p}
    /\ stopped' = stopped \cup {p}
    /\ UNCHANGED <<control, mappings, proxies, pc, prior, added, monitor, wantsProxy, signalled>>

\* Mutant of EndServing: the CLI's stop request is not selected on.
EndServingOnSignal(p) ==
    /\ Goto(p, "serving", "joining")
    /\ p \in signalled
    /\ UNCHANGED <<file, control, mappings, proxies, store, prior, added, monitor, orders>>

\* The select of Run: a signal or a stop request, or a failure.
EndServing(p) ==
    /\ Goto(p, "serving", "joining")
    /\ \/ p \in stopped \cup signalled /\ UNCHANGED <<file, store>>
       \/ "listener" \in Faults /\ Update(p, Failed(store[p]))
       \/ wantsProxy[p] /\ p \notin proxies /\ Update(p, Failed([store[p] EXCEPT !.proxy = None]))
    /\ UNCHANGED <<control, mappings, proxies, prior, added, monitor, orders>>

-----------------------------------------------------------------------------
(* monitorMapping *)

\* The mapping is found absent, AddReverse begins.
MonitorMisses(p) ==
    /\ monitor[p] = "watching" /\ pc[p] = "serving" /\ p \notin mappings
    /\ monitor' = [monitor EXCEPT ![p] = "restoring"]
    /\ UNCHANGED <<file, control, mappings, proxies, pc, store, prior, added, orders>>

\* It returns, with the mapping or without; cancelling its context may come late.
MonitorRestores(p) ==
    /\ monitor[p] = "restoring"
    /\ monitor' = [monitor EXCEPT ![p] = "watching"]
    /\ mappings' = mappings \cup {p} \/ UNCHANGED mappings
    /\ UNCHANGED <<file, control, proxies, pc, store, prior, added, orders>>

\* The context is cancelled or the daemon is stopping.
MonitorEnds(p) ==
    /\ monitor[p] = "watching" /\ (pc[p] \in Shutdown \/ p \in signalled)
    /\ monitor' = [monitor EXCEPT ![p] = "off"]
    /\ UNCHANGED <<file, control, mappings, proxies, pc, store, prior, added, orders>>

-----------------------------------------------------------------------------
(* shutdown *)

\* STOPPING, but a failure stays on record.
Stopping(snapshot) ==
    IF snapshot.daemon = "FAILED" THEN snapshot ELSE [snapshot EXCEPT !.daemon = "STOPPING"]

\* Mutant of JoinMonitor: shutdown cancels the monitor and does not wait for it.
JoinMonitorNot(p) ==
    /\ Goto(p, "joining", "closing")
    /\ Update(p, Stopping(store[p]))
    /\ UNCHANGED <<control, mappings, proxies, prior, added, monitor, orders>>

\* The monitor has ended; the device session is stopped (DaemonSession).
JoinMonitor(p) ==
    /\ Goto(p, "joining", "closing")
    /\ monitor[p] = "off"
    /\ Update(p, Stopping(store[p]))
    /\ UNCHANGED <<control, mappings, proxies, prior, added, monitor, orders>>

\* Both listeners are closed; closing a Unix listener unlinks its path.
CloseListeners(p) ==
    /\ Goto(p, "closing", "closingProxy")
    /\ listening' = listening \ {p}
    /\ socket' = None
    /\ UNCHANGED <<file, holder, mappings, proxies, store, prior, added, monitor, orders>>

\* mitmweb is terminated and waited for, if it was started.  Close waits for it also
\* if it cannot be killed, because it has just ended, and then returns the error.
CloseProxy(p) ==
    /\ Goto(p, "closingProxy", "unmapping")
    /\ proxies' = proxies \ {p}
    /\ \/ /\ "killFails" \in Faults /\ p \in proxies
          /\ Update(p, Failed([store[p] EXCEPT !.proxy = None]))
       \/ IF store[p].proxy = p /\ store[p].daemon # "FAILED"
          THEN Update(p, [store[p] EXCEPT !.proxy = None])
          ELSE UNCHANGED <<file, store>>
    /\ UNCHANGED <<control, mappings, prior, added, monitor, orders>>

\* The mapping that this process added is removed.
RemoveMapping(p) ==
    /\ Goto(p, "unmapping", "unlinkingFiles")
    /\ \/ /\ mappings' = IF p \in added THEN mappings \ {p} ELSE mappings
          /\ UNCHANGED <<file, store>>
       \/ /\ "removeFails" \in Faults /\ p \in added
          /\ Update(p, Failed(store[p]))
          /\ UNCHANGED mappings
    /\ UNCHANGED <<control, proxies, prior, added, monitor, orders>>

\* The socket path is removed once more, the state file unless it tells of a
\* failure; whose they are by now is not looked at.
UnlinkFiles(p) ==
    /\ Goto(p, "unlinkingFiles", "returning")
    /\ socket' = None
    /\ file' = IF store[p].daemon = "FAILED" THEN file ELSE NoFile
    /\ UNCHANGED <<listening, holder, mappings, proxies, store, prior, added, monitor, orders>>

\* The process ends.  Of its memory, store and stopped are kept: they tell how.
Exit(p) ==
    /\ Goto(p, "returning", "exited")
    /\ prior' = [prior EXCEPT ![p] = NoFile]
    /\ added' = added \ {p}
    /\ wantsProxy' = [wantsProxy EXCEPT ![p] = FALSE]
    /\ asked' = asked \ {p} /\ signalled' = signalled \ {p}
    /\ UNCHANGED <<file, control, mappings, proxies, store, monitor, stopped>>

-----------------------------------------------------------------------------
(* The environment *)

\* The process is killed: its listeners, goroutines and memory are gone, what is
\* outside it stays, the socket path included.
Crash(p) ==
    /\ \/ "crash" \in Faults /\ pc[p] = "serving"
       \/ "crashAny" \in Faults /\ Alive(p)
    /\ pc' = [pc EXCEPT ![p] = "crashed"]
    /\ listening' = listening \ {p}
    /\ monitor' = [monitor EXCEPT ![p] = "off"]
    /\ store' = [store EXCEPT ![p] = Starting]
    /\ prior' = [prior EXCEPT ![p] = NoFile]
    /\ added' = added \ {p}
    /\ wantsProxy' = [wantsProxy EXCEPT ![p] = FALSE]
    /\ asked' = asked \ {p} /\ stopped' = stopped \ {p} /\ signalled' = signalled \ {p}
    /\ UNCHANGED <<file, socket, holder, mappings, proxies>>

Unplug ==
    /\ "unplug" \in Faults /\ mappings # {}
    /\ mappings' = {}
    /\ UNCHANGED <<file, control, proxies, pc, store, prior, added, monitor, orders>>

ProxyExits(p) ==
    /\ "proxyExit" \in Faults /\ p \in proxies
    /\ proxies' = proxies \ {p}
    /\ UNCHANGED <<file, control, mappings, pc, store, prior, added, monitor, orders>>

Starts(p) ==
    \/ ProbeSocket(p) \/ UnlinkStale(p) \/ Listen(p) \/ Persist(p)
    \/ RecoverProxy(p) \/ StartProxy(p) \/ RecordProxy(p)
    \/ ReclaimMapping(p) \/ AddMapping(p) \/ PublishRunning(p)

Stops(p) ==
    \/ JoinMonitor(p) \/ CloseListeners(p) \/ CloseProxy(p) \/ RemoveMapping(p)
    \/ UnlinkFiles(p) \/ Exit(p)

Monitors(p) == MonitorMisses(p) \/ MonitorRestores(p) \/ MonitorEnds(p)

Process(p) ==
    \/ \E proxy \in BOOLEAN : Start(p, proxy)
    \/ Starts(p) \/ Republish(p) \/ Signal(p) \/ AcceptStop(p) \/ ApplyStop(p) \/ EndServing(p)
    \/ Monitors(p) \/ Stops(p)
    \/ Crash(p) \/ ProxyExits(p)

\* All instances are used up.
Done == (\A p \in Instances : pc[p] \in Dead) /\ UNCHANGED vars

Next == (\E p \in Instances : Process(p)) \/ Unplug \/ Done

Spec == Init /\ [][Next]_vars

(***************************************************************************)
(* Fairness: a live process goes on.  mitmweb is waited for with timeouts  *)
(* and killed if it does not end, and hdc calls have deadlines, all but    *)
(* the AddReverse of Run: that one ends when the process is signalled.     *)
(* The select of Run is woken by a closed stopRequested and by the signal. *)
(* Nobody has to start, signal or stop a daemon.                           *)
(***************************************************************************)
Fairness ==
    \A p \in Instances :
        /\ WF_vars((pc[p] # "adding" \/ p \in signalled) /\ Starts(p)) /\ WF_vars(Stops(p))
        /\ WF_vars(MonitorRestores(p)) /\ WF_vars(MonitorEnds(p))
        /\ WF_vars(ApplyStop(p))
        /\ WF_vars(p \in stopped \cup signalled /\ EndServing(p))

FairSpec == Spec /\ Fairness

-----------------------------------------------------------------------------
(* Properties *)

\* The type of everything above.
TypeOK ==
    /\ file \in Snapshot \cup {NoFile}
    /\ socket \in Owner
    /\ mappings \subseteq Instances /\ proxies \subseteq Instances
    /\ pc \in [Instances -> {"off", "serving"} \cup Startup \cup Shutdown \cup Dead]
    /\ store \in [Instances -> Snapshot]
    /\ prior \in [Instances -> Snapshot \cup {NoFile}]
    /\ wantsProxy \in [Instances -> BOOLEAN]
    /\ added \subseteq Instances /\ listening \subseteq Instances
    /\ monitor \in [Instances -> {"off", "watching", "restoring"}]
    /\ asked \subseteq Instances /\ stopped \subseteq Instances /\ signalled \subseteq Instances
    /\ holder \in Owner

\* A daemon that serves can be told to stop, and no other daemon serves: the control
\* socket path leads to it, whatever sockets killed daemons left behind and however
\* many daemons are started beside it, before, while or after it binds the path.  The
\* exception is a daemon that bound the path while another could still remove it.
Reachable ==
    \A p \in Instances : holder = p /\ pc[p] = "serving" =>
        /\ socket = p /\ p \in listening
        /\ \A q \in Instances : pc[q] = "serving" => q = p

\* Whenever a live daemon is killed, the state file lets the next one find what
\* it leaves: its mapping from the moment it has published RUNNING, and its
\* mitmweb from the moment it has published its PID, until shutdown is over, also
\* while others try to start beside it.
LeftoversRecorded ==
    \A p \in Instances : holder = p /\ Alive(p) /\ pc[p] # "returning" =>
        /\ p \in mappings \cap added /\ pc[p] # "recording" => file.port = p
        /\ p \in proxies /\ pc[p] # "recordingProxy" => file.proxy = p

\* By the time a daemon serves, the mapping and the mitmweb that it found on
\* record are gone, whatever state its predecessor was killed in.
RecordReclaimed ==
    \A p \in Instances : holder = p /\ pc[p] = "serving" =>
        prior[p].port \notin mappings /\ prior[p].proxy \notin proxies

\* A daemon that ends by itself leaves no mitmweb and no socket behind, and no
\* mapping although its monitor may restore it as it stops; if hdc refuses to
\* remove the mapping, or kept it although adding it failed, the failure is on
\* record, unless a stop command came.
ExitsClean ==
    \A p \in Instances : pc[p] = "exited" =>
        /\ p \notin proxies /\ socket # p
        /\ p \in mappings => store[p].daemon = "FAILED" \/ p \in stopped

\* A stop request that was accepted, and a signal at any moment of the start or of the
\* service, end the process, whatever hdc, the monitor, the proxy and the listeners do
\* meanwhile.
StopCompletes == \A p \in Instances : p \in asked \cup signalled ~> pc[p] \in Dead

-----------------------------------------------------------------------------
(***************************************************************************)
(* What the repository says and the code does not keep to.                 *)
(***************************************************************************)

\* README.md: after an unclean exit the mapping last recorded is reclaimed; so
\* once a daemon serves, nothing of its predecessors is left.  Persist writes
\* over the record before ReclaimMapping has used it.
Reclaimed ==
    \A p \in Instances : holder = p /\ pc[p] = "serving" =>
        mappings \subseteq {p} /\ proxies \subseteq {p}

\* listenControlSocket: "another HarmonyNetBridge daemon is already running".
\* UnlinkFiles removes the socket of a daemon that started after CloseListeners.
OneDaemon == \A p, q \in Instances : pc[p] = "serving" /\ pc[q] = "serving" => p = q
=============================================================================
