---------------------------- MODULE SniffingConn ----------------------------
(***************************************************************************)
(* hostnameSniffingConn of src/internal/proxy/connect.go: the connection   *)
(* the relay gets for an intercepted destination that is an IP address.    *)
(* Nothing is dialled until the bytes written to it name a host, or cannot *)
(* name one; until then Write buffers and Read waits.                      *)
(*                                                                         *)
(* One operator per critical section of mu and per call made outside it;   *)
(* the caller's program counter belongs to RelayFlow, whose goroutines     *)
(* call them.  Write has one caller, so writeMu is never contended and is  *)
(* left out; the deadline setters have none.  The bytes of the stream are  *)
(* their positions.  A flow that is not intercepted is its socket.         *)
(***************************************************************************)
EXTENDS HostnameSniffing

CONSTANT Streams    \* what devices send

ASSUME StreamsAssumption ==
    \A s \in Streams :
        /\ {s.intercepted, s.tls, s.https, s.isHello, s.named} \subseteq BOOLEAN
        /\ {s.size, s.head, s.hello} \subseteq Nat
        /\ s.records \in Seq([handshake : BOOLEAN, length : Nat])

VARIABLES
    stream,      \* what this device sends, and whether its port is intercepted
    \* the fields of the connection, guarded by mu
    pending, connection, initErr, closed, ready,
    \* the socket to the proxy (or to the destination), and what has reached it
    socket, upstream, tunnel,
    \* what Write and establish hold in local variables
    out, target, dialError

fieldVars  == <<pending, connection, initErr, closed, ready>>
socketVars == <<socket, upstream, tunnel>>
writeVars  == <<out, target, dialError>>
connVars   == <<stream, fieldVars, socketVars, writeVars>>

proxied == stream.intercepted

\* newHostnameSniffingConn
ConnInit ==
    /\ stream \in Streams
    /\ pending = <<>> /\ connection = FALSE /\ initErr = FALSE
    /\ closed = FALSE /\ ready = FALSE
    /\ socket = "none" /\ upstream = "up" /\ tunnel = <<>>
    /\ out = <<>> /\ target = "none" /\ dialError = FALSE

Writable == socket = "open" /\ upstream # "reset"

-----------------------------------------------------------------------------
(* Write *)

\* connection is set: the bytes go through.
Through == (connection \/ ~proxied) /\ UNCHANGED <<pending, target, out>>

\* Closed, or the establishment failed: Write returns the error.
Refused == proxied /\ ~connection /\ (closed \/ initErr)

\* Neither: the bytes are for the sniffer.
Unsettled == proxied /\ ~connection /\ ~closed /\ ~initErr

\* Mutant of Overflows: the buffered bytes are forgotten.
OverflowForgets ==
    /\ Unsettled /\ Len(out) + Len(pending) > MaxInitial
    /\ pending' = <<>> /\ target' = "destination" /\ UNCHANGED out

\* More than the buffer takes: the destination's address has to do.
Overflows ==
    /\ Unsettled /\ Len(out) + Len(pending) > MaxInitial
    /\ out' = pending \o out
    /\ pending' = <<>>
    /\ target' = "destination"

\* The verdict on what is buffered with the new bytes.
Verdict == sniffHostname(stream, Len(pending) + Len(out))

Buffers ==
    /\ Unsettled /\ Len(out) + Len(pending) <= MaxInitial
    /\ Verdict = "needMore"
    /\ pending' = pending \o out
    /\ out' = <<>>
    /\ UNCHANGED target

\* Mutant of Decides: only what was buffered before is sent.
DecidesLosesLast ==
    /\ Unsettled /\ Len(out) + Len(pending) <= MaxInitial
    /\ Verdict # "needMore"
    /\ out' = IF pending = <<>> THEN out ELSE pending
    /\ pending' = <<>>
    /\ target' = IF Verdict = "resolved" THEN "hostname" ELSE "destination"

Decides ==
    /\ Unsettled /\ Len(out) + Len(pending) <= MaxInitial
    /\ Verdict # "needMore"
    /\ out' = pending \o out
    /\ pending' = <<>>
    /\ target' = IF Verdict = "resolved" THEN "hostname" ELSE "destination"

-----------------------------------------------------------------------------
(* establish *)

\* direct(ctx, "tcp4", proxyAddress), within the deadline of the accept.
DialProxy(ok) ==
    /\ socket' = IF ok THEN "dialled" ELSE "none"
    /\ dialError' = ~ok
    /\ UNCHANGED <<fieldVars, upstream, tunnel, out, target>>

\* performConnect; a connection that did not get its 200 is closed.
performConnect(ok) ==
    /\ socket' = IF ok THEN "dialled" ELSE "closed"
    /\ dialError' = ~ok
    /\ UNCHANGED <<fieldVars, upstream, tunnel, out, target>>

\* Mutant of Install: closed is not looked at again.
InstallUnchecked ==
    /\ initErr' = (initErr \/ dialError)
    /\ connection' = ~dialError
    /\ socket' = IF dialError THEN socket ELSE "open"
    /\ ready' = TRUE
    /\ out' = IF dialError THEN <<>> ELSE out
    /\ UNCHANGED <<pending, closed, upstream, tunnel, target, dialError>>

\* The critical section: the connection is installed unless Close came first,
\* and waiting readers are let go of in any case.
Install ==
    LET failed == closed \/ dialError
    IN  /\ initErr' = (initErr \/ failed)
        /\ connection' = ~failed
        /\ socket' = IF ~failed THEN "open" ELSE IF socket = "dialled" THEN "closed" ELSE socket
        /\ ready' = TRUE
        /\ out' = IF failed THEN <<>> ELSE out
        /\ UNCHANGED <<pending, closed, upstream, tunnel, target, dialError>>

\* Mutant of Send: after a short write the last byte sent is sent again.
SendRepeats(k) ==
    /\ Writable
    /\ k \in 1 .. Len(out)
    /\ tunnel' = tunnel \o SubSeq(out, 1, k)
    /\ out' = IF k = Len(out) THEN <<>> ELSE SubSeq(out, k, Len(out))
    /\ UNCHANGED <<fieldVars, socket, upstream, target, dialError>>

\* writeAllConnection, and the write of a later payload: some bytes go out.
Send(k) ==
    /\ Writable
    /\ k \in 1 .. Len(out)
    /\ tunnel' = tunnel \o SubSeq(out, 1, k)
    /\ out' = SubSeq(out, k + 1, Len(out))
    /\ UNCHANGED <<fieldVars, socket, upstream, target, dialError>>

\* The write fails; what was not sent is dropped.
SendFails ==
    /\ ~Writable
    /\ out' = <<>>
    /\ UNCHANGED <<fieldVars, socketVars, target, dialError>>

-----------------------------------------------------------------------------
(* Close, CloseRead, CloseWrite *)

\* Mutant of MarkClosed: Read is not let go of.
MarkClosedSilent ==
    /\ closed' = TRUE /\ initErr' = TRUE
    /\ UNCHANGED <<pending, connection, ready, socketVars, writeVars>>

\* Close, the critical section.  Once it has run, no connection is installed;
\* one that is installed is closed by the caller after the lock.
MarkClosed ==
    /\ closed' = TRUE
    /\ initErr' = TRUE
    /\ ready' = TRUE
    /\ UNCHANGED <<pending, connection, socketVars, writeVars>>

CloseSocket ==
    /\ socket' = IF socket = "none" THEN "none" ELSE "closed"
    /\ UNCHANGED <<fieldVars, upstream, tunnel, writeVars>>

\* CloseWrite on the socket.
FinishSocket ==
    /\ socket' = IF socket = "open" THEN "finished" ELSE socket
    /\ UNCHANGED <<fieldVars, upstream, tunnel, writeVars>>
=============================================================================
