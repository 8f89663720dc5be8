----------------------------- MODULE HnbChannel -----------------------------
(***************************************************************************)
(* One established HNB/1 connection, seen from the Mac daemon: the framing *)
(* of src/internal/protocol/protocol.go, the frameWriter, the heartbeat    *)
(* and the reading loop of src/internal/daemon/server.go.  Three           *)
(* goroutines write to it: the handler (its acknowledgement of the         *)
(* handshake, then answers to PING), the heartbeat, and a third one that   *)
(* for Data carries the relay's packets and for Control is shutdown, which *)
(* sends STOP_REQUEST.  The session they belong to is DaemonSession's.     *)
(*                                                                         *)
(* A frame is a header and a payload, written by two calls; the socket     *)
(* takes Capacity such parts in each direction and then blocks, until the  *)
(* deadline of the write.  Whoever writes or reads at the other end does   *)
(* so by the same rules, and may fall silent for good with the connection  *)
(* still open (a half-open hdc mapping).                                   *)
(***************************************************************************)
EXTENDS Naturals, Sequences

CONSTANTS
    Kinds,         \* which connections: "control" (in VPN mode), "data"
    MaxSequence,   \* the largest sequence number, 2^32 - 1 in the code
    Capacity,      \* bound: parts in flight in one direction
    MaxNonce       \* bound: heartbeat nonces, used in turn

ASSUME KindsAssumption == Kinds \subseteq {"control", "data"}
ASSUME BoundsAssumption ==
    MaxSequence \in Nat \ {0, 1} /\ Capacity \in Nat \ {0} /\ MaxNonce \in Nat \ {0}

VARIABLES
    kind,
    open,        \* the daemon has not closed the connection
    sequence,    \* frameWriter.sequence
    mu,          \* frameWriter.mu
    untimed,     \* the deadline of the frame that is being written was cleared
    pc, job,     \* per goroutine: where it is, and the frame it writes
    parting,     \* the handler ends after the frame it writes
    expected,    \* expectedSequence of the reading loop
    nonce, pending, aged,   \* heartbeatTracker: the last nonce, whether it is not
                            \* acknowledged yet, and is so for HeartbeatTimeout
    active,      \* the snapshot says ACTIVE
    wire,        \* parts on their way to the device
    inbound,     \* frames on their way to the Mac
    peer,        \* the device: next sequence numbers, the header it has read, the
                 \* nonce it owes, whether it is silent, whether it refused a frame
    failed       \* history: a write has failed, perhaps in the middle of its frame

writerVars == <<sequence, mu, untimed>>
beatVars == <<nonce, pending, aged, active>>
vars == <<kind, open, writerVars, pc, job, parting, expected, beatVars, wire, inbound, peer,
          failed>>

Threads == {"handler", "heart", "third"}
Places == {"none", "idle", "tick", "read", "lock", "header", "payload", "clear", "leave", "done"}
Types == {"ack", "ping", "pong", "packet", "stop", "error", "bad"}
Frames == [type : Types, seq : 0 .. MaxSequence, nonce : 0 .. MaxNonce]
NoFrame == [type |-> "ack", seq |-> 0, nonce |-> 0]
Acknowledgement == [type |-> "ack", seq |-> 1, nonce |-> 0]
Peers == [hears : 1 .. MaxSequence, says : 1 .. MaxSequence, half : Frames,
          owes : 0 .. MaxNonce, silent : BOOLEAN, refused : BOOLEAN]
Parts == [part : {"header", "payload"}, frame : Frames]

nextSequence(n) == IF n = MaxSequence THEN 1 ELSE n + 1

\* newFrameWriter(connection, 2); the handler is about to write HELLO_ACK or
\* DATA_ACK, the Control session is already registered.
Init ==
    /\ kind \in Kinds /\ open = TRUE /\ sequence = 2 /\ mu = "none" /\ untimed = FALSE
    /\ pc = [t \in Threads |-> CASE t = "handler" -> "header" [] t = "heart" -> "none"
                               [] t = "third" -> IF kind = "control" THEN "idle" ELSE "none"]
    /\ job = [t \in Threads |-> IF t = "handler" THEN Acknowledgement ELSE NoFrame]
    /\ parting = FALSE /\ expected = 2
    /\ nonce = 0 /\ pending = FALSE /\ aged = FALSE /\ active = (kind = "control")
    /\ wire = <<>> /\ inbound = <<>>
    /\ peer = [hears |-> 1, says |-> 2, half |-> NoFrame, owes |-> 0, silent |-> FALSE, refused |-> FALSE]
    /\ failed = FALSE

Goto(t, from, to) == pc[t] = from /\ pc' = [pc EXCEPT ![t] = to]

-----------------------------------------------------------------------------
(* frameWriter.Write and WriteFrame *)

\* A goroutine calls Write.
Start(t, from, type, n) ==
    /\ Goto(t, from, "lock")
    /\ job' = [job EXCEPT ![t] = [type |-> type, seq |-> 0, nonce |-> n]]

\* Mutant of Lock: the number is not taken under the lock of the frame before.
LockShared(t) ==
    /\ Goto(t, "lock", "header")
    /\ mu' = t
    /\ job' = [job EXCEPT ![t].seq = sequence]
    /\ sequence' = nextSequence(sequence)
    /\ UNCHANGED <<kind, open, untimed, parting, expected, beatVars, wire, inbound, peer, failed>>

\* The lock, the sequence number and the deadline.  A frame that validateFrame
\* refuses would be an error here; number zero is the only way to get there.
Lock(t) ==
    /\ mu = "none"
    /\ Goto(t, "lock", "header")
    /\ mu' = t
    /\ job' = [job EXCEPT ![t].seq = sequence]
    /\ sequence' = nextSequence(sequence)
    /\ UNCHANGED <<kind, open, untimed, parting, expected, beatVars, wire, inbound, peer, failed>>

Room == Len(wire) < Capacity
Valid(t) == job[t].seq # 0
Put(t, part) == wire' = Append(wire, [part |-> part, frame |-> job[t]])

\* Write returns.
Unlock(t) ==
    /\ mu' = IF mu = t THEN "none" ELSE mu
    /\ untimed' = (untimed /\ mu # t)
    /\ job' = [job EXCEPT ![t] = NoFrame]

\* DATA_ACK has no payload.
NoPayload(t) == kind = "data" /\ job[t].type = "ack"

\* Where a goroutine goes on after its frame, and after an error.
Resume(t) ==
    CASE t = "handler" -> IF parting THEN "leave" ELSE "read"
      [] t = "heart" -> "tick"
      [] t = "third" -> IF kind = "control" THEN "leave" ELSE "idle"

\* After the acknowledgement the handler goes on to clear the deadlines.
Continue(t) == pc' = [pc EXCEPT ![t] = IF job[t].type = "ack" THEN "clear" ELSE Resume(t)]

WriteHeader(t) ==
    /\ pc[t] = "header" /\ open /\ Valid(t) /\ Room
    /\ Put(t, "header")
    /\ IF NoPayload(t) THEN Unlock(t) /\ Continue(t)
       ELSE pc' = [pc EXCEPT ![t] = "payload"] /\ UNCHANGED <<mu, untimed, job>>
    /\ UNCHANGED <<kind, open, sequence, parting, expected, beatVars, inbound, peer, failed>>

WritePayload(t) ==
    /\ pc[t] = "payload" /\ open /\ Room
    /\ Put(t, "payload")
    /\ Unlock(t)
    /\ Continue(t)
    /\ UNCHANGED <<kind, open, sequence, parting, expected, beatVars, inbound, peer, failed>>

\* Mutant of WriteFails: a write has no deadline.
WriteNeverFails(t) ==
    /\ pc[t] \in {"header", "payload"}
    /\ ~open
    /\ Unlock(t)
    /\ pc' = [pc EXCEPT ![t] = "leave"]
    /\ failed' = TRUE
    /\ UNCHANGED <<kind, open, sequence, parting, expected, beatVars, wire, inbound, peer>>

\* The deadline of this frame was cleared by the handler.
Cleared(t) == untimed /\ mu = t

\* The deadline passes before there is room, the connection is closed, or the
\* frame is not valid: the lock is released, and the caller gives up.
WriteFails(t) ==
    /\ pc[t] \in {"header", "payload"}
    /\ ~open \/ ~Valid(t) \/ (~Room /\ ~Cleared(t))
    /\ Unlock(t)
    /\ pc' = [pc EXCEPT ![t] = "leave"]
    /\ failed' = TRUE
    /\ UNCHANGED <<kind, open, sequence, parting, expected, beatVars, wire, inbound, peer>>

\* connection.Close, by whichever goroutine ends: writeRelayOutput, runHeartbeat,
\* shutdown after STOP_ACK or its timer, or the handler's releaseControl/releaseData.
Leave(t) ==
    /\ Goto(t, "leave", "done")
    /\ open' = FALSE /\ inbound' = <<>>
    /\ UNCHANGED <<kind, writerVars, job, parting, expected, beatVars, wire, peer, failed>>

\* After the acknowledgement: SetDeadline(time.Time{}) clears the deadlines of the
\* handshake, and with them that of a STOP_REQUEST which shutdown is writing just
\* then; the goroutines of the channel start.
ClearDeadline ==
    /\ pc["handler"] = "clear"
    /\ untimed' = (mu # "none")
    /\ pc' = [pc EXCEPT !["handler"] = "read", !["heart"] = "tick",
                        !["third"] = IF kind = "data" THEN "idle" ELSE @]
    /\ UNCHANGED <<kind, open, sequence, mu, job, parting, expected, beatVars, wire, inbound,
                   peer, failed>>

-----------------------------------------------------------------------------
(* The reading loop *)

Acknowledge(n) ==
    IF pending /\ n = nonce THEN pending' = FALSE /\ aged' = FALSE ELSE UNCHANGED <<pending, aged>>

\* A frame out of sequence, or one that ends the session.  Control says so in an
\* ERROR first, unless the frame is STOP_ACK, ERROR or a PING without a nonce.
Refuse(type) ==
    /\ \/ /\ kind = "control"
          /\ Start("handler", "read", "error", 0) /\ parting' = TRUE
       \/ /\ kind = "data" \/ type = "bad"
          /\ Goto("handler", "read", "leave") /\ UNCHANGED <<job, parting>>
    /\ UNCHANGED <<expected, beatVars>>

ReadFrame ==
    /\ pc["handler"] = "read" /\ open /\ inbound # <<>>
    /\ inbound' = Tail(inbound)
    /\ LET frame == Head(inbound)
       IN  \/ frame.seq # expected /\ Refuse("any")
           \/ frame.seq = expected /\ frame.type = "bad" /\ Refuse("bad")
           \/ /\ frame.seq = expected /\ frame.type # "bad"
              /\ expected' = nextSequence(expected)
              /\ \/ /\ frame.type = "ping" /\ Start("handler", "read", "pong", frame.nonce)
                    /\ UNCHANGED <<parting, beatVars>>
                 \/ /\ frame.type = "pong" /\ Acknowledge(frame.nonce)
                    /\ UNCHANGED <<pc, job, parting, nonce, active>>
                 \/ /\ frame.type = "packet"
                    /\ UNCHANGED <<pc, job, parting, beatVars>>
    /\ UNCHANGED <<kind, open, writerVars, wire, peer, failed>>

ReadFails ==
    /\ ~open
    /\ Goto("handler", "read", "leave")
    /\ UNCHANGED <<kind, open, writerVars, job, parting, expected, beatVars, wire, inbound, peer, failed>>

-----------------------------------------------------------------------------
(* runHeartbeat and writeRelayOutput *)

\* A tick, tracker.begin: a new nonce, unless one is outstanding.
Beat ==
    /\ active /\ ~pending
    /\ nonce' = (nonce % MaxNonce) + 1
    /\ pending' = TRUE /\ aged' = FALSE
    /\ Start("heart", "tick", "ping", nonce')
    /\ UNCHANGED <<kind, open, writerVars, parting, expected, active, wire, inbound, peer, failed>>

\* Mutant of BeatExpired: the goroutine ends and leaves the connection open.
BeatGivesUp ==
    /\ active /\ pending /\ aged
    /\ Goto("heart", "tick", "done")
    /\ UNCHANGED <<kind, open, writerVars, job, parting, expected, beatVars, wire, inbound, peer, failed>>

\* The one that is outstanding has expired.
BeatExpired ==
    /\ active /\ pending /\ aged
    /\ Goto("heart", "tick", "leave")
    /\ UNCHANGED <<kind, open, writerVars, job, parting, expected, beatVars, wire, inbound, peer, failed>>

\* A stop command has closed stopRequested; shutdown follows, for Control the
\* third goroutine, for Data the one that closes the connection (SessionEnds).
BeatStops ==
    /\ kind = "data" \/ pc["third"] # "idle"
    /\ Goto("heart", "tick", "done")
    /\ UNCHANGED <<kind, open, writerVars, job, parting, expected, beatVars, wire, inbound, peer, failed>>

\* A packet of the relay, or shutdown.
Third ==
    /\ Start("third", "idle", IF kind = "data" THEN "packet" ELSE "stop", 0)
    /\ UNCHANGED <<kind, open, writerVars, parting, expected, beatVars, wire, inbound, peer, failed>>

\* The relay was closed.
OutputEnds ==
    /\ kind = "data"
    /\ Goto("third", "idle", "leave")
    /\ UNCHANGED <<kind, open, writerVars, job, parting, expected, beatVars, wire, inbound, peer, failed>>

\* The Control session has ended, or shutdown: the data connection is closed.
SessionEnds ==
    /\ kind = "data" /\ open
    /\ open' = FALSE /\ inbound' = <<>>
    /\ UNCHANGED <<kind, writerVars, pc, job, parting, expected, beatVars, wire, peer, failed>>

\* HeartbeatTimeout has passed since the nonce was made.
Elapse ==
    /\ pending /\ ~aged /\ aged' = TRUE
    /\ UNCHANGED <<kind, open, writerVars, pc, job, parting, expected, nonce, pending, active,
                   wire, inbound, peer, failed>>

\* VPN_STATUS ACTIVE arrives on the Control connection.  The data heartbeat reads the
\* snapshot at a tick and nobody else does here, so that changes between two ticks
\* are left out.
Activate ==
    /\ ~active /\ pc["heart"] = "tick" /\ active' = TRUE
    /\ UNCHANGED <<kind, open, writerVars, pc, job, parting, expected, nonce, pending, aged,
                   wire, inbound, peer, failed>>

\* The snapshot leaves ACTIVE while the channel is up: another VPN_STATUS, or the
\* loss of an earlier session, which is published after its successor's ACTIVE.
Deactivate ==
    /\ kind = "data" /\ active /\ pc["heart"] = "tick" /\ active' = FALSE
    /\ UNCHANGED <<kind, open, writerVars, pc, job, parting, expected, nonce, pending, aged,
                   wire, inbound, peer, failed>>

-----------------------------------------------------------------------------
(* The device *)

PeerStep == ~peer.silent /\ ~peer.refused
    /\ UNCHANGED <<kind, open, writerVars, pc, job, parting, expected, beatVars, failed>>

Complete(frame) ==
    peer' = [peer EXCEPT !.hears = nextSequence(@), !.half = NoFrame,
                         !.owes = IF frame.type = "ping" THEN frame.nonce ELSE 0]

\* It reads the next part and refuses one that is not what ReadFrame expects there.
\* Before it reads on it answers a PING.
Hear ==
    /\ PeerStep /\ wire # <<>> /\ peer.owes = 0
    /\ wire' = Tail(wire)
    /\ LET next == Head(wire)
           whole == kind = "data" /\ next.frame.type = "ack"
       IN  IF peer.half = NoFrame
           THEN IF next.part = "header" /\ next.frame.seq = peer.hears
                THEN IF whole THEN Complete(next.frame) ELSE peer' = [peer EXCEPT !.half = next.frame]
                ELSE peer' = [peer EXCEPT !.refused = TRUE]
           ELSE IF next.part = "payload" /\ next.frame = peer.half
                THEN Complete(next.frame)
                ELSE peer' = [peer EXCEPT !.refused = TRUE]
    /\ UNCHANGED inbound

\* It answers a PING with its nonce, or sends a frame of its own.
Say ==
    /\ PeerStep /\ open /\ Len(inbound) < Capacity
    /\ \E type \in {"pong", "ping", "packet", "bad"} :
          /\ type = "pong" <=> peer.owes # 0
          /\ type = "pong" \/ peer.hears # 1
          /\ inbound' = Append(inbound, [type |-> type, seq |-> peer.says,
                                         nonce |-> IF type = "pong" THEN peer.owes ELSE 0])
    /\ peer' = [peer EXCEPT !.says = nextSequence(@), !.owes = 0]
    /\ UNCHANGED wire

FallSilent ==
    /\ PeerStep
    /\ peer' = [peer EXCEPT !.silent = TRUE]
    /\ UNCHANGED <<wire, inbound>>

WriteStep(t) == Lock(t) \/ WriteHeader(t) \/ WritePayload(t) \/ WriteFails(t) \/ Leave(t)

Next ==
    \/ \E t \in Threads : WriteStep(t)
    \/ ClearDeadline \/ ReadFrame \/ ReadFails
    \/ Beat \/ BeatExpired \/ BeatStops \/ Third \/ OutputEnds \/ SessionEnds \/ Elapse
    \/ Activate \/ Deactivate
    \/ Hear \/ Say \/ FallSilent

Spec == Init /\ [][Next]_vars

\* The goroutines go on, the lock is handed to whoever waits for it, and time
\* passes; shutdown goes on to close the data connection once it has ended the
\* heartbeat.  The device, the relay and the user need do nothing.
Fairness ==
    /\ \A t \in Threads :
          /\ SF_vars(Lock(t))
          /\ WF_vars(WriteHeader(t) \/ WritePayload(t) \/ WriteFails(t)) /\ WF_vars(Leave(t))
    /\ WF_vars(ClearDeadline) /\ WF_vars(ReadFrame) /\ WF_vars(ReadFails)
    /\ WF_vars(Beat) /\ WF_vars(BeatExpired) /\ WF_vars(Elapse)
    /\ WF_vars(pc["heart"] = "done" /\ SessionEnds)

FairSpec == Spec /\ Fairness

-----------------------------------------------------------------------------

FlagsOK ==
    /\ open \in BOOLEAN /\ untimed \in BOOLEAN /\ parting \in BOOLEAN /\ failed \in BOOLEAN
    /\ pending \in BOOLEAN /\ aged \in BOOLEAN /\ active \in BOOLEAN

WritersOK ==
    /\ mu \in Threads \cup {"none"} /\ pc \in [Threads -> Places] /\ job \in [Threads -> Frames]
    /\ sequence \in 1 .. MaxSequence

ReaderOK ==
    /\ kind \in Kinds /\ expected \in 1 .. MaxSequence /\ nonce \in 0 .. MaxNonce
    /\ inbound \in Seq(Frames) /\ Len(inbound) <= Capacity

DeviceOK ==
    /\ wire \in Seq(Parts) /\ Len(wire) <= Capacity
    /\ peer \in Peers

\* Every field has its type; no sequence number is ever zero.
TypeOK == FlagsOK /\ WritersOK /\ ReaderOK /\ DeviceOK

\* What the device reads are whole frames in sequence (frameWriter, nextSequence),
\* through every wrap of the number, as long as no write has failed.  The exception
\* is the code's: HELLO_ACK does not go through the writer, so that the STOP_REQUEST
\* of a shutdown can come before it or into it.
InSequence ==
    peer.refused /\ ~failed => kind = "control" /\ pc["third"] # "idle" /\ peer.hears = 1

\* The writer's lock is always released again (frameWriter.Write): a peer that does
\* not read, because its answers wait for a Mac that does not read either while it
\* writes, holds the other goroutines up for a deadline, after which the connection is
\* closed.  The exception is a deadline that the handler cleared under the writer.
WriterReleased == mu # "none" ~> mu = "none" \/ untimed

\* A device that has fallen silent is noticed (runHeartbeat): the connection is
\* closed, even if the heartbeat itself waits behind a writer that is blocked, unless
\* the snapshot leaves ACTIVE, at which a data heartbeat pauses, or the deadline of the
\* blocked writer was cleared.
SilenceNoticed == peer.silent /\ active ~> ~open \/ ~active \/ untimed
=============================================================================
