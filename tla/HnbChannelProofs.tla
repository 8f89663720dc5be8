-------------------------- MODULE HnbChannelProofs --------------------------
(***************************************************************************)
(* Theorems about HnbChannel, for every largest sequence number, every     *)
(* capacity of the socket and any number of nonces: the types, and the     *)
(* stream the device reads.                                                *)
(***************************************************************************)
EXTENDS HnbChannel, SequenceTheorems, TLAPS

Writing == {"header", "payload"}

\* The handler writes its acknowledgement, which does not take the lock.
AckPending == pc["handler"] \in Writing /\ job["handler"].type = "ack"

\* The goroutines of the channel have not started.
Early == AckPending \/ pc["handler"] = "clear"

\* The lock and its holder.  Only the handler acknowledges, and until it has done
\* so nobody else writes, except for shutdown on Control.
Holders ==
    /\ \A t \in Threads : mu = t <=> pc[t] \in Writing /\ job[t].type # "ack"
    /\ \A t \in Threads : pc[t] = "lock" => job[t].type # "ack"
    /\ \A t \in Threads : pc[t] \in Writing /\ job[t].type = "ack" => t = "handler"
    /\ AckPending => job["handler"] = Acknowledgement
    /\ Early => pc["heart"] = "none" /\ (kind = "data" => pc["third"] = "none")

NumberTaken == \A t \in Threads : mu = t => sequence = nextSequence(job[t].seq)

LockInv == Holders /\ NumberTaken

\* Part q may follow part p on the stream.
After(p, q) ==
    IF p.part = "header" /\ ~(kind = "data" /\ p.frame.type = "ack")
    THEN q.part = "payload" /\ q.frame = p.frame
    ELSE q.part = "header" /\ q.frame.seq = nextSequence(p.frame.seq)

\* Part q is what the device expects.
Expected(q) ==
    IF peer.half = NoFrame THEN q.part = "header" /\ q.frame.seq = peer.hears
    ELSE q.part = "payload" /\ q.frame = peer.half

\* Part q is what the daemon writes next.
Upcoming(q) ==
    IF AckPending THEN q.part = pc["handler"] /\ q.frame = job["handler"]
    ELSE IF mu # "none" THEN q.part = pc[mu] /\ q.frame = job[mu]
    ELSE q.part = "header" /\ q.frame.seq = sequence

\* While the acknowledgement is written, nothing but its header is on the wire, and
\* shutdown has not begun to write.
AckInv ==
    AckPending =>
        /\ peer.hears = 1 /\ \A j \in 1 .. Len(wire) : wire[j].part = "header"
        /\ pc["handler"] = "header" => wire = <<>> /\ peer.half = NoFrame
        /\ pc["handler"] = "payload" => kind = "control"
        /\ \/ mu = "none" /\ sequence = 2 /\ pc["third"] \in {"none", "idle", "lock"}
           \/ mu = "third" /\ pc["third"] = "header" /\ job["third"].seq = 2

HalfInv ==
    peer.half # NoFrame => peer.half.seq = peer.hears /\ ~(kind = "data" /\ peer.half.type = "ack")

\* From what the device expects to what the daemon writes next, every part follows
\* the one before it.
Linked ==
    /\ \A i \in 1 .. Len(wire) - 1 : After(wire[i], wire[i + 1])
    /\ wire # <<>> => Expected(wire[1]) /\ \A q \in Parts : Upcoming(q) => After(wire[Len(wire)], q)
    /\ wire = <<>> => \A q \in Parts : Upcoming(q) => Expected(q)

Chain == ~peer.refused /\ AckInv /\ HalfInv /\ Linked

\* shutdown wrote its STOP_REQUEST before HELLO_ACK was complete: what the device
\* reads until it refuses is a header at most.
StopFirst ==
    /\ kind = "control" /\ pc["third"] # "idle" /\ peer.hears = 1
    /\ peer.refused \/ \E i \in 1 .. Len(wire) :
            /\ wire[i].frame.seq # 1
            /\ \A j \in 1 .. i : wire[j].part = "header"

StreamInv == failed \/ StopFirst \/ Chain

Inv == TypeOK /\ LockInv /\ StreamInv

-----------------------------------------------------------------------------
(* Types *)

\* nextSequence skips zero.
LEMMA NextSequenceType == \A n \in 0 .. MaxSequence : nextSequence(n) \in 1 .. MaxSequence
  BY BoundsAssumption DEF nextSequence

\* The Boolean fields, which Zenon handles.
LEMMA FlagsStep == FlagsOK /\ [Next]_vars => FlagsOK'
<1> SUFFICES ASSUME FlagsOK, [Next]_vars PROVE FlagsOK'  OBVIOUS
<1> USE DEF FlagsOK, vars, writerVars, beatVars
<1>1. ASSUME NEW t \in Threads, WriteStep(t) PROVE FlagsOK'
  <2>1. CASE Lock(t)  BY <2>1, Zenon DEF Lock
  <2>0. Unlock(t) => untimed' \in BOOLEAN  BY Zenon DEF Unlock
  <2>2. CASE WriteHeader(t)  BY <2>0, <2>2, Zenon DEF WriteHeader
  <2>3. CASE WritePayload(t)  BY <2>0, <2>3, Zenon DEF WritePayload
  <2>4. CASE WriteFails(t)  BY <2>0, <2>4, Zenon DEF WriteFails
  <2>5. CASE Leave(t)  BY <2>5, Zenon DEF Leave
  <2>6. QED  BY <1>1, <2>1, <2>2, <2>3, <2>4, <2>5 DEF WriteStep
<1>2. CASE ReadFrame
  <2>1. ASSUME NEW type, Refuse(type) PROVE parting' \in BOOLEAN /\ UNCHANGED <<pending, aged, active>>
    BY <2>1, Zenon DEF Refuse, Start, Goto
  <2>2. ASSUME NEW n, Acknowledge(n) PROVE pending' \in BOOLEAN /\ aged' \in BOOLEAN
    BY <2>2, Zenon DEF Acknowledge
  <2>3. QED  BY <1>2, <2>1, <2>2, Zenon DEF ReadFrame
<1>3. CASE ReadFails  BY <1>3, Zenon DEF ReadFails
<1>4. CASE Beat  BY <1>4, Zenon DEF Beat
<1>5. CASE BeatExpired  BY <1>5, Zenon DEF BeatExpired
<1>6. CASE BeatStops  BY <1>6, Zenon DEF BeatStops
<1>7. CASE Third  BY <1>7, Zenon DEF Third
<1>8. CASE OutputEnds  BY <1>8, Zenon DEF OutputEnds
<1>9. CASE SessionEnds  BY <1>9, Zenon DEF SessionEnds
<1>10. CASE Elapse  BY <1>10, Zenon DEF Elapse
<1>11. CASE Activate  BY <1>11, Zenon DEF Activate
<1>12. CASE ClearDeadline  BY <1>12, Zenon DEF ClearDeadline
<1>13. CASE Deactivate  BY <1>13, Zenon DEF Deactivate
<1>14. CASE Hear  BY <1>14, Zenon DEF Hear, PeerStep
<1>15. CASE Say  BY <1>15, Zenon DEF Say, PeerStep
<1>16. CASE FallSilent  BY <1>16, Zenon DEF FallSilent, PeerStep
<1>17. CASE UNCHANGED vars  BY <1>17, Zenon
<1>18. QED
  BY <1>1, <1>2, <1>3, <1>4, <1>5, <1>6, <1>7, <1>8, <1>9, <1>10, <1>11, <1>12, <1>13,
     <1>14, <1>15, <1>16, <1>17, Zenon DEF Next

\* A goroutine that starts a frame, or goes elsewhere.
LEMMA StartType ==
    ASSUME WritersOK, NEW t \in Threads, NEW from, NEW type \in Types, NEW n \in 0 .. MaxNonce,
           Start(t, from, type, n)
    PROVE  pc' \in [Threads -> Places] /\ job' \in [Threads -> Frames]
<1>1. [type |-> type, seq |-> 0, nonce |-> n] \in Frames  BY BoundsAssumption DEF Frames
<1>2. QED  BY <1>1 DEF WritersOK, Start, Goto, Places

\* One goroutine moves.
LEMMA GotoType ==
    ASSUME WritersOK, NEW t \in Threads, NEW from, NEW to \in Places, Goto(t, from, to)
    PROVE  pc' \in [Threads -> Places]
  BY DEF WritersOK, Goto

\* Write returns.
LEMMA UnlockType ==
    ASSUME WritersOK, NEW t \in Threads, Unlock(t)
    PROVE  mu' \in Threads \cup {"none"} /\ job' \in [Threads -> Frames]
<1>1. NoFrame \in Frames  BY BoundsAssumption DEF NoFrame, Frames, Types
<1>2. QED  BY <1>1 DEF WritersOK, Unlock

\* The handler goes on, and may start the other goroutines.
LEMMA ContinueType ==
    ASSUME WritersOK, NEW t \in Threads, Continue(t)
    PROVE  pc' \in [Threads -> Places]
<1>1. Resume(t) \in Places  BY DEF Resume, Places, Threads
<1>2. QED  BY <1>1 DEF WritersOK, Continue, Places, Threads

\* The types of the writers.
LEMMA WritersStep == TypeOK /\ [Next]_vars => WritersOK'
<1> SUFFICES ASSUME TypeOK, [Next]_vars PROVE WritersOK'  OBVIOUS
<1>0. WritersOK /\ ReaderOK /\ nonce \in 0 .. MaxNonce  BY DEF TypeOK, ReaderOK
<1> USE DEF vars, writerVars, beatVars
<1>1. ASSUME NEW t \in Threads, WriteStep(t) PROVE WritersOK'
  <2>1. CASE Lock(t)
    <3>1. sequence \in 0 .. MaxSequence /\ sequence' \in 1 .. MaxSequence
      BY <1>0, <2>1, NextSequenceType DEF Lock, WritersOK
    <3>2. job' \in [Threads -> Frames]  BY <1>0, <2>1, <3>1 DEF Lock, WritersOK, Frames
    <3>3. pc' \in [Threads -> Places]  BY <1>0, <2>1, GotoType DEF Lock, Places
    <3>4. QED  BY <2>1, <3>1, <3>2, <3>3 DEF Lock, WritersOK
  <2>2. CASE WriteHeader(t)
    <3>1. CASE NoPayload(t)
      BY <1>0, <2>2, <3>1, UnlockType, ContinueType DEF WriteHeader, WritersOK
    <3>2. CASE ~NoPayload(t)
      BY <1>0, <2>2, <3>2 DEF WriteHeader, WritersOK, Places
    <3>3. QED  BY <3>1, <3>2
  <2>3. CASE WritePayload(t)
    BY <1>0, <2>3, UnlockType, ContinueType DEF WritePayload, WritersOK
  <2>4. CASE WriteFails(t)
    <3>1. pc' \in [Threads -> Places]  BY <1>0, <2>4 DEF WriteFails, WritersOK, Places
    <3>2. QED  BY <1>0, <2>4, <3>1, UnlockType DEF WriteFails, WritersOK
  <2>5. CASE Leave(t)  BY <1>0, <2>5, GotoType DEF Leave, WritersOK, Places
  <2>6. QED  BY <1>1, <2>1, <2>2, <2>3, <2>4, <2>5 DEF WriteStep
<1>2. CASE ReadFrame
  <2>0. inbound # <<>> /\ Head(inbound) \in Frames  BY <1>0, <1>2 DEF ReadFrame, ReaderOK
  <2>1. ASSUME NEW type, Refuse(type) PROVE pc' \in [Threads -> Places] /\ job' \in [Threads -> Frames]
    <3>1. CASE Start("handler", "read", "error", 0)
      BY <1>0, <3>1, StartType, BoundsAssumption DEF Threads, Types
    <3>2. CASE Goto("handler", "read", "leave") /\ UNCHANGED job
      BY <1>0, <3>2, GotoType DEF Threads, Places, WritersOK
    <3>3. QED  BY <2>1, <3>1, <3>2 DEF Refuse
  <2>2. ASSUME Start("handler", "read", "pong", Head(inbound).nonce)
        PROVE  pc' \in [Threads -> Places] /\ job' \in [Threads -> Frames]
    <3>1. Head(inbound).nonce \in 0 .. MaxNonce  BY <2>0 DEF Frames
    <3>2. QED  BY <1>0, <2>2, <3>1, StartType DEF Threads, Types
  <2>3. pc' \in [Threads -> Places] /\ job' \in [Threads -> Frames]
    BY <1>0, <1>2, <2>1, <2>2 DEF ReadFrame, WritersOK
  <2>4. QED  BY <1>0, <1>2, <2>3 DEF ReadFrame, WritersOK
<1>3. CASE ReadFails  BY <1>0, <1>3, GotoType DEF ReadFails, WritersOK, Threads, Places
<1>4. CASE Beat
  <2>1. nonce' \in 0 .. MaxNonce  BY <1>0, <1>4, BoundsAssumption DEF Beat
  <2>2. QED  BY <1>0, <1>4, <2>1, StartType DEF Beat, WritersOK, Threads, Types
<1>5. CASE BeatExpired  BY <1>0, <1>5, GotoType DEF BeatExpired, WritersOK, Threads, Places
<1>6. CASE BeatStops  BY <1>0, <1>6, GotoType DEF BeatStops, WritersOK, Threads, Places
<1>7. CASE Third
  <2>1. (IF kind = "data" THEN "packet" ELSE "stop") \in Types  BY DEF Types
  <2>2. QED  BY <1>0, <1>7, <2>1, StartType, BoundsAssumption DEF Third, WritersOK, Threads
<1>8. CASE OutputEnds  BY <1>0, <1>8, GotoType DEF OutputEnds, WritersOK, Threads, Places
<1>9. CASE SessionEnds  BY <1>0, <1>9 DEF SessionEnds, WritersOK
<1>10. CASE Elapse  BY <1>0, <1>10 DEF Elapse, WritersOK
<1>11. CASE Activate  BY <1>0, <1>11 DEF Activate, WritersOK
<1>12. CASE ClearDeadline  BY <1>0, <1>12 DEF ClearDeadline, WritersOK, Places, Threads
<1>13. CASE Deactivate  BY <1>0, <1>13 DEF Deactivate, WritersOK
<1>14. CASE Hear  BY <1>0, <1>14 DEF Hear, PeerStep, WritersOK
<1>15. CASE Say  BY <1>0, <1>15 DEF Say, PeerStep, WritersOK
<1>16. CASE FallSilent  BY <1>0, <1>16 DEF FallSilent, PeerStep, WritersOK
<1>17. CASE UNCHANGED vars  BY <1>0, <1>17 DEF WritersOK
<1>18. QED
  BY <1>1, <1>2, <1>3, <1>4, <1>5, <1>6, <1>7, <1>8, <1>9, <1>10, <1>11, <1>12, <1>13,
     <1>14, <1>15, <1>16, <1>17 DEF Next

\* The types of the reading loop and of the heartbeat.
LEMMA ReaderStep == TypeOK /\ [Next]_vars => ReaderOK'
<1> SUFFICES ASSUME TypeOK, [Next]_vars PROVE ReaderOK'  OBVIOUS
<1>0. ReaderOK /\ DeviceOK  BY DEF TypeOK
<1>a. <<>> \in Seq(Frames) /\ Len(<<>>) <= Capacity  BY BoundsAssumption
<1> USE DEF vars, writerVars, beatVars
<1>1. ASSUME NEW t \in Threads, WriteStep(t) PROVE ReaderOK'
  <2>1. CASE Lock(t)  BY <1>0, <2>1 DEF Lock, ReaderOK
  <2>2. CASE WriteHeader(t)  BY <1>0, <2>2 DEF WriteHeader, ReaderOK
  <2>3. CASE WritePayload(t)  BY <1>0, <2>3 DEF WritePayload, ReaderOK
  <2>4. CASE WriteFails(t)  BY <1>0, <2>4 DEF WriteFails, ReaderOK
  <2>5. CASE Leave(t)  BY <1>0, <1>a, <2>5 DEF Leave, ReaderOK
  <2>6. QED  BY <1>1, <2>1, <2>2, <2>3, <2>4, <2>5 DEF WriteStep
<1>2. CASE ReadFrame
  <2>1. inbound' \in Seq(Frames) /\ Len(inbound') <= Capacity
    BY <1>0, <1>2, BoundsAssumption DEF ReadFrame, ReaderOK
  <2>2. expected' \in 1 .. MaxSequence
    BY <1>0, <1>2, NextSequenceType DEF ReadFrame, ReaderOK, Refuse
  <2>3. nonce' = nonce /\ kind' = kind
    BY <1>2 DEF ReadFrame, Refuse
  <2>4. QED  BY <1>0, <2>1, <2>2, <2>3 DEF ReaderOK
<1>3. CASE ReadFails  BY <1>0, <1>3 DEF ReadFails, ReaderOK
<1>4. CASE Beat
  <2>1. nonce' \in 0 .. MaxNonce  BY <1>0, <1>4, BoundsAssumption DEF Beat, ReaderOK
  <2>2. QED  BY <1>0, <1>4, <2>1 DEF Beat, ReaderOK
<1>5. CASE BeatExpired  BY <1>0, <1>5 DEF BeatExpired, ReaderOK
<1>6. CASE BeatStops  BY <1>0, <1>6 DEF BeatStops, ReaderOK
<1>7. CASE Third  BY <1>0, <1>7 DEF Third, ReaderOK
<1>8. CASE OutputEnds  BY <1>0, <1>8 DEF OutputEnds, ReaderOK
<1>9. CASE SessionEnds  BY <1>0, <1>a, <1>9 DEF SessionEnds, ReaderOK
<1>10. CASE Elapse  BY <1>0, <1>10 DEF Elapse, ReaderOK
<1>11. CASE Activate  BY <1>0, <1>11 DEF Activate, ReaderOK
<1>12. CASE ClearDeadline  BY <1>0, <1>12 DEF ClearDeadline, ReaderOK
<1>13. CASE Deactivate  BY <1>0, <1>13 DEF Deactivate, ReaderOK
<1>14. CASE Hear  BY <1>0, <1>14 DEF Hear, PeerStep, ReaderOK
<1>15. CASE Say
  <2>1. PICK type \in {"pong", "ping", "packet", "bad"} :
          inbound' = Append(inbound, [type |-> type, seq |-> peer.says,
                                      nonce |-> IF type = "pong" THEN peer.owes ELSE 0])
    BY <1>15 DEF Say
  <2>2. [type |-> type, seq |-> peer.says, nonce |-> IF type = "pong" THEN peer.owes ELSE 0] \in Frames
    BY <1>0, BoundsAssumption DEF DeviceOK, Peers, Frames, Types
  <2>3. inbound' \in Seq(Frames) /\ Len(inbound') <= Capacity
    BY <1>0, <1>15, <2>1, <2>2, BoundsAssumption DEF Say, ReaderOK
  <2>4. QED  BY <1>0, <1>15, <2>3 DEF Say, PeerStep, ReaderOK
<1>16. CASE FallSilent  BY <1>0, <1>16 DEF FallSilent, PeerStep, ReaderOK
<1>17. CASE UNCHANGED vars  BY <1>0, <1>17 DEF ReaderOK
<1>18. QED
  BY <1>1, <1>2, <1>3, <1>4, <1>5, <1>6, <1>7, <1>8, <1>9, <1>10, <1>11, <1>12, <1>13,
     <1>14, <1>15, <1>16, <1>17 DEF Next

\* A part is put on the wire.
LEMMA PutType ==
    ASSUME TypeOK, NEW t \in Threads, NEW part \in {"header", "payload"}, Room, Put(t, part)
    PROVE  wire' \in Seq(Parts) /\ Len(wire') <= Capacity
<1>1. [part |-> part, frame |-> job[t]] \in Parts  BY DEF TypeOK, WritersOK, Parts
<1>2. QED  BY <1>1, BoundsAssumption DEF TypeOK, DeviceOK, Room, Put

\* The device has read a whole frame.
LEMMA CompleteType ==
    ASSUME peer \in Peers, NEW frame \in Frames, Complete(frame)
    PROVE  peer' \in Peers
<1>1. nextSequence(peer.hears) \in 1 .. MaxSequence  BY NextSequenceType DEF Peers
<1>2. [peer EXCEPT !.hears = nextSequence(peer.hears)] \in Peers  BY <1>1 DEF Peers
<1>3. NoFrame \in Frames  BY BoundsAssumption DEF NoFrame, Frames, Types
<1>4. \A p \in Peers : [p EXCEPT !.half = NoFrame] \in Peers  BY <1>3 DEF Peers
<1>5. frame.nonce \in 0 .. MaxNonce /\ 0 \in 0 .. MaxNonce  BY BoundsAssumption DEF Frames
<1>6. \A p \in Peers, n \in 0 .. MaxNonce : [p EXCEPT !.owes = n] \in Peers  BY DEF Peers
<1>7. QED  BY <1>2, <1>4, <1>5, <1>6 DEF Complete

\* The types of the device and of what is on its way to it.
LEMMA DeviceStep == TypeOK /\ [Next]_vars => DeviceOK'
<1> SUFFICES ASSUME TypeOK, [Next]_vars PROVE DeviceOK'  OBVIOUS
<1>0. DeviceOK  BY DEF TypeOK
<1> USE DEF vars, writerVars, beatVars
<1>1. ASSUME NEW t \in Threads, WriteStep(t) PROVE DeviceOK'
  <2>1. CASE Lock(t)  BY <1>0, <2>1 DEF Lock, DeviceOK
  <2>2. CASE WriteHeader(t)  BY <1>0, <2>2, PutType DEF WriteHeader, DeviceOK
  <2>3. CASE WritePayload(t)  BY <1>0, <2>3, PutType DEF WritePayload, DeviceOK
  <2>4. CASE WriteFails(t)  BY <1>0, <2>4 DEF WriteFails, DeviceOK
  <2>5. CASE Leave(t)  BY <1>0, <2>5 DEF Leave, DeviceOK
  <2>6. QED  BY <1>1, <2>1, <2>2, <2>3, <2>4, <2>5 DEF WriteStep
<1>2. CASE ReadFrame  BY <1>0, <1>2 DEF ReadFrame, DeviceOK
<1>3. CASE ReadFails  BY <1>0, <1>3 DEF ReadFails, DeviceOK
<1>4. CASE Beat  BY <1>0, <1>4 DEF Beat, DeviceOK
<1>5. CASE BeatExpired  BY <1>0, <1>5 DEF BeatExpired, DeviceOK
<1>6. CASE BeatStops  BY <1>0, <1>6 DEF BeatStops, DeviceOK
<1>7. CASE Third  BY <1>0, <1>7 DEF Third, DeviceOK
<1>8. CASE OutputEnds  BY <1>0, <1>8 DEF OutputEnds, DeviceOK
<1>9. CASE SessionEnds  BY <1>0, <1>9 DEF SessionEnds, DeviceOK
<1>10. CASE Elapse  BY <1>0, <1>10 DEF Elapse, DeviceOK
<1>11. CASE Activate  BY <1>0, <1>11 DEF Activate, DeviceOK
<1>12. CASE ClearDeadline  BY <1>0, <1>12 DEF ClearDeadline, DeviceOK
<1>13. CASE Deactivate  BY <1>0, <1>13 DEF Deactivate, DeviceOK
<1>14. CASE Hear
  <2>1. wire' \in Seq(Parts) /\ Len(wire') <= Capacity
    BY <1>0, <1>14, BoundsAssumption DEF Hear, DeviceOK
  <2>2. Head(wire).frame \in Frames
    <3>1. Head(wire) \in Parts  BY <1>0, <1>14 DEF Hear, DeviceOK
    <3>2. QED  BY <3>1 DEF Parts
  <2>3. NoFrame \in Frames /\ nextSequence(peer.hears) \in 1 .. MaxSequence
    BY <1>0, NextSequenceType, BoundsAssumption DEF DeviceOK, Peers, NoFrame, Frames, Types
  <2>4. ASSUME Complete(Head(wire).frame) PROVE DeviceOK'
    BY <1>0, <2>1, <2>2, <2>3, <2>4, CompleteType DEF DeviceOK
  <2>5. ASSUME peer' = [peer EXCEPT !.half = Head(wire).frame] PROVE DeviceOK'
    BY <1>0, <2>1, <2>2, <2>5 DEF DeviceOK, Peers
  <2>6. ASSUME peer' = [peer EXCEPT !.refused = TRUE] PROVE DeviceOK'
    BY <1>0, <2>1, <2>6 DEF DeviceOK, Peers
  <2>7. QED  BY <1>14, <2>4, <2>5, <2>6 DEF Hear
<1>15. CASE Say
  <2>1. nextSequence(peer.says) \in 1 .. MaxSequence  BY <1>0, NextSequenceType DEF DeviceOK, Peers
  <2>2. [peer EXCEPT !.says = nextSequence(peer.says)] \in Peers  BY <1>0, <2>1 DEF DeviceOK, Peers
  <2>3. \A p \in Peers : [p EXCEPT !.owes = 0] \in Peers  BY BoundsAssumption DEF Peers
  <2>4. peer' \in Peers  BY <1>15, <2>2, <2>3 DEF Say
  <2>5. QED  BY <1>0, <1>15, <2>4 DEF Say, DeviceOK
<1>16. CASE FallSilent  BY <1>0, <1>16 DEF FallSilent, DeviceOK, Peers
<1>17. CASE UNCHANGED vars  BY <1>0, <1>17 DEF DeviceOK
<1>18. QED
  BY <1>1, <1>2, <1>3, <1>4, <1>5, <1>6, <1>7, <1>8, <1>9, <1>10, <1>11, <1>12, <1>13,
     <1>14, <1>15, <1>16, <1>17 DEF Next

\* Every step preserves the types.
LEMMA TypeStep == TypeOK /\ [Next]_vars => TypeOK'
  BY FlagsStep, WritersStep, ReaderStep, DeviceStep DEF TypeOK

\* The types hold at first.
LEMMA InitType == Init => TypeOK
<1> SUFFICES ASSUME Init PROVE TypeOK  OBVIOUS
<1>1. FlagsOK  BY Zenon DEF Init, FlagsOK
<1>2. WritersOK
  BY BoundsAssumption DEF Init, WritersOK, Threads, Places, Frames, Types, NoFrame, Acknowledgement
<1>3. ReaderOK  BY BoundsAssumption DEF Init, ReaderOK
<1>4. DeviceOK
  BY BoundsAssumption DEF Init, DeviceOK, Peers, Frames, Types, NoFrame
<1>5. QED  BY <1>1, <1>2, <1>3, <1>4 DEF TypeOK

-----------------------------------------------------------------------------
(* The lock *)

\* What the steps of a goroutine make of its place and its frame.
LEMMA StartSets ==
    ASSUME WritersOK, NEW t \in Threads, NEW from, NEW type, NEW n, Start(t, from, type, n)
    PROVE  /\ pc[t] = from /\ pc'[t] = "lock" /\ job'[t].type = type
           /\ \A u \in Threads \ {t} : pc'[u] = pc[u] /\ job'[u] = job[u]
  BY DEF WritersOK, Start, Goto

\* What Goto does to pc.
LEMMA GotoSets ==
    ASSUME WritersOK, NEW t \in Threads, NEW from, NEW to, Goto(t, from, to)
    PROVE  pc[t] = from /\ pc'[t] = to /\ \A u \in Threads \ {t} : pc'[u] = pc[u]
  BY DEF WritersOK, Goto

\* What frameWriter.Write does to its fields.
LEMMA LockSets ==
    ASSUME WritersOK, NEW t \in Threads, Lock(t)
    PROVE  /\ pc[t] = "lock" /\ pc'[t] = "header"
           /\ job'[t].type = job[t].type /\ job'[t].seq = sequence
           /\ \A u \in Threads \ {t} : pc'[u] = pc[u] /\ job'[u] = job[u]
<1>1. pc[t] = "lock" /\ pc'[t] = "header" /\ \A u \in Threads \ {t} : pc'[u] = pc[u]
  BY GotoSets DEF Lock
<1>2. job' = [job EXCEPT ![t] = [job[t] EXCEPT !.seq = sequence]]  BY DEF Lock
<1>3. job[t] \in Frames  BY DEF WritersOK
<1>4. job'[t] = [job[t] EXCEPT !.seq = sequence] /\ \A u \in Threads \ {t} : job'[u] = job[u]
  BY <1>2 DEF WritersOK
<1>5. QED  BY <1>1, <1>3, <1>4 DEF Frames

\* What the end of Write does to lock and job.
LEMMA UnlockSets ==
    ASSUME WritersOK, NEW t \in Threads, Unlock(t)
    PROVE  /\ job'[t] = NoFrame /\ \A u \in Threads \ {t} : job'[u] = job[u]
           /\ mu' = IF mu = t THEN "none" ELSE mu
  BY DEF WritersOK, Unlock

\* What the end of a frame does to pc.
LEMMA ContinueSets ==
    ASSUME WritersOK, NEW t \in Threads, Continue(t)
    PROVE  /\ job[t].type # "ack" => /\ pc'[t] \in {"leave", "read", "tick", "idle"}
                                     /\ kind = "control" => pc'[t] # "idle"
                                     /\ \A u \in Threads \ {t} : pc'[u] = pc[u]
           /\ job[t].type = "ack" => pc'[t] = "clear" /\ \A u \in Threads \ {t} : pc'[u] = pc[u]
<1>1. Resume(t) \in {"leave", "read", "tick", "idle"} /\ (kind = "control" => Resume(t) # "idle")
  BY DEF Resume, Threads
<1>2. QED  BY <1>1 DEF WritersOK, Continue, Threads

\* Every step keeps the lock with the goroutine that writes.
LEMMA LockStep == TypeOK /\ LockInv /\ [Next]_vars => LockInv'
<1> SUFFICES ASSUME TypeOK, LockInv, [Next]_vars PROVE LockInv'  OBVIOUS
<1>0. WritersOK /\ kind \in {"control", "data"}  BY KindsAssumption DEF TypeOK, ReaderOK
<1>a. "handler" \in Threads /\ "heart" \in Threads /\ "third" \in Threads /\ "none" \notin Threads
  BY DEF Threads
<1> USE DEF vars, writerVars, beatVars, LockInv, Holders, NumberTaken, AckPending, Early, Writing
\* A goroutine that is not writing goes somewhere where it is not writing either.
<1>b. ASSUME NEW t \in Threads, UNCHANGED <<kind, mu, sequence>>, pc[t] \notin Writing,
             pc'[t] \notin Writing, pc'[t] # "clear", pc'[t] = "lock" => job'[t].type # "ack",
             t = "heart" => pc["heart"] # "none", t = "third" => pc["third"] # "none",
             \A u \in Threads \ {t} : pc'[u] = pc[u] /\ job'[u] = job[u]
      PROVE  LockInv'
  <2>1. NumberTaken'  BY <1>b
  <2>2. Holders'  BY <1>0, <1>a, <1>b DEF Threads
  <2>3. QED  BY <2>1, <2>2
<1>c. ASSUME UNCHANGED <<kind, mu, sequence, pc, job>> PROVE LockInv'  BY <1>c
<1>1. ASSUME NEW t \in Threads, WriteStep(t) PROVE LockInv'
  <2>1. CASE Lock(t)
    <3>1. mu = "none" /\ mu' = t /\ kind' = kind /\ sequence' = nextSequence(sequence)
      BY <2>1 DEF Lock
    <3>2. pc[t] = "lock" /\ pc'[t] = "header" /\ job'[t].type # "ack" /\ job'[t].seq = sequence
          /\ \A u \in Threads \ {t} : pc'[u] = pc[u] /\ job'[u] = job[u]
      BY <1>0, <2>1, LockSets
    <3>3. NumberTaken'  BY <3>1, <3>2
    <3>4. Holders'  BY <1>0, <1>a, <3>1, <3>2 DEF Threads
    <3>5. QED  BY <3>3, <3>4
  <2>2. CASE WriteHeader(t)
    <3>1. CASE NoPayload(t)
      <4>1. Unlock(t) /\ Continue(t) /\ kind = "data" /\ UNCHANGED <<kind, sequence>>
        BY <2>2, <3>1 DEF WriteHeader, NoPayload
      <4>2. pc[t] = "header" /\ job[t].type = "ack" /\ t = "handler"
        BY <2>2, <3>1 DEF WriteHeader, NoPayload
      <4>3. mu = "none" /\ mu' = "none"
        BY <1>0, <1>a, <4>1, <4>2, UnlockSets DEF WritersOK, Threads
      <4>4. pc'["handler"] = "clear" /\ pc'["heart"] = pc["heart"] /\ pc'["third"] = pc["third"]
        BY <1>0, <1>a, <4>1, <4>2, ContinueSets
      <4>5. pc["heart"] = "none" /\ pc["third"] = "none"  BY <4>1, <4>2
      <4>6. QED  BY <4>1, <4>3, <4>4, <4>5 DEF Threads
    <3>2. CASE ~NoPayload(t)
      <4>1. pc[t] = "header" /\ pc' = [pc EXCEPT ![t] = "payload"] /\ UNCHANGED <<kind, mu, job, sequence>>
        BY <2>2, <3>2 DEF WriteHeader
      <4>2. QED  BY <1>0, <4>1 DEF WritersOK, Threads
    <3>3. QED  BY <3>1, <3>2
  <2>3. CASE WritePayload(t)
    <3>1. pc[t] = "payload" /\ Unlock(t) /\ Continue(t) /\ UNCHANGED <<kind, sequence>>
      BY <2>3 DEF WritePayload
    <3>2. CASE job[t].type = "ack"
      <4>1. t = "handler" /\ mu' = mu /\ job'[t] = NoFrame
        BY <1>0, <1>a, <3>1, <3>2, UnlockSets DEF Threads
      <4>2. pc'["handler"] = "clear" /\ \A u \in Threads \ {"handler"} : pc'[u] = pc[u] /\ job'[u] = job[u]
        BY <1>0, <1>a, <3>1, <3>2, <4>1, UnlockSets, ContinueSets
      <4>3. pc["heart"] = "none" /\ (kind = "data" => pc["third"] = "none")  BY <3>1, <3>2, <4>1
      <4>4. QED  BY <1>a, <3>1, <3>2, <4>1, <4>2, <4>3 DEF Threads
    <3>3. CASE job[t].type # "ack"
      <4>1. mu = t /\ mu' = "none" /\ job'[t] = NoFrame
            /\ pc'[t] \in {"leave", "read", "tick", "idle"}
            /\ \A u \in Threads \ {t} : pc'[u] = pc[u] /\ job'[u] = job[u]
        BY <1>0, <3>1, <3>3, UnlockSets, ContinueSets
      <4>2. QED  BY <1>a, <3>1, <3>3, <4>1 DEF Threads
    <3>4. QED  BY <3>2, <3>3
  <2>4. CASE WriteFails(t)
    <3>1. pc[t] \in Writing /\ Unlock(t) /\ pc' = [pc EXCEPT ![t] = "leave"] /\ UNCHANGED <<kind, sequence>>
      BY <2>4 DEF WriteFails
    <3>2. job'[t] = NoFrame /\ pc'[t] = "leave" /\ (mu' = IF mu = t THEN "none" ELSE mu)
          /\ \A u \in Threads \ {t} : pc'[u] = pc[u] /\ job'[u] = job[u]
      BY <1>0, <3>1, UnlockSets DEF WritersOK
    <3>3. QED  BY <1>0, <1>a, <3>1, <3>2 DEF WritersOK, Threads
  <2>5. CASE Leave(t)
    BY <1>0, <1>b, <2>5, GotoSets DEF Leave, Threads
  <2>6. QED  BY <1>1, <2>1, <2>2, <2>3, <2>4, <2>5 DEF WriteStep
<1>2. CASE ReadFrame
  <2>1. ASSUME NEW type, NEW n, Start("handler", "read", type, n), type # "ack" PROVE LockInv'
    BY <1>0, <1>a, <1>b, <1>2, <2>1, StartSets DEF ReadFrame
  <2>2. ASSUME NEW to \in {"leave"}, Goto("handler", "read", to), UNCHANGED job PROVE LockInv'
    BY <1>0, <1>a, <1>b, <1>2, <2>2, GotoSets DEF ReadFrame
  <2>3. ASSUME NEW type, Refuse(type) PROVE LockInv'
    BY <2>1, <2>2, <2>3 DEF Refuse
  <2>4. QED  BY <1>2, <1>c, <2>1, <2>3 DEF ReadFrame
<1>3. CASE ReadFails  BY <1>0, <1>a, <1>b, <1>3, GotoSets DEF ReadFails
<1>4. CASE Beat  BY <1>0, <1>a, <1>b, <1>4, StartSets DEF Beat
<1>5. CASE BeatExpired  BY <1>0, <1>a, <1>b, <1>5, GotoSets DEF BeatExpired
<1>6. CASE BeatStops  BY <1>0, <1>a, <1>b, <1>6, GotoSets DEF BeatStops
<1>7. CASE Third
  <2>1. (IF kind = "data" THEN "packet" ELSE "stop") # "ack"  OBVIOUS
  <2>2. QED  BY <1>0, <1>a, <1>b, <1>7, <2>1, StartSets DEF Third
<1>8. CASE OutputEnds  BY <1>0, <1>a, <1>b, <1>8, GotoSets DEF OutputEnds
<1>9. CASE SessionEnds  BY <1>c, <1>9 DEF SessionEnds
<1>10. CASE Elapse  BY <1>c, <1>10 DEF Elapse
<1>11. CASE Activate  BY <1>c, <1>11 DEF Activate
<1>12. CASE ClearDeadline
  <2>1. /\ pc["handler"] = "clear" /\ pc["heart"] = "none" /\ (kind = "data" => pc["third"] = "none")
        /\ pc'["handler"] = "read" /\ pc'["heart"] = "tick"
        /\ pc'["third"] = IF kind = "data" THEN "idle" ELSE pc["third"]
        /\ UNCHANGED <<kind, mu, sequence, job>>
    BY <1>0, <1>a, <1>12 DEF ClearDeadline, WritersOK
  <2>2. NumberTaken'  BY <2>1
  <2>3. Holders'  BY <1>0, <1>a, <2>1 DEF Threads
  <2>4. QED  BY <2>2, <2>3
<1>13. CASE Deactivate  BY <1>c, <1>13 DEF Deactivate
<1>14. CASE Hear  BY <1>c, <1>14 DEF Hear, PeerStep
<1>15. CASE Say  BY <1>c, <1>15 DEF Say, PeerStep
<1>16. CASE FallSilent  BY <1>c, <1>16 DEF FallSilent, PeerStep
<1>17. CASE UNCHANGED vars  BY <1>c, <1>17
<1>18. QED
  BY <1>1, <1>2, <1>3, <1>4, <1>5, <1>6, <1>7, <1>8, <1>9, <1>10, <1>11, <1>12, <1>13,
     <1>14, <1>15, <1>16, <1>17 DEF Next

-----------------------------------------------------------------------------
(* The stream *)

SamePeer == peer'.hears = peer.hears /\ peer'.half = peer.half /\ peer'.refused = peer.refused

\* Nothing happens on the wire, and what comes next is no less certain.
LEMMA SameWire ==
    ASSUME UNCHANGED <<kind, wire>>, SamePeer, Chain, AckInv', \A q \in Parts : Upcoming(q)' => Upcoming(q)
    PROVE  Chain'
<1>1. ~peer'.refused /\ HalfInv'  BY DEF Chain, SamePeer, HalfInv
<1>2. ASSUME NEW q PROVE Expected(q)' <=> Expected(q)  BY DEF Expected, SamePeer
<1>3. ASSUME NEW p, NEW q PROVE After(p, q)' <=> After(p, q)  BY DEF After
<1>4. (\A i \in 1 .. Len(wire) - 1 : After(wire[i], wire[i + 1]))'
  BY <1>3 DEF Chain, Linked
<1>5. (wire # <<>> => Expected(wire[1]) /\ \A q \in Parts : Upcoming(q) => After(wire[Len(wire)], q))'
  BY <1>2, <1>3 DEF Chain, Linked
<1>6. (wire = <<>> => \A q \in Parts : Upcoming(q) => Expected(q))'
  BY <1>2 DEF Chain, Linked
<1>7. QED  BY <1>1, <1>4, <1>5, <1>6 DEF Chain, Linked

\* A step in which nobody who writes takes part.
LEMMA QuietStep ==
    ASSUME TypeOK, LockInv, StreamInv, UNCHANGED <<kind, mu, sequence, wire, failed>>, SamePeer,
           \A t \in Threads :
               pc[t] \in Writing \/ pc'[t] \in Writing => pc'[t] = pc[t] /\ job'[t] = job[t],
           pc["third"] # "idle" => pc'["third"] # "idle",
           AckPending /\ pc["third"] \in {"none", "idle", "lock"} => pc'["third"] \in {"none", "idle", "lock"}
    PROVE  StreamInv'
<1>0. "handler" \in Threads /\ "third" \in Threads /\ mu \in Threads \cup {"none"}
  BY DEF Threads, TypeOK, WritersOK
<1>1. AckPending' <=> AckPending  BY <1>0 DEF AckPending
<1>2. AckPending => pc'["handler"] = pc["handler"] /\ job'["handler"] = job["handler"]
  BY <1>0 DEF AckPending
<1>3. mu # "none" => pc'[mu] = pc[mu] /\ job'[mu] = job[mu]
  BY <1>0 DEF LockInv, Holders
<1>4. ASSUME NEW q \in Parts, Upcoming(q)' PROVE Upcoming(q)
  BY <1>1, <1>2, <1>3, <1>4 DEF Upcoming
<1>5. CASE failed  BY <1>5 DEF StreamInv
<1>6. CASE StopFirst  BY <1>6 DEF StreamInv, StopFirst, SamePeer
<1>7. CASE Chain
  <2>1. AckInv'
    <3>1. SUFFICES ASSUME AckPending' PROVE AckInv'  BY DEF AckInv
    <3>2. AckPending  BY <1>1, <3>1
    <3>3. CASE mu = "none" /\ sequence = 2 /\ pc["third"] \in {"none", "idle", "lock"}
      BY <1>2, <1>7, <3>2, <3>3 DEF Chain, AckInv, SamePeer
    <3>4. CASE mu = "third" /\ pc["third"] = "header" /\ job["third"].seq = 2
      BY <1>2, <1>3, <1>7, <3>2, <3>4 DEF Chain, AckInv, SamePeer
    <3>5. QED  BY <1>7, <3>2, <3>3, <3>4 DEF Chain, AckInv
  <2>2. Chain'  BY <1>4, <1>7, <2>1, SameWire
  <2>3. QED  BY <2>2 DEF StreamInv
<1>8. QED  BY <1>5, <1>6, <1>7 DEF StreamInv

\* The part the daemon writes next is put on the wire.
LEMMA Appended ==
    ASSUME TypeOK, Chain, NEW p \in Parts, Upcoming(p), wire' = Append(wire, p), SamePeer,
           kind' = kind, AckInv', \A q \in Parts : Upcoming(q)' => After(p, q)
    PROVE  Chain'
<1>0. wire \in Seq(Parts) /\ Len(wire) \in Nat  BY DEF TypeOK, DeviceOK
<1>1. /\ Len(wire') = Len(wire) + 1 /\ wire'[Len(wire) + 1] = p /\ wire' # <<>>
      /\ \A i \in 1 .. Len(wire) : wire'[i] = wire[i]
  BY <1>0
<1>2. ~peer'.refused /\ HalfInv'  BY DEF Chain, SamePeer, HalfInv
<1>3. ASSUME NEW q PROVE Expected(q)' <=> Expected(q)  BY DEF Expected, SamePeer
<1>4. ASSUME NEW q, NEW r PROVE After(q, r)' <=> After(q, r)  BY DEF After
<1>5. CASE wire = <<>>
  <2>1. Len(wire) = 0 /\ Len(wire') = 1 /\ wire'[1] = p  BY <1>1, <1>5
  <2>2. Expected(p)  BY <1>5 DEF Chain, Linked
  <2>3. Expected(wire[1])'  BY <1>3, <2>1, <2>2 DEF Expected
  <2>4. \A q \in Parts : Upcoming(q)' => After(wire[Len(wire)], q)'  BY <1>4, <2>1 DEF After
  <2>5. (\A i \in 1 .. Len(wire) - 1 : After(wire[i], wire[i + 1]))'  BY <2>1
  <2>6. Linked'  BY <1>1, <2>3, <2>4, <2>5 DEF Linked
  <2>7. QED  BY <1>2, <2>6 DEF Chain
<1>6. CASE wire # <<>>
  <2>1. Len(wire) > 0  BY <1>0, <1>6
  <2>2. wire'[1] = wire[1] /\ wire'[Len(wire)] = wire[Len(wire)]  BY <1>0, <1>1, <2>1
  <2>3. Expected(wire[1])'  BY <1>6, <2>2 DEF Chain, Linked, Expected, SamePeer
  <2>4. \A q \in Parts : Upcoming(q)' => After(wire[Len(wire)], q)'  BY <1>1 DEF After
  <2>5. ASSUME NEW i \in 1 .. Len(wire') - 1 PROVE After(wire'[i], wire'[i + 1])
    <3>1. CASE i = Len(wire)
      <4>1. wire'[i] = wire[Len(wire)] /\ wire'[i + 1] = p  BY <1>1, <2>2, <3>1
      <4>2. After(wire[Len(wire)], p)  BY <1>6 DEF Chain, Linked
      <4>3. QED  BY <4>1, <4>2
    <3>2. CASE i # Len(wire)
      <4>1. i \in 1 .. Len(wire) - 1 /\ i \in 1 .. Len(wire) /\ i + 1 \in 1 .. Len(wire)
        BY <1>0, <1>1, <2>5, <3>2
      <4>2. wire'[i] = wire[i] /\ wire'[i + 1] = wire[i + 1]  BY <1>1, <4>1
      <4>3. QED  BY <4>1, <4>2 DEF Chain, Linked
    <3>3. QED  BY <3>1, <3>2
  <2>6. (\A i \in 1 .. Len(wire) - 1 : After(wire[i], wire[i + 1]))'  BY <2>5 DEF After
  <2>7. Linked'  BY <1>1, <2>3, <2>4, <2>6 DEF Linked
  <2>8. QED  BY <1>2, <2>7 DEF Chain
<1>7. QED  BY <1>5, <1>6

\* Once shutdown was first, it stays so.
LEMMA StopStays ==
    ASSUME TypeOK, StopFirst, NEW p \in Parts, wire' = Append(wire, p), SamePeer, kind' = kind,
           pc'["third"] # "idle"
    PROVE  StopFirst'
<1>0. wire \in Seq(Parts) /\ Len(wire) \in Nat  BY DEF TypeOK, DeviceOK
<1>1. Len(wire') = Len(wire) + 1 /\ \A i \in 1 .. Len(wire) : wire'[i] = wire[i]  BY <1>0
<1>2. CASE peer.refused  BY <1>2 DEF StopFirst, SamePeer
<1>3. CASE ~peer.refused
  <2>1. PICK i \in 1 .. Len(wire) :
            wire[i].frame.seq # 1 /\ \A j \in 1 .. i : wire[j].part = "header"
    BY <1>3 DEF StopFirst
  <2>2. i \in 1 .. Len(wire') /\ \A j \in 1 .. i : j \in 1 .. Len(wire)  BY <1>0, <1>1
  <2>3. wire'[i].frame.seq # 1 /\ \A j \in 1 .. i : wire'[j].part = "header"  BY <1>1, <2>1, <2>2
  <2>4. QED  BY <2>2, <2>3 DEF StopFirst, SamePeer
<1>4. QED  BY <1>2, <1>3

\* The device reads a part.
LEMMA HearStep == TypeOK /\ LockInv /\ StreamInv /\ Hear => StreamInv'
<1> SUFFICES ASSUME TypeOK, LockInv, StreamInv, Hear PROVE StreamInv'  OBVIOUS
<1>0. /\ wire \in Seq(Parts) /\ wire # <<>> /\ Len(wire) \in Nat /\ Len(wire) > 0
      /\ wire' = Tail(wire) /\ ~peer.refused /\ peer \in Peers
      /\ UNCHANGED <<kind, pc, job, mu, sequence, failed>>
  BY DEF TypeOK, DeviceOK, Hear, PeerStep, writerVars
<1>1. /\ Head(wire) = wire[1] /\ Len(wire') = Len(wire) - 1
      /\ \A i \in 1 .. Len(wire') : wire'[i] = wire[i + 1]
  BY <1>0
<1>2. wire[1] \in Parts /\ wire[1].frame \in Frames /\ peer.hears \in 1 .. MaxSequence
  <2>1. wire[1] \in Parts  BY <1>0
  <2>2. QED  BY <1>0, <2>1 DEF Parts, Peers
<1>3. CASE failed  BY <1>0, <1>3 DEF StreamInv
<1>4. CASE StopFirst
  <2>1. PICK i \in 1 .. Len(wire) :
            wire[i].frame.seq # 1 /\ \A j \in 1 .. i : wire[j].part = "header"
    BY <1>0, <1>4 DEF StopFirst
  <2>2. wire[1].part = "header" /\ kind = "control" /\ peer.hears = 1  BY <1>4, <2>1 DEF StopFirst
  <2>3. CASE peer.half = NoFrame /\ wire[1].frame.seq = 1
    <3>1. peer' = [peer EXCEPT !.half = wire[1].frame]  BY <1>1, <2>2, <2>3 DEF Hear
    <3>2. i - 1 \in 1 .. Len(wire') /\ \A j \in 1 .. i - 1 : j \in 1 .. Len(wire') /\ j + 1 \in 1 .. i
      BY <1>0, <1>1, <2>1, <2>3
    <3>3. wire'[i - 1] = wire[i] /\ \A j \in 1 .. i - 1 : wire'[j] = wire[j + 1]  BY <1>1, <3>2
    <3>4. wire'[i - 1].frame.seq # 1 /\ \A j \in 1 .. i - 1 : wire'[j].part = "header"
      BY <2>1, <3>2, <3>3
    <3>5. peer'.hears = 1  BY <1>0, <2>2, <3>1 DEF Peers
    <3>6. StopFirst'  BY <1>0, <1>4, <3>2, <3>4, <3>5 DEF StopFirst
    <3>7. QED  BY <3>6 DEF StreamInv
  <2>4. CASE ~(peer.half = NoFrame /\ wire[1].frame.seq = 1)
    <3>1. peer' = [peer EXCEPT !.refused = TRUE]  BY <1>1, <2>2, <2>4 DEF Hear
    <3>2. peer'.refused /\ peer'.hears = 1  BY <1>0, <2>2, <3>1 DEF Peers
    <3>3. StopFirst'  BY <1>0, <1>4, <3>2 DEF StopFirst
    <3>4. QED  BY <3>3 DEF StreamInv
  <2>5. QED  BY <2>3, <2>4
<1>5. CASE Chain
  <2>1. Expected(wire[1]) /\ HalfInv /\ AckInv  BY <1>0, <1>5 DEF Chain, Linked
  <2>2. ASSUME NEW q, After(wire[1], q)
        PROVE  Expected(q)'
    <3>1. CASE peer.half = NoFrame /\ kind = "data" /\ wire[1].frame.type = "ack"
      <4>1. Complete(wire[1].frame) /\ wire[1].part = "header" /\ wire[1].frame.seq = peer.hears
        BY <1>1, <2>1, <3>1 DEF Hear, Expected
      <4>2. peer'.half = NoFrame /\ peer'.hears = nextSequence(peer.hears)
        BY <1>0, <4>1 DEF Complete, Peers
      <4>3. q.part = "header" /\ q.frame.seq = peer'.hears  BY <2>2, <3>1, <4>1, <4>2 DEF After
      <4>4. QED  BY <4>2, <4>3 DEF Expected
    <3>2. CASE peer.half = NoFrame /\ ~(kind = "data" /\ wire[1].frame.type = "ack")
      <4>1. peer' = [peer EXCEPT !.half = wire[1].frame] /\ wire[1].part = "header"
            /\ wire[1].frame.seq = peer.hears
        BY <1>1, <2>1, <3>2 DEF Hear, Expected
      <4>2. peer'.half = wire[1].frame  BY <1>0, <4>1 DEF Peers
      <4>3. wire[1].frame # NoFrame  BY <1>2, <4>1 DEF NoFrame
      <4>4. q.part = "payload" /\ q.frame = wire[1].frame  BY <2>2, <3>2, <4>1 DEF After
      <4>5. QED  BY <4>2, <4>3, <4>4 DEF Expected
    <3>3. CASE peer.half # NoFrame
      <4>1. Complete(wire[1].frame) /\ wire[1].part = "payload" /\ wire[1].frame.seq = peer.hears
        BY <1>1, <2>1, <3>3 DEF Hear, Expected, HalfInv
      <4>2. peer'.half = NoFrame /\ peer'.hears = nextSequence(peer.hears)
        BY <1>0, <4>1 DEF Complete, Peers
      <4>3. q.part = "header" /\ q.frame.seq = peer'.hears  BY <2>2, <4>1, <4>2 DEF After
      <4>4. QED  BY <4>2, <4>3 DEF Expected
    <3>4. QED  BY <3>1, <3>2, <3>3
  <2>3. ~peer'.refused /\ HalfInv'
    <3>1. CASE peer.half = NoFrame /\ kind = "data" /\ wire[1].frame.type = "ack"
      <4>1. Complete(wire[1].frame)  BY <1>1, <2>1, <3>1 DEF Hear, Expected
      <4>2. QED  BY <1>0, <4>1 DEF Complete, Peers, HalfInv
    <3>2. CASE peer.half = NoFrame /\ ~(kind = "data" /\ wire[1].frame.type = "ack")
      <4>1. peer' = [peer EXCEPT !.half = wire[1].frame] /\ wire[1].frame.seq = peer.hears
        BY <1>1, <2>1, <3>2 DEF Hear, Expected
      <4>2. peer'.half = wire[1].frame /\ peer'.hears = peer.hears /\ ~peer'.refused
        BY <1>0, <4>1 DEF Peers
      <4>3. QED  BY <1>0, <3>2, <4>1, <4>2 DEF HalfInv
    <3>3. CASE peer.half # NoFrame
      <4>1. Complete(wire[1].frame)  BY <1>1, <2>1, <3>3 DEF Hear, Expected
      <4>2. QED  BY <1>0, <4>1 DEF Complete, Peers, HalfInv
    <3>4. QED  BY <3>1, <3>2, <3>3
  <2>4. AckInv'
    <3>1. SUFFICES ASSUME AckPending PROVE AckInv'  BY <1>0 DEF AckInv, AckPending
    <3>2. pc["handler"] = "payload" /\ kind = "control" /\ peer.hears = 1
          /\ \A j \in 1 .. Len(wire) : wire[j].part = "header"
      BY <1>0, <2>1, <3>1 DEF AckInv, AckPending, Writing
    <3>3. wire[1].part = "header"  BY <1>0, <3>2
    <3>4. peer.half = NoFrame  BY <2>1, <3>3 DEF Expected
    <3>5. peer' = [peer EXCEPT !.half = wire[1].frame]  BY <1>1, <2>1, <3>2, <3>4 DEF Hear, Expected
    <3>6. peer'.hears = 1  BY <1>0, <3>2, <3>5 DEF Peers
    <3>7. \A j \in 1 .. Len(wire') : wire'[j].part = "header"
      <4>1. \A j \in 1 .. Len(wire') : j + 1 \in 1 .. Len(wire)  BY <1>0, <1>1
      <4>2. QED  BY <1>1, <3>2, <4>1
    <3>8. QED  BY <1>0, <2>1, <3>1, <3>2, <3>6, <3>7 DEF AckInv
  <2>5. ASSUME NEW q, NEW r PROVE After(q, r)' <=> After(q, r)  BY <1>0 DEF After
  <2>6. ASSUME NEW q PROVE Upcoming(q)' <=> Upcoming(q)  BY <1>0 DEF Upcoming, AckPending
  <2>7. ASSUME NEW i \in 1 .. Len(wire') - 1 PROVE After(wire[i], wire[i + 1])'
    <3>1. i \in 1 .. Len(wire') /\ i + 1 \in 1 .. Len(wire') /\ i + 1 \in 1 .. Len(wire) - 1
      BY <1>0, <1>1, <2>7
    <3>2. wire'[i] = wire[i + 1] /\ wire'[i + 1] = wire[i + 1 + 1]  BY <1>1, <3>1
    <3>3. After(wire[i + 1], wire[i + 1 + 1])  BY <1>5, <3>1 DEF Chain, Linked
    <3>4. QED  BY <1>0, <3>2, <3>3 DEF After
  <2>8. (wire # <<>> => Expected(wire[1]) /\ \A q \in Parts : Upcoming(q) => After(wire[Len(wire)], q))'
    <3>1. SUFFICES ASSUME wire' # <<>>
                   PROVE  Expected(wire[1])' /\ \A q \in Parts : Upcoming(q)' => After(wire[Len(wire)], q)'
      OBVIOUS
    <3>2. Len(wire') > 0  BY <1>0, <3>1
    <3>3. wire'[1] = wire[2] /\ wire'[Len(wire')] = wire[Len(wire)]
      <4>1. 1 \in 1 .. Len(wire') /\ Len(wire') \in 1 .. Len(wire') /\ Len(wire') + 1 = Len(wire)
        BY <1>0, <1>1, <3>2
      <4>2. QED  BY <1>1, <4>1
    <3>4. After(wire[1], wire[1 + 1])
      <4>1. 1 \in 1 .. Len(wire) - 1  BY <1>0, <1>1, <3>2
      <4>2. QED  BY <1>5, <4>1 DEF Chain, Linked
    <3>5. Expected(wire[1])'
      <4>1. PICK q : q = wire[2]  OBVIOUS
      <4>2. Expected(q)'  BY <2>2, <3>4, <4>1
      <4>3. QED  BY <3>3, <4>1, <4>2 DEF Expected
    <3>6. \A q \in Parts : Upcoming(q)' => After(wire[Len(wire)], q)'
      BY <1>0, <1>5, <2>6, <3>3 DEF Chain, Linked, After
    <3>7. QED  BY <3>5, <3>6
  <2>9. (wire = <<>> => \A q \in Parts : Upcoming(q) => Expected(q))'
    <3>1. SUFFICES ASSUME wire' = <<>>, NEW q \in Parts, Upcoming(q)' PROVE Expected(q)'  OBVIOUS
    <3>2. Len(wire) = 1
      <4>1. Len(wire') = 0  BY <3>1
      <4>2. QED  BY <1>0, <1>1, <4>1
    <3>3. After(wire[1], q)  BY <1>0, <1>5, <2>6, <3>1, <3>2 DEF Chain, Linked
    <3>4. QED  BY <2>2, <3>3
  <2>10. Chain'  BY <2>3, <2>4, <2>7, <2>8, <2>9 DEF Chain, Linked
  <2>11. QED  BY <2>10 DEF StreamInv
<1>6. QED  BY <1>3, <1>4, <1>5 DEF StreamInv

\* A goroutine takes the lock and its number.
LEMMA LockStream ==
    ASSUME TypeOK, LockInv, StreamInv, NEW t \in Threads, Lock(t) PROVE StreamInv'
<1>0. WritersOK /\ "handler" \in Threads /\ "third" \in Threads /\ "none" \notin Threads
  BY DEF TypeOK, Threads
<1>1. mu = "none" /\ mu' = t /\ UNCHANGED <<kind, wire, peer, failed>>  BY DEF Lock
<1>2. /\ pc[t] = "lock" /\ pc'[t] = "header" /\ job'[t].type # "ack" /\ job'[t].seq = sequence
      /\ \A u \in Threads \ {t} : pc'[u] = pc[u] /\ job'[u] = job[u]
  BY <1>0, LockSets DEF LockInv, Holders
<1>3. AckPending' <=> AckPending  BY <1>0, <1>2 DEF AckPending, Writing
<1>4. AckPending => t # "handler"  BY <1>2 DEF AckPending, Writing
<1>5. CASE failed  BY <1>1, <1>5 DEF StreamInv
<1>6. CASE StopFirst
  <2>1. pc'["third"] # "idle"  BY <1>0, <1>2, <1>6 DEF StopFirst
  <2>2. QED  BY <1>1, <1>6, <2>1 DEF StreamInv, StopFirst
<1>7. CASE Chain
  <2>1. ASSUME NEW q \in Parts, Upcoming(q)' PROVE Upcoming(q)
    <3>1. CASE AckPending  BY <1>0, <1>2, <1>3, <1>4, <2>1, <3>1 DEF Upcoming
    <3>2. CASE ~AckPending
      <4>1. q.part = "header" /\ q.frame = job'[t]  BY <1>0, <1>1, <1>2, <1>3, <2>1, <3>2 DEF Upcoming
      <4>2. QED  BY <1>1, <1>2, <3>2, <4>1 DEF Upcoming
    <3>3. QED  BY <3>1, <3>2
  <2>2. AckInv'
    <3>1. SUFFICES ASSUME AckPending PROVE AckInv'  BY <1>3 DEF AckInv
    <3>2. t = "third"
      <4>1. t # "heart"  BY <1>2, <3>1 DEF LockInv, Holders, Early
      <4>2. QED  BY <1>4, <3>1, <4>1 DEF Threads
    <3>3. sequence = 2  BY <1>0, <1>1, <1>7, <3>1 DEF Chain, AckInv
    <3>4. mu' = "third" /\ pc'["third"] = "header" /\ job'["third"].seq = 2  BY <1>1, <1>2, <3>2, <3>3
    <3>5. pc'["handler"] = pc["handler"]  BY <1>0, <1>2, <3>2
    <3>6. QED  BY <1>1, <1>7, <3>1, <3>4, <3>5 DEF Chain, AckInv
  <2>3. Chain'  BY <1>1, <1>7, <2>1, <2>2, SameWire DEF SamePeer
  <2>4. QED  BY <2>3 DEF StreamInv
<1>8. QED  BY <1>5, <1>6, <1>7 DEF StreamInv

\* A goroutine puts the part it is at, and goes on to the payload or to the end of Write.
LEMMA PutStream ==
    ASSUME TypeOK, LockInv, StreamInv, NEW t \in Threads, pc[t] \in Writing, Put(t, pc[t]),
           UNCHANGED <<kind, sequence, peer, failed>>,
           \/ /\ pc[t] = "header" /\ ~NoPayload(t)
              /\ pc' = [pc EXCEPT ![t] = "payload"] /\ UNCHANGED <<mu, job>>
           \/ (pc[t] = "payload" \/ NoPayload(t)) /\ Unlock(t) /\ Continue(t)
    PROVE  StreamInv'
<1> DEFINE p == [part |-> pc[t], frame |-> job[t]]
<1>0. /\ WritersOK /\ kind \in {"control", "data"} /\ wire \in Seq(Parts) /\ Len(wire) \in Nat
      /\ "handler" \in Threads /\ "heart" \in Threads /\ "third" \in Threads /\ "none" \notin Threads
  BY KindsAssumption DEF TypeOK, ReaderOK, DeviceOK, Threads
<1>1. p \in Parts /\ p.part = pc[t] /\ p.frame = job[t] /\ wire' = Append(wire, p)
  BY <1>0 DEF Parts, Put, WritersOK, Writing
<1>2. SamePeer  BY DEF SamePeer
<1>3. nextSequence(1) = 2  BY BoundsAssumption DEF nextSequence
<1> HIDE DEF p
<1>4. CASE failed  BY <1>4 DEF StreamInv
<1>5. CASE StopFirst
  <2>1. kind = "control" /\ pc["third"] # "idle"  BY <1>5 DEF StopFirst
  <2>2. pc'["third"] # "idle"
    <3>1. CASE pc' = [pc EXCEPT ![t] = "payload"]  BY <1>0, <2>1, <3>1 DEF WritersOK
    <3>2. CASE Continue(t)
      <4>1. CASE job[t].type = "ack"  BY <1>0, <2>1, <3>2, <4>1, ContinueSets
      <4>2. CASE job[t].type # "ack"  BY <1>0, <2>1, <3>2, <4>2, ContinueSets
      <4>3. QED  BY <4>1, <4>2
    <3>3. QED  BY <3>1, <3>2
  <2>3. StopFirst'  BY <1>1, <1>2, <1>5, <2>2, StopStays
  <2>4. QED  BY <2>3 DEF StreamInv
<1>6. CASE Chain /\ AckPending /\ t # "handler"
  <2>1. job[t].type # "ack" /\ mu = t  BY <1>6 DEF LockInv, Holders
  <2>2. t = "third" /\ pc[t] = "header" /\ job[t].seq = 2 /\ peer.hears = 1
        /\ \A j \in 1 .. Len(wire) : wire[j].part = "header"
    BY <1>0, <1>6, <2>1 DEF Chain, AckInv
  <2>3. kind = "control"  BY <1>0, <1>6, <2>2 DEF LockInv, Holders, Early
  <2>4. pc'["third"] = "payload"  BY <1>0, <2>2, <2>3 DEF NoPayload, WritersOK
  <2>5. /\ Len(wire) + 1 \in 1 .. Len(wire') /\ wire'[Len(wire) + 1] = p
        /\ \A j \in 1 .. Len(wire) : wire'[j] = wire[j]
    BY <1>0, <1>1
  <2>6. \A j \in 1 .. Len(wire) + 1 : wire'[j].part = "header"
    <3>1. ASSUME NEW j \in 1 .. Len(wire) + 1 PROVE wire'[j].part = "header"
      <4>1. j \in 1 .. Len(wire) \/ j = Len(wire) + 1  BY <1>0
      <4>2. QED  BY <1>1, <2>2, <2>5, <4>1
    <3>2. QED  BY <3>1
  <2>7. wire'[Len(wire) + 1].frame.seq # 1  BY <1>1, <2>2, <2>5
  <2>8. StopFirst'  BY <2>2, <2>3, <2>4, <2>5, <2>6, <2>7 DEF StopFirst
  <2>9. QED  BY <2>8 DEF StreamInv
<1>7. CASE Chain /\ AckPending /\ t = "handler"
  <2>0. job[t] = Acknowledgement /\ job[t].type = "ack" /\ job[t].seq = 1 /\ AckInv
    BY <1>7 DEF LockInv, Holders, Chain, Acknowledgement
  <2>1. Upcoming(p)  BY <1>1, <1>7 DEF Upcoming
  <2>2. CASE NoPayload(t)
    <3>1. kind = "data" /\ pc[t] = "header"
      BY <1>7, <2>0, <2>2 DEF NoPayload, AckInv, Writing
    <3>2. Unlock(t) /\ Continue(t)  BY <2>2
    <3>3. mu = "none" /\ sequence = 2  BY <1>7, <2>0, <3>1 DEF AckInv, LockInv, Holders, Early
    <3>4. mu' = "none" /\ pc'["handler"] = "clear"
      BY <1>0, <1>7, <2>0, <3>2, <3>3, UnlockSets, ContinueSets
    <3>5. ~AckPending'  BY <3>4 DEF AckPending, Writing
    <3>6. ASSUME NEW q \in Parts, Upcoming(q)' PROVE After(p, q)
      <4>1. q.part = "header" /\ q.frame.seq = 2  BY <3>3, <3>4, <3>5, <3>6 DEF Upcoming
      <4>2. QED  BY <1>1, <1>3, <2>0, <3>1, <4>1 DEF After
    <3>7. Chain'  BY <1>1, <1>2, <1>7, <2>1, <3>5, <3>6, Appended DEF AckInv
    <3>8. QED  BY <3>7 DEF StreamInv
  <2>3. CASE pc[t] = "header" /\ ~NoPayload(t)
    <3>1. kind = "control" /\ wire = <<>> /\ peer.hears = 1
      BY <1>0, <1>7, <2>0, <2>3 DEF NoPayload, AckInv
    <3>2. pc' = [pc EXCEPT ![t] = "payload"] /\ UNCHANGED <<mu, job>>  BY <2>3
    <3>3. pc'["handler"] = "payload" /\ pc'["third"] = pc["third"]  BY <1>0, <1>7, <3>2 DEF WritersOK
    <3>4. AckPending'  BY <1>7, <2>0, <3>2, <3>3 DEF AckPending, Writing
    <3>5. ASSUME NEW q \in Parts, Upcoming(q)' PROVE After(p, q)
      <4>1. q.part = "payload" /\ q.frame = job[t]  BY <1>7, <3>2, <3>3, <3>4, <3>5 DEF Upcoming
      <4>2. QED  BY <1>1, <2>3, <3>1, <4>1 DEF After
    <3>6. \A j \in 1 .. Len(wire') : wire'[j].part = "header"
      <4>1. Len(wire') = 1 /\ wire'[1] = p  BY <1>1, <3>1
      <4>2. QED  BY <1>1, <2>3, <4>1
    <3>7. AckInv'
      BY <1>7, <2>0, <3>1, <3>2, <3>3, <3>6 DEF AckInv
    <3>8. Chain'  BY <1>1, <1>2, <1>7, <2>1, <3>5, <3>7, Appended
    <3>9. QED  BY <3>8 DEF StreamInv
  <2>4. CASE pc[t] = "payload" /\ ~NoPayload(t)
    <3>1. Unlock(t) /\ Continue(t)  BY <2>4
    <3>2. kind = "control"  BY <1>7, <2>0, <2>4 DEF AckInv
    <3>3. mu # t  BY <1>0, <1>7, <2>0 DEF AckInv
    <3>4. mu' = mu /\ pc'["handler"] = "clear" /\ pc'["third"] = pc["third"] /\ job'["third"] = job["third"]
      BY <1>0, <1>7, <2>0, <3>1, <3>2, <3>3, UnlockSets, ContinueSets
    <3>5. ~AckPending'  BY <3>4 DEF AckPending, Writing
    <3>6. ASSUME NEW q \in Parts, Upcoming(q)' PROVE After(p, q)
      <4>1. q.part = "header" /\ q.frame.seq = 2
        <5>1. CASE mu = "none" /\ sequence = 2  BY <3>4, <3>5, <3>6, <5>1 DEF Upcoming
        <5>2. CASE mu = "third" /\ pc["third"] = "header" /\ job["third"].seq = 2
          BY <3>4, <3>5, <3>6, <5>2 DEF Upcoming
        <5>3. QED  BY <1>7, <2>0, <5>1, <5>2 DEF AckInv
      <4>2. QED  BY <1>1, <1>3, <2>0, <2>4, <4>1 DEF After
    <3>7. Chain'  BY <1>1, <1>2, <1>7, <2>1, <3>5, <3>6, Appended DEF AckInv
    <3>8. QED  BY <3>7 DEF StreamInv
  <2>5. QED  BY <2>2, <2>3, <2>4 DEF Writing
<1>8. CASE Chain /\ ~AckPending
  <2>1. job[t].type # "ack" /\ mu = t /\ ~NoPayload(t)
    BY <1>8 DEF LockInv, Holders, AckPending, NoPayload
  <2>2. Upcoming(p) /\ mu # "none"  BY <1>0, <1>1, <1>8, <2>1 DEF Upcoming
  <2>3. CASE pc[t] = "header"
    <3>1. pc' = [pc EXCEPT ![t] = "payload"] /\ UNCHANGED <<mu, job>>  BY <2>1, <2>3
    <3>2. pc'[t] = "payload" /\ \A u \in Threads \ {t} : pc'[u] = pc[u]  BY <1>0, <3>1 DEF WritersOK
    <3>3. ~AckPending'  BY <1>0, <1>8, <2>1, <3>1, <3>2 DEF AckPending
    <3>4. ASSUME NEW q \in Parts, Upcoming(q)' PROVE After(p, q)
      <4>1. q.part = "payload" /\ q.frame = job[t]  BY <2>1, <2>2, <3>1, <3>2, <3>3, <3>4 DEF Upcoming
      <4>2. QED  BY <1>1, <2>1, <2>3, <4>1 DEF After
    <3>5. Chain'  BY <1>1, <1>2, <1>8, <2>2, <3>3, <3>4, Appended DEF AckInv
    <3>6. QED  BY <3>5 DEF StreamInv
  <2>4. CASE pc[t] = "payload"
    <3>1. Unlock(t) /\ Continue(t)  BY <2>1, <2>4
    <3>2. mu' = "none" /\ pc'[t] \notin Writing
          /\ \A u \in Threads \ {t} : pc'[u] = pc[u] /\ job'[u] = job[u]
      BY <1>0, <2>1, <3>1, UnlockSets, ContinueSets DEF Writing
    <3>3. ~AckPending'  BY <1>0, <1>8, <3>2 DEF AckPending
    <3>4. ASSUME NEW q \in Parts, Upcoming(q)' PROVE After(p, q)
      <4>1. q.part = "header" /\ q.frame.seq = sequence  BY <3>2, <3>3, <3>4 DEF Upcoming
      <4>2. sequence = nextSequence(job[t].seq)  BY <2>1 DEF LockInv, NumberTaken
      <4>3. QED  BY <1>1, <2>4, <4>1, <4>2 DEF After
    <3>5. Chain'  BY <1>1, <1>2, <1>8, <2>2, <3>3, <3>4, Appended DEF AckInv
    <3>6. QED  BY <3>5 DEF StreamInv
  <2>5. QED  BY <2>3, <2>4 DEF Writing
<1>9. QED  BY <1>4, <1>5, <1>6, <1>7, <1>8 DEF StreamInv

\* Every step keeps the stream in one chain, or is an exception that InSequence states.
LEMMA StreamStep == Inv /\ [Next]_vars => StreamInv'
<1> SUFFICES ASSUME Inv, [Next]_vars PROVE StreamInv'  OBVIOUS
<1>0. /\ TypeOK /\ LockInv /\ StreamInv /\ WritersOK /\ peer \in Peers
      /\ "handler" \in Threads /\ "heart" \in Threads /\ "third" \in Threads
  BY DEF Inv, TypeOK, DeviceOK, Threads
<1> USE DEF vars, writerVars, beatVars
\* One goroutine moves, from and to a place where it does not write.
<1>a. ASSUME NEW t \in Threads, UNCHANGED <<kind, mu, sequence, wire, peer, failed>>,
             pc[t] \notin Writing, pc'[t] \notin Writing,
             t = "third" => pc'[t] # "idle" /\ (pc[t] = "idle" => pc'[t] = "lock" \/ ~AckPending)
                            /\ pc[t] \notin {"none", "lock"},
             \A u \in Threads \ {t} : pc'[u] = pc[u] /\ job'[u] = job[u]
      PROVE  StreamInv'
  <2>1. SamePeer  BY <1>a DEF SamePeer
  <2>2. \A u \in Threads :
            pc[u] \in Writing \/ pc'[u] \in Writing => pc'[u] = pc[u] /\ job'[u] = job[u]
    BY <1>a
  <2>3. pc["third"] # "idle" => pc'["third"] # "idle"  BY <1>0, <1>a
  <2>4. AckPending /\ pc["third"] \in {"none", "idle", "lock"} => pc'["third"] \in {"none", "idle", "lock"}
    BY <1>0, <1>a
  <2>5. QED  BY <1>0, <1>a, <2>1, <2>2, <2>3, <2>4, QuietStep
<1>b. ASSUME UNCHANGED <<kind, mu, sequence, wire, failed, pc, job>>, SamePeer PROVE StreamInv'
  BY <1>0, <1>b, QuietStep
<1>c. AckPending /\ kind = "data" => pc["third"] = "none"
  BY <1>0 DEF LockInv, Holders, Early
<1>1. ASSUME NEW t \in Threads, WriteStep(t) PROVE StreamInv'
  <2>1. CASE Lock(t)  BY <1>0, <2>1, LockStream
  <2>2. CASE WriteHeader(t)
    <3>1. pc[t] \in Writing /\ Put(t, pc[t]) /\ UNCHANGED <<kind, sequence, peer, failed>>
      BY <2>2 DEF WriteHeader, Writing
    <3>2. \/ /\ pc[t] = "header" /\ ~NoPayload(t)
             /\ pc' = [pc EXCEPT ![t] = "payload"] /\ UNCHANGED <<mu, job>>
          \/ NoPayload(t) /\ Unlock(t) /\ Continue(t)
      BY <2>2 DEF WriteHeader
    <3>3. QED  BY <1>0, <3>1, <3>2, PutStream
  <2>3. CASE WritePayload(t)
    <3>1. pc[t] \in Writing /\ Put(t, pc[t]) /\ UNCHANGED <<kind, sequence, peer, failed>>
          /\ pc[t] = "payload" /\ Unlock(t) /\ Continue(t)
      BY <2>3 DEF WritePayload, Writing
    <3>2. QED  BY <1>0, <3>1, PutStream
  <2>4. CASE WriteFails(t)  BY <2>4 DEF WriteFails, StreamInv
  <2>5. CASE Leave(t)
    <3>1. pc[t] = "leave" /\ pc'[t] = "done" /\ \A u \in Threads \ {t} : pc'[u] = pc[u] /\ job'[u] = job[u]
      BY <1>0, <2>5, GotoSets DEF Leave
    <3>2. QED  BY <1>a, <2>5, <3>1 DEF Leave, Writing
  <2>6. QED  BY <1>1, <2>1, <2>2, <2>3, <2>4, <2>5 DEF WriteStep
<1>2. CASE ReadFrame
  <2>1. ASSUME NEW type, NEW n, Start("handler", "read", type, n) PROVE StreamInv'
    BY <1>0, <1>a, <1>2, <2>1, StartSets DEF ReadFrame, Writing
  <2>2. ASSUME Goto("handler", "read", "leave"), UNCHANGED job PROVE StreamInv'
    BY <1>0, <1>a, <1>2, <2>2, GotoSets DEF ReadFrame, Writing
  <2>3. ASSUME NEW type, Refuse(type) PROVE StreamInv'  BY <2>1, <2>2, <2>3 DEF Refuse
  <2>4. ASSUME UNCHANGED <<pc, job>> PROVE StreamInv'
    BY <1>2, <1>b, <2>4 DEF ReadFrame, SamePeer
  <2>5. QED  BY <1>2, <2>1, <2>3, <2>4 DEF ReadFrame
<1>3. CASE ReadFails  BY <1>0, <1>a, <1>3, GotoSets DEF ReadFails, Writing
<1>4. CASE Beat  BY <1>0, <1>a, <1>4, StartSets DEF Beat, Writing
<1>5. CASE BeatExpired  BY <1>0, <1>a, <1>5, GotoSets DEF BeatExpired, Writing
<1>6. CASE BeatStops  BY <1>0, <1>a, <1>6, GotoSets DEF BeatStops, Writing
<1>7. CASE Third
  <2>1. pc["third"] = "idle" /\ pc'["third"] = "lock"
        /\ \A u \in Threads \ {"third"} : pc'[u] = pc[u] /\ job'[u] = job[u]
    BY <1>0, <1>7, StartSets DEF Third
  <2>2. QED  BY <1>0, <1>a, <1>7, <2>1 DEF Third, Writing
<1>8. CASE OutputEnds
  <2>1. pc["third"] = "idle" /\ pc'["third"] = "leave" /\ \A u \in Threads \ {"third"} : pc'[u] = pc[u]
    BY <1>0, <1>8, GotoSets DEF OutputEnds
  <2>2. ~AckPending  BY <1>0, <1>8, <1>c, <2>1 DEF OutputEnds
  <2>3. QED  BY <1>0, <1>a, <1>8, <2>1, <2>2 DEF OutputEnds, Writing
<1>9. CASE SessionEnds  BY <1>b, <1>9 DEF SessionEnds, SamePeer
<1>10. CASE Elapse  BY <1>b, <1>10 DEF Elapse, SamePeer
<1>11. CASE Activate  BY <1>b, <1>11 DEF Activate, SamePeer
<1>12. CASE ClearDeadline
  <2>1. /\ pc["handler"] = "clear" /\ pc["heart"] = "none" /\ (kind = "data" => pc["third"] = "none")
        /\ pc'["handler"] = "read" /\ pc'["heart"] = "tick"
        /\ pc'["third"] = IF kind = "data" THEN "idle" ELSE pc["third"]
        /\ UNCHANGED <<kind, mu, sequence, job, wire, peer, failed>>
    BY <1>0, <1>12 DEF ClearDeadline, WritersOK, LockInv, Holders, Early
  <2>2. ~AckPending  BY <2>1 DEF AckPending, Writing
  <2>3. \A u \in Threads :
            pc[u] \in Writing \/ pc'[u] \in Writing => pc'[u] = pc[u] /\ job'[u] = job[u]
    BY <2>1 DEF Threads, Writing
  <2>4. CASE kind = "data"
    <3>1. failed \/ Chain  BY <1>0, <2>4 DEF StreamInv, StopFirst
    <3>2. CASE failed  BY <2>1, <3>2 DEF StreamInv
    <3>3. CASE Chain
      <4>1. mu \in Threads \cup {"none"} /\ (mu # "none" => pc'[mu] = pc[mu])
        BY <1>0, <2>3 DEF WritersOK, LockInv, Holders
      <4>2. ~AckPending'  BY <2>1 DEF AckPending, Writing
      <4>3. \A q \in Parts : Upcoming(q)' => Upcoming(q)  BY <2>1, <2>2, <4>1, <4>2 DEF Upcoming
      <4>4. Chain'  BY <2>1, <3>3, <4>2, <4>3, SameWire DEF SamePeer, AckInv
      <4>5. QED  BY <4>4 DEF StreamInv
    <3>4. QED  BY <3>1, <3>2, <3>3
  <2>5. CASE kind # "data"
    BY <1>0, <2>1, <2>2, <2>3, <2>5, QuietStep DEF SamePeer
  <2>6. QED  BY <2>4, <2>5
<1>13. CASE Deactivate  BY <1>b, <1>13 DEF Deactivate, SamePeer
<1>14. CASE Hear  BY <1>0, <1>14, HearStep
<1>15. CASE Say
  <2>1. SamePeer  BY <1>0, <1>15 DEF Say, SamePeer, Peers
  <2>2. QED  BY <1>b, <1>15, <2>1 DEF Say, PeerStep
<1>16. CASE FallSilent
  <2>1. SamePeer  BY <1>0, <1>16 DEF FallSilent, SamePeer, Peers
  <2>2. QED  BY <1>b, <1>16, <2>1 DEF FallSilent, PeerStep
<1>17. CASE UNCHANGED vars  BY <1>b, <1>17 DEF SamePeer
<1>18. QED
  BY <1>1, <1>2, <1>3, <1>4, <1>5, <1>6, <1>7, <1>8, <1>9, <1>10, <1>11, <1>12, <1>13,
     <1>14, <1>15, <1>16, <1>17 DEF Next

\* The invariant holds at first.
LEMMA InitInv == Init => Inv
<1> SUFFICES ASSUME Init PROVE Inv  OBVIOUS
<1>0. TypeOK /\ kind \in {"control", "data"}  BY InitType, KindsAssumption DEF Init
<1>1. /\ pc["handler"] = "header" /\ job["handler"] = Acknowledgement /\ job["handler"].type = "ack"
      /\ pc["heart"] = "none" /\ pc["third"] = IF kind = "control" THEN "idle" ELSE "none"
  BY DEF Init, Threads, Acknowledgement
<1>2. mu = "none" /\ wire = <<>> /\ Len(wire) = 0 /\ peer.hears = 1 /\ peer.half = NoFrame
      /\ ~peer.refused /\ sequence = 2
  BY DEF Init
<1>3. LockInv
  BY <1>1, <1>2, Zenon DEF LockInv, Holders, NumberTaken, AckPending, Threads, Writing
<1>4. AckInv  BY <1>0, <1>1, <1>2 DEF AckInv
<1>5. ASSUME NEW q, Upcoming(q) PROVE Expected(q)
  BY <1>1, <1>2, <1>5 DEF Upcoming, Expected, AckPending, Writing, Acknowledgement
<1>6. Chain  BY <1>2, <1>4, <1>5 DEF Chain, HalfInv, Linked
<1>7. QED  BY <1>0, <1>3, <1>6 DEF Inv, StreamInv

-----------------------------------------------------------------------------

\* Every field keeps its type (frameWriter, heartbeatTracker, the reading loop): no
\* sequence number becomes zero, whatever the largest one is, and no more parts are in
\* flight than the socket takes.
THEOREM TypeCorrect == Spec => []TypeOK
<1>1. Init => TypeOK  BY InitType
<1>2. TypeOK /\ [Next]_vars => TypeOK'  BY TypeStep
<1>3. QED  BY <1>1, <1>2, PTL DEF Spec

\* The device reads whole frames in sequence as long as no write has failed, through
\* every wrap of the number and for any interleaving of the three writers
\* (frameWriter.Write), with the one exception that InSequence names.
THEOREM StreamInSequence == Spec => []InSequence
<1>1. Init => Inv  BY InitInv
<1>2. Inv /\ [Next]_vars => Inv'
  BY TypeStep, LockStep, StreamStep DEF Inv
<1>3. Inv => InSequence
  BY DEF Inv, StreamInv, StopFirst, Chain, InSequence
<1>4. QED  BY <1>1, <1>2, <1>3, PTL DEF Spec
=============================================================================
