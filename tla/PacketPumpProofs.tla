-------------------------- MODULE PacketPumpProofs --------------------------
(***************************************************************************)
(* Theorems about PacketPump, for every largest sequence number.           *)
(***************************************************************************)
EXTENDS PacketPump, TLAPS

Stopping == {"shutdown", "joinTun", "joinSocket", "close", "dial"}
Sending  == {"header", "payload"}

\* The operations and the threads they start and join.
CallInv ==
    /\ pc["tunToSocket"] \notin {"read", "readError", "bodyPing", "bodyPacket", "write"}
    /\ pc["socketToTun"] # "poll"
    /\ caller \in Stopping => ~running
    /\ caller \in {"joinSocket", "close"} => ~Alive("tunToSocket")
    /\ caller = "close" => ~Alive("socketToTun")
    /\ caller = "dial" => sock = "closed"
    /\ caller = "spawn" => pc["tunToSocket"] # "none" /\ pc["socketToTun"] = "none"
    /\ caller # "spawn" => (pc["tunToSocket"] = "none" <=> pc["socketToTun"] = "none")

\* The socket outlives the threads.
SocketInv ==
    /\ sock = "closed" => \A t \in Threads : pc[t] = "none"
    /\ connected <=> sock # "closed"
    /\ sock = "shut" /\ caller \in {"idle", "spawn"} =>
         lastError # "none" /\ pc["tunToSocket"] # "none"

\* A thread that is done has cleared running_ first, and one that fails has an
\* error to record.
FailInv ==
    /\ running => \E t \in Threads : pc[t] # "none"
    /\ \A t \in Threads :
         /\ pc[t] \in {"shut", "ended"} => ~running
         /\ pc[t] \in {"fail", "readError"} => why[t] # "none"
         /\ pc[t] \in {"clear", "shut"} => lastError # "none"
    /\ caller \in {"idle", "spawn"} =>
         /\ ~running /\ (\E t \in Threads : pc[t] # "none") => lastError # "none"
         /\ (\E t \in Threads : pc[t] # "none") => lastError # "induced"
         /\ \A t \in Threads :
              pc[t] \in {"fail", "readError"} /\ why[t] = "induced" => lastError # "none"

\* The write lock is held exactly while a frame is sent; on a connection that
\* works the Mac is where the thread that sends it is.
StreamInv ==
    /\ mac.ok
    /\ \A t \in Threads : pc[t] \in Sending <=> writeMutex = t
    /\ sock = "open" /\ link # "reset" =>
         /\ (\A t \in Threads : pc[t] = "none") => mac.next = 2
         /\ (\E t \in Threads : pc[t] # "none") => outgoingSequence = mac.next
         /\ \A t \in Threads : pc[t] = "payload" <=> mac.after = t

Inv == TypeOK /\ CallInv /\ SocketInv /\ FailInv /\ StreamInv

-----------------------------------------------------------------------------
(* Steps *)

\* The Boolean fields.
LEMMA FlagsStep == FlagsOK /\ [Next]_vars => FlagsOK'
<1> SUFFICES ASSUME FlagsOK, [Next]_vars PROVE FlagsOK'  OBVIOUS
<1> USE DEF FlagsOK, vars, callVars, socketVars, statusVars, writeVars, threadVars
<1>1. ASSUME NEW connect \in BOOLEAN, CallStop(connect) PROVE FlagsOK'
  BY <1>1, Zenon DEF CallStop
<1>2. CASE Start  BY <1>2, Zenon DEF Start, Goto
<1>3. CASE StopShutdown  BY <1>3, Zenon DEF StopShutdown
<1>4. CASE JoinTun  BY <1>4, Zenon DEF JoinTun
<1>5. CASE JoinSocket  BY <1>5, Zenon DEF JoinSocket
<1>6. CASE StopClose  BY <1>6, Zenon DEF StopClose, Alive
<1>7. CASE Spawn  BY <1>7, Zenon DEF Spawn, Goto
<1>8. ASSUME NEW ok \in BOOLEAN, Dial(ok) PROVE FlagsOK'  BY <1>8, Zenon DEF Dial
<1>9. ASSUME NEW t \in Threads, LoopTest(t) PROVE FlagsOK'  BY <1>9, Zenon DEF LoopTest, Goto
<1>10. ASSUME NEW t \in Threads, Lock(t) PROVE FlagsOK'  BY <1>10, Zenon DEF Lock, Goto
<1>11. ASSUME NEW t \in Threads, SendHeader(t) PROVE FlagsOK'
  BY <1>11, Zenon DEF SendHeader, Goto, Failing, Broken
<1>12. ASSUME NEW t \in Threads, SendPayload(t) PROVE FlagsOK'
  BY <1>12, Zenon DEF SendPayload, Goto, Failing, Broken, NextSequence, MacNextSequence
<1>13. ASSUME NEW t \in Threads, FailRecords(t) PROVE FlagsOK'
  BY <1>13, Zenon DEF FailRecords, Goto
<1>14. ASSUME NEW t \in Threads, FailClears(t) PROVE FlagsOK'
  BY <1>14, Zenon DEF FailClears, Goto
<1>15. ASSUME NEW t \in Threads, FailShuts(t) PROVE FlagsOK'
  BY <1>15, Zenon DEF FailShuts, Goto
<1>16. CASE TunPolled  BY <1>16, Zenon DEF TunPolled, Goto
<1>17. CASE ReadHeader  BY <1>17, Zenon DEF ReadHeader, Goto
<1>18. CASE ReadError  BY <1>18, Zenon DEF ReadError, Goto
<1>19. CASE ReadBody  BY <1>19, Zenon DEF ReadBody, Goto, Failing
<1>20. CASE WriteTun  BY <1>20, Zenon DEF WriteTun, Goto
<1>21. CASE LinkBreaks  BY <1>21, Zenon DEF LinkBreaks
<1>22. CASE UNCHANGED vars  BY <1>22, Zenon
<1>23. QED
  BY <1>1, <1>2, <1>3, <1>4, <1>5, <1>6, <1>7, <1>8, <1>9, <1>10, <1>11, <1>12, <1>13, <1>14,
     <1>15, <1>16, <1>17, <1>18, <1>19, <1>20, <1>21, <1>22
     DEF Next, Calls, Caller, Thread

\* What the Mac has read.
LEMMA MacStep == Inv /\ [Next]_vars => MacOK'
<1> SUFFICES ASSUME Inv, [Next]_vars PROVE MacOK'  OBVIOUS
<1>0. MacOK /\ MaxSeq \in Nat /\ MaxSeq >= 2  BY MaxSeqAssumption DEF Inv, TypeOK
<1> USE <1>0 DEF vars, callVars, socketVars, statusVars, writeVars, threadVars
<1>1. ASSUME NEW connect \in BOOLEAN, CallStop(connect) PROVE MacOK'
  BY <1>1, Zenon DEF MacOK, CallStop
<1>2. CASE Start  BY <1>2, Zenon DEF MacOK, Start
<1>3. CASE StopShutdown  BY <1>3, Zenon DEF MacOK, StopShutdown
<1>4. CASE JoinTun  BY <1>4, Zenon DEF MacOK, JoinTun
<1>5. CASE JoinSocket  BY <1>5, Zenon DEF MacOK, JoinSocket
<1>6. CASE StopClose  BY <1>6, Zenon DEF MacOK, StopClose
<1>7. CASE Spawn  BY <1>7, Zenon DEF MacOK, Spawn
<1>8. ASSUME NEW ok \in BOOLEAN, Dial(ok) PROVE MacOK'
  <2>1. CASE ok
    <3>1. mac' = [next |-> 2, after |-> NoThread, ok |-> TRUE]  BY <1>8, <2>1, Zenon DEF Dial
    <3>2. QED  BY <3>1 DEF MacOK
  <2>2. CASE ~ok  BY <1>8, <2>2, Zenon DEF Dial, MacOK
  <2>3. QED  BY <2>1, <2>2
<1>9. ASSUME NEW t \in Threads, LoopTest(t) PROVE MacOK'  BY <1>9, Zenon DEF MacOK, LoopTest
<1>10. ASSUME NEW t \in Threads, Lock(t) PROVE MacOK'  BY <1>10, Zenon DEF MacOK, Lock
<1>11. ASSUME NEW t \in Threads, SendHeader(t) PROVE MacOK'
  <2>1. CASE Broken  BY <1>11, <2>1, Zenon DEF SendHeader, MacOK
  <2>2. CASE ~Broken
    <3> DEFINE ok == mac.ok /\ mac.after = NoThread /\ outgoingSequence = mac.next
    <3>1. mac' = [mac EXCEPT !.after = t, !.ok = ok]  BY <1>11, <2>2 DEF SendHeader
    <3>2. ok \in BOOLEAN  OBVIOUS
    <3> HIDE DEF ok
    <3>3. QED  BY <3>1, <3>2 DEF MacOK
  <2>3. QED  BY <2>1, <2>2
<1>12. ASSUME NEW t \in Threads, SendPayload(t) PROVE MacOK'
  <2>1. CASE Broken  BY <1>12, <2>1, Zenon DEF SendPayload, MacOK
  <2>2. CASE ~Broken
    <3> DEFINE ok == mac.ok /\ mac.after = t
    <3> DEFINE next == MacNextSequence(mac.next)
    <3>1. mac' = [next |-> next, after |-> NoThread, ok |-> ok]
      BY <1>12, <2>2, Zenon DEF SendPayload
    <3>2. ok \in BOOLEAN  OBVIOUS
    <3>3. next \in 1..MaxSeq  BY DEF MacOK, MacNextSequence
    <3> HIDE DEF ok, next
    <3>4. QED  BY <3>1, <3>2, <3>3, Zenon DEF MacOK
  <2>3. QED  BY <2>1, <2>2
<1>13. ASSUME NEW t \in Threads, FailRecords(t) PROVE MacOK'
  BY <1>13, Zenon DEF MacOK, FailRecords
<1>14. ASSUME NEW t \in Threads, FailClears(t) PROVE MacOK'
  BY <1>14, Zenon DEF MacOK, FailClears
<1>15. ASSUME NEW t \in Threads, FailShuts(t) PROVE MacOK'
  BY <1>15, Zenon DEF MacOK, FailShuts
<1>16. CASE TunPolled  BY <1>16, Zenon DEF MacOK, TunPolled
<1>17. CASE ReadHeader  BY <1>17, Zenon DEF MacOK, ReadHeader
<1>18. CASE ReadError  BY <1>18, Zenon DEF MacOK, ReadError
<1>19. CASE ReadBody  BY <1>19, Zenon DEF MacOK, ReadBody
<1>20. CASE WriteTun  BY <1>20, Zenon DEF MacOK, WriteTun
<1>21. CASE LinkBreaks  BY <1>21, Zenon DEF MacOK, LinkBreaks
<1>22. CASE UNCHANGED vars  BY <1>22, Zenon DEF MacOK
<1>23. QED
  BY <1>1, <1>2, <1>3, <1>4, <1>5, <1>6, <1>7, <1>8, <1>9, <1>10, <1>11, <1>12, <1>13, <1>14,
     <1>15, <1>16, <1>17, <1>18, <1>19, <1>20, <1>21, <1>22
     DEF Next, Calls, Caller, Thread

\* The other variables.
LEMMA PlacesStep == Inv /\ [Next]_vars => PlacesOK'
<1> SUFFICES ASSUME Inv, [Next]_vars PROVE PlacesOK'  OBVIOUS
<1>0. PlacesOK /\ MaxSeq \in Nat /\ MaxSeq >= 2 /\ pc["tunToSocket"] \in Places
  BY MaxSeqAssumption DEF Inv, TypeOK, PlacesOK, Threads
<1> USE <1>0 DEF PlacesOK, Threads, NoThread, Places,
            vars, callVars, socketVars, statusVars, writeVars, threadVars
<1>1. ASSUME NEW connect \in BOOLEAN, CallStop(connect) PROVE PlacesOK'  BY <1>1 DEF CallStop
<1>2. CASE Start  BY <1>2 DEF Start, Goto
<1>3. CASE StopShutdown  BY <1>3 DEF StopShutdown
<1>4. CASE JoinTun  BY <1>4 DEF JoinTun
<1>5. CASE JoinSocket  BY <1>5 DEF JoinSocket
<1>6. CASE StopClose  BY <1>6 DEF StopClose, Alive
<1>7. CASE Spawn  BY <1>7 DEF Spawn, Goto
<1>8. ASSUME NEW ok \in BOOLEAN, Dial(ok) PROVE PlacesOK'  BY <1>8 DEF Dial
<1>9. ASSUME NEW t \in Threads, LoopTest(t) PROVE PlacesOK'  BY <1>9 DEF LoopTest, Goto
<1>10. ASSUME NEW t \in Threads, Lock(t) PROVE PlacesOK'  BY <1>10 DEF Lock, Goto
<1>11. ASSUME NEW t \in Threads, SendHeader(t) PROVE PlacesOK'
  BY <1>11 DEF SendHeader, Goto, Failing, Broken
<1>12. ASSUME NEW t \in Threads, SendPayload(t) PROVE PlacesOK'
  BY <1>12 DEF SendPayload, Goto, Failing, Broken, NextSequence, MacNextSequence
<1>13. ASSUME NEW t \in Threads, FailRecords(t) PROVE PlacesOK'  BY <1>13 DEF FailRecords, Goto
<1>14. ASSUME NEW t \in Threads, FailClears(t) PROVE PlacesOK'  BY <1>14 DEF FailClears, Goto
<1>15. ASSUME NEW t \in Threads, FailShuts(t) PROVE PlacesOK'  BY <1>15 DEF FailShuts, Goto
<1>16. CASE TunPolled  BY <1>16 DEF TunPolled, Goto
<1>17. CASE ReadHeader  BY <1>17 DEF ReadHeader, Goto
<1>18. CASE ReadError  BY <1>18 DEF ReadError, Goto
<1>19. CASE ReadBody  BY <1>19 DEF ReadBody, Goto, Failing
<1>20. CASE WriteTun  BY <1>20 DEF WriteTun, Goto
<1>21. CASE LinkBreaks  BY <1>21 DEF LinkBreaks
<1>22. CASE UNCHANGED vars  BY <1>22
<1>23. QED
  BY <1>1, <1>2, <1>3, <1>4, <1>5, <1>6, <1>7, <1>8, <1>9, <1>10, <1>11, <1>12, <1>13, <1>14,
     <1>15, <1>16, <1>17, <1>18, <1>19, <1>20, <1>21, <1>22
     DEF Next, Calls, Caller, Thread

\* The operations and their threads.
LEMMA CallInvStep == Inv /\ [Next]_vars => CallInv'
<1> SUFFICES ASSUME Inv, [Next]_vars PROVE CallInv'  OBVIOUS
<1> USE MaxSeqAssumption DEF Inv, TypeOK, PlacesOK, Places, Threads, NoThread,
            CallInv, SocketInv, Stopping, Alive,
            vars, callVars, socketVars, statusVars, writeVars, threadVars
<1>1. ASSUME NEW connect \in BOOLEAN, CallStop(connect) PROVE CallInv'  BY <1>1 DEF CallStop
<1>2. CASE Start  BY <1>2 DEF Start, Goto
<1>3. CASE StopShutdown  BY <1>3 DEF StopShutdown
<1>4. CASE JoinTun  BY <1>4 DEF JoinTun
<1>5. CASE JoinSocket  BY <1>5 DEF JoinSocket
<1>6. CASE StopClose  BY <1>6 DEF StopClose, Alive
<1>7. CASE Spawn  BY <1>7 DEF Spawn, Goto
<1>8. ASSUME NEW ok \in BOOLEAN, Dial(ok) PROVE CallInv'  BY <1>8 DEF Dial
<1>9. ASSUME NEW t \in Threads, LoopTest(t) PROVE CallInv'  BY <1>9 DEF LoopTest, Goto
<1>10. ASSUME NEW t \in Threads, Lock(t) PROVE CallInv'  BY <1>10 DEF Lock, Goto
<1>11. ASSUME NEW t \in Threads, SendHeader(t) PROVE CallInv'
  BY <1>11 DEF SendHeader, Goto, Failing, Broken
<1>12. ASSUME NEW t \in Threads, SendPayload(t) PROVE CallInv'
  BY <1>12 DEF SendPayload, Goto, Failing, Broken, NextSequence, MacNextSequence
<1>13. ASSUME NEW t \in Threads, FailRecords(t) PROVE CallInv'  BY <1>13 DEF FailRecords, Goto
<1>14. ASSUME NEW t \in Threads, FailClears(t) PROVE CallInv'  BY <1>14 DEF FailClears, Goto
<1>15. ASSUME NEW t \in Threads, FailShuts(t) PROVE CallInv'  BY <1>15 DEF FailShuts, Goto
<1>16. CASE TunPolled  BY <1>16 DEF TunPolled, Goto
<1>17. CASE ReadHeader  BY <1>17 DEF ReadHeader, Goto
<1>18. CASE ReadError  BY <1>18 DEF ReadError, Goto
<1>19. CASE ReadBody  BY <1>19 DEF ReadBody, Goto, Failing
<1>20. CASE WriteTun  BY <1>20 DEF WriteTun, Goto
<1>21. CASE LinkBreaks  BY <1>21 DEF LinkBreaks
<1>22. CASE UNCHANGED vars  BY <1>22
<1>23. QED
  BY <1>1, <1>2, <1>3, <1>4, <1>5, <1>6, <1>7, <1>8, <1>9, <1>10, <1>11, <1>12, <1>13, <1>14,
     <1>15, <1>16, <1>17, <1>18, <1>19, <1>20, <1>21, <1>22
     DEF Next, Calls, Caller, Thread

\* The socket.
LEMMA SocketInvStep == Inv /\ [Next]_vars => SocketInv'
<1> SUFFICES ASSUME Inv, [Next]_vars PROVE SocketInv'  OBVIOUS
<1> USE MaxSeqAssumption DEF Inv, TypeOK, PlacesOK, Places, Threads, NoThread,
            CallInv, SocketInv, FailInv, Stopping, Alive,
            vars, callVars, socketVars, statusVars, writeVars, threadVars
<1>1. ASSUME NEW connect \in BOOLEAN, CallStop(connect) PROVE SocketInv'  BY <1>1 DEF CallStop
<1>2. CASE Start  BY <1>2 DEF Start, Goto
<1>3. CASE StopShutdown  BY <1>3 DEF StopShutdown
<1>4. CASE JoinTun  BY <1>4 DEF JoinTun
<1>5. CASE JoinSocket  BY <1>5 DEF JoinSocket
<1>6. CASE StopClose  BY <1>6 DEF StopClose, Alive
<1>7. CASE Spawn  BY <1>7 DEF Spawn, Goto
<1>8. ASSUME NEW ok \in BOOLEAN, Dial(ok) PROVE SocketInv'  BY <1>8 DEF Dial
<1>9. ASSUME NEW t \in Threads, LoopTest(t) PROVE SocketInv'  BY <1>9 DEF LoopTest, Goto
<1>10. ASSUME NEW t \in Threads, Lock(t) PROVE SocketInv'  BY <1>10 DEF Lock, Goto
<1>11. ASSUME NEW t \in Threads, SendHeader(t) PROVE SocketInv'
  BY <1>11 DEF SendHeader, Goto, Failing, Broken
<1>12. ASSUME NEW t \in Threads, SendPayload(t) PROVE SocketInv'
  BY <1>12 DEF SendPayload, Goto, Failing, Broken, NextSequence, MacNextSequence
<1>13. ASSUME NEW t \in Threads, FailRecords(t) PROVE SocketInv'
  BY <1>13 DEF FailRecords, Goto
<1>14. ASSUME NEW t \in Threads, FailClears(t) PROVE SocketInv'  BY <1>14 DEF FailClears, Goto
<1>15. ASSUME NEW t \in Threads, FailShuts(t) PROVE SocketInv'  BY <1>15 DEF FailShuts, Goto
<1>16. CASE TunPolled  BY <1>16 DEF TunPolled, Goto
<1>17. CASE ReadHeader  BY <1>17 DEF ReadHeader, Goto
<1>18. CASE ReadError  BY <1>18 DEF ReadError, Goto
<1>19. CASE ReadBody  BY <1>19 DEF ReadBody, Goto, Failing
<1>20. CASE WriteTun  BY <1>20 DEF WriteTun, Goto
<1>21. CASE LinkBreaks  BY <1>21 DEF LinkBreaks
<1>22. CASE UNCHANGED vars  BY <1>22
<1>23. QED
  BY <1>1, <1>2, <1>3, <1>4, <1>5, <1>6, <1>7, <1>8, <1>9, <1>10, <1>11, <1>12, <1>13, <1>14,
     <1>15, <1>16, <1>17, <1>18, <1>19, <1>20, <1>21, <1>22
     DEF Next, Calls, Caller, Thread

\* Failures.
LEMMA FailInvStep == Inv /\ [Next]_vars => FailInv'
<1> SUFFICES ASSUME Inv, [Next]_vars PROVE FailInv'  OBVIOUS
<1> USE MaxSeqAssumption DEF Inv, TypeOK, PlacesOK, Places, Threads, NoThread,
            CallInv, SocketInv, FailInv, Stopping, Alive,
            vars, callVars, socketVars, statusVars, writeVars, threadVars
<1>1. ASSUME NEW connect \in BOOLEAN, CallStop(connect) PROVE FailInv'  BY <1>1 DEF CallStop
<1>2. CASE Start  BY <1>2 DEF Start, Goto
<1>3. CASE StopShutdown  BY <1>3 DEF StopShutdown
<1>4. CASE JoinTun  BY <1>4 DEF JoinTun
<1>5. CASE JoinSocket  BY <1>5 DEF JoinSocket
<1>6. CASE StopClose  BY <1>6 DEF StopClose, Alive
<1>7. CASE Spawn  BY <1>7 DEF Spawn, Goto
<1>8. ASSUME NEW ok \in BOOLEAN, Dial(ok) PROVE FailInv'  BY <1>8 DEF Dial
<1>9. ASSUME NEW t \in Threads, LoopTest(t) PROVE FailInv'  BY <1>9 DEF LoopTest, Goto
<1>10. ASSUME NEW t \in Threads, Lock(t) PROVE FailInv'  BY <1>10 DEF Lock, Goto
<1>11. ASSUME NEW t \in Threads, SendHeader(t) PROVE FailInv'
  BY <1>11 DEF SendHeader, Goto, Failing, Broken
<1>12. ASSUME NEW t \in Threads, SendPayload(t) PROVE FailInv'
  BY <1>12 DEF SendPayload, Goto, Failing, Broken, NextSequence, MacNextSequence
<1>13. ASSUME NEW t \in Threads, FailRecords(t) PROVE FailInv'  BY <1>13 DEF FailRecords, Goto
<1>14. ASSUME NEW t \in Threads, FailClears(t) PROVE FailInv'  BY <1>14 DEF FailClears, Goto
<1>15. ASSUME NEW t \in Threads, FailShuts(t) PROVE FailInv'  BY <1>15 DEF FailShuts, Goto
<1>16. CASE TunPolled  BY <1>16 DEF TunPolled, Goto
<1>17. CASE ReadHeader  BY <1>17 DEF ReadHeader, Goto
<1>18. CASE ReadError  BY <1>18 DEF ReadError, Goto
<1>19. CASE ReadBody  BY <1>19 DEF ReadBody, Goto, Failing
<1>20. CASE WriteTun  BY <1>20 DEF WriteTun, Goto
<1>21. CASE LinkBreaks  BY <1>21 DEF LinkBreaks
<1>22. CASE UNCHANGED vars  BY <1>22
<1>23. QED
  BY <1>1, <1>2, <1>3, <1>4, <1>5, <1>6, <1>7, <1>8, <1>9, <1>10, <1>11, <1>12, <1>13, <1>14,
     <1>15, <1>16, <1>17, <1>18, <1>19, <1>20, <1>21, <1>22
     DEF Next, Calls, Caller, Thread

\* The stream.
LEMMA StreamInvStep == Inv /\ [Next]_vars => StreamInv'
<1> SUFFICES ASSUME Inv, [Next]_vars PROVE StreamInv'  OBVIOUS
<1> USE MaxSeqAssumption DEF Inv, TypeOK, PlacesOK, Places, Threads, NoThread,
            CallInv, SocketInv, StreamInv, MacOK, Stopping, Sending, Alive,
            vars, callVars, socketVars, statusVars, writeVars, threadVars
<1>1. ASSUME NEW connect \in BOOLEAN, CallStop(connect) PROVE StreamInv'  BY <1>1 DEF CallStop
<1>2. CASE Start  BY <1>2 DEF Start, Goto
<1>3. CASE StopShutdown  BY <1>3 DEF StopShutdown
<1>4. CASE JoinTun  BY <1>4 DEF JoinTun
<1>5. CASE JoinSocket  BY <1>5 DEF JoinSocket
<1>6. CASE StopClose  BY <1>6 DEF StopClose, Alive
<1>7. CASE Spawn  BY <1>7 DEF Spawn, Goto
<1>8. ASSUME NEW ok \in BOOLEAN, Dial(ok) PROVE StreamInv'  BY <1>8 DEF Dial
<1>9. ASSUME NEW t \in Threads, LoopTest(t) PROVE StreamInv'  BY <1>9 DEF LoopTest, Goto
<1>10. ASSUME NEW t \in Threads, Lock(t) PROVE StreamInv'  BY <1>10 DEF Lock, Goto
<1>11. ASSUME NEW t \in Threads, SendHeader(t) PROVE StreamInv'
  <2>1. CASE Broken  BY <1>11, <2>1 DEF SendHeader, Goto, Failing, Broken
  <2>2. CASE ~Broken
    <3>1. sock = "open" /\ link # "reset"  BY <1>11, <2>2 DEF SendHeader, Broken
    <3>2. mac.ok /\ mac.after = NoThread /\ outgoingSequence = mac.next
      BY <1>11, <3>1 DEF SendHeader
    <3>3. mac' = [mac EXCEPT !.after = t, !.ok = TRUE]  BY <1>11, <2>2, <3>2 DEF SendHeader
    <3>4. mac'.ok /\ mac'.after = t /\ mac'.next = mac.next  BY <3>3
    <3>5. /\ pc' = [pc EXCEPT ![t] = "payload"]
          /\ UNCHANGED <<writeMutex, sock, link, outgoingSequence>>
      BY <1>11, <2>2 DEF SendHeader, Goto
    <3>6. QED  BY <1>11, <3>1, <3>2, <3>4, <3>5 DEF SendHeader
  <2>3. QED  BY <2>1, <2>2
<1>12. ASSUME NEW t \in Threads, SendPayload(t) PROVE StreamInv'
  BY <1>12 DEF SendPayload, Goto, Failing, Broken, NextSequence, MacNextSequence
<1>13. ASSUME NEW t \in Threads, FailRecords(t) PROVE StreamInv'
  BY <1>13 DEF FailRecords, Goto
<1>14. ASSUME NEW t \in Threads, FailClears(t) PROVE StreamInv'  BY <1>14 DEF FailClears, Goto
<1>15. ASSUME NEW t \in Threads, FailShuts(t) PROVE StreamInv'  BY <1>15 DEF FailShuts, Goto
<1>16. CASE TunPolled  BY <1>16 DEF TunPolled, Goto
<1>17. CASE ReadHeader  BY <1>17 DEF ReadHeader, Goto
<1>18. CASE ReadError  BY <1>18 DEF ReadError, Goto
<1>19. CASE ReadBody  BY <1>19 DEF ReadBody, Goto, Failing
<1>20. CASE WriteTun  BY <1>20 DEF WriteTun, Goto
<1>21. CASE LinkBreaks  BY <1>21 DEF LinkBreaks
<1>22. CASE UNCHANGED vars  BY <1>22
<1>23. QED
  BY <1>1, <1>2, <1>3, <1>4, <1>5, <1>6, <1>7, <1>8, <1>9, <1>10, <1>11, <1>12, <1>13, <1>14,
     <1>15, <1>16, <1>17, <1>18, <1>19, <1>20, <1>21, <1>22
     DEF Next, Calls, Caller, Thread

\* A pump that was never connected.
LEMMA InvInit == Init => Inv
<1> SUFFICES ASSUME Init PROVE Inv  OBVIOUS
<1>1. FlagsOK  BY Zenon DEF Init, FlagsOK
<1>2. MacOK  BY MaxSeqAssumption DEF Init, MacOK
<1>3. PlacesOK  BY MaxSeqAssumption DEF Init, PlacesOK, Places, Threads, NoThread
<1>4. CallInv /\ SocketInv /\ FailInv /\ StreamInv
  BY DEF Init, CallInv, SocketInv, FailInv, StreamInv, Stopping, Sending, Threads, NoThread, Alive
<1>5. QED  BY <1>1, <1>2, <1>3, <1>4 DEF Inv, TypeOK

\* The invariant holds at all times.
LEMMA InvHolds == Spec => []Inv
<1>1. Inv /\ [Next]_vars => Inv'
  BY FlagsStep, MacStep, PlacesStep, CallInvStep, SocketInvStep, FailInvStep, StreamInvStep
     DEF Inv, TypeOK
<1>2. QED  BY InvInit, <1>1, PTL DEF Spec

-----------------------------------------------------------------------------
(* Refinement *)

\* The pump as the extension sees it.
Pump == IF \A t \in Threads : pc[t] = "none" THEN "off"
        ELSE IF running THEN "running" ELSE "failed"

\* What the extension may see of a step.
PumpStep ==
    \/ ~connected /\ Pump = "off" /\ connected' = TRUE /\ UNCHANGED Pump
    \/ connected' = FALSE /\ Pump' = "off"
    \/ connected /\ Pump = "off" /\ Pump' = "running" /\ UNCHANGED connected
    \/ Pump = "running" /\ Pump' = "failed" /\ UNCHANGED connected
    \/ UNCHANGED <<connected, Pump>>

\* Every step is one of the facade or none.
LEMMA FacadeStep == Inv /\ [Next]_vars => [Facade!Next]_(Facade!vars)
<1> SUFFICES ASSUME Inv, [Next]_vars PROVE PumpStep
  BY Zenon DEF PumpStep, Pump, Facade!Next, Facade!Connect, Facade!Start, Facade!Fail,
               Facade!Stop, Facade!vars
<1> USE DEF Inv, TypeOK, FlagsOK, PlacesOK, Places, Threads, CallInv, SocketInv, FailInv,
            Stopping, Alive, Pump, PumpStep,
            vars, callVars, socketVars, statusVars, writeVars, threadVars
<1>1. ASSUME NEW connect \in BOOLEAN, CallStop(connect) PROVE PumpStep  BY <1>1 DEF CallStop
<1>2. CASE Start  BY <1>2 DEF Start, Goto
<1>3. CASE StopShutdown  BY <1>3 DEF StopShutdown
<1>4. CASE JoinTun  BY <1>4 DEF JoinTun
<1>5. CASE JoinSocket  BY <1>5 DEF JoinSocket
<1>6. CASE StopClose  BY <1>6 DEF StopClose, Alive
<1>7. CASE Spawn  BY <1>7 DEF Spawn, Goto
<1>8. ASSUME NEW ok \in BOOLEAN, Dial(ok) PROVE PumpStep  BY <1>8 DEF Dial
<1>9. ASSUME NEW t \in Threads, LoopTest(t) PROVE PumpStep  BY <1>9 DEF LoopTest, Goto
<1>10. ASSUME NEW t \in Threads, Lock(t) PROVE PumpStep  BY <1>10 DEF Lock, Goto
<1>11. ASSUME NEW t \in Threads, SendHeader(t) PROVE PumpStep
  BY <1>11 DEF SendHeader, Goto, Failing, Broken
<1>12. ASSUME NEW t \in Threads, SendPayload(t) PROVE PumpStep
  BY <1>12 DEF SendPayload, Goto, Failing, Broken, NextSequence, MacNextSequence
<1>13. ASSUME NEW t \in Threads, FailRecords(t) PROVE PumpStep  BY <1>13 DEF FailRecords, Goto
<1>14. ASSUME NEW t \in Threads, FailClears(t) PROVE PumpStep  BY <1>14 DEF FailClears, Goto
<1>15. ASSUME NEW t \in Threads, FailShuts(t) PROVE PumpStep  BY <1>15 DEF FailShuts, Goto
<1>16. CASE TunPolled  BY <1>16 DEF TunPolled, Goto
<1>17. CASE ReadHeader  BY <1>17 DEF ReadHeader, Goto
<1>18. CASE ReadError  BY <1>18 DEF ReadError, Goto
<1>19. CASE ReadBody  BY <1>19 DEF ReadBody, Goto, Failing
<1>20. CASE WriteTun  BY <1>20 DEF WriteTun, Goto
<1>21. CASE LinkBreaks  BY <1>21 DEF LinkBreaks
<1>22. CASE UNCHANGED vars  BY <1>22
<1>23. QED
  BY <1>1, <1>2, <1>3, <1>4, <1>5, <1>6, <1>7, <1>8, <1>9, <1>10, <1>11, <1>12, <1>13, <1>14,
     <1>15, <1>16, <1>17, <1>18, <1>19, <1>20, <1>21, <1>22
     DEF Next, Calls, Caller, Thread

-----------------------------------------------------------------------------
(* Theorems *)

\* Every field of the pump keeps its type; the sequence number wraps to 1.
THEOREM TypeCorrect == Spec => []TypeOK
<1>1. Inv => TypeOK  BY DEF Inv
<1>2. QED  BY InvHolds, <1>1, PTL

\* getPacketPumpStatus says running only while both threads copy.
THEOREM RunningIsTrueHolds == Spec => []RunningIsTrue
<1>1. Inv => RunningIsTrue
  BY DEF Inv, TypeOK, PlacesOK, Places, Threads, CallInv, FailInv, RunningIsTrue, Alive, Stopping
<1>2. QED  BY InvHolds, <1>1, PTL

\* A pump that stopped by itself has recorded an error.
THEOREM FailureExplainedHolds == Spec => []FailureExplained
<1>1. Inv => FailureExplained  BY DEF Inv, FailInv, FailureExplained
<1>2. QED  BY InvHolds, <1>1, PTL

\* The recorded error is no consequence of the pump's own shutdown.
THEOREM ErrorIsCauseHolds == Spec => []ErrorIsCause
<1>1. Inv => ErrorIsCause  BY DEF Inv, FailInv, ErrorIsCause
<1>2. QED  BY InvHolds, <1>1, PTL

\* No thread outlives the descriptor that it uses.
THEOREM DescriptorHeldHolds == Spec => []DescriptorHeld
<1>1. Inv => DescriptorHeld  BY DEF Inv, SocketInv, DescriptorHeld, Alive
<1>2. QED  BY InvHolds, <1>1, PTL

\* PacketPump implements what VpnExtension takes the native module for.
THEOREM FacadeImplemented == Spec => ImplementsFacade
<1>1. Init => Facade!Init  BY DEF Init, Facade!Init, Threads
<1>2. QED  BY InvHolds, <1>1, FacadeStep, PTL DEF Spec, ImplementsFacade, Facade!Spec

\* Two threads write one stream of whole frames in sequence.
THEOREM FramesWholeHolds == Spec => []FramesWhole
<1>1. Inv => FramesWhole  BY DEF Inv, StreamInv, FramesWhole
<1>2. QED  BY InvHolds, <1>1, PTL
=============================================================================
