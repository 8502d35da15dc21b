---------------------------- MODULE Session_proofs ----------------------------
(***************************************************************************)
(* Proofs about a session.  It drives its PtyProcess only through what     *)
(* PtyProcess allows, whatever the buffers, programs and clients do, so    *)
(* the invariant proved there is one of every session; no byte is lost,    *)
(* repeated or reordered in either direction; and the exit code that a     *)
(* client is told is the leader's own.                                     *)
(***************************************************************************)
EXTENDS Session, PtyProcess_proofs, ByteStreams_proofs

\* Every step of a session is a step of its PtyProcess or leaves it alone: the
\* reader, the driver and the network do nothing to it behind its methods.
LEMMA SessionStepIsPtyStep == [Next]_vars => [PtyNext]_ptyVars
<1> SUFFICES ASSUME [Next]_vars PROVE [PtyNext]_ptyVars
  OBVIOUS
<1>1. CASE Programs
  BY <1>1 DEF Programs, ProgramPrint, ProgramRead, PtyNext
<1>2. CASE Client
  BY <1>2 DEF Client, ClientType, ClientOdd, ClientClose, ClientLost,
              ClientSilent, ClientReceive
<1>3. CASE Reader
  BY <1>3 DEF Reader, ReaderRead, ReaderEof, ReaderFails, ReaderSend, ReaderWait,
              ReaderWaited, PtyNext
<1>4. CASE Driver
  <2>1. CASE DriverSpawn \/ DriverTerminate \/ DriverReturn
    BY <2>1 DEF DriverSpawn, DriverTerminate, DriverReturn, PtyNext
  <2>2. CASE DriverFrame
    BY <2>2, Zenon DEF DriverFrame
  <2>3. CASE DriverSpawnFails \/ DriverRecv \/ DriverSend \/ DriverRecvFails \/ DriverWrite
    BY <2>3 DEF DriverSpawnFails, DriverRecv, DriverSend, DriverRecvFails, DriverWrite
  <2> QED
    BY <1>4, <2>1, <2>2, <2>3 DEF Driver
<1>5. ASSUME NEW t \in Threads, Blocking(t) PROVE [PtyNext]_ptyVars
  BY <1>5 DEF Blocking, PtyNext
<1>6. CASE UNCHANGED vars
  BY <1>6 DEF vars
<1> QED
  BY <1>1, <1>2, <1>3, <1>4, <1>5, <1>6 DEF Next

\* A session implements PtyProcess.
THEOREM SessionImplementsPty == Spec => PtySpec
<1>1. Init => PtyInit
  BY DEF Init
<1> QED
  BY <1>1, SessionStepIsPtyStep, PTL DEF Spec, PtySpec

\* So the PTY's invariant is one of every session.
THEOREM SessionPtyInvariant == Spec => []PtyInv
BY SessionImplementsPty, PtyInvariant

-----------------------------------------------------------------------------
\* How far the driver is in its use of the PtyProcess: one spawn, then one
\* terminate that finds the cleanup unclaimed, then the drop.
DriverUse ==
  /\ dv = "spawn" => ~Spawned
  /\ dv \in {"spawn", "select", "send", "write", "over"} =>
       /\ \A t \in Cleaners : pc[t] = "idle"
       /\ ~cleanupStarted /\ owner = "live"
  /\ dv = "terminating" => pc["terminate"] \notin {"idle", "skipped"}
  /\ dv = "returned" /\ Spawned => pc["terminate"] \in Final \ {"skipped"}

\* How far the reader is: what it does after the end of file finds a terminal
\* nobody holds, unless a read failed or the session is over.
AfterEof ==
  \/ rd \in {"wait", "waiting", "end"}
  \/ rd = "send" /\ rdMsg.kind # "output"

ReaderUse ==
  /\ rd = "none" \/ Spawned
  /\ pc["wait"] # "idle" => AfterEof
  /\ AfterEof /\ dv # "returned" /\ ~readFailed => tty = {}

SessInv == PtyInv /\ DriverUse /\ ReaderUse

\* What a session's environment and blocking tasks leave alone.
LEMMA QuietStep ==
  ASSUME PtyInv, Environment \/ (\E t \in Threads : Work(t))
  PROVE  /\ UNCHANGED <<cleanupStarted, owner>>
         /\ Spawned' <=> Spawned
         /\ tty = {} => tty' = {}
         /\ \A t \in Threads : pc[t] \in {"idle"} \cup Final => pc'[t] = pc[t]
         /\ \A t \in Threads : pc[t] # "idle" => pc'[t] # "idle"
         /\ pc["terminate"] \notin {"idle", "skipped"} =>
              pc'["terminate"] \notin {"idle", "skipped"}
<1>1. CASE Environment
  <2>1. UNCHANGED serverVars
    BY <1>1 DEF Environment, Fork, Exit, CloseTty, Elevate
  <2>2. Spawned' <=> Spawned
    BY <1>1 DEF Environment, Fork, Exit, CloseTty, Elevate, Spawned, Running,
       Live, PtyInv, PtyTypeOK, Procs
  <2>3. tty = {} => tty' = {}
    BY <1>1 DEF Environment, Fork, Exit, CloseTty, Elevate
  <2> QED
    BY <2>1, <2>2, <2>3 DEF serverVars
<1>2. ASSUME NEW t \in Threads, Work(t)
      PROVE  /\ UNCHANGED <<cleanupStarted, owner, tty>>
             /\ Spawned' <=> Spawned
             /\ \A u \in Threads \ {t} : pc'[u] = pc[u]
             /\ pc[t] \notin {"idle"} \cup Final /\ pc'[t] \notin {"idle", "skipped"}
  <2>1. Spawned' <=> Spawned
    BY <1>2 DEF Work, Acquire, Check, SendTerm, GraceExit, GraceExpires, SendKill,
       Reap, Waitable, Reaped, Spawned, PtyInv, PtyTypeOK, Procs, procVars
  <2> QED
    BY <1>2, <2>1 DEF Work, Acquire, Check, SendTerm, GraceExit, GraceExpires, SendKill,
       Reap, Goto, Finish, Final, PtyInv, PtyTypeOK, procVars
<1> QED
  BY <1>1, <1>2 DEF Threads, Cleaners

\* Every step keeps the driver's part: only the driver starts a cleanup.
LEMMA DriverUseStep ==
  ASSUME SessInv, [Next]_vars
  PROVE  DriverUse'
<1> USE DEF SessInv
<1>1. CASE UNCHANGED <<dv, status, cleanupStarted, owner, pc>>
  BY <1>1 DEF DriverUse, Spawned
<1>2. CASE UNCHANGED sessVars /\ (Environment \/ \E t \in Threads : Work(t))
  <2>1. UNCHANGED dv
    BY <1>2 DEF sessVars
  <2> QED
    BY <1>2, <2>1, QuietStep DEF DriverUse, Threads, Cleaners, Final
<1>3. CASE DriverSpawn
  BY <1>3 DEF DriverSpawn, Spawn, DriverGoto, DriverUse, serverVars
<1>4. CASE DriverTerminate
  BY <1>4 DEF DriverTerminate, StartTerminate, DriverGoto, Goto, DriverUse,
     PtyInv, PtyTypeOK, Threads, Cleaners
<1>5. CASE DriverReturn
  BY <1>5 DEF DriverReturn, StartDrop, DriverGoto, Goto, DriverUse, PtyInv,
     PtyTypeOK, Threads, Cleaners, Final
<1>6. CASE ReaderWait
  BY <1>6 DEF ReaderWait, StartWait, ReaderGoto, Goto, DriverUse, PtyInv,
     PtyTypeOK, Threads, Cleaners, driverVars, procVars, Spawned
<1>7. CASE DriverSpawnFails
  BY <1>7 DEF DriverSpawnFails, DriverGoto, DriverUse, Spawned, ptyVars
<1>8. CASE DriverRecv \/ DriverSend \/ DriverRecvFails \/ DriverWrite
  BY <1>8 DEF DriverRecv, DriverSend, DriverRecvFails, DriverWrite, DriverGoto,
     DriverUse, ptyVars
<1>9. CASE DriverFrame
  <2>1. dv = "select" /\ dv' \in {"write", "select", "send", "over"}
    BY <1>9 DEF DriverFrame, DriverGoto
  <2>2. UNCHANGED ptyVars
    BY <1>9, Zenon DEF DriverFrame
  <2> QED
    BY <2>1, <2>2 DEF DriverUse, ptyVars
<1>10. CASE Client \/ \E p \in Procs : ProgramPrint(p) \/ ProgramRead(p)
  <2>1. UNCHANGED ptyVars /\ UNCHANGED driverVars
    BY <1>10 DEF Client, ClientType, ClientOdd, ClientClose, ClientLost,
       ClientSilent, ClientReceive, ProgramPrint, ProgramRead
  <2> QED
    BY <1>1, <2>1 DEF ptyVars, driverVars
<1>11. CASE Reader /\ ~ReaderWait
  <2>1. UNCHANGED ptyVars /\ UNCHANGED driverVars
    BY <1>11 DEF Reader, ReaderRead, ReaderEof, ReaderFails, ReaderSend,
       ReaderWaited, ReaderGoto
  <2> QED
    BY <1>1, <2>1 DEF ptyVars, driverVars
<1>12. CASE UNCHANGED vars
  BY <1>1, <1>12 DEF vars, ptyVars, sessVars
<1> QED
  BY <1>2, <1>3, <1>4, <1>5, <1>6, <1>7, <1>8, <1>9, <1>10, <1>11, <1>12
     DEF Next, Programs, Driver, Blocking

\* Every step keeps the reader's part: only the reader waits, and nobody takes
\* up the terminal again once it is hung up.
LEMMA ReaderUseStep ==
  ASSUME SessInv, [Next]_vars
  PROVE  ReaderUse'
<1> USE DEF SessInv
<1>1. CASE UNCHANGED <<rd, rdMsg, readFailed, status, tty, pc>> /\ (dv' # "returned" => dv # "returned")
  BY <1>1 DEF ReaderUse, AfterEof, Spawned
<1>2. CASE UNCHANGED sessVars /\ (Environment \/ \E t \in Threads : Work(t))
  <2>1. UNCHANGED <<dv, rd, rdMsg, readFailed>>
    BY <1>2 DEF sessVars
  <2> QED
    BY <1>2, <2>1, QuietStep DEF ReaderUse, AfterEof, Threads
<1>3. CASE DriverSpawn
  BY <1>3 DEF DriverSpawn, Spawn, Spawned, DriverGoto, ReaderUse, AfterEof,
     PtyInv, PtyTypeOK, Started, Threads, Procs, serverVars
<1>4. CASE DriverTerminate \/ DriverReturn
  <2>1. /\ UNCHANGED procVars /\ UNCHANGED readerVars
        /\ pc'["wait"] = pc["wait"] /\ dv # "returned"
    BY <1>4 DEF DriverTerminate, DriverReturn, StartTerminate, StartDrop, Goto,
       PtyInv, PtyTypeOK, Threads, Cleaners
  <2> QED
    BY <2>1 DEF ReaderUse, AfterEof, Spawned, procVars, readerVars
<1>5. CASE ReaderWait
  BY <1>5 DEF ReaderWait, StartWait, ReaderGoto, ReaderUse, AfterEof, Spawned,
     procVars, driverVars
<1>6. CASE DriverSpawnFails \/ DriverRecv \/ DriverSend \/ DriverRecvFails \/ DriverWrite
  <2>1. UNCHANGED ptyVars /\ UNCHANGED readerVars /\ dv # "returned"
    BY <1>6 DEF DriverSpawnFails, DriverRecv, DriverSend, DriverRecvFails, DriverWrite
  <2> QED
    BY <1>1, <2>1 DEF ptyVars, readerVars
<1>7. CASE DriverFrame
  <2>1. UNCHANGED ptyVars /\ UNCHANGED readerVars /\ dv # "returned"
    BY <1>7, Zenon DEF DriverFrame
  <2> QED
    BY <1>1, <2>1 DEF ptyVars, readerVars
<1>8. CASE Client \/ \E p \in Procs : ProgramPrint(p) \/ ProgramRead(p)
  <2>1. UNCHANGED ptyVars /\ UNCHANGED driverVars /\ UNCHANGED readerVars
    BY <1>8 DEF Client, ClientType, ClientOdd, ClientClose, ClientLost,
       ClientSilent, ClientReceive, ProgramPrint, ProgramRead
  <2> QED
    BY <1>1, <2>1 DEF ptyVars, driverVars, readerVars
<1>9. CASE (\E n \in 1..ReadMax : ReaderRead(n)) \/ ReaderFails
  <2>1. UNCHANGED ptyVars /\ UNCHANGED driverVars /\ rd = "read" /\ rd' = "send"
    BY <1>9 DEF ReaderRead, ReaderFails, ReaderGoto
  <2>2. readFailed' \/ rdMsg'.kind = "output"
    <3>1. CASE ReaderFails
      BY <3>1, Zenon DEF ReaderFails, ReaderGoto
    <3>2. ASSUME NEW n \in 1..ReadMax, ReaderRead(n) PROVE rdMsg'.kind = "output"
      BY <3>2 DEF ReaderRead, ReaderGoto, Output
    <3> QED
      BY <1>9, <3>1, <3>2
  <2> QED
    BY <2>1, <2>2 DEF ReaderUse, AfterEof, Spawned, ptyVars, driverVars
<1>10. CASE ReaderEof
  BY <1>10 DEF ReaderEof, ReaderGoto, ReaderUse, AfterEof, Spawned, ptyVars, driverVars
<1>11. CASE ReaderSend
  <2>1. /\ UNCHANGED ptyVars /\ UNCHANGED driverVars /\ rd = "send"
        /\ rd' = AfterSend(rdMsg)
    BY <1>11 DEF ReaderSend, ReaderGoto
  <2>2. readFailed => readFailed'
    BY <1>11, Zenon DEF ReaderSend, ReaderGoto
  <2>3. CASE rdMsg.kind # "output"
    <3>1. rd' \in {"end", "wait"}
      BY <2>1, <2>3 DEF AfterSend
    <3> QED
      BY <2>1, <2>3, <2>2, <3>1 DEF ReaderUse, AfterEof, Spawned, ptyVars, driverVars
  <2>4. CASE rdMsg.kind = "output"
    <3>1. rd' = "read" \/ dv = "returned"
      BY <2>1, <2>4 DEF AfterSend, RxDropped
    <3>2. rd' \in {"read", "wait"}
      BY <2>1, <2>4 DEF AfterSend
    <3> QED
      BY <2>1, <2>4, <2>2, <3>1, <3>2 DEF ReaderUse, AfterEof, Spawned, ptyVars,
                                           driverVars
  <2> QED
    BY <2>3, <2>4
<1>12. CASE ReaderWaited
  <2>1. rdMsg'.kind = "exited"
    BY <1>12 DEF ReaderWaited, ReaderGoto, ExitMsg
  <2> QED
    BY <1>12, <2>1 DEF ReaderWaited, ReaderGoto, ReaderUse, AfterEof, Spawned,
       ptyVars, driverVars
<1>13. CASE UNCHANGED vars
  BY <1>1, <1>13 DEF vars, ptyVars, sessVars
<1> QED
  BY <1>2, <1>3, <1>4, <1>5, <1>6, <1>7, <1>8, <1>9, <1>10, <1>11, <1>12, <1>13
     DEF Next, Programs, Reader, Driver, Blocking

-----------------------------------------------------------------------------
\* The driver's and the reader's use of the PtyProcess, in every reachable
\* state, for every size of the channel and the buffers.
THEOREM SessionInvariant == Spec => []SessInv
<1>1. Init => DriverUse /\ ReaderUse
  BY DEF Init, PtyInit, DriverUse, ReaderUse, AfterEof, Threads, Cleaners, Spawned, Procs
<1>2. SessInv /\ [Next]_vars => (DriverUse /\ ReaderUse)'
  BY DriverUseStep, ReaderUseStep
<1> QED
  BY <1>1, <1>2, SessionPtyInvariant, PTL DEF Spec, SessInv

\* run_socket does not return before the cleanup it started is over, so no
\* session whose cleanup could signal the child leaves it unreaped.
THEOREM ReturnedSessionsReap == Spec => []ReturnReaps
<1>1. SessInv => ReturnReaps
  BY DEF SessInv, PtyInv, DriverUse, FinishedMeansReaped, ReturnReaps, Final,
     Threads, Cleaners
<1> QED
  BY <1>1, SessionInvariant, PTL

\* While the session lasts the reader asks for the child mutex, and so for the
\* blocking wait() inside it, only after the terminal has been hung up.
THEOREM ReaderWaitsAfterHangup == Spec => []WaitAfterHangup
<1>1. SessInv => WaitAfterHangup
  BY DEF SessInv, ReaderUse, WaitAfterHangup
<1> QED
  BY <1>1, SessionInvariant, PTL

-----------------------------------------------------------------------------
(* Types. *)

\* The terminal and the network carry sequences.
LEMMA MessageFacts ==
  /\ NoMsg \notin Messages /\ Failure \in Messages /\ ErrorReply \in Messages
  /\ PongReply \in Messages
  /\ \A s \in Seq(Int) : Output(s) \in Messages
  /\ \A c \in Int : ExitMsg(c) \in Messages
  /\ \A s : Output(s) # NoMsg
  /\ \A c : ExitMsg(c) # NoMsg
  /\ Failure # NoMsg /\ ErrorReply # NoMsg /\ PongReply # NoMsg
<1>1. <<>> \in Seq(Int) /\ \A c \in Int : <<c>> \in Seq(Int)
  OBVIOUS
<1> QED
  BY <1>1 DEF Messages, NoMsg, Failure, ErrorReply, PongReply, Output, ExitMsg

\* The client's frames are requests.
LEMMA RequestFacts ==
  /\ \A s \in Seq(Int) : InputFrame(s) \in Requests
  /\ OddFrames \subseteq Requests /\ CloseFrame \in Requests
<1>1. <<>> \in Seq(Int)
  OBVIOUS
<1>2. \A k \in {"input", "resize", "bad", "ping", "close"}, s \in Seq(Int) :
        [kind |-> k, data |-> s] \in Requests
  BY DEF Requests
<1>4. OddFrames \subseteq Requests
  BY <1>1 DEF OddFrames, Requests
<1>5. \A s \in Seq(Int) : InputFrame(s) \in Requests
  BY <1>2 DEF InputFrame
<1>6. CloseFrame \in Requests
  BY <1>1, <1>2 DEF CloseFrame
<1> QED
  BY <1>4, <1>5, <1>6

\* What a frame from the client makes of the driver, case by case.
LEMMA FrameCases ==
  ASSUME DriverFrame
  PROVE  /\ dv = "select" /\ fromClient # <<>> /\ fromClient' = Tail(fromClient)
         /\ UNCHANGED <<chan, ptyIn, toClient>> /\ UNCHANGED ptyVars /\ UNCHANGED readerVars
         /\ UNCHANGED <<eaten, produced, ptyOut>> /\ UNCHANGED clientVars
         /\ \/ /\ Head(fromClient).kind = "input" /\ dv' = "write" /\ dvMsg' = NoMsg
               /\ dvIn' = Head(fromClient).data
            \/ /\ Head(fromClient).kind \notin {"input", "output"} /\ dvIn' = <<>>
               /\ \/ dv' \in {"select", "over"} /\ dvMsg' = NoMsg
                  \/ dv' = "send" /\ dvMsg' \in {ErrorReply, PongReply}
<1>1. /\ dv = "select" /\ fromClient # <<>> /\ fromClient' = Tail(fromClient)
      /\ UNCHANGED <<chan, ptyIn, toClient>> /\ UNCHANGED ptyVars /\ UNCHANGED readerVars
      /\ UNCHANGED <<eaten, produced, ptyOut>> /\ UNCHANGED clientVars
  BY Zenon DEF DriverFrame, DriverGoto
<1>2. \/ Head(fromClient).kind = "input"  /\ DriverGoto("write", NoMsg, Head(fromClient).data)
      \/ Head(fromClient).kind = "resize" /\ DriverGoto("select", NoMsg, <<>>)
      \/ Head(fromClient).kind = "bad"    /\ DriverGoto("send", ErrorReply, <<>>)
      \/ Head(fromClient).kind = "ping"   /\ DriverGoto("send", PongReply, <<>>)
      \/ Head(fromClient).kind = "close"  /\ DriverGoto("over", NoMsg, <<>>)
  BY Zenon DEF DriverFrame
<1> QED
  BY <1>1, <1>2 DEF DriverGoto

\* Every step keeps the types and the bounds: no queue outgrows its capacity.
LEMMA SessionTyping ==
  ASSUME SessInv, SessionTypeOK, [Next]_vars
  PROVE  SessionTypeOK'
<1>0. ChanCap \in Nat /\ NetCap \in Nat /\ InCap \in Nat /\ OutCap \in Nat
  BY CapacityAssumption
<1>1. CASE UNCHANGED sessVars
  BY <1>1, Zenon DEF sessVars, SessionTypeOK
<1>2. ASSUME NEW p \in Procs, ProgramPrint(p) PROVE SessionTypeOK'
  <2>1. /\ Append(ptyOut, produced + 1) \in Seq(Int)
        /\ Len(ptyOut) < OutCap => Len(Append(ptyOut, produced + 1)) <= OutCap
    BY <1>0, QueueFacts DEF SessionTypeOK
  <2> QED
    BY <1>2, <2>1 DEF ProgramPrint, SessionTypeOK, driverVars, readerVars, clientVars, netVars
<1>3. ASSUME NEW p \in Procs, ProgramRead(p) PROVE SessionTypeOK'
  <2>1. /\ ptyIn # <<>>
        /\ Tail(ptyIn) \in Seq(Int) /\ Len(Tail(ptyIn)) <= InCap
        /\ Append(eaten, Head(ptyIn)) \in Seq(Int)
    BY <1>0, <1>3, QueueFacts DEF SessionTypeOK, ProgramRead
  <2> QED
    BY <1>3, <2>1 DEF ProgramRead, SessionTypeOK, driverVars, readerVars, clientVars, netVars
<1>4. ASSUME NEW n \in 1..MaxIn, ClientType(n) PROVE SessionTypeOK'
  <2>1. InputFrame(Count(typed, n)) \in Requests
    BY CountType, RequestFacts DEF SessionTypeOK
  <2> QED
    BY <1>4, <2>1 DEF ClientType, SessionTypeOK, driverVars, readerVars, termVars
<1>5. ASSUME NEW f \in OddFrames, ClientOdd(f) PROVE SessionTypeOK'
  BY <1>5, RequestFacts DEF ClientOdd, SessionTypeOK, driverVars, readerVars, termVars
<1>6. CASE ClientClose \/ ClientLost \/ ClientSilent
  <2>1. ClientClose => Append(fromClient, CloseFrame) \in Seq(Requests)
    BY RequestFacts DEF SessionTypeOK
  <2>2. <<>> \in Seq(Messages) /\ Len(<<>>) <= NetCap
    BY <1>0
  <2> QED
  BY <1>6, <2>1, <2>2 DEF ClientClose, ClientLost, ClientSilent, SessionTypeOK, driverVars,
     readerVars, termVars, netVars
<1>7. CASE ClientReceive
  <2>1. /\ toClient # <<>>
        /\ Tail(toClient) \in Seq(Messages) /\ Len(Tail(toClient)) <= NetCap
        /\ Append(received, Head(toClient)) \in Seq(Messages)
    BY <1>0, <1>7, QueueFacts DEF SessionTypeOK, ClientReceive
  <2> QED
    BY <1>7, <2>1 DEF ClientReceive, SessionTypeOK, driverVars, readerVars, termVars
<1>8. ASSUME NEW n \in 1..ReadMax, ReaderRead(n) PROVE SessionTypeOK'
  <2>1. /\ SubSeq(ptyOut, 1, n) \in Seq(Int)
        /\ ptyOut' \in Seq(Int) /\ Len(ptyOut') <= OutCap
    <3>1. /\ n \in Nat /\ n <= Len(ptyOut) /\ Len(ptyOut) \in Nat
          /\ ptyOut' = SubSeq(ptyOut, n + 1, Len(ptyOut))
      BY <1>8 DEF ReaderRead, SessionTypeOK
    <3>2. /\ SubSeq(ptyOut, 1, n) \in Seq(Int)
          /\ SubSeq(ptyOut, n + 1, Len(ptyOut)) \in Seq(Int)
          /\ Len(SubSeq(ptyOut, n + 1, Len(ptyOut))) = Len(ptyOut) - n
      BY <3>1, SplitFacts DEF SessionTypeOK
    <3>3. Len(ptyOut) - n <= OutCap
      BY <1>0, <3>1 DEF SessionTypeOK
    <3> QED
      BY <3>1, <3>2, <3>3
  <2>2. rd' = "send" /\ rdMsg' = Output(SubSeq(ptyOut, 1, n)) /\ readFailed' \in BOOLEAN
    BY <1>8 DEF ReaderRead, ReaderGoto, SessionTypeOK
  <2> QED
    BY <1>8, <2>1, <2>2, MessageFacts DEF ReaderRead, ReaderGoto, SessionTypeOK, driverVars,
       clientVars, netVars
<1>9. CASE ReaderEof \/ ReaderFails \/ ReaderWait
  BY <1>9, MessageFacts DEF ReaderEof, ReaderFails, ReaderWait, ReaderGoto, SessionTypeOK,
     driverVars, clientVars, netVars, termVars
<1>10. CASE ReaderSend
  <2>1. AfterSend(rdMsg) \in {"end", "read", "wait"}
    BY DEF AfterSend
  <2>2. chan' \in Seq(Messages) /\ Len(chan') <= ChanCap
    <3>1. CASE chan' = chan
      BY <3>1 DEF SessionTypeOK
    <3>2. CASE Len(chan) < ChanCap /\ chan' = Append(chan, rdMsg)
      BY <1>0, <1>10, <3>2, QueueFacts DEF SessionTypeOK, ReaderSend
    <3> QED
      BY <1>10, <3>1, <3>2 DEF ReaderSend
  <2> QED
    BY <1>10, <2>1, <2>2, MessageFacts DEF ReaderSend, ReaderGoto, SessionTypeOK,
     driverVars, clientVars, netVars, termVars
<1>11. CASE ReaderWaited
  <2>1. ExitCode(waitStatus) \in Int
    BY DEF ExitCode, SessInv, PtyInv, PtyTypeOK
  <2> QED
    BY <1>11, <2>1, MessageFacts DEF ReaderWaited, ReaderGoto, SessionTypeOK,
     driverVars, clientVars, netVars, termVars
<1>e. <<>> \in Seq(Int) /\ <<>> \in Seq(Messages) /\ Len(<<>>) = 0
  OBVIOUS
<1>12. CASE DriverSpawn
  <2>1. rd = "none"
    BY <1>12 DEF DriverSpawn, Spawn, SessInv, ReaderUse
  <2> QED
    BY <1>12, <1>e, <2>1, MessageFacts DEF DriverSpawn, DriverGoto, SessionTypeOK,
       clientVars, netVars
<1>20. CASE DriverSpawnFails
  BY <1>20, <1>e, MessageFacts DEF DriverSpawnFails, DriverGoto,
     SessionTypeOK, clientVars, netVars, readerVars
<1>19. CASE DriverRecvFails \/ DriverTerminate
  BY <1>19, <1>e, MessageFacts DEF DriverRecvFails, DriverTerminate, DriverGoto,
     SessionTypeOK, clientVars, netVars, readerVars
<1>13. CASE DriverRecv
  <2>1. Head(chan) \in Messages /\ Tail(chan) \in Seq(Messages) /\ Len(Tail(chan)) <= ChanCap
    BY <1>0, <1>13, QueueFacts DEF DriverRecv, SessionTypeOK
  <2> QED
    BY <1>13, <1>e, <2>1, MessageFacts DEF DriverRecv, DriverGoto, SessionTypeOK, clientVars,
       netVars, readerVars
<1>14. CASE DriverSend
  <2>1. toClient' \in Seq(Messages) /\ Len(toClient') <= NetCap
    <3>1. CASE toClient' = toClient
      BY <3>1 DEF SessionTypeOK
    <3>2. CASE Len(toClient) < NetCap /\ toClient' = Append(toClient, dvMsg)
      BY <1>0, <1>14, <3>2, QueueFacts DEF SessionTypeOK, DriverSend
    <3> QED
      BY <1>14, <3>1, <3>2 DEF DriverSend
  <2>2. dv' \in {"over", "select"} /\ dvMsg' = NoMsg /\ dvIn' = <<>>
    BY <1>14 DEF DriverSend, DriverGoto
  <2>3. /\ UNCHANGED <<eaten, produced, ptyOut, chan, ptyIn, fromClient>>
        /\ UNCHANGED clientVars /\ UNCHANGED readerVars
    BY <1>14 DEF DriverSend, DriverGoto
  <2> QED
    BY <1>e, <2>1, <2>2, <2>3, MessageFacts DEF SessionTypeOK, clientVars, readerVars
<1>15. CASE DriverFrame
  <2>1. /\ fromClient \in Seq(Requests) /\ fromClient # <<>>
        /\ Head(fromClient).data \in Seq(Int) /\ Tail(fromClient) \in Seq(Requests)
    <3>1. fromClient \in Seq(Requests) /\ fromClient # <<>>
      BY <1>15, FrameCases DEF SessionTypeOK
    <3>2. Head(fromClient) \in Requests /\ Tail(fromClient) \in Seq(Requests)
      BY <3>1, HeadTailProperties
    <3> QED
      BY <3>1, <3>2 DEF Requests
  <2> QED
    BY <1>15, <1>e, <2>1, FrameCases, MessageFacts DEF SessionTypeOK, clientVars, readerVars
<1>16. CASE DriverWrite
  <2>1. CASE dvIn = <<>>
    BY <1>16, <2>1, MessageFacts DEF DriverWrite, DriverGoto, SessionTypeOK, clientVars,
       netVars, readerVars
  <2>2. CASE dvIn # <<>>
    <3>1. Head(dvIn) \in Int /\ Tail(dvIn) \in Seq(Int)
      BY <2>2, HeadTailProperties DEF SessionTypeOK
    <3>2. ptyIn' \in Seq(Int) /\ Len(ptyIn') <= InCap
      <4>1. CASE ptyIn' = ptyIn
        BY <4>1 DEF SessionTypeOK
      <4>2. CASE Len(ptyIn) < InCap /\ ptyIn' = Append(ptyIn, Head(dvIn))
        BY <1>0, <3>1, <4>2, QueueFacts DEF SessionTypeOK
      <4> QED
        BY <1>16, <2>2, <4>1, <4>2 DEF DriverWrite
    <3>3. dv = "write" /\ dv' = "write" /\ dvMsg' = NoMsg /\ dvIn' = Tail(dvIn)
      BY <1>16, <2>2 DEF DriverWrite, DriverGoto
    <3>4. /\ UNCHANGED <<eaten, produced, ptyOut, chan>>
          /\ UNCHANGED clientVars /\ UNCHANGED netVars /\ UNCHANGED readerVars
      BY <1>16, <2>2 DEF DriverWrite, DriverGoto
    <3> QED
      BY <3>1, <3>2, <3>3, <3>4, MessageFacts DEF SessionTypeOK, clientVars, netVars, readerVars
  <2> QED
    BY <2>1, <2>2
<1>17. CASE DriverReturn
  BY <1>17, <1>0, <1>e, MessageFacts DEF DriverReturn, DriverGoto, SessionTypeOK, clientVars,
     netVars, readerVars
<1>18. CASE UNCHANGED vars
  <2>1. UNCHANGED sessVars
    BY <1>18 DEF vars
  <2> QED
    BY <1>1, <2>1
<1> QED
  BY <1>1, <1>2, <1>3, <1>4, <1>5, <1>6, <1>7, <1>8, <1>9, <1>10, <1>11, <1>12, <1>13, <1>14,
     <1>15, <1>16, <1>17, <1>18, <1>19, <1>20 DEF Next, Programs, Client, Reader, Driver,
     Blocking

-----------------------------------------------------------------------------
(* Output. *)

\* The bytes one message adds to a stream.
Carried(m) == Data({"output", "input"}, m)

\* Only output and input carry bytes: no reply, exit code or failure does.
LEMMA CarriedFacts ==
  /\ Carried(NoMsg) = <<>> /\ Carried(Failure) = <<>> /\ Carried(ErrorReply) = <<>>
  /\ Carried(PongReply) = <<>> /\ Carried(CloseFrame) = <<>>
  /\ \A c : Carried(ExitMsg(c)) = <<>>
  /\ \A f \in OddFrames : Carried(f) = <<>>
  /\ \A s : Carried(Output(s)) = s
  /\ \A s : Carried(InputFrame(s)) = s
BY DEF Carried, Data, NoMsg, Failure, ErrorReply, PongReply, CloseFrame, ExitMsg, OddFrames,
       Output, InputFrame

\* The queues of messages and of requests are queues of either.
LEMMA MessagesAreAny ==
  /\ Messages \cup {NoMsg} \subseteq AnyMessage /\ Requests \subseteq AnyMessage
  /\ \A q \in Seq(Messages) : q \in Seq(AnyMessage)
  /\ \A q \in Seq(Requests) : q \in Seq(AnyMessage)
<1>1. Messages \cup {NoMsg} \subseteq AnyMessage /\ Requests \subseteq AnyMessage
  <2>1. NoMsg \in AnyMessage
    <3>1. <<>> \in Seq(Int) /\ "none" \in Kinds
      BY DEF Kinds
    <3> QED
      BY <3>1 DEF AnyMessage, NoMsg
  <2>2. /\ {"output", "exited", "failed", "error", "pong"} \subseteq Kinds
        /\ {"input", "resize", "bad", "ping", "close"} \subseteq Kinds
    BY DEF Kinds
  <2>3. Messages \subseteq AnyMessage /\ Requests \subseteq AnyMessage
    BY <2>2, KindsFacts DEF Messages, Requests
  <2> QED
    BY <2>1, <2>3
<1> QED
  BY <1>1, SeqMonotonic

\* A stream's type, and what a message at its end or its beginning adds.
LEMMA StreamFacts ==
  ASSUME NEW q, q \in Seq(Messages) \/ q \in Seq(Requests)
  PROVE  /\ Stream(q) \in Seq(Int) /\ Stream(<<>>) = <<>>
         /\ \A m \in AnyMessage : Carried(m) \in Seq(Int)
         /\ \A m \in AnyMessage : Stream(Append(q, m)) = Stream(q) \o Carried(m)
         /\ q # <<>> => Stream(q) = Carried(Head(q)) \o Stream(Tail(q))
BY MessagesAreAny, BytesType, BytesEmpty, BytesAppend, BytesTail, DataType DEF Stream, Carried

\* What is on its way from the programs to the client.
Flow(r, t, m, c, d, o) ==
  (((((Stream(r) \o Stream(t)) \o Carried(m)) \o Stream(c)) \o Carried(d)) \o o)

Sent(r, t, m, c, d, o) == Stream(r \o t \o <<m>> \o c \o <<d>>) \o o

\* What OutputConserved concatenates is this, queue by queue.
LEMMA FlowIsPipeline ==
  ASSUME NEW r, NEW t, NEW c, NEW m, NEW d, NEW o,
         r \in Seq(Messages), t \in Seq(Messages), c \in Seq(Messages),
         m \in AnyMessage, d \in AnyMessage, o \in Seq(Int)
  PROVE  Sent(r, t, m, c, d, o) = Flow(r, t, m, c, d, o)
<1>1. /\ r \in Seq(AnyMessage) /\ t \in Seq(AnyMessage) /\ c \in Seq(AnyMessage)
      /\ m \in AnyMessage /\ d \in AnyMessage
  BY MessagesAreAny
<1>2. <<m>> \in Seq(AnyMessage) /\ <<d>> \in Seq(AnyMessage)
  BY <1>1
<1>3. /\ r \o t \in Seq(AnyMessage) /\ r \o t \o <<m>> \in Seq(AnyMessage)
      /\ r \o t \o <<m>> \o c \in Seq(AnyMessage)
  BY <1>1, <1>2, ConcatProperties
<1>4. /\ Stream(r \o t) = Stream(r) \o Stream(t)
      /\ Stream(r \o t \o <<m>>) = Stream(r \o t) \o Stream(<<m>>)
      /\ Stream(r \o t \o <<m>> \o c) = Stream(r \o t \o <<m>>) \o Stream(c)
      /\ Stream(r \o t \o <<m>> \o c \o <<d>>) = Stream(r \o t \o <<m>> \o c) \o Stream(<<d>>)
  BY <1>1, <1>2, <1>3, BytesConcat, ZenonT(30) DEF Stream
<1>5. Stream(<<m>>) = Carried(m) /\ Stream(<<d>>) = Carried(d)
  BY <1>1, BytesOne DEF Stream, Carried
<1> QED
  BY <1>4, <1>5, Zenon DEF Flow, Sent

\* Every hand-over along the way keeps the bytes and their order.
LEMMA FlowMoves ==
  ASSUME NEW r, NEW t, NEW c, NEW m, NEW d, NEW o,
         r \in Seq(Messages), t \in Seq(Messages), c \in Seq(Messages),
         m \in AnyMessage, d \in AnyMessage, o \in Seq(Int)
  PROVE  /\ Flow(r, t, m, c, d, o) \in Seq(Int)
         /\ t # <<>> => Flow(Append(r, Head(t)), Tail(t), m, c, d, o) = Flow(r, t, m, c, d, o)
         /\ Flow(r, Append(t, m), NoMsg, c, d, o) = Flow(r, t, m, c, d, o)
         /\ c # <<>> => Flow(r, t, Head(c), Tail(c), d, o) = Flow(r, t, NoMsg, c, d, o)
         /\ Flow(r, t, m, Append(c, d), NoMsg, o) = Flow(r, t, m, c, d, o)
         /\ \A e \in Int : Flow(r, t, m, c, d, Append(o, e)) = Append(Flow(r, t, m, c, d, o), e)
<1> DEFINE R == Stream(r)
           T == Stream(t)
           M == Carried(m)
           C == Stream(c)
           D == Carried(d)
<1>1. R \in Seq(Int) /\ T \in Seq(Int) /\ M \in Seq(Int) /\ C \in Seq(Int) /\ D \in Seq(Int)
  BY StreamFacts, MessagesAreAny
<1>2. /\ R \o T \in Seq(Int) /\ (R \o T) \o M \in Seq(Int) /\ ((R \o T) \o M) \o C \in Seq(Int)
      /\ (((R \o T) \o M) \o C) \o D \in Seq(Int) /\ (R \o T) \o <<>> = R \o T
      /\ ((R \o T) \o M) \o <<>> = (R \o T) \o M
      /\ (((R \o T) \o M) \o C) \o <<>> = ((R \o T) \o M) \o C
  BY <1>1, Associative, Joined
<1>3. ASSUME t # <<>>
      PROVE  Stream(Append(r, Head(t))) \o Stream(Tail(t)) = R \o T
  <2>1. Head(t) \in Messages /\ Tail(t) \in Seq(Messages)
    BY <1>3, QueueFacts
  <2>2. /\ Stream(Append(r, Head(t))) = R \o Carried(Head(t))
        /\ T = Carried(Head(t)) \o Stream(Tail(t))
        /\ Carried(Head(t)) \in Seq(Int) /\ Stream(Tail(t)) \in Seq(Int)
    BY <1>3, <2>1, StreamFacts, MessagesAreAny
  <2>3. R \in Seq(Int)
    BY <1>1
  <2>4. (R \o Carried(Head(t))) \o Stream(Tail(t)) = R \o (Carried(Head(t)) \o Stream(Tail(t)))
    BY <2>2, <2>3, Associative
  <2> QED
    BY <2>2, <2>4, Zenon
<1>4. (R \o Stream(Append(t, m))) \o Carried(NoMsg) = (R \o T) \o M
  <2>1. Stream(Append(t, m)) = T \o M /\ Carried(NoMsg) = <<>>
    BY StreamFacts, CarriedFacts, MessagesAreAny
  <2>2. R \o (T \o M) = (R \o T) \o M
    <3>1. R \in Seq(Int) /\ T \in Seq(Int) /\ M \in Seq(Int)
      BY <1>1
    <3> QED
      BY <3>1, Associative, SMTT(30)
  <2>3. ((R \o T) \o M) \o <<>> = (R \o T) \o M
    BY <1>2
  <2> QED
    BY <2>1, <2>2, <2>3, Zenon
<1>5. ASSUME c # <<>>
      PROVE  ((R \o T) \o Carried(Head(c))) \o Stream(Tail(c)) = ((R \o T) \o Carried(NoMsg)) \o C
  <2>1. Head(c) \in Messages /\ Tail(c) \in Seq(Messages)
    BY <1>5, QueueFacts
  <2>2. /\ C = Carried(Head(c)) \o Stream(Tail(c)) /\ Carried(NoMsg) = <<>>
        /\ Carried(Head(c)) \in Seq(Int) /\ Stream(Tail(c)) \in Seq(Int)
    BY <1>5, <2>1, StreamFacts, CarriedFacts, MessagesAreAny
  <2>3. ((R \o T) \o Carried(Head(c))) \o Stream(Tail(c))
          = (R \o T) \o (Carried(Head(c)) \o Stream(Tail(c)))
    <3>1. R \o T \in Seq(Int)
      BY <1>2
    <3> QED
      BY <3>1, <2>2, Associative
  <2> QED
    BY <1>2, <2>2, <2>3, Zenon
<1>6. (((R \o T) \o M) \o Stream(Append(c, d))) \o Carried(NoMsg) = (((R \o T) \o M) \o C) \o D
  <2>1. Stream(Append(c, d)) = C \o D /\ Carried(NoMsg) = <<>>
    BY StreamFacts, CarriedFacts, MessagesAreAny
  <2>2. ((R \o T) \o M) \o (C \o D) = (((R \o T) \o M) \o C) \o D
    <3>1. C \in Seq(Int) /\ D \in Seq(Int) /\ (R \o T) \o M \in Seq(Int)
      BY <1>1, <1>2
    <3> QED
      BY <3>1, Associative
  <2>3. ((((R \o T) \o M) \o C) \o D) \o <<>> = (((R \o T) \o M) \o C) \o D
    BY <1>2, Joined
  <2> QED
    BY <2>1, <2>2, <2>3, Zenon
<1>8. ASSUME NEW e \in Int
      PROVE  Flow(r, t, m, c, d, Append(o, e)) = Append(Flow(r, t, m, c, d, o), e)
  <2> DEFINE w == (((R \o T) \o M) \o C) \o D
  <2>1. w \in Seq(Int)
    BY <1>2
  <2> HIDE DEF w
  <2>2. w \o Append(o, e) = Append(w \o o, e)
    BY <2>1, SMTT(30)
  <2> QED
    BY <2>2 DEF Flow, w
<1>9. Flow(r, t, m, c, d, o) \in Seq(Int)
  <2>1. ((((R \o T) \o M) \o C) \o D) \o o \in Seq(Int)
    BY <1>2, Associative, Joined
  <2> QED
    BY <2>1 DEF Flow, R, T, M, C, D
<1> QED
  BY <1>3, <1>4, <1>5, <1>6, <1>8, <1>9, Zenon DEF Flow

\* What the reader takes out of the terminal's buffer it carries on.
LEMMA FlowRead ==
  ASSUME NEW r, NEW t, NEW c, NEW m, NEW s, NEW u,
         r \in Seq(Messages), t \in Seq(Messages), c \in Seq(Messages),
         m \in AnyMessage, s \in Seq(Int), u \in Seq(Int)
  PROVE  Flow(r, t, m, c, Output(s), u) = Flow(r, t, m, c, NoMsg, s \o u)
<1> DEFINE w == ((Stream(r) \o Stream(t)) \o Carried(m)) \o Stream(c)
<1>1. /\ Stream(r) \in Seq(Int) /\ Stream(t) \in Seq(Int) /\ Carried(m) \in Seq(Int)
      /\ Stream(c) \in Seq(Int)
  BY StreamFacts, MessagesAreAny
<1>2. w \in Seq(Int) /\ w \o <<>> = w
  BY <1>1, Joined
<1>3. Carried(Output(s)) = s /\ Carried(NoMsg) = <<>>
  BY CarriedFacts
<1> HIDE DEF w
<1>4. (w \o s) \o u = w \o (s \o u)
  BY <1>2, Associative
<1>5. (w \o s) \o u = (w \o <<>>) \o (s \o u)
  BY <1>2, <1>4, Zenon
<1> QED
  BY <1>3, <1>5, Zenon DEF Flow, w

\* A client that has left does not come back, and a session that is over does not go on.
LEMMA NoReturn ==
  ASSUME [Next]_vars
  PROVE  /\ client' = "open" => client = "open"
         /\ dv = "returned" => dv' = "returned"
<1>1. CASE UNCHANGED sessVars
  BY <1>1 DEF sessVars
<1>2. CASE \E p \in Procs : ProgramPrint(p) \/ ProgramRead(p)
  BY <1>2 DEF ProgramPrint, ProgramRead, driverVars, clientVars
<1>3. CASE Client
  BY <1>3 DEF Client, ClientType, ClientOdd, ClientClose, ClientLost, ClientSilent,
     ClientReceive, driverVars
<1>4. CASE Reader
  BY <1>4 DEF Reader, ReaderRead, ReaderEof, ReaderFails, ReaderSend, ReaderWait,
     ReaderWaited, ReaderGoto, driverVars, clientVars
<1>5. CASE Driver
  <2>1. CASE DriverFrame
    BY <2>1, FrameCases DEF clientVars
  <2>2. CASE ~DriverFrame
    BY <1>5, <2>2 DEF Driver, DriverSpawn, DriverSpawnFails, DriverRecv, DriverSend,
       DriverRecvFails, DriverWrite, DriverTerminate, DriverReturn, DriverGoto, clientVars
  <2> QED
    BY <2>1, <2>2
<1>6. CASE UNCHANGED vars
  <2>1. UNCHANGED sessVars
    BY <1>6 DEF vars
  <2> QED
    BY <1>1, <2>1
<1> QED
  BY <1>1, <1>2, <1>3, <1>4, <1>5, <1>6 DEF Next, Programs, Blocking

\* Every step hands bytes on and keeps what is on its way a count.
LEMMA OutputStep ==
  ASSUME SessionTypeOK, SessionTypeOK', OutputConserved, [Next]_vars
  PROVE  OutputConserved'
<1> DEFINE F == Flow(received, toClient, dvMsg, chan, rdMsg, ptyOut)
           G == Flow(received', toClient', dvMsg', chan', rdMsg', ptyOut')
<1>1. Stream(Pipeline) \o ptyOut = F
  <2>1. /\ received \in Seq(Messages) /\ toClient \in Seq(Messages) /\ chan \in Seq(Messages)
        /\ dvMsg \in AnyMessage /\ rdMsg \in AnyMessage /\ ptyOut \in Seq(Int)
    BY MessagesAreAny DEF SessionTypeOK
  <2>2. Sent(received, toClient, dvMsg, chan, rdMsg, ptyOut) = F
    BY <2>1, FlowIsPipeline
  <2> QED
    BY <2>2, Zenon DEF Sent, Pipeline, Delivered
<1>2. Stream(Pipeline)' \o ptyOut' = G
  <2>1. /\ received' \in Seq(Messages) /\ toClient' \in Seq(Messages)
        /\ chan' \in Seq(Messages) /\ dvMsg' \in AnyMessage /\ rdMsg' \in AnyMessage
        /\ ptyOut' \in Seq(Int)
    BY MessagesAreAny DEF SessionTypeOK
  <2>2. Sent(received', toClient', dvMsg', chan', rdMsg', ptyOut') = G
    BY <2>1, FlowIsPipeline
  <2> QED
    BY <2>2, Zenon DEF Sent, Stream, Pipeline, Delivered
<1> SUFFICES ASSUME client' = "open", dv' # "returned" PROVE G = Count(0, produced')
  BY <1>2 DEF OutputConserved
<1>3. client = "open" /\ dv # "returned"
  BY NoReturn
<1>4. F = Count(0, produced)
  BY <1>1, <1>3 DEF OutputConserved
<1>t. /\ received \in Seq(Messages) /\ toClient \in Seq(Messages) /\ chan \in Seq(Messages)
      /\ dvMsg \in Messages \cup {NoMsg} /\ rdMsg \in Messages \cup {NoMsg}
      /\ dvMsg \in AnyMessage /\ rdMsg \in AnyMessage /\ NoMsg \in AnyMessage
      /\ ptyOut \in Seq(Int) /\ produced \in Nat
      /\ (dv # "send" => dvMsg = NoMsg) /\ (rd # "send" => rdMsg = NoMsg)
  BY MessagesAreAny DEF SessionTypeOK
<1>5. ASSUME UNCHANGED <<received, toClient, chan, ptyOut, produced>>,
             Carried(dvMsg') = Carried(dvMsg), Carried(rdMsg') = Carried(rdMsg)
      PROVE  G = Count(0, produced')
  BY <1>4, <1>5 DEF Flow
<1>6. CASE UNCHANGED sessVars
  BY <1>5, <1>6 DEF sessVars
<1>7. ASSUME NEW p \in Procs, ProgramPrint(p) PROVE G = Count(0, produced')
  <2>1. /\ UNCHANGED <<received, toClient, dvMsg, chan, rdMsg>>
        /\ ptyOut' = Append(ptyOut, produced + 1) /\ produced' = produced + 1
    BY <1>7 DEF ProgramPrint, driverVars, readerVars, clientVars, netVars
  <2>2. G = Append(F, produced + 1)
    BY <1>t, <2>1, FlowMoves, SMTT(30)
  <2>3. Append(Count(0, produced), produced + 1) = Count(0, produced) \o <<produced + 1>>
    <3>1. Count(0, produced) \in Seq(Int) /\ produced + 1 \in Int
      BY <1>t, CountType
    <3> QED
      BY <3>1
  <2> QED
    BY <1>4, <1>t, <2>1, <2>2, <2>3, CountFacts
<1>8. ASSUME NEW p \in Procs, ProgramRead(p) PROVE G = Count(0, produced')
  BY <1>5, <1>8 DEF ProgramRead, driverVars, readerVars, clientVars, netVars
<1>9. CASE Client /\ ~ClientReceive
  BY <1>5, <1>9 DEF Client, ClientType, ClientOdd, ClientClose, ClientLost, ClientSilent,
     driverVars, readerVars, netVars, termVars
<1>10. CASE ClientReceive
  <2>1. /\ toClient # <<>> /\ UNCHANGED <<dvMsg, chan, rdMsg, ptyOut, produced>>
        /\ received' = Append(received, Head(toClient)) /\ toClient' = Tail(toClient)
    BY <1>3, <1>10 DEF ClientReceive, driverVars, readerVars, termVars
  <2>2. G = F
    BY <1>t, <2>1, FlowMoves
  <2> QED
    BY <1>4, <2>1, <2>2
<1>11. ASSUME NEW n \in 1..ReadMax, ReaderRead(n) PROVE G = Count(0, produced')
  <2> DEFINE s == SubSeq(ptyOut, 1, n)
             u == SubSeq(ptyOut, n + 1, Len(ptyOut))
  <2>1. /\ rdMsg = NoMsg /\ rdMsg' = Output(s) /\ ptyOut' = u
        /\ UNCHANGED <<received, toClient, dvMsg, chan, produced>>
    BY <1>t, <1>11 DEF ReaderRead, ReaderGoto, driverVars, clientVars, netVars
  <2>2. n \in Nat /\ n <= Len(ptyOut)
    BY <1>11 DEF ReaderRead
  <2>3. s \in Seq(Int) /\ u \in Seq(Int)
    BY <1>t, <2>2, SplitFacts
  <2>5. s \o u = ptyOut
    BY <1>t, <2>2, SplitFacts
  <2> HIDE DEF s, u
  <2>4. Flow(received, toClient, dvMsg, chan, Output(s), u)
          = Flow(received, toClient, dvMsg, chan, NoMsg, s \o u)
    BY <1>t, <2>3, FlowRead
  <2> QED
    BY <1>4, <2>1, <2>4, <2>5, Zenon
<1>12. CASE ReaderEof \/ ReaderFails \/ ReaderWait \/ ReaderWaited
  <2>1. /\ rdMsg = NoMsg /\ Carried(rdMsg') = <<>> /\ Carried(NoMsg) = <<>>
        /\ UNCHANGED <<received, toClient, dvMsg, chan, ptyOut, produced>>
    BY <1>t, <1>12, CarriedFacts DEF ReaderEof, ReaderFails, ReaderWait, ReaderWaited,
       ReaderGoto,
       driverVars, clientVars, netVars, termVars
  <2> QED
    BY <1>5, <2>1
<1>13. CASE ReaderSend
  <2>1. /\ chan' = Append(chan, rdMsg) /\ rdMsg' = NoMsg
        /\ UNCHANGED <<received, toClient, dvMsg, ptyOut, produced>>
    BY <1>3, <1>13 DEF ReaderSend, RxDropped, ReaderGoto, driverVars, clientVars, netVars,
       termVars
  <2>2. G = F
    BY <1>t, <2>1, FlowMoves
  <2> QED
    BY <1>4, <2>1, <2>2
<1>14. CASE DriverSpawn \/ DriverSpawnFails \/ DriverRecvFails \/ DriverWrite \/ DriverTerminate
  <2>1. dvMsg = NoMsg /\ dvMsg' = NoMsg
    BY <1>t, <1>14 DEF DriverSpawn, DriverSpawnFails, DriverRecvFails, DriverWrite,
       DriverTerminate,
       DriverGoto
  <2>2. UNCHANGED <<received, toClient, chan, rdMsg, ptyOut, produced>>
    BY <1>14 DEF DriverSpawn, DriverSpawnFails, DriverRecvFails, DriverWrite, DriverTerminate,
       DriverGoto, clientVars, netVars, readerVars
  <2> QED
    BY <1>5, <2>1, <2>2
<1>15. CASE DriverRecv
  <2>1. /\ chan # <<>> /\ dvMsg = NoMsg /\ dvMsg' = Head(chan) /\ chan' = Tail(chan)
        /\ UNCHANGED <<received, toClient, rdMsg, ptyOut, produced>>
    BY <1>t, <1>15 DEF DriverRecv, DriverGoto, clientVars, netVars, readerVars
  <2>2. G = F
    BY <1>t, <2>1, FlowMoves
  <2> QED
    BY <1>4, <2>1, <2>2
<1>16. CASE DriverSend
  <2>1. /\ toClient' = Append(toClient, dvMsg) /\ dvMsg' = NoMsg
        /\ UNCHANGED <<received, chan, rdMsg, ptyOut, produced>>
    BY <1>3, <1>16 DEF DriverSend, DriverGoto, clientVars, readerVars
  <2>2. G = F
    BY <1>t, <2>1, FlowMoves
  <2> QED
    BY <1>4, <2>1, <2>2
<1>17. CASE DriverFrame
  <2>1. /\ dvMsg = NoMsg /\ dvMsg' \in {NoMsg, ErrorReply, PongReply}
        /\ UNCHANGED <<received, toClient, chan, rdMsg, ptyOut, produced>>
    BY <1>t, <1>17, FrameCases DEF clientVars, readerVars
  <2> QED
    BY <1>5, <2>1, CarriedFacts
<1>18. CASE DriverReturn
  BY <1>18 DEF DriverReturn, DriverGoto
<1>19. CASE UNCHANGED vars
  <2>1. UNCHANGED sessVars
    BY <1>19 DEF vars
  <2> QED
    BY <1>6, <2>1
<1> QED
  BY <1>6, <1>7, <1>8, <1>9, <1>10, <1>11, <1>12, <1>13, <1>14, <1>15, <1>16, <1>17, <1>18,
     <1>19
     DEF Next, Programs, Client, Reader, Driver, Blocking

\* For every size of the channel, the buffers and the network.
THEOREM SessionTypes == Spec => []SessionTypeOK
<1>1. Init => SessionTypeOK
  <2> SUFFICES ASSUME Init PROVE SessionTypeOK
    OBVIOUS
  <2>1. <<>> \in Seq(Int) /\ <<>> \in Seq(Messages) /\ <<>> \in Seq(Requests) /\ Len(<<>>) = 0
    OBVIOUS
  <2>2. /\ Len(<<>>) <= ChanCap /\ Len(<<>>) <= NetCap /\ Len(<<>>) <= InCap
        /\ Len(<<>>) <= OutCap
    BY <2>1, CapacityAssumption
  <2>4. 0 \in Nat /\ FALSE \in BOOLEAN
    OBVIOUS
  <2>3. /\ chan = <<>> /\ toClient = <<>> /\ received = <<>> /\ fromClient = <<>>
        /\ ptyIn = <<>> /\ ptyOut = <<>> /\ dvIn = <<>> /\ eaten = <<>>
        /\ produced = 0 /\ typed = 0 /\ client = "open" /\ readFailed = FALSE
        /\ dv = "spawn" /\ rd = "none" /\ dvMsg = NoMsg /\ rdMsg = NoMsg
    BY Zenon DEF Init
  <2> QED
    BY <2>1, <2>2, <2>3, <2>4, ZenonT(60) DEF SessionTypeOK
<1>2. SessInv /\ SessionTypeOK /\ [Next]_vars => SessionTypeOK'
  BY SessionTyping
<1> QED
  BY <1>1, <1>2, SessionInvariant, PTL DEF Spec

\* No printed byte is lost, repeated or reordered between a program's write and the
\* client that listens, for every capacity of the reader's buffer, the channel and
\* the network, whatever order the tasks run in.
THEOREM OutputIsConserved == Spec => []OutputConserved
<1>1. Init => OutputConserved
  <2> SUFFICES ASSUME Init PROVE Stream(Pipeline) \o ptyOut = Count(0, produced)
    BY DEF OutputConserved
  <2>1. /\ received = <<>> /\ toClient = <<>> /\ chan = <<>> /\ ptyOut = <<>> /\ produced = 0
        /\ dvMsg = NoMsg /\ rdMsg = NoMsg
    BY DEF Init
  <2>2. Sent(received, toClient, dvMsg, chan, rdMsg, ptyOut)
          = Flow(received, toClient, dvMsg, chan, rdMsg, ptyOut)
    <3>1. /\ received \in Seq(Messages) /\ toClient \in Seq(Messages) /\ chan \in Seq(Messages)
          /\ dvMsg \in AnyMessage /\ rdMsg \in AnyMessage /\ ptyOut \in Seq(Int)
      BY <2>1, MessagesAreAny
    <3> QED
      BY <3>1, FlowIsPipeline
  <2>3. Stream(<<>>) = <<>> /\ Carried(NoMsg) = <<>>
    BY BytesEmpty, CarriedFacts DEF Stream
  <2>4. ((((<<>> \o <<>>) \o <<>>) \o <<>>) \o <<>>) \o <<>> = <<>>
    OBVIOUS
  <2>5. Flow(received, toClient, dvMsg, chan, rdMsg, ptyOut) = <<>>
    BY <2>1, <2>3, <2>4, Zenon DEF Flow
  <2>6. Count(0, produced) = <<>>
    BY <2>1, CountFacts
  <2> QED
    BY <2>2, <2>5, <2>6, Zenon DEF Sent, Pipeline, Delivered
<1>2. SessionTypeOK /\ SessionTypeOK' /\ OutputConserved /\ [Next]_vars => OutputConserved'
  BY OutputStep
<1> QED
  BY <1>1, <1>2, SessionTypes, PTL DEF Spec

-----------------------------------------------------------------------------
(* The exit code. *)

\* The elements of a queue, and what a step at either end makes of them.
LEMMA ToSetFacts ==
  ASSUME NEW S, NEW q \in Seq(S)
  PROVE  /\ ToSet(<<>>) = {} /\ \A e : ToSet(<<e>>) = {e}
         /\ \A e \in S : ToSet(Append(q, e)) = ToSet(q) \cup {e}
         /\ q # <<>> => Head(q) \in ToSet(q) /\ ToSet(Tail(q)) \subseteq ToSet(q)
<1>1. DOMAIN q = 1..Len(q) /\ Len(q) \in Nat
  BY LenProperties
<1>2. ASSUME NEW e \in S PROVE ToSet(Append(q, e)) = ToSet(q) \cup {e}
  <2>1. /\ DOMAIN Append(q, e) = 1..(Len(q) + 1) /\ Append(q, e)[Len(q) + 1] = e
        /\ \A i \in 1..Len(q) : Append(q, e)[i] = q[i]
    OBVIOUS
  <2>2. 1..(Len(q) + 1) = 1..Len(q) \cup {Len(q) + 1}
    BY <1>1
  <2> QED
    BY <1>1, <2>1, <2>2, ZenonT(30) DEF ToSet
<1>3. ASSUME q # <<>> PROVE Head(q) \in ToSet(q) /\ ToSet(Tail(q)) \subseteq ToSet(q)
  <2>1. 1 \in DOMAIN q /\ Head(q) = q[1]
    BY <1>3
  <2>2. /\ DOMAIN Tail(q) = 1..(Len(q) - 1)
        /\ \A i \in 1..(Len(q) - 1) : Tail(q)[i] = q[i + 1] /\ i + 1 \in DOMAIN q
    BY <1>1, <1>3
  <2>3. Head(q) \in ToSet(q)
    BY <2>1, Zenon DEF ToSet
  <2>4. ToSet(Tail(q)) \subseteq ToSet(q)
    <3> SUFFICES ASSUME NEW i \in DOMAIN Tail(q) PROVE Tail(q)[i] \in ToSet(q)
      BY Zenon DEF ToSet
    <3> QED
      BY <2>2, Zenon DEF ToSet
  <2> QED
    BY <2>3, <2>4
<1>4. \A e : ToSet(<<e>>) = {e}
  BY DEF ToSet
<1>5. ToSet(<<>>) = {}
  BY DEF ToSet
<1> QED
  BY <1>2, <1>3, <1>4, <1>5

\* The elements of two queues, one after the other, are those of each.
LEMMA ToSetConcat ==
  ASSUME NEW S, NEW p \in Seq(S), NEW q \in Seq(S)
  PROVE  ToSet(p \o q) = ToSet(p) \cup ToSet(q)
<1>1. /\ DOMAIN p = 1..Len(p) /\ Len(p) \in Nat
      /\ DOMAIN q = 1..Len(q) /\ Len(q) \in Nat
  BY LenProperties
<1>2. DOMAIN (p \o q) = 1..(Len(p) + Len(q))
  OBVIOUS
<1>3. ASSUME NEW i \in 1..Len(p) PROVE i \in DOMAIN (p \o q) /\ (p \o q)[i] = p[i]
  BY <1>1
<1>4. ASSUME NEW i \in 1..Len(q)
      PROVE  Len(p) + i \in DOMAIN (p \o q) /\ (p \o q)[Len(p) + i] = q[i]
  BY <1>1
<1>5. ASSUME NEW i \in DOMAIN (p \o q)
      PROVE  (p \o q)[i] \in ToSet(p) \cup ToSet(q)
  <2>1. CASE i <= Len(p)
    <3>1. i \in 1..Len(p)
      BY <1>1, <1>2, <2>1
    <3> QED
      BY <1>1, <1>3, <3>1 DEF ToSet
  <2>2. CASE ~(i <= Len(p))
    <3>1. i - Len(p) \in 1..Len(q) /\ i = Len(p) + (i - Len(p))
      BY <1>1, <1>2, <2>2
    <3>2. (p \o q)[i] = q[i - Len(p)]
      BY <1>4, <3>1
    <3> QED
      BY <1>1, <3>1, <3>2 DEF ToSet
  <2> QED
    BY <2>1, <2>2
<1>6. ToSet(p) \subseteq ToSet(p \o q)
  BY <1>1, <1>3, Zenon DEF ToSet
<1>7. ToSet(q) \subseteq ToSet(p \o q)
  BY <1>1, <1>4, Zenon DEF ToSet
<1>8. ToSet(p \o q) \subseteq ToSet(p) \cup ToSet(q)
  <2> SUFFICES ASSUME NEW e \in ToSet(p \o q) PROVE e \in ToSet(p) \cup ToSet(q)
    OBVIOUS
  <2>1. PICK i \in DOMAIN (p \o q) : e = (p \o q)[i]
    BY Zenon DEF ToSet
  <2> QED
    BY <1>5, <2>1, Zenon
<1> QED
  BY <1>6, <1>7, <1>8

\* A reaped leader stays reaped, and its status is what it was.
LEMMA LeaderStays ==
  ASSUME PtyInv, [PtyNext]_ptyVars, status[Leader] = "gone"
  PROVE  status'[Leader] = "gone" /\ waitStatus' = waitStatus
<1> USE DEF PtyInv, PtyTypeOK, Procs
<1>1. CASE Environment
  BY <1>1, LeaderAssumption DEF Environment, Fork, Exit, CloseTty, Elevate, Running, Live
<1>2. CASE Spawn
  BY <1>2 DEF Spawn, Spawned
<1>3. CASE StartTerminate \/ StartDrop \/ StartWait
  BY <1>3 DEF StartTerminate, StartDrop, StartWait, procVars
<1>4. ASSUME NEW t \in Threads, Work(t)
      PROVE  status'[Leader] = "gone" /\ waitStatus' = waitStatus
  BY <1>4 DEF Work, Acquire, Check, SendTerm, GraceExit, GraceExpires, SendKill, Reap, Reaped,
     procVars
<1>5. CASE UNCHANGED ptyVars
  BY <1>5 DEF ptyVars
<1> QED
  BY <1>1, <1>2, <1>3, <1>4, <1>5 DEF PtyNext

\* The messages the server has made and not lost.
InFlight == ToSet(received) \cup ToSet(toClient) \cup ToSet(chan) \cup {dvMsg, rdMsg}

\* Exit codes come from the reader's wait and from nowhere else.
LEMMA InFlightStep ==
  ASSUME SessionTypeOK, [Next]_vars, NEW msg \in InFlight', msg.kind = "exited"
  PROVE  msg \in InFlight \/ (ReaderWaited /\ msg = ExitMsg(ExitCode(waitStatus)))
<1>t. /\ received \in Seq(Messages) /\ toClient \in Seq(Messages) /\ chan \in Seq(Messages)
      /\ (dv = "send" => dvMsg \in Messages) /\ (rd = "send" => rdMsg \in Messages)
  BY DEF SessionTypeOK
<1>k. /\ NoMsg.kind # "exited" /\ Failure.kind # "exited" /\ ErrorReply.kind # "exited"
      /\ PongReply.kind # "exited" /\ \A s : Output(s).kind # "exited"
  BY DEF NoMsg, Failure, ErrorReply, PongReply, Output
<1>q. ASSUME ToSet(received') \subseteq InFlight, ToSet(toClient') \subseteq InFlight,
             ToSet(chan') \subseteq InFlight,
             dvMsg' \in InFlight \cup {NoMsg, ErrorReply, PongReply},
             rdMsg' \in InFlight \cup {NoMsg}
      PROVE  msg \in InFlight
  <2>1. msg \in ToSet(received') \/ msg \in ToSet(toClient') \/ msg \in ToSet(chan')
        \/ msg = dvMsg' \/ msg = rdMsg'
    BY DEF InFlight, ToSet
  <2> QED
    BY <1>k, <1>q, <2>1
<1>i. /\ ToSet(received) \subseteq InFlight /\ ToSet(toClient) \subseteq InFlight
      /\ ToSet(chan) \subseteq InFlight /\ dvMsg \in InFlight /\ rdMsg \in InFlight
  BY DEF InFlight
<1>e. ToSet(<<>>) \subseteq InFlight
  BY DEF ToSet
<1>1. CASE UNCHANGED sessVars
  BY <1>1, <1>i, <1>q DEF sessVars
<1>2. CASE \E p \in Procs : ProgramPrint(p) \/ ProgramRead(p)
  BY <1>2, <1>i, <1>q DEF ProgramPrint, ProgramRead, driverVars, readerVars, clientVars, netVars
<1>3. CASE Client /\ ~ClientReceive
  BY <1>3, <1>i, <1>e, <1>q DEF Client, ClientType, ClientOdd, ClientClose, ClientLost,
     ClientSilent, driverVars, readerVars, netVars
<1>4. CASE ClientReceive
  <2>1. /\ toClient # <<>> /\ toClient' = Tail(toClient) /\ UNCHANGED <<chan, dvMsg, rdMsg>>
        /\ received' \in {received, Append(received, Head(toClient))}
    BY <1>4 DEF ClientReceive, driverVars, readerVars
  <2>2. Head(toClient) \in Messages /\ Head(toClient) \in ToSet(toClient)
        /\ ToSet(Tail(toClient)) \subseteq ToSet(toClient)
    BY <1>t, <2>1, QueueFacts, ToSetFacts
  <2>3. ToSet(Append(received, Head(toClient))) = ToSet(received) \cup {Head(toClient)}
    BY <1>t, <2>2, ToSetFacts
  <2> QED
    BY <1>i, <1>q, <2>1, <2>2, <2>3
<1>5. ASSUME NEW n \in 1..ReadMax, ReaderRead(n) PROVE msg \in InFlight
  <2>1. UNCHANGED <<received, toClient, chan, dvMsg>>
        /\ rdMsg' = Output(SubSeq(ptyOut, 1, n))
    BY <1>5 DEF ReaderRead, ReaderGoto, driverVars, clientVars, netVars
  <2>2. msg # rdMsg'
    BY <1>k, <2>1
  <2> QED
    BY <2>1, <2>2 DEF InFlight, ToSet
<1>6. CASE ReaderEof \/ ReaderWait
  BY <1>6, <1>i, <1>q DEF ReaderEof, ReaderWait, ReaderGoto, driverVars, clientVars, netVars
<1>7. CASE ReaderFails
  <2>1. UNCHANGED <<received, toClient, chan, dvMsg>> /\ rdMsg' = Failure
    BY <1>7 DEF ReaderFails, ReaderGoto, driverVars, clientVars, netVars
  <2>2. msg # rdMsg'
    BY <1>k, <2>1
  <2> QED
    BY <2>1, <2>2 DEF InFlight, ToSet
<1>8. CASE ReaderWaited
  <2>1. UNCHANGED <<received, toClient, chan, dvMsg>> /\ rdMsg' = ExitMsg(ExitCode(waitStatus))
    BY <1>8 DEF ReaderWaited, ReaderGoto, driverVars, clientVars, netVars
  <2> QED
    BY <1>8, <2>1 DEF InFlight, ToSet
<1>9. CASE ReaderSend
  <2>1. /\ UNCHANGED <<received, toClient, dvMsg>> /\ rdMsg' = NoMsg
        /\ chan' \in {chan, Append(chan, rdMsg)} /\ rdMsg \in Messages
    BY <1>t, <1>9 DEF ReaderSend, ReaderGoto, driverVars, clientVars, netVars
  <2>2. ToSet(Append(chan, rdMsg)) = ToSet(chan) \cup {rdMsg}
    BY <1>t, <2>1, ToSetFacts
  <2>3. ToSet(chan') \subseteq InFlight
    BY <1>i, <2>1, <2>2
  <2> QED
    BY <1>i, <1>q, <2>1, <2>3
<1>10. CASE DriverSpawn \/ DriverSpawnFails \/ DriverRecvFails \/ DriverWrite \/ DriverTerminate
            \/ DriverReturn
  <2>1. /\ UNCHANGED <<received, toClient, rdMsg>> /\ dvMsg' = NoMsg /\ chan' \in {chan, <<>>}
    BY <1>10 DEF DriverSpawn, DriverSpawnFails, DriverRecvFails, DriverWrite, DriverTerminate,
       DriverReturn, DriverGoto, clientVars, netVars, readerVars
  <2> QED
    BY <1>i, <1>e, <1>q, <2>1
<1>11. CASE DriverRecv
  <2>1. /\ UNCHANGED <<received, toClient, rdMsg>> /\ chan # <<>>
        /\ dvMsg' = Head(chan) /\ chan' = Tail(chan)
    BY <1>11 DEF DriverRecv, DriverGoto, clientVars, netVars, readerVars
  <2>2. Head(chan) \in ToSet(chan) /\ ToSet(Tail(chan)) \subseteq ToSet(chan)
    BY <1>t, <2>1, ToSetFacts
  <2> QED
    BY <1>i, <1>q, <2>1, <2>2
<1>12. CASE DriverSend
  <2>1. /\ UNCHANGED <<received, chan, rdMsg>> /\ dvMsg' = NoMsg /\ dvMsg \in Messages
        /\ toClient' \in {toClient, Append(toClient, dvMsg)}
    BY <1>t, <1>12 DEF DriverSend, DriverGoto, clientVars, readerVars
  <2>2. ToSet(Append(toClient, dvMsg)) = ToSet(toClient) \cup {dvMsg}
    BY <1>t, <2>1, ToSetFacts
  <2>3. ToSet(toClient') \subseteq InFlight
    BY <1>i, <2>1, <2>2
  <2> QED
    BY <1>i, <1>q, <2>1, <2>3
<1>13. CASE DriverFrame
  <2>1. /\ UNCHANGED <<received, toClient, chan, rdMsg>>
        /\ dvMsg' \in {NoMsg, ErrorReply, PongReply}
    BY <1>13, FrameCases DEF clientVars, readerVars
  <2> QED
    BY <1>i, <1>q, <2>1
<1>14. CASE UNCHANGED vars
  <2>1. UNCHANGED sessVars
    BY <1>14 DEF vars
  <2> QED
    BY <1>1, <2>1
<1> QED
  BY <1>1, <1>2, <1>3, <1>4, <1>5, <1>6, <1>7, <1>8, <1>9, <1>10, <1>11, <1>12, <1>13, <1>14
     DEF Next, Programs, Client, Reader, Driver, Blocking

\* The code of a message in flight is the reaped leader's.
Honest(msg) ==
  msg.kind = "exited" => status[Leader] = "gone" /\ msg.data = <<ExitCode(waitStatus)>>

CodesHonest == \A msg \in InFlight : Honest(msg)

\* Every step keeps the codes honest: a reaped leader's status is final, and the
\* reader makes its message after its wait has returned.
LEMMA CodesHonestStep ==
  ASSUME SessInv, SessionTypeOK, CodesHonest, [Next]_vars
  PROVE  CodesHonest'
<1> SUFFICES ASSUME NEW msg \in InFlight', msg.kind = "exited"
             PROVE  status'[Leader] = "gone" /\ msg.data = <<ExitCode(waitStatus')>>
  BY DEF CodesHonest, Honest, ExitCode
<1>1. status[Leader] = "gone" /\ msg.data = <<ExitCode(waitStatus)>>
  <2>1. CASE msg \in InFlight
    BY <2>1 DEF CodesHonest, Honest
  <2>2. CASE ReaderWaited /\ msg = ExitMsg(ExitCode(waitStatus))
    <3>1. status[Leader] = "gone"
      BY <2>2 DEF ReaderWaited, SessInv, PtyInv, FinishedMeansReaped, Threads
    <3> QED
      BY <2>2, <3>1 DEF ExitMsg
  <2> QED
    BY <2>1, <2>2, InFlightStep
<1>2. status'[Leader] = "gone" /\ waitStatus' = waitStatus
  BY <1>1, LeaderStays, SessionStepIsPtyStep DEF SessInv
<1> QED
  BY <1>1, <1>2

\* The exit codes in flight are the reaped leader's.
THEOREM HonestCodes == Spec => []CodesHonest
<1>1. Init => CodesHonest
  BY DEF Init, CodesHonest, InFlight, Honest, ToSet, NoMsg
<1>2. SessInv /\ SessionTypeOK /\ CodesHonest /\ [Next]_vars => CodesHonest'
  BY CodesHonestStep
<1> QED
  BY <1>1, <1>2, SessionInvariant, SessionTypes, PTL DEF Spec

\* No session tells a client a code that is not the leader's own, whichever of
\* the reader's wait and the driver's cleanup reaps it.
THEOREM ToldCodesAreTrue == Spec => []ExitCodeTrue
<1>1. SessionTypeOK /\ CodesHonest => ExitCodeTrue
  <2> SUFFICES ASSUME SessionTypeOK, CodesHonest, NEW msg \in ToSet(Pipeline),
                      msg.kind = "exited"
               PROVE  /\ status[Leader] = "gone"
                      /\ msg.data = <<IF waitStatus.exited THEN waitStatus.code ELSE -1>>
    BY DEF ExitCodeTrue
  <2>1. /\ received \in Seq(AnyMessage) /\ toClient \in Seq(AnyMessage)
        /\ chan \in Seq(AnyMessage)
        /\ <<dvMsg>> \in Seq(AnyMessage) /\ <<rdMsg>> \in Seq(AnyMessage)
    <3>1. dvMsg \in AnyMessage /\ rdMsg \in AnyMessage
      BY MessagesAreAny DEF SessionTypeOK
    <3> QED
      BY <3>1, MessagesAreAny DEF SessionTypeOK
  <2>2. /\ received \o toClient \in Seq(AnyMessage)
        /\ received \o toClient \o <<dvMsg>> \in Seq(AnyMessage)
        /\ received \o toClient \o <<dvMsg>> \o chan \in Seq(AnyMessage)
    BY <2>1, ConcatProperties
  <2>3. ToSet(received \o toClient) = ToSet(received) \cup ToSet(toClient)
    BY <2>1, ToSetConcat
  <2>6. ToSet(received \o toClient \o <<dvMsg>>)
          = ToSet(received \o toClient) \cup ToSet(<<dvMsg>>)
    BY <2>1, <2>2, ToSetConcat, ZenonT(30)
  <2>7. ToSet(received \o toClient \o <<dvMsg>> \o chan)
          = ToSet(received \o toClient \o <<dvMsg>>) \cup ToSet(chan)
    BY <2>1, <2>2, ToSetConcat, ZenonT(30)
  <2>8. ToSet(received \o toClient \o <<dvMsg>> \o chan \o <<rdMsg>>)
          = ToSet(received \o toClient \o <<dvMsg>> \o chan) \cup ToSet(<<rdMsg>>)
    <3> DEFINE w == received \o toClient \o <<dvMsg>> \o chan
    <3>1. w \in Seq(AnyMessage)
      BY <2>2
    <3> HIDE DEF w
    <3>2. ToSet(w \o <<rdMsg>>) = ToSet(w) \cup ToSet(<<rdMsg>>)
      BY <2>1, <3>1, ToSetConcat, ZenonT(30)
    <3> QED
      BY <3>2, Zenon DEF w
  <2>4. ToSet(<<dvMsg>>) = {dvMsg} /\ ToSet(<<rdMsg>>) = {rdMsg}
    BY DEF ToSet
  <2>5. msg \in InFlight
    BY <2>3, <2>4, <2>6, <2>7, <2>8, Zenon DEF InFlight, Pipeline, Delivered
  <2> QED
    BY <2>5 DEF CodesHonest, Honest, ExitCode
<1> QED
  BY <1>1, HonestCodes, SessionTypes, PTL

\* The reader is the last to leave: its task ends after the leader was reaped,
\* whether the cleanup could signal anybody or not, and whoever reaped it.
LastToLeave == rd = "end" => status[Leader] = "gone"

\* A refused send or the end of the output leads to the wait, and only the exit
\* message to the end of the task.
LEMMA LastToLeaveStep ==
  ASSUME SessInv, CodesHonest, LastToLeave, [Next]_vars
  PROVE  LastToLeave'
<1>1. CASE status[Leader] = "gone"
  BY <1>1, LeaderStays, SessionStepIsPtyStep DEF SessInv, LastToLeave
<1>2. CASE ReaderSend
  <2>1. rd' = AfterSend(rdMsg)
    BY <1>2 DEF ReaderSend, ReaderGoto
  <2>2. CASE rdMsg.kind = "exited"
    BY <1>1, <2>2 DEF CodesHonest, Honest, InFlight
  <2>3. CASE rdMsg.kind # "exited"
    BY <2>1, <2>3 DEF AfterSend, LastToLeave
  <2> QED
    BY <2>2, <2>3
<1>3. CASE Reader /\ ~ReaderSend
  <2>1. rd' # "end"
    BY <1>3 DEF Reader, ReaderRead, ReaderEof, ReaderFails, ReaderWait, ReaderWaited, ReaderGoto
  <2> QED
    BY <2>1 DEF LastToLeave
<1>4. CASE DriverSpawn
  BY <1>4 DEF DriverSpawn, LastToLeave
<1>5. CASE rd' = rd
  BY <1>1, <1>5 DEF LastToLeave
<1>6. CASE Programs \/ Client
  <2>1. rd' = rd
    BY <1>6 DEF Programs, Client, ProgramPrint, ProgramRead, ClientType, ClientOdd, ClientClose,
       ClientLost, ClientSilent, ClientReceive, sessVars, readerVars
  <2> QED
    BY <1>5, <2>1
<1>7. CASE Driver /\ ~DriverSpawn
  <2>1. CASE DriverFrame
    BY <1>5, <2>1, FrameCases DEF readerVars
  <2>2. CASE ~DriverFrame
    <3>1. rd' = rd
      BY <1>7, <2>2 DEF Driver, DriverSpawnFails, DriverRecv, DriverSend, DriverRecvFails,
         DriverWrite, DriverTerminate, DriverReturn, readerVars
    <3> QED
      BY <1>5, <3>1
  <2> QED
    BY <2>1, <2>2
<1>8. CASE (\E t \in Threads : Blocking(t)) \/ UNCHANGED vars
  <2>1. rd' = rd
    BY <1>8 DEF Blocking, vars, sessVars
  <2> QED
    BY <1>5, <2>1
<1> QED
  BY <1>2, <1>3, <1>4, <1>6, <1>7, <1>8 DEF Next

\* A leader that the cleanup was not permitted to end is not forgotten: as long as
\* it is unreaped there is a reader that is going to wait for it (session.rs:40-46).
THEOREM ReaderLeavesLast == Spec => []LastToLeave
<1>1. Init => LastToLeave
  BY DEF Init, LastToLeave
<1>2. SessInv /\ CodesHonest /\ LastToLeave /\ [Next]_vars => LastToLeave'
  BY LastToLeaveStep
<1> QED
  BY <1>1, <1>2, SessionInvariant, HonestCodes, PTL DEF Spec

-----------------------------------------------------------------------------
(* Input. *)

\* Taking the first byte off a queue.
LEMMA CatQueue ==
  ASSUME NEW a, NEW q, a \in Seq(Int), q \in Seq(Int), q # <<>>
  PROVE  /\ Append(a, Head(q)) = Cat(a, <<Head(q)>>) /\ q = Cat(<<Head(q)>>, Tail(q))
         /\ <<Head(q)>> \in Seq(Int) /\ Tail(q) \in Seq(Int)
<1>1. Head(q) \in Int /\ Tail(q) \in Seq(Int) /\ q = <<Head(q)>> \o Tail(q)
  BY QueueFacts
<1>2. Append(a, Head(q)) = a \o <<Head(q)>> /\ <<Head(q)>> \in Seq(Int)
  BY <1>1
<1> QED
  BY <1>1, <1>2, Zenon DEF Cat

\* Taking the first frame off the network, or adding one at its end.
LEMMA CatStream ==
  ASSUME NEW f, f \in Seq(Requests)
  PROVE  /\ Stream(f) \in Seq(Int) /\ \A r \in Requests : Carried(r) \in Seq(Int)
         /\ \A r \in Requests : Stream(Append(f, r)) = Cat(Stream(f), Carried(r))
         /\ f # <<>> => /\ Stream(f) = Cat(Carried(Head(f)), Stream(Tail(f)))
                        /\ Carried(Head(f)) \in Seq(Int) /\ Stream(Tail(f)) \in Seq(Int)
<1>1. /\ Stream(f) \in Seq(Int) /\ \A r \in AnyMessage : Carried(r) \in Seq(Int)
      /\ \A r \in AnyMessage : Stream(Append(f, r)) = Cat(Stream(f), Carried(r))
      /\ f # <<>> => Stream(f) = Cat(Carried(Head(f)), Stream(Tail(f)))
  BY StreamFacts, Zenon DEF Cat
<1>2. f # <<>> => Head(f) \in Requests /\ Tail(f) \in Seq(Requests)
  BY QueueFacts
<1>3. f # <<>> => Stream(Tail(f)) \in Seq(Int)
  BY <1>2, StreamFacts
<1>4. Requests \subseteq AnyMessage
  BY MessagesAreAny
<1> QED
  BY <1>1, <1>2, <1>3, <1>4, Zenon

\* What the programs have read and may still read, and with what the driver and
\* the network are bringing.
InFlow(e, p, d, f) == Cat(Cat(Cat(e, p), d), Stream(f))

\* A program that reads, a byte that is written, a frame that is taken up: each
\* keeps the input in flight as it is,
LEMMA InFlowRead ==
  ASSUME NEW e, NEW p, e \in Seq(Int), p \in Seq(Int), p # <<>>
  PROVE  Cat(Append(e, Head(p)), Tail(p)) = Cat(e, p)
<1>1. /\ Append(e, Head(p)) = Cat(e, <<Head(p)>>) /\ p = Cat(<<Head(p)>>, Tail(p))
      /\ <<Head(p)>> \in Seq(Int) /\ Tail(p) \in Seq(Int)
  BY CatQueue
<1>2. Cat(Cat(e, <<Head(p)>>), Tail(p)) = Cat(e, Cat(<<Head(p)>>, Tail(p)))
  BY <1>1, CatFacts, ZenonT(30)
<1> QED
  BY <1>1, <1>2, Zenon

\* also when the byte comes from the driver,
LEMMA InFlowWrite ==
  ASSUME NEW e, NEW p, NEW d, NEW f,
         e \in Seq(Int), p \in Seq(Int), d \in Seq(Int), d # <<>>
  PROVE  InFlow(e, Append(p, Head(d)), Tail(d), f) = InFlow(e, p, d, f)
<1> DEFINE h == <<Head(d)>>
<1>1. /\ Append(p, Head(d)) = Cat(p, h) /\ d = Cat(h, Tail(d))
      /\ h \in Seq(Int) /\ Tail(d) \in Seq(Int)
  BY CatQueue
<1> HIDE DEF h
<1>2. Cat(e, p) \in Seq(Int)
  BY CatFacts, Zenon
<1>3. Cat(Cat(e, p), h) = Cat(e, Cat(p, h))
  BY <1>1, CatFacts, ZenonT(30)
<1>4. Cat(Cat(Cat(e, p), h), Tail(d)) = Cat(Cat(e, p), Cat(h, Tail(d)))
  BY <1>1, <1>2, CatAssociative
<1> QED
  BY <1>1, <1>3, <1>4, Zenon DEF InFlow

\* also when the frame becomes what the driver has to write.
LEMMA InFlowFrame ==
  ASSUME NEW e, NEW p, NEW f,
         e \in Seq(Int), p \in Seq(Int), f \in Seq(Requests), f # <<>>
  PROVE  InFlow(e, p, Carried(Head(f)), Tail(f)) = InFlow(e, p, <<>>, f)
<1>1. /\ Stream(f) = Cat(Carried(Head(f)), Stream(Tail(f)))
      /\ Carried(Head(f)) \in Seq(Int) /\ Stream(Tail(f)) \in Seq(Int)
  BY CatStream
<1>2. Cat(e, p) \in Seq(Int)
  BY CatFacts, Zenon
<1>3. Cat(Cat(Cat(e, p), Carried(Head(f))), Stream(Tail(f)))
        = Cat(Cat(e, p), Cat(Carried(Head(f)), Stream(Tail(f))))
  BY <1>1, <1>2, CatFacts, ZenonT(30)
<1>4. Cat(Cat(e, p), <<>>) = Cat(e, p)
  BY <1>2, CatFacts, Zenon
<1> QED
  BY <1>1, <1>3, <1>4, Zenon DEF InFlow

\* What is typed goes to the end of it.
LEMMA InFlowTyped ==
  ASSUME NEW e, NEW p, NEW d, NEW f, NEW r,
         e \in Seq(Int), p \in Seq(Int), d \in Seq(Int), f \in Seq(Requests), r \in Requests
  PROVE  InFlow(e, p, d, Append(f, r)) = Cat(InFlow(e, p, d, f), Carried(r))
<1>1. /\ Stream(Append(f, r)) = Cat(Stream(f), Carried(r))
      /\ Stream(f) \in Seq(Int) /\ Carried(r) \in Seq(Int)
  BY CatStream
<1>2. Cat(e, p) \in Seq(Int)
  BY CatFacts, Zenon
<1>3. Cat(Cat(e, p), d) \in Seq(Int)
  BY <1>2, CatFacts, Zenon
<1>4. Cat(Cat(Cat(Cat(e, p), d), Stream(f)), Carried(r))
        = Cat(Cat(Cat(e, p), d), Cat(Stream(f), Carried(r)))
  <2> DEFINE V == Cat(Cat(e, p), d)
  <2>1. V \in Seq(Int) /\ Stream(f) \in Seq(Int) /\ Carried(r) \in Seq(Int)
    BY <1>1, <1>3, Zenon
  <2> HIDE DEF V
  <2>2. Cat(Cat(V, Stream(f)), Carried(r)) = Cat(V, Cat(Stream(f), Carried(r)))
    BY <2>1, CatAssociative
  <2> QED
    BY <2>2, Zenon DEF V
<1> QED
  BY <1>1, <1>4, Zenon DEF InFlow

\* While the driver drives, what was typed is read, waiting to be read or on its
\* way; what was written to the terminal is always the beginning of it.
Driving == dv = "spawn" \/ (dv \in {"select", "send", "write"} /\ tty # {})

InputInv ==
  /\ Driving => InFlow(eaten, ptyIn, dvIn, fromClient) = Count(0, typed)
  /\ \E k \in 0..typed : Cat(eaten, ptyIn) = Count(0, k)

\* What was written is the beginning of what was typed.
LEMMA WrittenIsCounted ==
  ASSUME NEW e, NEW p, NEW d, NEW f, NEW n,
         e \in Seq(Int), p \in Seq(Int), d \in Seq(Int), f \in Seq(Requests), n \in Nat,
         InFlow(e, p, d, f) = Count(0, n)
  PROVE  \E k \in 0..n : Cat(e, p) = Count(0, k)
<1> DEFINE W == Cat(e, p)
           V == Cat(W, d)
<1>1. W \in Seq(Int) /\ Stream(f) \in Seq(Int)
  BY CatFacts, CatStream
<1> HIDE DEF W
<1>2. V \in Seq(Int)
  BY <1>1, CatFacts, Zenon
<1>3. Cat(V, Stream(f)) = Count(0, n)
  BY Zenon DEF InFlow, W
<1>4. Len(V) \in Nat /\ Len(V) <= n /\ V = Count(0, Len(V))
  <2> HIDE DEF V
  <2> QED
    BY <1>1, <1>2, <1>3, CountSplit
<1>5. Len(W) \in Nat /\ Len(W) <= Len(V) /\ W = Count(0, Len(W))
  <2>1. Cat(W, d) = Count(0, Len(V)) /\ Len(V) \in Nat
    BY <1>4, Zenon
  <2> HIDE DEF V
  <2> QED
    BY <1>1, <2>1, CountSplit
<1>6. Len(W) \in 0..n
  <2> HIDE DEF V
  <2> QED
    BY <1>4, <1>5
<1> QED
  BY <1>5, <1>6, Zenon DEF W

\* A shorter count is a prefix of a longer one.
LEMMA CountPrefix ==
  ASSUME NEW n \in Nat, NEW k \in 0..n
  PROVE  IsPrefix(Count(0, k), Count(0, n))
<1> DEFINE x == Count(0, k)
           y == Count(0, n)
<1>1. x \in Seq(Int) /\ Len(x) = k /\ y \in Seq(Int) /\ Len(y) = n
  BY CountType
<1>2. \A i \in 1..k : x[i] = i /\ y[i] = i
  BY DEF Count
<1> HIDE DEF x, y
<1>3. SubSeq(x, 1, k) = SubSeq(y, 1, k)
  BY <1>1, <1>2
<1> QED
  BY <1>1, <1>3 DEF IsPrefix, x, y

\* Every step keeps the input in order: write_all is not left before its last
\* byte, and a terminal nobody holds is never held again.
LEMMA InputStep ==
  ASSUME SessInv, SessionTypeOK, SessionTypeOK', InputInv, [Next]_vars
  PROVE  InputInv'
<1>t. /\ eaten \in Seq(Int) /\ ptyIn \in Seq(Int) /\ dvIn \in Seq(Int)
      /\ fromClient \in Seq(Requests) /\ typed \in Nat
      /\ (dv # "write" => dvIn = <<>>) /\ <<>> \in Seq(Int)
  BY DEF SessionTypeOK
<1>w. Cat(eaten, ptyIn)' = Cat(eaten', ptyIn')
      /\ InFlow(eaten, ptyIn, dvIn, fromClient)' = InFlow(eaten', ptyIn', dvIn', fromClient')
  BY DEF Cat, InFlow, Stream
<1>q. ASSUME UNCHANGED <<eaten, ptyIn, typed, fromClient>>, dvIn' = dvIn, dv' # "spawn",
             Driving' => Driving
      PROVE  InputInv'
  BY <1>q DEF InputInv
<1>r. ASSUME UNCHANGED <<eaten, ptyIn, typed, fromClient, dv, dvIn>>, tty = {} => tty' = {}
      PROVE  InputInv'
  BY <1>r DEF InputInv, Driving
<1>1. CASE UNCHANGED sessVars /\ (Environment \/ \E t \in Threads : Work(t))
  <2>1. UNCHANGED <<eaten, ptyIn, typed, fromClient, dv, dvIn>> /\ (tty = {} => tty' = {})
    BY <1>1, QuietStep DEF sessVars, SessInv
  <2> QED
    BY <1>r, <2>1
<1>2. CASE (\E p \in Procs : ProgramPrint(p)) \/ ClientLost \/ ClientSilent \/ ClientReceive
  BY <1>2, <1>r DEF ProgramPrint, ClientLost, ClientSilent, ClientReceive, ptyVars, driverVars,
     clientVars, netVars, termVars
<1>3. ASSUME NEW p \in Procs, ProgramRead(p) PROVE InputInv'
  <2>1. /\ ptyIn # <<>> /\ eaten' = Append(eaten, Head(ptyIn)) /\ ptyIn' = Tail(ptyIn)
        /\ UNCHANGED <<dv, dvIn, fromClient, typed, tty>> /\ tty # {}
    BY <1>3 DEF ProgramRead, ptyVars, driverVars, clientVars, netVars
  <2>3. Cat(eaten', ptyIn') = Cat(eaten, ptyIn)
    BY <1>t, <2>1, InFlowRead
  <2>4. InFlow(eaten', ptyIn', dvIn', fromClient') = InFlow(eaten, ptyIn, dvIn, fromClient)
    BY <2>1, <2>3, Zenon DEF InFlow
  <2> QED
    BY <2>1, <2>3, <2>4 DEF InputInv, Driving
<1>4. ASSUME NEW r \in Requests, NEW n \in Nat, Carried(r) = Count(typed, n), typed' = typed + n,
             fromClient' = Append(fromClient, r), UNCHANGED <<eaten, ptyIn, dv, dvIn, tty>>
      PROVE  InputInv'
  <2>1. InFlow(eaten, ptyIn, dvIn, Append(fromClient, r))
          = Cat(InFlow(eaten, ptyIn, dvIn, fromClient), Carried(r))
    BY <1>t, InFlowTyped
  <2>2. Cat(Count(0, typed), Count(typed, n)) = Count(0, typed + n)
    BY <1>t, CountFacts, Zenon DEF Cat
  <2>3. \A k \in 0..typed : k \in 0..typed'
    BY <1>4, <1>t
  <2>4. Driving => InFlow(eaten, ptyIn, dvIn, fromClient') = Count(0, typed')
    BY <1>4, <2>1, <2>2, Zenon DEF InputInv
  <2>5. \E k \in 0..typed' : Cat(eaten, ptyIn) = Count(0, k)
    BY <2>3, Zenon DEF InputInv
  <2> QED
    BY <1>4, <2>4, <2>5 DEF InputInv, Driving
<1>5. ASSUME NEW n \in 1..MaxIn, ClientType(n) PROVE InputInv'
  <2>1. /\ InputFrame(Count(typed, n)) \in Requests
        /\ Carried(InputFrame(Count(typed, n))) = Count(typed, n) /\ n \in Nat
    <3>1. Count(typed, n) \in Seq(Int) /\ n \in Nat
      BY <1>t, CountType
    <3> QED
      BY <3>1, RequestFacts, CarriedFacts, Zenon
  <2>2. /\ typed' = typed + n /\ fromClient' = Append(fromClient, InputFrame(Count(typed, n)))
        /\ UNCHANGED <<eaten, ptyIn, dv, dvIn, tty>>
    BY <1>5 DEF ClientType, ptyVars, driverVars, termVars
  <2> QED
    BY <1>4, <2>1, <2>2
<1>6. ASSUME NEW f \in OddFrames \cup {CloseFrame}, fromClient' = Append(fromClient, f),
             UNCHANGED <<typed, eaten, ptyIn, dv, dvIn, tty>>
      PROVE  InputInv'
  <2>1. f \in Requests /\ Carried(f) = <<>> /\ Count(typed, 0) = <<>> /\ typed + 0 = typed
    <3>1. Count(typed, 0) \in Seq(Int) /\ Len(Count(typed, 0)) = 0
      BY <1>t, CountType
    <3>2. Count(typed, 0) = <<>>
      BY <3>1, EmptySeq
    <3>3. f \in Requests /\ Carried(f) = <<>>
      BY RequestFacts, CarriedFacts, Zenon
    <3> QED
      BY <1>t, <3>2, <3>3
  <2> QED
    BY <1>4, <1>6, <2>1
<1>7. CASE ClientClose \/ \E f \in OddFrames : ClientOdd(f)
  BY <1>6, <1>7 DEF ClientClose, ClientOdd, ptyVars, driverVars, termVars
<1>8. CASE Reader /\ ~ReaderWait
  BY <1>8, <1>r DEF Reader, ReaderRead, ReaderEof, ReaderFails, ReaderSend, ReaderWaited,
     ReaderGoto, ptyVars, driverVars, clientVars, netVars, termVars
<1>9. CASE ReaderWait
  BY <1>9, <1>r DEF ReaderWait, StartWait, ReaderGoto, procVars, driverVars, clientVars,
     netVars,
     termVars
<1>10. CASE DriverSpawn
  <2>1. /\ dv = "spawn" /\ dv' = "select" /\ dvIn' = <<>>
        /\ UNCHANGED <<eaten, ptyIn, fromClient, typed>>
    BY <1>10 DEF DriverSpawn, DriverGoto, clientVars, netVars
  <2>2. InFlow(eaten', ptyIn', dvIn', fromClient') = Count(0, typed')
    BY <1>t, <2>1 DEF InputInv, Driving
  <2> QED
    BY <2>1, <2>2 DEF InputInv
<1>11. CASE DriverSpawnFails \/ DriverRecvFails
  BY <1>11, <1>t, <1>q DEF DriverSpawnFails, DriverRecvFails, DriverGoto, Driving, ptyVars,
     clientVars, netVars
<1>12. CASE DriverRecv \/ DriverSend
  BY <1>12, <1>t, <1>q DEF DriverRecv, DriverSend, DriverGoto, Driving, ptyVars, clientVars,
     netVars
<1>13. CASE DriverTerminate \/ DriverReturn
  BY <1>13, <1>t, <1>q DEF DriverTerminate, DriverReturn, StartTerminate, StartDrop, DriverGoto,
     Driving, procVars, clientVars, netVars
<1>14. CASE DriverFrame
  <2>1. /\ dv = "select" /\ fromClient # <<>> /\ fromClient' = Tail(fromClient)
        /\ UNCHANGED <<eaten, ptyIn, typed, tty>> /\ dvIn = <<>>
        /\ dv' # "spawn" /\ dvIn' = Carried(Head(fromClient))
    <3>1. dvIn' = Carried(Head(fromClient))
      <4>1. CASE Head(fromClient).kind = "input" /\ dvIn' = Head(fromClient).data
        BY <4>1 DEF Carried, Data
      <4>2. CASE Head(fromClient).kind \notin {"input", "output"} /\ dvIn' = <<>>
        BY <4>2 DEF Carried, Data
      <4> QED
        BY <1>14, <4>1, <4>2, FrameCases
    <3> QED
      BY <1>14, <1>t, <3>1, FrameCases DEF ptyVars, clientVars
  <2>2. InFlow(eaten, ptyIn, dvIn', fromClient') = InFlow(eaten, ptyIn, dvIn, fromClient)
    <3>1. InFlow(eaten, ptyIn, Carried(Head(fromClient)), Tail(fromClient))
            = InFlow(eaten, ptyIn, <<>>, fromClient)
      BY <1>t, <2>1, InFlowFrame
    <3> QED
      BY <2>1, <3>1, Zenon
  <2> QED
    BY <2>1, <2>2 DEF InputInv, Driving
<1>15. CASE DriverWrite
  <2>1. CASE dvIn = <<>>
    BY <1>15, <2>1, <1>q DEF DriverWrite, DriverGoto, Driving, ptyVars, clientVars, netVars
  <2>2. CASE dvIn # <<>> /\ tty = {}
    BY <1>15, <2>2 DEF DriverWrite, DriverGoto, InputInv, Driving, ptyVars, clientVars, netVars
  <2>3. CASE dvIn # <<>> /\ tty # {}
    <3>1. /\ dv = "write" /\ dv' = "write" /\ dvIn' = Tail(dvIn)
          /\ ptyIn' = Append(ptyIn, Head(dvIn)) /\ UNCHANGED <<eaten, fromClient, typed, tty>>
      BY <1>15, <2>3 DEF DriverWrite, DriverGoto, ptyVars, clientVars, netVars
    <3>2. InFlow(eaten', ptyIn', dvIn', fromClient') = Count(0, typed')
      <4>1. InFlow(eaten', ptyIn', dvIn', fromClient') = InFlow(eaten, ptyIn, dvIn, fromClient)
        <5>1. InFlow(eaten, Append(ptyIn, Head(dvIn)), Tail(dvIn), fromClient)
                = InFlow(eaten, ptyIn, dvIn, fromClient)
          BY <1>t, <2>3, InFlowWrite
        <5> QED
          BY <3>1, <5>1, Zenon
      <4>2. InFlow(eaten, ptyIn, dvIn, fromClient) = Count(0, typed)
        BY <2>3, <3>1 DEF InputInv, Driving
      <4> QED
        BY <3>1, <4>1, <4>2
    <3>3. \E k \in 0..typed' : Cat(eaten', ptyIn') = Count(0, k)
      <4>1. /\ eaten' \in Seq(Int) /\ ptyIn' \in Seq(Int) /\ dvIn' \in Seq(Int)
            /\ fromClient' \in Seq(Requests) /\ typed' \in Nat
        BY DEF SessionTypeOK
      <4> QED
        BY <3>2, <4>1, WrittenIsCounted
    <3> QED
      BY <3>1, <3>2, <3>3 DEF InputInv
  <2> QED
    BY <2>1, <2>2, <2>3
<1>16. CASE UNCHANGED vars
  BY <1>16, <1>r DEF vars, ptyVars, sessVars
<1> QED
  BY <1>1, <1>2, <1>3, <1>5, <1>7, <1>8, <1>9, <1>10, <1>11, <1>12, <1>13, <1>14, <1>15, <1>16
     DEF Next, Programs, Client, Reader, Driver, Blocking

\* The input invariant holds in every reachable state.
THEOREM InputInvariant == Spec => []InputInv
<1>1. Init => InputInv
  <2> SUFFICES ASSUME Init PROVE InputInv
    OBVIOUS
  <2>1. /\ eaten = <<>> /\ ptyIn = <<>> /\ dvIn = <<>> /\ fromClient = <<>>
        /\ typed = 0 /\ dv = "spawn"
    BY DEF Init
  <2>2. Count(0, 0) = <<>> /\ Stream(<<>>) = <<>> /\ Cat(<<>>, <<>>) = <<>>
    <3>1. <<>> \in Seq(Int)
      OBVIOUS
    <3> QED
      BY <3>1, CountFacts, BytesEmpty, CatFacts, Zenon DEF Stream
  <2>3. InFlow(eaten, ptyIn, dvIn, fromClient) = Count(0, typed) /\ Cat(eaten, ptyIn) = Count(0, 0)
    BY <2>1, <2>2, Zenon DEF InFlow
  <2>4. 0 \in 0..typed
    BY <2>1
  <2> QED
    BY <2>1, <2>3, <2>4 DEF InputInv, Driving
<1>2. SessInv /\ SessionTypeOK /\ SessionTypeOK' /\ InputInv /\ [Next]_vars => InputInv'
  BY InputStep
<1> QED
  BY <1>1, <1>2, SessionInvariant, SessionTypes, PTL DEF Spec

\* Every typed byte is read once and in order while the session drives the socket,
\* and what the programs have read is always the beginning of what was typed.
THEOREM InputIsConserved == Spec => []InputConserved
<1>1. SessionTypeOK /\ InputInv => InputConserved
  <2> SUFFICES ASSUME SessionTypeOK, InputInv PROVE InputConserved
    OBVIOUS
  <2>1. IsPrefix(eaten \o ptyIn, Count(0, typed))
    <3>1. PICK k \in 0..typed : Cat(eaten, ptyIn) = Count(0, k)
      BY DEF InputInv
    <3>2. IsPrefix(Cat(eaten, ptyIn), Count(0, typed))
      BY <3>1, CountPrefix DEF SessionTypeOK
    <3> QED
      BY <3>2, Zenon DEF Cat
  <2>2. Driving => eaten \o ptyIn \o dvIn \o Stream(fromClient) = Count(0, typed)
    BY Zenon DEF InputInv, InFlow, Cat
  <2> QED
    BY <2>1, <2>2, Zenon DEF InputConserved, Driving
<1> QED
  BY <1>1, InputInvariant, SessionTypes, PTL
=============================================================================
