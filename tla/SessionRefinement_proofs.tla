--------------------- MODULE SessionRefinement_proofs ----------------------
(***************************************************************************)
(* A session implements TerminalSession.  The refinement needs what no     *)
(* single step shows: that the exit code comes after every message and     *)
(* every byte, that it comes when nobody can print any more, and that a    *)
(* client that listens was shown the beginning of what was printed.        *)
(***************************************************************************)
EXTENDS Session_proofs

-----------------------------------------------------------------------------
(* The command. *)

\* Before the spawn there is no process and no thread is at work.
Born == ~Spawned => Running = {} /\ tty = {} /\ \A t \in Threads : pc[t] = "idle"

\* A leader that has exited left a code of its own, or none.
CodeKnown == Waitable => ExitCode(waitStatus) \in Codes \cup {-1}

\* Every step of the PTY keeps both, and a leader that has exited keeps its status.
LEMMA CommandStep ==
  ASSUME PtyInv, Born, CodeKnown, [PtyNext]_ptyVars
  PROVE  /\ Born' /\ CodeKnown'
         /\ Spawned => Spawned'
         /\ Waitable => Waitable' /\ waitStatus' = waitStatus
<1> USE DEF PtyInv, PtyTypeOK, Procs, Spawned, Waitable
<1>1. ASSUME NEW p \in Procs, NEW q \in Procs, Fork(p, q)
      PROVE  /\ Spawned /\ status'[Leader] = status[Leader] /\ waitStatus' = waitStatus
  BY <1>1, LeaderAssumption DEF Fork, Live, Born
<1>2. ASSUME NEW p \in Procs, Exit(p)
      PROVE  /\ Spawned /\ Spawned' /\ CodeKnown'
             /\ Waitable => Waitable' /\ waitStatus' = waitStatus
  <2>1. p \in Running /\ Spawned
    BY <1>2 DEF Exit, Born
  <2>2. CASE p = Leader
    <3>1. ExitCode(Signalled) = -1 /\ \A c \in Codes : ExitCode(Exited(c)) = c
      BY DEF ExitCode, Signalled, Exited
    <3>2. status[Leader] = "running" /\ status'[Leader] = "zombie"
      BY <1>2, <2>1, <2>2 DEF Exit, Running
    <3>3. waitStatus' = Signalled \/ \E c \in Codes : waitStatus' = Exited(c)
      BY <1>2, <2>2 DEF Exit
    <3>4. ExitCode(waitStatus)' \in Codes \cup {-1}
      BY <3>1, <3>3 DEF ExitCode
    <3> QED
      BY <3>2, <3>4 DEF CodeKnown
  <2>3. CASE p # Leader
    <3>1. status'[Leader] = status[Leader] /\ waitStatus' = waitStatus
      BY <1>2, <2>3 DEF Exit
    <3> QED
      BY <2>1, <3>1 DEF CodeKnown, ExitCode
  <2> QED
    BY <2>2, <2>3
<1>3. ASSUME NEW p \in Procs, CloseTty(p) \/ Elevate(p)
      PROVE  Spawned /\ status' = status /\ waitStatus' = waitStatus
  BY <1>3 DEF CloseTty, Elevate, Live, Born
<1>4. CASE Spawn
  BY <1>4 DEF Spawn, Born, CodeKnown
<1>5. CASE StartTerminate \/ StartDrop \/ StartWait
  BY <1>5 DEF StartTerminate, StartDrop, StartWait, procVars, Born, CodeKnown, ExitCode
<1>6. ASSUME NEW t \in Threads, Work(t)
      PROVE  /\ Spawned /\ Spawned' /\ waitStatus' = waitStatus
             /\ status' = status \/ (Waitable /\ status'[Leader] = "gone")
  <2>1. pc[t] # "idle"
    BY <1>6 DEF Work, Acquire, Check, SendTerm, GraceExit, GraceExpires, SendKill, Reap
  <2>2. Spawned
    BY <2>1 DEF Born
  <2>3. waitStatus' = waitStatus /\ (status' = status \/ (Waitable /\ status' = Reaped))
    BY <1>6 DEF Work, Acquire, Check, SendTerm, GraceExit, GraceExpires, SendKill, Reap,
       procVars
  <2> QED
    BY <2>2, <2>3 DEF Reaped
<1>7. CASE UNCHANGED ptyVars
  <2>1. UNCHANGED <<status, tty, pc, waitStatus>>
    BY <1>7 DEF ptyVars
  <2> QED
    BY <2>1 DEF Born, CodeKnown, Running, ExitCode
<1>8. ASSUME Spawned', waitStatus' = waitStatus, Waitable' => Waitable
      PROVE  Born' /\ CodeKnown'
  BY <1>8 DEF Born, CodeKnown, ExitCode
<1> QED
  BY <1>1, <1>2, <1>3, <1>4, <1>5, <1>6, <1>7, <1>8 DEF PtyNext, Environment, Born

\* Both hold in every reachable state of a PTY.
THEOREM CommandInvariant == PtySpec => [](Born /\ CodeKnown)
<1>1. PtyInit => Born /\ CodeKnown
  BY DEF PtyInit, Born, CodeKnown, Spawned, Waitable, Running, Procs
<1>2. PtyInv /\ (Born /\ CodeKnown) /\ [PtyNext]_ptyVars => (Born /\ CodeKnown)'
  BY CommandStep
<1> QED
  BY <1>1, <1>2, PtyInvariant, PTL DEF PtySpec

-----------------------------------------------------------------------------
(* The place of the exit code among the messages. *)

HasExit(q)  == \E i \in DOMAIN q : q[i].kind = "exited"
ExitLast(q) == \A i \in DOMAIN q : q[i].kind = "exited" => i = Len(q)

\* What a step at either end of a queue does to the exit code in it.
LEMMA ExitQueue ==
  ASSUME NEW q, q \in Seq(Messages)
  PROVE  /\ ~HasExit(<<>>) /\ ExitLast(<<>>)
         /\ \A m \in Messages : /\ HasExit(Append(q, m)) <=> HasExit(q) \/ m.kind = "exited"
                                /\ ~HasExit(q) => ExitLast(Append(q, m))
         /\ q # <<>> => /\ HasExit(Tail(q)) => HasExit(q)
                        /\ ExitLast(q) => ExitLast(Tail(q))
                        /\ Head(q).kind = "exited" => HasExit(q)
                        /\ Head(q).kind = "exited" /\ ExitLast(q) => Tail(q) = <<>>
<1>1. DOMAIN q = 1..Len(q) /\ Len(q) \in Nat
  BY LenProperties
<1>2. ~HasExit(<<>>) /\ ExitLast(<<>>)
  BY DEF HasExit, ExitLast
<1>3. ASSUME NEW m \in Messages
      PROVE  /\ HasExit(Append(q, m)) <=> HasExit(q) \/ m.kind = "exited"
             /\ ~HasExit(q) => ExitLast(Append(q, m))
  <2>1. /\ DOMAIN Append(q, m) = 1..(Len(q) + 1) /\ Append(q, m)[Len(q) + 1] = m
        /\ Len(Append(q, m)) = Len(q) + 1
        /\ \A i \in 1..Len(q) : Append(q, m)[i] = q[i]
    OBVIOUS
  <2>2. 1..(Len(q) + 1) = 1..Len(q) \cup {Len(q) + 1}
    BY <1>1
  <2>3. HasExit(Append(q, m)) <=> HasExit(q) \/ m.kind = "exited"
    BY <1>1, <2>1, <2>2, Zenon DEF HasExit
  <2>4. ~HasExit(q) => ExitLast(Append(q, m))
    BY <1>1, <2>1, <2>2, Zenon DEF HasExit, ExitLast
  <2> QED
    BY <2>3, <2>4
<1>4. ASSUME q # <<>>
      PROVE  /\ HasExit(Tail(q)) => HasExit(q)
             /\ ExitLast(q) => ExitLast(Tail(q))
             /\ Head(q).kind = "exited" => HasExit(q)
             /\ Head(q).kind = "exited" /\ ExitLast(q) => Tail(q) = <<>>
  <2>1. 1 \in DOMAIN q /\ Head(q) = q[1] /\ Len(q) \in Nat \ {0}
    BY <1>4
  <2>2. /\ DOMAIN Tail(q) = 1..(Len(q) - 1) /\ Len(Tail(q)) = Len(q) - 1
        /\ \A i \in 1..(Len(q) - 1) : Tail(q)[i] = q[i + 1] /\ i + 1 \in DOMAIN q
    BY <1>1, <1>4
  <2>3. HasExit(Tail(q)) => HasExit(q)
    BY <2>2, Zenon DEF HasExit
  <2>4. ExitLast(q) => ExitLast(Tail(q))
    <3> SUFFICES ASSUME ExitLast(q), NEW i \in DOMAIN Tail(q), Tail(q)[i].kind = "exited"
                 PROVE  i = Len(Tail(q))
      BY DEF ExitLast
    <3>1. i \in 1..(Len(q) - 1) /\ i + 1 = Len(q)
      BY <2>2, Zenon DEF ExitLast
    <3> QED
      BY <2>1, <2>2, <3>1
  <2>5. Head(q).kind = "exited" => HasExit(q)
    BY <2>1 DEF HasExit
  <2>6. ASSUME Head(q).kind = "exited", ExitLast(q) PROVE Tail(q) = <<>>
    <3>1. 1 = Len(q)
      BY <2>1, <2>6, Zenon DEF ExitLast
    <3>2. Tail(q) \in Seq(Messages) /\ Len(Tail(q)) = 0
      BY <1>4, <2>2, <3>1, QueueFacts
    <3> QED
      BY <3>2, EmptySeq
  <2> QED
    BY <2>3, <2>4, <2>5, <2>6
<1> QED
  BY <1>2, <1>3, <1>4

\* The exit code of two queues, one after the other.
LEMMA ExitConcat ==
  ASSUME NEW p, NEW q, p \in Seq(Messages), q \in Seq(Messages)
  PROVE  /\ HasExit(p \o q) <=> HasExit(p) \/ HasExit(q)
         /\ ExitLast(p \o q) /\ q # <<>> => ~HasExit(p)
<1>1. \A s \in Seq(Messages) : HasExit(s) <=> \E m \in ToSet(s) : m.kind = "exited"
  BY Zenon DEF HasExit, ToSet
<1>2. p \o q \in Seq(Messages) /\ ToSet(p \o q) = ToSet(p) \cup ToSet(q)
  BY ConcatProperties, ToSetConcat
<1>3. HasExit(p \o q) <=> HasExit(p) \/ HasExit(q)
  BY <1>1, <1>2, Zenon
<1>4. ASSUME ExitLast(p \o q), q # <<>>, HasExit(p) PROVE FALSE
  <2>1. PICK i \in DOMAIN p : p[i].kind = "exited"
    BY <1>4 DEF HasExit
  <2>2. i \in 1..Len(p) /\ Len(p) \in Nat /\ Len(q) \in Nat \ {0}
    BY <1>4, LenProperties, EmptySeq
  <2>3. /\ i \in DOMAIN (p \o q) /\ (p \o q)[i] = p[i]
        /\ Len(p \o q) = Len(p) + Len(q)
    BY <2>2
  <2>4. i = Len(p \o q)
    BY <1>4, <2>1, <2>3 DEF ExitLast
  <2> QED
    BY <2>2, <2>3, <2>4
<1> QED
  BY <1>3, <1>4

\* The client takes nothing out of what it was sent; the driver adds at the end.
LEMMA DeliveredMoves ==
  ASSUME NEW r, NEW t, r \in Seq(Messages), t \in Seq(Messages)
  PROVE  /\ r \o t \in Seq(Messages)
         /\ t # <<>> => Append(r, Head(t)) \o Tail(t) = r \o t
         /\ \A m \in Messages : r \o Append(t, m) = Append(r \o t, m)
<1>1. r \o t \in Seq(Messages)
  BY ConcatProperties
<1>2. ASSUME t # <<>> PROVE Append(r, Head(t)) \o Tail(t) = r \o t
  <2>1. Head(t) \in Messages /\ Tail(t) \in Seq(Messages)
    BY <1>2, QueueFacts
  <2>2. t = <<Head(t)>> \o Tail(t)
    BY <1>2, QueueFacts
  <2>3. Append(r, Head(t)) = r \o <<Head(t)>> /\ <<Head(t)>> \in Seq(Messages)
    BY <2>1
  <2>4. (r \o <<Head(t)>>) \o Tail(t) = r \o (<<Head(t)>> \o Tail(t))
    <3> DEFINE h == <<Head(t)>>
               u == Tail(t)
    <3>1. h \in Seq(Messages) /\ u \in Seq(Messages)
      BY <2>1
    <3> HIDE DEF h, u
    <3>2. (r \o h) \o u = r \o (h \o u)
      BY <3>1, ConcatAssociative
    <3> QED
      BY <3>2, Zenon DEF h, u
  <2> QED
    BY <2>2, <2>3, <2>4, Zenon
<1>3. ASSUME NEW m \in Messages PROVE r \o Append(t, m) = Append(r \o t, m)
  OBVIOUS
<1> QED
  BY <1>1, <1>2, <1>3

-----------------------------------------------------------------------------
(* The order of the messages. *)

\* On its way to the client the exit code has no message behind it, and the
\* reader that sent it is at its end.
ChanOrder ==
  /\ ExitLast(chan) /\ (HasExit(chan) => rd = "end")
  /\ dvMsg.kind = "exited" => rd = "end" /\ chan = <<>>

\* Nor has it at the client's; once it is there the driver is done and, unless a
\* read failed, nobody holds the terminal.
CodeOut == HasExit(received) \/ (client = "open" /\ HasExit(Delivered))

ClientOrder ==
  /\ client = "open" => ExitLast(Delivered)
  /\ client = "open" /\ HasExit(Delivered) =>
       chan = <<>> /\ dv \in {"over", "terminating", "returned"}
  /\ CodeOut => rd = "end" /\ (~readFailed => tty = {})

\* What the reader does after the end of file finds no output left behind.
Drained == AfterEof /\ dv # "returned" /\ ~readFailed => ptyOut = <<>>

OrderInv == ChanOrder /\ ClientOrder /\ Drained

\* Only ExitMsg makes an exit code.
LEMMA MessageKinds ==
  /\ NoMsg.kind # "exited" /\ Failure.kind # "exited" /\ ErrorReply.kind # "exited"
  /\ PongReply.kind # "exited"
  /\ \A s : Output(s).kind = "output"
  /\ \A c : ExitMsg(c).kind = "exited"
BY DEF NoMsg, Failure, ErrorReply, PongReply, Output, ExitMsg

\* Every step keeps the code last: the reader sends nothing after it.
LEMMA ChanOrderStep ==
  ASSUME SessInv, SessionTypeOK, ChanOrder, [Next]_vars
  PROVE  ChanOrder'
<1>t. /\ chan \in Seq(Messages) /\ (rd = "send" => rdMsg \in Messages)
      /\ (dv # "send" => dvMsg = NoMsg)
  BY DEF SessionTypeOK
<1>q. ASSUME chan' = chan, dvMsg' \in {dvMsg, NoMsg, ErrorReply, PongReply},
             rd' = rd \/ rd # "end"
      PROVE  ChanOrder'
  BY <1>q, MessageKinds DEF ChanOrder, HasExit, ExitLast
<1>1. CASE UNCHANGED sessVars
  BY <1>1, <1>q DEF sessVars
<1>2. CASE Client \/ \E p \in Procs : ProgramPrint(p) \/ ProgramRead(p)
  BY <1>2, <1>q DEF Client, ClientType, ClientOdd, ClientClose, ClientLost, ClientSilent,
     ClientReceive, ProgramPrint, ProgramRead, driverVars, readerVars
<1>3. CASE Reader /\ ~ReaderSend
  BY <1>3, <1>q DEF Reader, ReaderRead, ReaderEof, ReaderFails, ReaderWait, ReaderWaited,
     ReaderGoto, driverVars
<1>4. CASE ReaderSend
  <2>1. /\ rd = "send" /\ dvMsg' = dvMsg /\ chan' \in {chan, Append(chan, rdMsg)}
        /\ (rdMsg.kind = "exited" => rd' = "end")
    BY <1>4 DEF ReaderSend, ReaderGoto, AfterSend, driverVars
  <2>2. ~HasExit(chan) /\ dvMsg.kind # "exited" /\ ExitLast(chan)
    BY <2>1 DEF ChanOrder
  <2>3. /\ HasExit(Append(chan, rdMsg)) <=> rdMsg.kind = "exited"
        /\ ExitLast(Append(chan, rdMsg))
    BY <1>t, <2>1, <2>2, ExitQueue
  <2>4. /\ ExitLast(chan') /\ (HasExit(chan') => rd' = "end")
        /\ dvMsg'.kind # "exited"
    BY <2>1, <2>2, <2>3
  <2> QED
    BY <2>4 DEF ChanOrder, ExitLast, HasExit
<1>5. CASE DriverSpawn
  <2>1. rd # "end" /\ chan' = chan /\ dvMsg' = NoMsg
    BY <1>5 DEF DriverSpawn, Spawn, DriverGoto, SessInv, ReaderUse
  <2> QED
    BY <1>q, <2>1
<1>6. CASE DriverSpawnFails \/ DriverSend \/ DriverRecvFails \/ DriverWrite \/ DriverTerminate
  BY <1>6, <1>q DEF DriverSpawnFails, DriverSend, DriverRecvFails, DriverWrite, DriverTerminate,
     DriverGoto, readerVars
<1>7. CASE DriverFrame
  <2>1. chan' = chan /\ rd' = rd /\ dvMsg' \in {NoMsg, ErrorReply, PongReply}
    BY <1>7, FrameCases DEF readerVars
  <2> QED
    BY <1>q, <2>1
<1>8. CASE DriverRecv
  <2>1. chan # <<>> /\ chan' = Tail(chan) /\ dvMsg' = Head(chan) /\ rd' = rd
    BY <1>8 DEF DriverRecv, DriverGoto, readerVars
  <2>2. /\ ExitLast(Tail(chan)) /\ (HasExit(Tail(chan)) => rd = "end")
        /\ Head(chan).kind = "exited" => rd = "end" /\ Tail(chan) = <<>>
    BY <1>t, <2>1, ExitQueue DEF ChanOrder
  <2> QED
    BY <2>1, <2>2 DEF ChanOrder, ExitLast, HasExit
<1>9. CASE DriverReturn
  <2>1. chan' = <<>> /\ dvMsg' = NoMsg
    BY <1>9 DEF DriverReturn, DriverGoto
  <2>2. ~HasExit(<<>>) /\ ExitLast(<<>>)
    BY <1>t, ExitQueue
  <2> QED
    BY <2>1, <2>2, MessageKinds DEF ChanOrder, ExitLast, HasExit
<1>10. CASE UNCHANGED vars
  <2>1. UNCHANGED sessVars
    BY <1>10 DEF vars
  <2> QED
    BY <1>1, <2>1
<1> QED
  BY <1>1, <1>2, <1>3, <1>4, <1>5, <1>6, <1>7, <1>8, <1>9, <1>10
     DEF Next, Programs, Reader, Driver, Blocking

\* Every step keeps the code last at the client: the driver that sent it is over,
\* and the terminal the reader found hung up stays so.
LEMMA ClientOrderStep ==
  ASSUME SessInv, SessionTypeOK, ChanOrder, ClientOrder, [Next]_vars
  PROVE  ClientOrder'
<1> DEFINE Over == {"over", "terminating", "returned"}
<1>t. /\ received \in Seq(Messages) /\ toClient \in Seq(Messages)
      /\ (dv = "send" => dvMsg \in Messages)
  BY DEF SessionTypeOK
<1>q. ASSUME UNCHANGED <<received, toClient>>, client' = "open" => client = "open",
             CodeOut => chan' = chan /\ rd' = rd /\ readFailed' = readFailed,
             chan = <<>> => chan' = <<>> \/ ~CodeOut,
             dv \in Over => dv' \in Over, tty = {} => tty' = {} \/ ~CodeOut
      PROVE  ClientOrder'
  BY <1>q DEF ClientOrder, CodeOut, Delivered, HasExit, ExitLast
<1>o. CodeOut => rd = "end"
  BY DEF ClientOrder
<1>1. CASE UNCHANGED sessVars /\ (Environment \/ \E t \in Threads : Work(t))
  <2>1. /\ UNCHANGED <<received, toClient, client, chan, rd, readFailed, dv>>
        /\ tty = {} => tty' = {}
    BY <1>1, QuietStep DEF sessVars, SessInv
  <2> QED
    BY <1>q, <2>1
<1>2. CASE (\E p \in Procs : ProgramPrint(p) \/ ProgramRead(p))
           \/ (Client /\ ~ClientReceive /\ ~ClientLost)
  BY <1>2, <1>q DEF Client, ClientType, ClientOdd, ClientClose, ClientSilent,
     ProgramPrint, ProgramRead, driverVars, readerVars, clientVars, netVars, ptyVars
<1>3. CASE ClientLost
  <2>1. /\ client' = "lost" /\ UNCHANGED <<received, rd, readFailed, tty>>
    BY <1>3 DEF ClientLost, readerVars, ptyVars
  <2> QED
    BY <2>1 DEF ClientOrder, CodeOut, HasExit
<1>4. CASE ClientReceive /\ client = "open"
  <2>1. /\ toClient # <<>> /\ toClient' = Tail(toClient)
        /\ received' = Append(received, Head(toClient))
        /\ UNCHANGED <<client, chan, dv, rd, readFailed, tty>>
    BY <1>4 DEF ClientReceive, driverVars, readerVars, ptyVars
  <2>2. received' \o toClient' = received \o toClient
    BY <1>t, <2>1, DeliveredMoves
  <2>3. received' \in Seq(Messages) /\ toClient' \in Seq(Messages)
    BY <1>t, <2>1, QueueFacts
  <2>4. HasExit(received') => HasExit(received' \o toClient')
    BY <2>3, ExitConcat
  <2>5. HasExit(received') => HasExit(received \o toClient)
    BY <2>2, <2>4, Zenon
  <2>6. /\ ExitLast(Delivered) /\ (HasExit(Delivered) => chan = <<>> /\ dv \in Over)
        /\ (CodeOut => rd = "end" /\ (~readFailed => tty = {}))
    BY <1>4, Zenon DEF ClientOrder
  <2>7. Delivered' = Delivered
    BY <2>2, Zenon DEF Delivered
  <2>8. /\ ExitLast(Delivered') /\ (HasExit(Delivered') => chan' = <<>> /\ dv' \in Over)
    BY <2>1, <2>6, <2>7, Zenon
  <2>9. HasExit(received') \/ HasExit(Delivered') => CodeOut
    BY <1>4, <2>5, <2>7, Zenon DEF CodeOut, Delivered
  <2> QED
    BY <2>1, <2>6, <2>8, <2>9, Zenon DEF ClientOrder, CodeOut, HasExit, ExitLast
<1>5. CASE ClientReceive /\ client # "open"
  <2>1. /\ client' # "open" /\ UNCHANGED <<received, rd, readFailed, tty>>
    BY <1>5 DEF ClientReceive, readerVars, ptyVars
  <2> QED
    BY <2>1 DEF ClientOrder, CodeOut, HasExit
<1>6. CASE Reader
  <2>1. rd # "end"
    BY <1>6 DEF Reader, ReaderRead, ReaderEof, ReaderFails, ReaderSend, ReaderWait, ReaderWaited
  <2>2. UNCHANGED <<received, toClient, client, dv>>
    BY <1>6 DEF Reader, ReaderRead, ReaderEof, ReaderFails, ReaderSend, ReaderWait,
       ReaderWaited,
       ReaderGoto, driverVars, clientVars, netVars
  <2>3. ~CodeOut
    BY <1>o, <2>1
  <2> QED
    BY <1>q, <2>2, <2>3
<1>7. CASE DriverSpawn
  <2>1. /\ rd # "end" /\ dv = "spawn" /\ UNCHANGED <<received, toClient, client>>
    BY <1>7 DEF DriverSpawn, Spawn, DriverGoto, SessInv, ReaderUse, clientVars, netVars
  <2> QED
    BY <1>o, <1>q, <2>1
<1>8. CASE DriverSpawnFails \/ DriverRecvFails \/ DriverWrite
  BY <1>8, <1>q DEF DriverSpawnFails, DriverRecvFails, DriverWrite, DriverGoto, clientVars,
     netVars, readerVars, ptyVars
<1>9. CASE DriverTerminate
  BY <1>9, <1>q DEF DriverTerminate, StartTerminate, DriverGoto, clientVars, netVars,
     readerVars,
     procVars
<1>10. CASE DriverReturn
  <2>1. /\ UNCHANGED <<received, toClient, client, rd, readFailed, tty>>
        /\ chan' = <<>> /\ dv' = "returned"
    BY <1>10 DEF DriverReturn, StartDrop, DriverGoto, clientVars, netVars, readerVars, procVars
  <2> QED
    BY <2>1 DEF ClientOrder, CodeOut, Delivered, HasExit, ExitLast
<1>11. CASE DriverRecv \/ DriverFrame
  <2>1. /\ dv = "select" /\ UNCHANGED <<received, toClient, client, rd, readFailed, tty>>
    <3>1. CASE DriverRecv
      BY <3>1 DEF DriverRecv, DriverGoto, clientVars, netVars, readerVars, ptyVars
    <3>2. CASE DriverFrame
      BY <3>2, FrameCases DEF clientVars, readerVars, ptyVars
    <3> QED
      BY <1>11, <3>1, <3>2
  <2>2. ~(client = "open" /\ HasExit(Delivered))
    BY <2>1 DEF ClientOrder
  <2> QED
    BY <2>1, <2>2 DEF ClientOrder, CodeOut, Delivered, HasExit, ExitLast
<1>12. CASE DriverSend /\ client = "open"
  <2>1. /\ dv = "send" /\ toClient' = Append(toClient, dvMsg)
        /\ UNCHANGED <<received, client, chan, rd, readFailed, tty>>
        /\ dv' = IF dvMsg.kind = "exited" THEN "over" ELSE "select"
    BY <1>12 DEF DriverSend, DriverGoto, clientVars, readerVars, ptyVars
  <2>2. ~HasExit(Delivered) /\ ~HasExit(received)
    <3>1. ~HasExit(Delivered)
      BY <1>12, <2>1 DEF ClientOrder
    <3>2. HasExit(received) => HasExit(received \o toClient)
      BY <1>t, ExitConcat
    <3> QED
      BY <3>1, <3>2, Zenon DEF Delivered
  <2>3. received \o Append(toClient, dvMsg) = Append(received \o toClient, dvMsg)
    BY <1>t, <2>1, DeliveredMoves
  <2>4. Delivered' = Append(Delivered, dvMsg)
    BY <2>1, <2>3, Zenon DEF Delivered
  <2>5. Delivered \in Seq(Messages)
    BY <1>t, DeliveredMoves DEF Delivered
  <2>6. /\ HasExit(Append(Delivered, dvMsg)) <=> dvMsg.kind = "exited"
        /\ ExitLast(Append(Delivered, dvMsg))
    BY <1>t, <2>1, <2>2, <2>5, ExitQueue
  <2>7. ExitLast(Delivered') /\ (HasExit(Delivered') => dvMsg.kind = "exited")
    BY <2>4, <2>6, Zenon
  <2>8. dvMsg.kind = "exited" => rd = "end" /\ chan = <<>> /\ (~readFailed => tty = {})
    BY <2>1 DEF ChanOrder, SessInv, ReaderUse, AfterEof
  <2>9. ~HasExit(received') /\ (dvMsg.kind = "exited" => dv' \in Over)
    BY <2>1, <2>2
  <2>10. HasExit(Delivered)' <=> HasExit(Delivered')
    BY DEF HasExit
  <2>11. HasExit(received)' <=> HasExit(received')
    BY DEF HasExit
  <2>12. CodeOut' => dvMsg.kind = "exited"
    BY <2>7, <2>9, <2>10, <2>11, Zenon DEF CodeOut
  <2>13. ExitLast(Delivered)' <=> ExitLast(Delivered')
    BY DEF ExitLast
  <2>14. ExitLast(Delivered)' /\ (HasExit(Delivered)' => chan' = <<>> /\ dv' \in Over)
    BY <2>1, <2>7, <2>8, <2>9, <2>10, <2>13, Zenon
  <2>15. CodeOut' => rd' = "end" /\ (~readFailed' => tty' = {})
    BY <2>1, <2>8, <2>12, Zenon
  <2> QED
    BY <2>14, <2>15, Zenon DEF ClientOrder
<1>13. CASE DriverSend /\ client # "open"
  <2>1. /\ client' # "open" /\ UNCHANGED <<received, rd, readFailed, tty>>
    BY <1>13 DEF DriverSend, DriverGoto, clientVars, readerVars, ptyVars
  <2> QED
    BY <2>1 DEF ClientOrder, CodeOut, HasExit
<1>14. CASE UNCHANGED vars
  <2>1. /\ UNCHANGED <<received, toClient, client, chan, rd, readFailed, dv, tty>>
    BY <1>14 DEF vars, sessVars, ptyVars
  <2> QED
    BY <1>q, <2>1
<1> QED
  BY <1>1, <1>2, <1>3, <1>4, <1>5, <1>6, <1>7, <1>8, <1>9, <1>10, <1>11, <1>12, <1>13, <1>14
     DEF Next, Programs, Driver, Blocking

\* Every step keeps the terminal drained: EIO comes after the last byte.
LEMMA DrainedStep ==
  ASSUME SessInv, Drained, [Next]_vars
  PROVE  Drained'
<1>q. ASSUME UNCHANGED <<rd, rdMsg, readFailed, ptyOut>>, dv' # "returned" => dv # "returned"
      PROVE  Drained'
  BY <1>q DEF Drained, AfterEof
<1>1. CASE UNCHANGED sessVars
  BY <1>1, <1>q DEF sessVars
<1>2. CASE Client \/ \E p \in Procs : ProgramRead(p)
  BY <1>2, <1>q DEF Client, ClientType, ClientOdd, ClientClose, ClientLost, ClientSilent,
     ClientReceive, ProgramRead, driverVars, readerVars, termVars
<1>3. ASSUME NEW p \in Procs, ProgramPrint(p) PROVE Drained'
  <2>1. tty # {} /\ UNCHANGED <<rd, rdMsg, readFailed, dv>>
    BY <1>3 DEF ProgramPrint, driverVars, readerVars
  <2>2. ~(AfterEof /\ dv # "returned" /\ ~readFailed)
    BY <2>1 DEF SessInv, ReaderUse
  <2> QED
    BY <2>1, <2>2 DEF Drained, AfterEof
<1>4. ASSUME NEW n \in 1..ReadMax, ReaderRead(n) PROVE Drained'
  <2>1. rd' = "send" /\ rdMsg'.kind = "output"
    BY <1>4, MessageKinds DEF ReaderRead, ReaderGoto
  <2> QED
    BY <2>1 DEF Drained, AfterEof
<1>5. CASE ReaderEof
  <2>1. ptyOut' = <<>>
    BY <1>5 DEF ReaderEof, termVars
  <2> QED
    BY <2>1 DEF Drained
<1>6. CASE ReaderFails
  <2>1. readFailed'
    BY <1>6 DEF ReaderFails, ReaderGoto
  <2> QED
    BY <2>1 DEF Drained
<1>7. CASE ReaderSend
  <2>1. /\ rd = "send" /\ rd' = AfterSend(rdMsg) /\ dv' = dv /\ ptyOut' = ptyOut
        /\ (readFailed => readFailed')
    <3>1. readFailed => readFailed'
      BY <1>7, Zenon DEF ReaderSend, ReaderGoto
    <3> QED
      BY <1>7, <3>1 DEF ReaderSend, ReaderGoto, driverVars, termVars
  <2>2. CASE rdMsg.kind = "output" /\ dv # "returned"
    <3>1. rd' = "read"
      BY <2>1, <2>2 DEF AfterSend, RxDropped
    <3> QED
      BY <3>1 DEF Drained, AfterEof
  <2>3. CASE rdMsg.kind # "output"
    BY <2>1, <2>3 DEF Drained, AfterEof
  <2>4. CASE dv = "returned"
    BY <2>1, <2>4 DEF Drained
  <2> QED
    BY <2>2, <2>3, <2>4
<1>8. CASE ReaderWait \/ ReaderWaited
  <2>1. AfterEof /\ dv' = dv /\ ptyOut' = ptyOut
    BY <1>8 DEF ReaderWait, ReaderWaited, ReaderGoto, AfterEof, driverVars, termVars
  <2>2. readFailed => readFailed'
    BY <1>8, Zenon DEF ReaderWait, ReaderWaited, ReaderGoto
  <2> QED
    BY <2>1, <2>2 DEF Drained
<1>9. CASE DriverSpawn
  BY <1>9 DEF DriverSpawn, Drained, AfterEof
<1>10. CASE DriverSpawnFails \/ DriverRecv \/ DriverSend \/ DriverRecvFails \/ DriverWrite
            \/ DriverTerminate \/ DriverReturn
  BY <1>10, <1>q DEF DriverSpawnFails, DriverRecv, DriverSend, DriverRecvFails, DriverWrite,
     DriverTerminate, DriverReturn, DriverGoto, readerVars
<1>11. CASE DriverFrame
  BY <1>11, <1>q, FrameCases DEF readerVars
<1>12. CASE UNCHANGED vars
  <2>1. UNCHANGED sessVars
    BY <1>12 DEF vars
  <2> QED
    BY <1>1, <2>1
<1> QED
  BY <1>1, <1>2, <1>3, <1>4, <1>5, <1>6, <1>7, <1>8, <1>9, <1>10, <1>11, <1>12
     DEF Next, Programs, Reader, Driver, Blocking

\* The order of the messages holds in every reachable state.
THEOREM OrderInvariant == Spec => []OrderInv
<1>1. Init => OrderInv
  <2> SUFFICES ASSUME Init PROVE OrderInv
    OBVIOUS
  <2>1. /\ chan = <<>> /\ received = <<>> /\ toClient = <<>> /\ dvMsg = NoMsg
        /\ rd = "none" /\ ptyOut = <<>>
    BY DEF Init
  <2>2. <<>> \o <<>> = <<>> /\ ~HasExit(<<>>) /\ ExitLast(<<>>)
    BY DEF HasExit, ExitLast
  <2>3. ~HasExit(received) /\ ~HasExit(Delivered) /\ ExitLast(Delivered) /\ ~CodeOut
    BY <2>1, <2>2, Zenon DEF Delivered, CodeOut
  <2> QED
    BY <2>1, <2>2, <2>3, MessageKinds, Zenon DEF OrderInv, ChanOrder, ClientOrder, Drained
<1>2. SessInv /\ SessionTypeOK /\ OrderInv /\ [Next]_vars => OrderInv'
  BY ChanOrderStep, ClientOrderStep, DrainedStep DEF OrderInv
<1> QED
  BY <1>1, <1>2, SessionInvariant, SessionTypes, PTL DEF Spec

-----------------------------------------------------------------------------
(* The output a client is shown. *)

\* What a client that listens has or will be shown is the beginning of what was
\* printed, and all of it once the exit code is out and no read failed.
Shown ==
  client = "open" =>
    \E k \in 0..produced : /\ Stream(Delivered) = Count(0, k)
                           /\ HasExit(Delivered) /\ ~readFailed => k = produced

\* What comes before the rest of a count.
Counted(x, m, c, d, o, n) == Cat(Cat(Cat(Cat(x, m), c), d), o) = Count(0, n)

\* The part of a count that comes first is a count, and all of it when nothing
\* follows.
LEMMA CountHead ==
  ASSUME NEW x, NEW m, NEW c, NEW d, NEW o, NEW n,
         x \in Seq(Int), m \in Seq(Int), c \in Seq(Int), d \in Seq(Int), o \in Seq(Int),
         n \in Nat, Counted(x, m, c, d, o, n)
  PROVE  /\ Len(x) \in 0..n /\ x = Count(0, Len(x))
         /\ m = <<>> /\ c = <<>> /\ d = <<>> /\ o = <<>> => Len(x) = n
<1>1. Cat(x, m) \in Seq(Int)
  BY CatFacts
<1>2. Cat(Cat(x, m), c) \in Seq(Int)
  BY <1>1, CatFacts
<1>3. Cat(Cat(Cat(x, m), c), d) \in Seq(Int)
  BY <1>2, CatFacts
<1>4. /\ Len(Cat(Cat(Cat(x, m), c), d)) \in Nat /\ Len(Cat(Cat(Cat(x, m), c), d)) <= n
      /\ Cat(Cat(Cat(x, m), c), d) = Count(0, Len(Cat(Cat(Cat(x, m), c), d)))
  BY <1>3, CountSplit DEF Counted
<1>5. /\ Len(Cat(Cat(x, m), c)) \in Nat
      /\ Len(Cat(Cat(x, m), c)) <= Len(Cat(Cat(Cat(x, m), c), d))
      /\ Cat(Cat(x, m), c) = Count(0, Len(Cat(Cat(x, m), c)))
  BY <1>2, <1>4, CountSplit
<1>6. /\ Len(Cat(x, m)) \in Nat /\ Len(Cat(x, m)) <= Len(Cat(Cat(x, m), c))
      /\ Cat(x, m) = Count(0, Len(Cat(x, m)))
  BY <1>1, <1>5, CountSplit
<1>7. Len(x) \in Nat /\ Len(x) <= Len(Cat(x, m)) /\ x = Count(0, Len(x))
  BY <1>6, CountSplit
<1>8. Len(x) \in 0..n
  BY <1>4, <1>5, <1>6, <1>7
<1>9. ASSUME m = <<>>, c = <<>>, d = <<>>, o = <<>> PROVE Len(x) = n
  <2>1. Cat(x, <<>>) = x
    BY CatFacts, Zenon
  <2>2. x = Count(0, n)
    BY <1>9, <2>1, Zenon DEF Counted
  <2> QED
    BY <2>2, CountType
<1> QED
  BY <1>7, <1>8, <1>9, Zenon

\* While the session lasts this is what conservation says of a client that listens.
LEMMA ShownNow ==
  ASSUME SessInv, SessionTypeOK, OutputConserved, OrderInv, dv # "returned"
  PROVE  Shown
<1> SUFFICES ASSUME client = "open"
             PROVE  \E k \in 0..produced : /\ Stream(Delivered) = Count(0, k)
                                           /\ HasExit(Delivered) /\ ~readFailed => k = produced
  BY DEF Shown
<1>t. /\ received \in Seq(Messages) /\ toClient \in Seq(Messages) /\ chan \in Seq(Messages)
      /\ dvMsg \in AnyMessage /\ rdMsg \in AnyMessage /\ ptyOut \in Seq(Int)
      /\ (dv # "send" => dvMsg = NoMsg) /\ (rd # "send" => rdMsg = NoMsg) /\ produced \in Nat
  BY MessagesAreAny DEF SessionTypeOK
<1>1. Sent(received, toClient, dvMsg, chan, rdMsg, ptyOut) = Count(0, produced)
  BY Zenon DEF OutputConserved, Sent, Pipeline, Delivered
<1>2. Flow(received, toClient, dvMsg, chan, rdMsg, ptyOut) = Count(0, produced)
  BY <1>1, <1>t, FlowIsPipeline
<1>3. Stream(Delivered) = Stream(received) \o Stream(toClient)
  BY <1>t, MessagesAreAny, BytesConcat, Zenon DEF Delivered, Stream
<1>4. Counted(Stream(Delivered), Carried(dvMsg), Stream(chan), Carried(rdMsg), ptyOut, produced)
  BY <1>2, <1>3, Zenon DEF Counted, Flow, Cat
<1>5. /\ Stream(Delivered) \in Seq(Int) /\ Carried(dvMsg) \in Seq(Int)
      /\ Stream(chan) \in Seq(Int) /\ Carried(rdMsg) \in Seq(Int)
  BY <1>t, StreamFacts, DeliveredMoves DEF Delivered
<1>8. produced \in Nat /\ ptyOut \in Seq(Int)
  BY <1>t
<1>6. LET k == Len(Stream(Delivered))
      IN  /\ k \in 0..produced /\ Stream(Delivered) = Count(0, k)
          /\ Carried(dvMsg) = <<>> /\ Stream(chan) = <<>> /\ Carried(rdMsg) = <<>> /\ ptyOut = <<>>
               => k = produced
  BY <1>4, <1>5, <1>8, CountHead
<1>7. ASSUME HasExit(Delivered), ~readFailed PROVE Len(Stream(Delivered)) = produced
  <2>1. chan = <<>> /\ dv # "send" /\ rd = "end"
    BY <1>7 DEF OrderInv, ClientOrder, CodeOut
  <2>2. ptyOut = <<>>
    BY <1>7, <2>1 DEF OrderInv, Drained, AfterEof
  <2>3. Carried(dvMsg) = <<>> /\ Stream(chan) = <<>> /\ Carried(rdMsg) = <<>>
    BY <1>t, <2>1, CarriedFacts, BytesEmpty DEF Stream
  <2> QED
    BY <1>6, <2>2, <2>3
<1> QED
  BY <1>6, <1>7, Zenon

\* After the end nothing more is sent, and nothing printed to anybody.
LEMMA ReturnedStep ==
  ASSUME SessInv, SessionTypeOK, [Next]_vars, dv' = "returned", client' = "open"
  PROVE  /\ Delivered' = Delivered /\ (readFailed => readFailed')
         /\ produced' = produced \/ (produced' = produced + 1 /\ tty # {})
<1> DEFINE Same == UNCHANGED <<received, toClient, produced, readFailed>>
<1>q. ASSUME Same
      PROVE  /\ Delivered' = Delivered /\ (readFailed => readFailed')
             /\ produced' = produced
  BY <1>q DEF Delivered
<1>1. CASE UNCHANGED sessVars
  BY <1>1, <1>q DEF sessVars
<1>2. CASE (\E p \in Procs : ProgramRead(p)) \/ (Client /\ ~ClientReceive)
  <2>1. Same
    BY <1>2 DEF Client, ClientType, ClientOdd, ClientClose, ClientLost, ClientSilent,
       ProgramRead, readerVars, clientVars, netVars, termVars
  <2> QED
    BY <1>q, <2>1
<1>3. ASSUME NEW p \in Procs, ProgramPrint(p)
      PROVE  /\ Delivered' = Delivered /\ readFailed' = readFailed
             /\ produced' = produced + 1 /\ tty # {}
  BY <1>3 DEF ProgramPrint, Delivered, readerVars, clientVars, netVars
<1>4. CASE ClientReceive
  <2>1. /\ toClient # <<>> /\ toClient' = Tail(toClient) /\ UNCHANGED <<produced, readFailed>>
        /\ received' = Append(received, Head(toClient))
    BY <1>4 DEF ClientReceive, readerVars, termVars
  <2>2. received' \o toClient' = received \o toClient
    BY <2>1, DeliveredMoves DEF SessionTypeOK
  <2> QED
    BY <2>1, <2>2, Zenon DEF Delivered
<1>5. CASE Reader
  <2>1. UNCHANGED <<received, toClient, produced>>
    BY <1>5 DEF Reader, ReaderRead, ReaderEof, ReaderFails, ReaderSend, ReaderWait,
       ReaderWaited,
       ReaderGoto, clientVars, netVars, termVars
  <2>2. readFailed => readFailed'
    BY <1>5, Zenon DEF Reader, ReaderRead, ReaderEof, ReaderFails, ReaderSend, ReaderWait,
       ReaderWaited, ReaderGoto
  <2> QED
    BY <2>1, <2>2 DEF Delivered
<1>6. CASE Driver
  <2>1. CASE DriverSpawnFails \/ DriverReturn
    <3>1. Same
      BY <2>1 DEF DriverSpawnFails, DriverReturn, DriverGoto, clientVars, netVars, readerVars
    <3> QED
      BY <1>q, <3>1
  <2>2. CASE DriverFrame
    <3>1. Same
      BY <2>2, FrameCases DEF clientVars, readerVars
    <3> QED
      BY <1>q, <3>1
  <2>3. CASE DriverSpawn \/ DriverRecv \/ DriverSend \/ DriverRecvFails \/ DriverWrite
             \/ DriverTerminate
    BY <2>3 DEF DriverSpawn, DriverRecv, DriverSend, DriverRecvFails, DriverWrite,
       DriverTerminate, DriverGoto
  <2> QED
    BY <1>6, <2>1, <2>2, <2>3 DEF Driver
<1>7. CASE UNCHANGED vars
  <2>1. UNCHANGED sessVars
    BY <1>7 DEF vars
  <2> QED
    BY <1>1, <2>1
<1> QED
  BY <1>1, <1>2, <1>3, <1>4, <1>5, <1>6, <1>7 DEF Next, Programs, Blocking

\* Afterwards nothing changes what the client was sent.
LEMMA ShownStep ==
  ASSUME SessInv, SessionTypeOK, OrderInv, Shown, [Next]_vars, dv' = "returned"
  PROVE  Shown'
<1> SUFFICES ASSUME client' = "open"
             PROVE  \E k \in 0..produced' :
                      /\ Stream(Delivered)' = Count(0, k)
                      /\ HasExit(Delivered)' /\ ~readFailed' => k = produced'
  BY DEF Shown, Count
<1>1. /\ Delivered' = Delivered /\ (readFailed => readFailed')
      /\ produced' = produced \/ (produced' = produced + 1 /\ tty # {})
  BY ReturnedStep
<1>2. client = "open" /\ produced \in Nat
  BY NoReturn DEF SessionTypeOK
<1>3. PICK k \in 0..produced : /\ Stream(Delivered) = Count(0, k)
                               /\ HasExit(Delivered) /\ ~readFailed => k = produced
  BY <1>2 DEF Shown
<1>4. Stream(Delivered)' = Stream(Delivered) /\ (HasExit(Delivered)' <=> HasExit(Delivered))
  BY <1>1 DEF Stream, HasExit, Bytes
<1>5. k \in 0..produced'
  BY <1>1, <1>2
<1>6. ASSUME HasExit(Delivered)', ~readFailed' PROVE k = produced'
  <2>1. HasExit(Delivered) /\ ~readFailed
    BY <1>1, <1>4, <1>6
  <2>2. tty = {}
    BY <1>2, <2>1 DEF OrderInv, ClientOrder, CodeOut
  <2> QED
    BY <1>1, <1>3, <2>1, <2>2
<1>7. Stream(Delivered)' = Count(0, k)
  BY <1>3, <1>4, Zenon
<1> QED
  BY <1>5, <1>6, <1>7, Zenon

\* It holds in every reachable state.
THEOREM ShownInvariant == Spec => []Shown
<1>1. Init => dv # "returned"
  BY DEF Init
<1>2. SessInv /\ SessionTypeOK /\ OutputConserved /\ OrderInv /\ dv # "returned" => Shown
  BY ShownNow
<1>3. SessInv /\ SessionTypeOK /\ OrderInv /\ Shown /\ [Next]_vars /\ ~(dv # "returned")' => Shown'
  BY ShownStep
<1> QED
  BY <1>1, <1>2, <1>3, SessionInvariant, SessionTypes, OutputIsConserved, OrderInvariant, PTL
     DEF Spec

-----------------------------------------------------------------------------
(* What the person at the client sees of the session. *)

ExitSeen  == IF status[Leader] = "gone" THEN <<ExitCode(waitStatus)>> ELSE <<>>
ShownSeen == Stream(received)
ToldSeen  == Bytes({"exited"}, received)
Here      == client = "open"
Refused   == pc["terminate"] = "failed"
Over      == dv = "returned"

\* The command's side of it, the person's and the server's.
CommandSame == Spawned' = Spawned /\ ExitSeen' = ExitSeen /\ Refused' = Refused
PersonSame  == ShownSeen' = ShownSeen /\ ToldSeen' = ToldSeen /\ Here' = Here
ServerSame  == readFailed' = readFailed /\ Over' = Over
InputSame   == typed' = typed /\ eaten' = eaten

\* Steps nobody sees.
LEMMA NothingSeen ==
  ASSUME CommandSame, PersonSame, ServerSame, InputSame, produced' = produced
  PROVE  UNCHANGED Terminal!vars
BY Zenon DEF Terminal!vars, CommandSame, PersonSame, ServerSame, InputSame, ExitSeen, ShownSeen,
   ToldSeen, Here, Refused, Over

\* The spawn.
LEMMA StartSeen ==
  ASSUME ~Spawned, ~Over, Spawned', ExitSeen' = ExitSeen, Refused' = Refused,
         PersonSame, ServerSame, InputSame, produced' = produced
  PROVE  Terminal!Start
BY Zenon DEF Terminal!Start, PersonSame, ServerSame, InputSame, ExitSeen, ShownSeen,
   ToldSeen, Here, Refused, Over

\* A byte is printed.
LEMMA ProduceSeen ==
  ASSUME Spawned, ToldSeen = <<>> \/ readFailed, produced' = produced + 1,
         CommandSame, PersonSame, ServerSame, InputSame
  PROVE  Terminal!Produce
BY Zenon DEF Terminal!Produce, CommandSame, PersonSame, ServerSame, InputSame, ExitSeen,
   ShownSeen,
   ToldSeen, Here, Refused, Over

\* A piece of the output is shown.
LEMMA ShowSeen ==
  ASSUME NEW n, n \in 1..produced, Here, ToldSeen = <<>>, Len(ShownSeen) + n <= produced,
         ShownSeen' = Cat(ShownSeen, Count(Len(ShownSeen), n)), ToldSeen' = ToldSeen, Here' = Here,
         CommandSame, ServerSame, InputSame, produced' = produced
  PROVE  Terminal!Show(n)
BY Zenon DEF Terminal!Show, Terminal!Numbers, Cat, Count, CommandSame, ServerSame, InputSame,
   ExitSeen, ShownSeen, ToldSeen, Here, Refused, Over

\* Some bytes are typed.
LEMMA TypeSeen ==
  ASSUME Here, typed' \in Nat, typed' > typed, eaten' = eaten,
         CommandSame, PersonSame, ServerSame, produced' = produced
  PROVE  Terminal!Type
BY Zenon DEF Terminal!Type, CommandSame, PersonSame, ServerSame, ExitSeen, ShownSeen,
   ToldSeen, Here, Refused, Over

\* A byte is read.
LEMMA TakeSeen ==
  ASSUME Spawned, Len(eaten) < typed, eaten' = Append(eaten, Len(eaten) + 1), typed' = typed,
         CommandSame, PersonSame, ServerSame, produced' = produced
  PROVE  Terminal!Take
BY Zenon DEF Terminal!Take, CommandSame, PersonSame, ServerSame, ExitSeen, ShownSeen,
   ToldSeen, Here, Refused, Over

\* The command has ended and is reaped.
LEMMA EndSeen ==
  ASSUME Spawned, ExitSeen = <<>>, ExitSeen' \in {<<c>> : c \in Codes \cup {-1}},
         Spawned' = Spawned, Refused' = Refused,
         PersonSame, ServerSame, InputSame, produced' = produced
  PROVE  Terminal!End
BY Zenon DEF Terminal!End, PersonSame, ServerSame, InputSame, ExitSeen, ShownSeen,
   ToldSeen, Here, Refused, Over

\* The exit code is told.
LEMMA TellSeen ==
  ASSUME Here, ToldSeen = <<>>, ExitSeen # <<>>, ToldSeen' = ExitSeen,
         Len(ShownSeen) = produced \/ readFailed, ShownSeen' = ShownSeen, Here' = Here,
         CommandSame, ServerSame, InputSame, produced' = produced
  PROVE  Terminal!Tell
BY Zenon DEF Terminal!Tell, CommandSame, ServerSame, InputSame, ExitSeen, ShownSeen,
   ToldSeen, Here, Refused, Over

\* The person leaves, or is cut off.
LEMMA LeaveSeen ==
  ASSUME Here, ~Here', ShownSeen' = ShownSeen, ToldSeen' = ToldSeen,
         CommandSame, ServerSame, InputSame, produced' = produced
  PROVE  Terminal!Leave
BY Zenon DEF Terminal!Leave, CommandSame, ServerSame, InputSame, ExitSeen, ShownSeen,
   ToldSeen, Here, Refused, Over

\* A read fails.
LEMMA DamageSeen ==
  ASSUME Spawned, readFailed', Over' = Over,
         CommandSame, PersonSame, InputSame, produced' = produced
  PROVE  Terminal!Damage
BY Zenon DEF Terminal!Damage, CommandSame, PersonSame, InputSame, ExitSeen, ShownSeen,
   ToldSeen, Here, Refused, Over

\* The signals are refused.
LEMMA RefuseSeen ==
  ASSUME Spawned, Refused', Spawned' = Spawned, ExitSeen' = ExitSeen,
         PersonSame, ServerSame, InputSame, produced' = produced
  PROVE  Terminal!Refuse
BY Zenon DEF Terminal!Refuse, PersonSame, ServerSame, InputSame, ExitSeen, ShownSeen,
   ToldSeen, Here, Refused, Over

\* The session is over.
LEMMA FinishSeen ==
  ASSUME Spawned => ExitSeen # <<>> \/ Refused, ~Over, Over', readFailed' = readFailed,
         CommandSame, PersonSame, InputSame, produced' = produced
  PROVE  Terminal!Finish
BY Zenon DEF Terminal!Finish, CommandSame, PersonSame, InputSame, ExitSeen, ShownSeen,
   ToldSeen, Here, Refused, Over

-----------------------------------------------------------------------------
(* What the session's steps leave as it was. *)

\* The command's side hangs on the leader's status and the cleanup's end,
LEMMA CommandKept ==
  ASSUME UNCHANGED <<status, waitStatus, pc>>
  PROVE  CommandSame
BY Zenon DEF CommandSame, Spawned, ExitSeen, ExitCode, Refused

\* the person's on what the client has received
LEMMA PersonKept ==
  ASSUME received' = received, client' = client
  PROVE  PersonSame
BY Zenon DEF PersonSame, ShownSeen, ToldSeen, Stream, Bytes, Here

\* and the server's on a failed read and the driver's return.
LEMMA ServerKept ==
  ASSUME readFailed' = readFailed, dv' = dv \/ (dv # "returned" /\ dv' # "returned")
  PROVE  ServerSame
<1>1. (dv' = "returned") = (dv = "returned")
  BY Zenon
<1> QED
  BY <1>1, Zenon DEF ServerSame, Over

\* A step of the PTY below: it ends and reaps the command, or is refused the
\* signals, or is not seen.
LEMMA PtySeen ==
  ASSUME PtyInv, Born, CodeKnown, Environment \/ \E t \in Threads : Work(t)
  PROVE  \/ CommandSame
         \/ /\ Spawned /\ ExitSeen = <<>> /\ ExitSeen' \in {<<c>> : c \in Codes \cup {-1}}
            /\ Spawned' = Spawned /\ Refused' = Refused
         \/ Spawned /\ Refused' /\ Spawned' = Spawned /\ ExitSeen' = ExitSeen
<1> USE DEF PtyInv, PtyTypeOK, Procs
<1>1. CASE Environment
  <2>1. Spawned' <=> Spawned
    BY <1>1, QuietStep
  <2>2. status'[Leader] = "gone" <=> status[Leader] = "gone"
    BY <1>1, LeaderAssumption DEF Environment, Fork, Exit, CloseTty, Elevate, Running, Live
  <2>3. status[Leader] = "gone" => waitStatus' = waitStatus
    BY <1>1, LeaderAssumption DEF Environment, Fork, Exit, CloseTty, Elevate, Running, Live
  <2>4. pc' = pc
    BY <1>1 DEF Environment, Fork, Exit, CloseTty, Elevate, serverVars
  <2>5. ExitSeen' = ExitSeen
    BY <2>2, <2>3 DEF ExitSeen, ExitCode
  <2>6. Refused' = Refused
    BY <2>4, Zenon DEF Refused
  <2> QED
    BY <2>1, <2>5, <2>6, Zenon DEF CommandSame, Spawned
<1>2. ASSUME NEW t \in Threads, Work(t)
      PROVE  \/ UNCHANGED <<status, waitStatus>> /\ (Refused' <=> Refused)
             \/ /\ Waitable /\ status' = Reaped /\ waitStatus' = waitStatus
                /\ (Refused' <=> Refused)
             \/ UNCHANGED <<status, waitStatus>> /\ Refused'
  <2> USE DEF Work, Acquire, Check, SendTerm, GraceExit, GraceExpires, SendKill, Reap, Goto,
  Finish,
              procVars, Final, Threads, Cleaners
  <2>1. waitStatus' = waitStatus /\ (status' = status \/ (Waitable /\ status' = Reaped))
    BY <1>2
  <2>2. status' # status => (Refused' <=> Refused)
    BY <1>2 DEF Refused
  <2>3. Refused => Refused'
    BY <1>2 DEF Refused
  <2> QED
    BY <2>1, <2>2, <2>3
<1>3. ASSUME NEW t \in Threads, Work(t) PROVE Spawned
  <2>1. pc[t] # "idle"
    BY <1>3 DEF Work, Acquire, Check, SendTerm, GraceExit, GraceExpires, SendKill, Reap
  <2> QED
    BY <2>1 DEF Born
<1>4. ASSUME UNCHANGED <<status, waitStatus>> PROVE Spawned' = Spawned /\ ExitSeen' = ExitSeen
  BY <1>4, Zenon DEF Spawned, ExitSeen, ExitCode
<1>5. ASSUME Waitable, status' = Reaped, waitStatus' = waitStatus
      PROVE  \/ Spawned' = Spawned /\ ExitSeen' = ExitSeen
             \/ /\ ExitSeen = <<>> /\ ExitSeen' \in {<<c>> : c \in Codes \cup {-1}}
                /\ Spawned' = Spawned
  <2>1. status'[Leader] = "gone" /\ status[Leader] # "unborn"
    BY <1>5 DEF Reaped, Waitable
  <2>2. Spawned' = Spawned
    BY <2>1 DEF Spawned
  <2>3. ExitSeen' = <<ExitCode(waitStatus)>> /\ ExitSeen \in {<<>>, <<ExitCode(waitStatus)>>}
    BY <1>5, <2>1 DEF ExitSeen, ExitCode
  <2>4. ExitCode(waitStatus) \in Codes \cup {-1}
    BY <1>5 DEF CodeKnown
  <2> QED
    BY <2>2, <2>3, <2>4
<1>6. CASE \E t \in Threads : Work(t)
  <2>1. (Refused' <=> Refused) => Refused' = Refused
    BY DEF Refused
  <2>2. PICK t \in Threads : Work(t)
    BY <1>6
  <2> QED
    BY <1>2, <1>3, <1>4, <1>5, <2>1, <2>2, Zenon DEF CommandSame
<1> QED
  BY <1>1, <1>6

-----------------------------------------------------------------------------
\* The client was told a code, or no message that tells one has come.
ToldInv == HasExit(received) \/ ToldSeen = <<>>

\* Every step keeps this: Bytes finds a code only where a message has one.
LEMMA ToldStep ==
  ASSUME SessionTypeOK, ToldInv, [Next]_vars
  PROVE  ToldInv'
<1>t. received \in Seq(Messages) /\ toClient \in Seq(Messages)
  BY DEF SessionTypeOK
<1>1. CASE received' = received
  BY <1>1, Zenon DEF ToldInv, ToldSeen, HasExit, Bytes
<1>2. CASE ClientReceive /\ received' # received
  <2>1. toClient # <<>> /\ received' = Append(received, Head(toClient))
    BY <1>2 DEF ClientReceive
  <2>2. Head(toClient) \in Messages /\ Head(toClient) \in AnyMessage
    BY <1>t, <2>1, QueueFacts, MessagesAreAny
  <2>3. HasExit(received') <=> HasExit(received) \/ Head(toClient).kind = "exited"
    BY <1>t, <2>1, <2>2, ExitQueue
  <2>4. CASE HasExit(received')
    BY <2>4 DEF ToldInv, HasExit
  <2>5. CASE ~HasExit(received')
    <3>1. ToldSeen = <<>> /\ Data({"exited"}, Head(toClient)) = <<>>
      BY <2>3, <2>5 DEF ToldInv, Data
    <3>2. Bytes({"exited"}, received') = ToldSeen \o Data({"exited"}, Head(toClient))
      BY <1>t, <2>1, <2>2, MessagesAreAny, BytesAppend DEF ToldSeen
    <3>3. <<>> \o <<>> = <<>>
      OBVIOUS
    <3>4. Bytes({"exited"}, received') = <<>>
      BY <3>1, <3>2, <3>3, Zenon
    <3> QED
      BY <3>4, Zenon DEF ToldInv, ToldSeen, Bytes
  <2> QED
    BY <2>4, <2>5
<1>3. ClientReceive \/ received' = received
  <2>1. CASE Driver
    <3>1. CASE DriverFrame
      BY <3>1, FrameCases DEF clientVars
    <3> QED
      BY <2>1, <3>1 DEF Driver, DriverSpawn, DriverSpawnFails, DriverRecv, DriverSend,
         DriverRecvFails, DriverWrite, DriverTerminate, DriverReturn, DriverGoto, clientVars
  <2>2. CASE UNCHANGED vars
    <3>1. UNCHANGED sessVars
      BY <2>2 DEF vars
    <3> QED
      BY <3>1 DEF sessVars
  <2> QED
    BY <2>1, <2>2 DEF Next, Programs, ProgramPrint, ProgramRead, Client, ClientType, ClientOdd,
       ClientClose, ClientLost, ClientSilent, Reader, ReaderRead, ReaderEof, ReaderFails,
       ReaderSend,
       ReaderWait, ReaderWaited, ReaderGoto, Blocking, sessVars, clientVars
<1> QED
  BY <1>1, <1>2, <1>3

\* It holds in every reachable state.
THEOREM ToldInvariant == Spec => []ToldInv
<1>1. Init => ToldInv
  BY BytesEmpty DEF Init, ToldInv, ToldSeen
<1>2. SessionTypeOK /\ ToldInv /\ [Next]_vars => ToldInv'
  BY ToldStep
<1> QED
  BY <1>1, <1>2, SessionTypes, PTL DEF Spec

-----------------------------------------------------------------------------
(* The steps of a session. *)

\* Everything a session's step relies on to be one of TerminalSession.
SeenInv ==
  /\ SessInv /\ SessionTypeOK /\ OrderInv /\ Shown /\ InputInv /\ CodesHonest
  /\ Born /\ CodeKnown /\ ToldInv

SeenNext == Terminal!Next \/ UNCHANGED Terminal!vars

\* The command and the programs: printing, reading, the end.
LEMMA ProgramsSeen ==
  ASSUME SeenInv, Programs \/ \E t \in Threads : Blocking(t)
  PROVE  SeenNext
<1>b. Born /\ SessInv
  BY DEF SeenInv
<1>1. ASSUME NEW p \in Procs, ProgramPrint(p) PROVE SeenNext
  <2>1. /\ p \in tty /\ produced' = produced + 1 /\ UNCHANGED ptyVars
        /\ UNCHANGED <<received, client, readFailed, dv, typed, eaten>>
    BY <1>1 DEF ProgramPrint, readerVars, clientVars, driverVars
  <2>2. Spawned
    BY <1>b, <2>1 DEF Born
  <2>3. ToldSeen = <<>> \/ readFailed
    BY <2>1 DEF SeenInv, OrderInv, ClientOrder, CodeOut, ToldInv
  <2>4. CommandSame /\ PersonSame /\ ServerSame /\ InputSame
    BY <2>1, CommandKept, PersonKept, ServerKept DEF ptyVars, InputSame
  <2>5. Terminal!Produce
    BY <2>1, <2>2, <2>3, <2>4, ProduceSeen
  <2> QED
    BY <2>5, Zenon DEF SeenNext, Terminal!Next
<1>2. ASSUME NEW p \in Procs, ProgramRead(p) PROVE SeenNext
  <2>1. /\ p \in tty /\ ptyIn # <<>> /\ eaten' = Append(eaten, Head(ptyIn)) /\ UNCHANGED ptyVars
        /\ UNCHANGED <<received, client, readFailed, dv, typed, produced>>
    BY <1>2 DEF ProgramRead, readerVars, clientVars, driverVars
  <2>2. Spawned
    BY <1>b, <2>1 DEF Born
  <2>3. /\ eaten \in Seq(Int) /\ ptyIn \in Seq(Int) /\ typed \in Nat
        /\ \E k \in 0..typed : Cat(eaten, ptyIn) = Count(0, k)
    BY DEF SeenInv, SessionTypeOK, InputInv
  <2>4. PICK k \in 0..typed : Cat(eaten, ptyIn) = Count(0, k)
    BY <2>3
  <2>5. /\ Len(eaten) \in Nat /\ Len(ptyIn) \in Nat /\ Len(eaten) + Len(ptyIn) = k
        /\ ptyIn = Count(Len(eaten), Len(ptyIn))
    BY <2>3, <2>4, CountSplit
  <2>6. Len(ptyIn) # 0 /\ Head(ptyIn) = ptyIn[1]
    BY <2>1, <2>3
  <2>7. ptyIn[1] = Len(eaten) + 1
    BY <2>5, <2>6 DEF Count
  <2>8. Len(eaten) < typed /\ eaten' = Append(eaten, Len(eaten) + 1)
    <3>1. typed \in Nat /\ k \in 0..typed
      BY <2>3
    <3>2. Len(eaten) < typed
      BY <2>5, <2>6, <3>1
    <3> QED
      BY <2>1, <2>6, <2>7, <3>2, Zenon
  <2>9. CommandSame /\ PersonSame /\ ServerSame
    BY <2>1, CommandKept, PersonKept, ServerKept DEF ptyVars
  <2>10. Terminal!Take
    BY <2>1, <2>2, <2>8, <2>9, TakeSeen
  <2> QED
    BY <2>10, Zenon DEF SeenNext, Terminal!Next
<1>3. CASE UNCHANGED sessVars /\ (Environment \/ \E t \in Threads : Work(t))
  <2>1. UNCHANGED <<received, client, readFailed, dv, typed, eaten, produced>>
    BY <1>3 DEF sessVars
  <2>2. PersonSame /\ ServerSame /\ InputSame /\ produced' = produced
    BY <2>1, PersonKept, ServerKept DEF InputSame
  <2>3. CASE CommandSame
    <3>1. UNCHANGED Terminal!vars
      BY <2>2, <2>3, NothingSeen
    <3> QED
      BY <3>1, Zenon DEF SeenNext
  <2>4. CASE /\ Spawned /\ ExitSeen = <<>> /\ ExitSeen' \in {<<c>> : c \in Codes \cup {-1}}
             /\ Spawned' = Spawned /\ Refused' = Refused
    <3>1. Terminal!End
      BY <2>2, <2>4, EndSeen, Zenon
    <3> QED
      BY <3>1, Zenon DEF SeenNext, Terminal!Next
  <2>5. CASE Spawned /\ Refused' /\ Spawned' = Spawned /\ ExitSeen' = ExitSeen
    <3>1. Terminal!Refuse
      BY <2>2, <2>5, RefuseSeen, Zenon
    <3> QED
      BY <3>1, Zenon DEF SeenNext, Terminal!Next
  <2> QED
    BY <1>3, <2>3, <2>4, <2>5, PtySeen, Zenon DEF SeenInv, SessInv
<1> QED
  BY <1>1, <1>2, <1>3 DEF Programs, Blocking

\* The person: typing, leaving, being shown a piece of the output or the code.
LEMMA ClientSeen ==
  ASSUME SeenInv, Client
  PROVE  SeenNext
<1>t. /\ received \in Seq(Messages) /\ toClient \in Seq(Messages) /\ typed \in Nat
      /\ produced \in Nat /\ client \in {"open", "closed", "lost", "silent"}
  BY DEF SeenInv, SessionTypeOK
<1>c. UNCHANGED ptyVars /\ UNCHANGED <<readFailed, dv, eaten, produced>>
  BY DEF Client, ClientType, ClientOdd, ClientClose, ClientLost, ClientSilent, ClientReceive,
     readerVars, driverVars, termVars
<1>s. CommandSame /\ ServerSame /\ produced' = produced
  BY <1>c, CommandKept, ServerKept DEF ptyVars
<1>q. ASSUME PersonSame, typed' = typed PROVE SeenNext
  <2>1. UNCHANGED Terminal!vars
    BY <1>c, <1>s, <1>q, NothingSeen DEF InputSame
  <2> QED
    BY <2>1, Zenon DEF SeenNext
<1>1. ASSUME NEW n \in 1..MaxIn, ClientType(n) PROVE SeenNext
  <2>1. Here /\ UNCHANGED <<received, client>> /\ typed' = typed + n
    BY <1>1 DEF ClientType, Here
  <2>2. typed' \in Nat /\ typed' > typed
    BY <1>t, <2>1
  <2>3. Terminal!Type
    BY <1>c, <1>s, <2>1, <2>2, PersonKept, TypeSeen
  <2> QED
    BY <2>3, Zenon DEF SeenNext, Terminal!Next
<1>2. ASSUME NEW frame \in OddFrames, ClientOdd(frame) PROVE SeenNext
  <2>1. UNCHANGED <<received, client, typed>>
    BY <1>2 DEF ClientOdd
  <2> QED
    BY <1>q, <2>1, PersonKept
<1>3. CASE ClientClose \/ ClientLost \/ ClientSilent
  <2>1. received' = received /\ typed' = typed /\ client' # "open"
    BY <1>3 DEF ClientClose, ClientLost, ClientSilent
  <2>2. ShownSeen' = ShownSeen /\ ToldSeen' = ToldSeen /\ ~Here'
    BY <2>1, Zenon DEF ShownSeen, ToldSeen, Stream, Bytes, Here
  <2>3. CASE Here
    <3>1. Terminal!Leave
      BY <1>c, <1>s, <2>1, <2>2, <2>3, LeaveSeen DEF InputSame
    <3> QED
      BY <3>1, Zenon DEF SeenNext, Terminal!Next
  <2>4. CASE ~Here
    <3>1. Here' = Here
      BY <2>2, <2>4 DEF Here
    <3>2. PersonSame
      BY <2>2, <3>1, Zenon DEF PersonSame
    <3> QED
      BY <1>q, <2>1, <3>2
  <2> QED
    BY <2>3, <2>4
<1>4. CASE ClientReceive
  <2>1. /\ toClient # <<>> /\ toClient' = Tail(toClient) /\ UNCHANGED <<client, typed>>
        /\ received' = IF Here THEN Append(received, Head(toClient)) ELSE received
    BY <1>4 DEF ClientReceive, Here
  <2>2. CASE ~Here
    <3>1. received' = received
      BY <2>1, <2>2
    <3> QED
      BY <1>q, <2>1, <3>1, PersonKept
  <2>3. CASE Here
    <3> DEFINE m == Head(toClient)
    <3>1. /\ m \in Messages /\ m \in AnyMessage /\ Tail(toClient) \in Seq(Messages)
          /\ received' = Append(received, m)
      BY <1>t, <2>1, <2>3, QueueFacts, MessagesAreAny
    <3>2. /\ Stream(Append(received, m)) = Cat(Stream(received), Carried(m))
          /\ Stream(toClient) = Cat(Carried(m), Stream(Tail(toClient)))
          /\ Stream(received) \in Seq(Int) /\ Carried(m) \in Seq(Int)
          /\ Stream(Tail(toClient)) \in Seq(Int) /\ Stream(toClient) \in Seq(Int)
      BY <1>t, <2>1, <3>1, StreamFacts, Zenon DEF Cat
    <3>3. ShownSeen' = Cat(ShownSeen, Carried(m))
      BY <3>1, <3>2, Zenon DEF ShownSeen, Stream, Bytes
    <3>4. Bytes({"exited"}, Append(received, m)) = ToldSeen \o Data({"exited"}, m)
      BY <1>t, <3>1, MessagesAreAny, BytesAppend DEF ToldSeen
    <3>5. ToldSeen' = ToldSeen \o Data({"exited"}, m)
      BY <3>1, <3>4, Zenon DEF ToldSeen, Bytes
    <3>6. Here' = Here /\ Here
      BY <2>1, <2>3, Zenon DEF Here
    <3>7. ~HasExit(received)
      BY <1>t, <2>1, <2>3, ExitConcat DEF SeenInv, OrderInv, ClientOrder, Delivered, Here
    <3>8. ToldSeen = <<>>
      BY <3>7 DEF SeenInv, ToldInv
    <3>9. InputSame
      BY <1>c, <2>1 DEF InputSame
    <3>10. Stream(Delivered) = Cat(Stream(received), Stream(toClient))
      BY <1>t, MessagesAreAny, BytesConcat, Zenon DEF Delivered, Stream, Cat
    <3>11. PICK k \in 0..produced : /\ Stream(Delivered) = Count(0, k)
                                    /\ HasExit(Delivered) /\ ~readFailed => k = produced
      BY <2>3 DEF SeenInv, Shown, Here
    <3>12. CASE m.kind = "exited"
      <4>1. HasExit(toClient) /\ m \in ToSet(toClient)
        BY <1>t, <2>1, <3>12, ExitQueue, ToSetFacts
      <4>2. status[Leader] = "gone" /\ m.data = <<ExitCode(waitStatus)>>
        BY <3>12, <4>1 DEF SeenInv, CodesHonest, Honest, InFlight
      <4>3. /\ Data({"exited"}, m) = ExitSeen /\ ExitSeen = <<ExitCode(waitStatus)>>
            /\ Carried(m) = <<>>
        BY <3>12, <4>2 DEF Data, Carried, ExitSeen
      <4>4. ToldSeen' = ExitSeen
        <5>1. \A c : <<>> \o <<c>> = <<c>>
          OBVIOUS
        <5> QED
          BY <3>5, <3>8, <4>3, <5>1, Zenon
      <4>5. ExitSeen # <<>>
        BY <4>3
      <4>6. ShownSeen' = ShownSeen
        BY <3>2, <3>3, <4>3, CatFacts, Zenon DEF ShownSeen
      <4>7. ASSUME ~readFailed PROVE Len(ShownSeen) = produced
        <5>1. HasExit(Delivered) /\ ExitLast(Delivered)
          BY <1>t, <2>3, <4>1, ExitConcat DEF SeenInv, OrderInv, ClientOrder, Delivered, Here
        <5>2. Delivered = Append(received, m) \o Tail(toClient) /\ HasExit(Append(received, m))
          BY <1>t, <2>1, <3>1, <3>12, DeliveredMoves, ExitQueue DEF Delivered
        <5>3. Append(received, m) \in Seq(Messages)
          BY <1>t, <3>1, QueueFacts
        <5>4. Tail(toClient) = <<>>
          BY <3>1, <5>1, <5>2, <5>3, ExitConcat
        <5>5. Stream(toClient) = <<>>
          <6>1. Stream(<<>>) = <<>>
            BY BytesEmpty, Zenon DEF Stream
          <6> QED
            BY <3>2, <4>3, <5>4, <6>1, CatFacts, Zenon
        <5>6. ShownSeen = Count(0, produced)
          BY <3>2, <3>10, <3>11, <4>7, <5>1, <5>5, CatFacts, Zenon DEF ShownSeen
        <5> QED
          BY <1>t, <5>6, CountType
      <4>8. Terminal!Tell
        BY <1>s, <3>6, <3>8, <3>9, <4>4, <4>5, <4>6, <4>7, TellSeen, Zenon
      <4> QED
        BY <4>8, Zenon DEF SeenNext, Terminal!Next
    <3>13. CASE m.kind \in {"output", "input"} /\ Carried(m) # <<>>
      <4> DEFINE n == Len(Carried(m))
      <4>1. Data({"exited"}, m) = <<>>
        BY <3>13 DEF Data
      <4>2. <<>> \o <<>> = <<>>
        OBVIOUS
      <4>3. ToldSeen' = ToldSeen
        BY <3>5, <3>8, <4>1, <4>2, Zenon
      <4>4. Cat(Cat(Stream(received), Carried(m)), Stream(Tail(toClient))) = Count(0, k)
        <5> DEFINE a == Stream(received)
                   b == Carried(m)
                   c == Stream(Tail(toClient))
        <5>1. a \in Seq(Int) /\ b \in Seq(Int) /\ c \in Seq(Int) /\ Cat(a, Cat(b, c)) = Count(0, k)
          BY <3>2, <3>10, <3>11, Zenon
        <5> HIDE DEF a, b, c
        <5>2. Cat(Cat(a, b), c) = Cat(a, Cat(b, c))
          BY <5>1, CatAssociative
        <5>3. Cat(Cat(a, b), c) = Count(0, k)
          BY <5>1, <5>2, Zenon
        <5> QED
          BY <5>3, Zenon DEF a, b, c
      <4>5. Cat(Stream(received), Carried(m)) \in Seq(Int) /\ k \in Nat /\ k <= produced
        BY <1>t, <3>2, CatFacts
      <4>6. /\ Len(Cat(Stream(received), Carried(m))) \in Nat
            /\ Len(Cat(Stream(received), Carried(m))) <= k
            /\ Cat(Stream(received), Carried(m))
                 = Count(0, Len(Cat(Stream(received), Carried(m))))
        BY <3>2, <4>4, <4>5, CountSplit
      <4>7. /\ Len(ShownSeen) \in Nat /\ n \in Nat
            /\ Len(ShownSeen) + n = Len(Cat(Stream(received), Carried(m)))
            /\ Carried(m) = Count(Len(ShownSeen), n)
        BY <3>2, <4>6, CountSplit DEF ShownSeen
      <4>8. n # 0
        BY <3>2, <3>13, EmptySeq
      <4>9. n \in 1..produced /\ Len(ShownSeen) + n <= produced
        BY <1>t, <4>5, <4>6, <4>7, <4>8
      <4>10. ShownSeen' = Cat(ShownSeen, Count(Len(ShownSeen), n))
        BY <3>3, <4>7, Zenon
      <4> HIDE DEF n
      <4>11. Terminal!Show(n)
        BY <1>s, <3>6, <3>8, <3>9, <4>3, <4>9, <4>10, ShowSeen
      <4> QED
        BY <4>9, <4>11, Zenon DEF SeenNext, Terminal!Next
    <3>14. CASE m.kind # "exited" /\ Carried(m) = <<>>
      <4>1. Carried(m) = <<>> /\ Data({"exited"}, m) = <<>>
        BY <3>14 DEF Data
      <4>2. ShownSeen' = ShownSeen
        BY <3>2, <3>3, <4>1, CatFacts, Zenon DEF ShownSeen
      <4>3. <<>> \o <<>> = <<>>
        OBVIOUS
      <4>4. ToldSeen' = ToldSeen
        BY <3>5, <3>8, <4>1, <4>3, Zenon
      <4>5. PersonSame
        BY <3>6, <4>2, <4>4, Zenon DEF PersonSame
      <4> QED
        BY <1>q, <2>1, <4>5
    <3>15. m.kind \notin {"output", "input"} => Carried(m) = <<>>
      BY DEF Carried, Data
    <3> QED
      BY <3>12, <3>13, <3>14, <3>15
  <2> QED
    BY <2>2, <2>3
<1> QED
  BY <1>1, <1>2, <1>3, <1>4 DEF Client

\* The reader: only a read that fails shows.
LEMMA ReaderSeen ==
  ASSUME SeenInv, Reader
  PROVE  SeenNext
<1>c. UNCHANGED <<status, waitStatus>> /\ (Refused' <=> Refused)
  <2>1. CASE ReaderWait
    BY <2>1 DEF ReaderWait, StartWait, Goto, procVars, Refused, SeenInv, SessInv, PtyInv,
       PtyTypeOK,
       Threads, Cleaners
  <2>2. CASE ~ReaderWait
    <3>1. UNCHANGED ptyVars
      BY <2>2 DEF Reader, ReaderRead, ReaderEof, ReaderFails, ReaderSend, ReaderWaited
    <3> QED
      BY <3>1 DEF ptyVars, Refused
  <2> QED
    BY <2>1, <2>2
<1>s. CommandSame
  <2>1. Refused' = Refused
    BY <1>c DEF Refused
  <2> QED
    BY <1>c, <2>1, Zenon DEF CommandSame, Spawned, ExitSeen, ExitCode
<1>p. UNCHANGED <<received, client, typed, eaten, produced, dv>>
  BY DEF Reader, ReaderRead, ReaderEof, ReaderFails, ReaderSend, ReaderWait, ReaderWaited,
     ReaderGoto, clientVars, driverVars, termVars
<1>1. CASE readFailed' = readFailed
  <2>1. UNCHANGED Terminal!vars
    BY <1>1, <1>s, <1>p, PersonKept, ServerKept, NothingSeen DEF InputSame
  <2> QED
    BY <2>1, Zenon DEF SeenNext
<1>2. CASE readFailed' # readFailed
  <2>1. readFailed' /\ rd # "none"
    <3>1. \E msg : readFailed' = (readFailed \/ msg = Failure)
      BY Zenon DEF Reader, ReaderRead, ReaderEof, ReaderFails, ReaderSend, ReaderWait,
         ReaderWaited, ReaderGoto
    <3>2. readFailed \in BOOLEAN
      BY DEF SeenInv, SessionTypeOK
    <3>3. readFailed'
      BY <1>2, <3>1, <3>2
    <3>4. rd # "none"
      BY DEF Reader, ReaderRead, ReaderEof, ReaderFails, ReaderSend, ReaderWait, ReaderWaited
    <3> QED
      BY <3>3, <3>4
  <2>2. Spawned
    BY <2>1 DEF SeenInv, SessInv, ReaderUse
  <2>3. Over' = Over
    BY <1>p, Zenon DEF Over
  <2>4. Terminal!Damage
    BY <1>s, <1>p, <2>1, <2>2, <2>3, PersonKept, DamageSeen DEF InputSame
  <2> QED
    BY <2>4, Zenon DEF SeenNext, Terminal!Next
<1> QED
  BY <1>1, <1>2

\* The driver: the spawn and the return show.
LEMMA DriverSeen ==
  ASSUME SeenInv, Driver
  PROVE  SeenNext
<1>p. UNCHANGED <<received, client, typed, eaten, produced, readFailed>>
  <2>1. CASE DriverFrame
    BY <2>1, FrameCases DEF clientVars, readerVars
  <2>2. CASE ~DriverFrame
    BY <2>2 DEF Driver, DriverSpawn, DriverSpawnFails, DriverRecv, DriverSend, DriverRecvFails,
       DriverWrite, DriverTerminate, DriverReturn, DriverGoto, clientVars, readerVars
  <2> QED
    BY <2>1, <2>2
<1>q. PersonSame /\ InputSame /\ produced' = produced
  BY <1>p, PersonKept DEF InputSame
<1>r. ASSUME CommandSame, dv # "returned", dv' # "returned" PROVE SeenNext
  <2>1. UNCHANGED Terminal!vars
    BY <1>p, <1>q, <1>r, ServerKept, NothingSeen
  <2> QED
    BY <2>1, Zenon DEF SeenNext
<1>1. CASE DriverSpawn
  <2>1. /\ ~Spawned /\ dv = "spawn" /\ dv' = "select" /\ waitStatus' = waitStatus /\ pc' = pc
        /\ status' = [status EXCEPT ![Leader] = "running"]
    BY <1>1 DEF DriverSpawn, Spawn, DriverGoto, serverVars
  <2>2. status'[Leader] = "running" /\ status[Leader] = "unborn"
    BY <2>1 DEF SeenInv, SessInv, PtyInv, PtyTypeOK, Procs, Spawned
  <2>3. Spawned' /\ ExitSeen' = ExitSeen
    BY <2>2 DEF Spawned, ExitSeen
  <2>4. ~Over /\ ServerSame
    BY <1>p, <2>1, ServerKept DEF Over
  <2>5. Refused' = Refused
    BY <2>1, Zenon DEF Refused
  <2>6. Terminal!Start
    BY <1>q, <2>1, <2>3, <2>4, <2>5, StartSeen, Zenon
  <2> QED
    BY <2>6, Zenon DEF SeenNext, Terminal!Next
<1>2. CASE DriverSpawnFails \/ DriverReturn
  <2>1. /\ dv # "returned" /\ dv' = "returned" /\ UNCHANGED <<status, waitStatus>>
        /\ (Refused' <=> Refused)
        /\ ~Spawned \/ pc["terminate"] \in Final
    BY <1>2 DEF DriverSpawnFails, DriverReturn, StartDrop, Goto, DriverGoto, procVars,
       ptyVars, Refused,
       SeenInv, SessInv, PtyInv, PtyTypeOK, Threads, Cleaners, DriverUse
  <2>2. Spawned => ExitSeen # <<>> \/ Refused
    <3>1. CASE DriverReturn /\ ~Refused
      <4>1. pc["terminate"] \in Final \ {"skipped", "failed"}
        BY <3>1 DEF DriverReturn, Refused, SeenInv, SessInv, DriverUse
      <4>2. status[Leader] = "gone"
        BY <4>1 DEF SeenInv, SessInv, PtyInv, FinishedMeansReaped, Threads, Cleaners, Final
      <4> QED
        BY <4>2 DEF ExitSeen
    <3>2. CASE DriverSpawnFails
      BY <3>2 DEF DriverSpawnFails, SeenInv, SessInv, DriverUse
    <3> QED
      BY <1>2, <3>1, <3>2
  <2>3. CommandSame
    <3>1. Refused' = Refused
      BY <2>1 DEF Refused
    <3> QED
      BY <2>1, <3>1, Zenon DEF CommandSame, Spawned, ExitSeen, ExitCode
  <2>4. ~Over /\ Over'
    BY <2>1 DEF Over
  <2>5. Terminal!Finish
    BY <1>p, <1>q, <2>2, <2>3, <2>4, FinishSeen, Zenon
  <2> QED
    BY <2>5, Zenon DEF SeenNext, Terminal!Next
<1>3. CASE DriverTerminate
  <2>1. /\ dv = "over" /\ dv' = "terminating" /\ UNCHANGED <<status, waitStatus>>
        /\ (Refused' <=> Refused)
    BY <1>3 DEF DriverTerminate, StartTerminate, Goto, DriverGoto, procVars, Refused,
       SeenInv, SessInv, PtyInv, PtyTypeOK, Threads, Cleaners
  <2>2. Refused' = Refused
    BY <2>1 DEF Refused
  <2>3. CommandSame
    BY <2>1, <2>2, Zenon DEF CommandSame, Spawned, ExitSeen, ExitCode
  <2> QED
    BY <1>r, <2>1, <2>3
<1>4. CASE DriverRecv \/ DriverSend \/ DriverRecvFails \/ DriverWrite
  <2>1. UNCHANGED ptyVars /\ dv # "returned" /\ dv' # "returned"
    BY <1>4 DEF DriverRecv, DriverSend, DriverRecvFails, DriverWrite, DriverGoto
  <2> QED
    BY <1>r, <2>1, CommandKept DEF ptyVars
<1>5. CASE DriverFrame
  <2>1. UNCHANGED ptyVars /\ dv # "returned" /\ dv' # "returned"
    BY <1>5, FrameCases
  <2> QED
    BY <1>r, <2>1, CommandKept DEF ptyVars
<1> QED
  BY <1>1, <1>2, <1>3, <1>4, <1>5 DEF Driver

\* A session implements TerminalSession: what happens between the tasks, the queues,
\* the threads and the processes of Session is, to the person at the client, a run
\* of the abstract session, for every size of the queues and every program.
THEOREM SessionImplementsTerminal == Spec => TerminalSpec
<1>1. Init => Terminal!Init
  <2> SUFFICES ASSUME Init PROVE Terminal!Init
    OBVIOUS
  <2>1. status[Leader] = "unborn" /\ pc["terminate"] = "idle"
    BY DEF Init, PtyInit, Procs, Threads, Cleaners
  <2>2. ~Spawned /\ ~(status[Leader] = "gone") /\ ~(pc["terminate"] = "failed")
    BY <2>1 DEF Spawned
  <2>3. Stream(received) = <<>> /\ Bytes({"exited"}, received) = <<>>
    BY BytesEmpty, Zenon DEF Init, Stream
  <2>4. /\ produced = 0 /\ typed = 0 /\ eaten = <<>> /\ client = "open" /\ ~readFailed
        /\ ~(dv = "returned")
    BY DEF Init
  <2>5. (client = "open") = TRUE
    BY <2>4
  <2> QED
    BY <2>2, <2>3, <2>4, <2>5 DEF Terminal!Init
<1>2. SeenInv /\ [Next]_vars => [Terminal!Next]_(Terminal!vars)
  <2> SUFFICES ASSUME SeenInv, [Next]_vars PROVE SeenNext
    BY Zenon DEF SeenNext
  <2>1. CASE UNCHANGED vars
    <3>1. UNCHANGED <<status, waitStatus, pc, received, client, readFailed, dv, typed, eaten,
                      produced>>
      BY <2>1 DEF vars, ptyVars, sessVars
    <3>2. UNCHANGED Terminal!vars
      BY <3>1, CommandKept, PersonKept, ServerKept, NothingSeen DEF InputSame
    <3> QED
      BY <3>2, Zenon DEF SeenNext
  <2> QED
    BY <2>1, ProgramsSeen, ClientSeen, ReaderSeen, DriverSeen DEF Next
<1>3. Spec => [](Born /\ CodeKnown)
  BY SessionImplementsPty, CommandInvariant, PTL
<1> QED
  BY <1>1, <1>2, <1>3, SessionInvariant, SessionTypes, OrderInvariant, ShownInvariant,
     InputInvariant,
     HonestCodes, ToldInvariant, PTL DEF Spec, SeenInv, TerminalSpec, Terminal!Spec
=============================================================================
