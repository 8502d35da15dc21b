------------------------------- MODULE Session -------------------------------
(***************************************************************************)
(* One WebSocket session of crates/terminald-server/src/session.rs: the    *)
(* task that drives the socket (dv), the reader task it spawns (rd), the   *)
(* bounded channel between them, and the PTY child of PtyProcess below.    *)
(*                                                                         *)
(* Around them are what the repository does not contain: the programs on   *)
(* the terminal, the terminal's two kernel buffers, the network (a FIFO    *)
(* per direction) and a client that may type, close, be cut off or fall    *)
(* silent.                                                                 *)
(***************************************************************************)
EXTENDS PtyProcess, ByteStreams

CONSTANTS ChanCap,   \* mpsc::channel capacity
          InCap,     \* room for input in the terminal
          OutCap,    \* room for output in the terminal
          NetCap,    \* messages in flight in each direction of the socket
          ReadMax,   \* the reader's buffer
          MaxIn,     \* bound: bytes the client types
          MaxOut,    \* bound: bytes the programs print
          MaxOdd,    \* bound: other frames the client sends
          Program,   \* "any", "echo" (prints what it reads) or "deaf"
          ReadErrors \* whether reading the terminal may fail other than EIO

ASSUME CapacityAssumption ==
  /\ {ChanCap, InCap, OutCap, NetCap, ReadMax} \subseteq Nat \ {0}
  /\ {MaxIn, MaxOut, MaxOdd} \subseteq Nat
  /\ Program \in {"any", "echo", "deaf"}
  /\ ReadErrors \in BOOLEAN

VARIABLES dv,         \* the driver: run_socket and drive_socket
          dvMsg,      \* the message it is sending to the client
          dvIn,       \* the input it has left to write
          rd,         \* the reader task
          rdMsg,      \* the message it is sending to the driver
          readFailed, \* history: a read has failed
          chan,       \* the mpsc channel
          ptyIn,      \* bytes written to the terminal and not yet read
          ptyOut,     \* bytes printed and not yet read by the server
          eaten,      \* history: the bytes the programs have read
          produced,   \* the number of bytes the programs have printed
          client,     \* open, closed, lost (reset) or silent (half-open)
          typed,      \* the number of bytes the client has typed
          odd,        \* the number of other frames it has sent
          fromClient, \* frames in flight to the server
          toClient,   \* messages in flight to the client
          received    \* history: the messages the client has handled

driverVars == <<dv, dvMsg, dvIn>>
readerVars == <<rd, rdMsg, readFailed>>
termVars   == <<ptyIn, ptyOut, eaten, produced>>
clientVars == <<client, typed, odd, received>>
netVars    == <<fromClient, toClient>>
sessVars   == <<dv, dvMsg, dvIn, rd, rdMsg, readFailed, chan, ptyIn, ptyOut, eaten,
                produced, client, typed, odd, fromClient, toClient, received>>
vars       == <<ptyVars, sessVars>>

Output(s)   == [kind |-> "output", data |-> s]
ExitMsg(c)  == [kind |-> "exited", data |-> <<c>>]
Failure     == [kind |-> "failed", data |-> <<>>] \* reading the terminal failed
ErrorReply  == [kind |-> "error", data |-> <<>>]  \* a frame failed to decode
PongReply   == [kind |-> "pong", data |-> <<>>]
NoMsg       == [kind |-> "none", data |-> <<>>]

InputFrame(s) == [kind |-> "input", data |-> s]
OddFrames     == [kind : {"resize", "bad", "ping"}, data : {<<>>}]
CloseFrame    == [kind |-> "close", data |-> <<>>]

\* (mutant) The code of a signalled child taken for success.
ExitCodeOrZero(s) == IF s.exited THEN s.code ELSE 0
\* status.code(), or -1 for a child that died of a signal.
ExitCode(s) == IF s.exited THEN s.code ELSE -1

-----------------------------------------------------------------------------
(* The programs on the terminal, and its kernel buffers. *)

MayPrint == IF Program = "echo" THEN produced < Len(eaten) ELSE produced < MaxOut
MayRead  == IF Program = "echo" THEN produced = Len(eaten) ELSE Program = "any"

ProgramPrint(p) ==
  /\ p \in Live \cap tty /\ MayPrint /\ Len(ptyOut) < OutCap
  /\ ptyOut' = Append(ptyOut, produced + 1)
  /\ produced' = produced + 1
  /\ UNCHANGED <<ptyIn, eaten, chan>> /\ UNCHANGED ptyVars /\ UNCHANGED driverVars
  /\ UNCHANGED readerVars /\ UNCHANGED clientVars /\ UNCHANGED netVars

ProgramRead(p) ==
  /\ p \in Live \cap tty /\ MayRead /\ ptyIn # <<>>
  /\ eaten' = Append(eaten, Head(ptyIn))
  /\ ptyIn' = Tail(ptyIn)
  /\ UNCHANGED <<ptyOut, produced, chan>> /\ UNCHANGED ptyVars /\ UNCHANGED driverVars
  /\ UNCHANGED readerVars /\ UNCHANGED clientVars /\ UNCHANGED netVars

-----------------------------------------------------------------------------
(* The client and its network. *)

ClientType(n) ==
  /\ client = "open" /\ typed + n <= MaxIn /\ Len(fromClient) < NetCap
  /\ fromClient' = Append(fromClient, InputFrame(Count(typed, n)))
  /\ typed' = typed + n
  /\ UNCHANGED <<client, odd, received, toClient, chan>> /\ UNCHANGED ptyVars
  /\ UNCHANGED driverVars /\ UNCHANGED readerVars /\ UNCHANGED termVars

ClientOdd(frame) ==
  /\ client = "open" /\ odd < MaxOdd /\ Len(fromClient) < NetCap
  /\ fromClient' = Append(fromClient, frame)
  /\ odd' = odd + 1
  /\ UNCHANGED <<client, typed, received, toClient, chan>> /\ UNCHANGED ptyVars
  /\ UNCHANGED driverVars /\ UNCHANGED readerVars /\ UNCHANGED termVars

ClientClose ==
  /\ client = "open"
  /\ client' = "closed"
  /\ fromClient' = Append(fromClient, CloseFrame)
  /\ UNCHANGED <<typed, odd, received, toClient, chan>> /\ UNCHANGED ptyVars
  /\ UNCHANGED driverVars /\ UNCHANGED readerVars /\ UNCHANGED termVars

\* The connection is reset: nothing in flight arrives any more.
ClientLost ==
  /\ client \in {"open", "silent"}
  /\ client' = "lost" /\ toClient' = <<>>
  /\ UNCHANGED <<typed, odd, received, fromClient, chan>> /\ UNCHANGED ptyVars
  /\ UNCHANGED driverVars /\ UNCHANGED readerVars /\ UNCHANGED termVars

\* The network goes dark and neither end is told.
ClientSilent ==
  /\ client = "open" /\ client' = "silent"
  /\ UNCHANGED <<typed, odd, received, chan>> /\ UNCHANGED netVars
  /\ UNCHANGED ptyVars /\ UNCHANGED driverVars /\ UNCHANGED readerVars /\ UNCHANGED termVars

\* A client that has closed discards what still arrives.
ClientReceive ==
  /\ client \in {"open", "closed"} /\ toClient # <<>>
  /\ toClient' = Tail(toClient)
  /\ received' = IF client = "open" THEN Append(received, Head(toClient)) ELSE received
  /\ UNCHANGED <<client, typed, odd, fromClient, chan>> /\ UNCHANGED ptyVars
  /\ UNCHANGED driverVars /\ UNCHANGED readerVars /\ UNCHANGED termVars

-----------------------------------------------------------------------------
(* The reader task. *)

ReaderGoto(label, msg) ==
  /\ rd' = label /\ rdMsg' = msg /\ readFailed' = (readFailed \/ msg = Failure)
  /\ UNCHANGED driverVars /\ UNCHANGED clientVars /\ UNCHANGED netVars

\* read() returns some of what is buffered.
ReaderRead(n) ==
  /\ rd = "read" /\ n <= Len(ptyOut)
  /\ ReaderGoto("send", Output(SubSeq(ptyOut, 1, n)))
  /\ ptyOut' = SubSeq(ptyOut, n + 1, Len(ptyOut))
  /\ UNCHANGED <<ptyIn, eaten, produced, chan>> /\ UNCHANGED ptyVars

\* (mutant) A hangup that hides what is still buffered.
ReaderEofUndrained ==
  /\ rd = "read" /\ tty = {}
  /\ ReaderGoto("wait", NoMsg)
  /\ UNCHANGED chan /\ UNCHANGED termVars /\ UNCHANGED ptyVars

\* (mutant) EAGAIN taken for end of file.
ReaderEofWhenIdle ==
  /\ rd = "read" /\ ptyOut = <<>>
  /\ ReaderGoto("wait", NoMsg)
  /\ UNCHANGED chan /\ UNCHANGED termVars /\ UNCHANGED ptyVars

\* (mutant) A reader that ends with the output.
ReaderEofQuiet ==
  /\ rd = "read" /\ ptyOut = <<>> /\ tty = {}
  /\ ReaderGoto("end", NoMsg)
  /\ UNCHANGED chan /\ UNCHANGED termVars /\ UNCHANGED ptyVars

\* EIO: the buffer is drained and nobody holds the terminal.  read() is 0.
ReaderEof ==
  /\ rd = "read" /\ ptyOut = <<>> /\ tty = {}
  /\ ReaderGoto("wait", NoMsg)
  /\ UNCHANGED chan /\ UNCHANGED termVars /\ UNCHANGED ptyVars

ReaderFails ==
  /\ rd = "read" /\ ReadErrors
  /\ ReaderGoto("send", Failure)
  /\ UNCHANGED chan /\ UNCHANGED termVars /\ UNCHANGED ptyVars

\* tx.send(): room in the channel, or an error once the receiver is dropped.
\* Output is followed by the next read, a failure or a refusal by the wait,
\* and the exit code by nothing.
RxDropped == dv = "returned"

\* (mutant) A return where the code has a break: a refused send ends the task.
AfterSendReturning(msg) ==
  CASE msg.kind = "exited" \/ RxDropped -> "end"
    [] msg.kind = "output" -> "read"
    [] OTHER -> "wait"

AfterSend(msg) ==
  CASE msg.kind = "exited" -> "end"
    [] msg.kind = "output" /\ ~RxDropped -> "read"
    [] OTHER -> "wait"

\* (mutant) try_send: a full channel loses the message.
ReaderTrySend ==
  /\ rd = "send"
  /\ chan' = IF RxDropped \/ Len(chan) = ChanCap THEN chan ELSE Append(chan, rdMsg)
  /\ ReaderGoto(AfterSend(rdMsg), NoMsg)
  /\ UNCHANGED termVars /\ UNCHANGED ptyVars

\* (mutant) An unbounded channel: no backpressure.
ReaderSendUnbounded ==
  /\ rd = "send"
  /\ chan' = IF RxDropped THEN chan ELSE Append(chan, rdMsg)
  /\ ReaderGoto(AfterSend(rdMsg), NoMsg)
  /\ UNCHANGED termVars /\ UNCHANGED ptyVars

\* (mutant) A send that does not notice the receiver has gone.
ReaderSendRegardless ==
  /\ rd = "send" /\ Len(chan) < ChanCap
  /\ chan' = Append(chan, rdMsg)
  /\ ReaderGoto(AfterSend(rdMsg), NoMsg)
  /\ UNCHANGED termVars /\ UNCHANGED ptyVars

ReaderSend ==
  /\ rd = "send"
  /\ \/ RxDropped /\ UNCHANGED chan
     \/ ~RxDropped /\ Len(chan) < ChanCap /\ chan' = Append(chan, rdMsg)
  /\ ReaderGoto(AfterSend(rdMsg), NoMsg)
  /\ UNCHANGED termVars /\ UNCHANGED ptyVars

\* (mutant) waitpid behind the back of the Child and its mutex.
ReaderWaitPid ==
  /\ rd = "wait" /\ Waitable
  /\ status' = Reaped /\ pc' = [pc EXCEPT !["wait"] = "done"]
  /\ ReaderGoto("waiting", NoMsg)
  /\ UNCHANGED <<job, tty, foreign, waitStatus, cleanupStarted, owner, lock, chan>>
  /\ UNCHANGED sentVars /\ UNCHANGED termVars

\* reader_process.wait(): a blocking task that takes the child mutex.
ReaderWait ==
  /\ rd = "wait"
  /\ StartWait
  /\ ReaderGoto("waiting", NoMsg)
  /\ UNCHANGED chan /\ UNCHANGED termVars

ReaderWaited ==
  /\ rd = "waiting" /\ pc["wait"] = "done"
  /\ ReaderGoto("send", ExitMsg(ExitCode(waitStatus)))
  /\ UNCHANGED chan /\ UNCHANGED termVars /\ UNCHANGED ptyVars

-----------------------------------------------------------------------------
(* The driver. *)

DriverGoto(label, msg, input) ==
  /\ dv' = label /\ dvMsg' = msg /\ dvIn' = input
  /\ UNCHANGED <<eaten, produced, ptyOut>> /\ UNCHANGED clientVars

\* run_socket: spawn the child, then the reader.
DriverSpawn ==
  /\ dv = "spawn"
  /\ Spawn
  /\ DriverGoto("select", NoMsg, <<>>)
  /\ rd' = "read" /\ UNCHANGED <<rdMsg, readFailed, chan, ptyIn>> /\ UNCHANGED netVars

DriverSpawnFails ==
  /\ dv = "spawn"
  /\ DriverGoto("returned", NoMsg, <<>>)
  /\ UNCHANGED <<chan, ptyIn>> /\ UNCHANGED netVars /\ UNCHANGED ptyVars /\ UNCHANGED readerVars

\* The rx branch of the select.
DriverRecv ==
  /\ dv = "select" /\ chan # <<>>
  /\ DriverGoto("send", Head(chan), <<>>)
  /\ chan' = Tail(chan)
  /\ UNCHANGED ptyIn /\ UNCHANGED netVars /\ UNCHANGED ptyVars /\ UNCHANGED readerVars

\* sender.send() waits for room, or fails on a dead connection; the exit
\* message ends the loop.
DriverSend ==
  /\ dv = "send"
  /\ \/ client = "lost" /\ DriverGoto("over", NoMsg, <<>>) /\ UNCHANGED toClient
     \/ /\ client # "lost" /\ Len(toClient) < NetCap
        /\ toClient' = Append(toClient, dvMsg)
        /\ DriverGoto(IF dvMsg.kind = "exited" THEN "over" ELSE "select", NoMsg, <<>>)
  /\ UNCHANGED <<chan, ptyIn, fromClient>> /\ UNCHANGED ptyVars /\ UNCHANGED readerVars

\* (mutant) The close frame ignored like a pong.
DriverFrameOrClose ==
  /\ dv = "select" /\ fromClient # <<>>
  /\ fromClient' = Tail(fromClient)
  /\ IF Head(fromClient).kind = "input" THEN DriverGoto("write", NoMsg, Head(fromClient).data)
     ELSE DriverGoto("select", NoMsg, <<>>)
  /\ UNCHANGED <<chan, ptyIn, toClient>> /\ UNCHANGED ptyVars /\ UNCHANGED readerVars

\* The receiver branch: one frame, or the error of a dead connection.
DriverFrame ==
  /\ dv = "select" /\ fromClient # <<>>
  /\ fromClient' = Tail(fromClient)
  /\ LET frame == Head(fromClient) IN
       \/ frame.kind = "input"  /\ DriverGoto("write", NoMsg, frame.data)
       \/ frame.kind = "resize" /\ DriverGoto("select", NoMsg, <<>>)
       \/ frame.kind = "bad"    /\ DriverGoto("send", ErrorReply, <<>>)
       \/ frame.kind = "ping"   /\ DriverGoto("send", PongReply, <<>>)
       \/ frame.kind = "close"  /\ DriverGoto("over", NoMsg, <<>>)
  /\ UNCHANGED <<chan, ptyIn, toClient>> /\ UNCHANGED ptyVars /\ UNCHANGED readerVars

DriverRecvFails ==
  /\ dv = "select" /\ client = "lost"
  /\ DriverGoto("over", NoMsg, <<>>)
  /\ UNCHANGED <<chan, ptyIn>> /\ UNCHANGED netVars /\ UNCHANGED ptyVars /\ UNCHANGED readerVars

\* (mutant) write_all as a future of the select, dropped when output is ready.
DriverWriteCancelled ==
  /\ dv = "write"
  /\ \/ (dvIn = <<>> \/ chan # <<>>) /\ DriverGoto("select", NoMsg, <<>>) /\ UNCHANGED ptyIn
     \/ /\ dvIn # <<>> /\ Len(ptyIn) < InCap
        /\ DriverGoto("write", NoMsg, Tail(dvIn)) /\ ptyIn' = Append(ptyIn, Head(dvIn))
  /\ UNCHANGED chan /\ UNCHANGED netVars /\ UNCHANGED ptyVars /\ UNCHANGED readerVars

\* write_all, inside the branch: the select is not polled until the last byte
\* is written.  A terminal nobody holds takes and discards everything.
DriverWrite ==
  /\ dv = "write"
  /\ IF dvIn = <<>> THEN DriverGoto("select", NoMsg, <<>>) /\ UNCHANGED ptyIn
     ELSE /\ DriverGoto("write", NoMsg, Tail(dvIn))
          /\ \/ tty = {} /\ UNCHANGED ptyIn
             \/ tty # {} /\ Len(ptyIn) < InCap /\ ptyIn' = Append(ptyIn, Head(dvIn))
  /\ UNCHANGED chan /\ UNCHANGED netVars /\ UNCHANGED ptyVars /\ UNCHANGED readerVars

\* process.terminate().await ...
DriverTerminate ==
  /\ dv = "over"
  /\ StartTerminate
  /\ DriverGoto("terminating", NoMsg, <<>>)
  /\ UNCHANGED <<chan, ptyIn>> /\ UNCHANGED netVars /\ UNCHANGED readerVars

\* (mutant) A cleanup that is started and not awaited.
DriverReturnAtOnce ==
  /\ dv = "terminating"
  /\ StartDrop
  /\ DriverGoto("returned", NoMsg, <<>>)
  /\ chan' = <<>>
  /\ UNCHANGED ptyIn /\ UNCHANGED netVars /\ UNCHANGED readerVars

\* ... and the return, which drops the PtyProcess, the receiver and the socket.
DriverReturn ==
  /\ dv = "terminating" /\ pc["terminate"] \in Final
  /\ StartDrop
  /\ DriverGoto("returned", NoMsg, <<>>)
  /\ chan' = <<>>
  /\ UNCHANGED ptyIn /\ UNCHANGED netVars /\ UNCHANGED readerVars

-----------------------------------------------------------------------------
Init ==
  /\ PtyInit
  /\ dv = "spawn" /\ dvMsg = NoMsg /\ dvIn = <<>>
  /\ rd = "none" /\ rdMsg = NoMsg /\ readFailed = FALSE
  /\ chan = <<>>
  /\ ptyIn = <<>> /\ ptyOut = <<>> /\ eaten = <<>> /\ produced = 0
  /\ client = "open" /\ typed = 0 /\ odd = 0
  /\ fromClient = <<>> /\ toClient = <<>> /\ received = <<>>

Programs ==
  \/ Environment /\ UNCHANGED sessVars
  \/ \E p \in Procs : ProgramPrint(p)
  \/ \E p \in Procs : ProgramRead(p)

Client ==
  \/ \E n \in 1..MaxIn : ClientType(n)
  \/ \E frame \in OddFrames : ClientOdd(frame)
  \/ ClientClose \/ ClientLost \/ ClientSilent \/ ClientReceive

Reader ==
  \/ \E n \in 1..ReadMax : ReaderRead(n)
  \/ ReaderEof \/ ReaderFails \/ ReaderSend \/ ReaderWait \/ ReaderWaited

Driver ==
  \/ DriverSpawn \/ DriverSpawnFails \/ DriverRecv \/ DriverSend \/ DriverFrame
  \/ DriverRecvFails \/ DriverWrite \/ DriverTerminate \/ DriverReturn

Blocking(t) == Work(t) /\ UNCHANGED sessVars

Next == Programs \/ Client \/ Reader \/ Driver \/ \E t \in Threads : Blocking(t)

Spec == Init /\ [][Next]_vars

\* Tokio runs a task that can make progress, and select! starts from a random
\* branch, so a branch that is ready again and again is taken.  Blocking tasks
\* run on threads of their own.  The kernel acts on SIGKILL.
ServerFairness ==
  /\ WF_vars(Reader) /\ WF_vars(Driver)
  /\ SF_vars(DriverRecv) /\ SF_vars(DriverFrame) /\ SF_vars(DriverRecvFails)
  /\ \A t \in Threads : WF_vars(Blocking(t))
  /\ \A p \in Procs : WF_vars(p \in killed /\ Exit(p) /\ UNCHANGED sessVars)

\* A client that is there handles what arrives; the programs that hold the
\* terminal read their input, unless they are deaf, and echo it if they do.
ClientFairness  == WF_vars(ClientReceive)
ProgramFairness ==
  /\ WF_vars(\E p \in Procs : ProgramRead(p))
  /\ Program = "echo" => WF_vars(\E p \in Procs : ProgramPrint(p))

FairSpec == Spec /\ ServerFairness /\ ClientFairness /\ ProgramFairness

-----------------------------------------------------------------------------
(* What makes it correct. *)

Messages == [kind : {"output", "exited", "failed", "error", "pong"}, data : Seq(Int)]
Requests == [kind : {"input", "resize", "bad", "ping", "close"}, data : Seq(Int)]

SessionTypeOK ==
  /\ dv \in {"spawn", "select", "send", "write", "over", "terminating", "returned"}
  /\ rd \in {"none", "read", "send", "wait", "waiting", "end"}
  /\ dvMsg \in Messages \cup {NoMsg} /\ (dv = "send" <=> dvMsg # NoMsg)
  /\ rdMsg \in Messages \cup {NoMsg} /\ (rd = "send" <=> rdMsg # NoMsg)
  /\ chan \in Seq(Messages) /\ Len(chan) <= ChanCap
  /\ toClient \in Seq(Messages) /\ Len(toClient) <= NetCap
  /\ received \in Seq(Messages) /\ fromClient \in Seq(Requests)
  /\ ptyIn \in Seq(Int) /\ Len(ptyIn) <= InCap
  /\ ptyOut \in Seq(Int) /\ Len(ptyOut) <= OutCap
  /\ dvIn \in Seq(Int) /\ (dvIn # <<>> => dv = "write")
  /\ eaten \in Seq(Int) /\ produced \in Nat /\ typed \in Nat
  /\ client \in {"open", "closed", "lost", "silent"} /\ readFailed \in BOOLEAN

\* The bytes among the messages, in order.
Stream(msgs) == Bytes({"output", "input"}, msgs)

\* Everything the client was sent, and what is still on its way, oldest first.
Delivered == received \o toClient
Pipeline  == Delivered \o <<dvMsg>> \o chan \o <<rdMsg>>

\* While the client listens no printed byte is lost, repeated or reordered on
\* its way through the reader, the channel, the driver and the socket, nor by
\* the select taking its other branch in between.
OutputConserved ==
  client = "open" /\ dv # "returned" =>
    Stream(Pipeline) \o ptyOut = Count(0, produced)

\* The same for input: a typed byte is read by the programs once and in order,
\* as long as the session drives the socket and somebody holds the terminal.
InputConserved ==
  /\ IsPrefix(eaten \o ptyIn, Count(0, typed))
  /\ dv \in {"select", "send", "write"} /\ tty # {} =>
       eaten \o ptyIn \o dvIn \o Stream(fromClient) = Count(0, typed)

\* The code the client is told is the leader's, and the leader is reaped: -1
\* stands for a signal only, never for a status the cleanup took away first.
ExitCodeTrue ==
  \A msg \in ToSet(Pipeline) :
    msg.kind = "exited" =>
      /\ status[Leader] = "gone"
      /\ msg.data = <<IF waitStatus.exited THEN waitStatus.code ELSE -1>>

\* However the socket loop ends, run_socket returns only after the cleanup it
\* started is over: a leader it could signal is reaped by then.
ReturnReaps ==
  dv = "returned" /\ Spawned /\ pc["terminate"] # "failed" => status[Leader] = "gone"

\* The reader holds the child mutex in its blocking wait() only when nobody
\* has the terminal open any more, unless a read failed, so that a cleanup is
\* not kept from a child that is at work on it.
WaitAfterHangup ==
  pc["wait"] # "idle" /\ dv # "returned" /\ ~readFailed => tty = {}

\* A session is what TerminalSession promises: for the person at the client, the
\* tasks, buffers and threads in between cannot be told from two streams and an end.
Terminal == INSTANCE TerminalSession WITH
  Codes   <- Codes \cup {-1},
  started <- Spawned,
  exit    <- IF status[Leader] = "gone" THEN <<ExitCode(waitStatus)>> ELSE <<>>,
  printed <- produced,
  shown   <- Stream(received),
  taken   <- eaten,
  told    <- Bytes({"exited"}, received),
  here    <- client = "open",
  damaged <- readFailed,
  refused <- pc["terminate"] = "failed",
  over    <- dv = "returned"

TerminalSpec == Terminal!Spec

\* A client that closes, or whose connection is reset, ends its session, with
\* the cleanup over, also one that was refused its signals.  The exception is
\* that of CleanupCompletes: a leader the group's signals do not reach.
DisconnectEnds ==
  (client \in {"closed", "lost"}) ~> (dv = "returned" \/ Leader \in foreign)

\* When the command has exited and nobody holds its terminal, a client that
\* stays is told the exit code.
Told == \E i \in DOMAIN received : received[i].kind = "exited"
HangupReported ==
  (dv # "spawn" /\ tty = {} /\ Waitable) ~> (Told \/ client # "open")

\* Every printed byte reaches a client that stays.
OutputArrives ==
  \A n \in 1..MaxOut : (produced >= n) ~> (Len(Stream(received)) >= n \/ client # "open")

\* The reader, which nobody awaits, does not outlive the session for long once
\* the terminal is closed: a receiver that is gone never blocks it.
ReaderEnds == (dv = "returned" /\ tty = {}) ~> (rd \in {"none", "end"})

\* No session leaves a zombie for good, also when its cleanup was not permitted to
\* signal anybody and gave up with the flag set, so that neither terminate nor
\* Drop will try again: the reader, whose handle outlives the PtyProcess, breaks
\* out of its loop at the first send that is refused, or at the hangup, and waits.
LeaderReaped ==
  (dv = "returned" /\ Waitable /\ tty = {}) ~> (status[Leader] = "gone")

\* crates/terminald-server/src/routes/tests/websocket_tests.rs:280 ("PTY child
\* still alive after websocket closed"): closing the socket ends the child.
CloseKillsChild == (client = "closed" /\ Spawned) ~> Waitable

\* docs/superpowers/specs/2026-06-04-terminald-design.md:64: input frames are
\* forwarded to the terminal, of a command that reads and prints for ever.
InputForwarded ==
  (typed = MaxIn) ~> (Len(eaten) = MaxIn \/ client # "open" \/ status[Leader] # "running")
=============================================================================
