------------------------------ MODULE CliClient ------------------------------
(***************************************************************************)
(* The command-line client, crates/terminald-cli/src/client.rs and         *)
(* terminal.rs: the main task, which connects, sends the terminal's size   *)
(* and prints what the server sends; the writer task, which selects between*)
(* standard input and resizes; the SIGWINCH task; and the blocking thread  *)
(* in which tokio reads standard input, whose read(2) nobody can cancel.   *)
(*                                                                         *)
(* The terminal's size is a counter, and so are the bytes typed.  A byte   *)
(* stands for what makes read(2) return: a key in raw mode, a line after.  *)
(***************************************************************************)
EXTENDS ByteStreams

CONSTANTS ResizeCap, \* the resize channel's capacity
          NetCap,    \* frames in flight to the server
          MaxSize,   \* bound: the sizes the terminal takes
          MaxIn      \* bound: the bytes typed

ASSUME ClientAssumption == {ResizeCap, NetCap, MaxSize, MaxIn} \subseteq Nat \ {0}

VARIABLES main,        \* the main task
          mainSize,    \* the size it has read
          raw,         \* RawTerminalGuard: the terminal is in raw mode
          outcome,     \* why run() returned
          handler,     \* the SIGWINCH task
          handlerSize, \* the size it is sending to the channel
          winch,       \* SIGWINCH arrived and was not yet received
          resizes,     \* the channel to the writer
          writer,      \* the writer task
          frame,       \* the frame it is sending
          stdin,       \* tokio's read of standard input: idle, reading, ready
          data,        \* what it has read
          buffer,      \* what was typed and not read
          typed,       \* the number of bytes typed
          eof,         \* standard input has ended
          size,        \* the terminal's size
          conn,        \* the connection: none, up or down
          toServer,    \* frames in flight
          got          \* history: the frames the server has taken

mainVars    == <<main, mainSize, raw, outcome>>
handlerVars == <<handler, handlerSize, winch>>
writerVars  == <<writer, frame>>
stdinVars   == <<stdin, data>>
userVars    == <<buffer, typed, eof, size>>
netVars     == <<conn, toServer, got>>
taskVars    == <<handlerVars, resizes, writerVars, stdinVars>>
vars        == <<mainVars, taskVars, userVars, netVars>>

InputFrame(s)  == [kind |-> "input", data |-> s]
ResizeFrame(n) == [kind |-> "resize", data |-> <<n>>]
NoFrame        == [kind |-> "none", data |-> <<>>]

-----------------------------------------------------------------------------
(* The main task. *)

\* (mutant) Without the guard's drop.
ReturnRaw(why) == main' = "returned" /\ UNCHANGED raw /\ outcome' = why

\* run() returns, for whatever reason: the guard restores the terminal.
Return(why) == main' = "returned" /\ raw' = FALSE /\ outcome' = why

Start ==
  /\ main = "start"
  /\ \/ main' = "connect" /\ raw' = TRUE /\ UNCHANGED outcome
     \/ Return("failed")
  /\ UNCHANGED <<mainSize, taskVars, userVars, netVars>>

\* connect_async, and then the SIGWINCH task, which is only spawned here.
Connect ==
  /\ main = "connect"
  /\ \/ /\ main' = "size" /\ conn' = "up" /\ handler' = "spawned"
        /\ UNCHANGED <<raw, outcome>>
     \/ Return("failed") /\ UNCHANGED <<conn, handler>>
  /\ UNCHANGED <<mainSize, handlerSize, winch, resizes, toServer, got, writerVars,
                 stdinVars, userVars>>

ReadSize ==
  /\ main = "size" /\ main' = "initial"
  /\ mainSize' = size
  /\ UNCHANGED <<raw, outcome, taskVars, userVars, netVars>>

\* (mutant) The initial size through the channel, like every other.
SendInitialQueued ==
  /\ main = "initial" /\ Len(resizes) < ResizeCap
  /\ main' = "read" /\ writer' = "select"
  /\ resizes' = Append(resizes, mainSize)
  /\ UNCHANGED <<mainSize, raw, outcome, frame, netVars, handlerVars, stdinVars, userVars>>

\* The initial size is sent before the writer is spawned.
SendInitial ==
  /\ main = "initial"
  /\ \/ /\ conn = "up" /\ Len(toServer) < NetCap
        /\ main' = "read" /\ writer' = "select"
        /\ toServer' = Append(toServer, ResizeFrame(mainSize))
        /\ UNCHANGED <<raw, outcome>>
     \/ conn = "down" /\ Return("failed") /\ UNCHANGED <<writer, toServer>>
  /\ UNCHANGED <<mainSize, frame, resizes, conn, got, handlerVars, stdinVars, userVars>>

\* The loop over the server's messages ends with an exit message, a close, an
\* error message or frame that does not decode, or an error of the connection.
\* What it prints, and pings, leave everything as it is.
Received(why) ==
  /\ main = "read"
  /\ why \in {"exited", "closed"} => conn = "up"
  /\ Return(why)
  /\ UNCHANGED <<mainSize, taskVars, userVars, netVars>>

\* (mutant) The SIGWINCH task joined, and not cancelled.
ProcessEndsJoining ==
  /\ main = "returned" /\ main' = "ended"
  /\ writer \in {"none", "gone"} /\ stdin # "reading" /\ handler = "gone"
  /\ UNCHANGED <<mainSize, raw, outcome, taskVars, userVars, netVars>>

\* main() returns when the runtime has been dropped, which cancels the tasks
\* and then waits for the blocking threads.
ProcessEnds ==
  /\ main = "returned" /\ main' = "ended"
  /\ writer \in {"none", "gone"} /\ stdin # "reading"
  /\ handler' = "gone"
  /\ UNCHANGED <<mainSize, raw, outcome, handlerSize, winch, resizes, writerVars,
                 stdinVars, userVars, netVars>>

-----------------------------------------------------------------------------
(* The SIGWINCH task.  Until it has run once, the signal is ignored. *)

HandlerStep ==
  /\ main # "ended"
  /\ UNCHANGED <<mainVars, writerVars, stdinVars, userVars, netVars>>

HandlerRegisters ==
  /\ handler = "spawned" /\ handler' = "recv"
  /\ UNCHANGED <<handlerSize, winch, resizes>> /\ HandlerStep

HandlerReads ==
  /\ handler = "recv" /\ winch
  /\ handler' = "send" /\ winch' = FALSE
  /\ handlerSize' = size
  /\ UNCHANGED resizes /\ HandlerStep

ReceiverGone == writer = "gone" \/ (main = "returned" /\ writer = "none")

\* (mutant) try_send: a full channel loses the size.
HandlerTrySends ==
  /\ handler = "send" /\ handler' = "recv"
  /\ resizes' = IF Len(resizes) < ResizeCap THEN Append(resizes, handlerSize) ELSE resizes
  /\ UNCHANGED <<handlerSize, winch>> /\ HandlerStep

HandlerSends ==
  /\ handler = "send" /\ handler' = "recv"
  /\ \/ ReceiverGone /\ UNCHANGED resizes
     \/ ~ReceiverGone /\ Len(resizes) < ResizeCap /\ resizes' = Append(resizes, handlerSize)
  /\ UNCHANGED <<handlerSize, winch>> /\ HandlerStep

-----------------------------------------------------------------------------
(* The writer task, and tokio's thread for standard input. *)

WriterStep ==
  /\ UNCHANGED <<mainVars, handlerVars, userVars>>

\* Polling stdin.read() starts a read(2), which outlives the poll.
WriterPolls ==
  /\ writer = "select" /\ stdin = "idle" /\ stdin' = "reading"
  /\ UNCHANGED <<data, resizes, writerVars, netVars>> /\ WriterStep

WriterInput ==
  /\ writer = "select" /\ stdin = "ready"
  /\ stdin' = "idle" /\ data' = <<>>
  /\ IF data = <<>> THEN writer' = "gone" /\ UNCHANGED frame
     ELSE writer' = "send" /\ frame' = InputFrame(data)
  /\ UNCHANGED <<resizes, netVars>> /\ WriterStep

\* (mutant) A read that the other branch of the select cancels.
WriterResizeCancels ==
  /\ writer = "select" /\ resizes # <<>>
  /\ writer' = "send" /\ frame' = ResizeFrame(Head(resizes))
  /\ resizes' = Tail(resizes)
  /\ stdin' = "idle" /\ data' = <<>>
  /\ UNCHANGED netVars /\ WriterStep

WriterResize ==
  /\ writer = "select" /\ resizes # <<>>
  /\ writer' = "send" /\ frame' = ResizeFrame(Head(resizes))
  /\ resizes' = Tail(resizes)
  /\ UNCHANGED <<stdinVars, netVars>> /\ WriterStep

WriterSend ==
  /\ writer = "send" /\ frame' = NoFrame
  /\ \/ /\ conn = "up" /\ Len(toServer) < NetCap
        /\ writer' = "select" /\ toServer' = Append(toServer, frame)
     \/ conn = "down" /\ writer' = "gone" /\ UNCHANGED toServer
  /\ UNCHANGED <<resizes, conn, got, stdinVars>> /\ WriterStep

\* Aborted by run(), or cancelled by the runtime.
WriterAborted ==
  /\ main = "returned" /\ writer \in {"select", "send"}
  /\ writer' = "gone" /\ frame' = NoFrame
  /\ UNCHANGED <<resizes, stdinVars, netVars>> /\ WriterStep

StdinReturns ==
  /\ stdin = "reading" /\ (buffer # <<>> \/ eof)
  /\ stdin' = "ready" /\ data' = buffer /\ buffer' = <<>>
  /\ UNCHANGED <<typed, eof, size, resizes, mainVars, handlerVars, writerVars, netVars>>

-----------------------------------------------------------------------------
(* The user and the network. *)

UserTypes ==
  /\ main # "ended" /\ ~eof /\ typed < MaxIn
  /\ typed' = typed + 1 /\ buffer' = Append(buffer, typed + 1)
  /\ UNCHANGED <<eof, size, mainVars, taskVars, netVars>>

InputEnds ==
  /\ main # "ended" /\ ~eof /\ eof' = TRUE
  /\ UNCHANGED <<buffer, typed, size, mainVars, taskVars, netVars>>

TerminalResized ==
  /\ main # "ended" /\ size < MaxSize /\ size' = size + 1
  /\ winch' = (winch \/ handler \in {"recv", "send"})
  /\ UNCHANGED <<handler, handlerSize, resizes, buffer, typed, eof, mainVars,
                 writerVars, stdinVars, netVars>>

ServerTakes ==
  /\ conn = "up" /\ toServer # <<>>
  /\ got' = Append(got, Head(toServer)) /\ toServer' = Tail(toServer)
  /\ UNCHANGED <<conn, mainVars, taskVars, userVars>>

ConnectionLost ==
  /\ conn = "up" /\ conn' = "down" /\ UNCHANGED <<toServer, got>>
  /\ UNCHANGED <<mainVars, taskVars, userVars>>

-----------------------------------------------------------------------------
Init ==
  /\ main = "start" /\ mainSize = 0 /\ raw = FALSE /\ outcome = "none"
  /\ handler = "none" /\ handlerSize = 0 /\ winch = FALSE /\ resizes = <<>>
  /\ writer = "none" /\ frame = NoFrame
  /\ stdin = "idle" /\ data = <<>>
  /\ buffer = <<>> /\ typed = 0 /\ eof = FALSE /\ size = 1
  /\ conn = "none" /\ toServer = <<>> /\ got = <<>>

Main    == Start \/ Connect \/ ReadSize \/ SendInitial \/ ProcessEnds
Handler == HandlerRegisters \/ HandlerReads \/ HandlerSends
Writer  == \/ WriterPolls \/ WriterInput \/ WriterResize \/ WriterSend \/ WriterAborted

Next ==
  \/ Main \/ \E why \in {"exited", "closed", "failed"} : Received(why)
  \/ Handler \/ Writer \/ StdinReturns
  \/ UserTypes \/ InputEnds \/ TerminalResized \/ ServerTakes \/ ConnectionLost

Spec == Init /\ [][Next]_vars

\* Tasks that can run do, select! takes a branch that is ready again and again,
\* a read returns when there is something to read, the server takes what
\* arrives, and a lost connection is noticed.  Of the user nothing is assumed.
FairSpec ==
  /\ Spec
  /\ WF_vars(Main) /\ WF_vars(Handler) /\ WF_vars(Writer)
  /\ SF_vars(WriterInput) /\ SF_vars(WriterResize)
  /\ WF_vars(StdinReturns) /\ WF_vars(ServerTakes)
  /\ WF_vars(conn = "down" /\ Received("failed"))

-----------------------------------------------------------------------------
(* What makes it correct. *)

ClientFrames == [kind : {"input", "resize"}, data : Seq(Int)]

TypeOK ==
  /\ main \in {"start", "connect", "size", "initial", "read", "returned", "ended"}
  /\ outcome \in {"none", "exited", "closed", "failed"}
  /\ raw \in BOOLEAN /\ (raw <=> main \in {"connect", "size", "initial", "read"})
  /\ handler \in {"none", "spawned", "recv", "send", "gone"} /\ winch \in BOOLEAN
  /\ writer \in {"none", "select", "send", "gone"} /\ stdin \in {"idle", "reading", "ready"}
  /\ {mainSize, handlerSize} \subseteq 0..MaxSize /\ size \in 1..MaxSize
  /\ resizes \in Seq(0..MaxSize) /\ Len(resizes) <= ResizeCap
  /\ toServer \in Seq(ClientFrames) /\ Len(toServer) <= NetCap /\ got \in Seq(ClientFrames)
  /\ frame \in ClientFrames \cup {NoFrame} /\ (writer = "send" <=> frame # NoFrame)
  /\ data \in Seq(Int) /\ (data # <<>> => stdin = "ready") /\ buffer \in Seq(Int)
  /\ conn \in {"none", "up", "down"} /\ typed \in 0..MaxIn /\ eof \in BOOLEAN

\* What was sent and what is being sent, oldest first.
Sent      == got \o toServer \o <<frame>>
SentInput == Bytes({"input"}, Sent)

\* While the writer runs, every byte typed is sent once and in order: none is
\* lost in the read that the select leaves for a resize.
InputConserved == writer # "gone" => SentInput \o data \o buffer = Count(0, typed)

\* The server learns the initial size before anything else: neither what was
\* typed ahead nor a resize the SIGWINCH task was told of overtakes it.
InitialSizeFirst == Head(Sent) \in {NoFrame, ResizeFrame(mainSize)}

\* The size the server has, or 0.
ServerSize ==
  LET sizes == SelectSeq(got, LAMBDA f : f.kind = "resize")
  IN  IF sizes = <<>> THEN 0 ELSE Last(sizes).data[1]
Over == writer = "gone" \/ conn = "down" \/ main \in {"returned", "ended"}

\* A resize the SIGWINCH task was told of ends with the server at the
\* terminal's size, however resizes, typing and a full channel interleave.
NoticedResizeArrives == winch ~> (ServerSize = size \/ Over)

\* README.md:102: the client sends the initial terminal size and forwards
\* resize updates.  One between ReadSize and HandlerRegisters is missed.
ResizeForwarded == (main = "read") ~> (ServerSize = size \/ Over)

\* After the exit message the process ends by itself, unless it waits for its user:
\* tokio's read of standard input cannot be cancelled, and the runtime waits for it.
\* What the user types then, or the end of the input, ends it too.
AwaitsUser  == stdin = "reading" /\ buffer = <<>> /\ ~eof
ClientStops == (outcome = "exited") ~> (main = "ended" \/ AwaitsUser)
=============================================================================
