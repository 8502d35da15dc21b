-------------------------- MODULE CliClient_proofs --------------------------
(***************************************************************************)
(* Proofs about the command-line client: its types and its raw mode, that  *)
(* no typed byte is lost, repeated or reordered while the writer runs, and *)
(* that the initial size is the first thing the server learns.             *)
(***************************************************************************)
EXTENDS CliClient, ByteStreams_proofs

\* The frames a client sends, and none.
LEMMA FrameFacts ==
  /\ NoFrame \in AnyMessage /\ NoFrame \notin ClientFrames /\ ClientFrames \subseteq AnyMessage
  /\ \A s \in Seq(Int) : InputFrame(s) \in ClientFrames /\ InputFrame(s) # NoFrame
  /\ \A n \in Int : ResizeFrame(n) \in ClientFrames /\ ResizeFrame(n) # NoFrame
  /\ \A q \in Seq(ClientFrames) : q \in Seq(AnyMessage)
<1>1. <<>> \in Seq(Int) /\ \A n \in Int : <<n>> \in Seq(Int)
  OBVIOUS
<1>2. "none" \in Kinds /\ {"input", "resize"} \subseteq Kinds
  BY DEF Kinds
<1>3. ClientFrames \subseteq AnyMessage
  BY <1>2, KindsFacts DEF ClientFrames
<1>4. NoFrame \in AnyMessage
  BY <1>1, <1>2 DEF AnyMessage, NoFrame
<1>5. NoFrame \notin ClientFrames
  BY DEF NoFrame, ClientFrames
<1>6. \A s \in Seq(Int) : InputFrame(s) \in ClientFrames /\ InputFrame(s) # NoFrame
  BY DEF InputFrame, ClientFrames, NoFrame
<1>7. \A n \in Int : ResizeFrame(n) \in ClientFrames /\ ResizeFrame(n) # NoFrame
  BY <1>1 DEF ResizeFrame, ClientFrames, NoFrame
<1>8. \A q \in Seq(ClientFrames) : q \in Seq(AnyMessage)
  BY <1>3, SeqMonotonic
<1> QED
  BY <1>3, <1>4, <1>5, <1>6, <1>7, <1>8

-----------------------------------------------------------------------------
(* Types. *)

\* The writer is spawned by the main task, after the initial size was sent.
Unspawned == main \in {"start", "connect", "size", "initial"} => writer = "none"

\* Every step keeps it so: no other step spawns the writer.
LEMMA UnspawnedStep == Unspawned /\ [Next]_vars => Unspawned'
BY DEF Unspawned, vars, Next, Main, Handler, Writer, Start, Connect, ReadSize, SendInitial,
       ProcessEnds, Received, Return, HandlerRegisters, HandlerReads, HandlerSends, HandlerStep,
       WriterPolls, WriterInput, WriterResize, WriterSend, WriterAborted, WriterStep,
       StdinReturns, UserTypes, InputEnds, TerminalResized, ServerTakes, ConnectionLost,
       mainVars, taskVars, handlerVars, writerVars

\* Every step keeps the types, the bounds of both queues, and raw mode between
\* the guard's creation and run()'s return.
LEMMA ClientTyping == TypeOK /\ Unspawned /\ [Next]_vars => TypeOK'
<1> SUFFICES ASSUME TypeOK, Unspawned, [Next]_vars PROVE TypeOK'
  OBVIOUS
<1> USE ClientAssumption
<1>0. /\ ResizeCap \in Nat \ {0} /\ NetCap \in Nat \ {0} /\ MaxSize \in Nat \ {0}
      /\ MaxIn \in Nat \ {0} /\ <<>> \in Seq(Int)
  OBVIOUS
<1>1. CASE Start
  <2>1. /\ main' \in {"connect", "returned"} /\ raw' = (main' = "connect")
        /\ outcome' \in {"none", "exited", "closed", "failed"}
    BY <1>1 DEF Start, Return, TypeOK
  <2>2. UNCHANGED <<mainSize, taskVars, userVars, netVars>>
    BY <1>1 DEF Start
  <2> QED
    BY <2>1, <2>2, ZenonT(30) DEF TypeOK, taskVars, handlerVars, writerVars, stdinVars, userVars, netVars
<1>2. CASE Connect
  BY <1>2 DEF Connect, Return, TypeOK, writerVars, stdinVars, userVars
<1>3. CASE ReadSize
  BY <1>0, <1>3 DEF ReadSize, TypeOK, taskVars, handlerVars, writerVars, stdinVars, userVars,
     netVars
<1>4. CASE SendInitial
  <2>1. mainSize \in 0..MaxSize /\ ResizeFrame(mainSize) \in ClientFrames
    BY <1>0, FrameFacts DEF TypeOK
  <2>2. toServer' \in Seq(ClientFrames) /\ Len(toServer') <= NetCap
    <3>1. CASE toServer' = toServer
      BY <3>1 DEF TypeOK
    <3>2. CASE Len(toServer) < NetCap /\ toServer' = Append(toServer, ResizeFrame(mainSize))
      BY <1>0, <2>1, <3>2, QueueFacts DEF TypeOK
    <3> QED
      BY <1>4, <3>1, <3>2 DEF SendInitial
  <2>3. /\ writer = "none" /\ writer' \in {"none", "select"}
        /\ main' \in {"read", "returned"} /\ raw' \in BOOLEAN /\ (raw' <=> main' = "read")
        /\ outcome' \in {"none", "exited", "closed", "failed"}
    BY <1>4 DEF SendInitial, Return, TypeOK, Unspawned
  <2>4. UNCHANGED <<mainSize, frame, resizes, conn, got, handlerVars, stdinVars, userVars>>
    BY <1>4 DEF SendInitial
  <2> QED
    BY <2>2, <2>3, <2>4, SMTT(30) DEF TypeOK, handlerVars, stdinVars, userVars
<1>5. CASE ProcessEnds
  BY <1>5 DEF ProcessEnds, TypeOK, writerVars, stdinVars, userVars, netVars
<1>6. ASSUME NEW why \in {"exited", "closed", "failed"}, Received(why) PROVE TypeOK'
  BY <1>6, ZenonT(30) DEF Received, Return, TypeOK, taskVars, handlerVars, writerVars, stdinVars, userVars,
     netVars
<1>7. CASE HandlerRegisters \/ HandlerReads
  <2>1. CASE HandlerRegisters
    BY <2>1 DEF HandlerRegisters, HandlerStep, TypeOK, mainVars, writerVars, stdinVars, userVars,
       netVars
  <2>2. CASE HandlerReads
    <3>1. /\ handler' = "send" /\ winch' = FALSE /\ handlerSize' \in 0..MaxSize
          /\ UNCHANGED resizes
      BY <1>0, <2>2 DEF HandlerReads, TypeOK
    <3>2. UNCHANGED <<mainVars, writerVars, stdinVars, userVars, netVars>>
      BY <2>2 DEF HandlerReads, HandlerStep
    <3> QED
      BY <3>1, <3>2, ZenonT(30) DEF TypeOK, mainVars, writerVars, stdinVars, userVars, netVars
  <2> QED
    BY <1>7, <2>1, <2>2
<1>8. CASE HandlerSends
  <2>1. resizes' \in Seq(0..MaxSize) /\ Len(resizes') <= ResizeCap
    <3>1. CASE resizes' = resizes
      BY <3>1 DEF TypeOK
    <3>2. CASE Len(resizes) < ResizeCap /\ resizes' = Append(resizes, handlerSize)
      BY <1>0, <3>2, QueueFacts DEF TypeOK
    <3> QED
      BY <1>8, <3>1, <3>2 DEF HandlerSends
  <2> QED
    BY <1>8, <2>1 DEF HandlerSends, HandlerStep, TypeOK, mainVars, writerVars, stdinVars,
       userVars, netVars
<1>9. CASE WriterPolls
  BY <1>9 DEF WriterPolls, WriterStep, TypeOK, mainVars, handlerVars, writerVars, userVars,
     netVars
<1>10. CASE WriterInput
  <2>1. InputFrame(data) \in ClientFrames /\ InputFrame(data) # NoFrame
    BY FrameFacts DEF TypeOK
  <2>2. frame = NoFrame
    BY <1>10 DEF WriterInput, TypeOK
  <2> QED
    BY <1>0, <1>10, <2>1, <2>2 DEF WriterInput, WriterStep, TypeOK, mainVars, handlerVars,
       userVars, netVars
<1>11. CASE WriterResize
  <2>1. /\ Head(resizes) \in 0..MaxSize /\ Tail(resizes) \in Seq(0..MaxSize)
        /\ Len(Tail(resizes)) <= ResizeCap
    BY <1>0, <1>11, QueueFacts, SMTT(30) DEF WriterResize, TypeOK
  <2>2. ResizeFrame(Head(resizes)) \in ClientFrames /\ ResizeFrame(Head(resizes)) # NoFrame
    BY <1>0, <2>1, FrameFacts
  <2> QED
    BY <1>11, <2>1, <2>2 DEF WriterResize, WriterStep, TypeOK, mainVars, handlerVars, stdinVars,
       userVars, netVars
<1>12. CASE WriterSend
  <2>1. toServer' \in Seq(ClientFrames) /\ Len(toServer') <= NetCap
    <3>1. CASE toServer' = toServer
      BY <3>1 DEF TypeOK
    <3>2. CASE Len(toServer) < NetCap /\ toServer' = Append(toServer, frame)
      <4>1. frame \in ClientFrames
        BY <1>12 DEF WriterSend, TypeOK
      <4> QED
        BY <1>0, <3>2, <4>1, QueueFacts DEF TypeOK
    <3> QED
      BY <1>12, <3>1, <3>2 DEF WriterSend
  <2> QED
    BY <1>12, <2>1 DEF WriterSend, WriterStep, TypeOK, mainVars, handlerVars, stdinVars,
       userVars
<1>13. CASE WriterAborted
  BY <1>13 DEF WriterAborted, WriterStep, TypeOK, mainVars, handlerVars, stdinVars, userVars,
     netVars
<1>14. CASE StdinReturns
  BY <1>0, <1>14 DEF StdinReturns, TypeOK, mainVars, handlerVars, writerVars, netVars
<1>15. CASE UserTypes
  <2>1. typed \in Nat /\ typed + 1 \in 0..MaxIn
    BY <1>0, <1>15 DEF UserTypes, TypeOK
  <2>2. Append(buffer, typed + 1) \in Seq(Int)
    BY <2>1, QueueFacts DEF TypeOK
  <2> QED
    BY <1>15, <2>1, <2>2 DEF UserTypes, TypeOK, mainVars, taskVars, handlerVars, writerVars,
       stdinVars, netVars
<1>16. CASE InputEnds
  BY <1>16 DEF InputEnds, TypeOK, mainVars, taskVars, handlerVars, writerVars, stdinVars,
     netVars
<1>17. CASE TerminalResized
  <2>1. winch' \in BOOLEAN /\ size' \in 1..MaxSize
    BY <1>0, <1>17 DEF TerminalResized, TypeOK
  <2>2. /\ UNCHANGED <<handler, handlerSize, resizes, buffer, typed, eof>>
        /\ UNCHANGED mainVars /\ UNCHANGED writerVars /\ UNCHANGED stdinVars
        /\ UNCHANGED netVars
    BY <1>17 DEF TerminalResized
  <2> QED
    BY <2>1, <2>2 DEF TypeOK, mainVars, writerVars, stdinVars, netVars
<1>18. CASE ServerTakes
  <2>1. /\ Head(toServer) \in ClientFrames /\ Tail(toServer) \in Seq(ClientFrames)
        /\ Len(Tail(toServer)) <= NetCap
    BY <1>0, <1>18, QueueFacts DEF ServerTakes, TypeOK
  <2>2. Append(got, Head(toServer)) \in Seq(ClientFrames)
    BY <2>1, QueueFacts DEF TypeOK
  <2> QED
    BY <1>18, <2>1, <2>2 DEF ServerTakes, TypeOK, mainVars, taskVars, handlerVars, writerVars,
       stdinVars, userVars
<1>19. CASE ConnectionLost
  BY <1>19 DEF ConnectionLost, TypeOK, mainVars, taskVars, handlerVars, writerVars, stdinVars,
     userVars
<1>20. CASE UNCHANGED vars
  BY <1>20 DEF vars, TypeOK, mainVars, taskVars, handlerVars, writerVars, stdinVars, userVars,
     netVars
<1> QED
  BY <1>1, <1>2, <1>3, <1>4, <1>5, <1>6, <1>7, <1>8, <1>9, <1>10, <1>11, <1>12, <1>13, <1>14,
     <1>15, <1>16, <1>17, <1>18, <1>19, <1>20 DEF Next, Main, Handler, Writer

\* The client's types, for every capacity of its channel and its connection.
THEOREM ClientTypes == Spec => [](TypeOK /\ Unspawned)
<1>1. Init => TypeOK /\ Unspawned
  <2>1. /\ MaxSize \in Nat \ {0} /\ MaxIn \in Nat /\ ResizeCap \in Nat /\ NetCap \in Nat
        /\ <<>> \in Seq(Int) /\ <<>> \in Seq(0..MaxSize) /\ <<>> \in Seq(ClientFrames)
        /\ Len(<<>>) = 0
    BY ClientAssumption
  <2> SUFFICES ASSUME Init PROVE TypeOK /\ Unspawned
    OBVIOUS
  <2>2. /\ main = "start" /\ raw = FALSE /\ outcome = "none" /\ handler = "none" /\ winch = FALSE
        /\ writer = "none" /\ stdin = "idle" /\ eof = FALSE /\ conn = "none"
    BY DEF Init
  <2>3. /\ mainSize = 0 /\ handlerSize = 0 /\ size = 1 /\ typed = 0 /\ frame = NoFrame
        /\ resizes = <<>> /\ toServer = <<>> /\ got = <<>> /\ data = <<>> /\ buffer = <<>>
    BY DEF Init
  <2>4. {mainSize, handlerSize} \subseteq 0..MaxSize /\ size \in 1..MaxSize /\ typed \in 0..MaxIn
    BY <2>1, <2>3
  <2>5. /\ resizes \in Seq(0..MaxSize) /\ Len(resizes) <= ResizeCap
        /\ toServer \in Seq(ClientFrames) /\ Len(toServer) <= NetCap /\ got \in Seq(ClientFrames)
        /\ data \in Seq(Int) /\ buffer \in Seq(Int)
    BY <2>1, <2>3
  <2> QED
    BY <2>2, <2>3, <2>4, <2>5 DEF TypeOK, Unspawned
<1> QED
  BY <1>1, ClientTyping, UnspawnedStep, PTL DEF Spec

-----------------------------------------------------------------------------
(* The initial size. *)

\* The oldest frame of those the server has taken and those in flight.
Oldest(g, t) == IF g # <<>> THEN Head(g) ELSE Head(t)

\* Before the writer runs nothing was sent; afterwards the oldest frame is the
\* initial size.
SizeSent ==
  /\ Unspawned
  /\ writer = "none"  => got = <<>> /\ toServer = <<>> /\ frame = NoFrame
  /\ writer # "none" => /\ got # <<>> \/ toServer # <<>>
                        /\ Oldest(got, toServer) = ResizeFrame(mainSize)

\* A frame that is sent, or taken, does not change which is the oldest.
LEMMA OldestStays ==
  ASSUME NEW g \in Seq(ClientFrames), NEW t \in Seq(ClientFrames), NEW f
  PROVE  /\ Append(t, f) # <<>>
         /\ g # <<>> \/ t # <<>> => Oldest(g, Append(t, f)) = Oldest(g, t)
         /\ t # <<>> => /\ Append(g, Head(t)) # <<>>
                        /\ Oldest(Append(g, Head(t)), Tail(t)) = Oldest(g, t)
         /\ Oldest(<<>>, Append(<<>>, f)) = f
<1>1. \A q \in Seq(ClientFrames) : Len(Append(q, f)) = Len(q) + 1 /\ Len(q) \in Nat
  OBVIOUS
<1>2. \A q \in Seq(ClientFrames) : Append(q, f) # <<>>
  BY <1>1
<1>3. \A q \in Seq(ClientFrames) : q # <<>> => Head(Append(q, f)) = Head(q)
  OBVIOUS
<1>4. \A q \in Seq(ClientFrames) : \A e \in ClientFrames :
        Append(q, e) # <<>> /\ (q # <<>> => Head(Append(q, e)) = Head(q))
  OBVIOUS
<1>5. Head(Append(<<>>, f)) = f /\ \A e : Head(Append(<<>>, e)) = e
  OBVIOUS
<1>6. t # <<>> => Head(t) \in ClientFrames
  OBVIOUS
<1> QED
  BY <1>2, <1>3, <1>4, <1>5, <1>6 DEF Oldest

\* Every step keeps the initial size the oldest frame.
LEMMA SizeSentStep == TypeOK /\ SizeSent /\ [Next]_vars => SizeSent'
<1> SUFFICES ASSUME TypeOK, SizeSent, [Next]_vars PROVE SizeSent'
  OBVIOUS
<1>0. Unspawned'
  BY UnspawnedStep DEF SizeSent
<1>t. toServer \in Seq(ClientFrames) /\ got \in Seq(ClientFrames)
  BY DEF TypeOK
<1>1. CASE SendInitial
  <2>1. writer = "none" /\ got = <<>> /\ toServer = <<>> /\ frame = NoFrame
    BY <1>1 DEF SendInitial, SizeSent, Unspawned
  <2>2. UNCHANGED <<got, frame, mainSize>>
    BY <1>1 DEF SendInitial
  <2>3. CASE writer' = "select" /\ toServer' = Append(toServer, ResizeFrame(mainSize))
    <3>1. got' = <<>> /\ toServer' = Append(<<>>, ResizeFrame(mainSize)) /\ mainSize' = mainSize
      BY <2>1, <2>2, <2>3
    <3>2. toServer' # <<>> /\ Oldest(got', toServer') = ResizeFrame(mainSize')
      BY <3>1, <1>t, OldestStays DEF ResizeFrame
    <3> QED
      BY <1>0, <2>3, <3>2 DEF SizeSent
  <2>4. CASE UNCHANGED <<writer, toServer>>
    BY <1>0, <2>1, <2>2, <2>4 DEF SizeSent
  <2> QED
    BY <1>1, <2>3, <2>4 DEF SendInitial
<1>2. CASE WriterSend
  <2>1. writer # "none" /\ writer' # "none" /\ UNCHANGED <<got, mainSize>>
    BY <1>2 DEF WriterSend, WriterStep, mainVars
  <2>2. CASE toServer' = Append(toServer, frame)
    BY <1>0, <1>t, <2>1, <2>2, OldestStays, ZenonT(30) DEF SizeSent, ResizeFrame
  <2>3. CASE UNCHANGED toServer
    BY <1>0, <2>1, <2>3 DEF SizeSent, ResizeFrame
  <2> QED
    BY <1>2, <2>2, <2>3 DEF WriterSend
<1>3. CASE ServerTakes
  <2>1. writer # "none" /\ UNCHANGED <<writer, frame, mainSize>> /\ toServer # <<>>
        /\ got' = Append(got, Head(toServer)) /\ toServer' = Tail(toServer)
    BY <1>3 DEF ServerTakes, SizeSent, mainVars, taskVars, writerVars
  <2> QED
    BY <1>0, <1>t, <2>1, OldestStays DEF SizeSent, ResizeFrame
<1>4. CASE ReadSize
  <2>1. writer = "none" /\ UNCHANGED <<writer, got, toServer, frame>>
    BY <1>4 DEF ReadSize, SizeSent, Unspawned, taskVars, writerVars, netVars
  <2> QED
    BY <1>0, <2>1 DEF SizeSent
<1>5. CASE /\ UNCHANGED <<got, toServer, mainSize>>
           /\ (writer # "none" /\ writer' # "none") \/ UNCHANGED <<writer, frame>>
  BY <1>0, <1>5 DEF SizeSent, ResizeFrame
<1>6. \/ SendInitial \/ WriterSend \/ ServerTakes \/ ReadSize
      \/ /\ UNCHANGED <<got, toServer, mainSize>>
         /\ (writer # "none" /\ writer' # "none") \/ UNCHANGED <<writer, frame>>
  BY DEF vars, Next, Main, Handler, Writer, Start, Connect,
     ProcessEnds, Received, Return, HandlerRegisters, HandlerReads, HandlerSends, HandlerStep,
     WriterPolls, WriterInput, WriterResize, WriterAborted, WriterStep,
     StdinReturns, UserTypes, InputEnds, TerminalResized, ConnectionLost,
     mainVars, taskVars, handlerVars, writerVars, netVars
<1> QED
  BY <1>1, <1>2, <1>3, <1>4, <1>5, <1>6

\* The server learns the terminal's initial size before anything else, whatever
\* was typed ahead and however often the terminal has been resized since.
THEOREM InitialSizeIsFirst == Spec => []InitialSizeFirst
<1>1. Init => SizeSent
  BY DEF Init, SizeSent, Unspawned
<1>2. TypeOK /\ SizeSent => InitialSizeFirst
  <2> SUFFICES ASSUME TypeOK, SizeSent PROVE InitialSizeFirst
    OBVIOUS
  <2>1. got \in Seq(ClientFrames) /\ toServer \in Seq(ClientFrames)
    BY DEF TypeOK
  <2>2. CASE writer = "none"
    <3>1. Sent = <<NoFrame>>
      BY <2>2 DEF SizeSent, Sent
    <3> QED
      BY <3>1 DEF InitialSizeFirst
  <2>3. CASE writer # "none"
    <3>1. got \o toServer # <<>> /\ Head(got \o toServer) = Oldest(got, toServer)
      BY <2>1, <2>3 DEF SizeSent, Oldest
    <3>2. Head(Sent) = Head(got \o toServer)
      <4>1. got \o toServer \in Seq(ClientFrames)
        BY <2>1
      <4>2. \A q \in Seq(ClientFrames) : q # <<>> => Head(q \o <<frame>>) = Head(q)
        OBVIOUS
      <4> QED
        BY <3>1, <4>1, <4>2 DEF Sent
    <3> QED
      BY <2>3, <3>1, <3>2 DEF SizeSent, InitialSizeFirst
  <2> QED
    BY <2>2, <2>3
<1> QED
  BY <1>1, <1>2, SizeSentStep, ClientTypes, PTL DEF Spec

-----------------------------------------------------------------------------
(* Input. *)

\* The keys in a frame, and in a queue of frames.
Keys(f)   == Data({"input"}, f)
KeysIn(q) == Bytes({"input"}, q)

\* What was typed, on its way from the terminal to the server, in the order in
\* which it was typed.
Typed(g, t, f, d, b) == Cat(Cat(Cat(Cat(KeysIn(g), KeysIn(t)), Keys(f)), d), b)

\* What InputConserved concatenates is this, queue by queue.
LEMMA TypedIsSent ==
  ASSUME NEW g, NEW t, NEW f, NEW d, NEW b,
         g \in Seq(ClientFrames), t \in Seq(ClientFrames), f \in ClientFrames \cup {NoFrame}
  PROVE  Bytes({"input"}, g \o t \o <<f>>) \o d \o b = Typed(g, t, f, d, b)
<1>1. g \in Seq(AnyMessage) /\ t \in Seq(AnyMessage) /\ f \in AnyMessage
  BY FrameFacts
<1>2. g \o t \in Seq(AnyMessage) /\ <<f>> \in Seq(AnyMessage)
  BY <1>1
<1>3. KeysIn((g \o t) \o <<f>>) = Cat(KeysIn(g \o t), KeysIn(<<f>>))
  BY <1>2, BytesConcat DEF KeysIn, Cat
<1>4. KeysIn(g \o t) = Cat(KeysIn(g), KeysIn(t))
  BY <1>1, BytesConcat DEF KeysIn, Cat
<1>5. KeysIn(<<f>>) = Keys(f)
  BY <1>1, BytesOne DEF KeysIn, Keys
<1>6. KeysIn((g \o t) \o <<f>>) \o d \o b = Typed(g, t, f, d, b)
  BY <1>3, <1>4, <1>5, Zenon DEF Typed, Cat
<1> QED
  BY <1>6 DEF KeysIn

\* Every hand-over on the way keeps the keys and their order, and a resize, which
\* carries none, may be sent at any time.
LEMMA TypedMoves ==
  ASSUME NEW g, NEW t, NEW f, NEW d, NEW b,
         g \in Seq(ClientFrames), t \in Seq(ClientFrames), f \in ClientFrames \cup {NoFrame},
         d \in Seq(Int), b \in Seq(Int)
  PROVE  /\ Typed(g, t, f, d, b) \in Seq(Int)
         /\ t # <<>> => Typed(Append(g, Head(t)), Tail(t), f, d, b) = Typed(g, t, f, d, b)
         /\ Typed(g, Append(t, f), NoFrame, d, b) = Typed(g, t, f, d, b)
         /\ Typed(g, t, InputFrame(d), <<>>, b) = Typed(g, t, NoFrame, d, b)
         /\ \A n \in Int : Typed(g, t, ResizeFrame(n), d, b) = Typed(g, t, NoFrame, d, b)
         /\ \A n \in Int : Typed(g, Append(t, ResizeFrame(n)), f, d, b) = Typed(g, t, f, d, b)
         /\ Typed(g, t, f, b, <<>>) = Typed(g, t, f, <<>>, b)
         /\ \A e \in Int : Typed(g, t, f, d, Append(b, e)) = Cat(Typed(g, t, f, d, b), <<e>>)
<1> DEFINE G == KeysIn(g)
           T == KeysIn(t)
           K == Keys(f)
<1>0. g \in Seq(AnyMessage) /\ t \in Seq(AnyMessage) /\ f \in AnyMessage /\ <<>> \in Seq(Int)
  BY FrameFacts
<1>1. G \in Seq(Int) /\ T \in Seq(Int) /\ K \in Seq(Int)
  BY <1>0, BytesType, DataType DEF KeysIn, Keys
<1>2. /\ Keys(NoFrame) = <<>> /\ Keys(InputFrame(d)) = d
      /\ \A n \in Int : Keys(ResizeFrame(n)) = <<>>
  BY DEF Keys, Data, NoFrame, InputFrame, ResizeFrame
<1>3. \A m \in AnyMessage : KeysIn(Append(t, m)) = Cat(T, Keys(m))
  BY <1>0, BytesAppend DEF KeysIn, Keys, Cat
<1>4. /\ Cat(G, T) \in Seq(Int) /\ Cat(Cat(G, T), K) \in Seq(Int)
      /\ Cat(Cat(Cat(G, T), K), d) \in Seq(Int)
      /\ Cat(Cat(Cat(Cat(G, T), K), d), b) \in Seq(Int)
      /\ Cat(Cat(G, T), d) \in Seq(Int) /\ Cat(Cat(Cat(G, T), K), b) \in Seq(Int)
  BY <1>1, CatFacts
<1>5. ASSUME t # <<>>
      PROVE  Cat(KeysIn(Append(g, Head(t))), KeysIn(Tail(t))) = Cat(G, T)
  <2>1. Head(t) \in AnyMessage /\ Tail(t) \in Seq(AnyMessage)
    BY <1>0, <1>5, QueueFacts
  <2>2. KeysIn(Append(g, Head(t))) = Cat(G, Keys(Head(t)))
    BY <1>0, <2>1, BytesAppend DEF KeysIn, Keys, Cat
  <2>3. T = Cat(Keys(Head(t)), KeysIn(Tail(t)))
    BY <1>0, <1>5, BytesTail DEF KeysIn, Keys, Cat
  <2>4. Keys(Head(t)) \in Seq(Int) /\ KeysIn(Tail(t)) \in Seq(Int)
    BY <2>1, BytesType, DataType DEF KeysIn, Keys
  <2> HIDE DEF G, T
  <2> QED
    BY <1>1, <2>2, <2>3, <2>4, CatAssociative
<1>6. Cat(Cat(G, KeysIn(Append(t, f))), Keys(NoFrame)) = Cat(Cat(G, T), K)
  <2>1. KeysIn(Append(t, f)) = Cat(T, K)
    BY <1>0, <1>3
  <2> HIDE DEF G, T, K
  <2>2. Cat(G, Cat(T, K)) = Cat(Cat(G, T), K)
    BY <1>1, CatAssociative
  <2>3. Cat(Cat(Cat(G, T), K), <<>>) = Cat(Cat(G, T), K)
    BY <1>4, CatFacts
  <2> QED
    BY <1>2, <2>1, <2>2, <2>3
<1>7. \A n \in Int : KeysIn(Append(t, ResizeFrame(n))) = T
  <2>1. Cat(T, <<>>) = T
    BY <1>1, CatFacts
  <2>2. \A n \in Int : ResizeFrame(n) \in AnyMessage
    BY FrameFacts
  <2> HIDE DEF T
  <2> QED
    BY <1>2, <1>3, <2>1, <2>2
<1> HIDE DEF G, T, K
<1>8. /\ Cat(Cat(G, T), <<>>) = Cat(G, T) /\ Cat(Cat(Cat(G, T), d), <<>>) = Cat(Cat(G, T), d)
      /\ Cat(Cat(Cat(G, T), K), <<>>) = Cat(Cat(G, T), K)
      /\ Cat(Cat(Cat(Cat(G, T), K), b), <<>>) = Cat(Cat(Cat(G, T), K), b)
  BY <1>1, <1>4, CatFacts
<1>9. ASSUME NEW e \in Int
      PROVE  Cat(Cat(Cat(Cat(G, T), K), d), Append(b, e))
               = Cat(Cat(Cat(Cat(Cat(G, T), K), d), b), <<e>>)
  <2> DEFINE X == Cat(Cat(Cat(G, T), K), d)
             h == <<e>>
  <2>1. Append(b, e) = Cat(b, h) /\ h \in Seq(Int)
    BY DEF Cat
  <2>2. X \in Seq(Int)
    BY <1>4
  <2> HIDE DEF X, h
  <2>3. Cat(X, Cat(b, h)) = Cat(Cat(X, b), h)
    BY <2>1, <2>2, CatAssociative
  <2> QED
    BY <2>1, <2>3 DEF X, h
<1>t. \A x, y, h, j, k : Typed(x, y, h, j, k)
                          = Cat(Cat(Cat(Cat(KeysIn(x), KeysIn(y)), Keys(h)), j), k)
  BY DEF Typed
<1>10. Typed(g, t, f, d, b) \in Seq(Int)
  BY <1>4, <1>t DEF G, T, K
<1>11. t # <<>> => Typed(Append(g, Head(t)), Tail(t), f, d, b) = Typed(g, t, f, d, b)
  BY <1>5, <1>t, Zenon DEF G, T
<1>12. Typed(g, Append(t, f), NoFrame, d, b) = Typed(g, t, f, d, b)
  BY <1>6, <1>t, Zenon DEF G, T, K
<1>13. Typed(g, t, InputFrame(d), <<>>, b) = Typed(g, t, NoFrame, d, b)
  BY <1>2, <1>8, <1>t, Zenon DEF G, T
<1>14. \A n \in Int : Typed(g, t, ResizeFrame(n), d, b) = Typed(g, t, NoFrame, d, b)
  BY <1>2, <1>t, Zenon
<1>15. \A n \in Int : Typed(g, Append(t, ResizeFrame(n)), f, d, b) = Typed(g, t, f, d, b)
  BY <1>7, <1>t, Zenon DEF T
<1>16. Typed(g, t, f, b, <<>>) = Typed(g, t, f, <<>>, b)
  BY <1>8, <1>t, Zenon DEF G, T, K
<1>17. \A e \in Int : Typed(g, t, f, d, Append(b, e)) = Cat(Typed(g, t, f, d, b), <<e>>)
  BY <1>9, <1>t, Zenon DEF G, T, K
<1> QED
  BY <1>10, <1>11, <1>12, <1>13, <1>14, <1>15, <1>16, <1>17

\* While the writer runs, what is on its way is everything that was typed.
KeysKept == writer # "gone" => Typed(got, toServer, frame, data, buffer) = Count(0, typed)

\* Every step keeps it so: a resize the select takes leaves the read, and what it
\* has read, where they are.
LEMMA KeysKeptStep == TypeOK /\ Unspawned /\ KeysKept /\ [Next]_vars => KeysKept'
<1> SUFFICES ASSUME TypeOK, Unspawned, KeysKept, [Next]_vars, writer' # "gone"
             PROVE  Typed(got', toServer', frame', data', buffer') = Count(0, typed')
  BY DEF KeysKept
<1>t. /\ got \in Seq(ClientFrames) /\ toServer \in Seq(ClientFrames)
      /\ frame \in ClientFrames \cup {NoFrame}
      /\ data \in Seq(Int) /\ buffer \in Seq(Int) /\ typed \in Nat
      /\ mainSize \in Int /\ \A i \in 1..Len(resizes) : resizes[i] \in Int
      /\ (writer # "send" => frame = NoFrame) /\ (stdin # "ready" => data = <<>>)
  <2>1. {mainSize} \subseteq 0..MaxSize /\ MaxSize \in Nat /\ typed \in 0..MaxIn /\ MaxIn \in Nat
    BY ClientAssumption DEF TypeOK
  <2>2. resizes \in Seq(0..MaxSize)
    BY DEF TypeOK
  <2> QED
    BY <2>1, <2>2, SMTT(30) DEF TypeOK
<1>k. writer # "gone" => Typed(got, toServer, frame, data, buffer) = Count(0, typed)
  BY DEF KeysKept
<1>y. /\ got \in Seq(ClientFrames) /\ toServer \in Seq(ClientFrames)
      /\ frame \in ClientFrames \cup {NoFrame}
      /\ data \in Seq(Int) /\ buffer \in Seq(Int)
  BY <1>t
<1>m. /\ toServer # <<>> =>
           Typed(Append(got, Head(toServer)), Tail(toServer), frame, data, buffer)
             = Typed(got, toServer, frame, data, buffer)
      /\ Typed(got, Append(toServer, frame), NoFrame, data, buffer)
           = Typed(got, toServer, frame, data, buffer)
      /\ Typed(got, toServer, InputFrame(data), <<>>, buffer)
           = Typed(got, toServer, NoFrame, data, buffer)
      /\ \A n \in Int : Typed(got, toServer, ResizeFrame(n), data, buffer)
                        = Typed(got, toServer, NoFrame, data, buffer)
      /\ \A n \in Int : Typed(got, Append(toServer, ResizeFrame(n)), frame, data, buffer)
                        = Typed(got, toServer, frame, data, buffer)
      /\ Typed(got, toServer, frame, buffer, <<>>) = Typed(got, toServer, frame, <<>>, buffer)
      /\ \A e \in Int : Typed(got, toServer, frame, data, Append(buffer, e))
                        = Cat(Typed(got, toServer, frame, data, buffer), <<e>>)
  BY <1>y, TypedMoves
<1>1. CASE SendInitial
  <2>1. UNCHANGED <<got, frame, data, buffer, typed>>
    BY <1>1 DEF SendInitial, stdinVars, userVars
  <2>2. writer # "gone"
    BY <1>1 DEF SendInitial, Unspawned
  <2>3. CASE toServer' = Append(toServer, ResizeFrame(mainSize))
    <3>1. Typed(got, Append(toServer, ResizeFrame(mainSize)), frame, data, buffer)
            = Typed(got, toServer, frame, data, buffer)
      BY <1>t, <1>m
    <3> QED
      BY <1>k, <2>1, <2>2, <2>3, <3>1
  <2>4. CASE UNCHANGED toServer
    BY <1>k, <2>1, <2>2, <2>4
  <2> QED
    BY <1>1, <2>3, <2>4 DEF SendInitial
<1>2. CASE WriterInput
  <2>1. /\ writer = "select" /\ frame = NoFrame /\ frame' = InputFrame(data) /\ data' = <<>>
        /\ UNCHANGED <<got, toServer, buffer, typed>>
    BY <1>2, <1>t DEF WriterInput, WriterStep, netVars, userVars
  <2>2. Typed(got, toServer, InputFrame(data), <<>>, buffer)
          = Typed(got, toServer, NoFrame, data, buffer)
    BY <1>t, <1>m
  <2> QED
    BY <1>k, <2>1, <2>2
<1>3. CASE WriterResize
  <2>1. /\ writer = "select" /\ frame = NoFrame /\ frame' = ResizeFrame(Head(resizes))
        /\ UNCHANGED <<got, toServer, data, buffer, typed>>
    BY <1>3, <1>t DEF WriterResize, WriterStep, netVars, userVars, stdinVars
  <2>2. Head(resizes) \in Int
    <3>1. resizes \in Seq(0..MaxSize) /\ resizes # <<>> /\ MaxSize \in Nat
      BY <1>3, ClientAssumption DEF WriterResize, TypeOK
    <3>2. Head(resizes) \in 0..MaxSize
      BY <3>1, HeadTailProperties
    <3> QED
      BY <3>1, <3>2
  <2>3. Typed(got, toServer, ResizeFrame(Head(resizes)), data, buffer)
          = Typed(got, toServer, NoFrame, data, buffer)
    BY <1>t, <1>m, <2>2
  <2> QED
    BY <1>k, <2>1, <2>3
<1>4. CASE WriterSend
  <2>1. /\ writer = "send" /\ frame' = NoFrame /\ toServer' = Append(toServer, frame)
        /\ UNCHANGED <<got, data, buffer, typed>>
    BY <1>4 DEF WriterSend, WriterStep, stdinVars, userVars
  <2>2. Typed(got, Append(toServer, frame), NoFrame, data, buffer)
          = Typed(got, toServer, frame, data, buffer)
    BY <1>t, <1>m
  <2> QED
    BY <1>k, <2>1, <2>2
<1>5. CASE StdinReturns
  <2>1. /\ data = <<>> /\ data' = buffer /\ buffer' = <<>>
        /\ UNCHANGED <<writer, got, toServer, frame, typed>>
    BY <1>5, <1>t DEF StdinReturns, writerVars, netVars
  <2>2. Typed(got, toServer, frame, buffer, <<>>) = Typed(got, toServer, frame, <<>>, buffer)
    BY <1>t, <1>m
  <2> QED
    BY <1>k, <2>1, <2>2
<1>6. CASE UserTypes
  <2>1. /\ buffer' = Append(buffer, typed + 1) /\ typed' = typed + 1
        /\ UNCHANGED <<writer, got, toServer, frame, data>>
    BY <1>6 DEF UserTypes, taskVars, writerVars, stdinVars, netVars
  <2>2. Typed(got', toServer', frame', data', buffer')
          = Cat(Typed(got, toServer, frame, data, buffer), <<typed + 1>>)
    <3>1. Typed(got, toServer, frame, data, Append(buffer, typed + 1))
            = Cat(Typed(got, toServer, frame, data, buffer), <<typed + 1>>)
      <4>1. typed + 1 \in Int
        BY <1>t
      <4> QED
        BY <1>m, <4>1
    <3> QED
      BY <2>1, <3>1
  <2>3. Cat(Count(0, typed), <<typed + 1>>) = Count(0, typed + 1)
    BY <1>t, CountFacts DEF Cat
  <2> QED
    BY <1>k, <2>1, <2>2, <2>3
<1>7. CASE ServerTakes
  <2>1. /\ toServer # <<>> /\ got' = Append(got, Head(toServer)) /\ toServer' = Tail(toServer)
        /\ UNCHANGED <<writer, frame, data, buffer, typed>>
    BY <1>7 DEF ServerTakes, taskVars, writerVars, stdinVars, userVars
  <2>2. Typed(Append(got, Head(toServer)), Tail(toServer), frame, data, buffer)
          = Typed(got, toServer, frame, data, buffer)
    BY <1>m, <2>1
  <2> QED
    BY <1>k, <2>1, <2>2
<1>8. CASE writer # "gone" /\ UNCHANGED <<got, toServer, frame, data, buffer, typed>>
  BY <1>k, <1>8
<1>9. \/ SendInitial \/ WriterInput \/ WriterResize \/ WriterSend \/ StdinReturns \/ UserTypes
      \/ ServerTakes \/ (writer # "gone" /\ UNCHANGED <<got, toServer, frame, data, buffer, typed>>)
  BY DEF vars, Next, Main, Handler, Writer, Start, Connect, ReadSize, ProcessEnds, Received,
     Return, HandlerRegisters, HandlerReads, HandlerSends, HandlerStep, WriterPolls,
     WriterAborted, WriterStep, InputEnds, TerminalResized, ConnectionLost, mainVars,
     taskVars, handlerVars, writerVars, stdinVars, userVars, netVars
<1> QED
  BY <1>1, <1>2, <1>3, <1>4, <1>5, <1>6, <1>7, <1>8, <1>9

\* No key is lost, repeated or reordered between the terminal and the server while
\* the writer runs, for every capacity of the channel and the connection, whatever
\* the select takes first and however long a read of standard input lasts.
THEOREM KeysAreConserved == Spec => []InputConserved
<1>1. Init => KeysKept
  <2> SUFFICES ASSUME Init PROVE KeysKept
    OBVIOUS
  <2>1. /\ got = <<>> /\ toServer = <<>> /\ frame = NoFrame /\ data = <<>> /\ buffer = <<>>
        /\ typed = 0 /\ <<>> \in Seq(Int)
    BY DEF Init
  <2>2. KeysIn(<<>>) = <<>> /\ Keys(NoFrame) = <<>>
    BY BytesEmpty DEF KeysIn, Keys, Data, NoFrame
  <2>3. Cat(<<>>, <<>>) = <<>>
    BY <2>1, CatFacts
  <2>4. Typed(got, toServer, frame, data, buffer) = <<>>
    BY <2>1, <2>2, <2>3, Zenon DEF Typed
  <2> QED
    BY <2>1, <2>4, CountFacts DEF KeysKept
<1>2. TypeOK /\ KeysKept => InputConserved
  <2> SUFFICES ASSUME TypeOK, KeysKept PROVE InputConserved
    OBVIOUS
  <2>1. /\ got \in Seq(ClientFrames) /\ toServer \in Seq(ClientFrames)
        /\ frame \in ClientFrames \cup {NoFrame}
    BY DEF TypeOK
  <2>2. SentInput \o data \o buffer = Typed(got, toServer, frame, data, buffer)
    <3>1. Bytes({"input"}, got \o toServer \o <<frame>>) \o data \o buffer
            = Typed(got, toServer, frame, data, buffer)
      BY <2>1, TypedIsSent, SMTT(30)
    <3> QED
      BY <3>1, Zenon DEF SentInput, Sent
  <2> QED
    BY <2>2, Zenon DEF KeysKept, InputConserved
<1> QED
  BY <1>1, <1>2, KeysKeptStep, ClientTypes, PTL DEF Spec
=============================================================================
