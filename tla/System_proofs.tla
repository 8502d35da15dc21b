--------------------------- MODULE System_proofs ---------------------------
(***************************************************************************)
(* Proofs about the page and its sessions together, for any number of      *)
(* connections and threads: what BrowserApp promises it promises also in   *)
(* this company, and a command is started again after its exit only if the *)
(* exit message was lost.  What makes that inductive is where the message  *)
(* is: on its way before any close, or handled by a page that then only    *)
(* waits for its socket to close.                                          *)
(***************************************************************************)
EXTENDS System, BrowserApp_proofs, SequenceTheorems

Labels   == {"none", "spawning", "opened", "forked", "serving", "ending", "returned"}
Messages == {"exited", "close"}

\* What a session says last, in this order.
Exited     == <<"exited">>
Closed     == <<"close">>
ExitClosed == Append(Exited, "close")

\* What is in flight to the page, by the state of the task.
Wire(label) ==
  CASE label = "returned" -> {<<>>, Exited, Closed, ExitClosed}
    [] label = "ending"   -> {<<>>, Exited}
    [] OTHER              -> {<<>>}

Sent ==
  /\ task \in [Conns -> Labels] /\ lost \in [Conns -> BOOLEAN] /\ said \in [Conns -> BOOLEAN]
  /\ toPage \in [Conns -> Seq(Messages)]
  /\ \A c \in Conns : /\ toPage[c] \in Wire(task[c])
                      /\ said[c] => task[c] \in {"ending", "returned"}

\* A session begins when its page waits for it, and until the page is told of the exit or
\* the connection is lost it does not close its socket.
Served ==
  \A c \in Conns :
    conns[c].live /\ task[c] # "none" =>
      /\ ~Is(c, "fetch")
      /\ Is(c, "closing") => lost[c] \/ remoteExited

\* An exit message that was sent is on its way, before any close, or was handled.
ExitTravels ==
  \A c \in Conns :
    conns[c].live /\ said[c] /\ ~lost[c] =>
      toPage[c] \in {Exited, ExitClosed} \/ Is(c, "closing")

SystemInv == Sent /\ Served /\ ExitTravels

-----------------------------------------------------------------------------
\* Every step of the page is one of BrowserApp, and no other step touches it.
LEMMA StepIsBrowser ==
  ASSUME SystemNext
  PROVE  [Next]_vars
<1>1. ASSUME NEW c \in Conns, Page(c)
      PROVE  Next
  <2>1. CASE PageConnects(c)
    BY <2>1 DEF PageConnects, Next, Timers
  <2>2. CASE PageFetches(c)
    BY <2>2 DEF PageFetches, Next, Network
  <2>3. CASE PageOpens(c)
    BY <2>3 DEF PageOpens, Next, Network
  <2>4. CASE PageTold(c)
    BY <2>4 DEF PageTold, Next, Network
  <2>5. CASE PageErrors(c) \/ PageCloses(c)
    BY <2>5 DEF PageErrors, PageCloses, Next, Network
  <2> QED
    BY <1>1, <2>1, <2>2, <2>3, <2>4, <2>5 DEF Page
<1>2. ASSUME NEW c \in Conns, Server(c) \/ Upgrade(c) \/ CommandExits(c) \/ Reset(c)
      PROVE  UNCHANGED vars
  BY <1>2 DEF Server, OpenPty, Fork, SpawnReturns, SpawnFails, Notices, ReaderEof, Waited,
              ReaderTells, Kill, Terminated, Upgrade, CommandExits, Reset
<1>3. CASE PageElse
  BY <1>3 DEF PageElse, Next, Timers
<1>4. CASE JobStarts
  BY <1>4 DEF JobStarts
<1> QED
  BY <1>1, <1>2, <1>3, <1>4 DEF SystemNext

\* The page in this company is the page of BrowserApp: a server that starts sessions,
\* tells of exits and closes is one of the networks that module allows.
THEOREM SystemImplementsBrowser == SystemSpec => Spec
<1>1. SystemInit => Init
  BY DEF SystemInit
<1>2. [SystemNext]_allVars => [Next]_vars
  BY StepIsBrowser DEF allVars, vars
<1> QED
  BY <1>1, <1>2, PTL DEF SystemSpec, Spec

-----------------------------------------------------------------------------
\* The messages that are sent to a page, and what is left when it takes one.
LEMMA WireFacts ==
  /\ Exited \in Seq(Messages) /\ Closed \in Seq(Messages) /\ ExitClosed \in Seq(Messages)
  /\ Append(<<>>, "exited") = Exited /\ Append(<<>>, "close") = Closed
  /\ Append(Exited, "close") = ExitClosed
  /\ Head(Exited) = "exited" /\ Tail(Exited) = <<>>
  /\ Head(ExitClosed) = "exited" /\ Tail(ExitClosed) = Closed
  /\ Head(Closed) = "close" /\ Tail(Closed) = <<>>
<1>1. /\ Exited \in Seq(Messages) /\ Closed \in Seq(Messages)
      /\ Append(<<>>, "exited") = Exited /\ Append(<<>>, "close") = Closed
      /\ Head(Exited) = "exited" /\ Tail(Exited) = <<>> /\ Exited # <<>>
      /\ Head(Closed) = "close" /\ Tail(Closed) = <<>>
  <2>1. Append(<<>>, "exited") = Exited
    BY DEF Exited
  <2>2. Append(<<>>, "close") = Closed
    BY DEF Closed
  <2>3. Exited \in Seq(Messages) /\ Closed \in Seq(Messages) /\ Exited # <<>>
    <3>1. <<>> \in Seq(Messages) /\ "exited" \in Messages /\ "close" \in Messages
      BY DEF Messages
    <3> QED
      BY <2>1, <2>2, <3>1, AppendProperties, ZenonT(30)
  <2>4. Head(Exited) = "exited" /\ Tail(Exited) = <<>>
    BY DEF Exited
  <2>5. Head(Closed) = "close" /\ Tail(Closed) = <<>>
    BY DEF Closed
  <2> QED
    BY <2>1, <2>2, <2>3, <2>4, <2>5
<1>2. ExitClosed \in Seq(Messages) /\ Append(Exited, "close") = ExitClosed
  BY <1>1, AppendProperties DEF ExitClosed, Messages
<1>3. /\ Head(ExitClosed) = "exited"
      /\ Tail(ExitClosed) = Closed
  BY <1>1, HeadTailAppend DEF ExitClosed
<1> QED
  BY <1>1, <1>2, <1>3

\* What each state of the task allows.
LEMMA WireValues ==
  /\ Wire("returned") = {<<>>, Exited, Closed, ExitClosed}
  /\ Wire("ending") = {<<>>, Exited}
  /\ \A label \in Labels : label \notin {"ending", "returned"} => Wire(label) = {<<>>}
  BY DEF Wire

\* A session that moves on, with what is then in flight and said, leaves the others alone.
LEMMA SentMoves ==
  ASSUME Sent, NEW c \in Conns,
         task' \in [Conns -> Labels], lost' \in [Conns -> BOOLEAN],
         said' \in [Conns -> BOOLEAN], toPage' \in [Conns -> Seq(Messages)],
         \A d \in Conns \ {c} : /\ task'[d] = task[d] /\ said'[d] = said[d]
                               /\ toPage'[d] = toPage[d],
         toPage'[c] \in Wire(task'[c]), said'[c] => task'[c] \in {"ending", "returned"}
  PROVE  Sent'
<1>1. ASSUME NEW d \in Conns
      PROVE  toPage'[d] \in Wire(task'[d]) /\ (said'[d] => task'[d] \in {"ending", "returned"})
  BY <1>1 DEF Sent
<1> QED
  BY <1>1 DEF Sent, Wire

\* A session that moves on before its end has nothing in flight.
LEMMA SentGoes ==
  ASSUME Sent, NEW c \in Conns,
         NEW label \in {"spawning", "opened", "forked", "serving", "ending"},
         Goto(c, label), UNCHANGED <<lost, said, toPage>>,
         task[c] \in {"none", "spawning", "opened", "forked", "serving"}
  PROVE  Sent'
<1>1. toPage[c] = <<>> /\ ~said[c]
  BY WireValues DEF Sent
<1>2. task' = [task EXCEPT ![c] = label]
  BY DEF Goto
<1>3. label \in Labels
  BY DEF Labels
<1>4. <<>> \in Wire(label)
  BY <1>3, WireValues
<1>5. /\ task' \in [Conns -> Labels] /\ task'[c] = label
      /\ \A d \in Conns \ {c} : task'[d] = task[d]
  BY <1>2, <1>3 DEF Sent
<1> QED
  BY <1>1, <1>4, <1>5, SentMoves DEF Sent

\* A session that returns closes its socket, after the exit message if it was sent.
LEMMA SentEnds ==
  ASSUME Sent, NEW c \in Conns, Goto(c, "returned"), Close(c), UNCHANGED <<lost, said>>,
         task[c] \in {"opened", "ending"}
  PROVE  Sent'
<1>1. toPage[c] \in {<<>>, Exited}
  BY WireValues DEF Sent
<1>2. /\ task' \in [Conns -> Labels] /\ task'[c] = "returned"
      /\ \A d \in Conns \ {c} : task'[d] = task[d]
  <2>1. task' = [task EXCEPT ![c] = "returned"]
    BY DEF Goto
  <2> QED
    BY <2>1 DEF Sent, Labels
<1>3. Append(toPage[c], "close") \in {Closed, ExitClosed}
  BY <1>1, WireFacts
<1>4. toPage' = toPage \/ toPage' = [toPage EXCEPT ![c] = Append(toPage[c], "close")]
  BY DEF Close
<1>5. /\ toPage' \in [Conns -> Seq(Messages)]
      /\ \A d \in Conns \ {c} : toPage'[d] = toPage[d]
      /\ toPage'[c] \in {<<>>, Exited, Closed, ExitClosed}
  BY <1>1, <1>3, <1>4, WireFacts, ZenonT(30) DEF Sent
<1>6. /\ lost' \in [Conns -> BOOLEAN] /\ said' \in [Conns -> BOOLEAN]
      /\ \A d \in Conns \ {c} : said'[d] = said[d]
      /\ toPage'[c] \in Wire(task'[c])
  BY <1>2, <1>5, WireValues DEF Sent
<1> QED
  BY <1>2, <1>5, <1>6, SentMoves

\* The exit message is the first, and only a session that serves sends it.
LEMMA SentReader ==
  ASSUME Sent, NEW c \in Conns, ReaderTells(c)
  PROVE  Sent'
<1>1. CASE task[c] = "serving"
  <2>1. toPage[c] = <<>>
    BY <1>1, WireValues DEF Sent
  <2>2. /\ task' = [task EXCEPT ![c] = "ending"] /\ UNCHANGED lost
        /\ said' = [said EXCEPT ![c] = ~lost[c]]
        /\ toPage' = toPage \/ toPage' = [toPage EXCEPT ![c] = Exited]
    BY <1>1, <2>1, WireFacts DEF ReaderTells, Goto, Sent
  <2>3. /\ toPage' \in [Conns -> Seq(Messages)]
        /\ \A d \in Conns \ {c} : toPage'[d] = toPage[d]
        /\ toPage'[c] \in {<<>>, Exited}
    BY <2>1, <2>2, WireFacts DEF Sent
  <2>4. /\ task' \in [Conns -> Labels] /\ task'[c] = "ending" /\ lost' \in [Conns -> BOOLEAN]
        /\ said' \in [Conns -> BOOLEAN]
        /\ \A d \in Conns \ {c} : task'[d] = task[d] /\ said'[d] = said[d]
    <3>1. task' \in [Conns -> Labels] /\ task'[c] = "ending"
      BY <2>2 DEF Sent, Labels
    <3>2. lost' \in [Conns -> BOOLEAN] /\ (~lost[c]) \in BOOLEAN
      BY <2>2 DEF Sent
    <3>3. said' \in [Conns -> BOOLEAN]
      BY <2>2, <3>2 DEF Sent
    <3>4. \A d \in Conns \ {c} : task'[d] = task[d] /\ said'[d] = said[d]
      BY <2>2 DEF Sent
    <3> QED
      BY <3>1, <3>2, <3>3, <3>4
  <2>5. toPage'[c] \in Wire(task'[c])
    BY <2>3, <2>4, WireValues
  <2> QED
    BY <2>3, <2>4, <2>5, SentMoves
<1>2. CASE task[c] # "serving"
  <2>1. UNCHANGED <<task, lost, toPage>> /\ said' = [said EXCEPT ![c] = FALSE]
    BY <1>2 DEF ReaderTells
  <2>2. /\ said' \in [Conns -> BOOLEAN] /\ ~said'[c]
        /\ \A d \in Conns \ {c} : said'[d] = said[d]
    BY <2>1 DEF Sent
  <2> QED
    BY <2>1, <2>2, SentMoves DEF Sent
<1> QED
  BY <1>1, <1>2

\* What is in flight, and what was said, fits the state of the task after every step.
LEMMA SentStays ==
  ASSUME Sent, [SystemNext]_allVars
  PROVE  Sent'
<1>1. CASE UNCHANGED <<task, lost, said, toPage>>
  BY <1>1 DEF Sent, Wire
<1>2. ASSUME NEW c \in Conns, PageTold(c)
      PROVE  Sent'
  <2>1. /\ UNCHANGED <<task, lost, said>> /\ Head(toPage[c]) = "exited"
        /\ toPage' = [toPage EXCEPT ![c] = Tail(@)] /\ toPage[c] # <<>>
    BY <1>2 DEF PageTold, serverVars
  <2>2. Tail(toPage[c]) \in Wire(task[c]) /\ Tail(toPage[c]) \in Seq(Messages)
    BY <2>1, WireFacts, SMTT(30) DEF Wire, Sent
  <2>3. /\ toPage' \in [Conns -> Seq(Messages)] /\ toPage'[c] = Tail(toPage[c])
        /\ \A d \in Conns \ {c} : toPage'[d] = toPage[d]
    BY <2>1, <2>2 DEF Sent
  <2> QED
    BY <2>1, <2>2, <2>3, SentMoves DEF Sent
<1>3. ASSUME NEW c \in Conns, Reset(c)
      PROVE  Sent'
  <2>1. /\ UNCHANGED <<task, said>> /\ lost' = [lost EXCEPT ![c] = TRUE]
        /\ toPage' = [toPage EXCEPT ![c] = <<>>]
    BY <1>3 DEF Reset, serverVars
  <2>2. /\ toPage' \in [Conns -> Seq(Messages)] /\ toPage'[c] = <<>>
        /\ \A d \in Conns \ {c} : toPage'[d] = toPage[d]
        /\ lost' \in [Conns -> BOOLEAN]
    BY <2>1 DEF Sent
  <2>3. <<>> \in Wire(task[c])
    BY WireValues DEF Sent
  <2> QED
    BY <2>1, <2>2, <2>3, SentMoves DEF Sent
<1>4. ASSUME NEW c \in Conns, Page(c)
      PROVE  Sent'
  <2>1. PageTold(c) \/ UNCHANGED <<task, lost, said, toPage>>
    BY <1>4 DEF Page, PageConnects, PageFetches, PageOpens, PageErrors, PageCloses, sysVars,
                serverVars, wireVars
  <2> QED
    BY <1>1, <1>2, <2>1
<1>5. ASSUME NEW c \in Conns, Server(c)
      PROVE  Sent'
  <2>1. CASE ReaderEof(c) \/ Waited(c) \/ Kill(c)
    BY <1>1, <2>1 DEF ReaderEof, Waited, Kill, wireVars
  <2>2. CASE OpenPty(c)
    BY <2>2, SentGoes DEF OpenPty, wireVars
  <2>3. CASE Fork(c)
    BY <2>3, SentGoes DEF Fork, wireVars
  <2>4. CASE SpawnReturns(c)
    BY <2>4, SentGoes DEF SpawnReturns, wireVars
  <2>5. CASE Notices(c)
    BY <2>5, SentGoes DEF Notices, wireVars
  <2>6. CASE SpawnFails(c) \/ Terminated(c)
    BY <2>6, SentEnds DEF SpawnFails, Terminated, Terminating
  <2>7. CASE ReaderTells(c)
    BY <2>7, SentReader
  <2> QED
    BY <1>5, <2>1, <2>2, <2>3, <2>4, <2>5, <2>6, <2>7 DEF Server
<1>6. ASSUME NEW c \in Conns, Upgrade(c) \/ CommandExits(c)
      PROVE  Sent'
  <2>1. CASE Upgrade(c)
    BY <2>1, SentGoes DEF Upgrade, wireVars
  <2>2. CASE CommandExits(c)
    BY <1>1, <2>2 DEF CommandExits, wireVars
  <2> QED
    BY <1>6, <2>1, <2>2
<1>7. CASE PageElse \/ JobStarts \/ UNCHANGED allVars
  BY <1>1, <1>7 DEF PageElse, JobStarts, allVars, sysVars, serverVars, wireVars
<1> QED
  BY <1>3, <1>4, <1>5, <1>6, <1>7 DEF SystemNext

\* A call that is live after a step of the page was live before or begins at a connection
\* without a session, and only a reset or the exit makes it close a socket it serves.
LEMMA ServedStays ==
  ASSUME TypeOK, Sent, Served, [SystemNext]_allVars
  PROVE  Served'
<1> SUFFICES ASSUME NEW c \in Conns, conns'[c].live, task'[c] # "none"
             PROVE  /\ conns'[c].stage # "fetch"
                    /\ conns'[c].stage = "closing" => lost'[c] \/ remoteExited'
  BY DEF Served, Is
<1> DEFINE Goal == /\ conns'[c].stage # "fetch"
                   /\ conns'[c].stage = "closing" => lost'[c] \/ remoteExited'
<1>t. conns \in [Conns -> [stage : Stages, retry : BOOLEAN, live : BOOLEAN, opened : BOOLEAN]]
  BY DEF TypeOK
<1>u. conns[c].live /\ task[c] # "none" =>
        /\ conns[c].stage # "fetch"
        /\ conns[c].stage = "closing" => lost[c] \/ remoteExited
  BY DEF Served, Is
<1>1. ASSUME conns'[c] = conns[c], task[c] # "none", lost[c] => lost'[c],
             remoteExited => remoteExited'
      PROVE  Goal
  BY <1>1, <1>u
<1>2. ASSUME NEW d \in Conns, Page(d)
      PROVE  Goal
  <2>1. UNCHANGED <<task, lost>>
    BY <1>2 DEF Page, PageConnects, PageFetches, PageOpens, PageTold, PageErrors, PageCloses,
                sysVars, serverVars, wireVars
  <2>2. CASE PageConnects(d)
    <3>1. c # d
      BY <2>1, <2>2 DEF PageConnects
    <3> QED
      BY <1>t, <2>2, <3>1 DEF PageConnects, Mount, ReconnectTimerFires, Connect
  <2>3. CASE PageFetches(d)
    <3>1. UNCHANGED remoteExited /\ (conns' = Freed(d) \/ conns' = At(d, "connecting"))
      BY <2>3 DEF PageFetches, FetchFails, FetchPasses, FetchRefused
    <3> QED
      BY <1>1, <1>t, <2>1, <3>1 DEF Freed, At, NoConn
  <2>4. CASE PageOpens(d)
    <3>1. /\ UNCHANGED remoteExited
          /\ \/ conns[d].live /\ conns' = [conns EXCEPT ![d].stage = "open", ![d].opened = TRUE]
             \/ ~conns[d].live /\ conns' = At(d, "closing")
      BY <2>4 DEF PageOpens, SocketOpens
    <3> QED
      BY <1>1, <1>t, <2>1, <3>1 DEF At
  <2>5. CASE PageTold(d)
    <3>1. remoteExited' /\ conns' = At(d, "closing")
      BY <2>5 DEF PageTold, ExitedArrives
    <3> QED
      BY <1>1, <1>t, <2>1, <3>1 DEF At
  <2>6. CASE PageErrors(d)
    <3>1. UNCHANGED remoteExited /\ conns' = At(d, "closing") /\ (lost[d] \/ task[d] = "none")
      BY <2>6 DEF PageErrors, SocketErrors, Broken
    <3> QED
      BY <1>1, <1>t, <2>1, <3>1 DEF At
  <2>7. CASE PageCloses(d)
    <3>1. UNCHANGED remoteExited /\ conns' = Freed(d)
      BY <2>7 DEF PageCloses, SocketCloses
    <3> QED
      BY <1>1, <1>t, <2>1, <3>1 DEF Freed, NoConn
  <2> QED
    BY <1>2, <2>2, <2>3, <2>4, <2>5, <2>6, <2>7 DEF Page
<1>3. ASSUME NEW d \in Conns, Server(d) \/ CommandExits(d)
      PROVE  Goal
  <2>1. UNCHANGED <<conns, remoteExited, lost>>
    BY <1>3 DEF Server, OpenPty, Fork, SpawnReturns, SpawnFails, Notices, ReaderEof, Waited,
                ReaderTells, Kill, Terminated, CommandExits, vars, wireVars
  <2>2. task'[c] # task[c] => task[c] # "none"
    BY <1>3 DEF Server, OpenPty, Fork, SpawnReturns, SpawnFails, Notices, ReaderEof, Waited,
                ReaderTells, Kill, Terminated, Terminating, CommandExits, Goto, Sent
  <2> QED
    BY <1>1, <2>1, <2>2
<1>4. ASSUME NEW d \in Conns, Upgrade(d)
      PROVE  Goal
  <2>1. UNCHANGED <<conns, remoteExited, lost>> /\ task' = [task EXCEPT ![d] = "spawning"]
        /\ conns[d].stage = "connecting"
    BY <1>4 DEF Upgrade, vars, wireVars, Goto, Is
  <2> QED
    BY <1>1, <2>1 DEF Sent
<1>5. ASSUME NEW d \in Conns, Reset(d)
      PROVE  Goal
  <2>1. UNCHANGED <<conns, remoteExited, task>> /\ lost' = [lost EXCEPT ![d] = TRUE]
    BY <1>5 DEF Reset, vars, serverVars
  <2> QED
    BY <1>1, <2>1 DEF Sent
<1>6. CASE PageElse
  <2>1. UNCHANGED <<task, lost, remoteExited>> /\ (conns' = CloseRef \/ conns' = conns)
    BY <1>6 DEF PageElse, Unmount, NoticeTimerFires, sysVars, serverVars, wireVars
  <2> QED
    BY <1>1, <2>1, <1>t DEF CloseRef
<1>7. CASE JobStarts \/ UNCHANGED allVars
  BY <1>1, <1>7 DEF JobStarts, allVars, vars, sysVars, serverVars, wireVars
<1> QED
  BY <1>2, <1>3, <1>4, <1>5, <1>6, <1>7 DEF SystemNext

\* An exit message that was sent stays on its way until its page handles it.
LEMMA ExitTravelsOn ==
  ASSUME TypeOK, Sent, ExitTravels, [SystemNext]_allVars
  PROVE  ExitTravels'
<1> SUFFICES ASSUME NEW c \in Conns, conns'[c].live, said'[c], ~lost'[c]
             PROVE  toPage'[c] \in {Exited, ExitClosed} \/ conns'[c].stage = "closing"
  BY DEF ExitTravels, Is, Exited, ExitClosed
<1> DEFINE Goal == toPage'[c] \in {Exited, ExitClosed} \/ conns'[c].stage = "closing"
<1>t. conns \in [Conns -> [stage : Stages, retry : BOOLEAN, live : BOOLEAN, opened : BOOLEAN]]
  BY DEF TypeOK
<1>u. conns[c].live /\ said[c] /\ ~lost[c] =>
        toPage[c] \in {Exited, ExitClosed} \/ conns[c].stage = "closing"
  BY DEF ExitTravels, Is
<1>s. said[c] => task[c] \in {"ending", "returned"}
  BY DEF Sent
<1>1. ASSUME conns'[c] = conns[c], said'[c] => said[c], lost[c] => lost'[c],
             toPage'[c] = toPage[c]
      PROVE  Goal
  BY <1>1, <1>u
<1>2. ASSUME NEW d \in Conns, Page(d)
      PROVE  Goal
  <2>1. UNCHANGED <<task, lost, said>> /\ (PageTold(d) \/ UNCHANGED toPage)
    BY <1>2 DEF Page, PageConnects, PageFetches, PageOpens, PageErrors, PageCloses, PageTold,
                sysVars, serverVars, wireVars
  <2>2. CASE PageConnects(d)
    <3>1. c # d
      BY <1>s, <2>1, <2>2 DEF PageConnects
    <3> QED
      BY <1>t, <2>2, <3>1 DEF PageConnects, Mount, ReconnectTimerFires, Connect
  <2>3. CASE PageFetches(d)
    <3>1. /\ conns' = Freed(d) \/ conns' = At(d, "connecting")
          /\ conns[d].stage = "fetch" /\ UNCHANGED toPage
      BY <2>3 DEF PageFetches, FetchFails, FetchPasses, FetchRefused, Is, sysVars, wireVars
    <3> QED
      BY <1>u, <1>t, <2>1, <3>1 DEF Freed, At, NoConn
  <2>4. CASE PageOpens(d)
    <3>1. /\ conns[d].stage = "connecting" /\ UNCHANGED toPage
          /\ \/ conns[d].live /\ conns' = [conns EXCEPT ![d].stage = "open", ![d].opened = TRUE]
             \/ ~conns[d].live /\ conns' = At(d, "closing")
      BY <2>4 DEF PageOpens, SocketOpens, Is, sysVars, wireVars
    <3> QED
      BY <1>u, <1>t, <2>1, <3>1 DEF At
  <2>5. CASE PageTold(d)
    <3>1. conns' = At(d, "closing") /\ toPage' = [toPage EXCEPT ![d] = Tail(@)]
      BY <2>5 DEF PageTold, ExitedArrives
    <3> QED
      BY <1>u, <1>t, <2>1, <3>1 DEF At, Sent
  <2>6. CASE PageErrors(d)
    <3>1. conns' = At(d, "closing") /\ UNCHANGED toPage
      BY <2>6 DEF PageErrors, SocketErrors, sysVars, wireVars
    <3> QED
      BY <1>u, <1>t, <2>1, <3>1 DEF At
  <2>7. CASE PageCloses(d)
    <3>1. conns' = Freed(d) /\ UNCHANGED toPage
      BY <2>7 DEF PageCloses, SocketCloses, sysVars, wireVars
    <3> QED
      BY <1>u, <1>t, <2>1, <3>1 DEF Freed, NoConn
  <2> QED
    BY <1>2, <2>2, <2>3, <2>4, <2>5, <2>6, <2>7 DEF Page
<1>3. ASSUME NEW d \in Conns, ReaderTells(d)
      PROVE  Goal
  <2>1. UNCHANGED <<conns, lost>> /\ said' = [said EXCEPT ![d] = task[d] = "serving" /\ ~lost[d]]
        /\ toPage' = IF task[d] = "serving" /\ ~lost[d]
                     THEN [toPage EXCEPT ![d] = Append(@, "exited")] ELSE toPage
    BY <1>3 DEF ReaderTells, vars
  <2>2. CASE c = d
    <3>1. task[c] = "serving" /\ ~lost[c]
      BY <2>1, <2>2 DEF Sent
    <3>2. toPage[c] = <<>>
      BY <3>1, WireValues DEF Sent, Labels
    <3> QED
      BY <2>1, <2>2, <3>1, <3>2, WireFacts DEF Sent
  <2>3. CASE c # d
    BY <1>1, <2>1, <2>3 DEF Sent
  <2> QED
    BY <2>2, <2>3
<1>4. ASSUME NEW d \in Conns, SpawnFails(d) \/ Terminated(d)
      PROVE  Goal
  <2>1. UNCHANGED <<conns, lost, said>> /\ Close(d) /\ task[d] \in {"opened", "ending"}
    BY <1>4 DEF SpawnFails, Terminated, Terminating, vars
  <2>2. CASE c = d
    <3>1. task[c] = "ending" /\ toPage[c] \in {<<>>, Exited}
      BY <1>s, <2>1, <2>2, WireValues DEF Sent
    <3>2. conns[c].stage = "closing" \/ toPage[c] = Exited
      BY <1>u, <2>1, <3>1, WireFacts
    <3>3. toPage' = [toPage EXCEPT ![c] = Append(toPage[c], "close")]
      BY <2>1, <2>2 DEF Close
    <3> QED
      BY <2>1, <3>2, <3>3, WireFacts DEF Sent
  <2>3. CASE c # d
    <3>1. toPage'[c] = toPage[c]
      BY <2>1, <2>3 DEF Close, Sent
    <3> QED
      BY <1>1, <2>1, <3>1
  <2> QED
    BY <2>2, <2>3
<1>5. ASSUME NEW d \in Conns, Server(d) \/ CommandExits(d) \/ Upgrade(d)
      PROVE  Goal
  <2>1. \/ ReaderTells(d) \/ SpawnFails(d) \/ Terminated(d)
        \/ UNCHANGED <<conns, lost, said, toPage>>
    BY <1>5 DEF Server, OpenPty, Fork, SpawnReturns, Notices, ReaderEof, Waited, Kill, Upgrade,
                CommandExits, vars, wireVars
  <2> QED
    BY <1>1, <1>3, <1>4, <2>1
<1>6. ASSUME NEW d \in Conns, Reset(d)
      PROVE  Goal
  <2>1. /\ UNCHANGED <<conns, said>> /\ lost' = [lost EXCEPT ![d] = TRUE]
        /\ toPage' = [toPage EXCEPT ![d] = <<>>]
    BY <1>6 DEF Reset, vars
  <2> QED
    BY <1>1, <2>1 DEF Sent
<1>7. CASE PageElse
  <2>1. UNCHANGED <<toPage, lost, said>> /\ (conns' = CloseRef \/ conns' = conns)
    BY <1>7 DEF PageElse, Unmount, NoticeTimerFires, sysVars, wireVars
  <2> QED
    BY <1>1, <2>1, <1>t, ZenonT(30) DEF CloseRef
<1>8. CASE JobStarts \/ UNCHANGED allVars
  BY <1>1, <1>8 DEF JobStarts, allVars, vars, sysVars, wireVars
<1> QED
  BY <1>2, <1>5, <1>6, <1>7, <1>8 DEF SystemNext

-----------------------------------------------------------------------------
\* SystemInv holds in every state.
THEOREM SystemInvariant == SystemSpec => []SystemInv
<1>1. SystemInit => SystemInv
  <2> SUFFICES ASSUME SystemInit PROVE SystemInv
    OBVIOUS
  <2>1. Sent
    <3>1. \A c \in Conns : task[c] = "none" /\ ~said[c] /\ toPage[c] = <<>>
      BY DEF SystemInit
    <3>2. <<>> \in Seq(Messages) /\ Wire("none") = {<<>>}
      BY WireValues DEF Labels
    <3>3. task \in [Conns -> Labels] /\ lost \in [Conns -> BOOLEAN] /\ said \in [Conns -> BOOLEAN]
          /\ toPage \in [Conns -> Seq(Messages)]
      BY <3>2 DEF SystemInit, Labels
    <3> QED
      BY <3>1, <3>2, <3>3 DEF Sent
  <2>2. Served /\ ExitTravels
    BY DEF SystemInit, Served, ExitTravels
  <2> QED
    BY <2>1, <2>2 DEF SystemInv
<1>2. TypeOK /\ SystemInv /\ [SystemNext]_allVars => SystemInv'
  BY SentStays, ServedStays, ExitTravelsOn DEF SystemInv
<1>3. BrowserInv => TypeOK
  BY DEF BrowserInv
<1> QED
  BY <1>1, <1>2, <1>3, SystemImplementsBrowser, BrowserInvariant, PTL DEF SystemSpec

\* RestartOnlyAfterLoss: the page starts the command again after its exit only if the
\* exit message was lost in a reset.
THEOREM NoNeedlessRestart == SystemSpec => RestartOnlyAfterLoss
<1> DEFINE Quiet(c) == ~reconnectTimer' /\ LiveConns' \subseteq {c}
<1>1. ASSUME BrowserInv, SystemInv, [SystemNext]_allVars, NEW c \in Conns,
             said[c], ~lost[c], conns[c].live
      PROVE  Quiet(c)
  <2>t. conns \in [Conns -> [stage : Stages, retry : BOOLEAN, live : BOOLEAN, opened : BOOLEAN]]
    BY <1>1 DEF BrowserInv, TypeOK
  <2>u. /\ mounted /\ ~reconnectTimer /\ conns[c].stage # "fetch"
        /\ \A d \in Conns : conns[d].live => d = c
    BY <1>1 DEF BrowserInv, Calls, SystemInv, Sent, Served, Is
  <2>s. /\ conns[c].stage = "closing" => remoteExited
        /\ conns[c].stage = "closing" \/ toPage[c] \in {Exited, ExitClosed}
        /\ task[c] # "none"
    BY <1>1 DEF SystemInv, Sent, Served, ExitTravels, Is
  <2>1. ASSUME UNCHANGED reconnectTimer \/ ~reconnectTimer',
               \A d \in Conns : conns'[d].live => conns[d].live
        PROVE  Quiet(c)
    BY <2>1, <2>u DEF LiveConns
  <2>2. ASSUME NEW d \in Conns, Page(d)
        PROVE  Quiet(c)
    <3>1. CASE PageConnects(d)
      BY <2>u, <3>1 DEF PageConnects, Mount, ReconnectTimerFires
    <3>2. CASE PageFetches(d)
      <4>1. UNCHANGED reconnectTimer \/ (conns[d].live /\ conns[d].stage = "fetch")
        BY <3>2 DEF PageFetches, FetchFails, FetchPasses, FetchRefused, Is, refVars
      <4>2. conns' = Freed(d) \/ conns' = At(d, "connecting")
        BY <3>2 DEF PageFetches, FetchFails, FetchPasses, FetchRefused
      <4> QED
        BY <2>1, <2>t, <2>u, <4>1, <4>2 DEF Freed, At, NoConn
    <3>3. CASE PageOpens(d) \/ PageTold(d) \/ PageErrors(d)
      <4>1. UNCHANGED reconnectTimer
        BY <3>3 DEF PageOpens, PageTold, PageErrors, SocketOpens, ExitedArrives, SocketErrors,
                    refVars
      <4>2. \/ conns' = At(d, "closing")
            \/ conns' = [conns EXCEPT ![d].stage = "open", ![d].opened = TRUE]
        BY <3>3 DEF PageOpens, PageTold, PageErrors, SocketOpens, ExitedArrives, SocketErrors
      <4> QED
        BY <2>1, <2>t, <4>1, <4>2 DEF At
    <3>4. CASE PageCloses(d)
      <4>1. conns' = Freed(d) /\ (~conns[d].live \/ remoteExited => UNCHANGED reconnectTimer)
        BY <3>4 DEF PageCloses, SocketCloses
      <4>2. conns[d].live => remoteExited
        <5> SUFFICES ASSUME conns[d].live, conns[d].stage # "closing" PROVE FALSE
          BY <2>s, <2>u
        <5>1. d = c /\ toPage[c] \in {Exited, ExitClosed}
          BY <2>s, <2>u
        <5>2. Head(toPage[c]) = "close"
          BY <1>1, <2>s, <3>4, <5>1 DEF PageCloses, Broken, Is
        <5> QED
          BY <5>1, <5>2, WireFacts
      <4> QED
        BY <2>1, <2>t, <4>1, <4>2 DEF Freed, NoConn
    <3> QED
      BY <2>2, <3>1, <3>2, <3>3, <3>4 DEF Page
  <2>3. ASSUME NEW d \in Conns, Server(d) \/ Upgrade(d) \/ CommandExits(d) \/ Reset(d)
        PROVE  Quiet(c)
    <3>1. UNCHANGED <<conns, reconnectTimer>>
      BY <2>3 DEF Server, OpenPty, Fork, SpawnReturns, SpawnFails, Notices, ReaderEof, Waited,
                  ReaderTells, Kill, Terminated, Upgrade, CommandExits, Reset, vars
    <3> QED
      BY <2>1, <3>1
  <2>4. CASE PageElse
    <3>1. UNCHANGED reconnectTimer \/ ~reconnectTimer'
      BY <2>4 DEF PageElse, Unmount, NoticeTimerFires, refVars
    <3>2. conns' = CloseRef \/ conns' = conns
      BY <2>4 DEF PageElse, Unmount, NoticeTimerFires
    <3> QED
      BY <2>1, <2>t, <3>1, <3>2, ZenonT(30) DEF CloseRef
  <2>5. CASE JobStarts \/ UNCHANGED allVars
    BY <2>1, <2>5 DEF JobStarts, allVars, vars
  <2> QED
    BY <1>1, <2>2, <2>3, <2>4, <2>5 DEF SystemNext
<1>2. BrowserInv /\ SystemInv /\ [SystemNext]_allVars =>
        [\A c \in Conns : said[c] /\ ~lost[c] /\ conns[c].live => Quiet(c)]_allVars
  BY <1>1
<1> QED
  BY <1>2, SystemImplementsBrowser, BrowserInvariant, SystemInvariant, PTL
  DEF SystemSpec, RestartOnlyAfterLoss
=============================================================================
