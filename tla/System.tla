------------------------------- MODULE System -------------------------------
(***************************************************************************)
(* A page and the sessions it starts one after the other: BrowserApp above,*)
(* and on the server, for every connection, run_socket with its reader and *)
(* its command, and the pool of blocking threads (tokio's, which the       *)
(* sessions share) in which PtyProcess spawns, waits and cleans up.        *)
(*                                                                         *)
(* What Session shows of one session is one step here: the bytes, the      *)
(* channel, the mutex.  A command holds its terminal until it ends; what   *)
(* becomes of one that does not is in Session.  Typing, output and the     *)
(* terminal's size are left out.                                           *)
(***************************************************************************)
EXTENDS BrowserApp, Sequences

CONSTANT PoolSize \* the threads of the blocking pool
ASSUME PoolAssumption == PoolSize \in Nat \ {0}

VARIABLES task,    \* run_socket of each connection
          reader,  \* its reader task
          command, \* its command: none, running, zombie, reaped
          holders, \* the commands that hold its terminal open
          queue,   \* the jobs no thread has taken yet
          busy,    \* the jobs that occupy a thread
          toPage,  \* what is in flight to the page: exited, close
          lost,    \* the connection was reset
          said     \* history: the exit message was sent

jobVars    == <<queue, busy>>
serverVars == <<task, reader, command, holders, queue, busy>>
wireVars   == <<toPage, lost, said>>
sysVars    == <<serverVars, wireVars>>
allVars    == <<vars, sysVars>>

Job(c, kind) == [conn |-> c, kind |-> kind]
Queue(c, kind) == queue' = Append(queue, Job(c, kind)) /\ UNCHANGED busy
Leave(c, kind) == busy' = busy \ {Job(c, kind)} /\ UNCHANGED queue
Goto(c, label) == task' = [task EXCEPT ![c] = label]

-----------------------------------------------------------------------------
(* The page.  A connection that has had a session is not used again.         *)

PageConnects(c) == task[c] = "none" /\ (Mount(c) \/ ReconnectTimerFires(c)) /\ UNCHANGED sysVars

PageFetches(c) ==
  /\ FetchFails(c) \/ FetchPasses(c) \/ FetchRefused(c, "auth_required")
  /\ UNCHANGED sysVars

PageOpens(c) == task[c] # "none" /\ ~lost[c] /\ SocketOpens(c) /\ UNCHANGED sysVars

PageTold(c) ==
  /\ toPage[c] # <<>> /\ Head(toPage[c]) = "exited" /\ ExitedArrives(c)
  /\ toPage' = [toPage EXCEPT ![c] = Tail(@)]
  /\ UNCHANGED <<serverVars, lost, said>>

\* The network fails, or refuses what the server has not accepted yet.
Broken(c) == lost[c] \/ (Is(c, "connecting") /\ task[c] = "none")

PageErrors(c) == Broken(c) /\ SocketErrors(c) /\ UNCHANGED sysVars

PageCloses(c) ==
  /\ \/ Broken(c) \/ Is(c, "closing")
     \/ Is(c, "open") /\ toPage[c] # <<>> /\ Head(toPage[c]) = "close"
  /\ SocketCloses(c) /\ UNCHANGED sysVars

PageElse == (Unmount \/ NoticeTimerFires) /\ UNCHANGED sysVars

\* A reset: what is in flight is lost.
Reset(c) ==
  /\ task[c] # "none" /\ ~lost[c] /\ conns[c].stage \in {"connecting", "open"}
  /\ lost' = [lost EXCEPT ![c] = TRUE] /\ toPage' = [toPage EXCEPT ![c] = <<>>]
  /\ UNCHANGED <<vars, serverVars, said>>

-----------------------------------------------------------------------------
(* The pool, and PtyProcess::spawn in it. *)

JobStarts ==
  /\ queue # <<>> /\ Cardinality(busy) < PoolSize
  /\ busy' = busy \cup {Head(queue)} /\ queue' = Tail(queue)
  /\ UNCHANGED <<vars, task, reader, command, holders, wireVars>>

\* handle_socket, once the upgrade is answered.
Upgrade(c) ==
  /\ Is(c, "connecting") /\ task[c] = "none"
  /\ Goto(c, "spawning") /\ Queue(c, "spawn")
  /\ UNCHANGED <<vars, reader, command, holders, wireVars>>

OpenPty(c) ==
  /\ task[c] = "spawning" /\ Job(c, "spawn") \in busy /\ Goto(c, "opened")
  /\ UNCHANGED <<vars, reader, command, holders, jobVars, wireVars>>

\* The descriptors of openpty are inherited, and until its spawn() is over a
\* session has its slave open: every command forked meanwhile holds it too.
Fork(c) ==
  /\ task[c] = "opened" /\ Goto(c, "forked")
  /\ command' = [command EXCEPT ![c] = "running"]
  /\ holders' = [d \in Conns |-> IF task[d] \in {"opened", "forked"} THEN holders[d] \cup {c}
                                 ELSE holders[d]]
  /\ UNCHANGED <<vars, reader, jobVars, wireVars>>

SpawnReturns(c) ==
  /\ task[c] = "forked" /\ Goto(c, "serving") /\ Leave(c, "spawn")
  /\ reader' = [reader EXCEPT ![c] = "reading"]
  /\ UNCHANGED <<vars, command, holders, wireVars>>

Close(c) == toPage' = IF lost[c] THEN toPage ELSE [toPage EXCEPT ![c] = Append(@, "close")]

SpawnFails(c) ==
  /\ task[c] = "opened" /\ Goto(c, "returned") /\ Leave(c, "spawn") /\ Close(c)
  /\ UNCHANGED <<vars, reader, command, holders, lost, said>>

-----------------------------------------------------------------------------
(* Commands, and the reader task. *)

Ends(c) ==
  /\ command[c] = "running" /\ command' = [command EXCEPT ![c] = "zombie"]
  /\ holders' = [d \in Conns |-> holders[d] \ {c}]

CommandExits(c) == Ends(c) /\ UNCHANGED <<vars, task, reader, jobVars, wireVars>>

\* (mutant) A reader that waits for the command and reads its output afterwards.
ReaderWaitsAtOnce(c) ==
  /\ reader[c] = "reading" /\ reader' = [reader EXCEPT ![c] = "waiting"]
  /\ Queue(c, "wait")
  /\ UNCHANGED <<vars, task, command, holders, wireVars>>

ReaderEof(c) ==
  /\ reader[c] = "reading" /\ holders[c] = {}
  /\ reader' = [reader EXCEPT ![c] = "waiting"] /\ Queue(c, "wait")
  /\ UNCHANGED <<vars, task, command, holders, wireVars>>

\* wait() blocks until the command has ended, and keeps the child mutex.
Waited(c) ==
  /\ Job(c, "wait") \in busy /\ command[c] # "running" /\ Leave(c, "wait")
  /\ command' = [command EXCEPT ![c] = "reaped"] /\ reader' = [reader EXCEPT ![c] = "tell"]
  /\ UNCHANGED <<vars, task, holders, wireVars>>

\* (mutant) A driver that is over with its reader, and leaves the exit message unsent.
ReaderTellsNobody(c) ==
  /\ reader[c] = "tell" /\ reader' = [reader EXCEPT ![c] = "end"]
  /\ IF task[c] = "serving" THEN Goto(c, "ending") /\ Queue(c, "terminate")
                            ELSE UNCHANGED <<task, queue, busy>>
  /\ UNCHANGED <<vars, command, holders, wireVars>>

\* The exit message, which the driver sends if it still serves; it ends the loop.
ReaderTells(c) ==
  /\ reader[c] = "tell" /\ reader' = [reader EXCEPT ![c] = "end"]
  /\ LET sent == task[c] = "serving" /\ ~lost[c]
     IN  /\ toPage' = IF sent THEN [toPage EXCEPT ![c] = Append(@, "exited")] ELSE toPage
         /\ said' = [said EXCEPT ![c] = sent]
  /\ IF task[c] = "serving" THEN Goto(c, "ending") /\ Queue(c, "terminate")
                            ELSE UNCHANGED <<task, queue, busy>>
  /\ UNCHANGED <<vars, command, holders, lost>>

-----------------------------------------------------------------------------
(* The end of a session. *)

\* The driver is told of a close or a reset.
Notices(c) ==
  /\ task[c] = "serving" /\ (lost[c] \/ conns[c].stage \in {"closing", "free"})
  /\ Goto(c, "ending") /\ Queue(c, "terminate")
  /\ UNCHANGED <<vars, reader, command, holders, wireVars>>

\* The cleanup, which the task awaits, needs a thread, and the mutex, which a wait()
\* at work has.
Terminating(c) ==
  task[c] = "ending" /\ Job(c, "terminate") \in busy /\ Job(c, "wait") \notin busy

Kill(c) == Terminating(c) /\ Ends(c) /\ UNCHANGED <<vars, task, reader, jobVars, wireVars>>

Terminated(c) ==
  /\ Terminating(c) /\ command[c] # "running" /\ Leave(c, "terminate")
  /\ command' = [command EXCEPT ![c] = "reaped"]
  /\ Goto(c, "returned") /\ Close(c)
  /\ UNCHANGED <<vars, reader, holders, lost, said>>

-----------------------------------------------------------------------------
SystemInit ==
  /\ Init
  /\ task = [c \in Conns |-> "none"] /\ reader = [c \in Conns |-> "none"]
  /\ command = [c \in Conns |-> "none"] /\ holders = [c \in Conns |-> {}]
  /\ queue = <<>> /\ busy = {}
  /\ toPage = [c \in Conns |-> <<>>]
  /\ lost = [c \in Conns |-> FALSE] /\ said = [c \in Conns |-> FALSE]

Page(c)   == PageConnects(c) \/ PageFetches(c) \/ PageOpens(c) \/ PageTold(c) \/ PageErrors(c)
             \/ PageCloses(c)
Server(c) == \/ OpenPty(c) \/ Fork(c) \/ SpawnReturns(c) \/ SpawnFails(c) \/ Notices(c)
             \/ ReaderEof(c) \/ Waited(c) \/ ReaderTells(c) \/ Kill(c) \/ Terminated(c)

SystemNext ==
  \/ PageElse \/ JobStarts
  \/ \E c \in Conns : Page(c) \/ Server(c) \/ Upgrade(c) \/ CommandExits(c) \/ Reset(c)

SystemSpec == SystemInit /\ [][SystemNext]_allVars

\* Tasks run, threads take jobs, a cleanup ends what it may end, and the page's
\* events arrive.  No command has to end, no network to work and no user to act.
SystemFairSpec ==
  /\ SystemSpec
  /\ WF_allVars(JobStarts)
  /\ \A c \in Conns :
       /\ WF_allVars(OpenPty(c)) /\ WF_allVars(Fork(c) \/ SpawnFails(c))
       /\ WF_allVars(SpawnReturns(c)) /\ WF_allVars(Notices(c)) /\ WF_allVars(ReaderEof(c))
       /\ WF_allVars(Waited(c)) /\ WF_allVars(ReaderTells(c))
       /\ WF_allVars(Kill(c)) /\ WF_allVars(Terminated(c))
       /\ WF_allVars(PageOpens(c)) /\ WF_allVars(PageTold(c)) /\ WF_allVars(PageCloses(c))

-----------------------------------------------------------------------------
(* What makes it correct. *)

\* A session the page has left, or lost, ends with its command reaped, even while
\* every thread of the pool is at work: no job that holds a thread waits for a
\* command that has not ended, so cleanups get their turn.
CommandsEnd ==
  \A c \in Conns :
    (task[c] # "none" /\ (lost[c] \/ ~mounted)) ~>
      (task[c] = "returned" /\ command[c] \in {"none", "reaped"})

\* A command that has ended by itself, and whose terminal no other session's
\* command has inherited, makes the page say so, unless the connection is reset or
\* the page is left.
ExitReaches ==
  \A c \in Conns :
    (conns[c].live /\ task[c] = "serving" /\ command[c] # "running" /\ holders[c] = {}) ~>
      (connectionState.reason = "remote_exit" \/ lost[c] \/ ~mounted)

\* The command is started again after its exit only if the exit message was lost in a
\* reset: while the message is on its way or handled, neither the close that follows
\* it nor a timer makes the page connect again.
RestartOnlyAfterLoss ==
  [][\A c \in Conns : said[c] /\ ~lost[c] /\ conns[c].live =>
       ~reconnectTimer' /\ LiveConns' \subseteq {c}]_allVars
=============================================================================
