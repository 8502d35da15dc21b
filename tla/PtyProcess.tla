------------------------------ MODULE PtyProcess ------------------------------
(***************************************************************************)
(* The PTY child process of crates/terminald-pty/src/process.rs: the       *)
(* process group it leads, and the threads that terminate it, clean it up  *)
(* on drop and wait for it.                                                *)
(*                                                                         *)
(* The server side is one `Child' behind a mutex (lock), one swap-once     *)
(* flag (cleanupStarted) and up to three threads (pc): the blocking task   *)
(* of PtyProcess::terminate, the detached thread of Drop, and the blocking *)
(* task of PtyHandle::wait.  The mutex is held across the blocking wait(). *)
(*                                                                         *)
(* The rest is the kernel and the programs the shell runs, which the       *)
(* repository does not contain: processes fork, exit, leave the group,     *)
(* close the terminal or change user whenever they like.                   *)
(***************************************************************************)
EXTENDS Integers, FiniteSets

CONSTANTS Leader,     \* the direct child: session leader and group leader
          Members,    \* the other processes that may come to exist below it
          Jobs,       \* members a job-control shell starts in their own group
          Detaching,  \* processes that may close every terminal descriptor
          Elevating,  \* processes that may exec a set-uid program (sudo)
          Codes       \* exit codes

Procs == {Leader} \cup Members

ASSUME LeaderAssumption == Leader \notin Members
ASSUME SetsAssumption == /\ Jobs \subseteq Members
                         /\ Detaching \subseteq Procs
                         /\ Elevating \subseteq Procs
ASSUME CodesAssumption == Codes \subseteq Nat

VARIABLES status,         \* unborn, running, zombie (unreaped leader), gone
          job,            \* processes outside the leader's process group
          tty,            \* processes that hold the slave side open
          foreign,        \* processes the server's user may not signal
          warned,         \* processes SIGTERM was delivered to
          killed,         \* processes SIGKILL was delivered to
          waitStatus,     \* what wait() returns for the leader
          cleanupStarted, \* PtyHandle::cleanup_started
          owner,          \* whether the PtyProcess value is still owned
          lock,           \* the holder of the child mutex
          pc              \* where each thread is

procVars   == <<status, job, tty, foreign, waitStatus>>
sentVars   == <<warned, killed>>
serverVars == <<cleanupStarted, owner, lock, pc>>
ptyVars    == <<status, job, tty, foreign, warned, killed, waitStatus,
                cleanupStarted, owner, lock, pc>>

Cleaners == {"terminate", "drop"}
Threads  == Cleaners \cup {"wait"}
Free     == "free"

InLock   == {"check", "term", "grace", "killReaped", "killAlive", "reap"}
Final    == {"skipped", "already", "failed", "done"}
Labels   == {"idle", "lock"} \cup InLock \cup Final

Exited(c) == [exited |-> TRUE, code |-> c]
Signalled == [exited |-> FALSE, code |-> 9]
NoStatus  == [exited |-> FALSE, code |-> 0]

Spawned     == status[Leader] # "unborn"
Waitable    == status[Leader] \in {"zombie", "gone"}
Reaped      == [status EXCEPT ![Leader] = "gone"]
InGroup     == {p \in Procs \ job : status[p] \in {"running", "zombie"}}
Running     == {p \in Procs : status[p] = "running"}
Live        == Running \ killed

-----------------------------------------------------------------------------
(* The processes. *)

\* spawn_blocking and child_setup: the leader is born with a session, a
\* process group and the terminal of its own.
Spawn ==
  /\ ~Spawned
  /\ status' = [status EXCEPT ![Leader] = "running"]
  /\ tty' = {Leader}
  /\ UNCHANGED <<job, foreign, waitStatus>>
  /\ UNCHANGED sentVars /\ UNCHANGED serverVars

\* A child inherits the group, the user and, openpty's descriptors not being
\* close-on-exec, the terminal.  A shell may give it a group of its own.  The
\* kernel fails the fork of a process with a fatal signal pending.
Fork(p, q) ==
  /\ p \in Live
  /\ status[q] = "unborn" /\ q # Leader
  /\ status' = [status EXCEPT ![q] = "running"]
  /\ \/ job' = IF p \in job THEN job \cup {q} ELSE job
     \/ q \in Jobs /\ job' = job \cup {q}
  /\ tty' = IF p \in tty THEN tty \cup {q} ELSE tty
  /\ foreign' = IF p \in foreign THEN foreign \cup {q} ELSE foreign
  /\ UNCHANGED waitStatus
  /\ UNCHANGED sentVars /\ UNCHANGED serverVars

\* The leader stays a zombie until the server waits for it; any other process
\* is reaped by its own parent.
Exit(p) ==
  /\ p \in Running
  /\ status' = [status EXCEPT ![p] = IF p = Leader THEN "zombie" ELSE "gone"]
  /\ tty' = tty \ {p}
  /\ IF p # Leader THEN UNCHANGED waitStatus
     ELSE \/ waitStatus' = Signalled
          \/ p \notin killed /\ \E c \in Codes : waitStatus' = Exited(c)
  /\ UNCHANGED <<job, foreign>>
  /\ UNCHANGED sentVars /\ UNCHANGED serverVars

CloseTty(p) ==
  /\ p \in Live \cap Detaching \cap tty
  /\ tty' = tty \ {p}
  /\ UNCHANGED <<status, job, foreign, waitStatus>>
  /\ UNCHANGED sentVars /\ UNCHANGED serverVars

Elevate(p) ==
  /\ p \in Live \cap Elevating
  /\ foreign' = foreign \cup {p}
  /\ UNCHANGED <<status, job, tty, waitStatus>>
  /\ UNCHANGED sentVars /\ UNCHANGED serverVars

-----------------------------------------------------------------------------
(* The threads. *)

Goto(t, label)    == pc' = [pc EXCEPT ![t] = label] /\ UNCHANGED lock
\* (mutant) An early return that keeps the guard alive.
FinishHolding(t, result) == pc' = [pc EXCEPT ![t] = result] /\ UNCHANGED lock
Finish(t, result) == pc' = [pc EXCEPT ![t] = result] /\ lock' = Free

\* kill(-child_id, signal): it reaches the members the server may signal, an
\* empty group (ESRCH) is success, and it fails (EPERM) when the group has
\* members and the server may signal none of them.
Permitted       == InGroup \ foreign
SignalForbidden == InGroup # {} /\ Permitted = {}
\* (mutant) kill(child_id) for kill(-child_id), as Drop once did.
SignalLeaderOnly == Permitted \cap Running \cap {Leader}
SignalReaches   == Permitted \cap Running

\* PtyProcess::terminate: the first cleanup to swap the flag does the work.
StartTerminate ==
  /\ Spawned /\ owner = "live" /\ pc["terminate"] = "idle"
  /\ Goto("terminate", IF cleanupStarted THEN "skipped" ELSE "lock")
  /\ cleanupStarted' = TRUE
  /\ UNCHANGED owner /\ UNCHANGED procVars /\ UNCHANGED sentVars

\* (mutant) Drop that cleans up without asking the flag.
StartDropAgain ==
  /\ Spawned /\ owner = "live"
  /\ owner' = "dropped"
  /\ Goto("drop", "lock")
  /\ cleanupStarted' = TRUE
  /\ UNCHANGED procVars /\ UNCHANGED sentVars

\* Drop: the same, on a detached thread; a thread that cannot be created is
\* ignored, and the flag stays set.
StartDrop ==
  /\ Spawned /\ owner = "live"
  /\ owner' = "dropped"
  /\ IF cleanupStarted THEN Goto("drop", "skipped")
     ELSE Goto("drop", "lock") \/ Goto("drop", "failed")
  /\ cleanupStarted' = TRUE
  /\ UNCHANGED procVars /\ UNCHANGED sentVars

\* PtyHandle::wait, on a handle that may outlive the PtyProcess.
StartWait ==
  /\ Spawned /\ pc["wait"] = "idle"
  /\ Goto("wait", "lock")
  /\ UNCHANGED <<cleanupStarted, owner>> /\ UNCHANGED procVars /\ UNCHANGED sentVars

\* (mutant) wait() on the child without its mutex.
AcquireUnlessWait(t) ==
  /\ pc[t] = "lock" /\ (lock = Free \/ t = "wait")
  /\ lock' = IF t = "wait" THEN lock ELSE t
  /\ pc' = [pc EXCEPT ![t] = IF t \in Cleaners THEN "check" ELSE "reap"]
  /\ UNCHANGED <<cleanupStarted, owner>> /\ UNCHANGED procVars /\ UNCHANGED sentVars

Acquire(t) ==
  /\ pc[t] = "lock" /\ lock = Free
  /\ lock' = t
  /\ pc' = [pc EXCEPT ![t] = IF t \in Cleaners THEN "check" ELSE "reap"]
  /\ UNCHANGED <<cleanupStarted, owner>> /\ UNCHANGED procVars /\ UNCHANGED sentVars

\* try_wait() before any signal: a leader that has exited is reaped and the
\* cleanup returns, signalling nobody.
Check(t) ==
  /\ pc[t] = "check"
  /\ IF Waitable THEN status' = Reaped /\ Finish(t, "already")
                 ELSE UNCHANGED status /\ Goto(t, "term")
  /\ UNCHANGED <<job, tty, foreign, waitStatus, cleanupStarted, owner>>
  /\ UNCHANGED sentVars

SendTerm(t) ==
  /\ pc[t] = "term"
  /\ IF SignalForbidden THEN UNCHANGED warned /\ Finish(t, "failed")
     ELSE warned' = warned \cup SignalReaches /\ Goto(t, "grace")
  /\ UNCHANGED <<killed, cleanupStarted, owner>> /\ UNCHANGED procVars

\* wait_for_child_exit_blocking polls try_wait until the leader has exited...
GraceExit(t) ==
  /\ pc[t] = "grace" /\ Waitable
  /\ status' = Reaped
  /\ Goto(t, "killReaped")
  /\ UNCHANGED <<job, tty, foreign, waitStatus, cleanupStarted, owner>>
  /\ UNCHANGED sentVars

\* (mutant) A grace period that ends in the wait, without the SIGKILL.
GraceExpiresIntoWait(t) ==
  /\ pc[t] = "grace" /\ ~Waitable
  /\ Goto(t, "reap")
  /\ UNCHANGED <<cleanupStarted, owner>> /\ UNCHANGED procVars /\ UNCHANGED sentVars

\* ... or the grace period is over and the last poll found it running.
GraceExpires(t) ==
  /\ pc[t] = "grace" /\ ~Waitable
  /\ Goto(t, "killAlive")
  /\ UNCHANGED <<cleanupStarted, owner>> /\ UNCHANGED procVars /\ UNCHANGED sentVars

\* (mutant) SIGKILL as the last step, with no wait after it.
SendKillAndLeave(t) ==
  /\ pc[t] \in {"killReaped", "killAlive"}
  /\ IF SignalForbidden THEN UNCHANGED killed /\ Finish(t, "failed")
     ELSE killed' = killed \cup SignalReaches /\ Finish(t, "done")
  /\ UNCHANGED <<warned, cleanupStarted, owner>> /\ UNCHANGED procVars

\* SIGKILL goes to the group in both cases, also after the leader is reaped.
SendKill(t) ==
  /\ pc[t] \in {"killReaped", "killAlive"}
  /\ IF SignalForbidden THEN UNCHANGED killed /\ Finish(t, "failed")
     ELSE /\ killed' = killed \cup SignalReaches
          /\ IF pc[t] = "killAlive" THEN Goto(t, "reap") ELSE Finish(t, "done")
  /\ UNCHANGED <<warned, cleanupStarted, owner>> /\ UNCHANGED procVars

\* Child::wait(), with the mutex held.
Reap(t) ==
  /\ pc[t] = "reap" /\ Waitable
  /\ status' = Reaped
  /\ Finish(t, "done")
  /\ UNCHANGED <<job, tty, foreign, waitStatus, cleanupStarted, owner>>
  /\ UNCHANGED sentVars

-----------------------------------------------------------------------------
PtyInit ==
  /\ status = [p \in Procs |-> "unborn"]
  /\ job = {} /\ tty = {} /\ foreign = {}
  /\ warned = {} /\ killed = {}
  /\ waitStatus = NoStatus
  /\ cleanupStarted = FALSE /\ owner = "live"
  /\ lock = Free
  /\ pc = [t \in Threads |-> "idle"]

Environment ==
  \/ \E p, q \in Procs : Fork(p, q)
  \/ \E p \in Procs : Exit(p)
  \/ \E p \in Procs : CloseTty(p)
  \/ \E p \in Procs : Elevate(p)

Work(t) ==
  \/ Acquire(t) \/ Check(t) \/ SendTerm(t) \/ GraceExit(t) \/ GraceExpires(t)
  \/ SendKill(t) \/ Reap(t)

PtyNext ==
  \/ Spawn \/ Environment
  \/ StartTerminate \/ StartDrop \/ StartWait
  \/ \E t \in Threads : Work(t)

PtySpec == PtyInit /\ [][PtyNext]_ptyVars

\* Threads run, the grace period passes, and the kernel acts on SIGKILL.
PtyFairness ==
  /\ \A t \in Threads : WF_ptyVars(Work(t))
  /\ \A p \in Procs : WF_ptyVars(p \in killed /\ Exit(p))

PtyFairSpec == PtySpec /\ PtyFairness

-----------------------------------------------------------------------------
(* What makes it correct. *)

\* The child mutex is held by exactly the thread that is between taking it
\* and returning: every early return of the cleanup releases it.
MutexHeld ==
  \A t \in Threads : (lock = t) <=> (pc[t] \in InLock)

\* SIGTERM is sent only while the direct child is unreaped, so that its
\* process id still names it: no wait() slips in between the try_wait that
\* found it running and the kill.
TermWhileOwned ==
  \A t \in Threads : pc[t] \in {"term", "killAlive"} => status[Leader] # "gone"

\* terminate and Drop share one cleanup: at most one of them ever signals.
OneCleanup ==
  pc["terminate"] \in {"idle", "skipped"} \/ pc["drop"] \in {"idle", "skipped"}

\* Once a cleanup has sent its SIGKILL nothing of the group stays alive: every
\* member still running is being killed or is out of the server's reach, and
\* no member forked on the way escapes.
NoSurvivors ==
  \A t \in Cleaners : pc[t] \in {"reap", "done"} =>
    Running \ job \subseteq killed \cup foreign

\* A thread that reports success, whatever the other threads did meanwhile,
\* leaves no zombie.
FinishedMeansReaped ==
  \A t \in Threads : pc[t] \in {"already", "done"} => status[Leader] = "gone"

\* A cleanup that has the child mutex ends: the SIGKILL after the grace
\* period bounds the wait, however the group treats SIGTERM, unless the leader
\* became another user's while the rest of its group did not.
CleanupCompletes ==
  \A t \in Cleaners : (pc[t] = "check") ~> (pc[t] \in Final \/ Leader \in foreign)

\* docs/superpowers/specs/2026-06-29-structural-reliability-optimizations-
\* design.md:12: cleanup consistently terminates the process
\* group, including children started by the shell, when the session ends.  The
\* code signals nobody when the shell itself has already exited.
GroupTerminated ==
  \A t \in Cleaners : pc[t] \in {"already", "done"} =>
    Running \ job \subseteq killed \cup foreign
=============================================================================
