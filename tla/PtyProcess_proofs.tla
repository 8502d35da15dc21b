-------------------------- MODULE PtyProcess_proofs --------------------------
(***************************************************************************)
(* Proofs that the safety properties of PtyProcess hold for every set of   *)
(* members, whichever of them change group, terminal or user.  Together    *)
(* they are one inductive invariant: MutexHeld makes the check and the     *)
(* SIGTERM one step as far as the other threads can see, and NoSurvivors   *)
(* is kept by Fork because a process that may still fork after the SIGKILL *)
(* is one the server could not signal, and so is its child.                *)
(***************************************************************************)
EXTENDS PtyProcess, TLAPS

\* The types of the variables, and what the modelled kernel adds to them: no
\* process but the leader is left to the server to reap or to name a group by.
PtyTypeOK ==
  /\ status \in [Procs -> {"unborn", "running", "zombie", "gone"}]
  /\ \A p \in Members : status[p] # "zombie"
  /\ job \subseteq Members
  /\ tty \subseteq Procs /\ foreign \subseteq Procs
  /\ warned \subseteq Procs /\ killed \subseteq Procs
  /\ waitStatus \in [exited : BOOLEAN, code : Nat]
  /\ cleanupStarted \in BOOLEAN /\ owner \in {"live", "dropped"}
  /\ lock \in Threads \cup {Free}
  /\ pc \in [Threads -> Labels]

\* No thread runs before the child exists, or before the flag is set, and none
\* drops a value that is still owned.
Started ==
  /\ owner = "live" => pc["drop"] = "idle"
  /\ \A t \in Threads : pc[t] # "idle" => Spawned
  /\ \A t \in Cleaners : pc[t] # "idle" => cleanupStarted

\* The wait thread only ever waits, and SIGKILL follows the reaping.
Route ==
  /\ pc["wait"] \in {"idle", "lock", "reap", "done"}
  /\ \A t \in Threads : pc[t] = "killReaped" => status[Leader] = "gone"

PtyInv ==
  /\ PtyTypeOK
  /\ MutexHeld
  /\ TermWhileOwned
  /\ OneCleanup
  /\ NoSurvivors
  /\ FinishedMeansReaped
  /\ Started
  /\ Route
-----------------------------------------------------------------------------
\* Every step keeps the types: in particular nothing but the leader becomes a
\* zombie, and only members leave the group.
LEMMA PtyTyping ==
  ASSUME PtyTypeOK, [PtyNext]_ptyVars
  PROVE  PtyTypeOK'
<1> USE LeaderAssumption, SetsAssumption, CodesAssumption
    DEF PtyTypeOK, Procs, Threads, Cleaners, Labels, InLock, Final, Free,
        procVars, sentVars, serverVars, Goto, Finish
<1>1. CASE Spawn
  BY <1>1 DEF Spawn, Spawned
<1>2. ASSUME NEW p \in Procs, NEW q \in Procs, Fork(p, q) PROVE PtyTypeOK'
  BY <1>2 DEF Fork, Live, Running
<1>3. ASSUME NEW p \in Procs, Exit(p) PROVE PtyTypeOK'
  <2>1. waitStatus' \in [exited : BOOLEAN, code : Nat]
    <3>1. CASE waitStatus' = waitStatus
      BY <3>1
    <3>2. CASE waitStatus' = Signalled
      BY <3>2 DEF Signalled
    <3>3. ASSUME NEW c \in Codes, waitStatus' = Exited(c)
          PROVE  waitStatus' \in [exited : BOOLEAN, code : Nat]
      BY <3>3 DEF Exited
    <3> QED
      BY <1>3, <3>1, <3>2, <3>3 DEF Exit
  <2>2. /\ status' \in [Procs -> {"unborn", "running", "zombie", "gone"}]
        /\ \A m \in Members : status'[m] # "zombie"
    BY <1>3 DEF Exit, Running
  <2> QED
    BY <1>3, <2>1, <2>2 DEF Exit
<1>4. ASSUME NEW p \in Procs, CloseTty(p) \/ Elevate(p) PROVE PtyTypeOK'
  BY <1>4 DEF CloseTty, Elevate
<1>5. CASE StartTerminate \/ StartDrop \/ StartWait
  BY <1>5 DEF StartTerminate, StartDrop, StartWait
<1>6. ASSUME NEW t \in Threads, Work(t) PROVE PtyTypeOK'
  <2>1. CASE Acquire(t)
    BY <1>6, <2>1 DEF Acquire
  <2>2. CASE Check(t)
    BY <1>6, <2>2 DEF Check, Reaped
  <2>3. CASE SendTerm(t)
    BY <1>6, <2>3 DEF SendTerm, SignalReaches, Running
  <2>4. CASE GraceExit(t) \/ GraceExpires(t)
    BY <1>6, <2>4 DEF GraceExit, GraceExpires, Reaped
  <2>5. CASE SendKill(t)
    BY <1>6, <2>5 DEF SendKill, SignalReaches, Running
  <2>6. CASE Reap(t)
    BY <1>6, <2>6 DEF Reap, Reaped
  <2> QED
    BY <1>6, <2>1, <2>2, <2>3, <2>4, <2>5, <2>6 DEF Work
<1>7. CASE UNCHANGED ptyVars
  BY <1>7 DEF ptyVars
<1> QED
  BY <1>1, <1>2, <1>3, <1>4, <1>5, <1>6, <1>7 DEF PtyNext, Environment

-----------------------------------------------------------------------------
\* What the programs do disturbs no part of the invariant: a fork can only add
\* a survivor below a process that is itself out of the server's reach.
LEMMA EnvironmentStep ==
  ASSUME PtyInv, Environment
  PROVE  PtyInv'
<1>1. PtyTypeOK'
  BY PtyTyping DEF PtyInv, PtyNext
<1>2. UNCHANGED serverVars /\ UNCHANGED sentVars
  BY DEF Environment, Fork, Exit, CloseTty, Elevate
<1>3. /\ status[Leader] # "unborn" => status'[Leader] # "unborn"
      /\ (status'[Leader] = "gone") <=> (status[Leader] = "gone")
  BY DEF Environment, Fork, Exit, CloseTty, Elevate, PtyInv, PtyTypeOK, Procs,
         Live, Running
<1>4. NoSurvivors'
  <2>1. ASSUME NEW p \in Procs, NEW q \in Procs, Fork(p, q) PROVE NoSurvivors'
    <3>1. ASSUME NEW r \in Procs \ job', status'[r] = "running", r # q
          PROVE  r \in Running \ job
      BY <2>1, <3>1 DEF Fork, Running, PtyInv, PtyTypeOK
    <3>2. ASSUME q \notin job'
          PROVE  p \in Running \ job /\ p \notin killed
      BY <2>1, <3>2 DEF Fork, Live, Running
    <3>3. foreign \subseteq foreign' /\ (p \in foreign => q \in foreign')
      BY <2>1 DEF Fork
    <3> QED
      BY <1>2, <3>1, <3>2, <3>3 DEF NoSurvivors, PtyInv, Running, Procs,
         serverVars, sentVars
  <2>2. ASSUME NEW p \in Procs, Exit(p) \/ CloseTty(p) \/ Elevate(p)
        PROVE  NoSurvivors'
    <3>1. /\ Running' \subseteq Running
          /\ job' = job /\ foreign \subseteq foreign'
      BY <2>2 DEF Exit, CloseTty, Elevate, Running, PtyInv, PtyTypeOK
    <3> QED
      BY <1>2, <3>1 DEF NoSurvivors, PtyInv, serverVars, sentVars
  <2> QED
    BY <2>1, <2>2 DEF Environment
<1>5. MutexHeld' /\ OneCleanup'
  BY <1>2 DEF PtyInv, MutexHeld, OneCleanup, serverVars
<1>6. TermWhileOwned' /\ FinishedMeansReaped'
  BY <1>2, <1>3 DEF PtyInv, TermWhileOwned, FinishedMeansReaped, serverVars
<1>7. Started' /\ Route'
  BY <1>2, <1>3 DEF PtyInv, Started, Spawned, Route, serverVars
<1> QED
  BY <1>1, <1>4, <1>5, <1>6, <1>7 DEF PtyInv

\* Calling terminate, drop or wait starts a thread outside the mutex; the flag
\* lets only the first cleanup past "skipped".
LEMMA StartStep ==
  ASSUME PtyInv, StartTerminate \/ StartDrop \/ StartWait
  PROVE  PtyInv'
<1>1. PtyTypeOK'
  BY PtyTyping DEF PtyInv, PtyNext
<1>2. UNCHANGED procVars /\ UNCHANGED sentVars /\ UNCHANGED lock /\ Spawned
  BY DEF StartTerminate, StartDrop, StartWait, Goto
<1>3. PICK t \in Threads :
        /\ pc[t] = "idle"
        /\ \E l \in {"lock", "skipped", "failed"} : pc' = [pc EXCEPT ![t] = l]
        /\ t = "wait" => pc'["wait"] = "lock" /\ cleanupStarted' = cleanupStarted
        /\ t \in Cleaners => cleanupStarted'
        /\ owner' = "live" => owner = "live" /\ t # "drop"
        /\ t \in Cleaners /\ cleanupStarted => pc'[t] = "skipped"
  <2>1. CASE StartTerminate
    BY <2>1 DEF StartTerminate, Goto, PtyInv, PtyTypeOK, Threads, Cleaners
  <2>2. CASE StartDrop
    BY <2>2 DEF StartDrop, Goto, PtyInv, PtyTypeOK, Threads, Cleaners, Started
  <2>3. CASE StartWait
    BY <2>3 DEF StartWait, Goto, PtyInv, PtyTypeOK, Threads, Cleaners
  <2> QED
    BY <2>1, <2>2, <2>3
<1>4. MutexHeld'
  BY <1>2, <1>3 DEF PtyInv, MutexHeld, PtyTypeOK, InLock, Threads, Cleaners
<1>5. OneCleanup'
  BY <1>2, <1>3 DEF PtyInv, OneCleanup, Started, PtyTypeOK, Threads, Cleaners
<1>6. Started'
  BY <1>2, <1>3 DEF PtyInv, Started, Spawned, PtyTypeOK, Threads, Cleaners, procVars
<1>7. TermWhileOwned' /\ FinishedMeansReaped' /\ Route'
  BY <1>2, <1>3 DEF PtyInv, TermWhileOwned, FinishedMeansReaped, Route, PtyTypeOK,
                    Threads, Cleaners, procVars
<1>8. NoSurvivors'
  BY <1>2, <1>3 DEF PtyInv, NoSurvivors, Running, PtyTypeOK, Threads, Cleaners,
                    procVars, sentVars
<1> QED
  BY <1>1, <1>4, <1>5, <1>6, <1>7, <1>8 DEF PtyInv

\* The work of a thread.  Whatever it sends or reaps, it holds the mutex for
\* it, so no other thread is anywhere it could be disturbed.
LEMMA WorkStep ==
  ASSUME PtyInv, NEW t \in Threads, Work(t)
  PROVE  PtyInv'
<1>1. PtyTypeOK'
  BY PtyTyping DEF PtyInv, PtyNext
<1>2. /\ UNCHANGED <<cleanupStarted, owner, job, foreign>>
      /\ \A u \in Threads \ {t} : pc'[u] = pc[u]
      /\ pc[t] # "idle" /\ pc'[t] # "idle"
  BY DEF Work, Acquire, Check, SendTerm, GraceExit, GraceExpires, SendKill, Reap,
         Goto, Finish, PtyInv, PtyTypeOK, procVars
<1>3. /\ status' = status \/ (Waitable /\ status' = Reaped)
      /\ killed \subseteq killed'
  BY DEF Work, Acquire, Check, SendTerm, GraceExit, GraceExpires, SendKill, Reap,
         procVars, sentVars
<1>4. MutexHeld'
  <2>1. CASE Acquire(t)
    BY <2>1, <1>2 DEF Acquire, PtyInv, MutexHeld, PtyTypeOK, InLock, Free, Threads, Cleaners
  <2>2. CASE pc[t] \in InLock /\ pc'[t] \in InLock /\ UNCHANGED lock
    BY <2>2, <1>2 DEF PtyInv, MutexHeld
  <2>3. CASE pc[t] \in InLock /\ pc'[t] \in Final /\ lock' = Free
    BY <2>3, <1>2 DEF PtyInv, MutexHeld, InLock, Final, Free, Threads, Cleaners
  <2> QED
    BY <2>1, <2>2, <2>3 DEF Work, Check, SendTerm, GraceExit, GraceExpires,
       SendKill, Reap, Goto, Finish, InLock, Final, PtyInv, PtyTypeOK
<1>5. \A u \in Threads \ {t} : pc[t] \in InLock => pc[u] \notin InLock
  BY DEF PtyInv, MutexHeld
<1>6. TermWhileOwned'
  <2>1. ASSUME NEW u \in Threads \ {t}, pc[u] \in {"term", "killAlive"}
        PROVE  status'[Leader] # "gone"
    <3>1. pc[t] \notin InLock
      BY <1>5, <2>1 DEF InLock
    <3>2. UNCHANGED status
      BY <3>1 DEF Work, Acquire, Check, SendTerm, GraceExit, GraceExpires,
         SendKill, Reap, InLock, procVars
    <3> QED
      BY <2>1, <3>2 DEF PtyInv, TermWhileOwned
  <2>2. ASSUME pc'[t] \in {"term", "killAlive"}
        PROVE  status'[Leader] # "gone"
    BY <2>2 DEF Work, Acquire, Check, SendTerm, GraceExit, GraceExpires, SendKill,
       Reap, Goto, Finish, PtyInv, PtyTypeOK, Waitable, procVars
  <2> QED
    BY <1>2, <2>1, <2>2 DEF TermWhileOwned
<1>7. OneCleanup' /\ Started'
  BY <1>2, <1>3 DEF PtyInv, OneCleanup, Started, Spawned, Waitable, Reaped,
     PtyTypeOK, Threads, Cleaners, Work, Acquire, Check, SendTerm, GraceExit,
     GraceExpires, SendKill, Reap, Goto, Finish
<1>8. NoSurvivors'
  <2>1. Running' \subseteq Running
    BY <1>3 DEF Running, Reaped, PtyInv, PtyTypeOK
  <2>2. ASSUME t \in Cleaners, pc'[t] \in {"reap", "done"}
        PROVE  Running' \ job' \subseteq killed' \cup foreign'
    <3>1. CASE pc[t] \in {"reap", "done"}
      BY <1>2, <1>3, <2>1, <2>2, <3>1 DEF PtyInv, NoSurvivors
    <3>2. CASE SendKill(t) /\ ~SignalForbidden
      BY <1>2, <2>1, <3>2 DEF SendKill, SignalReaches, Permitted, InGroup, Running
    <3> QED
      BY <2>2, <3>1, <3>2 DEF Work, Acquire, Check, SendTerm, GraceExit,
         GraceExpires, SendKill, Reap, Goto, Finish, PtyInv, PtyTypeOK, Threads
  <2> QED
    BY <1>2, <1>3, <2>1, <2>2 DEF PtyInv, NoSurvivors, Threads
<1>9. FinishedMeansReaped' /\ Route'
  <2>1. status[Leader] = "gone" => status'[Leader] = "gone"
    BY <1>3 DEF Reaped, PtyInv, PtyTypeOK, Procs
  <2>2. /\ pc'[t] \in {"already", "done", "killReaped"} => status'[Leader] = "gone"
        /\ t = "wait" => pc'[t] \in {"idle", "lock", "reap", "done"}
    BY DEF Work, Acquire, Check, SendTerm, GraceExit, GraceExpires, SendKill, Reap,
       Goto, Finish, Reaped, PtyInv, PtyTypeOK, Route, FinishedMeansReaped, Procs,
       Threads, Cleaners, procVars
  <2> QED
    BY <1>2, <2>1, <2>2 DEF PtyInv, FinishedMeansReaped, Route, Threads
<1> QED
  BY <1>1, <1>4, <1>6, <1>7, <1>8, <1>9 DEF PtyInv

-----------------------------------------------------------------------------
\* The invariant holds in every reachable state: of any number of processes,
\* whichever of them fork, detach, elevate or exit, and however the cleanup,
\* the drop and the wait interleave.
THEOREM PtyInvariant == PtySpec => []PtyInv
<1>1. PtyInit => PtyInv
  <2> SUFFICES ASSUME PtyInit PROVE PtyInv
    OBVIOUS
  <2>1. waitStatus \in [exited : BOOLEAN, code : Nat]
    BY DEF PtyInit, NoStatus
  <2>2. PtyTypeOK
    BY <2>1, LeaderAssumption DEF PtyInit, PtyTypeOK, Labels, Free, Procs
  <2>3. MutexHeld /\ OneCleanup
    BY DEF PtyInit, MutexHeld, OneCleanup, InLock, Free, Threads, Cleaners
  <2>4. TermWhileOwned /\ FinishedMeansReaped /\ NoSurvivors /\ Started /\ Route
    BY DEF PtyInit, TermWhileOwned, FinishedMeansReaped, NoSurvivors, Started,
       Route, Threads, Cleaners
  <2> QED
    BY <2>2, <2>3, <2>4 DEF PtyInv
<1>2. PtyInv /\ [PtyNext]_ptyVars => PtyInv'
  <2> SUFFICES ASSUME PtyInv, [PtyNext]_ptyVars PROVE PtyInv'
    OBVIOUS
  <2>1. CASE Spawn
    <3>1. /\ PtyTypeOK' /\ UNCHANGED serverVars
          /\ \A t \in Threads : pc[t] = "idle"
      BY <2>1, PtyTyping DEF Spawn, PtyInv, Started
    <3> QED
      BY <3>1 DEF PtyInv, MutexHeld, TermWhileOwned, OneCleanup, NoSurvivors,
         FinishedMeansReaped, Started, Route, serverVars, Threads, Cleaners
  <2>2. CASE Environment
    BY <2>2, EnvironmentStep
  <2>3. CASE StartTerminate \/ StartDrop \/ StartWait
    BY <2>3, StartStep
  <2>4. ASSUME NEW t \in Threads, Work(t) PROVE PtyInv'
    BY <2>4, WorkStep
  <2>5. CASE UNCHANGED ptyVars
    BY <2>5 DEF PtyInv, PtyTypeOK, MutexHeld, TermWhileOwned, OneCleanup,
       NoSurvivors, FinishedMeansReaped, Started, Route, Spawned, Running, ptyVars
  <2> QED
    BY <2>1, <2>2, <2>3, <2>4, <2>5 DEF PtyNext
<1> QED
  BY <1>1, <1>2, PTL DEF PtySpec

\* MutexHeld: the child mutex is held by the thread that works on the child, and
\* by no other, also after its early returns.
THEOREM MutexIsHeld == PtySpec => []MutexHeld
BY PtyInvariant, PTL DEF PtyInv

\* SIGTERM, and the SIGKILL of a leader that outlived its grace period, go to a
\* process id the server still owns.
THEOREM TermIsOwned == PtySpec => []TermWhileOwned
BY PtyInvariant, PTL DEF PtyInv

\* No process of the group outlives a cleanup's SIGKILL, however they fork.
THEOREM GroupDies == PtySpec => []NoSurvivors
BY PtyInvariant, PTL DEF PtyInv

\* OneCleanup: terminate and Drop never both clean up.
THEOREM CleanupOnce == PtySpec => []OneCleanup
BY PtyInvariant, PTL DEF PtyInv

\* FinishedMeansReaped: no thread that succeeds leaves a zombie.
THEOREM FinishedReaps == PtySpec => []FinishedMeansReaped
BY PtyInvariant, PTL DEF PtyInv
=============================================================================
