----------------------------- MODULE BrowserApp -----------------------------
(***************************************************************************)
(* The connection lifecycle of frontend/src/App.tsx: one React effect that *)
(* checks authentication, opens a WebSocket, shows its state and reconnects*)
(* after a disconnect, and the cleanup that runs when it unmounts (and, in *)
(* development under StrictMode, before it is mounted again).              *)
(*                                                                         *)
(* Every call of connect() is a record of conns, from its fetch to the last*)
(* event of its socket.  The handlers' test `cancelled || currentAttempt   *)
(* !== attempt' only ever turns true, for all earlier calls at once, when  *)
(* connect() runs again or the effect is cleaned up: field live is its     *)
(* negation.  JavaScript tasks do not interleave, so a handler is one step.*)
(***************************************************************************)
EXTENDS Naturals, FiniteSets

CONSTANTS Conns,     \* bound: calls of connect() alive at a time
          MaxMounts, \* bound: how often the effect is mounted
          MaxSize    \* bound: how often the terminal changes its size

ASSUME BoundsAssumption == /\ MaxMounts \in Nat \ {0} /\ MaxSize \in Nat
                           /\ IsFiniteSet(Conns)

VARIABLES mounted,         \* the effect is mounted and not cleaned up
          mounts,          \* the number of mounts so far
          connectionState, \* the React state
          conns,           \* the calls of connect()
          socketRef,       \* the call whose socket the ref holds, or NoSocket
          reconnectTimer,  \* reconnectTimerRef holds a pending timer
          noticeTimer,     \* so does the effect's noticeTimer
          remoteExited,    \* the effect's flag
          latestSize,      \* latestSizeRef, 0 for null
          remoteSize,      \* the last size sent on each socket
          terminal,        \* the terminal component has been initialised
          dropped          \* history: output came before the terminal could show it

refVars  == <<socketRef, reconnectTimer, latestSize>>
sizeVars == <<latestSize, remoteSize>>
termVars == <<terminal, dropped>>
vars == <<mounted, mounts, connectionState, conns, socketRef, reconnectTimer,
          noticeTimer, remoteExited, latestSize, remoteSize, terminal, dropped>>

CONSTANT NoSocket
ASSUME NoSocketAssumption == NoSocket \notin Conns

Phases  == {"connecting", "connected", "reconnecting", "closed", "error"}
Reasons == {"none", "auth_required", "auth_check_failed", "network",
            "websocket_upgrade", "websocket_error", "server_error", "remote_exit"}
Stages  == {"free", "fetch", "connecting", "open", "closing"}

State(phase, reason) == [phase |-> phase, reason |-> reason, notice |-> FALSE]
Connected(notice)    == [phase |-> "connected", reason |-> "none", notice |-> notice]

NoConn == [stage |-> "free", retry |-> FALSE, live |-> FALSE, opened |-> FALSE]
Freed(c)     == [conns EXCEPT ![c] = NoConn]
At(c, stage) == [conns EXCEPT ![c].stage = stage]
Is(c, stage) == conns[c].stage = stage

-----------------------------------------------------------------------------
(* The effect's helpers.  Each fixes connectionState' and noticeTimer'. *)

\* (mutant) A state change that forgets the pending notice.
SetStateOnly(state) == connectionState' = state /\ UNCHANGED noticeTimer

\* setState: a state without the notice cancels the timer that would end it.
SetState(state) ==
  /\ connectionState' = state
  /\ noticeTimer' = (noticeTimer /\ state.notice)

ShowConnected(isReconnect) ==
  /\ connectionState' = Connected(isReconnect)
  /\ noticeTimer' = isReconnect

\* scheduleReconnect, called by handlers of the effect that is mounted, after
\* they have set the state to current.
ScheduleReconnect(current) ==
  /\ reconnectTimer' = TRUE
  /\ IF reconnectTimer THEN SetState(current)
     ELSE /\ noticeTimer' = FALSE
          /\ connectionState' =
               IF current.phase = "reconnecting" /\ current.reason = "network"
               THEN current ELSE State("reconnecting", "none")

\* connect(isReconnect), up to its fetch.
Connect(c, isReconnect) ==
  /\ Is(c, "free")
  /\ conns' = [d \in Conns |->
                 IF d = c THEN [NoConn EXCEPT !.stage = "fetch", !.retry = isReconnect,
                                              !.live = TRUE]
                          ELSE [conns[d] EXCEPT !.live = FALSE]]
  /\ SetState(State(IF isReconnect THEN "reconnecting" ELSE "connecting", "none"))

-----------------------------------------------------------------------------
(* The component. *)

Mount(c) ==
  /\ ~mounted /\ mounts < MaxMounts
  /\ mounted' = TRUE /\ mounts' = mounts + 1
  /\ remoteExited' = FALSE
  /\ Connect(c, FALSE)
  /\ UNCHANGED refVars /\ UNCHANGED remoteSize /\ UNCHANGED termVars

\* The socket that socketRef holds, closed.
CloseRef ==
  [d \in Conns |-> [conns[d] EXCEPT !.live = FALSE,
                                    !.stage = IF d = socketRef THEN "closing" ELSE @]]

\* (mutant) A cleanup that leaves the reconnect timer running.
UnmountKeepingTimer ==
  /\ mounted /\ mounted' = FALSE
  /\ conns' = CloseRef /\ socketRef' = NoSocket
  /\ noticeTimer' = FALSE /\ terminal' = FALSE
  /\ UNCHANGED <<mounts, connectionState, reconnectTimer, remoteExited, dropped>>
  /\ UNCHANGED sizeVars

Unmount ==
  /\ mounted /\ mounted' = FALSE
  /\ conns' = CloseRef /\ socketRef' = NoSocket
  /\ reconnectTimer' = FALSE /\ noticeTimer' = FALSE
  /\ terminal' = FALSE
  /\ UNCHANGED <<mounts, connectionState, remoteExited, dropped>> /\ UNCHANGED sizeVars

\* sendResize: remembered, and sent when the ref's socket is open.
Resize ==
  /\ latestSize < MaxSize
  /\ latestSize' = latestSize + 1
  /\ remoteSize' = [c \in Conns |-> IF c = socketRef /\ Is(c, "open") THEN latestSize'
                                    ELSE remoteSize[c]]

\* GhosttyTerminal's mount() after its asynchronous init(), and its observer.
TerminalReady ==
  /\ mounted /\ ~terminal /\ terminal' = TRUE
  /\ Resize
  /\ UNCHANGED <<mounted, mounts, connectionState, conns, socketRef, reconnectTimer,
                 noticeTimer, remoteExited, dropped>>

TerminalResized ==
  /\ terminal /\ Resize
  /\ UNCHANGED <<mounted, mounts, connectionState, conns, socketRef, reconnectTimer,
                 noticeTimer, remoteExited>> /\ UNCHANGED termVars

ReconnectTimerFires(c) ==
  /\ reconnectTimer /\ reconnectTimer' = FALSE
  /\ Connect(c, TRUE)
  /\ UNCHANGED <<mounted, mounts, socketRef, remoteExited>>
  /\ UNCHANGED sizeVars /\ UNCHANGED termVars

NoticeTimerFires ==
  /\ noticeTimer /\ noticeTimer' = FALSE
  /\ connectionState' = IF connectionState = Connected(TRUE) THEN Connected(FALSE)
                        ELSE connectionState
  /\ UNCHANGED <<mounted, mounts, conns, remoteExited, remoteSize>>
  /\ UNCHANGED refVars /\ UNCHANGED termVars

-----------------------------------------------------------------------------
(* The answers to the auth check. *)

\* (mutant) A reconnect that gives up when the network is still down.
FetchFailsFinally(c) ==
  /\ Is(c, "fetch") /\ conns' = Freed(c)
  /\ IF conns[c].live
     THEN SetState(State(IF conns[c].retry THEN "reconnecting" ELSE "error", "network"))
     ELSE UNCHANGED <<connectionState, noticeTimer>>
  /\ UNCHANGED <<mounted, mounts, remoteExited, remoteSize>>
  /\ UNCHANGED refVars /\ UNCHANGED termVars

FetchFails(c) ==
  /\ Is(c, "fetch") /\ conns' = Freed(c)
  /\ IF ~conns[c].live THEN UNCHANGED <<connectionState, noticeTimer, reconnectTimer>>
     ELSE IF conns[c].retry THEN ScheduleReconnect(State("reconnecting", "network"))
     ELSE SetState(State("error", "network")) /\ UNCHANGED reconnectTimer
  /\ UNCHANGED <<mounted, mounts, socketRef, remoteExited>>
  /\ UNCHANGED sizeVars /\ UNCHANGED termVars

\* (mutant) A reason that no copy text exists for.
FetchRefusedRaw(c, reason) ==
  /\ Is(c, "fetch") /\ conns' = Freed(c)
  /\ IF conns[c].live THEN SetState(State("error", "unauthorized"))
                      ELSE UNCHANGED <<connectionState, noticeTimer>>
  /\ UNCHANGED <<mounted, mounts, remoteExited, remoteSize>>
  /\ UNCHANGED refVars /\ UNCHANGED termVars

FetchRefused(c, reason) ==
  /\ Is(c, "fetch") /\ conns' = Freed(c)
  /\ IF conns[c].live THEN SetState(State("error", reason))
                      ELSE UNCHANGED <<connectionState, noticeTimer>>
  /\ UNCHANGED <<mounted, mounts, remoteExited, remoteSize>>
  /\ UNCHANGED refVars /\ UNCHANGED termVars

FetchPasses(c) ==
  /\ Is(c, "fetch")
  /\ IF conns[c].live THEN conns' = At(c, "connecting") /\ socketRef' = c
                      ELSE conns' = Freed(c) /\ UNCHANGED socketRef
  /\ remoteSize' = [remoteSize EXCEPT ![c] = 0]
  /\ UNCHANGED <<mounted, mounts, connectionState, reconnectTimer, noticeTimer,
                 remoteExited, latestSize>> /\ UNCHANGED termVars

-----------------------------------------------------------------------------
(* The events of a socket. *)

\* (mutant) An open handler that sends no size.
SocketOpensUnsized(c) ==
  /\ Is(c, "connecting")
  /\ conns' = [conns EXCEPT ![c].stage = "open", ![c].opened = TRUE]
  /\ ShowConnected(conns[c].retry)
  /\ UNCHANGED <<mounted, mounts, remoteExited, remoteSize>>
  /\ UNCHANGED refVars /\ UNCHANGED termVars

SocketOpens(c) ==
  /\ Is(c, "connecting")
  /\ IF conns[c].live
     THEN /\ conns' = [conns EXCEPT ![c].stage = "open", ![c].opened = TRUE]
          /\ ShowConnected(conns[c].retry)
          /\ remoteSize' = [remoteSize EXCEPT ![c] = latestSize]
     ELSE /\ conns' = At(c, "closing")
          /\ UNCHANGED <<connectionState, noticeTimer, remoteSize>>
  /\ UNCHANGED <<mounted, mounts, remoteExited>> /\ UNCHANGED refVars /\ UNCHANGED termVars

\* error, which the close event follows.
SocketErrors(c) ==
  /\ conns[c].stage \in {"connecting", "open"}
  /\ conns' = At(c, "closing")
  /\ IF conns[c].live /\ ~conns[c].opened /\ ~conns[c].retry
     THEN SetState(State("error", "websocket_error"))
     ELSE UNCHANGED <<connectionState, noticeTimer>>
  /\ UNCHANGED <<mounted, mounts, remoteExited, remoteSize>>
  /\ UNCHANGED refVars /\ UNCHANGED termVars

\* (mutant) A close handler that clears the ref whatever it holds.
SocketClosesAny(c) ==
  /\ conns[c].stage \in {"connecting", "open", "closing"}
  /\ conns' = Freed(c) /\ socketRef' = NoSocket
  /\ IF ~conns[c].live \/ remoteExited
     THEN UNCHANGED <<connectionState, noticeTimer, reconnectTimer>>
     ELSE IF conns[c].opened \/ conns[c].retry THEN ScheduleReconnect(connectionState)
     ELSE SetState(State("error", "websocket_upgrade")) /\ UNCHANGED reconnectTimer
  /\ UNCHANGED <<mounted, mounts, remoteExited>> /\ UNCHANGED sizeVars /\ UNCHANGED termVars

\* (mutant) A close handler that reconnects after the command has exited.
SocketClosesForgetful(c) ==
  /\ conns[c].stage \in {"connecting", "open", "closing"}
  /\ conns' = Freed(c)
  /\ socketRef' = IF socketRef = c THEN NoSocket ELSE socketRef
  /\ IF ~conns[c].live
     THEN UNCHANGED <<connectionState, noticeTimer, reconnectTimer>>
     ELSE IF conns[c].opened \/ conns[c].retry THEN ScheduleReconnect(connectionState)
     ELSE SetState(State("error", "websocket_upgrade")) /\ UNCHANGED reconnectTimer
  /\ UNCHANGED <<mounted, mounts, remoteExited>> /\ UNCHANGED sizeVars /\ UNCHANGED termVars

SocketCloses(c) ==
  /\ conns[c].stage \in {"connecting", "open", "closing"}
  /\ conns' = Freed(c)
  /\ socketRef' = IF socketRef = c THEN NoSocket ELSE socketRef
  /\ IF ~conns[c].live \/ remoteExited
     THEN UNCHANGED <<connectionState, noticeTimer, reconnectTimer>>
     ELSE IF conns[c].opened \/ conns[c].retry THEN ScheduleReconnect(connectionState)
     ELSE SetState(State("error", "websocket_upgrade")) /\ UNCHANGED reconnectTimer
  /\ UNCHANGED <<mounted, mounts, remoteExited>> /\ UNCHANGED sizeVars /\ UNCHANGED termVars

\* A message, which a socket delivers only while it is open.
OutputArrives(c) ==
  /\ Is(c, "open") /\ conns[c].live
  /\ dropped' = (dropped \/ ~terminal)
  /\ UNCHANGED <<mounted, mounts, connectionState, conns, socketRef, reconnectTimer,
                 noticeTimer, remoteExited, terminal>> /\ UNCHANGED sizeVars

ErrorArrives(c) ==
  /\ Is(c, "open") /\ conns[c].live
  /\ SetState(State("error", "server_error"))
  /\ UNCHANGED <<mounted, mounts, conns, remoteExited, remoteSize>>
  /\ UNCHANGED refVars /\ UNCHANGED termVars

ExitedArrives(c) ==
  /\ Is(c, "open") /\ conns[c].live
  /\ remoteExited' = TRUE
  /\ SetState(State("closed", "remote_exit"))
  /\ conns' = At(c, "closing")
  /\ UNCHANGED <<mounted, mounts, remoteSize>> /\ UNCHANGED refVars /\ UNCHANGED termVars

-----------------------------------------------------------------------------
Init ==
  /\ mounted = FALSE /\ mounts = 0
  /\ connectionState = State("connecting", "none")
  /\ conns = [c \in Conns |-> NoConn]
  /\ socketRef = NoSocket /\ reconnectTimer = FALSE /\ noticeTimer = FALSE
  /\ remoteExited = FALSE
  /\ latestSize = 0 /\ remoteSize = [c \in Conns |-> 0]
  /\ terminal = FALSE /\ dropped = FALSE

Timers == NoticeTimerFires \/ \E c \in Conns : ReconnectTimerFires(c)

Network(c) ==
  \/ FetchFails(c) \/ FetchPasses(c)
  \/ \E reason \in {"auth_required", "auth_check_failed"} : FetchRefused(c, reason)
  \/ SocketOpens(c) \/ SocketErrors(c) \/ SocketCloses(c)
  \/ OutputArrives(c) \/ ErrorArrives(c) \/ ExitedArrives(c)

Next ==
  \/ \E c \in Conns : Mount(c)
  \/ Unmount \/ TerminalReady \/ TerminalResized \/ Timers
  \/ \E c \in Conns : Network(c)

Spec == Init /\ [][Next]_vars

\* Timers fire, a socket that is closing is reported closed, a fetch ends, and
\* a network that is tried again and again is up for some of the tries.
FairSpec ==
  /\ Spec
  /\ WF_vars(NoticeTimerFires)
  /\ \A c \in Conns :
       /\ WF_vars(ReconnectTimerFires(c))
       /\ WF_vars(Is(c, "closing") /\ SocketCloses(c))
       /\ WF_vars(Is(c, "fetch") /\ Network(c))
       /\ WF_vars(Is(c, "connecting") /\ Network(c))
       /\ SF_vars(FetchPasses(c)) /\ SF_vars(SocketOpens(c))

-----------------------------------------------------------------------------
(* What makes it correct. *)

TypeOK ==
  /\ mounted \in BOOLEAN /\ mounts \in 0..MaxMounts
  /\ connectionState \in [phase : Phases, reason : Reasons, notice : BOOLEAN]
  /\ conns \in [Conns -> [stage : Stages, retry : BOOLEAN, live : BOOLEAN,
                          opened : BOOLEAN]]
  /\ socketRef \in Conns \cup {NoSocket}
  /\ reconnectTimer \in BOOLEAN /\ noticeTimer \in BOOLEAN /\ remoteExited \in BOOLEAN
  /\ latestSize \in 0..MaxSize /\ remoteSize \in [Conns -> 0..MaxSize]
  /\ terminal \in BOOLEAN /\ dropped \in BOOLEAN

LiveConns == {c \in Conns : conns[c].live}

\* There is never a second connection: at most one call of connect() matters,
\* none while a retry is still pending, and a socket that is connecting or open
\* is the one the ref holds, so that cleanup and input find it; late events of
\* the sockets of an earlier mount never take the ref away.
OneConnection ==
  /\ Cardinality(LiveConns) <= 1
  /\ reconnectTimer => LiveConns = {}
  /\ \A c \in Conns : conns[c].stage \in {"connecting", "open"} => socketRef = c

\* The status bar never promises what nobody is working on: while it says
\* connecting or reconnecting a fetch, a socket or a timer is pending, and it
\* says connected only of the socket in the ref.
StatusIsTrue ==
  mounted =>
    /\ connectionState.phase = "connecting" =>
         \E c \in LiveConns : conns[c].stage \in {"fetch", "connecting"}
    /\ connectionState.phase = "reconnecting" =>
         \/ reconnectTimer
         \/ \E c \in LiveConns : conns[c].stage \in {"fetch", "connecting", "closing"}
    /\ connectionState.phase = "connected" =>
         \E c \in LiveConns : socketRef = c /\ conns[c].opened

\* The notice of a new session is shown exactly while the timer that will take
\* it down is pending.
NoticeHasTimer ==
  mounted => (connectionState.notice <=> noticeTimer)

\* The server knows the terminal's latest size on every open connection, also
\* when it changed while there was none.
SizeIsKnown ==
  \A c \in LiveConns : Is(c, "open") => remoteSize[c] = latestSize

\* After the command has exited the page stays closed: only a new mount changes
\* the state or connects again.
ExitIsFinal ==
  [][mounted /\ mounted' /\ remoteExited =>
       UNCHANGED <<connectionState, reconnectTimer>> /\ LiveConns' \subseteq LiveConns]_vars

\* What is left of an unmounted effect, its fetch, socket and timers, neither
\* changes the state nor starts anything.
UnmountIsQuiet ==
  [][~mounted /\ ~mounted' =>
       /\ UNCHANGED connectionState
       /\ \A c \in Conns : conns'[c] # conns[c] => conns'[c].stage \in {"closing", "free"}]_vars

\* A page that says reconnecting does not say so for ever when the network
\* works from time to time.
ReconnectEnds ==
  (connectionState.phase = "reconnecting") ~>
    (connectionState.phase # "reconnecting" \/ ~mounted)

\* docs/superpowers/specs/2026-06-29-diagnostic-terminal-shell-design.md:178:
\* after a remote exit the terminal shows the command's output.
OutputPreserved == connectionState.reason = "remote_exit" => ~dropped
=============================================================================
