------------------------- MODULE BrowserApp_proofs -------------------------
(***************************************************************************)
(* Proofs that the safety properties of BrowserApp hold for any number of  *)
(* calls of connect(), mounts and sizes.  What makes them inductive is how *)
(* far the one live call is: its socket is the one in the ref, and while   *)
(* it is still at its fetch, or a timer is to start it, no other socket is *)
(* connecting or open.                                                     *)
(***************************************************************************)
EXTENDS BrowserApp, FiniteSetTheorems, TLAPS

Connecting(c) == conns[c].stage \in {"connecting", "open"}

\* At most one call is live, and only while nothing else is to start one.
Calls ==
  /\ \A c, d \in Conns : conns[c].live /\ conns[d].live => c = d
  /\ \A c \in Conns : conns[c].live => mounted /\ ~reconnectTimer /\ ~Is(c, "free")
  /\ reconnectTimer => mounted

\* The ref holds the socket of the live call, and that of any other that could open.
Refs ==
  \A c \in Conns :
    /\ Connecting(c) => socketRef = c /\ mounted /\ ~reconnectTimer
    /\ conns[c].live /\ Is(c, "closing") => socketRef = c
    /\ conns[c].live /\ Is(c, "fetch") => \A d \in Conns : ~Connecting(d)

\* After the exit the live call is only waiting for its socket to close.
Exit ==
  mounted /\ remoteExited =>
    /\ connectionState.phase = "closed" /\ ~reconnectTimer
    /\ \A c \in Conns : conns[c].live => Is(c, "closing")

\* StatusIsTrue, and that a first attempt says so.
Status ==
  mounted =>
    /\ connectionState.phase = "connecting" =>
         \E c \in LiveConns : /\ conns[c].stage \in {"fetch", "connecting"}
                              /\ ~conns[c].retry /\ ~conns[c].opened
    /\ connectionState.phase = "reconnecting" =>
         \/ reconnectTimer
         \/ \E c \in LiveConns : conns[c].stage \in {"fetch", "connecting", "closing"}
    /\ connectionState.phase = "connected" =>
         \E c \in LiveConns : socketRef = c /\ conns[c].opened

\* NoticeHasTimer, and that only one state has a notice.
Notice ==
  /\ NoticeHasTimer
  /\ mounted /\ connectionState.notice => connectionState = Connected(TRUE)
  /\ noticeTimer => mounted

BrowserInv == TypeOK /\ Calls /\ Refs /\ Exit /\ Status /\ Notice /\ SizeIsKnown

\* Steps that neither start, end nor move a call.
CallsStay == UNCHANGED <<mounted, conns, socketRef, reconnectTimer>>

-----------------------------------------------------------------------------
\* After a cleanup no call is live, and no socket of an earlier call can open.
LEMMA UnmountClears ==
  ASSUME TypeOK, Refs, Unmount
  PROVE  \A d \in Conns : ~conns'[d].live /\ conns'[d].stage \notin {"connecting", "open"}
<1> SUFFICES ASSUME NEW d \in Conns
             PROVE  ~conns'[d].live /\ conns'[d].stage \notin {"connecting", "open"}
  OBVIOUS
<1>1. conns'[d] = [conns[d] EXCEPT !.live = FALSE,
                                   !.stage = IF d = socketRef THEN "closing" ELSE @]
  BY DEF Unmount, CloseRef
<1>2. conns[d] \in [stage : Stages, retry : BOOLEAN, live : BOOLEAN, opened : BOOLEAN]
  BY DEF TypeOK
<1>3. d # socketRef => conns[d].stage \notin {"connecting", "open"}
  BY DEF Refs, Connecting
<1> QED
  BY <1>1, <1>2, <1>3

CallTypes  == [Conns -> [stage : Stages, retry : BOOLEAN, live : BOOLEAN, opened : BOOLEAN]]
StateTypes == [phase : Phases, reason : Reasons, notice : BOOLEAN]

\* A call that is freed, or goes to its next stage, is one of the model's.
LEMMA CallsTyped ==
  ASSUME TypeOK, NEW c \in Conns, NEW stage \in Stages
  PROVE  Freed(c) \in CallTypes /\ At(c, stage) \in CallTypes
  BY DEF TypeOK, Freed, NoConn, At, Stages, CallTypes

\* The states that are shown have a phase and a reason that exist.
LEMMA StatesTyped ==
  /\ \A phase \in Phases, reason \in Reasons : State(phase, reason) \in StateTypes
  /\ \A notice \in BOOLEAN : Connected(notice) \in StateTypes
  BY DEF State, Connected, StateTypes, Phases, Reasons

\* connect() starts with a call and a state of these types.
LEMMA ConnectTyped ==
  ASSUME TypeOK, NEW c \in Conns, NEW retry \in BOOLEAN, Connect(c, retry)
  PROVE  conns' \in CallTypes /\ connectionState' \in StateTypes /\ noticeTimer' \in BOOLEAN
<1>1. conns' \in CallTypes
  BY DEF TypeOK, Connect, NoConn, Stages, CallTypes
<1>2. connectionState' \in StateTypes
  BY StatesTyped DEF Connect, SetState, Phases, Reasons
<1>3. noticeTimer' \in BOOLEAN
  BY DEF TypeOK, Connect, SetState, State
<1> QED
  BY <1>1, <1>2, <1>3

\* Every step keeps the types.
LEMMA TypesStay ==
  ASSUME TypeOK, [Next]_vars
  PROVE  TypeOK'
<1> USE BoundsAssumption, NoSocketAssumption DEF TypeOK, refVars, sizeVars, termVars
<1>1. ASSUME NEW c \in Conns, Mount(c)
      PROVE  TypeOK'
  <2>1. conns' \in CallTypes /\ connectionState' \in StateTypes /\ noticeTimer' \in BOOLEAN
    BY <1>1, ConnectTyped DEF Mount
  <2>2. mounts' \in 0..MaxMounts
    BY <1>1 DEF Mount
  <2> QED
    BY <1>1, <2>1, <2>2 DEF Mount, CallTypes, StateTypes
<1>2. CASE Unmount
  <2>1. conns' \in CallTypes
    BY <1>2, ZenonT(30) DEF Unmount, CloseRef, Stages, CallTypes
  <2> QED
    BY <1>2, <2>1 DEF Unmount, CallTypes
<1>3. CASE TerminalReady \/ TerminalResized
  <2>1. latestSize' \in 0..MaxSize /\ remoteSize' \in [Conns -> 0..MaxSize]
    <3>1. Resize
      BY <1>3 DEF TerminalReady, TerminalResized
    <3> QED
      BY <3>1 DEF Resize
  <2> QED
    BY <1>3, <2>1 DEF TerminalReady, TerminalResized
<1>4. CASE NoticeTimerFires
  BY <1>4, StatesTyped DEF NoticeTimerFires, StateTypes
<1>5. ASSUME NEW c \in Conns, ReconnectTimerFires(c)
      PROVE  TypeOK'
  BY <1>5, ConnectTyped DEF ReconnectTimerFires, CallTypes, StateTypes
<1>6. ASSUME NEW c \in Conns, FetchFails(c)
      PROVE  TypeOK'
  <2>1. conns' \in CallTypes
    BY <1>6, CallsTyped DEF FetchFails, Stages
  <2>2. connectionState' \in StateTypes
    BY <1>6, StatesTyped
    DEF FetchFails, ScheduleReconnect, SetState, Phases, Reasons, StateTypes
  <2> QED
    BY <1>6, <2>1, <2>2
    DEF FetchFails, ScheduleReconnect, SetState, State, CallTypes, StateTypes
<1>7. ASSUME NEW c \in Conns, FetchPasses(c)
      PROVE  TypeOK'
  <2>1. conns' \in CallTypes
    BY <1>7, CallsTyped DEF FetchPasses, Stages
  <2>2. remoteSize' \in [Conns -> 0..MaxSize]
    BY <1>7 DEF FetchPasses
  <2> QED
    BY <1>7, <2>1, <2>2 DEF FetchPasses, CallTypes
<1>8. ASSUME NEW c \in Conns, NEW reason \in {"auth_required", "auth_check_failed"},
             FetchRefused(c, reason)
      PROVE  TypeOK'
  <2>1. conns' \in CallTypes
    BY <1>8, CallsTyped DEF FetchRefused, Stages
  <2>2. connectionState' \in StateTypes
    BY <1>8, StatesTyped DEF FetchRefused, SetState, Phases, Reasons, StateTypes
  <2> QED
    BY <1>8, <2>1, <2>2 DEF FetchRefused, SetState, State, CallTypes, StateTypes
<1>9. ASSUME NEW c \in Conns, SocketOpens(c)
      PROVE  TypeOK'
  <2>1. conns' \in CallTypes
    BY <1>9 DEF SocketOpens, At, Stages, CallTypes
  <2>2. connectionState' \in StateTypes
    BY <1>9, StatesTyped DEF SocketOpens, ShowConnected, StateTypes
  <2> QED
    BY <1>9, <2>1, <2>2 DEF SocketOpens, ShowConnected, CallTypes, StateTypes
<1>10. ASSUME NEW c \in Conns, SocketErrors(c)
      PROVE  TypeOK'
  <2>1. conns' \in CallTypes
    BY <1>10, CallsTyped DEF SocketErrors, Stages
  <2>2. connectionState' \in StateTypes
    BY <1>10, StatesTyped DEF SocketErrors, SetState, Phases, Reasons, StateTypes
  <2> QED
    BY <1>10, <2>1, <2>2 DEF SocketErrors, SetState, State, CallTypes, StateTypes
<1>11. ASSUME NEW c \in Conns, SocketCloses(c)
      PROVE  TypeOK'
  <2>1. conns' \in CallTypes
    BY <1>11, CallsTyped DEF SocketCloses, Stages
  <2>2. connectionState' \in StateTypes
    BY <1>11, StatesTyped
    DEF SocketCloses, ScheduleReconnect, SetState, Phases, Reasons, StateTypes
  <2> QED
    BY <1>11, <2>1, <2>2
    DEF SocketCloses, ScheduleReconnect, SetState, State, CallTypes, StateTypes
<1>12. ASSUME NEW c \in Conns, OutputArrives(c) \/ ErrorArrives(c)
      PROVE  TypeOK'
  <2>1. CASE OutputArrives(c)
    BY <2>1 DEF OutputArrives
  <2>2. CASE ErrorArrives(c)
    <3>1. connectionState' \in StateTypes
      BY <2>2, StatesTyped DEF ErrorArrives, SetState, Phases, Reasons
    <3> QED
      BY <2>2, <3>1 DEF ErrorArrives, SetState, State, StateTypes
  <2> QED
    BY <1>12, <2>1, <2>2
<1>13. ASSUME NEW c \in Conns, ExitedArrives(c)
      PROVE  TypeOK'
  <2>1. conns' \in CallTypes
    BY <1>13, CallsTyped DEF ExitedArrives, Stages
  <2> QED
    BY <1>13, <2>1, StatesTyped
    DEF ExitedArrives, SetState, State, Phases, Reasons, CallTypes, StateTypes
<1>14. CASE UNCHANGED vars
  BY <1>14 DEF vars
<1> QED
  BY <1>1, <1>2, <1>3, <1>4, <1>5, <1>6, <1>7, <1>8, <1>9, <1>10, <1>11, <1>12, <1>13, <1>14
  DEF Next, Timers, Network

\* One call is live: connect() runs when none is, or makes all others stale, and a
\* timer is set only by the handler that frees the live one.
LEMMA CallsStaySingle ==
  ASSUME BrowserInv, [Next]_vars
  PROVE  Calls'
<1> USE NoSocketAssumption DEF BrowserInv, TypeOK, Stages, Calls, Refs, Connecting, Is,
                           refVars, sizeVars, termVars
<1>1. ASSUME NEW c \in Conns, Mount(c)
      PROVE  Calls'
  BY <1>1 DEF Mount, Connect, SetState, State, NoConn
<1>2. CASE Unmount
  BY <1>2, UnmountClears DEF Unmount
<1>3. ASSUME NEW c \in Conns, ReconnectTimerFires(c)
      PROVE  Calls'
  BY <1>3 DEF ReconnectTimerFires, Connect, SetState, State, NoConn
<1>4. ASSUME NEW c \in Conns, FetchFails(c)
      PROVE  Calls'
  BY <1>4 DEF FetchFails, Freed, NoConn, ScheduleReconnect, SetState, State
<1>5. ASSUME NEW c \in Conns, FetchPasses(c)
      PROVE  Calls'
  BY <1>5 DEF FetchPasses, At, Freed, NoConn
<1>6. ASSUME NEW c \in Conns,
              NEW reason \in {"auth_required", "auth_check_failed"}, FetchRefused(c, reason)
      PROVE  Calls'
  BY <1>6 DEF FetchRefused, Freed, NoConn, SetState, State
<1>7. ASSUME NEW c \in Conns, SocketOpens(c)
      PROVE  Calls'
  BY <1>7 DEF SocketOpens, ShowConnected, Connected, At
<1>8. ASSUME NEW c \in Conns, SocketErrors(c)
      PROVE  Calls'
  BY <1>8 DEF SocketErrors, At, SetState, State
<1>9. ASSUME NEW c \in Conns, SocketCloses(c)
      PROVE  Calls'
  BY <1>9 DEF SocketCloses, Freed, NoConn, ScheduleReconnect, SetState, State
<1>10. ASSUME NEW c \in Conns, ExitedArrives(c)
      PROVE  Calls'
  BY <1>10 DEF ExitedArrives, At, SetState, State
<1>11. CASE CallsStay
  BY <1>11 DEF CallsStay
<1> QED
  BY <1>1, <1>2, <1>3, <1>4, <1>5, <1>6, <1>7, <1>8, <1>9, <1>10, <1>11
  DEF Next, Timers, Network, CallsStay, vars, refVars, termVars, TerminalReady,
      TerminalResized, NoticeTimerFires, OutputArrives, ErrorArrives

\* The ref is taken by a call that passes its check, when no other socket can open,
\* and given up by the close of the socket it holds.
LEMMA RefsStayTrue ==
  ASSUME BrowserInv, [Next]_vars
  PROVE  Refs'
<1> USE NoSocketAssumption DEF BrowserInv, TypeOK, Stages, Calls, Refs, Connecting, Is,
                           refVars, sizeVars, termVars
<1>1. ASSUME NEW c \in Conns, Mount(c)
      PROVE  Refs'
  BY <1>1 DEF Mount, Connect, SetState, State, NoConn
<1>2. CASE Unmount
  BY <1>2, UnmountClears DEF Unmount
<1>3. ASSUME NEW c \in Conns, ReconnectTimerFires(c)
      PROVE  Refs'
  BY <1>3 DEF ReconnectTimerFires, Connect, SetState, State, NoConn
<1>4. ASSUME NEW c \in Conns, FetchFails(c)
      PROVE  Refs'
  BY <1>4 DEF FetchFails, Freed, NoConn, ScheduleReconnect, SetState, State
<1>5. ASSUME NEW c \in Conns, FetchPasses(c)
      PROVE  Refs'
  BY <1>5 DEF FetchPasses, At, Freed, NoConn
<1>6. ASSUME NEW c \in Conns,
              NEW reason \in {"auth_required", "auth_check_failed"}, FetchRefused(c, reason)
      PROVE  Refs'
  BY <1>6 DEF FetchRefused, Freed, NoConn, SetState, State
<1>7. ASSUME NEW c \in Conns, SocketOpens(c)
      PROVE  Refs'
  BY <1>7 DEF SocketOpens, ShowConnected, Connected, At
<1>8. ASSUME NEW c \in Conns, SocketErrors(c)
      PROVE  Refs'
  BY <1>8 DEF SocketErrors, At, SetState, State
<1>9. ASSUME NEW c \in Conns, SocketCloses(c)
      PROVE  Refs'
  BY <1>9 DEF SocketCloses, Freed, NoConn, ScheduleReconnect, SetState, State
<1>10. ASSUME NEW c \in Conns, ExitedArrives(c)
      PROVE  Refs'
  BY <1>10 DEF ExitedArrives, At, SetState, State
<1>11. CASE CallsStay
  BY <1>11 DEF CallsStay
<1> QED
  BY <1>1, <1>2, <1>3, <1>4, <1>5, <1>6, <1>7, <1>8, <1>9, <1>10, <1>11, ZenonT(30)
  DEF Next, Timers, Network, CallsStay, vars, refVars, termVars, TerminalReady,
      TerminalResized, NoticeTimerFires, OutputArrives, ErrorArrives

\* After the exit nothing but a close is left to happen.
LEMMA ExitStaysFinal ==
  ASSUME BrowserInv, [Next]_vars
  PROVE  Exit'
<1> USE NoSocketAssumption DEF BrowserInv, TypeOK, Stages, Calls, Refs, Connecting, Is, Exit,
                           refVars, sizeVars, termVars
<1>1. ASSUME NEW c \in Conns, Mount(c)
      PROVE  Exit'
  BY <1>1 DEF Mount, Connect, SetState, State, NoConn
<1>2. CASE Unmount
  BY <1>2, UnmountClears DEF Unmount
<1>3. CASE TerminalReady
  BY <1>3 DEF TerminalReady, Resize
<1>4. CASE TerminalResized
  BY <1>4 DEF TerminalResized, Resize
<1>5. CASE NoticeTimerFires
  BY <1>5 DEF NoticeTimerFires, Connected
<1>6. ASSUME NEW c \in Conns, ReconnectTimerFires(c)
      PROVE  Exit'
  BY <1>6 DEF ReconnectTimerFires, Connect, SetState, State, NoConn
<1>7. ASSUME NEW c \in Conns, FetchFails(c)
      PROVE  Exit'
  BY <1>7 DEF FetchFails, Freed, NoConn, ScheduleReconnect, SetState, State
<1>8. ASSUME NEW c \in Conns, FetchPasses(c)
      PROVE  Exit'
  BY <1>8 DEF FetchPasses, At, Freed, NoConn
<1>9. ASSUME NEW c \in Conns,
              NEW reason \in {"auth_required", "auth_check_failed"}, FetchRefused(c, reason)
      PROVE  Exit'
  BY <1>9 DEF FetchRefused, Freed, NoConn, SetState, State
<1>10. ASSUME NEW c \in Conns, SocketOpens(c)
      PROVE  Exit'
  BY <1>10 DEF SocketOpens, ShowConnected, Connected, At
<1>11. ASSUME NEW c \in Conns, SocketErrors(c)
      PROVE  Exit'
  BY <1>11 DEF SocketErrors, At, SetState, State
<1>12. ASSUME NEW c \in Conns, SocketCloses(c)
      PROVE  Exit'
  BY <1>12 DEF SocketCloses, Freed, NoConn, ScheduleReconnect, SetState, State
<1>13. ASSUME NEW c \in Conns, OutputArrives(c)
      PROVE  Exit'
  BY <1>13 DEF OutputArrives
<1>14. ASSUME NEW c \in Conns, ErrorArrives(c)
      PROVE  Exit'
  BY <1>14 DEF ErrorArrives, SetState, State
<1>15. ASSUME NEW c \in Conns, ExitedArrives(c)
      PROVE  Exit'
  BY <1>15 DEF ExitedArrives, At, SetState, State
<1>16. CASE UNCHANGED vars
  BY <1>16 DEF vars
<1> QED
  BY <1>1, <1>2, <1>3, <1>4, <1>5, <1>6, <1>7, <1>8, <1>9, <1>10, <1>11, <1>12, <1>13, <1>14,
      <1>15, <1>16
  DEF Next, Timers, Network

\* The status follows the live call.
LEMMA StatusStaysTrue ==
  ASSUME BrowserInv, [Next]_vars
  PROVE  Status'
<1> USE NoSocketAssumption DEF BrowserInv, TypeOK, Stages, Calls, Refs, Connecting, Is, LiveConns, Status,
                           refVars, sizeVars, termVars
<1>1. ASSUME NEW c \in Conns, Mount(c)
      PROVE  Status'
  BY <1>1 DEF Mount, Connect, SetState, State, NoConn
<1>2. CASE Unmount
  BY <1>2 DEF Unmount
<1>3. CASE TerminalReady
  BY <1>3 DEF TerminalReady, Resize
<1>4. CASE TerminalResized
  BY <1>4 DEF TerminalResized, Resize
<1>5. CASE NoticeTimerFires
  BY <1>5 DEF NoticeTimerFires, Connected
<1>6. ASSUME NEW c \in Conns, ReconnectTimerFires(c)
      PROVE  Status'
  BY <1>6 DEF ReconnectTimerFires, Connect, SetState, State, NoConn
<1>7. ASSUME NEW c \in Conns, FetchFails(c)
      PROVE  Status'
  BY <1>7 DEF FetchFails, Freed, NoConn, ScheduleReconnect, SetState, State
<1>8. ASSUME NEW c \in Conns, FetchPasses(c)
      PROVE  Status'
  BY <1>8, SMTT(30) DEF FetchPasses, At, Freed, NoConn
<1>9. ASSUME NEW c \in Conns,
              NEW reason \in {"auth_required", "auth_check_failed"}, FetchRefused(c, reason)
      PROVE  Status'
  BY <1>9 DEF FetchRefused, Freed, NoConn, SetState, State
<1>10. ASSUME NEW c \in Conns, SocketOpens(c)
      PROVE  Status'
  BY <1>10 DEF SocketOpens, ShowConnected, Connected, At
<1>11. ASSUME NEW c \in Conns, SocketErrors(c)
      PROVE  Status'
  BY <1>11 DEF SocketErrors, At, SetState, State
<1>12. ASSUME NEW c \in Conns, SocketCloses(c)
      PROVE  Status'
  <2>1. CASE ~conns[c].live \/ remoteExited
    BY <1>12, <2>1 DEF SocketCloses, Freed, NoConn, Exit
  <2>2. CASE conns[c].live /\ ~remoteExited
    BY <1>12, <2>2 DEF SocketCloses, Freed, NoConn, ScheduleReconnect, SetState, State
  <2> QED
    BY <2>1, <2>2
<1>13. ASSUME NEW c \in Conns, OutputArrives(c)
      PROVE  Status'
  BY <1>13 DEF OutputArrives
<1>14. ASSUME NEW c \in Conns, ErrorArrives(c)
      PROVE  Status'
  BY <1>14 DEF ErrorArrives, SetState, State
<1>15. ASSUME NEW c \in Conns, ExitedArrives(c)
      PROVE  Status'
  BY <1>15 DEF ExitedArrives, At, SetState, State
<1>16. CASE UNCHANGED vars
  BY <1>16 DEF vars
<1> QED
  BY <1>1, <1>2, <1>3, <1>4, <1>5, <1>6, <1>7, <1>8, <1>9, <1>10, <1>11, <1>12, <1>13, <1>14,
      <1>15, <1>16
  DEF Next, Timers, Network

\* The notice and its timer come and go together.
LEMMA NoticeKeepsTimer ==
  ASSUME BrowserInv, [Next]_vars
  PROVE  Notice'
<1> USE NoSocketAssumption DEF BrowserInv, TypeOK, Stages, Calls, Refs, Connecting, Is, Notice, NoticeHasTimer, Connected, State,
                           refVars, sizeVars, termVars
<1>1. ASSUME NEW c \in Conns, Mount(c)
      PROVE  Notice'
  BY <1>1 DEF Mount, Connect, SetState, State, NoConn
<1>2. CASE Unmount
  BY <1>2 DEF Unmount
<1>3. CASE TerminalReady
  BY <1>3 DEF TerminalReady, Resize
<1>4. CASE TerminalResized
  BY <1>4 DEF TerminalResized, Resize
<1>5. CASE NoticeTimerFires
  BY <1>5 DEF NoticeTimerFires, Connected
<1>6. ASSUME NEW c \in Conns, ReconnectTimerFires(c)
      PROVE  Notice'
  BY <1>6 DEF ReconnectTimerFires, Connect, SetState, State, NoConn
<1>7. ASSUME NEW c \in Conns, FetchFails(c)
      PROVE  Notice'
  BY <1>7 DEF FetchFails, Freed, NoConn, ScheduleReconnect, SetState, State
<1>8. ASSUME NEW c \in Conns, FetchPasses(c)
      PROVE  Notice'
  BY <1>8 DEF FetchPasses, At, Freed, NoConn
<1>9. ASSUME NEW c \in Conns,
              NEW reason \in {"auth_required", "auth_check_failed"}, FetchRefused(c, reason)
      PROVE  Notice'
  BY <1>9 DEF FetchRefused, Freed, NoConn, SetState, State
<1>10. ASSUME NEW c \in Conns, SocketOpens(c)
      PROVE  Notice'
  BY <1>10 DEF SocketOpens, ShowConnected, Connected, At
<1>11. ASSUME NEW c \in Conns, SocketErrors(c)
      PROVE  Notice'
  BY <1>11 DEF SocketErrors, At, SetState, State
<1>12. ASSUME NEW c \in Conns, SocketCloses(c)
      PROVE  Notice'
  BY <1>12 DEF SocketCloses, Freed, NoConn, ScheduleReconnect, SetState, State
<1>13. ASSUME NEW c \in Conns, OutputArrives(c)
      PROVE  Notice'
  BY <1>13 DEF OutputArrives
<1>14. ASSUME NEW c \in Conns, ErrorArrives(c)
      PROVE  Notice'
  BY <1>14 DEF ErrorArrives, SetState, State
<1>15. ASSUME NEW c \in Conns, ExitedArrives(c)
      PROVE  Notice'
  BY <1>15 DEF ExitedArrives, At, SetState, State
<1>16. CASE UNCHANGED vars
  BY <1>16 DEF vars
<1> QED
  BY <1>1, <1>2, <1>3, <1>4, <1>5, <1>6, <1>7, <1>8, <1>9, <1>10, <1>11, <1>12, <1>13, <1>14,
      <1>15, <1>16
  DEF Next, Timers, Network

\* A size is sent to the socket in the ref, which is that of the live call.
LEMMA SizesStayKnown ==
  ASSUME BrowserInv, [Next]_vars
  PROVE  SizeIsKnown'
<1> USE NoSocketAssumption DEF BrowserInv, TypeOK, Stages, Calls, Refs, Connecting, Is, LiveConns, SizeIsKnown,
                           refVars, sizeVars, termVars
<1>1. ASSUME NEW c \in Conns, Mount(c)
      PROVE  SizeIsKnown'
  BY <1>1 DEF Mount, Connect, SetState, State, NoConn
<1>2. CASE Unmount
  BY <1>2, UnmountClears DEF Unmount
<1>3. CASE TerminalReady
  BY <1>3 DEF TerminalReady, Resize
<1>4. CASE TerminalResized
  BY <1>4 DEF TerminalResized, Resize
<1>5. CASE NoticeTimerFires
  BY <1>5 DEF NoticeTimerFires, Connected
<1>6. ASSUME NEW c \in Conns, ReconnectTimerFires(c)
      PROVE  SizeIsKnown'
  BY <1>6 DEF ReconnectTimerFires, Connect, SetState, State, NoConn
<1>7. ASSUME NEW c \in Conns, FetchFails(c)
      PROVE  SizeIsKnown'
  BY <1>7 DEF FetchFails, Freed, NoConn, ScheduleReconnect, SetState, State
<1>8. ASSUME NEW c \in Conns, FetchPasses(c)
      PROVE  SizeIsKnown'
  BY <1>8 DEF FetchPasses, At, Freed, NoConn
<1>9. ASSUME NEW c \in Conns,
              NEW reason \in {"auth_required", "auth_check_failed"}, FetchRefused(c, reason)
      PROVE  SizeIsKnown'
  BY <1>9 DEF FetchRefused, Freed, NoConn, SetState, State
<1>10. ASSUME NEW c \in Conns, SocketOpens(c)
      PROVE  SizeIsKnown'
  BY <1>10 DEF SocketOpens, ShowConnected, Connected, At
<1>11. ASSUME NEW c \in Conns, SocketErrors(c)
      PROVE  SizeIsKnown'
  BY <1>11 DEF SocketErrors, At, SetState, State
<1>12. ASSUME NEW c \in Conns, SocketCloses(c)
      PROVE  SizeIsKnown'
  BY <1>12 DEF SocketCloses, Freed, NoConn, ScheduleReconnect, SetState, State
<1>13. ASSUME NEW c \in Conns, OutputArrives(c)
      PROVE  SizeIsKnown'
  BY <1>13 DEF OutputArrives
<1>14. ASSUME NEW c \in Conns, ErrorArrives(c)
      PROVE  SizeIsKnown'
  BY <1>14 DEF ErrorArrives, SetState, State
<1>15. ASSUME NEW c \in Conns, ExitedArrives(c)
      PROVE  SizeIsKnown'
  BY <1>15 DEF ExitedArrives, At, SetState, State
<1>16. CASE UNCHANGED vars
  BY <1>16 DEF vars
<1> QED
  BY <1>1, <1>2, <1>3, <1>4, <1>5, <1>6, <1>7, <1>8, <1>9, <1>10, <1>11, <1>12, <1>13, <1>14,
      <1>15, <1>16
  DEF Next, Timers, Network

-----------------------------------------------------------------------------
\* Calls say of the live one, the ref and the timer in one invariant what keeps the
\* page, for any number of calls, mounts and sizes, from a second connection and
\* from a status that is not true.
THEOREM BrowserInvariant == Spec => []BrowserInv
<1>1. Init => BrowserInv
  <2> SUFFICES ASSUME Init PROVE BrowserInv
    OBVIOUS
  <2> USE BoundsAssumption DEF Init, NoConn
  <2>1. TypeOK
    <3>1. connectionState \in StateTypes
      BY StatesTyped DEF Phases, Reasons
    <3>2. conns \in CallTypes /\ remoteSize \in [Conns -> 0..MaxSize]
      BY DEF CallTypes, Stages
    <3>3. mounts \in 0..MaxMounts /\ latestSize \in 0..MaxSize
      OBVIOUS
    <3> HIDE DEF Init
    <3>4. /\ socketRef \in Conns \cup {NoSocket}
          /\ {mounted, reconnectTimer, noticeTimer, remoteExited, terminal, dropped} \subseteq BOOLEAN
      BY DEF Init
    <3> QED
      BY <3>1, <3>2, <3>3, <3>4 DEF TypeOK, StateTypes, CallTypes
  <2>2. Calls /\ Refs
    BY DEF Calls, Refs, Connecting, Is
  <2>3. Exit /\ Status /\ Notice /\ SizeIsKnown
    BY DEF Exit, Status, Notice, NoticeHasTimer, SizeIsKnown, LiveConns
  <2> QED
    BY <2>1, <2>2, <2>3 DEF BrowserInv
<1>2. BrowserInv /\ [Next]_vars => BrowserInv'
  BY TypesStay, CallsStaySingle, RefsStayTrue, ExitStaysFinal, StatusStaysTrue,
      NoticeKeepsTimer,
     SizesStayKnown
  DEF BrowserInv
<1> QED
  BY <1>1, <1>2, PTL DEF Spec

\* OneConnection: there is never a second connection.
THEOREM NoSecondConnection == Spec => []OneConnection
<1>1. BrowserInv => OneConnection
  <2> SUFFICES ASSUME BrowserInv PROVE OneConnection
    OBVIOUS
  <2>1. Cardinality(LiveConns) <= 1
    <3>1. CASE LiveConns = {}
      BY <3>1, FS_EmptySet
    <3>2. CASE LiveConns # {}
      <4>1. PICK c \in LiveConns : TRUE
        BY <3>2
      <4>2. LiveConns = {c}
        BY <4>1 DEF LiveConns, BrowserInv, Calls
      <4>3. Cardinality({c}) = 1
        BY FS_Singleton
      <4> QED
        BY <4>2, <4>3
    <3> QED
      BY <3>1, <3>2
  <2> QED
    BY <2>1 DEF OneConnection, LiveConns, BrowserInv, Calls, Refs, Connecting
<1> QED
  BY <1>1, BrowserInvariant, PTL

\* TypeOK: the states shown and the calls are ones that exist.
THEOREM PageTypes == Spec => []TypeOK
BY BrowserInvariant, PTL DEF BrowserInv

\* StatusIsTrue: what the status bar says is so.
THEOREM PageTellsTheTruth == Spec => []StatusIsTrue
<1>1. BrowserInv => StatusIsTrue
  BY DEF BrowserInv, Status, StatusIsTrue
<1> QED
  BY <1>1, BrowserInvariant, PTL

\* NoticeHasTimer: a notice that is shown has the timer that takes it down.
THEOREM NoticeIsTakenDown == Spec => []NoticeHasTimer
<1>1. BrowserInv => NoticeHasTimer
  BY DEF BrowserInv, Notice
<1> QED
  BY <1>1, BrowserInvariant, PTL

\* SizeIsKnown: the server knows the terminal's size on every open connection.
THEOREM ServerKnowsSize == Spec => []SizeIsKnown
BY BrowserInvariant, PTL DEF BrowserInv

\* ExitIsFinal: after the command has exited nothing but a new mount changes the state
\* or connects again.
THEOREM ExitStays == Spec => ExitIsFinal
<1> DEFINE Stays == UNCHANGED <<connectionState, reconnectTimer>> /\ LiveConns' \subseteq LiveConns
<1>1. ASSUME BrowserInv, [Next]_vars, mounted, mounted', remoteExited
      PROVE  Stays
  <2> USE <1>1 DEF BrowserInv, TypeOK, Exit, LiveConns, Is, refVars, sizeVars, termVars
  <2>1. ASSUME NEW c \in Conns, Mount(c) \/ ReconnectTimerFires(c) PROVE FALSE
    BY <2>1 DEF Mount, ReconnectTimerFires
  <2>2. ASSUME NEW c \in Conns, ~conns[c].live, Network(c) PROVE Stays
    <3>1. CASE FetchFails(c)
      BY <2>2, <3>1 DEF FetchFails, Freed, NoConn
    <3>5. CASE FetchPasses(c)
      BY <2>2, <3>5 DEF FetchPasses, Freed, NoConn
    <3>2. ASSUME NEW reason \in {"auth_required", "auth_check_failed"}, FetchRefused(c, reason)
          PROVE  Stays
      BY <2>2, <3>2 DEF FetchRefused, Freed, NoConn
    <3>3. CASE SocketOpens(c) \/ SocketErrors(c)
      BY <2>2, <3>3, ZenonT(30) DEF SocketOpens, SocketErrors, At
    <3>4. CASE SocketCloses(c)
      BY <2>2, <3>4 DEF SocketCloses, Freed, NoConn
    <3> QED
      BY <2>2, <3>1, <3>2, <3>3, <3>4, <3>5
      DEF Network, OutputArrives, ErrorArrives, ExitedArrives
  <2>3. ASSUME NEW c \in Conns, conns[c].stage = "closing", Network(c) PROVE Stays
    BY <2>3 DEF Network, FetchFails, FetchPasses, FetchRefused, SocketOpens, SocketErrors,
                SocketCloses, OutputArrives, ErrorArrives, ExitedArrives, Freed, NoConn
  <2>4. CASE Unmount \/ TerminalReady \/ TerminalResized
    BY <2>4 DEF Unmount, TerminalReady, TerminalResized
  <2>5. CASE NoticeTimerFires
    BY <2>5 DEF NoticeTimerFires, Connected
  <2>6. CASE UNCHANGED vars
    BY <2>6 DEF vars
  <2> QED
    BY <2>1, <2>2, <2>3, <2>4, <2>5, <2>6 DEF Next, Timers
<1>2. BrowserInv /\ [Next]_vars => [mounted /\ mounted' /\ remoteExited => Stays]_vars
  BY <1>1
<1> QED
  BY <1>2, BrowserInvariant, PTL DEF Spec, ExitIsFinal

\* UnmountIsQuiet: what is left of an unmounted effect changes no state and starts nothing.
THEOREM UnmountedIsQuiet == Spec => UnmountIsQuiet
<1> DEFINE Quiet == /\ UNCHANGED connectionState
                    /\ \A c \in Conns : conns'[c] # conns[c] =>
                                         conns'[c].stage \in {"closing", "free"}
<1>1. ASSUME BrowserInv, [Next]_vars, ~mounted, ~mounted'
      PROVE  Quiet
  <2> USE <1>1 DEF BrowserInv, TypeOK, Calls, Is, refVars, sizeVars, termVars
  <2>1. ASSUME NEW c \in Conns, Mount(c) \/ ReconnectTimerFires(c) PROVE FALSE
    BY <2>1 DEF Mount, ReconnectTimerFires
  <2>2. ASSUME NEW c \in Conns, Network(c) PROVE Quiet
    BY <2>2 DEF Network, FetchFails, FetchPasses, FetchRefused, SocketOpens, SocketErrors,
                SocketCloses, OutputArrives, ErrorArrives, ExitedArrives, At, Freed, NoConn
  <2>3. CASE Unmount \/ TerminalReady \/ TerminalResized
    BY <2>3 DEF Unmount, TerminalReady, TerminalResized
  <2>4. CASE NoticeTimerFires
    BY <2>4 DEF NoticeTimerFires, Notice, NoticeHasTimer, Connected
  <2>5. CASE UNCHANGED vars
    BY <2>5 DEF vars
  <2> QED
    BY <2>1, <2>2, <2>3, <2>4, <2>5 DEF Next, Timers
<1>2. BrowserInv /\ [Next]_vars => [~mounted /\ ~mounted' => Quiet]_vars
  BY <1>1
<1> QED
  BY <1>2, BrowserInvariant, PTL DEF Spec, UnmountIsQuiet
=============================================================================
