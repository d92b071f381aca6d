---- MODULE DaemonClientProofs ----
(***************************************************************************)
(* What the clients of the Daemon see: sessions, requests, lock screens and *)
(* prompts agree with the connections that are open.  ConnInv is inductive. *)
(***************************************************************************)
EXTENDS DaemonSessionProofs, DaemonRequestProofs, TLAPS

----------------------------------------------------------------------------
(* Connections, and what the compositors display.                           *)

\* What a step may do to the registry: add a connection that is new, or remove some.
ConnStep ==
    \/ \E c \in Conn :
          /\ conns[c] = "new" /\ conns' = [conns EXCEPT ![c] = "open"]
          /\ registry' = registry \cup {c} /\ sessions' = sessions
    \/ \E c \in Conn :
          /\ conns' = [conns EXCEPT ![c] = "gone"] /\ registry' = registry \ {c}
          /\ \A s \in DOMAIN sessions' : sessions'[s].compositor_conn # c
          /\ \A id \in DOMAIN pending' :
                c \notin {pending'[id].compositor_conn, pending'[id].requester_conn}
    \/ conns' = conns /\ registry' \subseteq registry

\* What a step may do to a session that has a compositor afterwards: that is the one it
\* had or an open connection, and if it is to be locked and can be told, it was.
DisplayStep ==
    \A s \in DOMAIN sessions' :
        LET c == sessions'[s].compositor_conn
            same == s \in DOMAIN sessions /\ c = sessions[s].compositor_conn
        IN  c # NoConn =>
              /\ same \/ (c \in Conn /\ conns[c] = "open")
              /\ sessions'[s].state = "Locked" /\ c \in registry =>
                    \/ <<c, s>> \in lock_screens'
                    \/ same /\ sessions[s].state = "Locked" /\ <<c, s>> \notin lock_screens

\* Every step of the daemon is such a step for the connections ...
LEMMA ConnSteps ==
    ASSUME SessionInv, [Next]_vars
    PROVE  ConnStep
<1> USE DEF connVars, vars
<1>1. CASE ConnectionSteps
  <2>1. ASSUME NEW c \in Conn, Connected(c) PROVE ConnStep
    BY <2>1, Zenon DEF Connected, ConnStep, sessionVars
  <2>2. ASSUME NEW c \in Conn, Disconnected(c) PROVE ConnStep
    <3>1. /\ conns' = [conns EXCEPT ![c] = "gone"] /\ registry' = registry \ {c}
          /\ sessions' = [s \in DOMAIN sessions |->
                            IF sessions[s].compositor_conn = c
                            THEN [sessions[s] EXCEPT !.compositor_conn = NoConn] ELSE sessions[s]]
          /\ pending' = [id \in DOMAIN pending \ E!PendingOn(c) |-> pending[id]]
      BY <2>2 DEF Disconnected, E!abandon_connection, E!Forget, E!Restrict
    <3>2. ASSUME NEW s \in DOMAIN sessions' PROVE sessions'[s].compositor_conn # c
      <4>1. sessions[s] \in SessionContext /\ s \in DOMAIN sessions
        BY <3>1 DEF SessionInv, GoodContext
      <4>2. [sessions[s] EXCEPT !.compositor_conn = NoConn].compositor_conn = NoConn
        BY <4>1 DEF SessionContext
      <4> QED BY <3>1, <4>1, <4>2, NobodyAssumption
    <3>3. ASSUME NEW id \in DOMAIN pending'
          PROVE  c \notin {pending'[id].compositor_conn, pending'[id].requester_conn}
      BY <3>1 DEF E!PendingOn
    <3> QED BY <3>1, <3>2, <3>3, Zenon DEF ConnStep
  <2> QED BY <1>1, <2>1, <2>2 DEF ConnectionSteps
<1> SUFFICES ASSUME ~ConnectionSteps PROVE conns' = conns /\ registry' \subseteq registry
  BY <1>1 DEF ConnStep
<1>2. CASE SessionRequests
  <2>1. ASSUME NEW c, NEW uid, NEW seat, NEW graphical, NEW fault, NEW spawn_fault,
               CreateSession(c, uid, seat, graphical, fault, spawn_fault)
        PROVE  conns' = conns /\ registry' \subseteq registry
    BY <2>1 DEF CreateSession
  <2>2. ASSUME NEW c, NEW s, TerminateSession(c, s) PROVE conns' = conns /\ registry' \subseteq registry
    BY <2>2 DEF TerminateSession
  <2>3. ASSUME NEW c, NEW s, RegisterCompositor(c, s) PROVE conns' = conns /\ registry' \subseteq registry
    BY <2>3 DEF RegisterCompositor
  <2> QED BY <1>2, <2>1, <2>2, <2>3, Zenon DEF SessionRequests
<1>3. CASE ElevationRequests
  BY <1>3, Zenon DEF ElevationRequests, RequestElevation, RespondCancelled, RespondPassword
<1>4. CASE TimerSteps
  BY <1>4, Zenon DEF TimerSteps, time_passes, timer_fires, on_idle_tick
<1>5. CASE CompositorSteps
  BY <1>5 DEF CompositorSteps, compositor_exits, reap_children
<1>6. CASE SwitchRequests \/ LockRequests
  BY <1>6, Zenon DEF SwitchRequests, LockRequests, SwitchSession, LockSession, Unlock
<1>7. CASE InhibitRequests \/ ActivityReports
  BY <1>7 DEF InhibitRequests, ActivityReports, Inhibit, ReleaseInhibit, ReportActivity
<1>8. CASE SuspendRequests \/ PowerDownRequests
  BY <1>8, Zenon DEF SuspendRequests, PowerDownRequests, Suspend, Reboot, PowerOff
<1>9. CASE Reloads \/ Terminate \/ loop_ends
  BY <1>9 DEF Reloads, ReloadConfig, Terminate, loop_ends
<1>10. CASE MachineSteps \/ UNCHANGED vars
  BY <1>10 DEF MachineSteps, wakes, transition_lands
<1> QED BY <1>2, <1>3, <1>4, <1>5, <1>6, <1>7, <1>8, <1>9, <1>10 DEF Next

\* ... and for the displays.  Most handlers leave connections and lock screens alone, or
\* take a session its compositor.
LEMMA QuietDisplays ==
    ASSUME lock_screens' = lock_screens,
           \A s \in DOMAIN sessions' :
              \/ sessions'[s].compositor_conn = NoConn
              \/ /\ s \in DOMAIN sessions
                 /\ sessions'[s].compositor_conn = sessions[s].compositor_conn
                 /\ sessions'[s].state = sessions[s].state
    PROVE  DisplayStep
BY DEF DisplayStep

\* The ones that leave the sessions alone.
LEMMA IdleDisplays ==
    ASSUME \/ \E c \in Conn : Connected(c)
           \/ SwitchRequests \/ InhibitRequests \/ ElevationRequests \/ ActivityReports
           \/ SuspendRequests \/ time_passes \/ Reloads \/ loop_ends \/ MachineSteps
           \/ UNCHANGED vars
    PROVE  UNCHANGED <<sessions, lock_screens>>
<1> USE DEF sessionVars, vars
<1>1. CASE \E c \in Conn : Connected(c)
  BY <1>1 DEF Connected
<1>2. CASE SwitchRequests \/ InhibitRequests
  BY <1>2 DEF SwitchRequests, SwitchSession, InhibitRequests, Inhibit, ReleaseInhibit
<1>3. CASE ElevationRequests
  BY <1>3, Zenon DEF ElevationRequests, RequestElevation, RespondCancelled, RespondPassword
<1>4. CASE ActivityReports \/ SuspendRequests \/ Reloads
  BY <1>4, Zenon DEF ActivityReports, ReportActivity, SuspendRequests, Suspend, Reloads, ReloadConfig
<1>5. CASE time_passes \/ loop_ends \/ MachineSteps \/ UNCHANGED vars
  BY <1>5 DEF time_passes, loop_ends, MachineSteps, wakes, transition_lands
<1> QED BY <1>1, <1>2, <1>3, <1>4, <1>5

\* The ones that end, begin or watch sessions.
LEMMA LifecycleDisplays ==
    ASSUME SessionInv,
           \/ \E c \in Conn : Disconnected(c)
           \/ \E c \in Conn, uid \in Uid, seat \in SeatId, graphical \in BOOLEAN,
                 fault \in Fault, spawn_fault \in SpawnFault :
                    CreateSession(c, uid, seat, graphical, fault, spawn_fault)
           \/ \E c \in Conn, s \in Session : TerminateSession(c, s)
           \/ PowerDownRequests \/ Terminate \/ CompositorSteps
    PROVE  DisplayStep
<1> DEFINE Kept(s) == /\ s \in DOMAIN sessions
                      /\ sessions'[s].compositor_conn = sessions[s].compositor_conn
                      /\ sessions'[s].state = sessions[s].state
           Quiet == /\ lock_screens' = lock_screens
                    /\ \A s \in DOMAIN sessions' :
                          sessions'[s].compositor_conn = NoConn \/ Kept(s)
<1> SUFFICES Quiet
  BY QuietDisplays
<1>1. \A s \in DOMAIN sessions : sessions[s] \in SessionContext
  BY DEF SessionInv, GoodContext
<1>2. ASSUME NEW c \in Conn, Disconnected(c) PROVE Quiet
  <2>1. /\ lock_screens' = lock_screens
        /\ sessions' = [s \in DOMAIN sessions |->
                          IF sessions[s].compositor_conn = c
                          THEN [sessions[s] EXCEPT !.compositor_conn = NoConn] ELSE sessions[s]]
    BY <1>2 DEF Disconnected
  <2> QED BY <1>1, <2>1 DEF SessionContext
<1>3. ASSUME NEW c \in Conn, NEW uid \in Uid, NEW seat \in SeatId, NEW graphical \in BOOLEAN,
             NEW fault \in Fault, NEW spawn_fault \in SpawnFault,
             CreateSession(c, uid, seat, graphical, fault, spawn_fault)
      PROVE  Quiet
  <2> DEFINE new == IF graphical THEN with_compositor(begun(uid), spawn_fault) ELSE begun(uid)
  <2>1. /\ lock_screens' = lock_screens
        /\ sessions' = with_session(next_session, new) \/ sessions' = sessions
    BY <1>3 DEF CreateSession
  <2>2. begun(uid).compositor_conn = NoConn
    BY DEF begun
  <2>3. with_compositor(begun(uid), spawn_fault).compositor_conn = NoConn
    BY DEF begun, with_compositor
  <2>4. new.compositor_conn = NoConn
    BY <2>2, <2>3
  <2> HIDE DEF new
  <2> QED BY <2>1, <2>4 DEF with_session
<1>4. ASSUME NEW S, sessions' = terminated(S), lock_screens' = lock_screens PROVE Quiet
  BY <1>4 DEF terminated, Restrict
<1>5. ASSUME NEW c \in Conn, NEW s \in Session, TerminateSession(c, s) PROVE Quiet
  BY <1>4, <1>5 DEF TerminateSession
<1>6. CASE PowerDownRequests \/ Terminate
  BY <1>4, <1>6, Zenon DEF PowerDownRequests, Reboot, PowerOff, Terminate, all_sessions_terminated
<1>7. ASSUME NEW s \in Session, compositor_exits(s) PROVE Quiet
  <2>1. /\ lock_screens' = lock_screens /\ s \in DOMAIN sessions
        /\ sessions' = [sessions EXCEPT ![s] = [sessions[s] EXCEPT !.process = "exited"]]
    BY <1>7 DEF compositor_exits
  <2>2. /\ [sessions[s] EXCEPT !.process = "exited"].compositor_conn = sessions[s].compositor_conn
        /\ [sessions[s] EXCEPT !.process = "exited"].state = sessions[s].state
    BY <1>1, <2>1 DEF SessionContext
  <2> QED BY <2>1, <2>2 DEF SessionInv
<1>8. ASSUME NEW faults, reap_children(faults) PROVE Quiet
  <2>1. /\ lock_screens' = lock_screens /\ DOMAIN sessions' = DOMAIN sessions
        /\ \A s \in DOMAIN sessions :
              sessions'[s] \in {sessions[s], restarted(sessions[s], faults[s])}
    BY <1>8 DEF reap_children
  <2>2. ASSUME NEW s \in DOMAIN sessions PROVE restarted(sessions[s], faults[s]).compositor_conn = NoConn
    BY <1>1, <2>2 DEF restarted, with_compositor, SessionContext
  <2> QED BY <2>1, <2>2
<1> QED BY <1>2, <1>3, <1>5, <1>6, <1>7, <1>8 DEF CompositorSteps

\* A compositor that registers for a locked session is told to show the lock screen.
LEMMA RegisterDisplays ==
    ASSUME SessionInv, NEW c \in Conn, NEW s \in Session, RegisterCompositor(c, s)
    PROVE  DisplayStep
<1> DEFINE state == transition(sessions[s].state, IF L!is_locked(s) THEN "Locked" ELSE "Active")
           ctx == [sessions[s] EXCEPT !.compositor_conn = c, !.state = state]
<1>1. /\ s \in DOMAIN sessions /\ conns[c] = "open"
      /\ sessions' = [sessions EXCEPT ![s] = ctx]
      /\ lock_screens' = IF L!is_locked(s) /\ c \in registry
                         THEN lock_screens \cup {<<c, s>>} ELSE lock_screens
  BY Zenon DEF RegisterCompositor, handles
<1>2. sessions[s] \in SessionContext /\ sessions[s].state \in SessionStates
  BY <1>1, Zenon DEF SessionInv, GoodContext, SessionContext
<1>3. state \in {sessions[s].state, IF L!is_locked(s) THEN "Locked" ELSE "Active"}
  BY <1>2, TransitionStates DEF SessionStates
<1>4. sessions[s].state = "Locked" => L!is_locked(s)
  BY <1>1 DEF SessionInv, LockedStateIsBacked
<1> HIDE DEF state
<1>5. ctx.compositor_conn = c /\ ctx.state = state
  BY <1>2 DEF SessionContext
<1> HIDE DEF ctx
<1>6. /\ DOMAIN sessions' = DOMAIN sessions
      /\ \A t \in DOMAIN sessions : sessions'[t] = IF t = s THEN ctx ELSE sessions[t]
  BY <1>1 DEF SessionInv
<1>7. state = "Locked" /\ c \in registry => <<c, s>> \in lock_screens'
  BY <1>1, <1>3, <1>4
<1>8. \A d, t : <<d, t>> \in lock_screens => <<d, t>> \in lock_screens'
  BY <1>1
<1> QED BY <1>1, <1>5, <1>6, <1>7, <1>8 DEF DisplayStep

\* A step that moves sessions to Locked shows their lock screens.
LEMMA LockDisplays ==
    ASSUME SessionInv, NEW S, sessions' = transitioned(S, "Locked"),
           lock_screens' = lock_screens_shown(S)
    PROVE  DisplayStep
<1>1. sessions' = [s \in DOMAIN sessions |->
                     IF s \in S
                     THEN [sessions[s] EXCEPT !.state = transition(sessions[s].state, "Locked")]
                     ELSE sessions[s]]
  BY DEF transitioned
<1>2. \A s \in DOMAIN sessions : sessions[s] \in SessionContext
  BY DEF SessionInv, GoodContext
<1>3. /\ DOMAIN sessions' = DOMAIN sessions
      /\ \A s \in DOMAIN sessions : sessions'[s].compositor_conn = sessions[s].compositor_conn
      /\ \A s \in DOMAIN sessions \ S : sessions'[s] = sessions[s]
  BY <1>1, <1>2 DEF SessionContext
<1>4. \A p \in lock_screens : p \in lock_screens'
  BY DEF lock_screens_shown
<1>5. \A s \in DOMAIN sessions \cap S : sessions[s].compositor_conn \in registry
          => <<sessions[s].compositor_conn, s>> \in lock_screens'
  BY DEF lock_screens_shown
<1> QED BY <1>3, <1>4, <1>5 DEF DisplayStep

\* Unlock takes down the lock screen of the session it activates, and no other.
LEMMA UnlockDisplays ==
    ASSUME SessionInv, NEW c \in Conn, NEW s \in Session, NEW valid \in BOOLEAN,
           Unlock(c, s, valid)
    PROVE  DisplayStep
<1>1. CASE UNCHANGED <<sessions, lock_screens>>
  BY <1>1, QuietDisplays
<1>2. CASE /\ sessions' = transitioned({s}, "Active")
           /\ \A p \in lock_screens : p[2] # s => p \in lock_screens'
  <2>1. sessions' = [t \in DOMAIN sessions |->
                       IF t \in {s}
                       THEN [sessions[t] EXCEPT !.state = transition(sessions[t].state, "Active")]
                       ELSE sessions[t]]
    BY <1>2 DEF transitioned
  <2>2. \A t \in DOMAIN sessions : sessions[t] \in SessionContext
    BY DEF SessionInv, GoodContext
  <2>3. \A state \in SessionStates : transition(state, "Active") # "Locked"
    BY DEF transition, can_transition_to, SessionStates
  <2>4. /\ DOMAIN sessions' = DOMAIN sessions
        /\ \A t \in DOMAIN sessions : sessions'[t].compositor_conn = sessions[t].compositor_conn
        /\ s \in DOMAIN sessions => sessions'[s].state # "Locked"
        /\ \A t \in DOMAIN sessions \ {s} : sessions'[t] = sessions[t]
    BY <2>1, <2>2, <2>3 DEF SessionContext
  <2>5. \A d, t : <<d, t>> \in lock_screens /\ t # s => <<d, t>> \in lock_screens'
    BY <1>2
  <2> QED BY <2>4, <2>5 DEF DisplayStep
<1>3. \A C : \A p \in lock_screens : p[2] # s => p \in lock_screens \ (C \X {s})
  OBVIOUS
<1> QED BY <1>1, <1>2, <1>3 DEF Unlock

\* Every step of the daemon is such a step.
LEMMA DisplaySteps ==
    ASSUME SessionInv, [Next]_vars
    PROVE  DisplayStep
<1>1. CASE LockRequests
  <2>1. ASSUME NEW c \in Conn, NEW s \in Session, LockSession(c, s) PROVE DisplayStep
    BY <2>1, LockDisplays DEF LockSession
  <2> QED BY <1>1, <2>1, UnlockDisplays DEF LockRequests
<1>2. CASE timer_fires
  BY <1>2, LockDisplays DEF timer_fires, on_idle_tick
<1>3. CASE SessionRequests
  BY <1>3, LifecycleDisplays, RegisterDisplays DEF SessionRequests
<1>4. CASE ConnectionSteps
  BY <1>4, LifecycleDisplays, IdleDisplays, QuietDisplays DEF ConnectionSteps
<1>5. CASE PowerDownRequests \/ Terminate \/ CompositorSteps
  BY <1>5, LifecycleDisplays
<1>6. CASE \/ SwitchRequests \/ InhibitRequests \/ ElevationRequests \/ ActivityReports
           \/ SuspendRequests \/ time_passes \/ Reloads \/ loop_ends \/ MachineSteps
           \/ UNCHANGED vars
  BY <1>6, IdleDisplays, QuietDisplays
<1> QED BY <1>1, <1>2, <1>3, <1>4, <1>5, <1>6 DEF Next, TimerSteps

\* Lock screens are shown to connections, for sessions.
ScreenInv == lock_screens \subseteq Conn \X Session

\* Sessions that are locked show theirs to an outbox there is.
LEMMA ShownScreens ==
    ASSUME SessionInv, RequestInv, ScreenInv, NEW S, lock_screens' = lock_screens_shown(S)
    PROVE  ScreenInv'
BY DEF lock_screens_shown, ScreenInv, SessionInv, RequestInv

\* Every step keeps them so.
LEMMA ScreenSteps ==
    ASSUME SessionInv, RequestInv, ScreenInv, [Next]_vars
    PROVE  ScreenInv'
<1>1. CASE LockRequests
  <2>1. ASSUME NEW c \in Conn, NEW s \in Session, LockSession(c, s) PROVE ScreenInv'
    BY <2>1, ShownScreens DEF LockSession
  <2>2. ASSUME NEW c \in Conn, NEW s \in Session, NEW valid \in BOOLEAN, Unlock(c, s, valid)
        PROVE  ScreenInv'
    BY <2>2 DEF Unlock, ScreenInv
  <2> QED BY <1>1, <2>1, <2>2 DEF LockRequests
<1>2. CASE timer_fires
  BY <1>2, ShownScreens DEF timer_fires, on_idle_tick
<1>3. CASE lock_screens' = lock_screens
  BY <1>3 DEF ScreenInv
<1>4. CASE SessionRequests
  <2>1. ASSUME NEW c \in Conn, NEW s \in Session, RegisterCompositor(c, s) PROVE ScreenInv'
    BY <2>1 DEF RegisterCompositor, ScreenInv
  <2>2. ASSUME NEW c, NEW uid, NEW seat, NEW graphical, NEW fault, NEW spawn_fault,
               CreateSession(c, uid, seat, graphical, fault, spawn_fault)
        PROVE  lock_screens' = lock_screens
    BY <2>2 DEF CreateSession
  <2>3. ASSUME NEW c, NEW s, TerminateSession(c, s) PROVE lock_screens' = lock_screens
    BY <2>3 DEF TerminateSession
  <2> QED BY <1>3, <1>4, <2>1, <2>2, <2>3 DEF SessionRequests
<1>5. CASE ConnectionSteps
  <2>1. ASSUME NEW c \in Conn, Disconnected(c) PROVE lock_screens' = lock_screens
    BY <2>1 DEF Disconnected
  <2> QED BY <1>3, <1>5, <2>1, IdleDisplays DEF ConnectionSteps
<1>6. CASE PowerDownRequests \/ Terminate
  BY <1>3, <1>6, Zenon DEF PowerDownRequests, Reboot, PowerOff, Terminate, all_sessions_terminated
<1>7. CASE CompositorSteps
  BY <1>3, <1>7 DEF CompositorSteps, compositor_exits, reap_children
<1>8. CASE \/ SwitchRequests \/ InhibitRequests \/ ElevationRequests \/ ActivityReports
           \/ SuspendRequests \/ time_passes \/ Reloads \/ loop_ends \/ MachineSteps
           \/ UNCHANGED vars
  BY <1>3, <1>8, IdleDisplays
<1> QED BY <1>1, <1>2, <1>4, <1>5, <1>6, <1>7, <1>8 DEF Next, TimerSteps

\* The inductive invariant of connections, lock screens and prompts.  A prompt was sent
\* under an id handed out before, to a connection that is or was open.
ConnInv ==
    /\ conns \in [Conn -> {"new", "open", "gone"}]
    /\ \A id \in DOMAIN pending :
          pending[id].compositor_conn \in Conn /\ pending[id].requester_conn \in Conn
    /\ NoDanglingConnection
    /\ ScreenInv /\ LockedStateShowsLockScreen
    /\ \A p \in prompts : /\ p \in Conn \X (1..next_request)
                          /\ conns[p[1]] # "new"
    /\ PromptsMatchPending

\* Sessions and requests refer to open connections only.
LEMMA DanglingSteps ==
    ASSUME SessionInv, RequestInv, ConnInv, [Next]_vars
    PROVE  /\ conns' \in [Conn -> {"new", "open", "gone"}]
           /\ \A id \in DOMAIN pending' :
                 pending'[id].compositor_conn \in Conn /\ pending'[id].requester_conn \in Conn
           /\ NoDanglingConnection'
<1>1. ConnStep /\ DisplayStep
  BY ConnSteps, DisplaySteps
<1>2. /\ conns' \in [Conn -> {"new", "open", "gone"}]
      /\ \A c \in Conn : conns[c] = "open" =>
            \/ conns'[c] = "open"
            \/ /\ \A s \in DOMAIN sessions' : sessions'[s].compositor_conn # c
               /\ \A id \in DOMAIN pending' :
                     c \notin {pending'[id].compositor_conn, pending'[id].requester_conn}
  BY <1>1 DEF ConnInv, ConnStep
<1>3. \A s \in DOMAIN sessions : sessions[s].compositor_conn # NoConn =>
          sessions[s].compositor_conn \in Conn /\ conns[sessions[s].compositor_conn] = "open"
  BY DEF SessionInv, GoodContext, SessionContext, ConnInv, NoDanglingConnection
<1>4. \A s \in DOMAIN sessions' : sessions'[s].compositor_conn # NoConn =>
          /\ sessions'[s].compositor_conn \in Conn
          /\ conns[sessions'[s].compositor_conn] = "open"
  BY <1>1, <1>3, Zenon DEF DisplayStep
<1>5. ASSUME NEW id \in DOMAIN pending'
      PROVE  /\ pending'[id].compositor_conn \in Conn /\ pending'[id].requester_conn \in Conn
             /\ conns[pending'[id].compositor_conn] = "open"
             /\ conns[pending'[id].requester_conn] = "open"
  <2>1. CASE id \in DOMAIN pending /\ pending'[id] = pending[id]
    BY <2>1 DEF ConnInv, NoDanglingConnection
  <2>2. CASE \E ids : Closes(ids)
    BY <2>1, <2>2, <1>5 DEF Closes
  <2>3. CASE \E c \in Conn : Opens(c)
    <3>1. PICK c \in Conn : Opens(c)
      BY <2>3
    <3>2. id = next_request' \/ (id \in DOMAIN pending /\ pending'[id] = pending[id])
      BY <3>1, <1>5 DEF Opens
    <3>3. PICK s \in DOMAIN sessions :
             /\ sessions[s].compositor_conn # NoConn
             /\ pending'[next_request'] =
                   [session |-> s, compositor_conn |-> sessions[s].compositor_conn,
                    requester_conn |-> c]
      BY <3>1 DEF Opens
    <3>4. conns[c] = "open"
      BY <3>1 DEF Opens
    <3> QED BY <1>3, <2>1, <3>2, <3>3, <3>4
  <2> QED BY <2>2, <2>3, StepsOpenOrClose
<1> QED BY <1>2, <1>4, <1>5 DEF NoDanglingConnection

\* A locked session's reachable compositor shows the lock screen.
LEMMA LockScreenSteps ==
    ASSUME SessionInv, RequestInv, ConnInv, [Next]_vars
    PROVE  LockedStateShowsLockScreen'
<1>1. ConnStep /\ DisplayStep
  BY ConnSteps, DisplaySteps
<1> SUFFICES ASSUME NEW s \in DOMAIN sessions', sessions'[s].state = "Locked",
                    sessions'[s].compositor_conn \in registry'
             PROVE  <<sessions'[s].compositor_conn, s>> \in lock_screens'
  BY DEF LockedStateShowsLockScreen
<1> DEFINE c == sessions'[s].compositor_conn
<1>2. c # NoConn /\ c \in registry
  <2>1. registry \subseteq Conn /\ NoConn \notin Conn
    BY NobodyAssumption DEF RequestInv
  <2>2. CASE \E d \in Conn : /\ conns[d] = "new" /\ registry' = registry \cup {d}
                             /\ sessions' = sessions
    BY <2>1, <2>2 DEF ConnInv, NoDanglingConnection
  <2>3. CASE registry' \subseteq registry
    BY <2>1, <2>3
  <2> QED BY <1>1, <2>2, <2>3 DEF ConnStep
<1> QED BY <1>1, <1>2 DEF DisplayStep, ConnInv, LockedStateShowsLockScreen

\* The compositor a request record names.
LEMMA RequestCompositor ==
    \A r, s, k, c : r = [session |-> s, compositor_conn |-> k, requester_conn |-> c]
                     => r.compositor_conn = k
OBVIOUS

\* No prompt stays up, and none is taken down early.
LEMMA PromptSteps ==
    ASSUME SessionInv, RequestInv, ConnInv, [Next]_vars
    PROVE  /\ \A p \in prompts' : p \in Conn \X (1..next_request') /\ conns'[p[1]] # "new"
           /\ PromptsMatchPending'
<1>1. /\ \A c \in Conn : conns[c] # "new" => conns'[c] # "new"
      /\ \A c \in registry' : c \in registry \/ (c \in Conn /\ conns[c] = "new")
  BY ConnSteps DEF ConnStep, ConnInv
<1>2. /\ \A p \in prompts : p \in Conn \X (1..next_request) /\ conns[p[1]] # "new"
      /\ \A id \in DOMAIN pending : conns[pending[id].compositor_conn] # "new"
      /\ \A c \in registry : \A id \in RequestId :
            <<c, id>> \in prompts <=> id \in DOMAIN pending /\ pending[id].compositor_conn = c
  BY DEF ConnInv, NoDanglingConnection, PromptsMatchPending
<1>3. \A c, id : <<c, id>> \in prompts => c \in Conn /\ id \in 1..next_request /\ conns[c] # "new"
  BY <1>2
<1>4. next_request \in Nat /\ DOMAIN pending \subseteq 1..next_request
  BY DEF RequestInv
<1>5. CASE \E ids : Closes(ids)
  <2>1. PICK ids : Closes(ids)
    BY <1>5
  <2>2. /\ ids \subseteq DOMAIN pending /\ next_request' = next_request
        /\ DOMAIN pending' = DOMAIN pending \ ids
        /\ \A id \in DOMAIN pending' : pending'[id] = pending[id]
        /\ prompts' = prompts \ {<<pending[id].compositor_conn, id>> :
                                     id \in {i \in ids : pending[i].compositor_conn \in registry'}}
    BY <2>1 DEF Closes
  <2>3. \A c, id : <<c, id>> \in prompts' <=>
          <<c, id>> \in prompts /\ ~(id \in ids /\ pending[id].compositor_conn = c /\ c \in registry')
    BY <2>2
  <2>4. \A p \in prompts' : p \in Conn \X (1..next_request') /\ conns'[p[1]] # "new"
    BY <1>1, <1>2, <2>2
  <2>5. ASSUME NEW c \in registry', NEW id \in RequestId
        PROVE  <<c, id>> \in prompts' <=> id \in DOMAIN pending' /\ pending'[id].compositor_conn = c
    <3>1. CASE c \in registry
      BY <1>2, <2>2, <2>3, <3>1
    <3>2. CASE conns[c] = "new"
      BY <1>2, <1>3, <2>2, <2>3, <3>2
    <3> QED BY <1>1, <3>1, <3>2
  <2> QED BY <2>4, <2>5 DEF PromptsMatchPending
<1>6. CASE \E c \in Conn : Opens(c)
  <2>1. PICK c \in Conn : Opens(c)
    BY <1>6
  <2> DEFINE new == next_request'
             comp == pending'[next_request'].compositor_conn
  <2>2. /\ next_request' = next_request + 1 /\ registry' = registry /\ registry \subseteq Conn
        /\ DOMAIN pending' = DOMAIN pending \cup {new}
        /\ \A id \in DOMAIN pending : id # new => pending'[id] = pending[id]
        /\ prompts' = prompts \cup ({comp} \cap registry) \X {new}
    BY <2>1 DEF Opens, RequestInv
  <2>3. comp \in Conn /\ conns[comp] # "new"
    <3>1. PICK s \in DOMAIN sessions :
             /\ sessions[s].compositor_conn # NoConn
             /\ pending'[next_request'] =
                   [session |-> s, compositor_conn |-> sessions[s].compositor_conn,
                    requester_conn |-> c]
      BY <2>1 DEF Opens
    <3>2. comp = sessions[s].compositor_conn
      BY <3>1, RequestCompositor
    <3>3. sessions[s].compositor_conn \in Conn
      BY <3>1 DEF SessionInv, GoodContext, SessionContext
    <3>4. conns[sessions[s].compositor_conn] = "open"
      BY <3>1 DEF ConnInv, NoDanglingConnection
    <3> QED BY <3>2, <3>3, <3>4
  <2>4. new \notin 1..next_request /\ new \in 1..new /\ 1..next_request \subseteq 1..new
        /\ new \notin DOMAIN pending
    BY <1>4, <2>2
  <2> HIDE DEF new, comp
  <2>5. \A d, id : <<d, id>> \in prompts' <=>
          <<d, id>> \in prompts \/ (d = comp /\ d \in registry /\ id = new)
    BY <2>2
  <2>6. ASSUME NEW p \in prompts' PROVE p \in Conn \X (1..new) /\ conns'[p[1]] # "new"
    <3>1. CASE p \in prompts
      BY <1>1, <1>2, <2>4, <3>1
    <3>2. CASE p = <<comp, new>>
      BY <1>1, <2>3, <2>4, <3>2
    <3> QED BY <2>2, <3>1, <3>2
  <2>7. ASSUME NEW d \in registry', NEW id \in RequestId
        PROVE  <<d, id>> \in prompts' <=> id \in DOMAIN pending' /\ pending'[id].compositor_conn = d
    <3>1. CASE id = new
      <4>1. <<d, id>> \notin prompts /\ d \in registry /\ id \in DOMAIN pending'
        BY <1>3, <2>2, <2>4, <3>1
      <4>2. pending'[id].compositor_conn = comp
        BY <3>1 DEF new, comp
      <4> QED BY <2>5, <3>1, <4>1, <4>2
    <3>2. CASE id # new
      <4>1. d \in registry /\ (<<d, id>> \in prompts' <=> <<d, id>> \in prompts)
        BY <2>2, <2>5, <3>2
      <4>2. id \in DOMAIN pending' <=> id \in DOMAIN pending
        BY <2>2, <3>2
      <4>3. id \in DOMAIN pending => pending'[id] = pending[id]
        BY <2>2, <3>2
      <4> QED BY <1>2, <4>1, <4>2, <4>3
    <3> QED BY <3>1, <3>2
  <2> QED BY <2>6, <2>7 DEF PromptsMatchPending, new
<1> QED BY <1>5, <1>6, StepsOpenOrClose

\* The invariant holds of every behaviour of the daemon.
THEOREM ConnectionsInvariant == Spec => []ConnInv
<1>1. Init => ConnInv
  BY DEF Init, E!Init, ConnInv, NoDanglingConnection, ScreenInv, LockedStateShowsLockScreen,
         PromptsMatchPending
<1>2. SessionInv /\ RequestInv /\ ConnInv /\ [Next]_vars => ConnInv'
  BY DanglingSteps, ScreenSteps, LockScreenSteps, PromptSteps DEF ConnInv
<1> QED BY <1>1, <1>2, Invariance, RequestsInvariant, PTL DEF Spec

\* Nobody waits for an answer from a client that has gone: a session's compositor and both
\* ends of an open request are open connections.
THEOREM ConnectionsOpen == Spec => []NoDanglingConnection
<1>1. ConnInv => NoDanglingConnection
  BY DEF ConnInv
<1> QED BY <1>1, ConnectionsInvariant, PTL

\* A session in state Locked has the lock screen on its compositor, if that can be reached,
\* however compositors crash, come back and replace each other.
THEOREM LockScreensShown == Spec => []LockedStateShowsLockScreen
<1>1. ConnInv => LockedStateShowsLockScreen
  BY DEF ConnInv
<1> QED BY <1>1, ConnectionsInvariant, PTL

\* The prompts on display are the open requests.
THEOREM PromptsMatch == Spec => []PromptsMatchPending
<1>1. ConnInv => PromptsMatchPending
  BY DEF ConnInv
<1> QED BY <1>1, ConnectionsInvariant, PTL
====
