---- MODULE DaemonSessionProofs ----
(***************************************************************************)
(* Proofs about the sessions of the Daemon: their locks, processes and      *)
(* directories.  SessionInv is inductive; every handler keeps it, and none  *)
(* but an Unlock with a right password opens a lock.  Then what closes a    *)
(* lock, the lockout timers, and the machine that sleeps with its sessions  *)
(* locked.                                                                  *)
(***************************************************************************)
EXTENDS Daemon, TLAPS

\* What holds of every session context by itself.
GoodContext ==
    {ctx \in SessionContext :
        /\ ctx.process # "none" => ctx.runs_as = IdsOf(ctx.uid)
        /\ \E st \in Settings : ctx.compositor_restarts <= st.max_compositor_restarts}

\* The inductive invariant.
SessionInv ==
    /\ settings \in Settings
    /\ home \in [Uid -> DirState] /\ runtime \in [Uid -> DirState]
    /\ DOMAIN sessions \subseteq Session
    /\ sessions \in [DOMAIN sessions -> GoodContext]
    /\ SessionsKeepTheirDirectories
    /\ locks \in [Session -> L!SessionLock]
    /\ LockedStateIsBacked

\* What no step may do: open a lock without a password, or turn a locked session Active.
LockStep ==
    /\ \A s \in Session : L!is_locked(s) /\ ~L!is_locked(s)' => \E c \in Conn : Unlock(c, s, TRUE)
    /\ \A s \in DOMAIN sessions \cap DOMAIN sessions' :
          sessions'[s].state = "Active" /\ sessions[s].state # "Active" => ~L!is_locked(s)'

----------------------------------------------------------------------------
(* The operators.                                                           *)

\* SessionState::transition goes to the next state or stays; it always leaves Locked for
\* Active.
LEMMA TransitionStates ==
    ASSUME NEW state \in SessionStates, NEW next \in SessionStates
    PROVE  /\ transition(state, next) \in SessionStates
           /\ transition(state, next) \in {state, next}
           /\ transition("Locked", "Active") = "Active"
BY DEF transition, can_transition_to, SessionStates

\* A context stays good when its state or its connection changes.
LEMMA ContextMoves ==
    ASSUME NEW ctx \in GoodContext, NEW state \in SessionStates, NEW c \in Conn \cup {NoConn}
    PROVE  /\ [ctx EXCEPT !.state = state] \in GoodContext
           /\ [ctx EXCEPT !.compositor_conn = c] \in GoodContext
           /\ [ctx EXCEPT !.compositor_conn = c, !.state = state] \in GoodContext
BY Zenon DEF GoodContext, SessionContext

\* Application::spawn yields a process of the account, with nothing of root's left, or
\* none.
LEMMA SpawnedAsUser ==
    ASSUME NEW account \in Uid, NEW fault
    PROVE  LET child == spawn(account, Root, fault)
           IN  /\ child.process \in {"none", "running"}
               /\ child.runs_as \in Credentials(Uid \cup {Root, "nobody"})
               /\ child.process # "none" => child.runs_as = IdsOf(account)
<1> DEFINE forked == [alive |-> TRUE, ids |-> IdsOf(Root)]
           grouped == set_ids(forked, [forked.ids EXCEPT !.groups = account], Root, fault = "groups")
           gidded == set_ids(grouped, [grouped.ids EXCEPT !.gid = account], Root, fault = "gid")
           hooked == set_ids(gidded, [gidded.ids EXCEPT !.uid = account], Root, fault = "uid")
<1>1. grouped.ids = [uid |-> Root, gid |-> Root, groups |-> account]
  BY DEF set_ids, IdsOf
<1>2. gidded.alive => gidded.ids = [uid |-> Root, gid |-> account, groups |-> account]
  <2> HIDE DEF grouped
  <2> QED BY <1>1 DEF set_ids
<1>3. hooked.alive => hooked.ids = IdsOf(account)
  <2> HIDE DEF gidded
  <2> QED BY <1>2 DEF set_ids, IdsOf
<1>4. pre_exec(account, Root, fault) = hooked
  BY DEF pre_exec
<1> HIDE DEF hooked
<1> QED BY <1>3, <1>4 DEF spawn, IdsOf, Credentials

\* A context stays good when its compositor is launched.
LEMMA ContextLaunches ==
    ASSUME NEW ctx \in GoodContext, NEW fault
    PROVE  /\ with_compositor(ctx, fault) \in GoodContext
           /\ with_compositor(ctx, fault).uid = ctx.uid
           /\ with_compositor(ctx, fault).state = ctx.state
<1> DEFINE child == spawn(ctx.uid, Root, fault)
<1>1. ctx.uid \in Uid
  BY DEF GoodContext, SessionContext
<1>2. /\ child.process \in {"none", "running"}
      /\ child.runs_as \in Credentials(Uid \cup {Root, "nobody"})
      /\ child.process # "none" => child.runs_as = IdsOf(ctx.uid)
  BY <1>1, SpawnedAsUser
<1>3. with_compositor(ctx, fault) = [ctx EXCEPT !.process = child.process, !.runs_as = child.runs_as]
  BY DEF with_compositor
<1> HIDE DEF child
<1> QED BY <1>2, <1>3, Zenon DEF GoodContext, SessionContext

----------------------------------------------------------------------------
(* The handlers.                                                            *)

\* Nothing the invariant speaks of changes.
SessionsUntouched == UNCHANGED <<sessions, home, runtime, locks, settings>>

\* A step that leaves sessions, directories, locks and settings alone keeps the invariant.
LEMMA QuietSteps ==
    ASSUME SessionInv, SessionsUntouched
    PROVE  SessionInv' /\ LockStep
<1> USE DEF SessionInv, SessionsUntouched
<1>1. LockedStateIsBacked' /\ LockStep
  BY Zenon DEF LockedStateIsBacked, LockStep, L!is_locked
<1>2. SessionsKeepTheirDirectories'
  BY DEF SessionsKeepTheirDirectories
<1> QED BY <1>1, <1>2

\* These handlers are such steps.
LEMMA QuietHandlers ==
    ASSUME \/ \E c \in Conn : Connected(c)
           \/ SwitchRequests \/ InhibitRequests \/ ElevationRequests \/ ActivityReports
           \/ time_passes \/ loop_ends \/ MachineSteps \/ UNCHANGED vars
    PROVE  SessionsUntouched
<1> USE DEF SessionsUntouched, sessionVars, loginVars, lockVars, controlVars, vars
<1>1. CASE \E c \in Conn : Connected(c)
  BY <1>1 DEF Connected
<1>2. CASE SwitchRequests
  BY <1>2 DEF SwitchRequests, SwitchSession
<1>3. CASE InhibitRequests
  BY <1>3, Zenon DEF InhibitRequests, Inhibit, ReleaseInhibit, L!add_inhibitor, L!release_inhibitor
<1>4. CASE ElevationRequests
  BY <1>4, Zenon DEF ElevationRequests, RequestElevation, RespondCancelled, RespondPassword
<1>5. CASE ActivityReports
  BY <1>5 DEF ActivityReports, ReportActivity
<1>6. CASE time_passes
  BY <1>6 DEF time_passes
<1>7. CASE loop_ends
  BY <1>7 DEF loop_ends
<1>8. CASE MachineSteps
  BY <1>8 DEF MachineSteps, wakes, transition_lands
<1>9. CASE UNCHANGED vars
  BY <1>9
<1> QED BY <1>1, <1>2, <1>3, <1>4, <1>5, <1>6, <1>7, <1>8, <1>9

\* A reload changes the settings only.
LEMMA ReloadSteps ==
    ASSUME SessionInv, Reloads
    PROVE  SessionInv' /\ LockStep
<1>1. settings' \in Settings /\ UNCHANGED <<sessions, home, runtime, locks>>
  BY DEF Reloads, ReloadConfig, load, sessionVars, loginVars, lockVars
<1>2. LockedStateIsBacked' /\ LockStep
  BY <1>1, Zenon DEF SessionInv, LockedStateIsBacked, LockStep, L!is_locked
<1>3. SessionsKeepTheirDirectories'
  BY <1>1 DEF SessionInv, SessionsKeepTheirDirectories
<1> QED BY <1>1, <1>2, <1>3 DEF SessionInv

\* Ending sessions keeps what holds of the others.
LEMMA EndingSteps ==
    ASSUME SessionInv, NEW S, sessions' = terminated(S),
           UNCHANGED <<home, runtime, locks, settings>>
    PROVE  SessionInv' /\ LockStep
<1>1. /\ DOMAIN sessions' \subseteq DOMAIN sessions
      /\ \A s \in DOMAIN sessions' : sessions'[s] = sessions[s]
      /\ sessions' \in [DOMAIN sessions' -> GoodContext]
  BY DEF SessionInv, terminated, Restrict
<1>2. LockedStateIsBacked' /\ LockStep
  BY <1>1, Zenon DEF SessionInv, LockedStateIsBacked, LockStep, L!is_locked
<1>3. SessionsKeepTheirDirectories'
  BY <1>1 DEF SessionInv, SessionsKeepTheirDirectories
<1> QED BY <1>1, <1>2, <1>3 DEF SessionInv

\* TerminateSession, a reboot, a power-off and SIGTERM end sessions.
LEMMA EndingHandlers ==
    ASSUME \/ \E c \in Conn, s \in Session : TerminateSession(c, s)
           \/ PowerDownRequests \/ Terminate
    PROVE  /\ \E S : sessions' = terminated(S)
           /\ UNCHANGED <<home, runtime, locks, settings>>
<1> USE DEF loginVars, lockVars, controlVars
<1>1. CASE \E c \in Conn, s \in Session : TerminateSession(c, s)
  BY <1>1 DEF TerminateSession
<1>2. CASE PowerDownRequests
  BY <1>2, Zenon DEF PowerDownRequests, Reboot, PowerOff, all_sessions_terminated
<1>3. CASE Terminate
  BY <1>3 DEF Terminate, all_sessions_terminated
<1> QED BY <1>1, <1>2, <1>3

\* A step that changes contexts, but neither locks nor any session's user, and that leaves
\* every state alone or resets it to Starting.
LEMMA ContextSteps ==
    ASSUME SessionInv, UNCHANGED <<home, runtime, locks, settings>>,
           DOMAIN sessions' = DOMAIN sessions,
           sessions' \in [DOMAIN sessions -> GoodContext],
           \A s \in DOMAIN sessions : /\ sessions'[s].uid = sessions[s].uid
                                      /\ sessions'[s].state \in {sessions[s].state, "Starting"}
    PROVE  SessionInv' /\ LockStep
<1>1. LockedStateIsBacked' /\ LockStep
  BY Zenon DEF SessionInv, LockedStateIsBacked, LockStep, L!is_locked
<1>2. SessionsKeepTheirDirectories'
  BY DEF SessionInv, SessionsKeepTheirDirectories
<1> QED BY <1>1, <1>2 DEF SessionInv

\* Disconnected clears the connection of its sessions.
LEMMA DisconnectSteps ==
    ASSUME SessionInv, NEW c \in Conn, Disconnected(c)
    PROVE  SessionInv' /\ LockStep
<1>1. UNCHANGED <<home, runtime, locks, settings>>
  BY DEF Disconnected, loginVars, lockVars, controlVars
<1>2. sessions' = [s \in DOMAIN sessions |->
                     IF sessions[s].compositor_conn = c
                     THEN [sessions[s] EXCEPT !.compositor_conn = NoConn] ELSE sessions[s]]
  BY DEF Disconnected
<1>3. ASSUME NEW s \in DOMAIN sessions
      PROVE  /\ sessions'[s] \in GoodContext
             /\ sessions'[s].uid = sessions[s].uid /\ sessions'[s].state = sessions[s].state
  <2>1. sessions[s] \in GoodContext
    BY DEF SessionInv
  <2> "Starting" \in SessionStates
    BY DEF SessionStates
  <2>2. [sessions[s] EXCEPT !.compositor_conn = NoConn] \in GoodContext
    BY <2>1, ContextMoves, Zenon
  <2>3. /\ [sessions[s] EXCEPT !.compositor_conn = NoConn].uid = sessions[s].uid
        /\ [sessions[s] EXCEPT !.compositor_conn = NoConn].state = sessions[s].state
    BY <2>1 DEF GoodContext, SessionContext
  <2> QED BY <1>2, <2>1, <2>2, <2>3
<1> QED BY <1>1, <1>2, <1>3, ContextSteps

\* A compositor that exits keeps its credentials until it is reaped.
LEMMA ExitSteps ==
    ASSUME SessionInv, NEW s \in Session, compositor_exits(s)
    PROVE  SessionInv' /\ LockStep
<1>1. UNCHANGED <<home, runtime, locks, settings>>
  BY DEF compositor_exits, loginVars, lockVars, controlVars
<1>2. /\ s \in DOMAIN sessions /\ sessions[s].process = "running"
      /\ sessions' = [sessions EXCEPT ![s].process = "exited"]
  BY DEF compositor_exits
<1>3. sessions[s] \in GoodContext
  BY <1>2 DEF SessionInv
<1>4. /\ [sessions[s] EXCEPT !.process = "exited"] \in GoodContext
      /\ [sessions[s] EXCEPT !.process = "exited"].uid = sessions[s].uid
      /\ [sessions[s] EXCEPT !.process = "exited"].state = sessions[s].state
  BY <1>2, <1>3 DEF GoodContext, SessionContext
<1>5. /\ DOMAIN sessions' = DOMAIN sessions
      /\ sessions' \in [DOMAIN sessions -> GoodContext]
      /\ \A t \in DOMAIN sessions : sessions'[t].uid = sessions[t].uid /\ sessions'[t].state = sessions[t].state
  BY <1>2, <1>4 DEF SessionInv
<1> QED BY <1>1, <1>5, ContextSteps

\* A relaunch is counted only below the limit of the day.
LEMMA Restarted ==
    ASSUME settings \in Settings, NEW ctx \in GoodContext, NEW fault
    PROVE  /\ restarted(ctx, fault) \in GoodContext
           /\ restarted(ctx, fault).uid = ctx.uid
           /\ restarted(ctx, fault).state \in {ctx.state, "Starting"}
<1> DEFINE state == transition(ctx.state, "Starting")
           n == IF decide_restart(ctx.compositor_restarts) = "Restart"
                THEN ctx.compositor_restarts + 1 ELSE ctx.compositor_restarts
           reset == [ctx EXCEPT !.compositor_conn = NoConn, !.state = state,
                                !.compositor_restarts = n]
<1>1. state \in SessionStates /\ state \in {ctx.state, "Starting"}
  BY TransitionStates DEF GoodContext, SessionContext, SessionStates
<1>2. n \in Nat /\ \E st \in Settings : n <= st.max_compositor_restarts
  BY SettingsAssumption DEF decide_restart, GoodContext, SessionContext
<1> HIDE DEF state, n
<1>3. reset \in GoodContext /\ reset.uid = ctx.uid /\ reset.state = state
  BY <1>1, <1>2, Zenon DEF GoodContext, SessionContext
<1>4. restarted(ctx, fault) = with_compositor(reset, fault)
  BY DEF restarted, state, n
<1> HIDE DEF reset
<1> QED BY <1>1, <1>3, <1>4, ContextLaunches

\* SIGCHLD resets the sessions whose compositor has exited.
LEMMA ReapSteps ==
    ASSUME SessionInv, NEW faults, reap_children(faults)
    PROVE  SessionInv' /\ LockStep
<1>1. UNCHANGED <<home, runtime, locks, settings>>
  BY DEF reap_children, loginVars, lockVars, controlVars
<1>2. /\ DOMAIN sessions' = DOMAIN sessions
      /\ \A s \in DOMAIN sessions : sessions'[s] \in {sessions[s], restarted(sessions[s], faults[s])}
      /\ sessions' = [s \in DOMAIN sessions |-> sessions'[s]]
  BY DEF reap_children
<1>3. ASSUME NEW s \in DOMAIN sessions
      PROVE  /\ sessions'[s] \in GoodContext /\ sessions'[s].uid = sessions[s].uid
             /\ sessions'[s].state \in {sessions[s].state, "Starting"}
  <2>1. settings \in Settings /\ sessions[s] \in GoodContext
    BY DEF SessionInv
  <2> QED BY <1>2, <2>1, Restarted
<1> QED BY <1>1, <1>2, <1>3, ContextSteps

\* A login begins a session only with both directories the user's own, and takes neither
\* from anybody when it fails.
LEMMA LoginSteps ==
    ASSUME SessionInv, NEW c \in Conn, NEW uid \in Uid, NEW seat \in SeatId,
           NEW graphical, NEW fault, NEW spawn_fault,
           CreateSession(c, uid, seat, graphical, fault, spawn_fault)
    PROVE  SessionInv' /\ LockStep
<1> DEFINE h == home_ready(uid, fault)
           r == runtime_ready(uid, fault)
           new == IF graphical THEN with_compositor(begun(uid), spawn_fault) ELSE begun(uid)
<1>1. /\ next_session \in Session
      /\ home' = [home EXCEPT ![uid] = h.dir] /\ runtime' = [runtime EXCEPT ![uid] = r.dir]
      /\ IF r.ok THEN sessions' = with_session(next_session, new) ELSE sessions' = sessions
      /\ locks' = locks /\ settings' = settings
  BY DEF CreateSession, lockVars, controlVars
<1>2. home[uid] \in DirState /\ runtime[uid] \in DirState
  BY DEF SessionInv
<1>3. /\ h.dir \in DirState /\ (home[uid] = "own" => h.dir = "own") /\ (h.ok => h.dir = "own")
  BY <1>2, Zenon DEF home_ready, ensure_home_ready, created, DirState
<1>4. /\ r.dir \in DirState /\ (runtime[uid] = "own" => r.dir = "own")
      /\ (r.ok => h.ok /\ r.dir = "own")
  BY <1>2 DEF runtime_ready, ensure_runtime_dir, created, DirState
<1>5. begun(uid) \in GoodContext /\ begun(uid).uid = uid /\ begun(uid).state = "Starting"
  <2>1. \E st \in Settings : 0 <= st.max_compositor_restarts
    BY SettingsAssumption DEF SessionInv
  <2> QED BY <2>1 DEF begun, GoodContext, SessionContext, SessionStates, Credentials, IdsOf
<1>6. new \in GoodContext /\ new.uid = uid /\ new.state = "Starting"
  BY <1>5, ContextLaunches
<1> HIDE DEF h, r, new
<1>7. /\ home' \in [Uid -> DirState] /\ runtime' \in [Uid -> DirState]
      /\ \A u \in Uid : /\ home[u] = "own" => home'[u] = "own"
                        /\ runtime[u] = "own" => runtime'[u] = "own"
  BY <1>1, <1>3, <1>4 DEF SessionInv
<1>8. ASSUME NEW s \in DOMAIN sessions PROVE sessions[s] \in GoodContext /\ sessions[s].uid \in Uid
  BY Zenon DEF SessionInv, GoodContext, SessionContext
<1>9. CASE r.ok
  <2>1. /\ DOMAIN sessions' = DOMAIN sessions \cup {next_session}
        /\ \A s \in DOMAIN sessions' : sessions'[s] = IF s = next_session THEN new ELSE sessions[s]
        /\ sessions' = [s \in DOMAIN sessions' |-> sessions'[s]]
    BY <1>1, <1>9 DEF with_session
  <2>2. home'[uid] = "own" /\ runtime'[uid] = "own"
    BY <1>1, <1>3, <1>4, <1>9 DEF SessionInv
  <2>3. DOMAIN sessions' \subseteq Session /\ sessions' \in [DOMAIN sessions' -> GoodContext]
    BY <1>1, <1>6, <1>8, <2>1 DEF SessionInv
  <2>4. SessionsKeepTheirDirectories'
    BY <1>6, <1>7, <1>8, <2>1, <2>2 DEF SessionInv, SessionsKeepTheirDirectories
  <2>5. LockedStateIsBacked' /\ LockStep
    BY <1>1, <1>6, <2>1, Zenon DEF SessionInv, LockedStateIsBacked, LockStep, L!is_locked
  <2> QED BY <1>1, <1>7, <2>3, <2>4, <2>5 DEF SessionInv
<1>10. CASE ~r.ok
  <2>1. sessions' = sessions
    BY <1>1, <1>10
  <2>2. SessionsKeepTheirDirectories'
    BY <1>7, <1>8, <2>1 DEF SessionInv, SessionsKeepTheirDirectories
  <2>3. LockedStateIsBacked' /\ LockStep
    BY <1>1, <2>1, Zenon DEF SessionInv, LockedStateIsBacked, LockStep, L!is_locked
  <2> QED BY <1>1, <1>7, <2>1, <2>2, <2>3 DEF SessionInv
<1> QED BY <1>9, <1>10

\* A compositor registers with the LockManager's verdict.
LEMMA RegisterSteps ==
    ASSUME SessionInv, NEW c \in Conn, NEW s \in Session, RegisterCompositor(c, s)
    PROVE  SessionInv' /\ LockStep
<1> DEFINE next == IF L!is_locked(s) THEN "Locked" ELSE "Active"
           state == transition(sessions[s].state, next)
           ctx == [sessions[s] EXCEPT !.compositor_conn = c, !.state = state]
<1>1. UNCHANGED <<home, runtime, locks, settings>> /\ s \in DOMAIN sessions
  BY DEF RegisterCompositor, loginVars, lockVars, controlVars
<1>2. sessions' = [sessions EXCEPT ![s] = ctx]
  BY Zenon DEF RegisterCompositor
<1>3. sessions[s] \in GoodContext /\ sessions[s].state \in SessionStates
  BY <1>1, Zenon DEF SessionInv, GoodContext, SessionContext
<1>4. state \in SessionStates /\ state \in {sessions[s].state, next}
  BY <1>3, TransitionStates DEF SessionStates
<1> HIDE DEF state
<1>5. ctx \in GoodContext /\ ctx.uid = sessions[s].uid /\ ctx.state = state
  <2>1. ctx \in GoodContext
    BY <1>3, <1>4, ContextMoves, Zenon
  <2> QED BY <1>3, <2>1 DEF GoodContext, SessionContext
<1> HIDE DEF ctx
<1>6. /\ DOMAIN sessions' = DOMAIN sessions
      /\ \A t \in DOMAIN sessions : sessions'[t] = IF t = s THEN ctx ELSE sessions[t]
      /\ sessions' \in [DOMAIN sessions -> GoodContext]
  BY <1>2, <1>5, Zenon DEF SessionInv
<1>7. LockedStateIsBacked' /\ LockStep
  BY <1>1, <1>4, <1>5, <1>6, Zenon DEF SessionInv, LockedStateIsBacked, LockStep, L!is_locked
<1>8. SessionsKeepTheirDirectories'
  BY <1>1, <1>5, <1>6 DEF SessionInv, SessionsKeepTheirDirectories
<1> QED BY <1>1, <1>6, <1>7, <1>8 DEF SessionInv

----------------------------------------------------------------------------
(* Locking and unlocking.                                                   *)

\* transitioned moves the states of some sessions and nothing else.
LEMMA Transitioned ==
    ASSUME SessionInv, NEW S, NEW next \in SessionStates, sessions' = transitioned(S, next)
    PROVE  /\ DOMAIN sessions' = DOMAIN sessions
           /\ sessions' \in [DOMAIN sessions -> GoodContext]
           /\ \A s \in DOMAIN sessions :
                /\ sessions'[s].uid = sessions[s].uid
                /\ sessions'[s].state =
                     IF s \in S THEN transition(sessions[s].state, next) ELSE sessions[s].state
                /\ sessions[s].state \in SessionStates
<1>1. sessions' = [s \in DOMAIN sessions |->
                     IF s \in S
                     THEN [sessions[s] EXCEPT !.state = transition(sessions[s].state, next)]
                     ELSE sessions[s]]
  BY DEF transitioned
<1>2. ASSUME NEW s \in DOMAIN sessions
      PROVE  /\ sessions[s].state \in SessionStates
             /\ [sessions[s] EXCEPT !.state = transition(sessions[s].state, next)] \in GoodContext
             /\ [sessions[s] EXCEPT !.state = transition(sessions[s].state, next)].uid = sessions[s].uid
             /\ [sessions[s] EXCEPT !.state = transition(sessions[s].state, next)].state
                  = transition(sessions[s].state, next)
  <2>1. sessions[s] \in GoodContext
    BY DEF SessionInv
  <2>2. sessions[s].state \in SessionStates
    BY <2>1 DEF GoodContext, SessionContext
  <2>3. transition(sessions[s].state, next) \in SessionStates
    BY <2>2, TransitionStates
  <2>4. [sessions[s] EXCEPT !.state = transition(sessions[s].state, next)] \in GoodContext
    BY <2>1, <2>3, ContextMoves, Zenon
  <2>5. /\ [sessions[s] EXCEPT !.state = transition(sessions[s].state, next)].uid = sessions[s].uid
        /\ [sessions[s] EXCEPT !.state = transition(sessions[s].state, next)].state
             = transition(sessions[s].state, next)
    BY <2>1 DEF GoodContext, SessionContext
  <2> QED BY <2>2, <2>4, <2>5
<1> QED BY <1>1, <1>2, Zenon DEF SessionInv

\* Locking sessions and clearing lockouts are total on lock maps and unlock nobody.
LEMMA LockMaps ==
    ASSUME NEW m \in [Session -> L!SessionLock], NEW S
    PROVE  /\ L!locked(m, S) \in [Session -> L!SessionLock]
           /\ \A s \in Session : L!locked(m, S)[s].state = IF s \in S THEN "Locked" ELSE m[s].state
           /\ L!lockouts_cleared(m, S) \in [Session -> L!SessionLock]
           /\ \A s \in Session : m[s].state \in {"Locked", "LockedOut"}
                => L!lockouts_cleared(m, S)[s].state \in {"Locked", "LockedOut"}
           /\ \A s \in Session : m[s].state = "Unlocked"
                => L!lockouts_cleared(m, S)[s].state = "Unlocked"
BY DEF L!locked, L!lockouts_cleared, L!SessionLock, L!LockState

\* A step that keeps every lock, and moves to Locked only sessions it locks.
LEMMA LockingSteps ==
    ASSUME SessionInv, UNCHANGED <<home, runtime, settings>>,
           NEW S, sessions' = transitioned(S, "Locked"),
           locks' \in [Session -> L!SessionLock],
           \A s \in Session : L!is_locked(s) => L!is_locked(s)',
           \A s \in S \cap Session : L!is_locked(s)'
    PROVE  SessionInv' /\ LockStep
<1>1. "Locked" \in SessionStates
  BY DEF SessionStates
<1>2. /\ DOMAIN sessions' = DOMAIN sessions
      /\ sessions' \in [DOMAIN sessions -> GoodContext]
      /\ \A s \in DOMAIN sessions :
           /\ sessions'[s].uid = sessions[s].uid
           /\ sessions'[s].state =
                IF s \in S THEN transition(sessions[s].state, "Locked") ELSE sessions[s].state
           /\ sessions[s].state \in SessionStates
  BY <1>1, Transitioned
<1>3. \A s \in DOMAIN sessions : sessions'[s].state = sessions[s].state
                                   \/ (s \in S /\ sessions'[s].state = "Locked")
  BY <1>1, <1>2, TransitionStates
<1>4. DOMAIN sessions \subseteq Session /\ LockedStateIsBacked
  BY DEF SessionInv
<1>5. LockedStateIsBacked'
  <2> SUFFICES ASSUME NEW s \in DOMAIN sessions, sessions'[s].state = "Locked"
               PROVE  L!is_locked(s)'
    BY <1>2 DEF LockedStateIsBacked
  <2>1. CASE s \in S
    BY <2>1, <1>4
  <2>2. CASE sessions[s].state = "Locked"
    BY <2>2, <1>4 DEF LockedStateIsBacked
  <2> QED BY <1>3, <2>1, <2>2
<1>6. LockStep
  BY <1>2, <1>3, Zenon DEF LockStep
<1>7. SessionsKeepTheirDirectories'
  BY <1>2 DEF SessionInv, SessionsKeepTheirDirectories
<1> QED BY <1>2, <1>5, <1>6, <1>7 DEF SessionInv

\* LockSession locks one session.
LEMMA LockSessionSteps ==
    ASSUME SessionInv, NEW c \in Conn, NEW s \in Session, LockSession(c, s)
    PROVE  SessionInv' /\ LockStep
<1>1. /\ UNCHANGED <<home, runtime, settings>>
      /\ sessions' = transitioned({s}, "Locked")
      /\ locks' = L!locked(locks, {s})
  BY DEF LockSession, L!lock, loginVars, controlVars
<1>2. locks \in [Session -> L!SessionLock]
  BY DEF SessionInv
<1>3. /\ locks' \in [Session -> L!SessionLock]
      /\ \A t \in Session : locks'[t].state = IF t \in {s} THEN "Locked" ELSE locks[t].state
  BY <1>1, <1>2, LockMaps
<1>4. /\ \A t \in Session : L!is_locked(t) => L!is_locked(t)'
      /\ \A t \in {s} \cap Session : L!is_locked(t)'
  BY <1>3 DEF L!is_locked
<1> QED BY <1>1, <1>3, <1>4, LockingSteps, Zenon

\* Suspend locks in the LockManager only.
LEMMA SuspendSteps ==
    ASSUME SessionInv, NEW c \in Conn, NEW outcome, Suspend(c, outcome)
    PROVE  SessionInv' /\ LockStep
<1>1. /\ UNCHANGED <<home, runtime, settings>> /\ sessions' = sessions
      /\ locks' = L!locked(locks, suspend_locks)
  BY DEF Suspend, sessionVars, loginVars
<1>2. locks \in [Session -> L!SessionLock] /\ sessions \in [DOMAIN sessions -> GoodContext]
  BY DEF SessionInv
<1>3. sessions' = transitioned({}, "Locked")
  BY <1>1, <1>2 DEF transitioned
<1>4. /\ locks' \in [Session -> L!SessionLock]
      /\ \A t \in Session : locks'[t].state = IF t \in suspend_locks THEN "Locked" ELSE locks[t].state
  BY <1>1, <1>2, LockMaps
<1>5. /\ \A t \in Session : L!is_locked(t) => L!is_locked(t)'
      /\ \A t \in {} \cap Session : L!is_locked(t)'
  BY <1>4 DEF L!is_locked
<1> QED BY <1>1, <1>3, <1>4, <1>5, LockingSteps

\* The idle tick locks the sessions it moves to Locked, and a lockout that expires leaves
\* its session locked.
LEMMA TickSteps ==
    ASSUME SessionInv, NEW outcomes, on_idle_tick(outcomes)
    PROVE  SessionInv' /\ LockStep
<1> DEFINE suspending == IF suspend_allowed THEN seats_reaching("SuspendRequested") ELSE {}
           newly == idle_locks \cup IF suspending # {} THEN suspend_locks ELSE {}
           m == L!locked(locks, newly)
           due == expired(lock_lockouts)
<1>1. /\ UNCHANGED <<home, runtime, settings>>
      /\ sessions' = transitioned(idle_locks, "Locked")
      /\ locks' = L!lockouts_cleared(m, due)
  BY DEF on_idle_tick, loginVars
<1>2. locks \in [Session -> L!SessionLock]
  BY DEF SessionInv
<1>3. idle_locks \subseteq newly
  OBVIOUS
<1> HIDE DEF newly, due
<1>4. /\ m \in [Session -> L!SessionLock]
      /\ \A t \in Session : m[t].state = IF t \in newly THEN "Locked" ELSE locks[t].state
  BY <1>2, LockMaps
<1> HIDE DEF m
<1>5. /\ locks' \in [Session -> L!SessionLock]
      /\ \A t \in Session : m[t].state \in {"Locked", "LockedOut"}
           => locks'[t].state \in {"Locked", "LockedOut"}
  BY <1>1, <1>4, LockMaps
<1>6. /\ \A t \in Session : L!is_locked(t) => L!is_locked(t)'
      /\ \A t \in idle_locks \cap Session : L!is_locked(t)'
  BY <1>3, <1>4, <1>5 DEF L!is_locked
<1> QED BY <1>1, <1>5, <1>6, LockingSteps

\* Unlock: a wrong password leaves locked what was locked; a right one makes the session
\* Active if it was Locked.
LEMMA UnlockSteps ==
    ASSUME SessionInv, NEW c \in Conn, NEW s \in Session, NEW valid \in BOOLEAN,
           Unlock(c, s, valid)
    PROVE  SessionInv' /\ LockStep
<1> DEFINE outcome == L!unlock_outcome(s, valid, settings.lock)
<1>1. /\ UNCHANGED <<home, runtime, settings>>
      /\ L!attempt_unlock(s, valid, settings.lock)
      /\ IF outcome = "Success" THEN sessions' = transitioned({s}, "Active")
         ELSE sessions' = sessions
  BY DEF Unlock, loginVars, controlVars
<1>2. /\ locks \in [Session -> L!SessionLock]
      /\ locks[s] = [state |-> locks[s].state, attempts |-> locks[s].attempts]
      /\ locks[s].state \in {"Unlocked", "Locked", "LockedOut"} /\ locks[s].attempts \in Nat
  BY DEF SessionInv, L!SessionLock, L!LockState
<1>3. /\ locks' \in [Session -> L!SessionLock]
      /\ \A t \in Session \ {s} : locks'[t] = locks[t]
      /\ outcome = "Success" => valid /\ locks'[s].state = "Unlocked"
      /\ outcome # "Success" /\ locks[s].state \in {"Locked", "LockedOut"}
           => locks'[s].state \in {"Locked", "LockedOut"}
  <2>1. CASE locks[s].state = "LockedOut"
    BY <1>1, <1>2, <2>1 DEF L!attempt_unlock, L!unlock_outcome
  <2>2. CASE locks[s].state # "LockedOut"
    <3> DEFINE result == L!check(valid, locks[s].attempts, settings.lock.max_attempts)
               new == [state    |-> CASE result.outcome = "Success" -> "Unlocked"
                                      [] result.outcome = "LockedOut" -> "LockedOut"
                                      [] OTHER -> locks[s].state,
                       attempts |-> result.attempts]
    <3>1. locks' = [locks EXCEPT ![s] = new] /\ outcome = result.outcome
      BY <1>1, <2>2 DEF L!attempt_unlock, L!unlock_outcome
    <3>2. /\ result.attempts \in Nat
          /\ result.outcome \in {"Success", "LockedOut", "Failure"}
          /\ result.outcome = "Success" <=> valid
      BY <1>2 DEF L!check
    <3> HIDE DEF result
    <3>3. /\ new \in L!SessionLock
          /\ result.outcome = "Success" => new.state = "Unlocked"
          /\ result.outcome # "Success" => new.state \in {"LockedOut", locks[s].state}
      BY <1>2, <3>2 DEF L!SessionLock, L!LockState
    <3> HIDE DEF new, outcome
    <3> QED BY <1>2, <3>1, <3>2, <3>3
  <2> QED BY <2>1, <2>2
<1> HIDE DEF outcome
<1>4. CASE outcome = "Success"
  <2>1. "Active" \in SessionStates /\ sessions' = transitioned({s}, "Active")
    BY <1>1, <1>4 DEF SessionStates
  <2>2. /\ DOMAIN sessions' = DOMAIN sessions
        /\ sessions' \in [DOMAIN sessions -> GoodContext]
        /\ \A t \in DOMAIN sessions :
             /\ sessions'[t].uid = sessions[t].uid
             /\ sessions'[t].state =
                  IF t \in {s} THEN transition(sessions[t].state, "Active") ELSE sessions[t].state
             /\ sessions[t].state \in SessionStates
    BY <2>1, Transitioned, Zenon
  <2>3. s \in DOMAIN sessions' => sessions'[s].state # "Locked"
    <3>1. \A state \in SessionStates : transition(state, "Active") # "Locked"
      BY DEF transition, can_transition_to, SessionStates
    <3> QED BY <2>2, <3>1
  <2>4. valid = TRUE
    BY <1>3, <1>4
  <2>5. LockedStateIsBacked'
    BY <1>3, <2>2, <2>3 DEF SessionInv, LockedStateIsBacked, L!is_locked
  <2>6. ASSUME NEW t \in Session, L!is_locked(t), ~L!is_locked(t)' PROVE \E d \in Conn : Unlock(d, t, TRUE)
    <3>1. t = s
      BY <1>3, <2>6 DEF L!is_locked
    <3> QED BY <2>4, <3>1, Zenon
  <2>7. ASSUME NEW t \in DOMAIN sessions \cap DOMAIN sessions',
               sessions'[t].state = "Active", sessions[t].state # "Active"
        PROVE  ~L!is_locked(t)'
    <3>1. t = s
      BY <2>2, <2>7
    <3> QED BY <1>3, <1>4, <3>1 DEF L!is_locked
  <2>8. SessionsKeepTheirDirectories'
    BY <1>1, <2>2 DEF SessionInv, SessionsKeepTheirDirectories
  <2> QED BY <1>1, <1>3, <2>2, <2>5, <2>6, <2>7, <2>8, Zenon DEF SessionInv, LockStep
<1>5. CASE outcome # "Success"
  <2>1. sessions' = sessions
    BY <1>1, <1>5
  <2>2. LockedStateIsBacked' /\ LockStep
    BY <1>3, <1>5, <2>1, Zenon DEF SessionInv, LockedStateIsBacked, LockStep, L!is_locked
  <2>3. SessionsKeepTheirDirectories'
    BY <1>1, <2>1 DEF SessionInv, SessionsKeepTheirDirectories
  <2> QED BY <1>1, <1>3, <2>1, <2>2, <2>3 DEF SessionInv
<1> QED BY <1>4, <1>5

----------------------------------------------------------------------------
(* The theorems.                                                            *)

\* Every step keeps the invariant and unlocks nothing by itself.
LEMMA StepsKeepSessionInv ==
    ASSUME SessionInv, [Next]_vars
    PROVE  SessionInv' /\ LockStep
<1>1. CASE ConnectionSteps
  BY <1>1, DisconnectSteps, QuietHandlers, QuietSteps DEF ConnectionSteps
<1>2. CASE SessionRequests
  <2>1. CASE \E c \in Conn, s \in Session : TerminateSession(c, s)
    BY <2>1, EndingHandlers, EndingSteps
  <2>2. CASE \E c \in Conn, s \in Session : RegisterCompositor(c, s)
    BY <2>2, RegisterSteps
  <2>3. CASE \E c \in Conn, uid \in Uid, seat \in SeatId, graphical \in BOOLEAN, fault \in Fault,
                spawn_fault \in SpawnFault :
                CreateSession(c, uid, seat, graphical, fault, spawn_fault)
    BY <2>3, LoginSteps
  <2> QED BY <1>2, <2>1, <2>2, <2>3 DEF SessionRequests
<1>3. CASE LockRequests
  BY <1>3, LockSessionSteps, UnlockSteps DEF LockRequests
<1>4. CASE SuspendRequests
  BY <1>4, SuspendSteps DEF SuspendRequests
<1>5. CASE PowerDownRequests \/ Terminate
  BY <1>5, EndingHandlers, EndingSteps
<1>6. CASE TimerSteps
  BY <1>6, TickSteps, QuietHandlers, QuietSteps DEF TimerSteps, timer_fires
<1>7. CASE CompositorSteps
  BY <1>7, ExitSteps, ReapSteps DEF CompositorSteps
<1>8. CASE Reloads
  BY <1>8, ReloadSteps
<1>9. CASE \/ SwitchRequests \/ InhibitRequests \/ ElevationRequests \/ ActivityReports
           \/ loop_ends \/ MachineSteps \/ UNCHANGED vars
  BY <1>9, QuietHandlers, QuietSteps
<1> QED BY <1>1, <1>2, <1>3, <1>4, <1>5, <1>6, <1>7, <1>8, <1>9 DEF Next

\* The invariant holds of every behaviour of the daemon.
THEOREM Invariance == Spec => []SessionInv
<1>1. Init => SessionInv
  <2> SUFFICES ASSUME Init PROVE SessionInv
    OBVIOUS
  <2>1. /\ settings \in Settings /\ sessions = [s \in {} |-> s]
        /\ home \in [Uid -> DirsAtStart] /\ runtime \in [Uid -> DirsAtStart]
        /\ locks = [s \in Session |-> [state |-> "Unlocked", attempts |-> 0]]
    BY DEF Init, load, L!Init
  <2>2. home \in [Uid -> DirState] /\ runtime \in [Uid -> DirState]
    BY <2>1, DirsAssumption
  <2>3. locks \in [Session -> L!SessionLock]
    BY <2>1 DEF L!SessionLock, L!LockState
  <2> QED BY <2>1, <2>2, <2>3 DEF SessionInv, SessionsKeepTheirDirectories, LockedStateIsBacked
<1>2. SessionInv /\ [Next]_vars => SessionInv'
  BY StepsKeepSessionInv
<1> QED BY <1>1, <1>2, PTL DEF Spec

\* LockManager and session state never come apart towards an open session: whatever
\* handlers, crashes and reloads do, a session in state Locked is locked.
THEOREM LockedIsBacked == Spec => []LockedStateIsBacked
<1>1. SessionInv => LockedStateIsBacked
  BY DEF SessionInv
<1> QED BY <1>1, Invariance, PTL

\* No step of the daemon but an Unlock with a right password opens a lock.
THEOREM PasswordUnlocks == Spec => OnlyAPasswordUnlocks
<1>1. SessionInv /\ [Next]_vars =>
        [\A s \in Session : L!is_locked(s) /\ ~L!is_locked(s)'
            => \E c \in Conn : Unlock(c, s, TRUE)]_vars
  BY StepsKeepSessionInv, Zenon DEF LockStep
<1> QED BY <1>1, Invariance, PTL DEF Spec, OnlyAPasswordUnlocks

\* No session turns Active while it is locked.
THEOREM ActiveIsUnlocked == Spec => ActivationMeansUnlocked
<1>1. SessionInv /\ [Next]_vars =>
        [\A s \in DOMAIN sessions \cap DOMAIN sessions' :
            sessions'[s].state = "Active" /\ sessions[s].state # "Active" => ~L!is_locked(s)']_vars
  BY StepsKeepSessionInv, Zenon DEF LockStep
<1> QED BY <1>1, Invariance, PTL DEF Spec, ActivationMeansUnlocked

\* No compositor is relaunched past every limit, though a reload may change the limit.
THEOREM RelaunchesBounded == Spec => []RestartsBounded
<1>1. SessionInv => RestartsBounded
  BY DEF SessionInv, RestartsBounded, GoodContext
<1> QED BY <1>1, Invariance, PTL

\* No process of a session has anything of root's left.
THEOREM RunAsUser == Spec => []ProcessesRunAsTheirUser
<1>1. SessionInv => ProcessesRunAsTheirUser
  BY DEF SessionInv, ProcessesRunAsTheirUser, GoodContext
<1> QED BY <1>1, Invariance, PTL

\* The directories of a live session stay its user's.
THEOREM DirectoriesKept == Spec => []SessionsKeepTheirDirectories
<1>1. SessionInv => SessionsKeepTheirDirectories
  BY DEF SessionInv
<1> QED BY <1>1, Invariance, PTL

----------------------------------------------------------------------------
(* What locks a session.                                                    *)

\* Only these handlers write to the lock map.
LEMMA LocksUntouched ==
    ASSUME [Next]_vars, ~LockRequests, ~SuspendRequests, ~timer_fires
    PROVE  locks' = locks
<1> USE DEF lockVars, vars
<1>1. CASE ConnectionSteps
  BY <1>1 DEF ConnectionSteps, Connected, Disconnected
<1>2. CASE SessionRequests
  <2>1. ASSUME NEW c, NEW uid, NEW seat, NEW graphical, NEW fault, NEW spawn_fault,
               CreateSession(c, uid, seat, graphical, fault, spawn_fault)
        PROVE  locks' = locks
    BY <2>1 DEF CreateSession
  <2>2. ASSUME NEW c, NEW s, TerminateSession(c, s) PROVE locks' = locks
    BY <2>2 DEF TerminateSession
  <2>3. ASSUME NEW c, NEW s, RegisterCompositor(c, s) PROVE locks' = locks
    BY <2>3 DEF RegisterCompositor
  <2> QED BY <1>2, <2>1, <2>2, <2>3, Zenon DEF SessionRequests
<1>3. CASE ElevationRequests
  BY <1>3, Zenon DEF ElevationRequests, RequestElevation, RespondCancelled, RespondPassword
<1>4. CASE SwitchRequests \/ ActivityReports \/ time_passes
  BY <1>4 DEF SwitchRequests, SwitchSession, ActivityReports, ReportActivity, time_passes
<1>5. CASE InhibitRequests
  BY <1>5, Zenon DEF InhibitRequests, Inhibit, ReleaseInhibit, L!add_inhibitor, L!release_inhibitor
<1>6. CASE PowerDownRequests
  BY <1>6, Zenon DEF PowerDownRequests, Reboot, PowerOff
<1>7. CASE CompositorSteps
  BY <1>7 DEF CompositorSteps, compositor_exits, reap_children
<1>8. CASE Reloads \/ Terminate \/ loop_ends
  BY <1>8 DEF Reloads, ReloadConfig, Terminate, loop_ends
<1>9. CASE MachineSteps \/ UNCHANGED vars
  BY <1>9 DEF MachineSteps, wakes, transition_lands
<1> QED BY <1>1, <1>2, <1>3, <1>4, <1>5, <1>6, <1>7, <1>8, <1>9 DEF Next, TimerSteps

\* The seats that ask an idle tick to suspend.
Suspending == IF suspend_allowed THEN seats_reaching("SuspendRequested") ELSE {}

\* Every way a session gets locked: on request, by wrong passwords, by a suspend or by the
\* idle timer.
LEMMA LockedBy ==
    ASSUME SessionInv, [Next]_vars, NEW s \in Session, ~L!is_locked(s), L!is_locked(s)'
    PROVE  \/ \E c \in Conn : LockSession(c, s) \/ Unlock(c, s, FALSE)
           \/ /\ \E c \in Conn, outcome \in make(backend, "suspend") : Suspend(c, outcome)
              /\ s \in suspend_locks
           \/ s \in idle_locks
           \/ Suspending # {} /\ s \in suspend_locks
<1>1. locks \in [Session -> L!SessionLock] /\ locks[s].state = "Unlocked"
  BY DEF SessionInv, L!SessionLock, L!LockState, L!is_locked
<1>2. locks' # locks
  BY DEF L!is_locked
<1>3. ASSUME NEW c \in Conn, NEW t \in Session, LockSession(c, t) PROVE LockSession(c, s)
  <2>1. locks' = L!locked(locks, {t})
    BY <1>3 DEF LockSession, L!lock
  <2>2. s = t
    BY <1>1, <2>1, LockMaps DEF L!is_locked
  <2> QED BY <1>3, <2>2
<1>4. ASSUME NEW c \in Conn, NEW t \in Session, NEW valid \in BOOLEAN, Unlock(c, t, valid)
      PROVE  Unlock(c, s, FALSE)
  <2> DEFINE result == L!check(valid, locks[t].attempts, settings.lock.max_attempts)
             new == [state    |-> CASE result.outcome = "Success" -> "Unlocked"
                                    [] result.outcome = "LockedOut" -> "LockedOut"
                                    [] OTHER -> locks[t].state,
                     attempts |-> result.attempts]
  <2>1. locks' = locks \/ locks' = [locks EXCEPT ![t] = new]
    BY <1>4 DEF Unlock, L!attempt_unlock
  <2>2. valid => new.state = "Unlocked"
    BY DEF L!check
  <2> HIDE DEF new
  <2>3. s = t /\ locks'[s] = new
    BY <1>1, <1>2, <2>1 DEF L!is_locked
  <2>4. valid = FALSE
    BY <2>2, <2>3 DEF L!is_locked
  <2> QED BY <1>4, <2>3, <2>4, Zenon
<1>5. ASSUME NEW c \in Conn, NEW outcome \in make(backend, "suspend"), Suspend(c, outcome)
      PROVE  s \in suspend_locks
  <2>1. locks' = L!locked(locks, suspend_locks)
    BY <1>5 DEF Suspend
  <2> QED BY <1>1, <2>1, LockMaps DEF L!is_locked
<1>6. ASSUME NEW outcomes, on_idle_tick(outcomes)
      PROVE  s \in idle_locks \/ (Suspending # {} /\ s \in suspend_locks)
  <2> DEFINE newly == idle_locks \cup IF Suspending # {} THEN suspend_locks ELSE {}
             m == L!locked(locks, newly)
  <2>1. locks' = L!lockouts_cleared(m, expired(lock_lockouts))
    BY <1>6 DEF on_idle_tick, Suspending
  <2> SUFFICES s \in newly
    OBVIOUS
  <2> HIDE DEF newly
  <2>2. /\ m \in [Session -> L!SessionLock]
        /\ m[s].state = IF s \in newly THEN "Locked" ELSE locks[s].state
    BY <1>1, LockMaps
  <2> HIDE DEF m
  <2>3. m[s].state = "Unlocked" => locks'[s].state = "Unlocked"
    BY <2>1, <2>2, LockMaps
  <2> QED BY <1>1, <2>2, <2>3 DEF L!is_locked
<1> QED BY <1>2, <1>3, <1>4, <1>5, <1>6, LocksUntouched, Zenon DEF LockRequests, SuspendRequests, timer_fires

\* Under a Block inhibitor on Lock, nothing but wrong passwords locks a session.
THEOREM BlockHolds == Spec => OnlyWrongPasswordsOverrideBlock
<1>1. ASSUME SessionInv, [Next]_vars, NEW s \in Session,
             L!blocks("Lock"), ~L!is_locked(s), L!is_locked(s)'
      PROVE  \E c \in Conn : Unlock(c, s, FALSE)
  <2>1. ~L!lock_allowed(settings.lock)
    BY <1>1 DEF L!lock_allowed
  <2>2. \A c \in Conn : ~LockSession(c, s)
    BY <2>1 DEF LockSession, L!lock
  <2>3. s \notin suspend_locks /\ s \notin idle_locks
    BY <2>1 DEF suspend_locks, idle_locks
  <2> QED BY <1>1, <2>2, <2>3, LockedBy, Zenon
<1>2. SessionInv /\ [Next]_vars =>
        [\A s \in Session : L!blocks("Lock") /\ ~L!is_locked(s) /\ L!is_locked(s)' =>
            \E c \in Conn : Unlock(c, s, FALSE)]_vars
  BY <1>1, Zenon
<1> QED BY <1>2, Invariance, PTL DEF Spec, OnlyWrongPasswordsOverrideBlock

\* Nobody's screen locks out of the blue.
THEOREM LocksAreEarned == Spec => UnaskedLockNeedsIdleness
<1>1. ASSUME SessionInv, [Next]_vars, NEW s \in Session, ~L!is_locked(s), L!is_locked(s)'
      PROVE  \/ \E c \in Conn : \/ LockSession(c, s) \/ Unlock(c, s, FALSE)
                                \/ \E outcome \in make(backend, "suspend") : Suspend(c, outcome)
             \/ \E seat \in DOMAIN idle_for :
                   \E t \in {settings.idle.lock_after, settings.idle.suspend_after} \ {0} :
                      idle_for[seat] >= t
  <2>1. /\ settings.idle.lock_after \in Nat /\ settings.idle.suspend_after \in Nat
    BY <1>1, SettingsAssumption, BoundsAssumption DEF SessionInv, Idle!IdlePolicy
  <2>2. ASSUME NEW st \in {"LockRequested", "SuspendRequested"}, NEW seat \in seats_reaching(st)
        PROVE  /\ seat \in DOMAIN idle_for
               /\ \E t \in {settings.idle.lock_after, settings.idle.suspend_after} \ {0} :
                     idle_for[seat] >= t
    BY <2>1, <2>2 DEF seats_reaching, Idle!changes, Idle!stage_for, Idle!reaches
  <2>3. ASSUME s \in idle_locks PROVE \E seat : seat \in seats_reaching("LockRequested")
    BY <2>3 DEF idle_locks
  <2>4. ASSUME Suspending # {} PROVE \E seat : seat \in seats_reaching("SuspendRequested")
    BY <2>4 DEF Suspending
  <2> QED BY <1>1, <2>2, <2>3, <2>4, LockedBy, Zenon
<1>2. SessionInv /\ [Next]_vars =>
        [\A s \in Session : ~L!is_locked(s) /\ L!is_locked(s)' =>
          \/ \E c \in Conn : \/ LockSession(c, s) \/ Unlock(c, s, FALSE)
                             \/ \E outcome \in make(backend, "suspend") : Suspend(c, outcome)
          \/ \E seat \in DOMAIN idle_for :
                \E t \in {settings.idle.lock_after, settings.idle.suspend_after} \ {0} :
                   idle_for[seat] >= t]_vars
  BY <1>1, Zenon
<1> QED BY <1>2, Invariance, PTL DEF Spec, UnaskedLockNeedsIdleness

----------------------------------------------------------------------------
(* Lockouts and inhibitors.                                                 *)

\* The tables of the LockManager: their types, and a timer for every lockout.
LockTables == L!TypeOK /\ L!EveryLockoutIsTimed

\* A step that starts no lockout, and drops only the timers of sessions that are not locked
\* out any more, keeps them.
LEMMA LockTablesKept ==
    ASSUME LockTables, UNCHANGED <<inhibitors, next_inhibitor>>,
           locks' \in [Session -> L!SessionLock],
           DOMAIN lock_lockouts' \subseteq DOMAIN lock_lockouts,
           lock_lockouts' \in [DOMAIN lock_lockouts' -> Nat],
           \A s \in Session : locks'[s].state = "LockedOut" =>
              /\ locks[s].state = "LockedOut"
              /\ s \in DOMAIN lock_lockouts => s \in DOMAIN lock_lockouts'
    PROVE  LockTables'
BY DEF LockTables, L!TypeOK, L!EveryLockoutIsTimed

\* A password check that locks the session out starts the timer of the lockout.
LEMMA UnlockTables ==
    ASSUME SessionInv, SessionInv', LockTables, NEW s \in Session, NEW valid \in BOOLEAN,
           L!attempt_unlock(s, valid, settings.lock)
    PROVE  LockTables'
<1> DEFINE result == L!check(valid, locks[s].attempts, settings.lock.max_attempts)
<1>1. locks \in [Session -> L!SessionLock] /\ locks' \in [Session -> L!SessionLock]
  BY DEF SessionInv
<1>2. settings.lock.lockout \in Nat
  BY SettingsAssumption DEF SessionInv, L!LockPolicy
<1>3. CASE locks[s].state = "LockedOut"
  BY <1>3 DEF L!attempt_unlock, LockTables, L!TypeOK, L!EveryLockoutIsTimed
<1>4. CASE locks[s].state # "LockedOut"
  <2> DEFINE new == [state    |-> CASE result.outcome = "Success" -> "Unlocked"
                                    [] result.outcome = "LockedOut" -> "LockedOut"
                                    [] OTHER -> locks[s].state,
                     attempts |-> result.attempts]
  <2>1. /\ locks' = [locks EXCEPT ![s] = new]
        /\ lock_lockouts' = IF result.outcome = "LockedOut"
                            THEN L!start(lock_lockouts, s, settings.lock.lockout)
                            ELSE lock_lockouts
        /\ UNCHANGED <<inhibitors, next_inhibitor>>
    BY <1>4 DEF L!attempt_unlock
  <2>2. new.state = "LockedOut" => result.outcome = "LockedOut"
    BY <1>4
  <2> HIDE DEF result, new
  <2>3. /\ DOMAIN lock_lockouts' \subseteq Session
        /\ lock_lockouts' \in [DOMAIN lock_lockouts' -> Nat]
        /\ DOMAIN lock_lockouts \subseteq DOMAIN lock_lockouts'
        /\ result.outcome = "LockedOut" => s \in DOMAIN lock_lockouts'
    BY <1>2, <2>1 DEF LockTables, L!TypeOK, L!start
  <2>4. L!EveryLockoutIsTimed'
    BY <1>1, <2>1, <2>2, <2>3 DEF LockTables, L!EveryLockoutIsTimed
  <2> QED BY <1>1, <2>1, <2>3, <2>4 DEF LockTables, L!TypeOK
<1> QED BY <1>3, <1>4

\* Inhibitors get fresh ids.
LEMMA InhibitTables ==
    ASSUME LockTables, InhibitRequests
    PROVE  LockTables'
<1>1. ASSUME NEW what \in L!InhibitWhat, NEW mode \in L!InhibitMode, L!add_inhibitor(what, mode)
      PROVE  LockTables'
  <2>1. next_inhibitor' \in 0..MaxInhibitorId /\ next_inhibitor' = next_inhibitor + 1
    BY <1>1, BoundsAssumption DEF L!add_inhibitor, LockTables, L!TypeOK
  <2>2. /\ DOMAIN inhibitors' = DOMAIN inhibitors \cup {next_inhibitor'}
        /\ inhibitors' \in [DOMAIN inhibitors' -> L!Inhibitor]
    BY <1>1 DEF L!add_inhibitor, LockTables, L!TypeOK, L!Inhibitor
  <2>3. DOMAIN inhibitors' \subseteq 1..next_inhibitor'
    BY <2>1, <2>2 DEF LockTables, L!TypeOK
  <2> QED BY <1>1, <2>1, <2>2, <2>3 DEF L!add_inhibitor, LockTables, L!TypeOK, L!EveryLockoutIsTimed
<1>2. ASSUME NEW id, L!release_inhibitor(id) PROVE LockTables'
  BY <1>2 DEF L!release_inhibitor, L!Restrict, LockTables, L!TypeOK, L!EveryLockoutIsTimed
<1> QED BY <1>1, <1>2 DEF InhibitRequests, Inhibit, ReleaseInhibit

\* Every step of the daemon keeps the tables: the timers a tick drains are those of the
\* lockouts it clears, also if it locks or suspends before.
LEMMA LockTableSteps ==
    ASSUME SessionInv, LockTables, [Next]_vars
    PROVE  LockTables'
<1>1. locks \in [Session -> L!SessionLock] /\ locks' \in [Session -> L!SessionLock]
  BY StepsKeepSessionInv DEF SessionInv
<1>2. lock_lockouts \in [DOMAIN lock_lockouts -> Nat]
  BY DEF LockTables, L!TypeOK
<1>3. CASE LockRequests
  <2>1. ASSUME NEW s, L!lock(s, settings.lock) PROVE LockTables'
    BY <1>1, <1>2, <2>1, LockMaps, LockTablesKept DEF L!lock
  <2> QED BY <1>3, <2>1, StepsKeepSessionInv, UnlockTables, Zenon DEF LockRequests, LockSession, Unlock
<1>4. CASE InhibitRequests
  BY <1>4, InhibitTables
<1>5. CASE SuspendRequests
  <2>1. /\ locks' = L!locked(locks, suspend_locks)
        /\ UNCHANGED <<lock_lockouts, inhibitors, next_inhibitor>>
    BY <1>5 DEF SuspendRequests, Suspend
  <2> QED BY <1>1, <1>2, <2>1, LockMaps, LockTablesKept
<1>6. CASE timer_fires
  <2> DEFINE newly == idle_locks \cup IF Suspending # {} THEN suspend_locks ELSE {}
             m == L!locked(locks, newly)
  <2>1. /\ locks' = L!lockouts_cleared(m, expired(lock_lockouts))
        /\ lock_lockouts' = drain_expired(lock_lockouts)
        /\ UNCHANGED <<inhibitors, next_inhibitor>>
    BY <1>6 DEF timer_fires, on_idle_tick, Suspending
  <2> HIDE DEF newly
  <2>2. /\ m \in [Session -> L!SessionLock]
        /\ \A s \in Session : m[s].state = "LockedOut" => locks[s].state = "LockedOut"
    BY <1>1, LockMaps
  <2> HIDE DEF m
  <2>3. \A s \in Session : locks'[s].state = "LockedOut" =>
          m[s].state = "LockedOut" /\ s \notin expired(lock_lockouts)
    BY <2>1, <2>2 DEF L!lockouts_cleared
  <2>4. /\ DOMAIN lock_lockouts' = DOMAIN lock_lockouts \ expired(lock_lockouts)
        /\ lock_lockouts' \in [DOMAIN lock_lockouts' -> Nat]
    BY <1>2, <2>1 DEF drain_expired, Restrict
  <2> QED BY <1>1, <2>1, <2>2, <2>3, <2>4, LockTablesKept
<1>7. CASE time_passes
  <2>1. /\ lock_lockouts' = elapse(lock_lockouts)
        /\ UNCHANGED <<locks, inhibitors, next_inhibitor>>
    BY <1>7 DEF time_passes
  <2>2. DOMAIN lock_lockouts' = DOMAIN lock_lockouts /\ lock_lockouts' \in [DOMAIN lock_lockouts' -> Nat]
    BY <1>2, <2>1 DEF elapse
  <2> QED BY <1>1, <2>1, <2>2, LockTablesKept
<1>8. CASE UNCHANGED lockVars
  BY <1>8 DEF lockVars, LockTables, L!TypeOK, L!EveryLockoutIsTimed
<1>9. CASE ConnectionSteps \/ SessionRequests
  <2>1. ASSUME NEW c, NEW uid, NEW seat, NEW graphical, NEW fault, NEW spawn_fault,
               CreateSession(c, uid, seat, graphical, fault, spawn_fault)
        PROVE  UNCHANGED lockVars
    BY <2>1 DEF CreateSession
  <2>2. ASSUME NEW c, NEW s, TerminateSession(c, s) PROVE UNCHANGED lockVars
    BY <2>2 DEF TerminateSession
  <2>3. ASSUME NEW c, NEW s, RegisterCompositor(c, s) PROVE UNCHANGED lockVars
    BY <2>3 DEF RegisterCompositor
  <2>4. ConnectionSteps => UNCHANGED lockVars
    BY Zenon DEF ConnectionSteps, Connected, Disconnected
  <2>5. UNCHANGED lockVars
    BY <1>9, <2>1, <2>2, <2>3, <2>4, Zenon DEF SessionRequests
  <2> QED BY <1>8, <2>5
<1>10. CASE SwitchRequests \/ ElevationRequests \/ ActivityReports
  <2>1. UNCHANGED lockVars
    BY <1>10, Zenon DEF SwitchRequests, SwitchSession, ElevationRequests, RequestElevation,
                 RespondCancelled, RespondPassword, ActivityReports, ReportActivity
  <2> QED BY <1>8, <2>1
<1>11. CASE PowerDownRequests \/ CompositorSteps \/ MachineSteps
  <2>1. UNCHANGED lockVars
    BY <1>11, Zenon DEF PowerDownRequests, Reboot, PowerOff, CompositorSteps, compositor_exits,
                 reap_children, MachineSteps, wakes, transition_lands
  <2> QED BY <1>8, <2>1
<1>12. CASE Reloads \/ Terminate \/ loop_ends \/ UNCHANGED vars
  <2>1. UNCHANGED lockVars
    BY <1>12 DEF Reloads, ReloadConfig, Terminate, loop_ends, vars
  <2> QED BY <1>8, <2>1
<1> QED BY <1>3, <1>4, <1>5, <1>6, <1>7, <1>9, <1>10, <1>11, <1>12 DEF Next, TimerSteps

\* No handler, and no two calls of the LockManager in one handler, leave a session locked
\* out without the timer that ends the lockout.
THEOREM LockoutsTimed == Spec => [](L!TypeOK /\ L!EveryLockoutIsTimed)
<1>1. Init => LockTables
  BY BoundsAssumption DEF Init, L!Init, LockTables, L!TypeOK, L!EveryLockoutIsTimed,
      L!SessionLock, L!LockState, L!no_timers
<1>2. SessionInv /\ LockTables /\ [Next]_vars => LockTables'
  BY LockTableSteps
<1> QED BY <1>1, <1>2, Invariance, PTL DEF Spec, LockTables

----------------------------------------------------------------------------
(* Power.                                                                   *)

\* The daemon's own switches, and the machine.
PowerInv ==
    /\ should_exit \in BOOLEAN /\ running \in BOOLEAN
    /\ backend \in Backends /\ machine \in {"up", "asleep", "down"}
    /\ coming \subseteq [to : {"asleep", "down"}, when : {"later", "stopping"}]

\* Only these steps touch the machine or the transitions it will make.
LEMMA PowerUntouched ==
    ASSUME [Next]_vars, ~SuspendRequests, ~PowerDownRequests, ~timer_fires, ~MachineSteps
    PROVE  /\ UNCHANGED powerVars
           /\ should_exit' \in {should_exit, TRUE} /\ running' \in {running, FALSE}
<1> USE DEF controlVars, powerVars, vars
<1>1. CASE ConnectionSteps
  BY <1>1, Zenon DEF ConnectionSteps, Connected, Disconnected
<1>2. CASE SessionRequests
  <2>1. ASSUME NEW c \in Conn, NEW s \in Session, TerminateSession(c, s) \/ RegisterCompositor(c, s)
        PROVE  UNCHANGED controlVars
    BY <2>1 DEF TerminateSession, RegisterCompositor
  <2>2. ASSUME NEW c, NEW uid, NEW seat, NEW graphical, NEW fault, NEW spawn_fault,
               CreateSession(c, uid, seat, graphical, fault, spawn_fault)
        PROVE  UNCHANGED controlVars
    BY <2>2 DEF CreateSession
  <2> QED BY <1>2, <2>1, <2>2, Zenon DEF SessionRequests
<1>3. CASE ElevationRequests
  BY <1>3, Zenon DEF ElevationRequests, RequestElevation, RespondCancelled, RespondPassword
<1>4. CASE SwitchRequests \/ ActivityReports \/ time_passes
  BY <1>4, Zenon DEF SwitchRequests, SwitchSession, ActivityReports, ReportActivity, time_passes
<1>5. CASE InhibitRequests
  BY <1>5, Zenon DEF InhibitRequests, Inhibit, ReleaseInhibit
<1>6. CASE LockRequests
  BY <1>6, Zenon DEF LockRequests, LockSession, Unlock
<1>7. CASE CompositorSteps
  BY <1>7, Zenon DEF CompositorSteps, compositor_exits, reap_children
<1>8. CASE Reloads \/ Terminate \/ loop_ends \/ UNCHANGED vars
  BY <1>8, Zenon DEF Reloads, ReloadConfig, Terminate, loop_ends
<1> QED BY <1>1, <1>2, <1>3, <1>4, <1>5, <1>6, <1>7, <1>8, Zenon DEF Next, TimerSteps

\* What asking the backend does to them.
LEMMA AskingKeepsPower ==
    ASSUME PowerInv, NEW op, NEW target \in {"asleep", "down"}, NEW outcomes,
           asks_backend(op, target, outcomes), UNCHANGED <<should_exit, running>>
    PROVE  PowerInv'
<1> DEFINE Coming == [to : {"asleep", "down"}, when : {"later", "stopping"}]
<1>1. backend' = backend /\ machine' \in {machine, target}
  BY Zenon DEF asks_backend
<1>2. \A w \in {"later", "stopping"} : [to |-> target, when |-> w] \in Coming
  OBVIOUS
<1>3. \A t \in coming' : t \in coming \/ \E w \in {"later", "stopping"} : t = [to |-> target, when |-> w]
  BY DEF asks_backend
<1>4. coming \subseteq Coming
  BY DEF PowerInv
<1> HIDE DEF Coming
<1>5. coming' \subseteq Coming
  BY <1>2, <1>3, <1>4
<1> QED BY <1>1, <1>5 DEF PowerInv, Coming

\* The power state stays what it says.
LEMMA PowerSteps ==
    ASSUME PowerInv, [Next]_vars
    PROVE  PowerInv'
<1>1. CASE SuspendRequests
  BY <1>1, AskingKeepsPower DEF SuspendRequests, Suspend
<1>2. CASE PowerDownRequests
  BY <1>2, AskingKeepsPower, Zenon DEF PowerDownRequests, Reboot, PowerOff
<1>3. CASE timer_fires
  BY <1>3, AskingKeepsPower DEF timer_fires, on_idle_tick
<1>4. CASE MachineSteps
  BY <1>4 DEF MachineSteps, wakes, transition_lands, PowerInv
<1>5. CASE ~SuspendRequests /\ ~PowerDownRequests /\ ~timer_fires /\ ~MachineSteps
  BY <1>5, PowerUntouched, Zenon DEF PowerInv, powerVars
<1> QED BY <1>1, <1>2, <1>3, <1>4, <1>5

\* PowerInv is an invariant of the daemon.
THEOREM PowerInvariant == Spec => []PowerInv
<1>1. Init => PowerInv
  BY Zenon DEF Init, PowerInv
<1>2. PowerInv /\ UNCHANGED vars => PowerInv'
  BY DEF PowerInv, vars, controlVars, powerVars
<1> QED BY <1>1, <1>2, PowerSteps, PTL DEF Spec

\* A tick that suspends the machine does so for a seat that asked for it.
LEMMA TickSuspends ==
    ASSUME NEW outcomes, on_idle_tick(outcomes), outcomes # {}
    PROVE  Suspending # {}
BY DEF on_idle_tick, Suspending, Range

\* The machine is put to sleep with every session locked, if that is asked for and allowed.
THEOREM AsleepIsLocked == Spec => SleepsLocked
<1> DEFINE Asked == settings.lock_on_suspend /\ L!lock_allowed(settings.lock)
           Sleeps == machine' = "asleep" /\ machine = "up" /\ coming \subseteq coming'
<1>1. ASSUME SessionInv, PowerInv, [Next]_vars, Sleeps, Asked,
             NEW s \in DOMAIN sessions
      PROVE  L!is_locked(s)'
  <2>1. s \in Session /\ s \in suspend_locks /\ locks \in [Session -> L!SessionLock]
    BY <1>1 DEF SessionInv, suspend_locks
  <2>2. CASE SuspendRequests
    <3>1. locks' = L!locked(locks, suspend_locks)
      BY <2>2 DEF SuspendRequests, Suspend
    <3> QED BY <2>1, <3>1, LockMaps DEF L!is_locked
  <2>3. ASSUME NEW outcomes, on_idle_tick(outcomes) PROVE L!is_locked(s)'
    <3>0. asks_backend("suspend", "asleep", outcomes) /\ machine' # machine
      BY <1>1, <2>3 DEF on_idle_tick
    <3>1. outcomes # {}
      BY <3>0 DEF asks_backend
    <3> DEFINE newly == idle_locks \cup suspend_locks
               m == L!locked(locks, newly)
    <3>2. locks' = L!lockouts_cleared(m, expired(lock_lockouts))
      BY <1>1, <2>3, <3>1, TickSuspends, Zenon DEF on_idle_tick, Suspending
    <3>3. m \in [Session -> L!SessionLock] /\ m[s].state = "Locked"
      BY <2>1, LockMaps
    <3> HIDE DEF m
    <3> QED BY <2>1, <3>2, <3>3, LockMaps DEF L!is_locked
  <2>4. ~PowerDownRequests /\ ~MachineSteps
    BY <1>1, Zenon DEF PowerDownRequests, Reboot, PowerOff, asks_backend, MachineSteps, wakes,
                transition_lands
  <2> QED BY <1>1, <2>2, <2>3, <2>4, PowerUntouched DEF powerVars, timer_fires
<1>2. SessionInv /\ PowerInv /\ [Next]_vars
        => [machine' = "asleep" /\ machine = "up" /\ coming \subseteq coming'
              => (settings.lock_on_suspend /\ L!lock_allowed(settings.lock)
                    => \A s \in DOMAIN sessions : L!is_locked(s)')]_vars
  BY <1>1
<1> QED BY <1>2, Invariance, PowerInvariant, PTL DEF Spec, SleepsLocked
====
