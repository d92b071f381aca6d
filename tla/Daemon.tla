---- MODULE Daemon ----
(***************************************************************************)
(* main.rs: the Daemon that owns every manager and runs one handler at a    *)
(* time on the calloop thread.  An action is a whole handler: one IPC       *)
(* message, one timer tick or one signal, from the authorization check to   *)
(* the last event it sends.  A refused or failed request changes nothing    *)
(* but the reply to its sender and is not a step.                           *)
(*                                                                          *)
(* What the clients see is kept as state too: the lock screens and          *)
(* elevation prompts each connection was told to show, and the deferred     *)
(* replies to RequestElevation.                                             *)
(***************************************************************************)
EXTENDS Naturals, Sequences, FiniteSets, Functions, Authentication, Timeouts, SessionState,
        PowerBackend, Directories, Launcher

CONSTANTS
    MaxSessionId,     \* SessionManager::next_id stops here
    MaxRequestId,     \* ElevationManager::next_id stops here
    MaxInhibitorId,   \* InhibitorRegistry::next_id stops here
    MaxAttemptCount,  \* unlock attempts are counted up to here
    MaxAttempts,      \* bounds [elevation].max_attempts ...
    MaxPending,       \* ... and max_pending_per_session of every configuration
    MaxIdle,          \* idle time is counted up to here
    Conn, NoConn,     \* IPC connection ids, and compositor_conn = None
    Uid, Root,        \* accounts, and uid 0
    ConnUid,          \* connection -> the uid SO_PEERCRED reports for it
    Passwordless,     \* the accounts user_has_password is false for
    SeatId, NoSession,
    Settings,         \* the configurations config::load may return
    Backends,         \* the power backends the daemon may have been started with
    DirsAtStart       \* what the daemon may find of home and runtime directories

VARIABLES
    should_exit,
    running,          \* the loop of run() has not ended
    settings,
    sessions,         \* SessionManager: session id -> context
    next_session,
    home, runtime,    \* user -> the state of the home and of the runtime directory
    seats,                                                        \* SeatManager
    locks, lock_lockouts, inhibitors, next_inhibitor,             \* LockManager
    pending, next_request, elevation_auth, prompt_timers, elevation_lockouts,
                                                                  \* ElevationManager
    idle_for, stage,                                              \* IdleDetector
    conns,            \* connection -> not yet, currently, or no longer connected
    registry,         \* ConnRegistry: the connections with an outbox
    lock_screens,     \* <<connection, session>>: lock screens on display
    prompts,          \* <<connection, request>>: elevation prompts on display
    replies,          \* request id -> replies to its RequestElevation
    backend,          \* power_backend, chosen at start
    machine,          \* whether the machine is up, asleep or down
    coming            \* transitions it will make although the call has returned

loginVars == <<next_session, home, runtime>>
sessionVars == <<sessions, loginVars>>
lockVars == <<locks, lock_lockouts, inhibitors, next_inhibitor>>
elevationVars == <<pending, next_request, elevation_auth, prompt_timers, elevation_lockouts>>
idleVars == <<idle_for, stage>>
connVars == <<conns, registry>>
promptVars == <<prompts, replies>>
powerVars == <<backend, machine, coming>>
controlVars == <<should_exit, running, settings, powerVars>>
vars == <<sessionVars, seats, lockVars, elevationVars, idleVars, connVars,
          lock_screens, promptVars, controlVars>>

Session == 1..MaxSessionId
RequestId == 1..MaxRequestId

E == INSTANCE ElevationManager WITH
        Policy <- {st.elevation : st \in Settings},
        next_id <- next_request, session_auth <- elevation_auth,
        prompt_expiry <- prompt_timers, lockout_expiry <- elevation_lockouts
L == INSTANCE LockManager WITH
        Policy <- {st.lock : st \in Settings}, lockout_expiry <- lock_lockouts
Seats == INSTANCE SeatManager
Idle == INSTANCE IdleDetector WITH Seat <- SeatId, Policy <- {st.idle : st \in Settings}

ASSUME SettingsAssumption == \A st \in Settings :
    /\ st.max_compositor_restarts \in Nat
    /\ st.lock \in L!LockPolicy
    /\ st.idle \in Idle!IdlePolicy
    /\ st.elevation \in E!ElevationPolicy
    /\ st.elevation.max_attempts <= MaxAttempts
    /\ st.elevation.max_pending_per_session <= MaxPending
ASSUME BoundsAssumption ==
    /\ {MaxSessionId, MaxRequestId, MaxInhibitorId, MaxAttemptCount} \subseteq Nat
    /\ MaxAttempts \in Nat \ {0} /\ MaxPending \in Nat /\ MaxIdle \in Nat
ASSUME NobodyAssumption == NoSession \notin Session /\ NoConn \notin Conn
ASSUME DirsAssumption == DirsAtStart \subseteq DirState

\* SessionContext.  process is what the kernel knows of compositor_process: the
\* child of this session that runs, that has exited and waits to be reaped, or none;
\* runs_as are the credentials of that child.
SessionContext ==
    [uid : Uid, state : SessionStates, compositor_conn : Conn \cup {NoConn},
     process : {"none", "running", "exited"},
     runs_as : Credentials(Uid \cup {Root, "nobody"}),
     compositor_restarts : Nat]

\* config::load: what the file it settles on says by now, or the compiled-in defaults.  It
\* may settle on another file at a reload than at the start, which alone looks at the
\* command line.
load == Settings

Init ==
    /\ should_exit = FALSE /\ running = TRUE /\ settings \in load
    /\ backend \in Backends /\ machine = "up" /\ coming = {}
    /\ sessions = [s \in {} |-> s] /\ next_session = 1
    /\ home \in [Uid -> DirsAtStart] /\ runtime \in [Uid -> DirsAtStart]
    /\ Seats!Init /\ L!Init /\ E!Init /\ Idle!IdleInit
    /\ conns = [c \in Conn |-> "new"] /\ registry = {}
    /\ lock_screens = {} /\ prompts = {} /\ replies = [id \in RequestId |-> <<>>]

----------------------------------------------------------------------------
(* Helpers: the registry, authorization and the session map.                *)

\* policy::authorize for a request about session s.
owns(c, s) == s \in DOMAIN sessions /\ sessions[s].uid = ConnUid[c]
authorize(c, s) == ConnUid[c] = Root \/ owns(c, s)

\* The loop of run() dispatches.  It looks at should_exit only between two dispatches,
\* so what is ready together with a SIGTERM is handled after it.
dispatches == running /\ machine = "up"

\* A command of connection c is handled: its Connected came first on the channel,
\* its Disconnected has not come yet.
handles(c) == dispatches /\ conns[c] = "open"

has_password(s) == sessions[s].uid \notin Passwordless

\* The session map after a transition of every session in S (errors ignored).
transitioned(S, next) ==
    [s \in DOMAIN sessions |->
        IF s \in S THEN [sessions[s] EXCEPT !.state = transition(@, next)] ELSE sessions[s]]

\* ShowLockScreen to the registered compositor of every live session in S.
lock_screens_shown(S) ==
    lock_screens \cup {<<sessions[s].compositor_conn, s>> :
                          s \in {t \in S \cap DOMAIN sessions :
                                    sessions[t].compositor_conn \in registry}}

\* Faulty ways to close requests: without HideElevationPrompt, and without a reply.
answered_no_hide(ids, outcome, reg) ==
    /\ replies' = [id \in RequestId |->
                     IF id \in ids /\ pending[id].requester_conn \in reg
                     THEN Append(replies[id], outcome) ELSE replies[id]]
    /\ UNCHANGED prompts
answered_no_reply(ids, outcome, reg) ==
    /\ prompts' = prompts \ {<<pending[id].compositor_conn, id>> :
                                id \in {i \in ids : pending[i].compositor_conn \in reg}}
    /\ UNCHANGED replies

\* Close the requests in ids, which are no longer pending: HideElevationPrompt to
\* the compositor, the deferred reply to the requester.  reg is the registry then.
answered(ids, outcome, reg) ==
    /\ prompts' = prompts \ {<<pending[id].compositor_conn, id>> :
                                id \in {i \in ids : pending[i].compositor_conn \in reg}}
    /\ replies' = [id \in RequestId |->
                     IF id \in ids /\ pending[id].requester_conn \in reg
                     THEN Append(replies[id], outcome) ELSE replies[id]]

----------------------------------------------------------------------------
(* handle_ipc: connections come and go.  Connection ids are never reused.   *)

Connected(c) ==
    /\ dispatches /\ conns[c] = "new"
    /\ conns' = [conns EXCEPT ![c] = "open"]
    /\ registry' = registry \cup {c}
    /\ UNCHANGED <<sessionVars, seats, lockVars, elevationVars, idleVars, lock_screens,
                   promptVars, controlVars>>

\* Faulty Disconnected: the elevation requests of the connection are not abandoned.
Disconnected_keeping_prompts(c) ==
    /\ handles(c)
    /\ conns' = [conns EXCEPT ![c] = "gone"]
    /\ registry' = registry \ {c}
    /\ sessions' = [s \in DOMAIN sessions |->
                      IF sessions[s].compositor_conn = c
                      THEN [sessions[s] EXCEPT !.compositor_conn = NoConn] ELSE sessions[s]]
    /\ UNCHANGED <<loginVars, seats, lockVars, elevationVars, idleVars, lock_screens,
                   promptVars, controlVars>>

\* The registry entry goes first, so nothing is sent to c itself any more.  The
\* session keeps its state: only its compositor_conn is cleared.
Disconnected(c) ==
    /\ handles(c)
    /\ conns' = [conns EXCEPT ![c] = "gone"]
    /\ registry' = registry \ {c}
    /\ sessions' = [s \in DOMAIN sessions |->
                      IF sessions[s].compositor_conn = c
                      THEN [sessions[s] EXCEPT !.compositor_conn = NoConn] ELSE sessions[s]]
    /\ E!abandon_connection(c)
    /\ answered(E!PendingOn(c), "Error", registry \ {c})
    /\ UNCHANGED <<loginVars, seats, lockVars, idleVars, lock_screens, controlVars>>

----------------------------------------------------------------------------
(* Sessions.                                                                *)

\* SessionManager::create_session refuses a user who has all the sessions allowed ...
session_limit_reached(uid) ==
    Cardinality({s \in DOMAIN sessions : sessions[s].uid = uid}) >= settings.max_sessions_per_user

\* ... and lifecycle::begin sets up the context of a new session,
begun(uid) ==
    [uid |-> uid, state |-> "Starting", compositor_conn |-> NoConn, process |-> "none",
     runs_as |-> IdsOf("nobody"), compositor_restarts |-> 0]

\* for which try_spawn_compositor starts a compositor, if it can.
with_compositor(ctx, fault) ==
    LET child == spawn(ctx.uid, Root, fault)
    IN  [ctx EXCEPT !.process = child.process, !.runs_as = child.runs_as]

with_session(id, ctx) ==
    [s \in DOMAIN sessions \cup {id} |-> IF s = id THEN ctx ELSE sessions[s]]

\* SessionManager::terminate_session for every session in S: lifecycle::end kills and
\* reaps the compositor, and the context is dropped.
terminated(S) == Restrict(sessions, DOMAIN sessions \ S)

\* The directories of a user after ensure_home_ready and, if that is content, after
\* ensure_runtime_dir; begin goes on only if both are.
home_ready(uid, fault) == ensure_home_ready(home[uid], uid = Root, fault)
runtime_ready(uid, fault) ==
    IF home_ready(uid, fault).ok THEN ensure_runtime_dir(runtime[uid], uid = Root, fault)
    ELSE [ok |-> FALSE, dir |-> runtime[uid]]

\* A faulty CreateSession that does not advance the id counter.
CreateSession_same_id(c, uid, seat, graphical, fault, spawn_fault) ==
    /\ handles(c)
    /\ ConnUid[c] \in {Root, uid}
    /\ ~session_limit_reached(uid) /\ runtime_ready(uid, fault).ok
    /\ next_session \in Session
    /\ home' = [home EXCEPT ![uid] = "own"] /\ runtime' = [runtime EXCEPT ![uid] = "own"]
    /\ sessions' = with_session(next_session, begun(uid))
    /\ Seats!attach_session(seat, next_session)
    /\ UNCHANGED <<next_session, lockVars, elevationVars, idleVars, connVars, lock_screens,
                   promptVars, controlVars>>

\* CreateSession: the per-user limit, then an id, then lifecycle::begin, which may fail on
\* the directories; that costs the id and leaves them as they are by then.  Graphical
\* sessions get a compositor, unless spawning it fails.
CreateSession(c, uid, seat, graphical, fault, spawn_fault) ==
    /\ handles(c)
    /\ ConnUid[c] \in {Root, uid}
    /\ ~session_limit_reached(uid)
    /\ next_session \in Session
    /\ next_session' = next_session + 1
    /\ home' = [home EXCEPT ![uid] = home_ready(uid, fault).dir]
    /\ runtime' = [runtime EXCEPT ![uid] = runtime_ready(uid, fault).dir]
    /\ IF runtime_ready(uid, fault).ok
       THEN /\ sessions' = with_session(next_session,
                             IF graphical THEN with_compositor(begun(uid), spawn_fault)
                             ELSE begun(uid))
            /\ Seats!attach_session(seat, next_session)
       ELSE UNCHANGED <<sessions, seats>>
    /\ UNCHANGED <<lockVars, elevationVars, idleVars, connVars, lock_screens,
                   promptVars, controlVars>>

\* A faulty TerminateSession that does not abandon the prompts.
TerminateSession_no_abandon(c, s) ==
    /\ handles(c) /\ authorize(c, s)
    /\ s \in DOMAIN sessions
    /\ sessions' = terminated({s})
    /\ Seats!detach_session(s)
    /\ UNCHANGED <<loginVars, lockVars, elevationVars, idleVars, connVars, lock_screens,
                   promptVars, controlVars>>

\* TerminateSession: the seat is handed on and the session's prompts are abandoned.
TerminateSession(c, s) ==
    /\ handles(c) /\ authorize(c, s)
    /\ s \in DOMAIN sessions
    /\ sessions' = terminated({s})
    /\ Seats!detach_session(s)
    /\ E!abandon_session(s)
    /\ answered(E!PendingOf(s), "Error", registry)
    /\ UNCHANGED <<loginVars, lockVars, idleVars, connVars, lock_screens, controlVars>>

\* Faulty RegisterCompositor: no ShowLockScreen for a session that is locked, ...
RegisterCompositor_silent(c, s) ==
    /\ handles(c) /\ authorize(c, s)
    /\ s \in DOMAIN sessions
    /\ sessions' = [sessions EXCEPT
          ![s].compositor_conn = c,
          ![s].state = transition(@, IF L!is_locked(s) THEN "Locked" ELSE "Active")]
    /\ UNCHANGED <<loginVars, seats, lockVars, elevationVars, idleVars, connVars,
                   lock_screens, promptVars, controlVars>>

\* ... or the session's own state, which a crash has reset, decides.
RegisterCompositor_by_state(c, s) ==
    /\ handles(c) /\ authorize(c, s)
    /\ s \in DOMAIN sessions
    /\ sessions' = [sessions EXCEPT
          ![s].compositor_conn = c,
          ![s].state = IF @ = "Locked" THEN "Locked" ELSE transition(@, "Active")]
    /\ lock_screens' = IF sessions[s].state = "Locked" /\ c \in registry
                       THEN lock_screens \cup {<<c, s>>} ELSE lock_screens
    /\ UNCHANGED <<loginVars, seats, lockVars, elevationVars, idleVars, connVars,
                   promptVars, controlVars>>

\* RegisterCompositor: the LockManager, not the session's state, decides whether the
\* display comes up locked.
RegisterCompositor(c, s) ==
    /\ handles(c) /\ authorize(c, s)
    /\ s \in DOMAIN sessions
    /\ sessions' = [sessions EXCEPT
          ![s].compositor_conn = c,
          ![s].state = transition(@, IF L!is_locked(s) THEN "Locked" ELSE "Active")]
    /\ lock_screens' = IF L!is_locked(s) /\ c \in registry
                       THEN lock_screens \cup {<<c, s>>} ELSE lock_screens
    /\ UNCHANGED <<loginVars, seats, lockVars, elevationVars, idleVars, connVars,
                   promptVars, controlVars>>

\* SwitchSession: SessionActivated goes to the new active session's compositor only.
SwitchSession(c, seat, s) ==
    /\ handles(c) /\ authorize(c, s)
    /\ Seats!switch_active(seat, s)
    /\ UNCHANGED <<sessionVars, lockVars, elevationVars, idleVars, connVars,
                   lock_screens, promptVars, controlVars>>

----------------------------------------------------------------------------
(* Locking.  Root may lock and unlock ids that no session has (any more).   *)

LockSession(c, s) ==
    /\ handles(c) /\ authorize(c, s)
    /\ s \in DOMAIN sessions => has_password(s)
    /\ L!lock(s, settings.lock)
    /\ sessions' = transitioned({s}, "Locked")
    /\ lock_screens' = lock_screens_shown({s})
    /\ UNCHANGED <<loginVars, seats, elevationVars, idleVars, connVars, promptVars,
                   controlVars>>

\* A faulty Unlock that leaves the session's state alone.
Unlock_keeping_state(c, s, valid) ==
    /\ handles(c) /\ authorize(c, s)
    /\ L!attempt_unlock(s, valid, settings.lock)
    /\ UNCHANGED <<sessionVars, seats, elevationVars, idleVars, connVars, lock_screens,
                   promptVars, controlVars>>

Unlock(c, s, valid) ==
    /\ handles(c) /\ authorize(c, s)
    /\ L!attempt_unlock(s, valid, settings.lock)
    /\ IF L!unlock_outcome(s, valid, settings.lock) = "Success"
       THEN /\ sessions' = transitioned({s}, "Active")
            /\ lock_screens' = IF s \in DOMAIN sessions
                               THEN lock_screens \
                                      ({sessions[s].compositor_conn} \cap registry) \X {s}
                               ELSE lock_screens
       ELSE UNCHANGED <<sessions, lock_screens>>
    /\ UNCHANGED <<loginVars, seats, elevationVars, idleVars, connVars, promptVars,
                   controlVars>>

Inhibit(c, what, mode) ==
    /\ handles(c)
    /\ L!add_inhibitor(what, mode)
    /\ UNCHANGED <<sessionVars, seats, elevationVars, idleVars, connVars, lock_screens,
                   promptVars, controlVars>>

\* Any client may release any inhibitor; a client that disconnects releases none.
ReleaseInhibit(c, id) ==
    /\ handles(c)
    /\ L!release_inhibitor(id)
    /\ UNCHANGED <<sessionVars, seats, elevationVars, idleVars, connVars, lock_screens,
                   promptVars, controlVars>>

----------------------------------------------------------------------------
(* Power.  By the time the backend is called the sessions have been locked  *)
(* or terminated, whatever comes of the call.                               *)

\* The backend is asked for op, once for each outcome: the machine makes the transition
\* to target at once, or will make it, or not.  What the calls return goes into the
\* reply and nowhere else.
asks_backend(op, target, outcomes) ==
    /\ outcomes \subseteq make(backend, op)
    /\ machine' = IF \E o \in outcomes : o.when = "now" THEN target ELSE machine
    /\ coming' = coming \cup {[to |-> target, when |-> o.when] :
                                 o \in {p \in outcomes : p.when \in {"later", "stopping"}}}
    /\ UNCHANGED backend

suspend_allowed == ~L!blocks("Suspend")

\* A faulty power::suspend that locks only where it has a compositor to tell.
suspend_locks_displays ==
    IF settings.lock_on_suspend /\ L!lock_allowed(settings.lock)
    THEN {s \in DOMAIN sessions : sessions[s].compositor_conn # NoConn} ELSE {}

\* The sessions power::suspend locks: it asks the LockManager directly, ignores its
\* refusal, and touches neither the sessions' states nor their lock screens.
suspend_locks ==
    IF settings.lock_on_suspend /\ L!lock_allowed(settings.lock)
    THEN DOMAIN sessions ELSE {}

Suspend(c, outcome) ==
    /\ handles(c)
    /\ suspend_allowed
    /\ locks' = L!locked(locks, suspend_locks)
    /\ asks_backend("suspend", "asleep", {outcome})
    /\ UNCHANGED <<sessionVars, seats, lock_lockouts, inhibitors, next_inhibitor,
                   elevationVars, idleVars, connVars, lock_screens, promptVars,
                   should_exit, running, settings>>

\* Every session is removed from the SessionManager; the seats, the locks and the
\* elevation prompts are not told.
all_sessions_terminated == sessions' = terminated(DOMAIN sessions)

Reboot(c, outcome) ==
    /\ handles(c)
    /\ ~L!blocks("Shutdown")
    /\ all_sessions_terminated
    /\ asks_backend("reboot", "down", {outcome})
    /\ UNCHANGED <<loginVars, seats, lockVars, elevationVars, idleVars, connVars,
                   lock_screens, promptVars, should_exit, running, settings>>

PowerOff(c, outcome) ==
    /\ handles(c)
    /\ ~L!blocks("Shutdown")
    /\ all_sessions_terminated
    /\ asks_backend("poweroff", "down", {outcome})
    /\ UNCHANGED <<loginVars, seats, lockVars, elevationVars, idleVars, connVars,
                   lock_screens, promptVars, should_exit, running, settings>>

\* Environment: a transition that was still to come happens.  The supervisor waits for
\* the daemon to end, mitos-power for nobody.
transition_lands(t) ==
    /\ t \in coming
    /\ machine = "up"
    /\ t.when = "stopping" => ~running
    /\ machine' = t.to /\ coming' = coming \ {t}
    /\ UNCHANGED <<sessionVars, seats, lockVars, elevationVars, idleVars, connVars,
                   lock_screens, promptVars, should_exit, running, settings, backend>>

\* Environment: the machine resumes.
wakes ==
    /\ machine = "asleep"
    /\ machine' = "up"
    /\ UNCHANGED <<sessionVars, seats, lockVars, elevationVars, idleVars, connVars,
                   lock_screens, promptVars, should_exit, running, settings, backend, coming>>

----------------------------------------------------------------------------
(* Elevation: a service asks, the compositor prompts and answers, the       *)
(* service's reply is deferred until then.                                  *)

RequestElevation(c, s) ==
    /\ handles(c)
    /\ ConnUid[c] \in {Root, settings.requester}
    /\ settings.elevation_enabled
    /\ s \in DOMAIN sessions /\ has_password(s)
    /\ sessions[s].compositor_conn # NoConn
    /\ E!begin(s, sessions[s].compositor_conn, c, settings.elevation)
    /\ prompts' = prompts \cup ({sessions[s].compositor_conn} \cap registry) \X {next_request'}
    /\ UNCHANGED <<sessionVars, seats, lockVars, idleVars, connVars, lock_screens,
                   replies, controlVars>>

\* Only the compositor the prompt was sent to, or root, may answer it.
may_respond(c, id) ==
    /\ id \in DOMAIN pending
    /\ ConnUid[c] = Root \/ pending[id].compositor_conn = c

RespondCancelled(c, id) ==
    /\ handles(c) /\ may_respond(c, id)
    /\ E!cancel(id)
    /\ answered({id}, "Cancelled", registry)
    /\ UNCHANGED <<sessionVars, seats, lockVars, idleVars, connVars, lock_screens,
                   controlVars>>

\* A password is checked only while the session is still there; a plain Failure
\* leaves the prompt open and the requester waiting.
RespondPassword(c, id, valid) ==
    LET s == pending[id].session
        outcome == check(valid, elevation_auth[s].attempts,
                         settings.elevation.max_attempts).outcome
    IN  /\ handles(c) /\ may_respond(c, id)
        /\ s \in DOMAIN sessions
        /\ E!attempt(id, valid, settings.elevation)
        /\ IF outcome = "Failure" THEN UNCHANGED promptVars
           ELSE answered({id}, outcome, registry)
        /\ UNCHANGED <<sessionVars, seats, lockVars, idleVars, connVars, lock_screens,
                       controlVars>>

----------------------------------------------------------------------------
(* The idle timer, once a second.                                           *)

ReportActivity(c, seat) ==
    /\ handles(c)
    /\ Idle!record_activity(seat)
    /\ UNCHANGED <<sessionVars, seats, lockVars, elevationVars, connVars, lock_screens,
                   promptVars, controlVars>>

seats_reaching(st) ==
    {seat \in Idle!changes(settings.idle) :
        Idle!stage_for(settings.idle, idle_for[seat]) = st}

\* Faulty idle_locks that does not ask the LockManager about inhibitors.
idle_locks_unchecked ==
    {s \in Session :
        /\ settings.lock_on_idle
        /\ \E seat \in seats_reaching("LockRequested") : seats[seat].active = s
        /\ s \in DOMAIN sessions => has_password(s)}

\* The sessions an idle tick locks: the active one of every seat that reaches the
\* LockRequested stage, unless its user has no password.
idle_locks ==
    {s \in Session :
        /\ settings.lock_on_idle /\ L!lock_allowed(settings.lock)
        /\ \E seat \in seats_reaching("LockRequested") : seats[seat].active = s
        /\ s \in DOMAIN sessions => has_password(s)}

\* A faulty on_idle_tick without the elevation sweep.
on_idle_tick_no_elevation(outcomes) ==
    LET suspending == IF suspend_allowed THEN seats_reaching("SuspendRequested") ELSE {}
        newly == idle_locks \cup IF suspending # {} THEN suspend_locks ELSE {}
    IN  /\ dispatches
        /\ Idle!tick(settings.idle)
        /\ locks' = L!lockouts_cleared(L!locked(locks, newly), expired(lock_lockouts))
        /\ lock_lockouts' = drain_expired(lock_lockouts)
        /\ sessions' = transitioned(idle_locks, "Locked")
        /\ lock_screens' = lock_screens_shown(idle_locks)
        /\ \E outcome \in [suspending -> make(backend, "suspend")] : outcomes = Range(outcome)
        /\ asks_backend("suspend", "asleep", outcomes)
        /\ UNCHANGED <<loginVars, seats, inhibitors, next_inhibitor, elevationVars,
                       connVars, promptVars, should_exit, running, settings>>

\* on_idle_tick: the stage changes first (the sessions they lock do not depend on the
\* order of the seats; every seat that asks for it suspends the machine), then the
\* lockouts, then the elevation timers.
on_idle_tick(outcomes) ==
    LET suspending == IF suspend_allowed THEN seats_reaching("SuspendRequested") ELSE {}
        newly == idle_locks \cup IF suspending # {} THEN suspend_locks ELSE {}
    IN  /\ dispatches
        /\ Idle!tick(settings.idle)
        /\ locks' = L!lockouts_cleared(L!locked(locks, newly), expired(lock_lockouts))
        /\ lock_lockouts' = drain_expired(lock_lockouts)
        /\ sessions' = transitioned(idle_locks, "Locked")
        /\ lock_screens' = lock_screens_shown(idle_locks)
        /\ E!sweep
        /\ answered(expired(prompt_timers) \cap DOMAIN pending, "Error", registry)
        /\ \E outcome \in [suspending -> make(backend, "suspend")] : outcomes = Range(outcome)
        /\ asks_backend("suspend", "asleep", outcomes)
        /\ UNCHANGED <<loginVars, seats, inhibitors, next_inhibitor, connVars,
                       should_exit, running, settings>>

\* Time passes between two handlers; a machine that is asleep has no time.
time_passes ==
    /\ dispatches
    /\ lock_lockouts' = elapse(lock_lockouts)
    /\ E!tick
    /\ Idle!elapse_idle
    /\ UNCHANGED <<sessionVars, seats, locks, inhibitors, next_inhibitor, connVars,
                   lock_screens, promptVars, controlVars>>

----------------------------------------------------------------------------
(* Signals.                                                                 *)

\* SIGTERM and SIGINT: every session is terminated ...
Terminate ==
    /\ dispatches
    /\ all_sessions_terminated
    /\ should_exit' = TRUE
    /\ UNCHANGED <<loginVars, seats, lockVars, elevationVars, idleVars, connVars,
                   lock_screens, promptVars, running, settings, powerVars>>

\* ... and the loop ends when the dispatch has returned.
loop_ends ==
    /\ dispatches /\ should_exit
    /\ running' = FALSE
    /\ UNCHANGED <<sessionVars, seats, lockVars, elevationVars, idleVars, connVars,
                   lock_screens, promptVars, should_exit, settings, powerVars>>

\* SIGHUP: the new settings apply from the next handler on; a configuration that
\* fails to load changes nothing.
ReloadConfig(new_settings) ==
    /\ dispatches
    /\ settings' = new_settings
    /\ UNCHANGED <<sessionVars, seats, lockVars, elevationVars, idleVars, connVars,
                   lock_screens, promptVars, should_exit, running, powerVars>>

\* Environment: the compositor (or fallback terminal) of s exits by itself.
compositor_exits(s) ==
    /\ machine = "up" /\ s \in DOMAIN sessions
    /\ sessions[s].process = "running"
    /\ sessions' = [sessions EXCEPT ![s].process = "exited"]
    /\ UNCHANGED <<loginVars, seats, lockVars, elevationVars, idleVars, connVars,
                   lock_screens, promptVars, controlVars>>

\* A faulty decide_restart that allows one restart too many.
decide_restart_off_by_one(restarts) ==
    IF restarts <= settings.max_compositor_restarts THEN "Restart" ELSE "FallbackToTerminal"

decide_restart(restarts) ==
    IF restarts < settings.max_compositor_restarts THEN "Restart" ELSE "FallbackToTerminal"

\* handle_compositor_exit for session s: the connection goes, the session falls back
\* to Starting and a compositor, or past the limit a terminal, is spawned if it can be.
restarted(ctx, fault) ==
    with_compositor([ctx EXCEPT
        !.compositor_conn = NoConn,
        !.state = transition(@, "Starting"),
        !.compositor_restarts = IF decide_restart(@) = "Restart" THEN @ + 1 ELSE @], fault)

\* SIGCHLD: reap_children collects every child that has exited by now, one
\* handle_compositor_exit each; faults says what befalls the relaunches.  The
\* Disconnected of the stale connection is still to come.
reap_children(faults) ==
    LET exited == {s \in DOMAIN sessions : sessions[s].process = "exited"}
    IN  /\ dispatches
        /\ exited # {}
        /\ sessions' = [s \in DOMAIN sessions |->
                          IF s \in exited THEN restarted(sessions[s], faults[s])
                          ELSE sessions[s]]
        /\ registry' = registry \ {sessions[s].compositor_conn : s \in exited}
        /\ UNCHANGED <<loginVars, seats, lockVars, elevationVars, idleVars, conns,
                       lock_screens, promptVars, controlVars>>

----------------------------------------------------------------------------

ConnectionSteps == \E c \in Conn : Connected(c) \/ Disconnected(c)

SessionRequests == \E c \in Conn :
    \/ \E uid \in Uid, seat \in SeatId, graphical \in BOOLEAN, fault \in Fault,
          spawn_fault \in SpawnFault : CreateSession(c, uid, seat, graphical, fault, spawn_fault)
    \/ \E s \in Session : TerminateSession(c, s) \/ RegisterCompositor(c, s)

SwitchRequests == \E c \in Conn, seat \in SeatId, s \in Session : SwitchSession(c, seat, s)

LockRequests == \E c \in Conn, s \in Session :
    \/ LockSession(c, s)
    \/ \E valid \in BOOLEAN : Unlock(c, s, valid)

InhibitRequests == \E c \in Conn :
    \/ \E what \in L!InhibitWhat, mode \in L!InhibitMode : Inhibit(c, what, mode)
    \/ \E id \in L!InhibitorId : ReleaseInhibit(c, id)

SuspendRequests == \E c \in Conn, outcome \in make(backend, "suspend") : Suspend(c, outcome)
PowerDownRequests == \E c \in Conn :
    \/ \E outcome \in make(backend, "reboot") : Reboot(c, outcome)
    \/ \E outcome \in make(backend, "poweroff") : PowerOff(c, outcome)
MachineSteps == wakes \/ \E t \in coming : transition_lands(t)

ElevationRequests == \E c \in Conn :
    \/ \E s \in Session : RequestElevation(c, s)
    \/ \E id \in RequestId : \/ RespondCancelled(c, id)
                              \/ \E valid \in BOOLEAN : RespondPassword(c, id, valid)

ActivityReports == \E c \in Conn, seat \in SeatId : ReportActivity(c, seat)
timer_fires == \E outcomes \in SUBSET make(backend, "suspend") : on_idle_tick(outcomes)
TimerSteps == time_passes \/ timer_fires
CompositorSteps ==
    \/ \E s \in Session : compositor_exits(s)
    \/ \E faults \in [DOMAIN sessions -> SpawnFault] : reap_children(faults)
Reloads == \E new_settings \in load : ReloadConfig(new_settings)

Next ==
    \/ ConnectionSteps \/ SessionRequests \/ SwitchRequests \/ LockRequests
    \/ InhibitRequests \/ SuspendRequests \/ PowerDownRequests \/ ElevationRequests
    \/ ActivityReports \/ TimerSteps \/ CompositorSteps \/ Reloads
    \/ Terminate \/ loop_ends \/ MachineSteps

Spec == Init /\ [][Next]_vars

\* Whenever the machine is up the clock runs and the 1 Hz timer of main.rs fires, also if
\* it is sent to sleep again and again; nothing else is promised.
Fairness == SF_vars(time_passes) /\ SF_vars(timer_fires)

----------------------------------------------------------------------------
(* Properties.                                                              *)

TypeOK ==
    /\ should_exit \in BOOLEAN /\ running \in BOOLEAN /\ settings \in Settings
    /\ backend \in Backends /\ machine \in {"up", "asleep", "down"}
    /\ coming \subseteq [to : {"asleep", "down"}, when : {"later", "stopping"}]
    /\ next_session \in 1..(MaxSessionId + 1)
    /\ home \in [Uid -> DirState] /\ runtime \in [Uid -> DirState]
    /\ DOMAIN sessions \subseteq 1..(next_session - 1)
    /\ sessions \in [DOMAIN sessions -> SessionContext]
    /\ Seats!TypeOK /\ L!TypeOK /\ E!TypeOK
    /\ DOMAIN stage = DOMAIN idle_for /\ DOMAIN stage \subseteq SeatId
    /\ idle_for \in [DOMAIN stage -> 0..MaxIdle] /\ stage \in [DOMAIN stage -> Idle!IdleStage]
    /\ conns \in [Conn -> {"new", "open", "gone"}] /\ registry \subseteq Conn
    /\ lock_screens \subseteq Conn \X Session
    /\ prompts \subseteq Conn \X RequestId
    /\ replies \in [RequestId -> Seq(AuthOutcome)]

\* A session in state Locked is locked for the LockManager too.  The two are written
\* by different statements of six handlers; if they ever came apart this way, the next
\* RegisterCompositor would bring the session up unlocked.
LockedStateIsBacked ==
    \A s \in DOMAIN sessions : sessions[s].state = "Locked" => L!is_locked(s)

\* A session in state Locked with a reachable compositor has that compositor showing
\* the lock screen, also after the compositor crashed, was replaced by another, or
\* registered while the session was already locked.
LockedStateShowsLockScreen ==
    \A s \in DOMAIN sessions :
        sessions[s].state = "Locked" /\ sessions[s].compositor_conn \in registry
          => <<sessions[s].compositor_conn, s>> \in lock_screens

\* docs/session-lifecycle.md: "A crash never unlocks a session."  Across every handler,
\* crash, reload and timer, only Unlock with a credential that passed takes a session
\* from locked to unlocked ...
OnlyAPasswordUnlocks ==
    [][\A s \in Session :
          L!is_locked(s) /\ ~L!is_locked(s)' => \E c \in Conn : Unlock(c, s, TRUE)]_vars

\* ... and no session turns Active while the LockManager has it locked.
ActivationMeansUnlocked ==
    [][\A s \in DOMAIN sessions \cap DOMAIN sessions' :
          sessions'[s].state = "Active" /\ sessions[s].state # "Active"
            => ~L!is_locked(s)']_vars

\* Nobody's screen locks out of the blue: without a request of a client, a session gets
\* locked only at a tick at which some seat has had no input for a whole, enabled
\* lock_after or suspend_after.
UnaskedLockNeedsIdleness ==
    [][\A s \in Session : ~L!is_locked(s) /\ L!is_locked(s)' =>
          \/ \E c \in Conn : \/ LockSession(c, s) \/ Unlock(c, s, FALSE)
                             \/ \E outcome \in make(backend, "suspend") : Suspend(c, outcome)
          \/ \E seat \in DOMAIN idle_for :
                \E t \in {settings.idle.lock_after, settings.idle.suspend_after} \ {0} :
                   idle_for[seat] >= t]_vars

\* While a Block inhibitor on Lock is held, neither LockSession, nor the idle timer, nor
\* a suspend locks a session; wrong passwords still do.
OnlyWrongPasswordsOverrideBlock ==
    [][\A s \in Session : L!blocks("Lock") /\ ~L!is_locked(s) /\ L!is_locked(s)' =>
          \E c \in Conn : Unlock(c, s, FALSE)]_vars

\* A session's compositor, and both ends of every open elevation request, are
\* connections that have not gone: Disconnected leaves no reference behind, so nobody
\* waits for an answer from a client that can no longer give one.
NoDanglingConnection ==
    /\ \A s \in DOMAIN sessions :
          sessions[s].compositor_conn # NoConn => conns[sessions[s].compositor_conn] = "open"
    /\ \A id \in DOMAIN pending :
          conns[pending[id].compositor_conn] = "open" /\ conns[pending[id].requester_conn] = "open"

\* The prompts a reachable compositor shows are exactly the open requests it was sent:
\* no prompt stays up after its request was answered, cancelled, abandoned or timed
\* out, and none is taken down early.
PromptsMatchPending ==
    \A c \in registry, id \in RequestId :
        <<c, id>> \in prompts <=> id \in DOMAIN pending /\ pending[id].compositor_conn = c

\* How far a request has come, for its requester; two replies, or one to a request that
\* is still open, are no phase.
phase == [id \in RequestId |->
            IF id \in DOMAIN pending THEN IF replies[id] = <<>> THEN "waiting" ELSE "early"
            ELSE IF id \in 1..next_request
            THEN CASE Len(replies[id]) = 0 -> "dropped"
                   [] Len(replies[id]) = 1 -> "replied"
                   [] OTHER -> "repeated"
            ELSE "unsent"]

Contract == INSTANCE ElevationContract WITH
    requester <- [id \in DOMAIN pending |-> pending[id].requester_conn],
    outboxes <- registry

\* The daemon keeps the contract of RequestElevation: every request that is closed gets
\* one reply, however answer, cancel, timeout, logout, crash and disconnect race each
\* other, unless its requester has gone by then; and no request gets two.
KeepsElevationContract == Contract!Spec

\* As long as the loop goes on dispatching, every open request is closed in the end,
\* whoever crashes or walks away and however often the machine sleeps.
EveryRequestCloses ==
    []<>dispatches => \A id \in RequestId : id \in DOMAIN pending ~> id \notin DOMAIN pending

\* Every session is on a seat: a login that finds the seat taken, or a switch, leaves
\* nobody without a place to come back to.
LiveSessionsAreSeated ==
    \A s \in DOMAIN sessions : \E seat \in SeatId : Seats!has_session(seat, s)

\* Every session on a seat and every session with an open elevation request exists:
\* session/lifecycle.rs leaves it to the caller to "tell `SeatManager`", docs/security.md
\* abandons a request "if its session is terminated".  (True until the machine is told to
\* go down or the daemon to exit: those end sessions and tell neither.)
NoDanglingSession ==
    machine # "down" /\ ~should_exit =>
        /\ \A seat \in SeatId, s \in Session :
              Seats!has_session(seat, s) => s \in DOMAIN sessions
        /\ \A id \in DOMAIN pending : pending[id].session \in DOMAIN sessions

\* docs/session-lifecycle.md on a session that has started: "user's home directory
\* confirmed usable, `XDG_RUNTIME_DIR` exists".  It stays so while the session lives:
\* another login of the same user that fails half-way takes nothing away from it.
SessionsKeepTheirDirectories ==
    \A s \in DOMAIN sessions : home[sessions[s].uid] = "own" /\ runtime[sessions[s].uid] = "own"

\* power/resume.rs: "Sessions were already locked before suspending (if
\* `lock_on_suspend` was set)".  Whenever a request or the idle timer puts the machine to
\* sleep it does so with every session locked, unless locking is disabled or inhibited.
\* (A mitos-power that sleeps only after the call has given up is not held to this: a
\* password may come in between.)
SleepsLocked ==
    [][machine' = "asleep" /\ machine = "up" /\ coming \subseteq coming'
         => (settings.lock_on_suspend /\ L!lock_allowed(settings.lock)
               => \A s \in DOMAIN sessions : L!is_locked(s)')]_vars

\* docs/session-lifecycle.md on Closing: "the daemon shutting down (`SIGTERM`/`SIGINT`)
\* and terminating every session itself."
ExitEndsEverySession == ~running => sessions = <<>>

\* launcher/application.rs spawns "as `user`": a compositor or terminal, first launch or
\* relaunch, has none of root's uid, gid and supplementary groups left, whichever of the
\* calls that give them up fails.
ProcessesRunAsTheirUser ==
    \A s \in DOMAIN sessions :
        sessions[s].process # "none" => sessions[s].runs_as = IdsOf(sessions[s].uid)

\* No compositor is relaunched more often than some configuration allows.
RestartsBounded ==
    \A s \in DOMAIN sessions :
        \E st \in Settings : sessions[s].compositor_restarts <= st.max_compositor_restarts

\* docs/architecture.md on locking: LockManager "flips the session's `LockState`", the
\* session's state moves to Locked, and "If a compositor is registered for that session,
\* `ConnRegistry` pushes `Event::ShowLockScreen` to it".
LockedMeansLockScreen ==
    \A s \in DOMAIN sessions :
        L!is_locked(s) /\ sessions[s].compositor_conn \in registry
          => <<sessions[s].compositor_conn, s>> \in lock_screens
====
