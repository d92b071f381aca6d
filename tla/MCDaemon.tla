---- MODULE MCDaemon ----
(* Model-checking instances of Daemon: scenarios that let some handlers interact. *)
EXTENDS Daemon, TLC

CONSTANTS root, alice, service

Accounts == {root, alice, service}

\* One configuration, with close idle thresholds and dimming disabled, and a second one a
\* SIGHUP may switch to.
BaseSettings ==
    [lock |-> [enabled |-> TRUE, max_attempts |-> 2, lockout |-> 1],
     lock_on_idle |-> TRUE, lock_on_suspend |-> TRUE,
     elevation |-> [max_pending_per_session |-> 2, prompt_timeout |-> 1,
                    max_attempts |-> 2, lockout |-> 1],
     elevation_enabled |-> TRUE, requester |-> service,
     max_sessions_per_user |-> 2, max_compositor_restarts |-> 1,
     idle |-> [dim_after |-> 0, lock_after |-> 1, suspend_after |-> 2]]
OneSetting == {BaseSettings}
TwoSettings == {BaseSettings,
                [BaseSettings EXCEPT !.lock.max_attempts = 1, !.lock_on_suspend = FALSE,
                                     !.elevation.max_attempts = 1,
                                     !.elevation.max_pending_per_session = 1,
                                     !.max_compositor_restarts = 0,
                                     !.idle.lock_after = 0]}
\* A single guess before a lockout that the next tick ends.
IdleSettings == {[BaseSettings EXCEPT !.lock.max_attempts = 1, !.lock.lockout = 0]}
\* An idle machine is suspended, and nothing else happens to it.
PowerSettings == {[BaseSettings EXCEPT !.elevation.max_attempts = 1,
                      !.idle.lock_after = 0, !.idle.suspend_after = 1]}

\* All connections are alice's; or one is the service's, or root's.
AllAlice == [c \in Conn |-> alice]
CONSTANT serviceConn
WithService == [c \in Conn |-> IF c = serviceConn THEN service ELSE alice]
WithRoot == [c \in Conn |-> IF c = serviceConn THEN root ELSE alice]

\* Scenario "locking": compositors crash, reconnect and are replaced while the session
\* is locked, unlocked, locked out and suspended, under a changing configuration.
LockNext ==
    \/ ConnectionSteps \/ SessionRequests \/ LockRequests \/ Reloads
    \/ SuspendRequests \/ TimerSteps \/ CompositorSteps \/ wakes
LockSpec == Init /\ [][LockNext]_vars

\* Scenario "idle": two seats grow idle, lock and suspend, or are suspended by a request,
\* while inhibitors on locking come and go and sessions are switched.
IdleNext ==
    \/ \E c \in Conn :
          \/ Connected(c)
          \/ \E seat \in SeatId, fault \in Fault :
                CreateSession(c, alice, seat, FALSE, fault, "none")
          \/ Inhibit(c, "Lock", "Block")
          \/ \E id \in L!InhibitorId : ReleaseInhibit(c, id)
    \/ SwitchRequests \/ ActivityReports \/ LockRequests \/ SuspendRequests \/ TimerSteps \/ wakes
IdleSpec == Init /\ [][IdleNext]_vars

\* Scenario "elevation": a service asks, compositors prompt, answer, crash and log out,
\* under a changing configuration.
ElevationNext ==
    \/ ConnectionSteps \/ SessionRequests \/ ElevationRequests \/ TimerSteps
    \/ CompositorSteps \/ Reloads
ElevationSpec == Init /\ [][ElevationNext]_vars

\* Scenario "power": sessions and prompts around transitions that may fail or be
\* inhibited, and around the end of the daemon.
PowerNext ==
    \/ ConnectionSteps \/ ElevationRequests
    \/ SuspendRequests \/ PowerDownRequests \/ TimerSteps \/ Terminate \/ loop_ends \/ MachineSteps
    \/ \E c \in Conn :
          \/ \E seat \in SeatId : CreateSession(c, alice, seat, FALSE, "none", "none")
          \/ \E s \in Session : RegisterCompositor(c, s)
          \/ \E what \in {"Suspend", "Shutdown"} : Inhibit(c, what, "Block")
          \/ \E id \in L!InhibitorId : ReleaseInhibit(c, id)
PowerSpec == Init /\ [][PowerNext]_vars /\ Fairness

ConnSymmetry == Permutations(Conn)
SeatSymmetry == Permutations(SeatId)
AliceSymmetry == Permutations(Conn \ {serviceConn})
====
