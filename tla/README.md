# A verification of mitos-session

`mitos-session` is a session manager daemon: it creates login sessions, gives them
seats, locks and unlocks them, supervises their compositors, watches for idleness,
answers elevation ("run this as root?") requests and drives suspend, reboot and
power-off.  This directory models it in TLA+, checks the models with TLC and proves
the main facts with TLAPS: about the managers one by one, about the whole daemon, and
about the threads of the IPC layer.

Paths below are relative to the repository (`src/main.rs` is `src/src/main.rs` in
`PROJECT.json`).  `PROJECT.json` holds the exact correspondence: for every definition
the lines it stands for (`map`), for every run its properties, for every property a
faulty variant of the code that it catches (`mutants`), and the list of hazards.

## 1. The system

One process, one event loop (calloop).  All managers belong to the `Daemon` struct in
`main.rs` and are touched by the loop's thread only.  Threads exist in the IPC layer
alone: an accept loop, and for every connection a reader and a writer.

| Part | State | Operations | What makes it hard |
|---|---|---|---|
| Event loop, `main.rs` | all managers, `ConnRegistry`, `should_exit`, the config | one handler per IPC request, `on_idle_tick` (1 Hz), signals, `Connected` / `Disconnected` | one fact is kept in several managers, and every handler must update them all; the configuration changes under open requests (SIGHUP) |
| Sessions, `session/` | id -> context (state, seat, compositor pid, connection, restarts) | `create_session`, `terminate_session`, `transition` | creation can fail halfway; a state table that can refuse, with the refusal ignored |
| Seats, `seat/` | seat -> active session and queue | `attach_session`, `detach_session`, `switch_active` | long sequences of the three |
| Locking, `lock/` | session -> (state, attempts), lockout timers, inhibitors | `lock`, `attempt_unlock`, `clear_lockout`, `add_inhibitor`, `release_inhibitor` | locking again during a lockout; timers that outlive what they time |
| Elevation, `elevation/` | pending requests, per-session attempts and lockout, prompt and lockout timers | `begin`, `attempt`, `cancel`, `abandon_session`, `abandon_connection`, `expire_pending`, `clear_expired_lockouts` | answers, cancels, timeouts, logouts and disconnects race; prompts opened before a lockout still take guesses |
| Authentication, `authentication/` | none; counts in its caller's counter | `check` | the boundary of `max_attempts`, also 0 and a limit lowered by a reload |
| Idleness, `idle/` | seat -> last input, stage | `record_activity`, `tick` | late ticks; thresholds of 0 that mean "never" |
| IPC, `ipc/` | sockets, threads, one channel in, one outbox per connection | accept, read, write, register, hang up | interleaved threads, a deferred reply, the shutdown order of two threads |
| Power, `power/` | none of its own | `suspend`, `reboot`, `poweroff`, three backends | the backend may refuse after sessions were locked or ended, give up on a transition that comes later all the same, or return before anything has happened |
| Compositors, `launcher/` | pid and restart count in the session | spawn, reap, relaunch or fall back | a crash while locked; the exit and the disconnect arrive in either order; any call of a spawn may fail with half of root's credentials given up |
| Directories, `user/home.rs`, `session/environment.rs` | home and runtime directory of a user | made sure of at each login | a login that fails half-way works on what another session of the user is using |
| Configuration, signals, policy | | `load`, SIGHUP / SIGTERM / SIGCHLD, `authorize` | a reload between two steps of one request |

Not state machines, hence not modelled: environment variables, udev enumeration, account
look-ups, the bytes of a message, logging, the command line client.  Where the outcome of
such a part matters it is an input of an action (`valid` for PAM).  Section 7 has the full
list.

## 2. The modules

```
Timeouts   Authentication   SessionState   Directories   Launcher   PowerBackend    shared pieces
   |             |               |              |            |           |
ElevationManager   LockManager   SeatManager   IdleDetector  |           |          managers
        \              |             |             /         |           |
         `------------------------ Daemon ------------------'-----------'
              implements |           |  \ written against
                 ElevationContract   |   Connections <-- implements -- IpcServer
                                  MCDaemon (scenarios)

ElevationManagerProofs, LockManagerProofs, SeatProofs, IpcServerProofs,              theorems
DaemonSessionProofs, DaemonRequestProofs <- DaemonClientProofs <- DaemonProofs
MCElevationManager, MCLockManager, MCSeats                                           for TLC
```

* **Authentication** - `check` of `authentication/authenticator.rs`: count a wrong
  credential, report `LockedOut` when the count reaches the limit, reset on success.
  Whether PAM accepts a credential is the input `valid`.
* **Timeouts** - the deadline maps of `lock/timeout.rs` and the elevation manager.  An
  `Instant` becomes the time that is left: `elapse` counts down, `expired` is the set
  at 0.  `tick` is the passing of time; nothing forces a sweep to come in time, so a
  late sweep is one of the behaviours.
* **SessionState** - the transition table of `session/state.rs`.
* **ElevationManager** - variables `pending`, `next_id`, `session_auth`,
  `prompt_expiry`, `lockout_expiry`, one per field or map of the struct.  `begin`,
  `attempt`, `cancel`, `abandon_session`, `abandon_connection` carry the source's names;
  `sweep` is the part of `on_idle_tick` that calls `clear_expired_lockouts` and
  `expire_pending`.  Every call takes its policy from the constant set `Policy`, which is
  how a reload between two calls is represented.
* **LockManager** - `locks`, `lockout_expiry`, `inhibitors`, `next_inhibitor`; `lock`,
  `attempt_unlock`, `add_inhibitor`, `release_inhibitor`, and `sweep`, which clears the
  expired lockouts.
* **SeatManager** - `seats`: the active session and the queue of each seat.
* **IdleDetector** - `idle_for` (time since the last input, in place of an `Instant`)
  and `stage`.
* **MCSeats** - `SeatManager` and `IdleDetector` side by side: they share the seats and no
  state, and the loop interleaves their calls.
* **Directories** - a path is missing, the user's own or somebody else's;
  `ensure_home_ready` and `ensure_runtime_dir` say whether a login may go on and what they
  leave behind, given the system call that fails (`Fault`).
* **Launcher** - `Application::spawn`.  Credentials are described by the account the uid,
  the gid and the groups belong to; `pre_exec` gives up root's groups, gid and uid in the
  order of the code, and each call needs root's uid and may fail.
* **PowerBackend** - an operation of a backend is the set of its outcomes: what it returns
  to the daemon, and when the machine makes the transition (now, later, once the daemon
  has been stopped, never).
* **ElevationContract** - what a requester may rely on: one reply when its request is
  closed, none before, none after.  `Daemon` implements it; the mapping (`phase`) reads the
  phase of a request off `pending`, `next_request` and `replies`.
* **Connections** - the contract between the IPC layer and the loop: per connection one
  `Connected`, then commands, then at most one `Disconnected`; only a connection in
  between is registered.
* **IpcServer** - the reader thread, the writer thread, the channel, the outboxes and
  the registry.  `Connections` is its abstract specification.  The refinement mapping
  reads `conns` off the reader's position and the messages still in the channel.  The
  connections in `Caller` are used through `IpcClient::call` (`ipc/client.rs`): while one
  is in `calling` it has sent a request and reads until a response comes, and sends no
  other.
* **Daemon** - the composition.  An action is a whole handler, from the authorization
  check to the last event sent.  The managers' operators are used through `INSTANCE`
  (`E`, `L`, `Seats`, `Idle`), so what is proved of a manager's operator is about the
  operator the daemon uses.  `machine` and `coming` say whether the machine is up, asleep
  or down and which transitions are still to come; `should_exit` is looked at between two
  dispatches, so handlers may run after it was set, until `loop_ends`.  What clients see
  is state too: `lock_screens` and `prompts` on display and the `replies` to each
  `RequestElevation`.
* **MCDaemon** - configurations, and four next-state relations that let some of the
  handlers of `Daemon` interact (locking, idleness, elevation, power).  Each is a
  disjunction of `Daemon`'s own actions; `IdleNext` and `PowerNext` fix some of the
  arguments of `CreateSession` and `Inhibit`.  The theorems and the two violated runs are
  about `Daemon`'s own `Next`.

Operators named `..._off_by_one`, `..._untimed`, `..._lazily` and the like stand just
before the definition they vary.  They are the faulty variants of `PROJECT.json`;
no specification uses them.

Abstractions that recur: a request that is refused changes nothing but its reply to the
sender, so it is not a step; ids are small naturals, accounts and connections are
model values; texts, environment and logging are left out.

## 3. The runs

Passing runs:

| Run | Instance | What it shows |
|---|---|---|
| `elevation_manager` | 2 sessions, 2 connections, 3 requests, 2 policies | a prompt or a lockout exists exactly as long as its timer (`EveryPromptIsTimed`, `EveryLockoutIsTimed`); wrong guesses and open prompts share one budget (`GuessBudget`), although prompts opened before a lockout go on taking guesses; a lockout is lifted by its timer alone (`OnlyTheTimerLiftsALockout`); both end (`EveryPromptResolves`, `EveryLockoutEnds`) |
| `lock_manager` | 2 sessions, 3 policies, 2 inhibitors | nobody is shut out without a timer running (`EveryLockoutIsTimed`) or for ever (`EveryLockoutEnds`); only the right password unlocks (`OnlyAPasswordUnlocks`); locking again refunds no guesses (`GuessesAreNotForgotten`) |
| `seats` | 4 sessions, 2 seats, 3 policies, idle time to 4 | a session has one place (`EverySessionHasOnePlace`), no one queues for a free seat (`NoQueueForAFreeSeat`), queues keep their order (`NobodyOvertakes`), only `detach_session` takes somebody off (`OnlyDetachRemoves`); a stage is earned by real idleness (`StagesAreEarned`) and, however late the ticks, a quiet seat gets its lock request (`QuietSeatsAskForTheLock`) |
| `ipc_server` | 2 connections, one of them an `IpcClient`, 2 requests, 1 event | the threads implement `Connections` (`KeepsConnectionOrder`); replies arrive once and in order (`RepliesInOrder`); a client in `call()` gets the reply to its own request, although replies carry no id and may be deferred (`CallsGetTheirReply`); every request read on a live connection is answered (`RequestsAreAnswered`) |
| `daemon_lock` | 1 session, 3 connections, 2 configurations | session state, `LockManager` and lock screen agree through crashes, replaced compositors, suspends and reloads (`LockedStateIsBacked`, `LockedStateShowsLockScreen`, `ActivationMeansUnlocked`, `OnlyAPasswordUnlocks`); relaunches are bounded (`RestartsBounded`); no process keeps anything of root, whichever call of a spawn fails (`ProcessesRunAsTheirUser`) |
| `daemon_elevation` | 1 session, a service and 2 compositor connections, 2 requests, 2 configurations | the daemon implements `ElevationContract` (`KeepsElevationContract`); the prompts on display are the open requests (`PromptsMatchPending`); no reference to a closed connection survives (`NoDanglingConnection`); prompts and seats refer to live sessions (`NoDanglingSession`) |
| `daemon_idle` | 2 sessions, 2 seats, 1 inhibitor, directories in any state at start | nothing locks without idleness or a request (`UnaskedLockNeedsIdleness`) or against a Block inhibitor, wrong passwords apart (`OnlyWrongPasswordsOverrideBlock`); the idle timer and a request put the machine to sleep with its sessions locked (`SleepsLocked`); every session keeps a place (`LiveSessionsAreSeated`) and its directories, whatever later logins fail at (`SessionsKeepTheirDirectories`) |
| `daemon_power` | a root and a user connection, 1 session, 1 request, 1 inhibitor, mitos-power or the supervisor | with transitions that fail, are inhibited, come late or wait for the daemon to stop, and a machine that sleeps again and again, every open request is closed in the end (`EveryRequestCloses`) |

Runs that are expected to be violated, because the code and the repository's text
disagree:

* `lockout_served` - `lock/state.rs:8-9` says `LockedOut` refuses attempts "until the
  lockout timer ... expires".  `lock` (`lock/lock.rs:66`) writes `Locked` whatever the
  state was, so locking again ends the lockout early.  The attempt counter survives, so
  the next wrong password locks out again.
* `hang_up` - when a client hangs up, the reader drops its own `Sender` and joins the
  writer (`ipc/server.rs:174-175`).  The registry holds the other `Sender`, and lets go
  of it only on `Disconnected`, which the reader sends after the join.  Unless something
  is written to the dead socket, the two wait for each other.  Daemon's `Disconnected`
  is therefore something that may happen, never something that must.
* `suspend_lock_screen` - `docs/architecture.md:59-60` says the compositor is told to
  show the lock screen.  `power::suspend` locks in the `LockManager` only: session state
  and screen stay as they are, and accounts without a password are locked as well, which
  `lock_session` refuses (`main.rs:500`).
* `exit_sessions` - `docs/session-lifecycle.md:35-36` says that at SIGTERM the daemon
  terminates "every session itself".  The loop reads `should_exit` between two dispatches
  only (`main.rs:107`), so a `CreateSession` that is ready in the same dispatch as the
  signal is handled after `graceful_shutdown`, and its session is alive when the daemon
  exits.

Disagreements met while modelling that have no run of their own:

* The unit test at `elevation/manager.rs:474-475` describes the guess that reaches the
  limit as a plain failure; `check` counts it as the one that locks out.
* An inhibitor on Lock blocks locking (`lock/inhibitor.rs:15`); wrong passwords take an
  unlocked session to `LockedOut` regardless (`lock/lock.rs:95`).
  `OnlyWrongPasswordsOverrideBlock` states exactly this exception.
* `suspend` ignores a lock that was refused and suspends unlocked
  (`docs/session-lifecycle.md:87-88`).
* When the backend refuses a reboot or power-off, the sessions have already been ended,
  but seats and pending prompts still name them (`session/lifecycle.rs:51-54`,
  `docs/security.md:87-88`).  `NoDanglingSession` is checked in the scenario that has no
  such refusal; `daemon_power` shows that the prompts still close.
* A suspend on which the call to mitos-power has given up (`power/mitos_power.rs:45`) may
  still come, after a password has opened a session.  `SleepsLocked` leaves this sleep
  out, since no text of the repository speaks of it.
* A right password while a session is `Starting` makes it `Active` before it has a
  display (`docs/session-lifecycle.md:26-28`, `main.rs:548`).

## 4. Bounds

All bounds are constants with a name: `MaxSessionId`, `MaxRequestId`, `MaxInhibitorId`,
`MaxAttemptCount`, `MaxIdle`, `MaxRequests`, `MaxEvents`; `MaxAttempts` and `MaxPending`
are not cut-offs but bounds on what configurations may say.  The theorems of section 6
hold for all their values.

* Sessions of the lock and elevation managers do not share state, so two suffice to
  show that one's steps leave the other alone.
* Three elevation requests with `max_pending_per_session = 2` let both places fill, a
  lockout begin with a prompt still open, and a third request be refused or follow.
* Four sessions on two seats give a queue of three, the least in which order can go
  wrong in the middle.
* `MaxAttemptCount` lies above every `max_attempts`, so the counter passes the limit.
* The second configuration of each daemon run lowers the attempt, prompt and relaunch
  limits below what may already have been used.
* Idle time saturates at or above the largest threshold, where nothing changes any more.
* Lockouts and prompts last one unit of time, and none in `daemon_idle`, where a lockout
  ends at the next tick: the longer ones are the business of the managers' own runs.
* The daemon's idle policy has no dimming, which changes no state but the stage; `seats`
  has all stages.
* One session is enough for the locking, elevation and power scenarios: their handlers
  work on one session at a time.  What sessions share, seats and directories, has runs
  with two (`daemon_idle`) and four (`seats`).
* Three connections of one user let a compositor crash, reconnect and be replaced by
  another; the service and two compositors do the same with prompts open.
* A login, a spawn and a relaunch each meet every fault of their fault set.
* Two connections interleave in one channel.  The requests are bounded over both
  together, so that two requests of one client and one of each are covered.

Symmetry is used only in daemon runs without liveness properties (connections of one
account, seats).  Deadlock checking is off in `ipc_server`, where all clients may have
left, in `hang_up`, and in `daemon_power`, `suspend_lock_screen` and `exit_sessions`,
where the daemon ends.

## 5. Fairness

* Managers: weak fairness of `tick` (time passes) and of `sweep` (the 1 Hz calloop timer
  re-arms itself in `main.rs` and no handler blocks for ever).
* `IdleDetector`: the same for `elapse_idle` and `tick`.
* `Daemon`: strong fairness of `time_passes` and of `timer_fires`.  Both are disabled
  while the machine sleeps, and a machine that is sent to sleep again and again disables
  them infinitely often, which would make weak fairness an empty promise.  The clock runs
  and the timer of the loop fires whenever the machine is up: neither waits for the
  machine to stay up.  `EveryRequestCloses` asks in addition that the loop goes on
  dispatching; a daemon that exits, or a machine that stays asleep, closes nothing.
  Nothing is assumed of clients, compositors, signals or `Disconnected`.
* `IpcServer`: weak fairness of each reader thread, each writer thread and the loop's
  handling of each connection, that is, threads get scheduled and the channel is a FIFO
  that the loop drains.  Nothing is assumed of clients.

## 6. Theorems

`ElevationManagerProofs`, for all sets of sessions, connections and policies, and any
`MaxRequestId`, from `PolicyAssumption` (limits are naturals within `MaxAttempts` and
`MaxPending`, with `MaxAttempts >= 1`) and `MaxRequestIdAssumption`, the named assumptions
of the module:

* `TypeCorrect`, `PromptsTimed`, `LockoutsTimed`, `GuessesBounded`: the invariants of
  the run.
* `LockoutsServed`: `OnlyTheTimerLiftsALockout`.

The budget is the interesting one.  It is not inductive.  `begin` opens a prompt, which
costs one unit of it, and is safe only because a session that is not locked out has a
guess left (`CounterBelowLimit`) and has fewer prompts open than its limit allows
(`OpenPromptsBounded`).  `CounterBelowLimit` needs in turn that a sweep resets counter
and flag together, which is `EveryLockoutIsTimed`.  `IInv` is the conjunction.  Every way
of closing a request goes through `Forget`; `ForgetKeeps` and `ForgetKeepsBudget` say
once what that preserves, and `BeginKeepsIInv`, `AttemptKeepsIInv`, `SweepKeepsIInv`
cover the actions that do more.

`LockManagerProofs`, from `LockPolicyAssumption` and the bounds' types:

* `LockoutsTimed` (`EveryLockoutIsTimed`), inductive together with `TypeOK`;
* `PasswordUnlocks` (`OnlyAPasswordUnlocks`) and `GuessesKept`
  (`GuessesAreNotForgotten`), action by action from the type of the lock map.

`SeatProofs` is about the two managers that work per seat, for any number of seats and
sessions.  Of the idle detector, from `IdlePolicyAssumption`: `Earned`
(`StagesAreEarned`), inductive with the types of its two maps (`IdleInv`).  Of the seat
manager, from `NoSessionAssumption`: `TypeCorrect`, `OnePlace`, `FreeSeatsHaveNoQueue`,
`DetachRemoves`, `QueuesKeepOrder`.  `IInv` says that
every entry is good (no duplicates, the active session not in its own queue, no queue
without an active session) and that two seats share nobody.  The three operations are
first studied on one entry (`AttachedEntry`, `DetachedEntry`, `SwitchedEntry`), down to
what `without` (the `retain` of `detach_session`), `Append` and `Tail` do to the order
of a queue; `Steps` then reduces every step of the manager to one of them.

The four `Daemon...Proofs` modules build on one another.  Their theorems are about the
whole `Next` of the daemon, for all configurations, users, connections, seats, backends
and bounds, from the named assumptions of `Daemon`: limits and policies of a configuration
are what the managers' modules ask for (`SettingsAssumption`), bounds are naturals
(`BoundsAssumption`), the markers for "no session" and "no connection" are none
(`NobodyAssumption`), and a directory is in a state there is (`DirsAssumption`).

`DaemonSessionProofs`:

* `LockedIsBacked`, `PasswordUnlocks`, `ActiveIsUnlocked`, `RelaunchesBounded`,
  `RunAsUser`, `DirectoriesKept`, from the inductive invariant `SessionInv`.
  `LockedStateIsBacked` is inductive only because `Unlock` leaves `Locked` when it opens
  the lock (the table allows `Locked -> Active`, `TransitionStates`) and because a relaunch
  takes the state away from `Locked` and never to it.  `SessionInv` also carries the types
  of contexts and locks, so that the `EXCEPT`s of the handlers mean what they seem to, and
  the credentials and directories.  There is one lemma per handler or group of handlers
  that does the same to sessions and locks; `StepsKeepSessionInv` collects them.
* `BlockHolds` (`OnlyWrongPasswordsOverrideBlock`) and `LocksAreEarned`
  (`UnaskedLockNeedsIdleness`): the handlers that can close a lock are gone through, and
  for the idle tick the stage a seat reaches is traced back to the threshold behind it.
* `LockoutsTimed`: in the daemon too a locked out session has its timer.  `Suspend` and
  `on_idle_tick` lock many sessions in one step, which is no step of `LockManager`, so
  this is an induction of its own (`LockTables`) and not a refinement.
* `AsleepIsLocked` (`SleepsLocked`).  `PowerInv` says what transitions may be pending;
  the machine falls asleep without using up one of them only in `Suspend` and
  `on_idle_tick`, which lock first.

`DaemonRequestProofs`:

* `LoginInvariant`: session ids are handed out once.  Its lemmas reduce each step, as far
  as sessions and seats go, to a login, a logout or neither.
* `KeepsContract`, the refinement of `ElevationContract` by the daemon.  The invariant
  `RequestInv` says that ids run up to `next_request` and that a request that is open or
  not yet made has no reply.  Every handler is shown to close a set of requests (`Closes`)
  or to open the next one (`Opens`); `ClosingSteps` and `OpeningSteps` map the two to
  `Close` and `Ask`.

`DaemonClientProofs`:

* `ConnectionsOpen` (`NoDanglingConnection`), `LockScreensShown`
  (`LockedStateShowsLockScreen`), `PromptsMatch` (`PromptsMatchPending`), from `ConnInv`.
  None of the three is inductive alone.  A lock screen stays the right one only because a
  connection that registers is new and nobody refers to it yet, and a prompt cannot turn
  up twice only because it was sent under an id handed out before, to a connection that is
  not new.  `ConnStep`, `DisplayStep`, `Closes` and `Opens` say what a step may do to the
  registry, the screens and the prompts.

`DaemonProofs`:

* `UsesElevation`: the daemon implements the specification of `ElevationManager`, each
  handler making at most one of its calls.  So the theorems of `ElevationManagerProofs`
  hold of the daemon (`ElevationGuarantees`); that its settings meet `PolicyAssumption` is
  `ElevationAssumptions`.
* `IdleGuarantees` and `UsesSeats` with `SeatGuarantees`: the daemon uses the idle detector
  and the seat manager as their specifications allow, so their theorems carry over.
  `attach_session` of a session that has a place already would break the seat manager; that
  the daemon never does this is part of `SeatInv`: on the seats are only ids handed out
  before, and every session is (`PlacesInv`).  `PlacesStep` says what a login, a logout or
  a switch makes of the sessions on each seat.
* `SessionsSeated` (`LiveSessionsAreSeated`), from `SeatInv`.
* `SessionsExist` (`NoDanglingSession`), from `DanglingInv`, for behaviours without reboot
  and power-off requests: these end the sessions and tell neither seats nor elevation
  (section 3), so the property is not one of the whole `Next`.  The run has no such
  requests either.
* `TypeCorrect` (`TypeOK`), which collects the types from all of the above.

`IpcServerProofs`, for any connections, callers among them (`CallerAssumption`), requests
and events:

* `KeepsOrder`, the refinement of `Connections`.  `ChannelInv` says what a message on the
  channel tells of the others of its connection: a Connected is the first, a Disconnected
  the last, and a reader that is done has left its Disconnected there until the loop takes
  it.  With it each message the loop takes finds its connection in the state the contract
  asks for (`TakingSteps`); reader and writer threads only stutter (`ThreadSteps`).
* `InOrderReplies` (`RepliesInOrder`) and `RepliesMatchCalls` (`CallsGetTheirReply`), from
  `ReplyInv`.  That the n-th reply is the one to the n-th request is not inductive: it says
  nothing of a request that is still on its way.  `CallInv` adds that the replies delivered
  to a caller are those to the calls that have returned, so that at most one request has
  no reply yet, and that at most one is on the channel.  Then whatever reply the daemon
  sends next, at once or deferred, is the one to that request.
  What a reply, a deferral, a push or a write does to the messages of one connection is
  shown on values alone (the lemmas on `Ordered`, `Queue` and `Calls`); a step then touches
  one connection, to which one of them applies, and leaves the others alone (`LeftAlone`,
  `Elsewhere`).

Only model-checked, because they are beyond the prover, are the liveness properties:
`EveryPromptResolves`, both `EveryLockoutEnds`, `QuietSeatsAskForTheLock`,
`RequestsAreAnswered` and `EveryRequestCloses`.  Every other property of a passing run
has a theorem.

## 7. Not modelled

* Pure I/O: the variables of the session environment, udev devices, look-ups in the
  account files, logging and the audit log, the command line client beyond its `call()`.
* The bytes of a message.  A frame that is too long, cut short or cannot be decoded is a
  reader that stops.
* Validation of the text of an elevation request: it happens before any state is
  touched, so a request that fails it is a refused one.
* Code without a caller: `LockManager::unlock`, the grace timers, `on_resume`,
  `drop_privileges`, `spawn_autostart`, `SessionContext::set_state`.
* Files outside the build: `session/runtime.rs`, `seat/monitor.rs`,
  `launcher/autostart.rs`.
* Parsing and defaults of the configuration.  A configuration is a member of `Settings`.
* The sleep of a Delay inhibitor: it delays the loop inside one handler, and the late
  tick that follows is a behaviour of the model.
* Accounts that change under a live session.
* `Daemon` is written against `Connections` and not composed with `IpcServer`: the
  product of the two is out of TLC's reach, and the refinement makes it unnecessary.
