---- MODULE ElevationManager ----
(***************************************************************************)
(* elevation/manager.rs and elevation/timeout.rs: the requests of trusted   *)
(* services to have a session's user re-authenticate.  Every public method  *)
(* that changes state is an action; the daemon calls them one at a time     *)
(* from its event loop, and the `policy' of a call is whatever the          *)
(* configuration holds at that moment (SIGHUP may have changed it since     *)
(* the previous call), so each call draws it afresh from Policy.            *)
(***************************************************************************)
EXTENDS Naturals, FiniteSets, Authentication, Timeouts

CONSTANTS
    Session,        \* session ids
    Conn,           \* IPC connection ids
    Policy,         \* the [elevation] settings a configuration may hold
    MaxAttempts,    \* bounds every policy's max_attempts ...
    MaxPending,     \* ... and max_pending_per_session
    MaxRequestId    \* next_id stops here (u64::MAX in the code)

VARIABLES
    pending,        \* request id -> who shows the prompt and who waits for the answer
    next_id,
    session_auth,   \* session -> locked_out flag and attempt counter
    prompt_expiry,  \* request id -> time left to answer
    lockout_expiry  \* session -> time left of its lockout

vars == <<pending, next_id, session_auth, prompt_expiry, lockout_expiry>>

ElevationPolicy == [max_pending_per_session : Nat, prompt_timeout : Nat,
                    max_attempts : Nat, lockout : Nat]

ASSUME PolicyAssumption ==
    /\ Policy \subseteq ElevationPolicy
    /\ MaxAttempts \in Nat \ {0}
    /\ MaxPending \in Nat
    /\ \A p \in Policy : /\ p.max_attempts <= MaxAttempts
                         /\ p.max_pending_per_session <= MaxPending
ASSUME MaxRequestIdAssumption == MaxRequestId \in Nat

RequestId == 1..MaxRequestId
PendingElevation == [session : Session, compositor_conn : Conn, requester_conn : Conn]
SessionElevationAuth == [locked_out : BOOLEAN, attempts : Nat]

\* The requests a predicate over one session selects.
PendingOf(s) == {id \in DOMAIN pending : pending[id].session = s}
PendingOn(c) == {id \in DOMAIN pending :
                    c \in {pending[id].compositor_conn, pending[id].requester_conn}}

\* A faulty removal that leaves the timeouts of the removed requests running.
Forget_uncancelled(ids) ==
    /\ pending' = Restrict(pending, DOMAIN pending \ ids)
    /\ UNCHANGED prompt_expiry

\* Take the requests in ids out of pending and cancel their timeouts.
Forget(ids) ==
    /\ pending' = Restrict(pending, DOMAIN pending \ ids)
    /\ prompt_expiry' = Restrict(prompt_expiry, DOMAIN prompt_expiry \ ids)

Init ==
    /\ pending = [id \in {} |-> id]
    /\ next_id = 0
    /\ session_auth = [s \in Session |-> [locked_out |-> FALSE, attempts |-> 0]]
    /\ prompt_expiry = no_timers
    /\ lockout_expiry = no_timers

----------------------------------------------------------------------------

\* A faulty begin_error that lets a locked out session open prompts.
begin_error_no_lockout(s, policy) ==
    IF Cardinality(PendingOf(s)) >= policy.max_pending_per_session
    THEN "PermissionDenied" ELSE "Ok"

\* begin: refused while the session is locked out or already has its fill of
\* open prompts (in the code's order: LockedOut, then PermissionDenied) ...
begin_error(s, policy) ==
    CASE session_auth[s].locked_out -> "LockedOut"
      [] ~session_auth[s].locked_out
         /\ Cardinality(PendingOf(s)) >= policy.max_pending_per_session -> "PermissionDenied"
      [] OTHER -> "Ok"

\* A faulty begin that hands out the id before advancing the counter.
begin_post_increment(s, compositor, requester, policy) ==
    /\ begin_error(s, policy) = "Ok"
    /\ next_id < MaxRequestId
    /\ next_id' = next_id + 1
    /\ pending' = [id \in DOMAIN pending \cup {next_id} |->
                     IF id = next_id
                     THEN [session |-> s, compositor_conn |-> compositor,
                           requester_conn |-> requester]
                     ELSE pending[id]]
    /\ prompt_expiry' = start(prompt_expiry, next_id, policy.prompt_timeout)
    /\ UNCHANGED <<session_auth, lockout_expiry>>

\* ... and otherwise recorded under a fresh id with its timeout running.
begin(s, compositor, requester, policy) ==
    /\ begin_error(s, policy) = "Ok"
    /\ next_id < MaxRequestId
    /\ next_id' = next_id + 1
    /\ pending' = [id \in DOMAIN pending \cup {next_id'} |->
                     IF id = next_id'
                     THEN [session |-> s, compositor_conn |-> compositor,
                           requester_conn |-> requester]
                     ELSE pending[id]]
    /\ prompt_expiry' = start(prompt_expiry, next_id', policy.prompt_timeout)
    /\ UNCHANGED <<session_auth, lockout_expiry>>

\* A faulty attempt that lifts the session's lockout unless it locks out again.
attempt_lifting(id, valid, policy) ==
    LET s == pending[id].session
        result == check(valid, session_auth[s].attempts, policy.max_attempts)
    IN  /\ id \in DOMAIN pending
        /\ session_auth' = [session_auth EXCEPT
                ![s] = [locked_out |-> result.outcome = "LockedOut",
                        attempts   |-> result.attempts]]
        /\ lockout_expiry' = IF result.outcome = "LockedOut"
                             THEN start(lockout_expiry, s, policy.lockout)
                             ELSE Restrict(lockout_expiry, DOMAIN lockout_expiry \ {s})
        /\ IF result.outcome = "Failure"
           THEN UNCHANGED <<pending, prompt_expiry>>
           ELSE Forget({id})
        /\ UNCHANGED next_id

\* attempt: check one credential for request id.  The session's own locked_out
\* flag is not consulted.  Anything but a plain Failure closes the request.
attempt(id, valid, policy) ==
    LET s == pending[id].session
        result == check(valid, session_auth[s].attempts, policy.max_attempts)
    IN  /\ id \in DOMAIN pending
        /\ session_auth' = [session_auth EXCEPT
                ![s] = [locked_out |-> @.locked_out \/ result.outcome = "LockedOut",
                        attempts   |-> result.attempts]]
        /\ lockout_expiry' = IF result.outcome = "LockedOut"
                             THEN start(lockout_expiry, s, policy.lockout)
                             ELSE lockout_expiry
        /\ IF result.outcome = "Failure"
           THEN UNCHANGED <<pending, prompt_expiry>>
           ELSE Forget({id})
        /\ UNCHANGED next_id

\* cancel: the prompt is declined; no attempt is counted.
cancel(id) ==
    /\ id \in DOMAIN pending
    /\ Forget({id})
    /\ UNCHANGED <<next_id, session_auth, lockout_expiry>>

\* abandon_session and abandon_connection (both through abandon_where).
abandon_session(s) ==
    /\ Forget(PendingOf(s))
    /\ UNCHANGED <<next_id, session_auth, lockout_expiry>>

abandon_connection(c) ==
    /\ Forget(PendingOn(c))
    /\ UNCHANGED <<next_id, session_auth, lockout_expiry>>

\* A faulty clear_expired_lockouts that drains the timers and lifts no lockout.
clear_expired_timers_only ==
    /\ lockout_expiry' = drain_expired(lockout_expiry)
    /\ UNCHANGED session_auth

clear_expired_lockouts ==
    /\ session_auth' = [s \in Session |->
                          IF s \in expired(lockout_expiry)
                          THEN [locked_out |-> FALSE, attempts |-> 0]
                          ELSE session_auth[s]]
    /\ lockout_expiry' = drain_expired(lockout_expiry)

\* expire_pending: the drained timers take their requests with them.
expire_pending == Forget(expired(prompt_expiry))

\* Faulty sweeps that make one of the two calls.
sweep_lockouts_only ==
    /\ clear_expired_lockouts
    /\ UNCHANGED <<pending, prompt_expiry, next_id>>

sweep_prompts_only ==
    /\ expire_pending
    /\ UNCHANGED <<session_auth, lockout_expiry, next_id>>

\* The two calls Daemon::on_idle_tick makes once a second.
sweep ==
    /\ clear_expired_lockouts
    /\ expire_pending
    /\ UNCHANGED next_id

\* Time passes between two calls.
tick ==
    /\ prompt_expiry' = elapse(prompt_expiry)
    /\ lockout_expiry' = elapse(lockout_expiry)
    /\ UNCHANGED <<pending, next_id, session_auth>>

Next ==
    \/ \E s \in Session, compositor, requester \in Conn, policy \in Policy :
          begin(s, compositor, requester, policy)
    \/ \E id \in RequestId, valid \in BOOLEAN, policy \in Policy :
          attempt(id, valid, policy)
    \/ \E id \in RequestId : cancel(id)
    \/ \E s \in Session : abandon_session(s)
    \/ \E c \in Conn : abandon_connection(c)
    \/ sweep
    \/ tick

\* The clock runs, and the calloop timer of main.rs fires the sweep every second.
Fairness == WF_vars(tick) /\ WF_vars(sweep)

Spec == Init /\ [][Next]_vars
FairSpec == Spec /\ Fairness

----------------------------------------------------------------------------

TypeOK ==
    /\ next_id \in 0..MaxRequestId
    /\ DOMAIN pending \subseteq 1..next_id
    /\ pending \in [DOMAIN pending -> PendingElevation]
    /\ session_auth \in [Session -> SessionElevationAuth]
    /\ prompt_expiry \in [DOMAIN prompt_expiry -> Nat]
    /\ DOMAIN lockout_expiry \subseteq Session
    /\ lockout_expiry \in [DOMAIN lockout_expiry -> Nat]

\* A request waits for an answer exactly as long as its timeout is running: none
\* can be left behind with nothing to expire it, and no timer outlives its request,
\* whatever mix of attempt, cancel, abandon_where and expire_pending closes it.
EveryPromptIsTimed == DOMAIN prompt_expiry = DOMAIN pending

\* A session is locked out exactly as long as a lockout timer runs for it, so
\* clear_expired_lockouts always gets to lift the lockout.
EveryLockoutIsTimed ==
    \A s \in Session : session_auth[s].locked_out <=> s \in DOMAIN lockout_expiry

\* attempt does not consult locked_out, so the prompts still open when a lockout
\* begins go on taking guesses.  begin refuses new ones, so each of them costs
\* a prompt: wrong guesses in a row and open prompts share one budget.
GuessBudget ==
    \A s \in Session :
        session_auth[s].attempts + Cardinality(PendingOf(s)) <= MaxAttempts + MaxPending - 1

\* A lockout is lifted by its timer alone: a right answer on a second prompt that
\* was already open resets the counter and leaves the lockout standing.
OnlyTheTimerLiftsALockout ==
    [][\A s \in Session :
          session_auth[s].locked_out /\ ~session_auth'[s].locked_out
            => lockout_expiry[s] = 0]_vars

\* No request stays open for ever: prompt_timeout ends what nobody answers.
EveryPromptResolves ==
    \A id \in RequestId : id \in DOMAIN pending ~> id \notin DOMAIN pending

\* No lockout lasts for ever, although guesses on open prompts restart its timer.
EveryLockoutEnds ==
    \A s \in Session : session_auth[s].locked_out ~> ~session_auth[s].locked_out
====
