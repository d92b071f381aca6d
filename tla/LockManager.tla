---- MODULE LockManager ----
(***************************************************************************)
(* lock/lock.rs with lock/inhibitor.rs and the lockout timers of            *)
(* lock/timeout.rs: the lock state of every session, the machine-wide       *)
(* inhibitors and the lockout after too many wrong passwords.               *)
(*                                                                          *)
(* A session the map has no entry for behaves like one with the default     *)
(* entry, so the map is total here.  LockManager::unlock and the grace      *)
(* timers are left out: nothing in the program calls them.                  *)
(***************************************************************************)
EXTENDS Naturals, FiniteSets, Authentication, Timeouts

CONSTANTS
    Session,         \* session ids
    Policy,          \* the [lock] settings a configuration may hold
    MaxInhibitorId,  \* next_inhibitor stops here (u64::MAX in the code)
    MaxAttemptCount  \* attempts stops here (u32::MAX in the code)

VARIABLES
    locks,           \* session -> lock state and attempt counter
    lockout_expiry,  \* session -> time left of its lockout
    inhibitors,      \* inhibitor id -> what it inhibits and how
    next_inhibitor   \* InhibitorRegistry::next_id

vars == <<locks, lockout_expiry, inhibitors, next_inhibitor>>

LockState == {"Unlocked", "Locked", "LockedOut"}
SessionLock == [state : LockState, attempts : Nat]
InhibitWhat == {"Idle", "Lock", "Suspend", "Shutdown"}
InhibitMode == {"Block", "Delay"}
Inhibitor == [what : InhibitWhat, mode : InhibitMode]
LockPolicy == [enabled : BOOLEAN, max_attempts : Nat, lockout : Nat]

ASSUME LockPolicyAssumption == Policy \subseteq LockPolicy
ASSUME LockBoundsAssumption == MaxInhibitorId \in Nat /\ MaxAttemptCount \in Nat

InhibitorId == 1..MaxInhibitorId

Init ==
    /\ locks = [s \in Session |-> [state |-> "Unlocked", attempts |-> 0]]
    /\ lockout_expiry = no_timers
    /\ inhibitors = [id \in {} |-> id]
    /\ next_inhibitor = 0

is_locked(s) == locks[s].state \in {"Locked", "LockedOut"}

blocks(what) ==
    \E id \in DOMAIN inhibitors : inhibitors[id] = [what |-> what, mode |-> "Block"]

----------------------------------------------------------------------------

\* lock succeeds unless locking is disabled or inhibited ...
lock_allowed(policy) == policy.enabled /\ ~blocks("Lock")

\* A faulty lock that forgets the attempts made so far.
locked_forgetting(m, S) ==
    [s \in Session |-> IF s \in S THEN [state |-> "Locked", attempts |-> 0] ELSE m[s]]

\* ... and then sets the state to Locked, whatever it was, keeping the attempts.
\* (The lock map m after one such call for every session in S.)
locked(m, S) ==
    [s \in Session |-> IF s \in S THEN [m[s] EXCEPT !.state = "Locked"] ELSE m[s]]

lock(s, policy) ==
    /\ lock_allowed(policy)
    /\ locks' = locked(locks, {s})
    /\ UNCHANGED <<lockout_expiry, inhibitors, next_inhibitor>>

\* What attempt_unlock reports: a locked out session is refused unchecked.
unlock_outcome(s, valid, policy) ==
    IF locks[s].state = "LockedOut" THEN "LockedOut"
    ELSE check(valid, locks[s].attempts, policy.max_attempts).outcome

\* A faulty attempt_unlock that locks out without starting the timer.
attempt_unlock_untimed(s, valid, policy) ==
    LET result == check(valid, locks[s].attempts, policy.max_attempts)
    IN  /\ valid \/ locks[s].attempts < MaxAttemptCount
        /\ locks[s].state # "LockedOut"
        /\ locks' = [locks EXCEPT ![s] =
                [state    |-> CASE result.outcome = "Success" -> "Unlocked"
                                [] result.outcome = "LockedOut" -> "LockedOut"
                                [] OTHER -> @.state,
                 attempts |-> result.attempts]]
        /\ UNCHANGED <<lockout_expiry, inhibitors, next_inhibitor>>

\* A faulty attempt_unlock that restarts the lockout of a session that is locked out.
attempt_unlock_restarting(s, valid, policy) ==
    LET result == check(valid, locks[s].attempts, policy.max_attempts)
    IN  /\ locks' = IF locks[s].state = "LockedOut" THEN locks
                    ELSE [locks EXCEPT ![s] =
                            [state    |-> CASE result.outcome = "Success" -> "Unlocked"
                                            [] result.outcome = "LockedOut" -> "LockedOut"
                                            [] OTHER -> @.state,
                             attempts |-> result.attempts]]
        /\ valid \/ locks[s].attempts < MaxAttemptCount
        /\ lockout_expiry' = IF locks'[s].state = "LockedOut"
                             THEN start(lockout_expiry, s, policy.lockout)
                             ELSE lockout_expiry
        /\ UNCHANGED <<inhibitors, next_inhibitor>>

\* attempt_unlock does not ask whether the session is locked at all: wrong guesses
\* count against an unlocked session too, and enough of them lock it out.
attempt_unlock(s, valid, policy) ==
    LET result == check(valid, locks[s].attempts, policy.max_attempts)
    IN  /\ valid \/ locks[s].attempts < MaxAttemptCount
        /\ IF locks[s].state = "LockedOut"
           THEN UNCHANGED <<locks, lockout_expiry>>
           ELSE /\ locks' = [locks EXCEPT ![s] =
                      [state    |-> CASE result.outcome = "Success" -> "Unlocked"
                                      [] result.outcome = "LockedOut" -> "LockedOut"
                                      [] OTHER -> @.state,
                       attempts |-> result.attempts]]
                /\ lockout_expiry' = IF result.outcome = "LockedOut"
                                     THEN start(lockout_expiry, s, policy.lockout)
                                     ELSE lockout_expiry
        /\ UNCHANGED <<inhibitors, next_inhibitor>>

\* A faulty clear_lockout that unlocks the session.
lockouts_opened(m, S) ==
    [s \in Session |-> IF s \in S /\ m[s].state = "LockedOut"
                       THEN [state |-> "Unlocked", attempts |-> 0]
                       ELSE m[s]]

\* The lock map m after clear_lockout for every session in S.
lockouts_cleared(m, S) ==
    [s \in Session |-> IF s \in S /\ m[s].state = "LockedOut"
                       THEN [state |-> "Locked", attempts |-> 0]
                       ELSE m[s]]

\* Daemon::on_idle_tick drains the expired lockouts and clears each of them.
sweep ==
    /\ locks' = lockouts_cleared(locks, expired(lockout_expiry))
    /\ lockout_expiry' = drain_expired(lockout_expiry)
    /\ UNCHANGED <<inhibitors, next_inhibitor>>

\* A faulty add that hands out the id before advancing the counter.
add_inhibitor_post_increment(what, mode) ==
    /\ next_inhibitor < MaxInhibitorId
    /\ next_inhibitor' = next_inhibitor + 1
    /\ inhibitors' = [id \in DOMAIN inhibitors \cup {next_inhibitor} |->
                        IF id = next_inhibitor THEN [what |-> what, mode |-> mode]
                        ELSE inhibitors[id]]
    /\ UNCHANGED <<locks, lockout_expiry>>

add_inhibitor(what, mode) ==
    /\ next_inhibitor < MaxInhibitorId
    /\ next_inhibitor' = next_inhibitor + 1
    /\ inhibitors' = [id \in DOMAIN inhibitors \cup {next_inhibitor'} |->
                        IF id = next_inhibitor' THEN [what |-> what, mode |-> mode]
                        ELSE inhibitors[id]]
    /\ UNCHANGED <<locks, lockout_expiry>>

\* An unknown id is an error and changes nothing.
release_inhibitor(id) ==
    /\ id \in DOMAIN inhibitors
    /\ inhibitors' = Restrict(inhibitors, DOMAIN inhibitors \ {id})
    /\ UNCHANGED <<locks, lockout_expiry, next_inhibitor>>

\* Time passes between two calls.
tick ==
    /\ lockout_expiry' = elapse(lockout_expiry)
    /\ UNCHANGED <<locks, inhibitors, next_inhibitor>>

Next ==
    \/ \E s \in Session, policy \in Policy : lock(s, policy)
    \/ \E s \in Session, valid \in BOOLEAN, policy \in Policy :
          attempt_unlock(s, valid, policy)
    \/ \E what \in InhibitWhat, mode \in InhibitMode : add_inhibitor(what, mode)
    \/ \E id \in InhibitorId : release_inhibitor(id)
    \/ sweep
    \/ tick

\* The clock runs, and the calloop timer of main.rs fires the sweep every second.
Fairness == WF_vars(tick) /\ WF_vars(sweep)

Spec == Init /\ [][Next]_vars
FairSpec == Spec /\ Fairness

----------------------------------------------------------------------------

TypeOK ==
    /\ locks \in [Session -> SessionLock]
    /\ DOMAIN lockout_expiry \subseteq Session
    /\ lockout_expiry \in [DOMAIN lockout_expiry -> Nat]
    /\ next_inhibitor \in 0..MaxInhibitorId
    /\ DOMAIN inhibitors \subseteq 1..next_inhibitor
    /\ inhibitors \in [DOMAIN inhibitors -> Inhibitor]

\* A session that refuses every password has a lockout timer running, so the
\* sweep of on_idle_tick gets to clear_lockout it: attempt_unlock can never shut
\* a user out for good.  (The converse fails: lock() ends a lockout early and
\* leaves its timer running.)
EveryLockoutIsTimed ==
    \A s \in Session : locks[s].state = "LockedOut" => s \in DOMAIN lockout_expiry

\* The only way from locked to unlocked is a credential that passed: neither an
\* expiring lockout (clear_lockout), nor locking again, nor an inhibitor opens a
\* session.
OnlyAPasswordUnlocks ==
    [][\A s \in Session :
          is_locked(s) /\ ~is_locked(s)'
            => \E policy \in Policy : attempt_unlock(s, TRUE, policy)]_vars

\* The attempt counter goes down only to 0, and only for the right password or at
\* the end of a lockout that ran its full time: locking again is no way to get a
\* fresh set of guesses.
GuessesAreNotForgotten ==
    [][\A s \in Session :
          locks'[s].attempts < locks[s].attempts
            => /\ locks'[s].attempts = 0
               /\ \/ ~is_locked(s)'
                  \/ s \in expired(lockout_expiry)]_vars

\* No lockout lasts for ever.
EveryLockoutEnds ==
    \A s \in Session : locks[s].state = "LockedOut" ~> locks[s].state # "LockedOut"

\* lock/state.rs on LockedOut: "Locked, and additionally refusing new auth attempts
\* until the lockout timer (`lock::timeout::LockTimeouts`) expires."
LockoutIsServed ==
    [][\A s \in Session :
          locks[s].state = "LockedOut" /\ locks'[s].state # "LockedOut"
            => s \in expired(lockout_expiry)]_vars
====
