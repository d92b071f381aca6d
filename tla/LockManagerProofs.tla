---- MODULE LockManagerProofs ----
(***************************************************************************)
(* LockManager for every number of sessions, inhibitors and configurations. *)
(* IInv is inductive as it stands; the two action properties follow from    *)
(* the type of the lock map, one action at a time.                          *)
(***************************************************************************)
EXTENDS LockManager, TLAPS

IInv == TypeOK /\ EveryLockoutIsTimed

\* A credential check never lowers the counter without resetting it, and resets it
\* only for the right password.
LEMMA CheckResult ==
    ASSUME NEW valid \in BOOLEAN, NEW n \in Nat, NEW m \in Nat
    PROVE  /\ check(valid, n, m).attempts \in Nat
           /\ valid => check(valid, n, m) = [outcome |-> "Success", attempts |-> 0]
           /\ ~valid => /\ check(valid, n, m).attempts = n + 1
                        /\ check(valid, n, m).outcome \in {"Failure", "LockedOut"}
BY DEF check

\* attempt_unlock on a session that is not locked out writes that session's entry
\* and, with a LockedOut verdict, starts its timer.
LEMMA UnlockKeepsIInv ==
    ASSUME IInv, NEW s \in Session, NEW valid \in BOOLEAN, NEW policy \in Policy,
           attempt_unlock(s, valid, policy)
    PROVE  IInv'
<1> DEFINE result == check(valid, locks[s].attempts, policy.max_attempts)
<1>1. policy.max_attempts \in Nat /\ policy.lockout \in Nat
  BY LockPolicyAssumption DEF LockPolicy
<1>2. locks[s] \in SessionLock /\ locks[s].attempts \in Nat
  BY DEF IInv, TypeOK, SessionLock
<1>3. CASE locks[s].state = "LockedOut"
  BY <1>3 DEF attempt_unlock, IInv, TypeOK, EveryLockoutIsTimed
<1>4. CASE locks[s].state # "LockedOut"
  <2>1. result.attempts \in Nat
    BY <1>1, <1>2, CheckResult
  <2> DEFINE st == CASE result.outcome = "Success" -> "Unlocked"
                     [] result.outcome = "LockedOut" -> "LockedOut"
                     [] OTHER -> locks[s].state
  <2>2. st \in LockState /\ (st = "LockedOut" <=> result.outcome = "LockedOut")
    BY <1>2, <1>4 DEF SessionLock, LockState
  <2>3. locks' = [locks EXCEPT ![s] = [state |-> st, attempts |-> result.attempts]]
    BY <1>4 DEF attempt_unlock
  <2>4. lockout_expiry' = IF result.outcome = "LockedOut"
                          THEN start(lockout_expiry, s, policy.lockout)
                          ELSE lockout_expiry
    BY <1>4 DEF attempt_unlock
  <2>5. UNCHANGED <<inhibitors, next_inhibitor>>
    BY DEF attempt_unlock
  <2> HIDE DEF result, st
  <2>6. locks' \in [Session -> SessionLock]
    BY <2>1, <2>2, <2>3 DEF IInv, TypeOK, SessionLock
  <2>7. /\ DOMAIN lockout_expiry' \subseteq Session
        /\ lockout_expiry' \in [DOMAIN lockout_expiry' -> Nat]
        /\ DOMAIN lockout_expiry \subseteq DOMAIN lockout_expiry'
        /\ result.outcome = "LockedOut" => s \in DOMAIN lockout_expiry'
    BY <1>1, <2>4 DEF IInv, TypeOK, start
  <2>8. EveryLockoutIsTimed'
    BY <2>2, <2>3, <2>7 DEF IInv, TypeOK, EveryLockoutIsTimed
  <2> QED BY <2>5, <2>6, <2>7, <2>8 DEF IInv, TypeOK
<1> QED BY <1>3, <1>4

\* The sweep clears exactly the lockouts whose timers it drains.
LEMMA SweepKeepsIInv ==
    ASSUME IInv, sweep
    PROVE  IInv'
<1>1. locks' \in [Session -> SessionLock]
  BY DEF sweep, lockouts_cleared, IInv, TypeOK, SessionLock, LockState
<1>2. /\ DOMAIN lockout_expiry' = DOMAIN lockout_expiry \ expired(lockout_expiry)
      /\ lockout_expiry' \in [DOMAIN lockout_expiry' -> Nat]
  BY DEF sweep, drain_expired, Restrict, IInv, TypeOK
<1>3. EveryLockoutIsTimed'
  BY <1>2 DEF sweep, lockouts_cleared, IInv, TypeOK, EveryLockoutIsTimed
<1> QED BY <1>1, <1>2, <1>3 DEF sweep, IInv, TypeOK

\* Every step keeps IInv.
LEMMA NextKeepsIInv == IInv /\ [Next]_vars => IInv'
<1> SUFFICES ASSUME IInv, [Next]_vars PROVE IInv'
  OBVIOUS
<1>1. ASSUME NEW s \in Session, NEW policy \in Policy, lock(s, policy)
      PROVE  IInv'
  <2>1. locks' \in [Session -> SessionLock]
    BY <1>1 DEF lock, locked, IInv, TypeOK, SessionLock, LockState
  <2>2. EveryLockoutIsTimed'
    BY <1>1 DEF lock, locked, IInv, TypeOK, EveryLockoutIsTimed
  <2> QED BY <1>1, <2>1, <2>2 DEF lock, IInv, TypeOK
<1>2. ASSUME NEW s \in Session, NEW valid \in BOOLEAN, NEW policy \in Policy,
             attempt_unlock(s, valid, policy)
      PROVE  IInv'
  BY <1>2, UnlockKeepsIInv
<1>3. ASSUME NEW what \in InhibitWhat, NEW mode \in InhibitMode, add_inhibitor(what, mode)
      PROVE  IInv'
  <2>1. next_inhibitor' \in 0..MaxInhibitorId /\ next_inhibitor' = next_inhibitor + 1
    BY <1>3, LockBoundsAssumption DEF add_inhibitor, IInv, TypeOK
  <2>2. /\ DOMAIN inhibitors' = DOMAIN inhibitors \cup {next_inhibitor'}
        /\ inhibitors' \in [DOMAIN inhibitors' -> Inhibitor]
    BY <1>3 DEF add_inhibitor, IInv, TypeOK, Inhibitor
  <2>3. DOMAIN inhibitors' \subseteq 1..next_inhibitor'
    BY <2>1, <2>2 DEF IInv, TypeOK
  <2> QED BY <1>3, <2>1, <2>2, <2>3 DEF add_inhibitor, IInv, TypeOK, EveryLockoutIsTimed
<1>4. ASSUME NEW id \in InhibitorId, release_inhibitor(id)
      PROVE  IInv'
  BY <1>4 DEF release_inhibitor, Restrict, IInv, TypeOK, EveryLockoutIsTimed
<1>5. CASE sweep
  BY <1>5, SweepKeepsIInv
<1>6. CASE tick
  BY <1>6 DEF tick, elapse, IInv, TypeOK, EveryLockoutIsTimed
<1>7. CASE UNCHANGED vars
  BY <1>7 DEF vars, IInv, TypeOK, EveryLockoutIsTimed
<1> QED BY <1>1, <1>2, <1>3, <1>4, <1>5, <1>6, <1>7 DEF Next

\* The invariant holds in every reachable state.
THEOREM Invariance == Spec => []IInv
<1>1. Init => IInv
  BY LockBoundsAssumption
  DEF Init, IInv, TypeOK, EveryLockoutIsTimed, SessionLock, LockState, no_timers
<1> QED BY <1>1, NextKeepsIInv, PTL DEF Spec

\* The lock map, the timers and the inhibitor table keep their types, and inhibitor ids
\* are never handed out twice.
THEOREM TypeCorrect == Spec => []TypeOK
BY Invariance, PTL DEF IInv

\* Every LockedOut session has a timer that will clear it, whatever the order of
\* lock, attempt_unlock, sweeps and configuration reloads.
THEOREM LockoutsTimed == Spec => []EveryLockoutIsTimed
BY Invariance, PTL DEF IInv

\* Only attempt_unlock with a credential that passed leads from locked to unlocked.
THEOREM PasswordUnlocks == Spec => OnlyAPasswordUnlocks
<1> DEFINE A == \A s \in Session :
                  is_locked(s) /\ ~is_locked(s)'
                    => \E policy \in Policy : attempt_unlock(s, TRUE, policy)
<1>1. IInv /\ [Next]_vars => [A]_vars
  <2> SUFFICES ASSUME IInv, Next, NEW s \in Session, is_locked(s), ~is_locked(s)'
               PROVE  \E policy \in Policy : attempt_unlock(s, TRUE, policy)
    BY Zenon
  <2>0. locks'[s].state \notin {"Locked", "LockedOut"}
    BY DEF is_locked
  <2>1. ASSUME NEW t \in Session, NEW policy \in Policy, lock(t, policy)
        PROVE  FALSE
    BY <2>0, <2>1 DEF lock, locked, is_locked, IInv, TypeOK
  <2>2. ASSUME NEW t \in Session, NEW valid \in BOOLEAN, NEW policy \in Policy,
               attempt_unlock(t, valid, policy)
        PROVE  attempt_unlock(s, TRUE, policy)
    <3>1. locks[t].attempts \in Nat /\ policy.max_attempts \in Nat
      BY LockPolicyAssumption DEF IInv, TypeOK, SessionLock, LockPolicy
    <3>2. locks[t].state # "LockedOut" /\ t = s
      BY <2>0, <2>2 DEF attempt_unlock, is_locked, IInv, TypeOK
    <3>3. CASE ~valid
      <4>1. check(valid, locks[t].attempts, policy.max_attempts).outcome
              \in {"Failure", "LockedOut"}
        BY <3>1, <3>3, CheckResult
      <4>2. locks'[s].state \in {locks[s].state, "LockedOut"}
        BY <2>2, <3>2, <4>1 DEF attempt_unlock, IInv, TypeOK
      <4> QED BY <2>0, <4>2 DEF is_locked
    <3>4. CASE valid
      <4>1. valid = TRUE
        BY <3>4
      <4> QED BY <2>2, <3>2, <4>1, Zenon
    <3> QED BY <3>3, <3>4, Zenon
  <2>3. CASE sweep
    BY <2>0, <2>3 DEF sweep, lockouts_cleared, is_locked
  <2>4. CASE \/ \E what \in InhibitWhat, mode \in InhibitMode : add_inhibitor(what, mode)
             \/ \E id \in InhibitorId : release_inhibitor(id)
             \/ tick
    BY <2>0, <2>4, Zenon DEF add_inhibitor, release_inhibitor, tick, is_locked
  <2> QED BY <2>1, <2>2, <2>3, <2>4, Zenon DEF Next
<1> QED BY <1>1, Invariance, PTL DEF Spec, OnlyAPasswordUnlocks

\* The attempt counter falls only to 0, for the right password or when a lockout
\* has run its full time.
THEOREM GuessesKept == Spec => GuessesAreNotForgotten
<1> DEFINE A == \A s \in Session :
                  locks'[s].attempts < locks[s].attempts
                    => /\ locks'[s].attempts = 0
                       /\ \/ ~is_locked(s)'
                          \/ s \in expired(lockout_expiry)
<1>1. IInv /\ [Next]_vars => [A]_vars
  <2> SUFFICES ASSUME IInv, Next, NEW s \in Session,
                      locks'[s].attempts < locks[s].attempts
               PROVE  /\ locks'[s].attempts = 0
                      /\ ~is_locked(s)' \/ s \in expired(lockout_expiry)
    OBVIOUS
  <2>0. locks[s].attempts \in Nat
    BY DEF IInv, TypeOK, SessionLock
  <2>1. ASSUME NEW t \in Session, NEW policy \in Policy, lock(t, policy)
        PROVE  FALSE
    BY <2>0, <2>1 DEF lock, locked, IInv, TypeOK
  <2>2. ASSUME NEW t \in Session, NEW valid \in BOOLEAN, NEW policy \in Policy,
               attempt_unlock(t, valid, policy)
        PROVE  locks'[s].attempts = 0 /\ ~is_locked(s)'
    <3> DEFINE result == check(valid, locks[t].attempts, policy.max_attempts)
    <3>1. locks[t].attempts \in Nat /\ policy.max_attempts \in Nat
      BY LockPolicyAssumption DEF IInv, TypeOK, SessionLock, LockPolicy
    <3>2. locks[t].state # "LockedOut" /\ t = s
      BY <2>0, <2>2 DEF attempt_unlock, IInv, TypeOK
    <3>3. locks'[s].attempts = result.attempts
      BY <2>2, <3>2 DEF attempt_unlock, IInv, TypeOK
    <3>4. valid
      <4>1. ~valid => result.attempts = locks[s].attempts + 1
        BY <3>1, <3>2, CheckResult, Zenon
      <4> HIDE DEF result
      <4> QED BY <2>0, <3>3, <4>1
    <3>5. result = [outcome |-> "Success", attempts |-> 0]
      BY <3>1, <3>4, CheckResult, Zenon
    <3>6. locks'[s].state = "Unlocked"
      BY <2>2, <3>2, <3>5 DEF attempt_unlock, IInv, TypeOK
    <3> QED BY <3>3, <3>5, <3>6 DEF is_locked
  <2>3. CASE sweep
    <3>1. locks'[s] = IF s \in expired(lockout_expiry) /\ locks[s].state = "LockedOut"
                      THEN [state |-> "Locked", attempts |-> 0]
                      ELSE locks[s]
      BY <2>3 DEF sweep, lockouts_cleared
    <3>2. s \in expired(lockout_expiry) /\ locks[s].state = "LockedOut"
      BY <2>0, <3>1
    <3> QED BY <3>1, <3>2
  <2>4. CASE \/ \E what \in InhibitWhat, mode \in InhibitMode : add_inhibitor(what, mode)
             \/ \E id \in InhibitorId : release_inhibitor(id)
             \/ tick
    <3>1. locks' = locks
      BY <2>4, Zenon DEF add_inhibitor, release_inhibitor, tick
    <3>2. ~(locks[s].attempts < locks[s].attempts)
      BY <2>0
    <3> QED BY <3>1, <3>2
  <2> QED BY <2>1, <2>2, <2>3, <2>4 DEF Next
<1> QED BY <1>1, Invariance, PTL DEF Spec, GuessesAreNotForgotten
====
