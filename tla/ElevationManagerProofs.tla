---- MODULE ElevationManagerProofs ----
(***************************************************************************)
(* Proofs about ElevationManager, for any sessions, connections, policies   *)
(* and any number of requests.                                              *)
(***************************************************************************)
EXTENDS ElevationManager, FiniteSetTheorems, TLAPS

\* begin never lets a session have more open prompts than a policy allows.
OpenPromptsBounded == \A s \in Session : Cardinality(PendingOf(s)) <= MaxPending

\* Reaching max_attempts always locks out, so outside a lockout a guess is left.
CounterBelowLimit ==
    \A s \in Session : ~session_auth[s].locked_out => session_auth[s].attempts < MaxAttempts

\* The inductive invariant.  GuessBudget is preserved by begin only because a
\* session that is not locked out has a guess left (CounterBelowLimit) and has fewer
\* open prompts than its limit (OpenPromptsBounded); EveryLockoutIsTimed is what makes
\* clear_expired_lockouts reset flag and counter together.
IInv ==
    /\ TypeOK
    /\ EveryPromptIsTimed
    /\ EveryLockoutIsTimed
    /\ OpenPromptsBounded
    /\ CounterBelowLimit
    /\ GuessBudget

USE PolicyAssumption, MaxRequestIdAssumption

\* The open requests of a session are finitely many: ids come from 1..next_id.
LEMMA PendingFinite ==
    ASSUME TypeOK, NEW s \in Session
    PROVE  /\ IsFiniteSet(PendingOf(s))
           /\ Cardinality(PendingOf(s)) \in Nat
<1>0. next_id \in Int /\ 1 \in Int
  BY DEF TypeOK
<1>1. IsFiniteSet(1..next_id)
  BY <1>0, FS_Interval
<1>2. PendingOf(s) \subseteq 1..next_id
  BY DEF PendingOf, TypeOK
<1> QED
  BY <1>1, <1>2, FS_Subset, FS_CardinalityType, Zenon

\* Forget, the step every way of closing a request shares, keeps the maps well
\* formed and in step with each other, and only shrinks what a session has open.
LEMMA ForgetKeeps ==
    ASSUME NEW ids, IInv, Forget(ids), next_id' = next_id
    PROVE  /\ DOMAIN pending' = DOMAIN pending \ ids
           /\ DOMAIN pending' \subseteq 1..next_id'
           /\ pending' \in [DOMAIN pending' -> PendingElevation]
           /\ prompt_expiry' \in [DOMAIN prompt_expiry' -> Nat]
           /\ EveryPromptIsTimed'
           /\ \A s \in Session : /\ PendingOf(s)' = PendingOf(s) \ ids
                                 /\ Cardinality(PendingOf(s)') \in Nat
                                 /\ Cardinality(PendingOf(s)') <= Cardinality(PendingOf(s))
<1> USE DEF IInv, TypeOK, EveryPromptIsTimed
<1>1. /\ DOMAIN pending' = DOMAIN pending \ ids
      /\ DOMAIN prompt_expiry' = DOMAIN prompt_expiry \ ids
  BY DEF Forget, Restrict
<1>2. /\ \A id \in DOMAIN pending' : pending'[id] = pending[id]
      /\ \A id \in DOMAIN prompt_expiry' : prompt_expiry'[id] = prompt_expiry[id]
  BY DEF Forget, Restrict
<1>3. /\ pending' \in [DOMAIN pending' -> PendingElevation]
      /\ prompt_expiry' \in [DOMAIN prompt_expiry' -> Nat]
  BY <1>1 DEF Forget, Restrict
<1>4. ASSUME NEW s \in Session
      PROVE  /\ PendingOf(s)' = PendingOf(s) \ ids
             /\ Cardinality(PendingOf(s)') \in Nat
             /\ Cardinality(PendingOf(s)') <= Cardinality(PendingOf(s))
  <2>1. PendingOf(s)' = PendingOf(s) \ ids
    BY <1>1, <1>2 DEF PendingOf
  <2>2. IsFiniteSet(PendingOf(s))
    BY PendingFinite
  <2> QED
    BY <2>1, <2>2, FS_Subset, FS_CardinalityType
<1> QED
  BY <1>1, <1>3, <1>4

\* A step that leaves the attempt counters alone keeps the numeric invariants if it
\* opens no prompt.
LEMMA ForgetKeepsBudget ==
    ASSUME NEW ids, IInv, Forget(ids), next_id' = next_id,
           UNCHANGED <<session_auth, lockout_expiry>>
    PROVE  IInv'
<1>1. TypeOK' /\ EveryPromptIsTimed' /\ EveryLockoutIsTimed' /\ CounterBelowLimit'
  BY ForgetKeeps, Zenon DEF IInv, TypeOK, EveryLockoutIsTimed, CounterBelowLimit
<1>2. ASSUME NEW s \in Session
      PROVE  /\ Cardinality(PendingOf(s)') <= MaxPending
             /\ session_auth'[s].attempts + Cardinality(PendingOf(s)')
                  <= MaxAttempts + MaxPending - 1
  <2>1. /\ Cardinality(PendingOf(s)') \in Nat
        /\ Cardinality(PendingOf(s)') <= Cardinality(PendingOf(s))
    BY ForgetKeeps, Zenon
  <2>2. Cardinality(PendingOf(s)) \in Nat
    BY PendingFinite DEF IInv
  <2>3. session_auth[s].attempts \in Nat
    BY DEF IInv, TypeOK, SessionElevationAuth
  <2> QED
    BY <2>1, <2>2, <2>3 DEF IInv, OpenPromptsBounded, GuessBudget
<1>3. OpenPromptsBounded' /\ GuessBudget'
  BY <1>2 DEF OpenPromptsBounded, GuessBudget
<1> QED
  BY <1>1, <1>3 DEF IInv

\* begin keeps the invariant: it refuses a session that is locked out or has its fill of
\* prompts, so one more prompt stays within the budget.
LEMMA BeginKeepsIInv ==
    ASSUME IInv, NEW s \in Session, NEW compositor \in Conn, NEW requester \in Conn,
           NEW policy \in Policy, begin(s, compositor, requester, policy)
    PROVE  IInv'
<1> DEFINE id == next_id + 1
<1>1. /\ next_id' = id /\ id \in Nat /\ id <= MaxRequestId
      /\ id \notin DOMAIN pending
      /\ ~session_auth[s].locked_out
      /\ ~(Cardinality(PendingOf(s)) >= policy.max_pending_per_session)
      /\ policy \in ElevationPolicy
  BY DEF begin, begin_error, IInv, TypeOK
<1>2. /\ DOMAIN pending' = DOMAIN pending \cup {id}
      /\ \A i \in DOMAIN pending : pending'[i] = pending[i]
      /\ pending'[id] = [session |-> s, compositor_conn |-> compositor,
                         requester_conn |-> requester]
      /\ pending' \in [DOMAIN pending \cup {id} -> PendingElevation]
  BY <1>1 DEF begin, IInv, TypeOK, PendingElevation
<1>3. /\ DOMAIN prompt_expiry' = DOMAIN pending \cup {id}
      /\ prompt_expiry' \in [DOMAIN pending \cup {id} -> Nat]
  BY <1>1 DEF begin, start, IInv, TypeOK, EveryPromptIsTimed, ElevationPolicy
<1>4. TypeOK' /\ EveryPromptIsTimed' /\ EveryLockoutIsTimed' /\ CounterBelowLimit'
  <2>1. DOMAIN pending' \subseteq 1..next_id' /\ next_id' \in 0..MaxRequestId
    BY <1>1, <1>2 DEF IInv, TypeOK
  <2> QED
    BY <2>1, <1>2, <1>3
    DEF begin, IInv, TypeOK, EveryPromptIsTimed, EveryLockoutIsTimed, CounterBelowLimit
<1>5. ASSUME NEW t \in Session
      PROVE  /\ Cardinality(PendingOf(t)') <= MaxPending
             /\ session_auth'[t].attempts + Cardinality(PendingOf(t)')
                  <= MaxAttempts + MaxPending - 1
  <2>1. IsFiniteSet(PendingOf(t)) /\ Cardinality(PendingOf(t)) \in Nat
    BY PendingFinite DEF IInv
  <2>2. session_auth'[t] = session_auth[t] /\ session_auth[t].attempts \in Nat
    BY DEF begin, IInv, TypeOK, SessionElevationAuth
  <2>3. CASE t = s
    <3>1. PendingOf(t)' = PendingOf(t) \cup {id} /\ id \notin PendingOf(t)
      BY <1>1, <1>2, <2>3 DEF PendingOf
    <3>2. Cardinality(PendingOf(t)') = Cardinality(PendingOf(t)) + 1
      BY <3>1, <2>1, FS_AddElement, Zenon
    <3>3. Cardinality(PendingOf(t)) < MaxPending
      BY <1>1, <2>1, <2>3 DEF ElevationPolicy
    <3>4. session_auth[t].attempts < MaxAttempts
      BY <1>1, <2>3 DEF IInv, CounterBelowLimit
    <3> QED
      BY <3>2, <3>3, <3>4, <2>1, <2>2
  <2>4. CASE t # s
    <3>1. PendingOf(t)' = PendingOf(t)
      BY <1>1, <1>2, <2>4 DEF PendingOf
    <3> QED
      BY <3>1, <2>2 DEF IInv, OpenPromptsBounded, GuessBudget
  <2> QED
    BY <2>3, <2>4
<1>6. OpenPromptsBounded' /\ GuessBudget'
  BY <1>5 DEF OpenPromptsBounded, GuessBudget
<1> QED
  BY <1>4, <1>6 DEF IInv

\* attempt keeps the invariant: a wrong guess either leaves the session below its limit
\* or closes the prompt and starts the lockout timer.
LEMMA AttemptKeepsIInv ==
    ASSUME IInv, NEW id \in RequestId, NEW valid \in BOOLEAN, NEW policy \in Policy,
           attempt(id, valid, policy)
    PROVE  IInv'
<1> DEFINE s == pending[id].session
           result == check(valid, session_auth[s].attempts, policy.max_attempts)
           closed == IF result.outcome = "Failure" THEN {} ELSE {id}
<1>1. /\ id \in DOMAIN pending /\ s \in Session
      /\ policy.max_attempts \in Nat /\ policy.max_attempts <= MaxAttempts
      /\ policy.lockout \in Nat
      /\ session_auth[s] \in SessionElevationAuth
  BY DEF attempt, IInv, TypeOK, PendingElevation, ElevationPolicy
<1>2. /\ result.attempts \in Nat
      /\ result.outcome = "Success" => result.attempts = 0
      /\ result.outcome # "Success" => result.attempts = session_auth[s].attempts + 1
      /\ result.outcome = "Failure" => result.attempts < MaxAttempts
      /\ result.outcome \in {"Success", "Failure", "LockedOut"}
  BY <1>1 DEF check, SessionElevationAuth
<1>3. Forget(closed) /\ next_id' = next_id
  <2>1. CASE result.outcome = "Failure"
    <3>1. UNCHANGED <<pending, prompt_expiry>>
      BY <2>1 DEF attempt
    <3>2. /\ Restrict(pending, DOMAIN pending \ {}) = pending
          /\ Restrict(prompt_expiry, DOMAIN prompt_expiry \ {}) = prompt_expiry
      BY DEF Restrict, IInv, TypeOK
    <3> QED
      BY <2>1, <3>1, <3>2 DEF attempt, Forget
  <2>2. CASE result.outcome # "Failure"
    BY <2>2 DEF attempt
  <2> QED
    BY <2>1, <2>2
<1>4. /\ session_auth' \in [Session -> SessionElevationAuth]
      /\ session_auth'[s].locked_out
            = (session_auth[s].locked_out \/ result.outcome = "LockedOut")
      /\ session_auth'[s].attempts = result.attempts
      /\ \A t \in Session \ {s} : session_auth'[t] = session_auth[t]
  <2>1. [locked_out |-> session_auth[s].locked_out \/ result.outcome = "LockedOut",
         attempts |-> result.attempts] \in SessionElevationAuth
    BY <1>1, <1>2 DEF SessionElevationAuth
  <2> QED
    BY <2>1, <1>1 DEF attempt, IInv, TypeOK
<1>5. /\ DOMAIN lockout_expiry' \subseteq Session
      /\ lockout_expiry' \in [DOMAIN lockout_expiry' -> Nat]
      /\ \A t \in Session : t \in DOMAIN lockout_expiry'
            <=> t \in DOMAIN lockout_expiry \/ (t = s /\ result.outcome = "LockedOut")
  BY <1>1 DEF attempt, start, IInv, TypeOK
<1>6. TypeOK' /\ EveryPromptIsTimed'
  BY <1>3, <1>4, <1>5, ForgetKeeps, Zenon DEF IInv, TypeOK
<1>7. EveryLockoutIsTimed'
  BY <1>4, <1>5, Zenon DEF IInv, EveryLockoutIsTimed
<1>8. CounterBelowLimit'
  <2>1. ASSUME NEW t \in Session, ~session_auth'[t].locked_out
        PROVE  session_auth'[t].attempts < MaxAttempts
    <3>1. CASE t = s
      <4>1. result.outcome \in {"Success", "Failure"}
        BY <1>2, <1>4, <2>1, <3>1, Zenon
      <4>2. result.attempts < MaxAttempts
        BY <4>1, <1>2
      <4> QED
        BY <4>2, <1>4, <3>1
    <3>2. CASE t # s
      BY <1>4, <2>1, <3>2 DEF IInv, CounterBelowLimit
    <3> QED
      BY <3>1, <3>2
  <2> QED
    BY <2>1 DEF CounterBelowLimit
<1>9. ASSUME NEW t \in Session
      PROVE  /\ Cardinality(PendingOf(t)') <= MaxPending
             /\ session_auth'[t].attempts + Cardinality(PendingOf(t)')
                  <= MaxAttempts + MaxPending - 1
  <2>1. /\ PendingOf(t)' = PendingOf(t) \ closed
        /\ Cardinality(PendingOf(t)') \in Nat
        /\ Cardinality(PendingOf(t)') <= Cardinality(PendingOf(t))
    BY <1>3, ForgetKeeps, Zenon
  <2>2. /\ IsFiniteSet(PendingOf(t)) /\ Cardinality(PendingOf(t)) \in Nat
        /\ Cardinality(PendingOf(t)) <= MaxPending
        /\ session_auth[t].attempts \in Nat
        /\ session_auth[t].attempts + Cardinality(PendingOf(t)) <= MaxAttempts + MaxPending - 1
    BY PendingFinite
    DEF IInv, TypeOK, OpenPromptsBounded, GuessBudget, SessionElevationAuth
  <2>3. CASE t # s
    <3>1. session_auth'[t].attempts = session_auth[t].attempts
      BY <2>3, <1>4
    <3> HIDE DEF s, result, closed
    <3> QED
      BY <3>1, <2>1, <2>2
  <2>4. CASE t = s /\ result.outcome = "LockedOut"
    <3>1. PendingOf(t)' = PendingOf(t) \ {id} /\ id \in PendingOf(t)
      BY <2>1, <2>4, <1>1 DEF PendingOf
    <3>2. Cardinality(PendingOf(t)') = Cardinality(PendingOf(t)) - 1
      BY <3>1, <2>2, FS_RemoveElement, Zenon
    <3>3. session_auth'[t].attempts = session_auth[t].attempts + 1
      BY <2>4, <1>2, <1>4
    <3> HIDE DEF s, result, closed
    <3> QED
      BY <3>2, <3>3, <2>2
  <2>5. CASE t = s /\ result.outcome # "LockedOut"
    <3>1. result.attempts \in Nat /\ result.attempts < MaxAttempts
      BY <2>5, <1>2
    <3>2. session_auth'[t].attempts = result.attempts
      BY <2>5, <1>4
    <3> HIDE DEF s, result, closed
    <3> QED
      BY <3>1, <3>2, <2>1, <2>2
  <2> QED
    BY <2>3, <2>4, <2>5
<1>10. OpenPromptsBounded' /\ GuessBudget'
  BY <1>9 DEF OpenPromptsBounded, GuessBudget
<1> QED
  BY <1>6, <1>7, <1>8, <1>10 DEF IInv

\* The sweep keeps the invariant: an expired timer goes together with its lockout or its
\* request.
LEMMA SweepKeepsIInv ==
    ASSUME IInv, sweep
    PROVE  IInv'
<1> DEFINE over == expired(lockout_expiry)
<1>1. Forget(expired(prompt_expiry)) /\ next_id' = next_id
  BY DEF sweep, expire_pending
<1>2. /\ session_auth' \in [Session -> SessionElevationAuth]
      /\ \A t \in Session \cap over :
            ~session_auth'[t].locked_out /\ session_auth'[t].attempts = 0
      /\ \A t \in Session \ over : session_auth'[t] = session_auth[t]
  <2>1. [locked_out |-> FALSE, attempts |-> 0] \in SessionElevationAuth
    BY DEF SessionElevationAuth
  <2> QED
    BY <2>1 DEF sweep, clear_expired_lockouts, IInv, TypeOK
<1>3. /\ DOMAIN lockout_expiry' = DOMAIN lockout_expiry \ over
      /\ lockout_expiry' \in [DOMAIN lockout_expiry' -> Nat]
  BY DEF sweep, clear_expired_lockouts, drain_expired, Restrict, expired, IInv, TypeOK
<1>4. TypeOK' /\ EveryPromptIsTimed'
  BY <1>1, <1>2, <1>3, ForgetKeeps, Zenon DEF IInv, TypeOK
<1>5. EveryLockoutIsTimed'
  <2>1. ASSUME NEW t \in Session
        PROVE  session_auth'[t].locked_out <=> t \in DOMAIN lockout_expiry'
    <3>1. CASE t \in over
      BY <1>2, <1>3, <3>1
    <3>2. CASE t \notin over
      BY <1>2, <1>3, <3>2 DEF IInv, EveryLockoutIsTimed
    <3> QED
      BY <3>1, <3>2
  <2> QED
    BY <2>1 DEF EveryLockoutIsTimed
<1>6. ASSUME NEW t \in Session
      PROVE  /\ ~session_auth'[t].locked_out => session_auth'[t].attempts < MaxAttempts
             /\ Cardinality(PendingOf(t)') <= MaxPending
             /\ session_auth'[t].attempts + Cardinality(PendingOf(t)')
                  <= MaxAttempts + MaxPending - 1
  <2>1. /\ Cardinality(PendingOf(t)') \in Nat
        /\ Cardinality(PendingOf(t)') <= Cardinality(PendingOf(t))
    BY <1>1, ForgetKeeps, Zenon
  <2>2. /\ Cardinality(PendingOf(t)) \in Nat
        /\ Cardinality(PendingOf(t)) <= MaxPending
        /\ session_auth[t].attempts \in Nat
        /\ session_auth[t].attempts + Cardinality(PendingOf(t)) <= MaxAttempts + MaxPending - 1
    BY PendingFinite
    DEF IInv, TypeOK, OpenPromptsBounded, GuessBudget, SessionElevationAuth
  <2>3. CASE t \in over
    <3>1. session_auth'[t].attempts = 0
      BY <1>2, <2>3
    <3> QED
      BY <3>1, <2>1, <2>2
  <2>4. CASE t \notin over
    <3>1. session_auth'[t] = session_auth[t]
      BY <1>2, <2>4
    <3>2. ~session_auth[t].locked_out => session_auth[t].attempts < MaxAttempts
      BY DEF IInv, CounterBelowLimit
    <3> QED
      BY <3>1, <3>2, <2>1, <2>2
  <2> QED
    BY <2>3, <2>4
<1>7. CounterBelowLimit' /\ OpenPromptsBounded' /\ GuessBudget'
  BY <1>6 DEF CounterBelowLimit, OpenPromptsBounded, GuessBudget
<1> QED
  BY <1>4, <1>5, <1>7 DEF IInv

\* The inductive step over every action.
LEMMA NextKeepsIInv == IInv /\ [Next]_vars => IInv'
<1> SUFFICES ASSUME IInv, [Next]_vars
             PROVE  IInv'
  OBVIOUS
<1>1. ASSUME NEW s \in Session, NEW compositor \in Conn, NEW requester \in Conn,
             NEW policy \in Policy, begin(s, compositor, requester, policy)
      PROVE  IInv'
  BY <1>1, BeginKeepsIInv
<1>2. ASSUME NEW id \in RequestId, NEW valid \in BOOLEAN, NEW policy \in Policy,
             attempt(id, valid, policy)
      PROVE  IInv'
  BY <1>2, AttemptKeepsIInv
<1>3. ASSUME NEW id \in RequestId, cancel(id)
      PROVE  IInv'
  BY <1>3, ForgetKeepsBudget DEF cancel
<1>4. ASSUME NEW s \in Session, abandon_session(s)
      PROVE  IInv'
  BY <1>4, ForgetKeepsBudget DEF abandon_session
<1>5. ASSUME NEW c \in Conn, abandon_connection(c)
      PROVE  IInv'
  BY <1>5, ForgetKeepsBudget DEF abandon_connection
<1>6. CASE sweep
  BY <1>6, SweepKeepsIInv
<1>7. CASE tick
  <2>1. /\ DOMAIN prompt_expiry' = DOMAIN prompt_expiry
        /\ prompt_expiry' \in [DOMAIN prompt_expiry' -> Nat]
        /\ DOMAIN lockout_expiry' = DOMAIN lockout_expiry
        /\ lockout_expiry' \in [DOMAIN lockout_expiry' -> Nat]
    BY <1>7 DEF tick, elapse, IInv, TypeOK
  <2>2. \A s \in Session : PendingOf(s)' = PendingOf(s)
    BY <1>7 DEF tick, PendingOf
  <2> QED
    BY <1>7, <2>1, <2>2
    DEF tick, IInv, TypeOK, EveryPromptIsTimed, EveryLockoutIsTimed, OpenPromptsBounded,
        CounterBelowLimit, GuessBudget
<1>8. CASE UNCHANGED vars
  BY <1>8
  DEF vars, IInv, TypeOK, EveryPromptIsTimed, EveryLockoutIsTimed, OpenPromptsBounded,
      CounterBelowLimit, GuessBudget, PendingOf
<1> QED
  BY <1>1, <1>2, <1>3, <1>4, <1>5, <1>6, <1>7, <1>8 DEF Next

\* ElevationManager::default() satisfies the invariant.
LEMMA InitIInv == Init => IInv
<1> SUFFICES ASSUME Init
             PROVE  IInv
  OBVIOUS
<1>1. \A s \in Session : PendingOf(s) = {}
  BY DEF Init, PendingOf
<1>2. Cardinality({}) = 0
  BY FS_EmptySet
<1>3. TypeOK /\ EveryPromptIsTimed /\ EveryLockoutIsTimed /\ CounterBelowLimit
  BY DEF Init, TypeOK, no_timers, SessionElevationAuth, EveryPromptIsTimed,
         EveryLockoutIsTimed, CounterBelowLimit
<1>4. ASSUME NEW s \in Session
      PROVE  Cardinality(PendingOf(s)) = 0 /\ session_auth[s].attempts = 0
  BY <1>1, <1>2, Zenon DEF Init
<1>5. OpenPromptsBounded /\ GuessBudget
  BY <1>4 DEF OpenPromptsBounded, GuessBudget
<1> QED
  BY <1>3, <1>5 DEF IInv

\* Every reachable state satisfies the inductive invariant.
THEOREM Invariance == Spec => []IInv
BY InitIInv, NextKeepsIInv, PTL DEF Spec

\* The manager's maps keep their types, however the daemon mixes its calls.
THEOREM TypeCorrect == Spec => []TypeOK
<1>1. IInv => TypeOK
  BY DEF IInv
<1> QED
  BY <1>1, Invariance, PTL

\* No prompt is ever without its timeout, and no timeout without its prompt.
THEOREM PromptsTimed == Spec => []EveryPromptIsTimed
<1>1. IInv => EveryPromptIsTimed
  BY DEF IInv
<1> QED
  BY <1>1, Invariance, PTL

\* No lockout is ever without the timer that lifts it.
THEOREM LockoutsTimed == Spec => []EveryLockoutIsTimed
<1>1. IInv => EveryLockoutIsTimed
  BY DEF IInv
<1> QED
  BY <1>1, Invariance, PTL

\* Wrong guesses in a row never exceed what max_attempts and the prompts open at the
\* start of a lockout allow, for every configuration a reload may install.
THEOREM GuessesBounded == Spec => []GuessBudget
<1>1. IInv => GuessBudget
  BY DEF IInv
<1> QED
  BY <1>1, Invariance, PTL

\* A lockout ends only when its timer has run out: no attempt, cancel or abandoned
\* prompt lifts it early.
THEOREM LockoutsServed == Spec => OnlyTheTimerLiftsALockout
<1>1. IInv /\ [Next]_vars
        => [\A s \in Session :
              session_auth[s].locked_out /\ ~session_auth'[s].locked_out
                => lockout_expiry[s] = 0]_vars
  <2> SUFFICES ASSUME IInv, [Next]_vars, NEW s \in Session,
                      session_auth[s].locked_out, ~session_auth'[s].locked_out
               PROVE  lockout_expiry[s] = 0
    OBVIOUS
  <2>1. session_auth' # session_auth
    OBVIOUS
  <2>2. ASSUME NEW id \in RequestId, NEW valid \in BOOLEAN, NEW policy \in Policy,
               attempt(id, valid, policy)
        PROVE  FALSE
    <3> DEFINE t == pending[id].session
               result == check(valid, session_auth[t].attempts, policy.max_attempts)
    <3>1. session_auth' = [session_auth EXCEPT
             ![t] = [locked_out |-> @.locked_out \/ result.outcome = "LockedOut",
                     attempts   |-> result.attempts]]
      BY <2>2 DEF attempt
    <3>2. session_auth \in [Session -> SessionElevationAuth]
      BY DEF IInv, TypeOK
    <3> HIDE DEF t, result
    <3> QED
      BY <3>1, <3>2, Zenon
  <2>3. CASE sweep
    <3>1. s \in expired(lockout_expiry)
      BY <2>3 DEF sweep, clear_expired_lockouts
    <3> QED
      BY <3>1 DEF expired
  <2> QED
    BY <2>1, <2>2, <2>3, Zenon
    DEF Next, begin, cancel, abandon_session, abandon_connection, tick, vars
<1> QED
  BY <1>1, Invariance, PTL DEF Spec, OnlyTheTimerLiftsALockout
====
