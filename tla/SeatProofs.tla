---- MODULE SeatProofs ----
(***************************************************************************)
(* The two managers that work per seat, for every number of sessions and    *)
(* seats: the IdleDetector, with every set of configurations, and the       *)
(* SeatManager.                                                             *)
(*                                                                          *)
(* What retain leaves of a queue is defined by recursion over its length.   *)
(* The facts about it are proved by taking the smallest length at which     *)
(* they would fail: the theorem on minimal elements is stated for sets, so  *)
(* no induction schema is needed.                                           *)
(***************************************************************************)
EXTENDS SeatManager, IdleDetector, TLAPS, WellFoundedInduction

----------------------------------------------------------------------------
(* The idle detector.                                                       *)

\* That stages are earned is not inductive alone: the two maps must also cover the same
\* seats, and idle times stay below MaxIdle.
IdleInv ==
    /\ DOMAIN stage = DOMAIN idle_for /\ DOMAIN stage \subseteq Seat
    /\ idle_for \in [DOMAIN idle_for -> 0..MaxIdle]
    /\ stage \in [DOMAIN stage -> IdleStage]
    /\ StagesAreEarned

\* The threshold of the stage a policy puts an idle time in is enabled and reached.
LEMMA StageForIsEarned ==
    ASSUME NEW policy \in Policy, NEW t \in 0..MaxIdle
    PROVE  LET st == stage_for(policy, t)
           IN  /\ st \in IdleStage
               /\ st = "Dimmed" => policy.dim_after > 0 /\ t >= policy.dim_after
               /\ st = "LockRequested" => policy.lock_after > 0 /\ t >= policy.lock_after
               /\ st = "SuspendRequested"
                    => policy.suspend_after > 0 /\ t >= policy.suspend_after
BY IdlePolicyAssumption DEF stage_for, reaches, IdlePolicy, IdleStage

\* Activity takes its seat back to Active and touches no other.
LEMMA RecordActivityKeepsIdleInv ==
    ASSUME IdleInv, NEW seat \in Seat, record_activity(seat)
    PROVE  IdleInv'
<1>1. /\ DOMAIN stage' = DOMAIN idle_for' /\ DOMAIN stage' \subseteq Seat
      /\ idle_for' \in [DOMAIN idle_for' -> 0..MaxIdle]
      /\ stage' \in [DOMAIN stage' -> IdleStage]
  BY IdlePolicyAssumption DEF record_activity, IdleInv, IdleStage
<1>2. ASSUME NEW x \in DOMAIN stage', stage'[x] # "Active"
      PROVE  x \in DOMAIN stage /\ stage'[x] = stage[x] /\ idle_for'[x] = idle_for[x]
  BY <1>2 DEF record_activity, IdleInv
<1>3. StagesAreEarned'
  BY <1>2, Zenon DEF StagesAreEarned, IdleInv
<1> QED BY <1>1, <1>3 DEF IdleInv

\* A tick records for each seat the stage its idle time has earned under the policy.
LEMMA TickKeepsIdleInv ==
    ASSUME IdleInv, NEW policy \in Policy, tick(policy)
    PROVE  IdleInv'
<1>1. \A seat \in DOMAIN idle_for : idle_for[seat] \in 0..MaxIdle
  BY DEF IdleInv
<1>2. /\ DOMAIN stage' = DOMAIN idle_for' /\ idle_for' = idle_for
      /\ DOMAIN stage' \subseteq Seat
      /\ \A seat \in DOMAIN idle_for : stage'[seat] = stage_for(policy, idle_for[seat])
      /\ stage' = [seat \in DOMAIN idle_for |-> stage'[seat]]
  BY DEF tick, IdleInv
<1>3. stage' \in [DOMAIN stage' -> IdleStage]
  BY <1>1, <1>2, StageForIsEarned
<1>4. StagesAreEarned'
  BY <1>1, <1>2, <1>3, StageForIsEarned DEF StagesAreEarned, IdleStage
<1> QED BY <1>2, <1>3, <1>4 DEF IdleInv

\* Idle times only grow, so a threshold that was reached stays reached.
LEMMA ElapseKeepsIdleInv ==
    ASSUME IdleInv, elapse_idle
    PROVE  IdleInv'
<1>1. /\ DOMAIN idle_for' = DOMAIN idle_for /\ stage' = stage
      /\ idle_for' \in [DOMAIN idle_for' -> 0..MaxIdle]
      /\ \A seat \in DOMAIN idle_for : idle_for'[seat] >= idle_for[seat]
  BY IdlePolicyAssumption DEF elapse_idle, IdleInv
<1>2. StagesAreEarned'
  <2> SUFFICES ASSUME NEW seat \in DOMAIN stage, stage[seat] # "Active"
               PROVE  \E policy \in Policy :
                        LET after == CASE stage[seat] = "Dimmed" -> policy.dim_after
                                       [] stage[seat] = "LockRequested" -> policy.lock_after
                                       [] stage[seat] = "SuspendRequested" -> policy.suspend_after
                        IN  after > 0 /\ idle_for'[seat] >= after
    BY <1>1, Zenon DEF StagesAreEarned
  <2> DEFINE after(policy) == CASE stage[seat] = "Dimmed" -> policy.dim_after
                                [] stage[seat] = "LockRequested" -> policy.lock_after
                                [] stage[seat] = "SuspendRequested" -> policy.suspend_after
  <2>1. PICK policy \in Policy : after(policy) > 0 /\ idle_for[seat] >= after(policy)
    BY Zenon DEF IdleInv, StagesAreEarned
  <2>2. after(policy) \in Nat
    BY IdlePolicyAssumption DEF IdleInv, IdlePolicy, IdleStage
  <2>3. idle_for[seat] \in Nat /\ idle_for'[seat] \in Nat /\ idle_for'[seat] >= idle_for[seat]
    BY <1>1 DEF IdleInv
  <2> HIDE DEF after
  <2>4. after(policy) > 0 /\ idle_for'[seat] >= after(policy)
    BY <2>1, <2>2, <2>3
  <2> QED BY <2>4, Zenon DEF after
<1> QED BY <1>1, <1>2 DEF IdleInv

\* Every step keeps IdleInv.
LEMMA IdleNextKeepsIdleInv == IdleInv /\ [IdleNext]_idle_vars => IdleInv'
<1> SUFFICES ASSUME IdleInv, [IdleNext]_idle_vars PROVE IdleInv'
  OBVIOUS
<1>1. CASE \E seat \in Seat : record_activity(seat)
  BY <1>1, RecordActivityKeepsIdleInv
<1>2. CASE \E policy \in Policy : tick(policy)
  BY <1>2, TickKeepsIdleInv
<1>3. CASE elapse_idle
  BY <1>3, ElapseKeepsIdleInv
<1>4. CASE UNCHANGED idle_vars
  BY <1>4, Zenon DEF idle_vars, IdleInv, StagesAreEarned
<1> QED BY <1>1, <1>2, <1>3, <1>4 DEF IdleNext

\* No seat is dimmed, locked or suspended early, whatever the thresholds and however
\* activity reports, ticks and configuration reloads interleave.
THEOREM Earned == IdleSpec => []StagesAreEarned
<1>1. IdleInit => IdleInv
  BY IdlePolicyAssumption DEF IdleInit, IdleInv, StagesAreEarned
<1>2. IdleInv => StagesAreEarned
  BY DEF IdleInv
<1> QED BY <1>1, <1>2, IdleNextKeepsIdleInv, PTL DEF IdleSpec

----------------------------------------------------------------------------
(* The seat manager.                                                        *)

\* Every non-empty set of natural numbers has a smallest element.
LEMMA SmallestNat ==
    ASSUME NEW T, T \subseteq Nat, T # {}
    PROVE  \E x \in T : \A y \in T : x <= y
<1>1. ASSUME NEW R, IsWellFoundedOn(R, Nat),
             \A y, z \in Nat : y < z => <<y, z>> \in R
      PROVE  \E x \in T : \A y \in T : x <= y
  <2>1. IsWellFoundedOn(R, Nat)
    BY <1>1
  <2>2. \E x \in T : \A y \in T : ~ (<<y, x>> \in R)
    BY <2>1, WFMin, Zenon
  <2>3. PICK x \in T : \A y \in T : ~ (<<y, x>> \in R)
    BY <2>2
  <2>4. \A y, z \in Nat : y < z => <<y, z>> \in R
    BY <1>1
  <2>5. ASSUME NEW y \in T PROVE x <= y
    <3>1. ~(y < x)
      BY <2>3, <2>4, Zenon
    <3> QED BY <3>1
  <2> QED BY <2>5
<1> DEFINE R == OpToRel(<, Nat)
<1>2. IsWellFoundedOn(R, Nat)
  BY NatLessThanWellFounded, Zenon
<1>3. \A y, z \in Nat : y < z => <<y, z>> \in R
  BY DEF OpToRel
<1> HIDE DEF R
<1> QED BY <1>1, <1>2, <1>3

\* Induction up to n, for a property given as the set of numbers that have it.
LEMMA InductionUpTo ==
    ASSUME NEW n \in Nat, NEW P, 0 \in P,
           \A i \in 1..n : i - 1 \in P => i \in P
    PROVE  \A i \in 0..n : i \in P
<1> SUFFICES ASSUME NEW bad \in 0..n, bad \notin P PROVE FALSE
  OBVIOUS
<1> DEFINE T == {i \in 0..n : i \notin P}
<1>1. T \subseteq Nat /\ T # {}
  OBVIOUS
<1>2. PICK x \in T : \A y \in T : x <= y
  BY <1>1, SmallestNat, Zenon
<1>3. x \in 1..n
  BY <1>2
<1>4. x - 1 \in 0..n /\ ~(x <= x - 1)
  BY <1>3
<1>5. x - 1 \in P
  BY <1>2, <1>4
<1> QED BY <1>2, <1>3, <1>5

----------------------------------------------------------------------------
(* What is left of a queue.                                                 *)

\* kept is the sequence of prefixes that without(queue, s) computes.
Retains(queue, s, kept) ==
    kept = [i \in 0..Len(queue) |->
              IF i = 0 THEN <<>>
              ELSE IF queue[i] = s THEN kept[i - 1] ELSE Append(kept[i - 1], queue[i])]

\* The recursion of without has a solution.
LEMMA RetainsExists ==
    ASSUME NEW queue \in Seq(Session), NEW s
    PROVE  \E kept : Retains(queue, s, kept)
<1> DEFINE n == Len(queue)
           step(g, i) == IF i = 0 THEN <<>>
                         ELSE IF queue[i] = s THEN g[i - 1] ELSE Append(g[i - 1], queue[i])
           P == {m \in 0..n : \E g : /\ g = [i \in 0..m |-> g[i]]
                                     /\ \A i \in 0..m : g[i] = step(g, i)}
<1>1. n \in Nat
  OBVIOUS
<1>2. 0 \in P
  <2> DEFINE g == [i \in 0..0 |-> <<>>]
  <2>1. g = [i \in 0..0 |-> g[i]] /\ \A i \in 0..0 : g[i] = step(g, i)
    OBVIOUS
  <2> HIDE DEF g, step
  <2>2. 0 \in 0..n
    BY <1>1
  <2> QED BY <2>1, <2>2
<1>3. ASSUME NEW m \in 1..n, m - 1 \in P PROVE m \in P
  <2>1. PICK g : /\ g = [i \in 0..(m - 1) |-> g[i]]
                 /\ \A i \in 0..(m - 1) : g[i] = step(g, i)
    BY <1>3
  <2> DEFINE h == [i \in 0..m |-> IF i < m THEN g[i] ELSE step(g, m)]
  <2>2. h = [i \in 0..m |-> h[i]]
    OBVIOUS
  <2>3. ASSUME NEW i \in 0..m PROVE h[i] = step(h, i)
    <3>1. CASE i < m
      <4>1. i \in 0..(m - 1) /\ (i # 0 => i - 1 \in 0..m /\ i - 1 < m)
        BY <1>1, <3>1
      <4>2. h[i] = g[i] /\ (i # 0 => h[i - 1] = g[i - 1])
        BY <3>1, <4>1
      <4> QED BY <2>1, <4>1, <4>2, Zenon
    <3>2. CASE i = m
      <4>1. m # 0 /\ m - 1 \in 0..m /\ m - 1 < m /\ ~(m < m) /\ m \in 0..m
        BY <1>1
      <4>2. h[m] = step(g, m) /\ h[m - 1] = g[m - 1]
        BY <4>1
      <4> QED BY <3>2, <4>1, <4>2
    <3> QED BY <3>1, <3>2, <1>1
  <2> HIDE DEF h, step
  <2> QED BY <2>2, <2>3, <1>1
<1>4. n \in P
  <2> HIDE DEF P
  <2>1. \A i \in 0..n : i \in P
    BY <1>1, <1>2, <1>3, InductionUpTo, Zenon
  <2> QED BY <2>1, <1>1
<1>5. PICK g : g = [i \in 0..n |-> g[i]] /\ \A i \in 0..n : g[i] = step(g, i)
  BY <1>4
<1>6. g = [i \in 0..n |-> step(g, i)]
  <2> HIDE DEF step
  <2> QED BY <1>5
<1>7. Retains(queue, s, g)
  BY <1>6, Zenon DEF Retains
<1> QED BY <1>7

\* without computes a solution of it.
LEMMA WithoutRetains ==
    ASSUME NEW queue \in Seq(Session), NEW s
    PROVE  \E kept : Retains(queue, s, kept) /\ without(queue, s) = kept[Len(queue)]
<1> DEFINE K == CHOOSE kept : Retains(queue, s, kept)
<1>1. Retains(queue, s, K)
  BY RetainsExists
<1>2. without(queue, s) = K[Len(queue)]
  BY DEF without, Retains
<1> QED BY <1>1, <1>2, Zenon

\* What retain promises after it has looked at the first i elements of queue: r
\* has those that differ from s, and no others, in the order queue has them.
RetainedFrom(queue, s, i, r) ==
    /\ r \in Seq(Session)
    /\ \A k \in 1..Len(r) : \E a \in 1..i : queue[a] = r[k] /\ r[k] # s
    /\ \A a \in 1..i : queue[a] # s => \E k \in 1..Len(r) : r[k] = queue[a]
    /\ \A k, l \in 1..Len(r) : k < l =>
          \E a, b \in 1..i : a < b /\ queue[a] = r[k] /\ queue[b] = r[l]

\* Looking at one more element, and dropping it.
LEMMA RetainDrops ==
    ASSUME NEW queue, NEW s, NEW i \in Nat, NEW q,
           RetainedFrom(queue, s, i, q), queue[i + 1] = s
    PROVE  RetainedFrom(queue, s, i + 1, q)
<1>1. \A a \in 1..i : a \in 1..(i + 1)
  OBVIOUS
<1>2. \A a \in 1..(i + 1) : a = i + 1 \/ a \in 1..i
  OBVIOUS
<1> DEFINE I == 1..i  J == 1..(i + 1)
<1>3. q \in Seq(Session)
  BY DEF RetainedFrom
<1>4. \A k \in 1..Len(q) : \E a \in J : queue[a] = q[k] /\ q[k] # s
  BY <1>1 DEF RetainedFrom
<1>5. \A a \in J : queue[a] # s => \E k \in 1..Len(q) : q[k] = queue[a]
  BY <1>2 DEF RetainedFrom
<1>6. ASSUME NEW k \in 1..Len(q), NEW l \in 1..Len(q), k < l
      PROVE  \E a, b \in J : a < b /\ queue[a] = q[k] /\ queue[b] = q[l]
  <2>1. PICK a \in I, b \in I : a < b /\ queue[a] = q[k] /\ queue[b] = q[l]
    BY <1>6 DEF RetainedFrom
  <2>2. a \in J /\ b \in J
    BY <1>1
  <2> HIDE DEF I, J
  <2> QED BY <2>1, <2>2
<1> QED BY <1>3, <1>4, <1>5, <1>6 DEF RetainedFrom

\* Looking at one more element, and keeping it.
LEMMA RetainKeeps ==
    ASSUME NEW queue, NEW s, NEW i \in Nat, NEW q,
           RetainedFrom(queue, s, i, q), queue[i + 1] # s, queue[i + 1] \in Session
    PROVE  RetainedFrom(queue, s, i + 1, Append(q, queue[i + 1]))
<1> DEFINE I == 1..i  J == 1..(i + 1)  e == queue[i + 1]  r == Append(q, e)
           Q == 1..Len(q)  R == 1..Len(r)
<1>1. \A a \in I : a \in J /\ a < i + 1
  OBVIOUS
<1>2. \A a \in J : a = i + 1 \/ a \in I
  OBVIOUS
<1>3. i + 1 \in J
  OBVIOUS
<1>4. q \in Seq(Session)
  BY DEF RetainedFrom
<1>5. r \in Seq(Session)
  BY <1>4
<1>6. Len(q) + 1 \in R /\ r[Len(q) + 1] = e
  BY <1>4
<1>7. \A k \in Q : k \in R /\ r[k] = q[k]
  BY <1>4
<1>8. \A k \in R : k = Len(q) + 1 \/ k \in Q
  BY <1>4
<1>9. \A k, l \in R : k < l => k \in Q
  BY <1>4
<1>10. /\ \A k \in Q : \E a \in I : queue[a] = q[k] /\ q[k] # s
       /\ \A a \in I : queue[a] # s => \E k \in Q : q[k] = queue[a]
       /\ \A k, l \in Q : k < l =>
             \E a, b \in I : a < b /\ queue[a] = q[k] /\ queue[b] = q[l]
  BY DEF RetainedFrom
<1>11. queue[i + 1] = e /\ e # s
  OBVIOUS
<1> HIDE DEF I, J, e, r, Q, R
<1>12. \A k \in R : \E a \in J : queue[a] = r[k] /\ r[k] # s
  BY <1>1, <1>3, <1>6, <1>7, <1>8, <1>10, <1>11
<1>13. \A a \in J : queue[a] # s => \E k \in R : r[k] = queue[a]
  BY <1>2, <1>6, <1>7, <1>10, <1>11
<1>14. ASSUME NEW k \in R, NEW l \in R, k < l
       PROVE  \E a, b \in J : a < b /\ queue[a] = r[k] /\ queue[b] = r[l]
  <2>1. k \in Q /\ r[k] = q[k]
    BY <1>7, <1>9, <1>14
  <2>2. CASE l = Len(q) + 1
    <3>1. PICK a \in I : queue[a] = q[k]
      BY <1>10, <2>1
    <3>2. a \in J /\ a < i + 1 /\ queue[a] = r[k] /\ queue[i + 1] = r[l]
      BY <1>1, <1>6, <1>11, <2>1, <2>2, <3>1
    <3> QED BY <1>3, <3>2
  <2>3. CASE l \in Q
    <3>1. PICK a \in I, b \in I : a < b /\ queue[a] = q[k] /\ queue[b] = q[l]
      BY <1>10, <1>14, <2>1, <2>3
    <3>2. a \in J /\ b \in J /\ r[l] = q[l]
      BY <1>1, <1>7, <2>3
    <3> QED BY <2>1, <3>1, <3>2
  <2> QED BY <1>8, <2>2, <2>3
<1>15. RetainedFrom(queue, s, i + 1, r)
  BY <1>5, <1>12, <1>13, <1>14 DEF RetainedFrom, J, R
<1> QED BY <1>15 DEF r, e

\* retain drops s and nothing else, and keeps the others in their order.
LEMMA WithoutProperties ==
    ASSUME NEW queue \in Seq(Session), NEW s
    PROVE  RetainedFrom(queue, s, Len(queue), without(queue, s))
<1> DEFINE n == Len(queue)
<1>1. PICK kept : Retains(queue, s, kept) /\ without(queue, s) = kept[n]
  BY WithoutRetains
<1>2. n \in Nat
  OBVIOUS
<1> DEFINE P == {i \in 0..n : RetainedFrom(queue, s, i, kept[i])}
<1>3. 0 \in P
  <2>1. kept[0] = <<>> /\ 0 \in 0..n
    BY <1>1, <1>2 DEF Retains
  <2>2. RetainedFrom(queue, s, 0, <<>>)
    BY DEF RetainedFrom
  <2> QED BY <2>1, <2>2
<1>4. ASSUME NEW i \in 1..n, i - 1 \in P PROVE i \in P
  <2> DEFINE q == kept[i - 1]
  <2>1. RetainedFrom(queue, s, i - 1, q)
    BY <1>4
  <2>2. kept[i] = IF queue[i] = s THEN q ELSE Append(q, queue[i])
    <3>1. i \in 0..n /\ i # 0
      BY <1>2
    <3>2. kept = [j \in 0..n |->
                    IF j = 0 THEN <<>>
                    ELSE IF queue[j] = s THEN kept[j - 1]
                    ELSE Append(kept[j - 1], queue[j])]
      BY <1>1, Zenon DEF Retains
    <3> HIDE DEF n
    <3> QED BY <3>1, <3>2, Zenon
  <2>3. queue[i] \in Session /\ i - 1 \in Nat /\ (i - 1) + 1 = i /\ i \in 0..n
    BY <1>2
  <2> HIDE DEF q
  <2>4. RetainedFrom(queue, s, i, kept[i])
    <3>1. CASE queue[i] = s
      <4>1. RetainedFrom(queue, s, (i - 1) + 1, q)
        BY <2>1, <2>3, <3>1, RetainDrops
      <4> QED BY <2>2, <2>3, <3>1, <4>1
    <3>2. CASE queue[i] # s
      <4>1. RetainedFrom(queue, s, (i - 1) + 1, Append(q, queue[(i - 1) + 1]))
        BY <2>1, <2>3, <3>2, RetainKeeps
      <4> QED BY <2>2, <2>3, <3>2, <4>1
    <3> QED BY <3>1, <3>2
  <2> QED BY <2>3, <2>4
<1>5. n \in P
  <2> HIDE DEF P
  <2>1. \A i \in 0..n : i \in P
    BY <1>2, <1>3, <1>4, InductionUpTo, Zenon
  <2> QED BY <2>1, <1>2
<1> QED BY <1>1, <1>5

----------------------------------------------------------------------------
\* One seat: e is a seat's entry, Holds(e) the sessions it knows of.

Entry == [active : Session \cup {NoSession}, queued : Seq(Session)]

Holds(e) == {t \in Session : e.active = t \/ t \in Range(e.queued)}

GoodEntry(e) ==
    /\ e \in Entry
    /\ IsInjective(e.queued)
    /\ e.active \notin Range(e.queued)
    /\ e.active = NoSession => e.queued = <<>>

\* Every two sessions that q and r both have stand in the same order in both.
SameOrder(q, r) ==
    \A k, l \in 1..Len(r) : k < l =>
        \A a, b \in 1..Len(q) : q[a] = r[k] /\ q[b] = r[l] => a < b

\* retain on a queue without repetitions.
LEMMA WithoutQueue ==
    ASSUME NEW queue \in Seq(Session), NEW s, IsInjective(queue)
    PROVE  /\ without(queue, s) \in Seq(Session)
           /\ IsInjective(without(queue, s))
           /\ \A t : t \in Range(without(queue, s)) <=> t \in Range(queue) /\ t # s
           /\ SameOrder(queue, without(queue, s))
<1> DEFINE r == without(queue, s)
           Q == 1..Len(queue)
           R == 1..Len(r)
<1>1. RetainedFrom(queue, s, Len(queue), r)
  BY WithoutProperties
<1> HIDE DEF r
<1>2. /\ r \in Seq(Session)
      /\ \A k \in R : \E a \in Q : queue[a] = r[k] /\ r[k] # s
      /\ \A a \in Q : queue[a] # s => \E k \in R : r[k] = queue[a]
      /\ \A k, l \in R : k < l => \E a, b \in Q : a < b /\ queue[a] = r[k] /\ queue[b] = r[l]
  BY <1>1 DEF RetainedFrom
<1>3. \A a, b \in Q : queue[a] = queue[b] => a = b
  BY DEF IsInjective
<1>4. DOMAIN r = R /\ R \subseteq Int /\ Q \subseteq Int
  BY <1>2
<1>5. \A t : t \in Range(r) <=> t \in Range(queue) /\ t # s
  <2>1. \A t : t \in Range(r) <=> \E k \in R : r[k] = t
    BY DEF Range
  <2>2. \A t : t \in Range(queue) <=> \E a \in Q : queue[a] = t
    BY DEF Range
  <2> HIDE DEF Q, R
  <2> QED BY <1>2, <2>1, <2>2
<1> HIDE DEF Q, R
<1>6. ASSUME NEW k \in R, NEW l \in R, k < l PROVE r[k] # r[l]
  <2>1. PICK a \in Q, b \in Q : a < b /\ queue[a] = r[k] /\ queue[b] = r[l]
    BY <1>2, <1>6
  <2>2. a # b
    BY <1>4, <2>1
  <2> QED BY <1>3, <2>1, <2>2
<1>7. IsInjective(r)
  <2> SUFFICES ASSUME NEW k \in R, NEW l \in R, r[k] = r[l] PROVE k = l
    BY <1>4 DEF IsInjective
  <2> QED BY <1>4, <1>6
<1>8. ASSUME NEW k \in R, NEW l \in R, k < l, NEW a \in Q, NEW b \in Q,
             queue[a] = r[k], queue[b] = r[l]
      PROVE  a < b
  <2>1. PICK c \in Q, d \in Q : c < d /\ queue[c] = r[k] /\ queue[d] = r[l]
    BY <1>2, <1>8
  <2>2. a = c /\ b = d
    BY <1>3, <1>8, <2>1
  <2> QED BY <2>1, <2>2
<1>9. SameOrder(queue, r)
  BY <1>8 DEF SameOrder, Q, R
<1> QED BY <1>2, <1>5, <1>7, <1>9 DEF r

\* A queue joined at its end.
LEMMA AppendQueue ==
    ASSUME NEW queue \in Seq(Session), NEW s \in Session,
           IsInjective(queue), s \notin Range(queue)
    PROVE  /\ Append(queue, s) \in Seq(Session)
           /\ IsInjective(Append(queue, s))
           /\ \A t : t \in Range(Append(queue, s)) <=> t \in Range(queue) \/ t = s
           /\ SameOrder(queue, Append(queue, s))
<1> DEFINE r == Append(queue, s)  n == Len(queue)  Q == 1..n  R == 1..(n + 1)
<1>1. /\ r \in Seq(Session) /\ Len(r) = n + 1 /\ n \in Nat
      /\ r[n + 1] = s /\ n + 1 \in R
      /\ \A k \in Q : k \in R /\ r[k] = queue[k]
      /\ \A k \in R : k = n + 1 \/ k \in Q
      /\ DOMAIN r = R /\ DOMAIN queue = Q
  OBVIOUS
<1>2. \A a, b \in Q : queue[a] = queue[b] => a = b
  BY <1>1 DEF IsInjective
<1>3. \A a \in Q : queue[a] # s
  BY DEF Range
<1>4. \A t : t \in Range(queue) <=> \E a \in Q : queue[a] = t
  BY DEF Range
<1>5. \A t : t \in Range(r) <=> \E k \in R : r[k] = t
  BY <1>1 DEF Range
<1>6. \A k, l \in R : k < l => k \in Q
  BY <1>1
<1>7. SameOrder(queue, r) <=>
        \A k, l \in R : k < l => \A a, b \in Q : queue[a] = r[k] /\ queue[b] = r[l] => a < b
  BY <1>1 DEF SameOrder
<1> HIDE DEF r, n, Q, R
<1>8. \A t : t \in Range(r) <=> t \in Range(queue) \/ t = s
  BY <1>1, <1>4, <1>5
<1>9. IsInjective(r)
  BY <1>1, <1>2, <1>3 DEF IsInjective
<1>10. SameOrder(queue, r)
  BY <1>1, <1>2, <1>3, <1>6, <1>7
<1> QED BY <1>1, <1>8, <1>9, <1>10 DEF r

\* A queue that loses its front.
LEMMA TailQueue ==
    ASSUME NEW queue \in Seq(Session), IsInjective(queue), queue # <<>>
    PROVE  /\ Head(queue) \in Session
           /\ Tail(queue) \in Seq(Session)
           /\ IsInjective(Tail(queue))
           /\ Head(queue) \notin Range(Tail(queue))
           /\ \A t : t \in Range(queue) <=> t = Head(queue) \/ t \in Range(Tail(queue))
           /\ SameOrder(queue, Tail(queue))
<1> DEFINE r == Tail(queue)  n == Len(queue)  Q == 1..n  R == 1..(n - 1)
<1>1. /\ r \in Seq(Session) /\ Len(r) = n - 1 /\ n \in Nat \ {0}
      /\ Head(queue) = queue[1] /\ queue[1] \in Session /\ 1 \in Q
      /\ \A k \in R : k + 1 \in Q /\ r[k] = queue[k + 1] /\ k + 1 # 1
      /\ \A k \in Q : k = 1 \/ (k - 1 \in R /\ r[k - 1] = queue[k])
      /\ DOMAIN r = R /\ DOMAIN queue = Q /\ R \subseteq Int /\ Q \subseteq Int
  OBVIOUS
<1>2. \A a, b \in Q : queue[a] = queue[b] => a = b
  BY <1>1 DEF IsInjective
<1>3. \A t : t \in Range(queue) <=> \E a \in Q : queue[a] = t
  BY DEF Range
<1>4. \A t : t \in Range(r) <=> \E k \in R : r[k] = t
  BY <1>1, Zenon DEF Range
<1>5. SameOrder(queue, r) <=>
        \A k, l \in R : k < l => \A a, b \in Q : queue[a] = r[k] /\ queue[b] = r[l] => a < b
  BY <1>1 DEF SameOrder
<1> HIDE DEF r, n, Q, R
<1>6. Head(queue) \notin Range(r)
  BY <1>1, <1>2, <1>4
<1>7. \A t : t \in Range(queue) <=> t = Head(queue) \/ t \in Range(r)
  BY <1>1, <1>3, <1>4
<1>8. IsInjective(r)
  <2> SUFFICES ASSUME NEW k \in R, NEW l \in R, r[k] = r[l] PROVE k = l
    BY <1>1 DEF IsInjective
  <2>1. k + 1 = l + 1
    BY <1>1, <1>2
  <2> QED BY <1>1, <2>1
<1>9. SameOrder(queue, r)
  <2> SUFFICES ASSUME NEW k \in R, NEW l \in R, k < l, NEW a \in Q, NEW b \in Q,
                      queue[a] = r[k], queue[b] = r[l]
               PROVE  a < b
    BY <1>5
  <2>1. a = k + 1 /\ b = l + 1
    BY <1>1, <1>2
  <2> QED BY <1>1, <2>1
<1> QED BY <1>1, <1>6, <1>7, <1>8, <1>9 DEF r

\* What each operation makes of a seat's entry.
Attached(e, s) ==
    IF e.active = NoSession THEN [e EXCEPT !.active = s]
    ELSE [e EXCEPT !.queued = Append(@, s)]

Detached(e, s) ==
    IF e.active # s THEN [e EXCEPT !.queued = without(e.queued, s)]
    ELSE IF e.queued = <<>> THEN [e EXCEPT !.active = NoSession]
    ELSE [active |-> Head(e.queued), queued |-> Tail(e.queued)]

Switched(e, s) ==
    IF e.active = s THEN e
    ELSE [active |-> s,
          queued |-> without(IF e.active = NoSession THEN e.queued
                             ELSE Append(e.queued, e.active), s)]

\* attach_session on one seat.
LEMMA AttachedEntry ==
    ASSUME NEW e, GoodEntry(e), NEW s \in Session, s \notin Holds(e)
    PROVE  /\ GoodEntry(Attached(e, s))
           /\ Holds(Attached(e, s)) = Holds(e) \cup {s}
           /\ SameOrder(e.queued, Attached(e, s).queued)
<1>1. /\ e \in Entry /\ e.queued \in Seq(Session) /\ IsInjective(e.queued)
      /\ e.active \in Session \cup {NoSession} /\ e.active \notin Range(e.queued)
      /\ s \notin Range(e.queued) /\ s # e.active /\ s # NoSession
      /\ e = [active |-> e.active, queued |-> e.queued]
  BY NoSessionAssumption DEF GoodEntry, Holds, Entry
<1>2. CASE e.active = NoSession
  <2>1. e.queued = <<>> /\ Attached(e, s) = [active |-> s, queued |-> <<>>]
    BY <1>1, <1>2 DEF GoodEntry, Attached, Entry
  <2>2. \A t : t \notin Range(<<>>)
    BY DEF Range
  <2>3. IsInjective(<<>>) /\ SameOrder(<<>>, <<>>)
    BY DEF IsInjective, SameOrder
  <2>4. Holds(e) = {} /\ Holds(Attached(e, s)) = {s}
    BY <1>2, <2>1, <2>2, NoSessionAssumption DEF Holds
  <2>5. GoodEntry(Attached(e, s))
    BY <2>1, <2>2, <2>3, <1>1 DEF GoodEntry, Entry
  <2> QED BY <2>1, <2>3, <2>4, <2>5
<1>3. CASE e.active # NoSession
  <2> DEFINE r == Append(e.queued, s)
  <2>1. /\ r \in Seq(Session) /\ IsInjective(r) /\ SameOrder(e.queued, r)
        /\ \A t : t \in Range(r) <=> t \in Range(e.queued) \/ t = s
    BY <1>1, AppendQueue
  <2>2. Attached(e, s) = [active |-> e.active, queued |-> r]
    BY <1>1, <1>3 DEF Attached, Entry
  <2> HIDE DEF r
  <2>3. GoodEntry(Attached(e, s))
    BY <1>1, <1>3, <2>1, <2>2 DEF GoodEntry, Entry
  <2>4. Holds(Attached(e, s)) = Holds(e) \cup {s}
    BY <2>1, <2>2 DEF Holds
  <2> QED BY <2>1, <2>2, <2>3, <2>4
<1> QED BY <1>2, <1>3

\* detach_session on one seat.
LEMMA DetachedEntry ==
    ASSUME NEW e, GoodEntry(e), NEW s \in Session
    PROVE  /\ GoodEntry(Detached(e, s))
           /\ Holds(Detached(e, s)) = Holds(e) \ {s}
           /\ SameOrder(e.queued, Detached(e, s).queued)
<1>1. /\ e \in Entry /\ e.queued \in Seq(Session) /\ IsInjective(e.queued)
      /\ e.active \in Session \cup {NoSession} /\ e.active \notin Range(e.queued)
      /\ s # NoSession /\ (e.active = NoSession => e.queued = <<>>)
      /\ e = [active |-> e.active, queued |-> e.queued]
  BY NoSessionAssumption DEF GoodEntry, Entry
<1>2. \A t : t \notin Range(<<>>)
  BY DEF Range
<1>3. CASE e.active # s
  <2> DEFINE r == without(e.queued, s)
  <2>1. /\ r \in Seq(Session) /\ IsInjective(r) /\ SameOrder(e.queued, r)
        /\ \A t : t \in Range(r) <=> t \in Range(e.queued) /\ t # s
    BY <1>1, WithoutQueue
  <2>2. Detached(e, s) = [active |-> e.active, queued |-> r]
    BY <1>1, <1>3 DEF Detached, Entry
  <2> HIDE DEF r
  <2>3. ASSUME e.active = NoSession PROVE r = <<>>
    <3>1. \A k \in 1..Len(r) : r[k] \in Range(r)
      BY DEF Range
    <3>2. 1..Len(r) = {}
      BY <1>1, <1>2, <2>1, <2>3, <3>1
    <3>3. Len(r) \in Nat /\ (Len(r) = 0 => r = <<>>)
      BY <2>1
    <3> QED BY <3>2, <3>3
  <2>4. GoodEntry(Detached(e, s))
    BY <1>1, <2>1, <2>2, <2>3 DEF GoodEntry, Entry
  <2>5. Holds(Detached(e, s)) = Holds(e) \ {s}
    BY <1>3, <2>1, <2>2 DEF Holds
  <2> QED BY <2>1, <2>2, <2>4, <2>5
<1>4. CASE e.active = s /\ e.queued = <<>>
  <2>1. Detached(e, s) = [active |-> NoSession, queued |-> <<>>]
    BY <1>1, <1>4 DEF Detached, Entry
  <2>2. IsInjective(<<>>) /\ SameOrder(<<>>, <<>>)
    BY DEF IsInjective, SameOrder
  <2>3. GoodEntry(Detached(e, s))
    BY <1>2, <2>1, <2>2 DEF GoodEntry, Entry
  <2>4. Holds(Detached(e, s)) = Holds(e) \ {s}
    BY <1>2, <1>4, <2>1, NoSessionAssumption DEF Holds
  <2> QED BY <1>4, <2>1, <2>2, <2>3, <2>4
<1>5. CASE e.active = s /\ e.queued # <<>>
  <2> DEFINE h == Head(e.queued)  r == Tail(e.queued)
  <2>1. /\ h \in Session /\ r \in Seq(Session) /\ IsInjective(r) /\ h \notin Range(r)
        /\ \A t : t \in Range(e.queued) <=> t = h \/ t \in Range(r)
        /\ SameOrder(e.queued, r)
    BY <1>1, <1>5, TailQueue
  <2>2. Detached(e, s) = [active |-> h, queued |-> r]
    BY <1>5 DEF Detached
  <2> HIDE DEF h, r
  <2>3. GoodEntry(Detached(e, s))
    BY <2>1, <2>2, NoSessionAssumption DEF GoodEntry, Entry
  <2>4. Holds(Detached(e, s)) = Holds(e) \ {s}
    BY <1>1, <1>5, <2>1, <2>2 DEF Holds
  <2> QED BY <2>1, <2>2, <2>3, <2>4
<1> QED BY <1>3, <1>4, <1>5

\* switch_active on one seat.
LEMMA SwitchedEntry ==
    ASSUME NEW e, GoodEntry(e), NEW s \in Holds(e)
    PROVE  /\ GoodEntry(Switched(e, s))
           /\ Holds(Switched(e, s)) = Holds(e)
           /\ SameOrder(e.queued, Switched(e, s).queued)
<1>1. /\ e \in Entry /\ e.queued \in Seq(Session) /\ IsInjective(e.queued)
      /\ e.active \in Session \cup {NoSession} /\ e.active \notin Range(e.queued)
      /\ s \in Session /\ s # NoSession /\ (e.active = NoSession => e.queued = <<>>)
      /\ (e.active = s \/ s \in Range(e.queued))
  BY NoSessionAssumption DEF GoodEntry, Entry, Holds
<1>2. CASE e.active = s
  <2>1. \A a, b \in 1..Len(e.queued) : e.queued[a] = e.queued[b] => a = b
    BY <1>1 DEF IsInjective
  <2>2. SameOrder(e.queued, e.queued)
    BY <2>1 DEF SameOrder
  <2> QED BY <1>2, <2>2 DEF Switched
<1>3. CASE e.active # s
  <2> DEFINE q == e.queued  mid == Append(q, e.active)  r == without(mid, s)
  <2>1. e.active # NoSession /\ e.active \in Session /\ s \in Range(q)
    BY <1>1, <1>3 DEF Range
  <2>2. /\ mid \in Seq(Session) /\ IsInjective(mid)
        /\ \A t : t \in Range(mid) <=> t \in Range(q) \/ t = e.active
    BY <1>1, <2>1, AppendQueue
  <2>3. /\ 1..Len(q) \subseteq 1..Len(mid)
        /\ \A a \in 1..Len(q) : mid[a] = q[a]
    BY <1>1, <2>1
  <2> HIDE DEF mid
  <2>4. /\ r \in Seq(Session) /\ IsInjective(r) /\ SameOrder(mid, r)
        /\ \A t : t \in Range(r) <=> t \in Range(mid) /\ t # s
    BY <2>2, WithoutQueue
  <2>5. Switched(e, s) = [active |-> s, queued |-> r]
    BY <1>3, <2>1 DEF Switched, mid
  <2> HIDE DEF r, q
  <2>6. SameOrder(q, r)
    BY <2>3, <2>4 DEF SameOrder
  <2>7. GoodEntry(Switched(e, s))
    BY <1>1, <2>4, <2>5 DEF GoodEntry, Entry
  <2>8. Holds(Switched(e, s)) = Holds(e)
    BY <1>1, <1>3, <2>1, <2>2, <2>4, <2>5 DEF Holds, q
  <2> QED BY <2>5, <2>6, <2>7, <2>8 DEF q
<1> QED BY <1>2, <1>3

----------------------------------------------------------------------------
\* The inductive invariant: every entry is good, and no session is on two seats.

IInv ==
    /\ TypeOK
    /\ \A seat \in SeatId : GoodEntry(seats[seat])
    /\ \A a, b \in SeatId : a # b => Holds(seats[a]) \cap Holds(seats[b]) = {}

\* What one step does to a seat: a session joins (attach_session), one leaves every
\* seat it is on (detach_session), or they only change places (switch_active).
Joins(s) == /\ \A seat \in SeatId : s \notin Holds(seats[seat])
            /\ \E seat \in SeatId :
                  /\ seats'[seat] = Attached(seats[seat], s)
                  /\ \A other \in SeatId \ {seat} : seats'[other] = seats[other]

Leaves(s) == \A seat \in SeatId : seats'[seat] = Detached(seats[seat], s)

Rearranges == \A seat \in SeatId :
                 \/ seats'[seat] = seats[seat]
                 \/ \E s \in Holds(seats[seat]) : seats'[seat] = Switched(seats[seat], s)

\* Every step of the manager is one of the three.
LEMMA Steps ==
    ASSUME TypeOK, Next
    PROVE  /\ seats' \in [SeatId -> {seats'[seat] : seat \in SeatId}]
           /\ \/ \E s \in Session : Joins(s)
              \/ \E s \in Session : detach_session(s) /\ Leaves(s)
              \/ Rearranges
<1> USE DEF TypeOK
<1>0. DOMAIN seats = SeatId
  OBVIOUS
<1>1. ASSUME NEW seat \in SeatId, NEW s \in Session,
             \A other \in SeatId : ~has_session(other, s), attach_session(seat, s)
      PROVE  Joins(s) /\ seats' \in [SeatId -> {seats'[x] : x \in SeatId}]
  <2>1. seats' = [seats EXCEPT ![seat] = Attached(seats[seat], s)]
    BY <1>1, Zenon DEF attach_session, Attached
  <2>2. \A other \in SeatId : s \notin Holds(seats[other])
    BY <1>1 DEF has_session, Holds
  <2> QED BY <1>0, <2>1, <2>2 DEF Joins
<1>2. ASSUME NEW s \in Session, detach_session(s)
      PROVE  Leaves(s) /\ seats' \in [SeatId -> {seats'[x] : x \in SeatId}]
  <2>1. seats' = [seat \in SeatId |-> Detached(seats[seat], s)]
    BY <1>2 DEF detach_session, Detached
  <2> QED BY <2>1 DEF Leaves
<1>3. ASSUME NEW seat \in SeatId, NEW s \in Session, switch_active(seat, s)
      PROVE  Rearranges /\ seats' \in [SeatId -> {seats'[x] : x \in SeatId}]
  <2>1. seats' = [seats EXCEPT ![seat] = Switched(seats[seat], s)]
    BY <1>3 DEF switch_active, Switched
  <2>2. s \in Holds(seats[seat])
    BY <1>3 DEF switch_active, has_session, Holds
  <2> QED BY <1>0, <2>1, <2>2 DEF Rearranges
<1> QED BY <1>1, <1>2, <1>3 DEF Next

\* Every step leaves good entries, moves nobody to a second seat, and keeps the order
\* of those who go on waiting.
LEMMA StepEffect ==
    ASSUME IInv, Next
    PROVE  /\ IInv'
           /\ \A seat \in SeatId : SameOrder(seats[seat].queued, seats'[seat].queued)
           /\ \/ \A seat \in SeatId : Holds(seats[seat]) \subseteq Holds(seats'[seat])
              \/ \E s \in Session :
                    /\ detach_session(s)
                    /\ \A seat \in SeatId : Holds(seats'[seat]) = Holds(seats[seat]) \ {s}
<1> DEFINE Good == \A seat \in SeatId : GoodEntry(seats'[seat])
           Apart == \A a, b \in SeatId : a # b => Holds(seats'[a]) \cap Holds(seats'[b]) = {}
           Order == \A seat \in SeatId : SameOrder(seats[seat].queued, seats'[seat].queued)
<1>1. \A seat \in SeatId : GoodEntry(seats[seat])
  BY DEF IInv
<1>2. \A a, b \in SeatId : a # b => Holds(seats[a]) \cap Holds(seats[b]) = {}
  BY DEF IInv
<1>3. \A seat \in SeatId : SameOrder(seats[seat].queued, seats[seat].queued)
  <2> TAKE seat \in SeatId
  <2> DEFINE q == seats[seat].queued
  <2>1. q \in Seq(Session) /\ \A a, b \in DOMAIN q : q[a] = q[b] => a = b
    BY <1>1 DEF GoodEntry, Entry, IsInjective
  <2>2. \A a, b \in 1..Len(q) : q[a] = q[b] => a = b
    BY <2>1
  <2> QED BY <2>2 DEF SameOrder
<1>4. ASSUME NEW s \in Session, Joins(s)
      PROVE  Good /\ Apart /\ Order
             /\ \A seat \in SeatId : Holds(seats[seat]) \subseteq Holds(seats'[seat])
  <2>1. PICK seat \in SeatId : /\ seats'[seat] = Attached(seats[seat], s)
                               /\ \A other \in SeatId \ {seat} : seats'[other] = seats[other]
    BY <1>4 DEF Joins
  <2>2. \A other \in SeatId : s \notin Holds(seats[other])
    BY <1>4 DEF Joins
  <2>3. /\ GoodEntry(seats'[seat])
        /\ Holds(seats'[seat]) = Holds(seats[seat]) \cup {s}
        /\ SameOrder(seats[seat].queued, seats'[seat].queued)
    BY <1>1, <2>1, <2>2, AttachedEntry
  <2> QED BY <1>1, <1>2, <1>3, <2>1, <2>2, <2>3
<1>5. ASSUME NEW s \in Session, Leaves(s)
      PROVE  Good /\ Apart /\ Order
             /\ \A seat \in SeatId : Holds(seats'[seat]) = Holds(seats[seat]) \ {s}
  <2>1. \A seat \in SeatId : /\ GoodEntry(seats'[seat])
                             /\ Holds(seats'[seat]) = Holds(seats[seat]) \ {s}
                             /\ SameOrder(seats[seat].queued, seats'[seat].queued)
    BY <1>1, <1>5, DetachedEntry DEF Leaves
  <2> QED BY <1>2, <2>1
<1>6. ASSUME Rearranges
      PROVE  Good /\ Apart /\ Order
             /\ \A seat \in SeatId : Holds(seats'[seat]) = Holds(seats[seat])
  <2>1. ASSUME NEW seat \in SeatId
        PROVE  /\ GoodEntry(seats'[seat])
               /\ Holds(seats'[seat]) = Holds(seats[seat])
               /\ SameOrder(seats[seat].queued, seats'[seat].queued)
    <3>1. CASE seats'[seat] = seats[seat]
      BY <1>1, <1>3, <3>1
    <3>2. CASE \E s \in Holds(seats[seat]) : seats'[seat] = Switched(seats[seat], s)
      BY <1>1, <3>2, SwitchedEntry
    <3> QED BY <1>6, <3>1, <3>2 DEF Rearranges
  <2> QED BY <1>2, <2>1
<1>7. TypeOK
  BY DEF IInv
<1>8. Good /\ Apart /\ Order
  BY <1>4, <1>5, <1>6, <1>7, Steps
<1>9. seats' \in [SeatId -> {seats'[seat] : seat \in SeatId}]
  BY <1>7, Steps
<1>10. TypeOK'
  BY <1>8, <1>9 DEF TypeOK, GoodEntry, Entry
<1>11. IInv'
  BY <1>8, <1>10 DEF IInv
<1>12. \/ \A seat \in SeatId : Holds(seats[seat]) \subseteq Holds(seats'[seat])
       \/ \E s \in Session :
             /\ detach_session(s)
             /\ \A seat \in SeatId : Holds(seats'[seat]) = Holds(seats[seat]) \ {s}
  BY <1>4, <1>5, <1>6, <1>7, Steps
<1> QED BY <1>8, <1>11, <1>12

\* Who is on a seat after each operation: attach_session adds the session, ...
LEMMA AttachAdds ==
    ASSUME IInv, NEW seat \in SeatId, NEW s \in Session,
           \A x \in SeatId : ~has_session(x, s), attach_session(seat, s)
    PROVE  /\ Holds(seats'[seat]) = Holds(seats[seat]) \cup {s}
           /\ \A x \in SeatId \ {seat} : Holds(seats'[x]) = Holds(seats[x])
<1>1. GoodEntry(seats[seat]) /\ TypeOK
  BY DEF IInv
<1>2. s \notin Holds(seats[seat])
  BY DEF has_session, Holds
<1>3. seats' = [seats EXCEPT ![seat] = Attached(seats[seat], s)]
  BY Zenon DEF attach_session, Attached
<1>4. /\ seats'[seat] = Attached(seats[seat], s)
      /\ \A x \in SeatId \ {seat} : seats'[x] = seats[x]
  BY <1>1, <1>3 DEF TypeOK
<1> QED BY <1>1, <1>2, <1>4, AttachedEntry

\* ... detach_session takes it off every seat ...
LEMMA DetachTakes ==
    ASSUME IInv, NEW s \in Session, detach_session(s)
    PROVE  \A x \in SeatId : Holds(seats'[x]) = Holds(seats[x]) \ {s}
<1>1. seats' = [x \in SeatId |-> Detached(seats[x], s)]
  BY DEF detach_session, Detached
<1>2. \A x \in SeatId : seats'[x] = Detached(seats[x], s) /\ GoodEntry(seats[x])
  BY <1>1 DEF IInv
<1> QED BY <1>2, DetachedEntry

\* ... and switch_active leaves everybody where they are.
LEMMA SwitchKeeps ==
    ASSUME IInv, NEW seat \in SeatId, NEW s \in Session, switch_active(seat, s)
    PROVE  \A x \in SeatId : Holds(seats'[x]) = Holds(seats[x])
<1>1. GoodEntry(seats[seat]) /\ TypeOK
  BY DEF IInv
<1>2. s \in Holds(seats[seat])
  BY DEF switch_active, has_session, Holds
<1>3. seats' = [seats EXCEPT ![seat] = Switched(seats[seat], s)]
  BY DEF switch_active, Switched
<1>4. /\ seats'[seat] = Switched(seats[seat], s)
      /\ \A x \in SeatId \ {seat} : seats'[x] = seats[x]
  BY <1>1, <1>3 DEF TypeOK
<1> QED BY <1>1, <1>2, <1>4, SwitchedEntry

\* At first every seat is empty.
LEMMA InitialEntries ==
    ASSUME Init
    PROVE  IInv /\ \A seat \in SeatId : Holds(seats[seat]) = {}
<1>1. TypeOK /\ \A seat \in SeatId : seats[seat] = [active |-> NoSession, queued |-> <<>>]
  BY DEF Init, TypeOK
<1>2. \A t : t \notin Range(<<>>)
  BY DEF Range
<1>3. IsInjective(<<>>)
  BY DEF IsInjective
<1> DEFINE e == [active |-> NoSession, queued |-> <<>>]
<1>4. e \in Entry /\ e.active = NoSession /\ e.queued = <<>>
  BY DEF Entry
<1> HIDE DEF e
<1>5. GoodEntry(e) /\ Holds(e) = {}
  BY <1>2, <1>3, <1>4, NoSessionAssumption DEF GoodEntry, Holds
<1> QED BY <1>1, <1>5 DEF IInv, e

\* The good entries are an inductive invariant of attach, detach and switch.
THEOREM Invariance == Spec => []IInv
<1>1. Init => IInv
  BY InitialEntries
<1>2. IInv /\ [Next]_seats => IInv'
  <2>1. CASE Next
    BY <2>1, StepEffect
  <2>2. CASE UNCHANGED seats
    BY <2>2 DEF IInv, TypeOK
  <2> QED BY <2>1, <2>2
<1> QED BY <1>1, <1>2, PTL DEF Spec

\* Every seat's entry is well-typed, for any number of seats and sessions.
THEOREM TypeCorrect == Spec => []TypeOK
<1>1. IInv => TypeOK
  BY DEF IInv
<1> QED BY <1>1, Invariance, PTL

\* No login, logout or switch ever puts a session in two places.
THEOREM OnePlace == Spec => []EverySessionHasOnePlace
<1>1. IInv => EverySessionHasOnePlace
  <2> SUFFICES ASSUME IInv PROVE EverySessionHasOnePlace
    OBVIOUS
  <2>1. \A seat \in SeatId : SessionsOn(seat) = Holds(seats[seat])
    BY DEF SessionsOn, has_session, Holds
  <2>2. \A a, b \in SeatId : a # b => SessionsOn(a) \cap SessionsOn(b) = {}
    BY <2>1 DEF IInv
  <2> QED BY <2>2 DEF IInv, GoodEntry, EverySessionHasOnePlace
<1> QED BY <1>1, Invariance, PTL

\* Nobody queues for a free seat.
THEOREM FreeSeatsHaveNoQueue == Spec => []NoQueueForAFreeSeat
<1>1. IInv => NoQueueForAFreeSeat
  BY DEF IInv, GoodEntry, NoQueueForAFreeSeat
<1> QED BY <1>1, Invariance, PTL

\* Only detach_session takes a session off a seat, and only the one it names.
THEOREM DetachRemoves == Spec => OnlyDetachRemoves
<1> DEFINE A == \A seat \in SeatId : \A s \in SessionsOn(seat) \ SessionsOn(seat)' :
                   /\ detach_session(s)
                   /\ \A other \in SeatId : SessionsOn(other) \ {s} = SessionsOn(other)'
<1>1. IInv /\ [Next]_seats => [A]_seats
  <2> SUFFICES ASSUME IInv, Next PROVE A
    OBVIOUS
  <2>1. \A seat \in SeatId : /\ SessionsOn(seat) = Holds(seats[seat])
                             /\ SessionsOn(seat)' = Holds(seats'[seat])
    BY DEF SessionsOn, has_session, Holds
  <2>2. CASE \A seat \in SeatId : Holds(seats[seat]) \subseteq Holds(seats'[seat])
    BY <2>1, <2>2
  <2>3. CASE \E s \in Session :
                /\ detach_session(s)
                /\ \A seat \in SeatId : Holds(seats'[seat]) = Holds(seats[seat]) \ {s}
    <3>1. PICK s \in Session :
             /\ detach_session(s)
             /\ \A seat \in SeatId : Holds(seats'[seat]) = Holds(seats[seat]) \ {s}
      BY <2>3
    <3>2. \A seat \in SeatId : \A t \in SessionsOn(seat) \ SessionsOn(seat)' : t = s
      BY <2>1, <3>1
    <3>3. \A other \in SeatId : SessionsOn(other) \ {s} = SessionsOn(other)'
      BY <2>1, <3>1
    <3> QED BY <3>1, <3>2, <3>3
  <2> QED BY <2>2, <2>3, StepEffect
<1> QED BY <1>1, Invariance, PTL DEF Spec, OnlyDetachRemoves

\* A session stands in a queue without repetitions at the one index that holds it.
LEMMA PlaceOf ==
    ASSUME NEW q \in Seq(Session), IsInjective(q), NEW s, s \in Range(q)
    PROVE  place(q, s) \in 1..Len(q) /\ q[place(q, s)] = s
<1>1. DOMAIN q = 1..Len(q)
  OBVIOUS
<1>2. \E i \in DOMAIN q : q[i] = s
  BY <1>1 DEF Range
<1> QED BY <1>1, <1>2 DEF place

\* No operation lets one waiting session overtake another.
THEOREM QueuesKeepOrder == Spec => NobodyOvertakes
<1> DEFINE Keeps(seat, s, t) ==
             LET q == seats[seat].queued
                 r == seats'[seat].queued
             IN  /\ s \in Range(q) /\ t \in Range(q)
                 /\ s \in Range(r) /\ t \in Range(r)
                 /\ place(q, s) < place(q, t)
                 => place(r, s) < place(r, t)
           A == \A seat \in SeatId : \A s, t \in Session : Keeps(seat, s, t)
<1>1. IInv /\ [Next]_seats => [A]_seats
  <2> SUFFICES ASSUME IInv, Next, NEW seat \in SeatId, NEW s \in Session, NEW t \in Session
               PROVE  Keeps(seat, s, t)
    OBVIOUS
  <2> DEFINE q == seats[seat].queued
             r == seats'[seat].queued
  <2>1. SameOrder(q, r) /\ GoodEntry(seats[seat]) /\ GoodEntry(seats'[seat])
    BY StepEffect DEF IInv
  <2>2. q \in Seq(Session) /\ IsInjective(q) /\ r \in Seq(Session) /\ IsInjective(r)
    BY <2>1 DEF GoodEntry, Entry
  <2> HIDE DEF q, r
  <2>3. ASSUME s \in Range(q), t \in Range(q), s \in Range(r), t \in Range(r),
               place(q, s) < place(q, t)
        PROVE  place(r, s) < place(r, t)
    <3> DEFINE a == place(q, s)  b == place(q, t)  k == place(r, s)  l == place(r, t)
    <3>1. a \in 1..Len(q) /\ q[a] = s /\ b \in 1..Len(q) /\ q[b] = t
      BY <2>2, <2>3, PlaceOf
    <3>2. k \in 1..Len(r) /\ r[k] = s /\ l \in 1..Len(r) /\ r[l] = t
      BY <2>2, <2>3, PlaceOf
    <3>3. a < b
      BY <2>3
    <3> HIDE DEF a, b, k, l
    <3>4. k # l
      <4>1. s # t
        BY <2>3, <3>1, <3>3 DEF a, b
      <4> QED BY <3>2, <4>1
    <3>5. ~(l < k)
      BY <2>1, <3>1, <3>2, <3>3 DEF SameOrder
    <3>6. k < l
      BY <3>2, <3>4, <3>5
    <3> QED BY <3>6 DEF k, l
  <2> QED BY <2>3 DEF q, r
<1> QED BY <1>1, Invariance, PTL DEF Spec, NobodyOvertakes
====
