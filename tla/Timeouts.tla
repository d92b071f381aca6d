---- MODULE Timeouts ----
(***************************************************************************)
(* The deadline maps of lock/timeout.rs and elevation/timeout.rs.  The code *)
(* stores an Instant per key and compares it with "now"; a timer is kept    *)
(* here as the time left until that Instant (0 once it has passed), which   *)
(* is all that the comparison t <= now can see.                             *)
(***************************************************************************)
EXTENDS Naturals, Functions

\* HashMap::default().
no_timers == [k \in {} |-> 0]

\* HashMap::insert(key, now + duration): also restarts a running timer.
start(timers, key, duration) ==
    [k \in DOMAIN timers \cup {key} |-> IF k = key THEN duration ELSE timers[k]]

\* The keys drain_expired returns ...
expired(timers) == {k \in DOMAIN timers : timers[k] = 0}

\* ... and the map it leaves behind.
drain_expired(timers) == Restrict(timers, DOMAIN timers \ expired(timers))

\* One unit of time passes.
elapse(timers) == [k \in DOMAIN timers |-> IF timers[k] = 0 THEN 0 ELSE timers[k] - 1]
====
