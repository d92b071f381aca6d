---- MODULE IdleDetector ----
(***************************************************************************)
(* idle/: how long each seat has had no input, and the stage that makes it. *)
(*                                                                          *)
(* The code keeps the Instant of the last activity; idle_for is the time    *)
(* since then, counted up to MaxIdle, which lies beyond every threshold.    *)
(* A seat enters the maps with its first activity report.                   *)
(***************************************************************************)
EXTENDS Naturals

CONSTANTS
    Seat,       \* the seats activity is reported for
    Policy,     \* the [idle] settings a configuration may hold
    MaxIdle     \* idle_for stops here

VARIABLES
    idle_for,   \* seat -> time since its last activity report
    stage       \* seat -> the stage last reported for it

idle_vars == <<idle_for, stage>>

IdleStage == {"Active", "Dimmed", "LockRequested", "SuspendRequested"}
IdlePolicy == [dim_after : 0..MaxIdle, lock_after : 0..MaxIdle, suspend_after : 0..MaxIdle]

ASSUME IdlePolicyAssumption == MaxIdle \in Nat /\ Policy \subseteq IdlePolicy

IdleInit ==
    /\ idle_for = [seat \in {} |-> 0]
    /\ stage = [seat \in {} |-> "Active"]

\* Faulty comparisons: one unit early, and only at the very moment.
reaches_early(threshold, t) == threshold > 0 /\ t + 1 >= threshold
reaches_exactly(threshold, t) == threshold > 0 /\ t = threshold

\* A threshold of zero is never reached ...
reaches(threshold, t) == threshold > 0 /\ t >= threshold

\* ... and the last stage reached wins.
stage_for(policy, t) ==
    IF reaches(policy.suspend_after, t) THEN "SuspendRequested"
    ELSE IF reaches(policy.lock_after, t) THEN "LockRequested"
    ELSE IF reaches(policy.dim_after, t) THEN "Dimmed" ELSE "Active"

\* A faulty record_activity that leaves the stage to the next tick.
record_activity_lazily(seat) ==
    /\ idle_for' = [x \in DOMAIN idle_for \cup {seat} |-> IF x = seat THEN 0 ELSE idle_for[x]]
    /\ stage' = [x \in DOMAIN stage \cup {seat} |->
                    IF x \in DOMAIN stage THEN stage[x] ELSE "Active"]

record_activity(seat) ==
    /\ idle_for' = [x \in DOMAIN idle_for \cup {seat} |-> IF x = seat THEN 0 ELSE idle_for[x]]
    /\ stage' = [x \in DOMAIN stage \cup {seat} |-> IF x = seat THEN "Active" ELSE stage[x]]

\* The seats whose stage a tick changes: what tick returns ...
changes(policy) ==
    {seat \in DOMAIN idle_for : stage[seat] # stage_for(policy, idle_for[seat])}

\* ... and the new stages it records.
tick(policy) ==
    /\ stage' = [seat \in DOMAIN idle_for |-> stage_for(policy, idle_for[seat])]
    /\ UNCHANGED idle_for

\* Time passes between two calls, by more than a second when the loop is busy.
elapse_idle ==
    /\ idle_for' = [seat \in DOMAIN idle_for |->
                      IF idle_for[seat] < MaxIdle THEN idle_for[seat] + 1 ELSE MaxIdle]
    /\ UNCHANGED stage

IdleNext ==
    \/ \E seat \in Seat : record_activity(seat)
    \/ \E policy \in Policy : tick(policy)
    \/ elapse_idle

\* The clock runs, and the 1 Hz timer of main.rs fires.
IdleFairness == WF_idle_vars(elapse_idle) /\ WF_idle_vars(\E policy \in Policy : tick(policy))

IdleSpec == IdleInit /\ [][IdleNext]_idle_vars /\ IdleFairness

----------------------------------------------------------------------------

\* A seat is in a stage only if it really has been without input for as long as some
\* configuration's enabled threshold for that stage says: fresh activity takes the
\* seat out of every stage at once, and a stage set to 0 is never entered.
StagesAreEarned ==
    \A seat \in DOMAIN stage : stage[seat] # "Active" =>
        \E policy \in Policy :
            LET after == CASE stage[seat] = "Dimmed" -> policy.dim_after
                           [] stage[seat] = "LockRequested" -> policy.lock_after
                           [] stage[seat] = "SuspendRequested" -> policy.suspend_after
            IN  after > 0 /\ idle_for[seat] >= after

\* With automatic locking configured, a seat that stays without input gets its lock
\* request, or goes on to suspending, however late the ticks come: a tick that misses
\* the moment a threshold is reached still sees it.
QuietSeatsAskForTheLock ==
    (\A policy \in Policy : policy.lock_after > 0) =>
        \A seat \in Seat :
            seat \in DOMAIN idle_for ~>
                /\ seat \in DOMAIN idle_for
                /\ stage[seat] \in {"LockRequested", "SuspendRequested"} \/ idle_for[seat] = 0
====
