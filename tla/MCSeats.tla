---- MODULE MCSeats ----
(* Model-checking instance of the two managers that work per seat: SeatManager (who
   has the seat) and IdleDetector (how long it has had no input).  They share no
   state; the event loop interleaves their calls. *)
EXTENDS SeatManager, IdleDetector

\* All stages enabled; no dimming and no suspend; thresholds in the wrong order.
ThreePolicies == {
    [dim_after |-> 1, lock_after |-> 2, suspend_after |-> 3],
    [dim_after |-> 0, lock_after |-> 2, suspend_after |-> 0],
    [dim_after |-> 3, lock_after |-> 1, suspend_after |-> 0]}

SeatsInit == Init /\ IdleInit
SeatsNext ==
    \/ Next /\ UNCHANGED idle_vars
    \/ IdleNext /\ UNCHANGED seats
SeatsSpec == SeatsInit /\ [][SeatsNext]_<<seats, idle_vars>> /\ IdleFairness
====
