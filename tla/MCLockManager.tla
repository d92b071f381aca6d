---- MODULE MCLockManager ----
(* Model-checking instances of LockManager. *)
EXTENDS LockManager

\* Three configurations a SIGHUP may switch between: two limits, and locking disabled.
ThreePolicies == {
    [enabled |-> TRUE, max_attempts |-> 2, lockout |-> 2],
    [enabled |-> TRUE, max_attempts |-> 1, lockout |-> 1],
    [enabled |-> FALSE, max_attempts |-> 2, lockout |-> 0]}

\* One configuration, for the runs that only need a lockout to happen.
OnePolicy == {[enabled |-> TRUE, max_attempts |-> 2, lockout |-> 2]}
====
