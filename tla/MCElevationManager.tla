---- MODULE MCElevationManager ----
(* Model-checking instances of ElevationManager. *)
EXTENDS ElevationManager

\* Two configurations, so that a SIGHUP between two calls can lower every limit.
TwoPolicies == {
    [max_pending_per_session |-> 2, prompt_timeout |-> 2, max_attempts |-> 2, lockout |-> 2],
    [max_pending_per_session |-> 1, prompt_timeout |-> 1, max_attempts |-> 1, lockout |-> 1]}
====
