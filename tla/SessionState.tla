---- MODULE SessionState ----
(***************************************************************************)
(* session/state.rs: the coarse lifecycle of a session.  lifecycle::end     *)
(* forces a session that is being removed to Closed, so neither Closing nor *)
(* Closed is ever the state of a session the manager still knows.           *)
(***************************************************************************)

SessionStates == {"Starting", "Active", "Idle", "Locked", "Closing", "Closed"}

can_transition_to ==
    {<<"Starting", "Active">>, <<"Starting", "Closing">>, <<"Starting", "Locked">>,
     <<"Active", "Idle">>, <<"Active", "Locked">>, <<"Active", "Closing">>,
     <<"Active", "Starting">>, <<"Idle", "Active">>, <<"Idle", "Locked">>,
     <<"Idle", "Closing">>, <<"Idle", "Starting">>, <<"Locked", "Active">>,
     <<"Locked", "Closing">>, <<"Locked", "Starting">>, <<"Closing", "Closed">>}

\* Every caller ignores the error of a forbidden transition: the state stays.
transition(state, next) == IF <<state, next>> \in can_transition_to THEN next ELSE state
====
