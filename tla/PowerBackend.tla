---- MODULE PowerBackend ----
(***************************************************************************)
(* power/mod.rs, mitos_power.rs and supervised.rs: the three ways a power   *)
(* transition reaches the kernel.  A call is described by its outcomes:     *)
(* what it returns to the daemon, and when the machine makes the            *)
(* transition:                                                              *)
(*   "now"      before the call returns,                                    *)
(*   "stopping" after the supervisor has stopped the daemon,                *)
(*   "later"    at some moment after the call has returned,                 *)
(*   "never"    not at all.                                                 *)
(***************************************************************************)

Outcome(result, when) == [result |-> result, when |-> when]

\* DirectBackend: /sys/power/state and reboot(2) make the transition or fail.
direct(op) == {Outcome("Ok", "now"), Outcome("Err", "never")}

\* MitosPowerBackend::call.  A refused connection, a closed one and a reply that is an
\* error or no JSON are errors: mitos-power makes no transition.  A reply that says ok
\* comes after the machine has resumed; a machine that goes down takes the call with it,
\* unless mitos-power hands the transition to the supervisor.  After 10 seconds without
\* a reply the call gives up, but mitos-power, which has the request, does not.
call(op) ==
    {Outcome("Ok", "now"), Outcome("Err", "never"), Outcome("Err", "later")}
      \cup (IF op = "suspend" THEN {} ELSE {Outcome("Ok", "stopping")})

\* SupervisedBackend: suspend is the direct one; poweroff and reboot signal PID 1 and
\* return at once.
supervised(op) ==
    IF op = "suspend" THEN direct(op) ELSE {Outcome("Ok", "stopping"), Outcome("Err", "never")}

PowerBackendKind == {"MitosPower", "Direct", "Supervised"}

\* PowerBackendKind::make: the outcomes of operation op of a backend of this kind.
make(kind, op) ==
    CASE kind = "MitosPower" -> call(op)
      [] kind = "Direct" -> direct(op)
      [] kind = "Supervised" -> supervised(op)
====
