---- MODULE Authentication ----
(***************************************************************************)
(* The attempt-counting credential check of authentication/authenticator.rs *)
(* that both the lock screen and the elevation prompts go through.  Whether *)
(* PAM accepts a credential is the environment's choice; what the daemon    *)
(* does with the answer is not.                                             *)
(***************************************************************************)
EXTENDS Naturals

\* authentication/result.rs, AuthOutcome without its payloads.
AuthOutcome == {"Success", "Failure", "LockedOut", "Error", "Cancelled"}

\* The outcome of one credential check and the attempt counter after it.
\* A PAM error counts as a wrong guess, exactly like a refused password.
check(valid, attempts_so_far, max_attempts) ==
    IF valid
    THEN [outcome |-> "Success", attempts |-> 0]
    ELSE [outcome  |-> IF attempts_so_far + 1 >= max_attempts
                       THEN "LockedOut" ELSE "Failure",
          attempts |-> attempts_so_far + 1]
====
