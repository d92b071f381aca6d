---- MODULE Directories ----
(***************************************************************************)
(* user/home.rs and session/environment.rs: the two directories a login     *)
(* makes sure of.  To a user a path is                                      *)
(*   "missing",                                                             *)
(*   "foreign"  somebody else's, or no directory at all,                    *)
(*   "own"      a directory of the user.                                    *)
(* The daemon is root: what it has made but not yet chowned is root's.  Any *)
(* of its system calls may fail, and a failure undoes nothing.              *)
(***************************************************************************)

DirState == {"missing", "foreign", "own"}

\* The system call that fails during a login, if one does.
Fault == {"none", "home_create", "home_chown", "runtime_create", "runtime_chown"}

\* What fs::create_dir_all makes for a user.
created(for_root) == IF for_root THEN "own" ELSE "foreign"

\* ensure_home_ready: an existing home must be the user's own, a missing one is created
\* and, chmod and chown permitting, becomes the user's.
ensure_home_ready(dir, for_root, fault) ==
    IF dir # "missing" THEN [ok |-> dir = "own", dir |-> dir]
    ELSE IF fault = "home_create" THEN [ok |-> FALSE, dir |-> dir]
    ELSE IF fault = "home_chown" THEN [ok |-> FALSE, dir |-> created(for_root)]
    ELSE [ok |-> TRUE, dir |-> "own"]

\* A faulty ensure_runtime_dir that removes the directory when it cannot be set up.
ensure_runtime_dir_cleaning(dir, for_root, fault) ==
    IF fault = "runtime_create" THEN [ok |-> FALSE, dir |-> dir]
    ELSE IF fault = "runtime_chown" THEN [ok |-> FALSE, dir |-> "missing"]
    ELSE [ok |-> TRUE, dir |-> "own"]

\* ensure_runtime_dir: the directory, whoever had it, becomes the user's.
ensure_runtime_dir(dir, for_root, fault) ==
    IF fault = "runtime_create" THEN [ok |-> FALSE, dir |-> dir]
    ELSE IF fault = "runtime_chown"
         THEN [ok |-> FALSE, dir |-> IF dir = "missing" THEN created(for_root) ELSE dir]
    ELSE [ok |-> TRUE, dir |-> "own"]
====
