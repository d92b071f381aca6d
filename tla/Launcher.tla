---- MODULE Launcher ----
(***************************************************************************)
(* launcher/application.rs: a program is started for a user by a daemon     *)
(* that is root.  The child gives up root's supplementary groups, group and *)
(* user id, in this order, and each of the calls may fail.                  *)
(*                                                                          *)
(* Credentials are described by whose they are: the account that the uid,   *)
(* the gid and the supplementary groups belong to.                          *)
(***************************************************************************)

Credentials(Accounts) == [uid : Accounts, gid : Accounts, groups : Accounts]

\* The credentials of an account, all its own; a process that is not there has nobody's.
IdsOf(account) == [uid |-> account, gid |-> account, groups |-> account]

\* What goes wrong during a spawn: nothing, one of the three calls of the child, or
\* anything before or after them (the group lookup, fork, the working directory, exec).
SpawnFault == {"none", "groups", "gid", "uid", "elsewhere"}

\* setgroups, setgid or setuid in the child, which leaves it with these ids: it takes root's
\* uid to change any of them.  A call that fails ends the child.
set_ids(child, ids, root, fails) ==
    IF child.alive
    THEN [alive |-> ~fails /\ child.ids.uid = root, ids |-> ids]
    ELSE child

\* A faulty pre_exec hook that goes on without setgroups if that fails.
pre_exec_lenient(account, root, fault) ==
    LET forked  == [alive |-> TRUE, ids |-> IdsOf(root)]
        grouped == IF fault = "groups" THEN forked
                   ELSE set_ids(forked, [forked.ids EXCEPT !.groups = account], root, FALSE)
        gidded  == set_ids(grouped, [grouped.ids EXCEPT !.gid = account], root, fault = "gid")
    IN  set_ids(gidded, [gidded.ids EXCEPT !.uid = account], root, fault = "uid")

\* The pre_exec hook.
pre_exec(account, root, fault) ==
    LET forked  == [alive |-> TRUE, ids |-> IdsOf(root)]
        grouped == set_ids(forked, [forked.ids EXCEPT !.groups = account], root, fault = "groups")
        gidded  == set_ids(grouped, [grouped.ids EXCEPT !.gid = account], root, fault = "gid")
    IN  set_ids(gidded, [gidded.ids EXCEPT !.uid = account], root, fault = "uid")

\* Application::spawn: a process with the credentials the hook left it, or none.
spawn(account, root, fault) ==
    LET child == pre_exec(account, root, fault)
    IN  IF child.alive /\ fault # "elsewhere"
        THEN [process |-> "running", runs_as |-> child.ids]
        ELSE [process |-> "none", runs_as |-> IdsOf("nobody")]
====
