---- MODULE Connections ----
(***************************************************************************)
(* What main.rs relies on from the IPC layer: for each connection the event *)
(* loop handles one Connected, then its commands, then at most one          *)
(* Disconnected, and only connections in between are in the ConnRegistry.   *)
(* Daemon.tla is written against this contract.                             *)
(***************************************************************************)
EXTENDS Naturals

CONSTANT Conn

VARIABLES
    conns,      \* connection -> not yet, currently, or no longer connected
    registry,   \* ConnRegistry: the connections with an outbox
    handled     \* connection -> number of commands handled

vars == <<conns, registry, handled>>

Init ==
    /\ conns = [c \in Conn |-> "new"]
    /\ registry = {}
    /\ handled = [c \in Conn |-> 0]

Connected(c) ==
    /\ conns[c] = "new"
    /\ conns' = [conns EXCEPT ![c] = "open"]
    /\ registry' = registry \cup {c}
    /\ UNCHANGED handled

Command(c) ==
    /\ conns[c] = "open"
    /\ handled' = [handled EXCEPT ![c] = @ + 1]
    /\ UNCHANGED <<conns, registry>>

\* handle_compositor_exit takes a connection out of the registry while it is open.
Unregistered(c) ==
    /\ conns[c] = "open"
    /\ registry' = registry \ {c}
    /\ UNCHANGED <<conns, handled>>

Disconnected(c) ==
    /\ conns[c] = "open"
    /\ conns' = [conns EXCEPT ![c] = "gone"]
    /\ registry' = registry \ {c}
    /\ UNCHANGED handled

Next == \E c \in Conn : Connected(c) \/ Command(c) \/ Unregistered(c) \/ Disconnected(c)

Spec == Init /\ [][Next]_vars
====
