---- MODULE ElevationContract ----
(***************************************************************************)
(* What RequestElevation promises a requester that waits for its deferred   *)
(* reply: one reply when its request is closed, none before, none after;    *)
(* and silence only for a requester that has no outbox any more.            *)
(***************************************************************************)
CONSTANTS RequestId, Conn

VARIABLES
    phase,       \* request -> how far it has come
    requester,   \* waiting request -> the connection that waits
    outboxes     \* the connections a reply can be sent to

Waiting == {id \in RequestId : phase[id] = "waiting"}

Init ==
    /\ phase = [id \in RequestId |-> "unsent"]
    /\ requester = [id \in {} |-> id]
    /\ outboxes = {}

\* Connection c asks.
Ask(id, c) ==
    /\ phase[id] = "unsent"
    /\ phase' = [phase EXCEPT ![id] = "waiting"]
    /\ requester' = [i \in Waiting \cup {id} |-> IF i = id THEN c ELSE requester[i]]
    /\ UNCHANGED outboxes

\* Connections come and go and, at the same time, some requests are closed: answered,
\* cancelled, abandoned or timed out.
Close(closed) ==
    /\ outboxes' \in SUBSET Conn
    /\ requester' = [id \in Waiting \ closed |-> requester[id]]
    /\ phase' = [id \in RequestId |->
                   IF id \notin closed THEN phase[id]
                   ELSE IF requester[id] \in outboxes' THEN "replied" ELSE "dropped"]

Next ==
    \/ \E id \in RequestId, c \in Conn : Ask(id, c)
    \/ \E closed \in SUBSET Waiting : Close(closed)

Spec == Init /\ [][Next]_<<phase, requester, outboxes>>
====
