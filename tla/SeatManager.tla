---- MODULE SeatManager ----
(***************************************************************************)
(* seat/manager.rs: which session has each seat, and who queues behind it.  *)
(*                                                                          *)
(* A seat nobody has named yet behaves like an empty one (switch_active     *)
(* fails on both, active_session yields no session on both), so the map is  *)
(* total and ensure_seat needs no step of its own.                          *)
(***************************************************************************)
EXTENDS Naturals, Sequences, Functions

CONSTANTS
    Session,    \* session ids
    SeatId,
    NoSession   \* active_session = None

VARIABLE seats  \* seat -> active session and queue of the others, oldest first

ASSUME NoSessionAssumption == NoSession \notin Session

Init == seats = [seat \in SeatId |-> [active |-> NoSession, queued |-> <<>>]]

has_session(seat, s) == seats[seat].active = s \/ s \in Range(seats[seat].queued)

\* Every session a seat knows of.
SessionsOn(seat) ==
    {s \in Session : has_session(seat, s)}

----------------------------------------------------------------------------

\* A faulty attach_session that always takes the seat over.
attach_session_taking_over(seat, s) ==
    seats' = [seats EXCEPT ![seat].active = s]

attach_session(seat, s) ==
    LET held == seats[seat]
    IN  seats' = IF held.active = NoSession THEN [seats EXCEPT ![seat].active = s]
                 ELSE [seats EXCEPT ![seat].queued = Append(@, s)]

\* retain(|t| t != s): kept[i] is what it keeps of the first i entries.
without(queue, s) ==
    LET kept[i \in 0..Len(queue)] ==
            IF i = 0 THEN <<>>
            ELSE IF queue[i] = s THEN kept[i - 1] ELSE Append(kept[i - 1], queue[i])
    IN  kept[Len(queue)]

\* A faulty detach_session that leaves the seat empty instead of promoting.
detach_session_no_promotion(s) ==
    seats' = [seat \in SeatId |->
                IF seats[seat].active = s
                THEN [seats[seat] EXCEPT !.active = NoSession]
                ELSE [seats[seat] EXCEPT !.queued = without(@, s)]]

\* detach_session looks at every seat; the front of the queue is promoted.
detach_session(s) ==
    seats' = [seat \in SeatId |->
                LET q == seats[seat].queued
                IN  IF seats[seat].active # s
                    THEN [seats[seat] EXCEPT !.queued = without(q, s)]
                    ELSE IF q = <<>>
                    THEN [seats[seat] EXCEPT !.active = NoSession]
                    ELSE [active |-> Head(q), queued |-> Tail(q)]]

\* A faulty switch_active that does not take the session out of the queue.
switch_active_keeping(seat, s) ==
    /\ has_session(seat, s)
    /\ seats' = [seats EXCEPT ![seat] =
                   IF @.active = s THEN @
                   ELSE [active |-> s, queued |-> Append(@.queued, @.active)]]

\* A faulty switch_active that puts the outgoing session at the front of the queue
\* and the first of the queue at its end.
switch_active_rotating(seat, s) ==
    /\ has_session(seat, s)
    /\ seats' = [seats EXCEPT ![seat] =
                   IF @.active = s THEN @
                   ELSE LET q == without(@.queued, s)
                        IN  [active |-> s,
                             queued |-> <<@.active>> \o
                                        (IF q = <<>> THEN q ELSE Append(Tail(q), Head(q)))]]

\* A faulty switch_active that accepts any session and queues whatever was active.
switch_active_unchecked(seat, s) ==
    seats' = [seats EXCEPT ![seat] =
                IF @.active = s THEN @
                ELSE [active |-> s, queued |-> without(Append(@.queued, @.active), s)]]

\* switch_active: an unknown session is an error, the active one changes nothing.
switch_active(seat, s) ==
    /\ has_session(seat, s)
    /\ seats' = [seats EXCEPT ![seat] =
                   IF @.active = s THEN @
                   ELSE [active |-> s,
                         queued |-> without(IF @.active = NoSession THEN @.queued
                                            ELSE Append(@.queued, @.active), s)]]

\* Only a session that has just been created is attached: it is on no seat yet.
Next ==
    \/ \E seat \in SeatId, s \in Session :
          /\ \A other \in SeatId : ~has_session(other, s)
          /\ attach_session(seat, s)
    \/ \E s \in Session : detach_session(s)
    \/ \E seat \in SeatId, s \in Session : switch_active(seat, s)

Spec == Init /\ [][Next]_seats

----------------------------------------------------------------------------

TypeOK ==
    seats \in [SeatId -> [active : Session \cup {NoSession}, queued : Seq(Session)]]

\* No session is on two seats, twice in a queue, or both active and queued: a second
\* login, logout and switch can never leave a ghost entry that a later logout would
\* promote.
EverySessionHasOnePlace ==
    /\ \A seat \in SeatId :
          /\ IsInjective(seats[seat].queued)
          /\ seats[seat].active \notin Range(seats[seat].queued)
    /\ \A a, b \in SeatId : a # b => SessionsOn(a) \cap SessionsOn(b) = {}

\* Nobody queues for a seat that is free: a logout always hands the seat on.
NoQueueForAFreeSeat ==
    \A seat \in SeatId : seats[seat].active = NoSession => seats[seat].queued = <<>>

\* Position of a session in a seat's queue.
place(queue, s) == CHOOSE i \in DOMAIN queue : queue[i] = s

\* Sessions that stay in a queue keep their order: switch_active and detach_session
\* never let one waiting session overtake another.
NobodyOvertakes ==
    [][\A seat \in SeatId : \A s, t \in Session :
          LET q == seats[seat].queued
              r == seats'[seat].queued
          IN  /\ s \in Range(q) /\ t \in Range(q)
              /\ s \in Range(r) /\ t \in Range(r)
              /\ place(q, s) < place(q, t)
              => place(r, s) < place(r, t)]_seats

\* A session leaves a seat only by detach_session, and then it alone leaves: no
\* login or switch drops another user's session from the seat.
OnlyDetachRemoves ==
    [][\A seat \in SeatId : \A s \in SessionsOn(seat) \ SessionsOn(seat)' :
          /\ detach_session(s)
          /\ \A other \in SeatId : SessionsOn(other) \ {s} = SessionsOn(other)']_seats
====
