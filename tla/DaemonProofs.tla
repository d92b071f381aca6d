---- MODULE DaemonProofs ----
(***************************************************************************)
(* The Daemon uses its managers as their own proofs assume, so what is      *)
(* proved of them holds of the daemon; and what the managers know of        *)
(* sessions agrees.                                                         *)
(***************************************************************************)
EXTENDS DaemonClientProofs, TLAPS

----------------------------------------------------------------------------
(* The calls of the managers.                                               *)

\* Every handler makes one call of the elevation manager, or none.
LEMMA ElevationCalls ==
    ASSUME SessionInv, [Next]_vars
    PROVE  [E!Next]_(E!vars)
<1> USE DEF E!vars, elevationVars
<1>1. settings.elevation \in {st.elevation : st \in Settings}
  BY DEF SessionInv
<1>2. CASE ConnectionSteps
  BY <1>2 DEF ConnectionSteps, Connected, Disconnected, E!Next
<1>3. CASE SessionRequests
  <2>1. ASSUME NEW c \in Conn, NEW s \in Session, TerminateSession(c, s) PROVE E!Next
    <3>1. E!abandon_session(s)
      BY <2>1 DEF TerminateSession
    <3> QED BY <3>1 DEF E!Next
  <2>2. ASSUME NEW c \in Conn, NEW s \in Session, RegisterCompositor(c, s) PROVE UNCHANGED E!vars
    BY <2>2 DEF RegisterCompositor
  <2>3. ASSUME NEW c \in Conn, NEW uid, NEW seat, NEW graphical, NEW fault, NEW spawn_fault,
               CreateSession(c, uid, seat, graphical, fault, spawn_fault)
        PROVE  UNCHANGED E!vars
    BY <2>3 DEF CreateSession
  <2> QED BY <1>3, <2>1, <2>2, <2>3 DEF SessionRequests
<1>4. CASE ElevationRequests
  <2>1. ASSUME NEW c \in Conn, NEW s \in Session, RequestElevation(c, s) PROVE E!Next
    <3>1. /\ E!begin(s, sessions[s].compositor_conn, c, settings.elevation)
          /\ s \in DOMAIN sessions /\ sessions[s].compositor_conn # NoConn
      BY <2>1 DEF RequestElevation
    <3>2. sessions[s].compositor_conn \in Conn
      BY <3>1 DEF SessionInv, GoodContext, SessionContext
    <3> QED BY <1>1, <3>1, <3>2 DEF E!Next
  <2>2. ASSUME NEW c \in Conn, NEW id \in RequestId, NEW valid \in BOOLEAN,
               RespondPassword(c, id, valid)
        PROVE  E!Next
    BY <1>1, <2>2 DEF RespondPassword, E!Next, E!RequestId, RequestId
  <2>3. ASSUME NEW c \in Conn, NEW id \in RequestId, RespondCancelled(c, id) PROVE E!Next
    BY <2>3 DEF RespondCancelled, E!Next, E!RequestId, RequestId
  <2> QED BY <1>4, <2>1, <2>2, <2>3 DEF ElevationRequests
<1>5. CASE TimerSteps
  BY <1>5, Zenon DEF TimerSteps, time_passes, timer_fires, on_idle_tick, E!Next
<1>6. CASE CompositorSteps
  BY <1>6 DEF CompositorSteps, compositor_exits, reap_children
<1>7. CASE SwitchRequests \/ LockRequests
  BY <1>7, Zenon DEF SwitchRequests, LockRequests, SwitchSession, LockSession, Unlock
<1>8. CASE InhibitRequests \/ ActivityReports
  BY <1>8 DEF InhibitRequests, ActivityReports, Inhibit, ReleaseInhibit, ReportActivity
<1>9. CASE SuspendRequests \/ PowerDownRequests
  BY <1>9, Zenon DEF SuspendRequests, PowerDownRequests, Suspend, Reboot, PowerOff
<1>10. CASE Reloads \/ Terminate \/ loop_ends
  BY <1>10 DEF Reloads, ReloadConfig, Terminate, loop_ends
<1>11. CASE MachineSteps \/ UNCHANGED vars
  BY <1>11 DEF MachineSteps, wakes, transition_lands, vars
<1> QED BY <1>2, <1>3, <1>4, <1>5, <1>6, <1>7, <1>8, <1>9, <1>10, <1>11 DEF Next

\* The daemon uses the elevation manager as its specification allows.
THEOREM UsesElevation == Spec => E!Spec
<1>1. Init => E!Init
  BY DEF Init
<1>2. SessionInv /\ [Next]_vars => [E!Next]_(E!vars)
  BY ElevationCalls
<1> QED BY <1>1, <1>2, Invariance, PTL DEF Spec, E!Spec

\* Every handler makes one call of the idle detector, or none.
LEMMA IdleCalls ==
    ASSUME SessionInv, [Next]_vars
    PROVE  [Idle!IdleNext]_(Idle!idle_vars)
<1> USE DEF Idle!idle_vars, idleVars
<1>1. settings.idle \in {st.idle : st \in Settings}
  BY DEF SessionInv
<1>2. CASE TimerSteps
  BY <1>1, <1>2, Zenon DEF TimerSteps, time_passes, timer_fires, on_idle_tick, Idle!IdleNext
<1>3. CASE ActivityReports
  BY <1>3 DEF ActivityReports, ReportActivity, Idle!IdleNext
<1>4. CASE ConnectionSteps \/ SwitchRequests
  BY <1>4, Zenon DEF ConnectionSteps, Connected, Disconnected, SwitchRequests, SwitchSession
<1>5. CASE SessionRequests
  <2>1. ASSUME NEW c, NEW uid, NEW seat, NEW graphical, NEW fault, NEW spawn_fault,
               CreateSession(c, uid, seat, graphical, fault, spawn_fault)
        PROVE  UNCHANGED idleVars
    BY <2>1 DEF CreateSession
  <2>2. ASSUME NEW c, NEW s, TerminateSession(c, s) \/ RegisterCompositor(c, s)
        PROVE  UNCHANGED idleVars
    BY <2>2 DEF TerminateSession, RegisterCompositor
  <2> QED BY <1>5, <2>1, <2>2 DEF SessionRequests
<1>6. CASE LockRequests \/ InhibitRequests
  BY <1>6, Zenon DEF LockRequests, LockSession, Unlock, InhibitRequests, Inhibit, ReleaseInhibit
<1>7. CASE SuspendRequests \/ PowerDownRequests
  BY <1>7, Zenon DEF SuspendRequests, PowerDownRequests, Suspend, Reboot, PowerOff
<1>8. CASE ElevationRequests
  BY <1>8, Zenon DEF ElevationRequests, RequestElevation, RespondCancelled, RespondPassword
<1>9. CASE CompositorSteps
  BY <1>9 DEF CompositorSteps, compositor_exits, reap_children
<1>10. CASE Reloads \/ Terminate \/ loop_ends
  BY <1>10 DEF Reloads, ReloadConfig, Terminate, loop_ends
<1>11. CASE MachineSteps \/ UNCHANGED vars
  BY <1>11 DEF MachineSteps, wakes, transition_lands, vars
<1> QED BY <1>2, <1>3, <1>4, <1>5, <1>6, <1>7, <1>8, <1>9, <1>10, <1>11 DEF Next

----------------------------------------------------------------------------
(* Sessions and their places.                                               *)

\* The sessions on a seat.
On(seat) == Seats!SessionsOn(seat)

\* What a login, a logout and the other steps make of them.
PlacesStep ==
    /\ LogsIn => \E seat \in SeatId :
                    /\ On(seat)' = On(seat) \cup {next_session}
                    /\ \A x \in SeatId \ {seat} : On(x)' = On(x)
    /\ \A s \in Session : LogsOut(s) => \A x \in SeatId : On(x)' = On(x) \ {s}
    /\ Switches \/ Stays \/ EndsAll => \A x \in SeatId : On(x)' = On(x)

\* Only ids handed out before are on a seat, and every session is.
PlacesInv ==
    /\ \A seat \in SeatId : On(seat) \subseteq 1..(next_session - 1)
    /\ \A s \in DOMAIN sessions : \E seat \in SeatId : s \in On(seat)

\* A new id is on no seat.
LEMMA NewIdIsNowhere ==
    ASSUME LoginInv, PlacesInv, next_session \in Session
    PROVE  \A seat \in SeatId : ~Seats!has_session(seat, next_session)
BY DEF LoginInv, PlacesInv, On, Seats!SessionsOn

\* Every such step keeps PlacesInv.
LEMMA PlacesSteps ==
    ASSUME LoginInv, PlacesInv, PlacesStep, [Next]_vars
    PROVE  PlacesInv'
<1>1. /\ next_session \in Nat
      /\ \A seat \in SeatId : On(seat) \subseteq 1..(next_session - 1)
      /\ \A s \in DOMAIN sessions : \E seat \in SeatId : s \in On(seat)
      /\ DOMAIN sessions \subseteq 1..(next_session - 1)
  BY DEF LoginInv, PlacesInv
<1>2. CASE LogsIn
  <2>1. PICK seat \in SeatId : /\ On(seat)' = On(seat) \cup {next_session}
                               /\ \A x \in SeatId \ {seat} : On(x)' = On(x)
    BY <1>2 DEF PlacesStep
  <2>2. /\ next_session' = next_session + 1
        /\ DOMAIN sessions' = DOMAIN sessions \cup {next_session}
        /\ next_session \in 1..(next_session' - 1)
        /\ 1..(next_session - 1) \subseteq 1..(next_session' - 1)
    BY <1>1, <1>2 DEF LogsIn, Session
  <2>3. \A x \in SeatId : On(x)' \subseteq 1..(next_session' - 1)
    BY <1>1, <2>1, <2>2
  <2>4. \A s \in DOMAIN sessions' : \E x \in SeatId : s \in On(x)'
    BY <1>1, <2>1, <2>2
  <2> QED BY <2>3, <2>4 DEF PlacesInv
<1>3. ASSUME NEW s \in Session, LogsOut(s) PROVE PlacesInv'
  <2>1. \A x \in SeatId : On(x)' = On(x) \ {s}
    BY <1>3 DEF PlacesStep
  <2> QED BY <1>1, <1>3, <2>1 DEF PlacesInv, LogsOut
<1>4. CASE Switches \/ Stays \/ EndsAll
  <2>1. \A x \in SeatId : On(x)' = On(x)
    BY <1>4 DEF PlacesStep
  <2>2. /\ DOMAIN sessions' \subseteq DOMAIN sessions
        /\ 1..(next_session - 1) \subseteq 1..(next_session' - 1)
    BY <1>1, <1>4 DEF Switches, Stays, EndsAll, Session
  <2> QED BY <1>1, <2>1, <2>2 DEF PlacesInv
<1> QED BY <1>2, <1>3, <1>4, SeatingSteps

\* Until the daemon is told to exit, whoever is on a seat or has an open request exists.
DanglingInv ==
    ~should_exit => /\ \A seat \in SeatId : On(seat) \subseteq DOMAIN sessions
                    /\ \A id \in DOMAIN pending : pending[id].session \in DOMAIN sessions

\* The daemon does not change its mind about exiting.
LEMMA ExitStays ==
    ASSUME [Next]_vars, ~should_exit'
    PROVE  ~should_exit
<1>1. CASE SuspendRequests
  BY <1>1 DEF SuspendRequests, Suspend
<1>2. CASE PowerDownRequests
  BY <1>2, Zenon DEF PowerDownRequests, Reboot, PowerOff
<1>3. CASE timer_fires
  BY <1>3 DEF timer_fires, on_idle_tick
<1>4. CASE MachineSteps
  BY <1>4 DEF MachineSteps, wakes, transition_lands
<1> QED BY <1>1, <1>2, <1>3, <1>4, PowerUntouched, Zenon

\* The requests that are open after a step are about sessions that existed before it.
LEMMA RequestsOfSessions ==
    ASSUME RequestInv, [Next]_vars,
           \A id \in DOMAIN pending : pending[id].session \in DOMAIN sessions
    PROVE  \A id \in DOMAIN pending' : pending'[id].session \in DOMAIN sessions
<1> SUFFICES ASSUME NEW id \in DOMAIN pending' PROVE pending'[id].session \in DOMAIN sessions
  OBVIOUS
<1>1. CASE id \in DOMAIN pending /\ pending'[id] = pending[id]
  BY <1>1
<1>2. CASE \E ids : Closes(ids)
  BY <1>1, <1>2 DEF Closes
<1>3. ASSUME NEW c \in Conn, Opens(c) PROVE pending'[id].session \in DOMAIN sessions
  <2>1. id = next_request' \/ (id \in DOMAIN pending /\ pending'[id] = pending[id])
    BY <1>3 DEF Opens
  <2>2. \E s \in DOMAIN sessions : pending'[next_request'].session = s
    BY <1>3 DEF Opens
  <2> QED BY <1>1, <2>1, <2>2
<1> QED BY <1>2, <1>3, StepsOpenOrClose

\* Every step but a Reboot or PowerOff keeps DanglingInv.
LEMMA DanglingInvSteps ==
    ASSUME RequestInv, PlacesStep, DanglingInv, [Next]_vars, ~PowerDownRequests
    PROVE  DanglingInv'
<1> SUFFICES ASSUME ~should_exit'
             PROVE  /\ \A seat \in SeatId : On(seat)' \subseteq DOMAIN sessions'
                    /\ \A id \in DOMAIN pending' : pending'[id].session \in DOMAIN sessions'
  BY DEF DanglingInv
<1>1. /\ \A seat \in SeatId : On(seat) \subseteq DOMAIN sessions
      /\ \A id \in DOMAIN pending' : pending'[id].session \in DOMAIN sessions
  BY ExitStays, RequestsOfSessions DEF DanglingInv
<1>2. CASE LogsIn
  <2>1. PICK seat \in SeatId : /\ On(seat)' = On(seat) \cup {next_session}
                               /\ \A x \in SeatId \ {seat} : On(x)' = On(x)
    BY <1>2 DEF PlacesStep
  <2> QED BY <1>1, <1>2, <2>1 DEF LogsIn
<1>3. ASSUME NEW s \in Session, LogsOut(s)
      PROVE  /\ \A seat \in SeatId : On(seat)' \subseteq DOMAIN sessions'
             /\ \A id \in DOMAIN pending' : pending'[id].session \in DOMAIN sessions'
  <2>1. \A x \in SeatId : On(x)' = On(x) \ {s}
    BY <1>3 DEF PlacesStep
  <2> QED BY <1>1, <1>3, <2>1 DEF LogsOut
<1>4. CASE Switches \/ Stays
  <2>1. (\A x \in SeatId : On(x)' = On(x)) /\ DOMAIN sessions' = DOMAIN sessions
    BY <1>4 DEF PlacesStep, Switches, Stays
  <2> QED BY <1>1, <2>1
<1>5. ~EndsAll
  BY DEF EndsAll
<1> QED BY <1>2, <1>3, <1>4, <1>5, SeatingSteps

\* A step that changes nothing keeps it, too.
LEMMA DanglingStays ==
    ASSUME DanglingInv, UNCHANGED vars
    PROVE  DanglingInv'
<1>1. \A seat : On(seat)' = On(seat)
  BY DEF On, Seats!SessionsOn, Seats!has_session, vars
<1>2. UNCHANGED <<sessions, pending, should_exit>>
  BY DEF vars, sessionVars, elevationVars, controlVars
<1> QED BY <1>1, <1>2 DEF DanglingInv

\* It is NoDanglingSession, and a little more.
LEMMA NothingDangles == DanglingInv => NoDanglingSession
BY DEF DanglingInv, NoDanglingSession, On, Seats!SessionsOn

----------------------------------------------------------------------------
(* Seats.                                                                   *)

\* The theorems of the seat manager and the idle detector, about the daemon's instances.
SP == INSTANCE SeatProofs WITH Seat <- SeatId, Policy <- {st.idle : st \in Settings}

\* What they assume of their constants holds of the daemon's.
LEMMA SeatAssumptions ==
    /\ NoSession \notin Session
    /\ MaxIdle \in Nat /\ {st.idle : st \in Settings} \subseteq SP!IdlePolicy
BY NobodyAssumption, SettingsAssumption, BoundsAssumption DEF SP!IdlePolicy, Idle!IdlePolicy

\* The inductive invariant of the seats.
SeatInv == SP!IInv /\ PlacesInv

\* The two instances have the same operations.
LEMMA SameSeats ==
    /\ \A seat, s : Seats!attach_session(seat, s) <=> SP!attach_session(seat, s)
    /\ \A s : Seats!detach_session(s) <=> SP!detach_session(s)
    /\ \A seat, s : Seats!switch_active(seat, s) <=> SP!switch_active(seat, s)
    /\ \A seat, s : Seats!has_session(seat, s) <=> SP!has_session(seat, s)
<1>1. \A q, s : SP!without(q, s) = Seats!without(q, s)
  BY DEF SP!without, Seats!without
<1>2. \A q : SP!Range(q) = Seats!Range(q)
  BY DEF SP!Range, Seats!Range
<1>3. \A seat, s : SP!has_session(seat, s) <=> Seats!has_session(seat, s)
  BY <1>2 DEF SP!has_session, Seats!has_session
<1>4. \A seat, s : Seats!attach_session(seat, s) <=> SP!attach_session(seat, s)
  BY DEF Seats!attach_session, SP!attach_session
<1>5. \A s : Seats!detach_session(s) <=> SP!detach_session(s)
  BY <1>1 DEF Seats!detach_session, SP!detach_session
<1>6. \A seat, s : Seats!switch_active(seat, s) <=> SP!switch_active(seat, s)
  BY <1>1, <1>3 DEF Seats!switch_active, SP!switch_active
<1> QED BY <1>3, <1>4, <1>5, <1>6

\* A step of the daemon is one of the seat manager, with the effect this has on places.
LEMMA SeatSteps ==
    ASSUME LoginInv, SeatInv, [Next]_vars
    PROVE  PlacesStep /\ [SP!Next]_seats
<1>1. SP!IInv
  BY DEF SeatInv
<1>2. \A x : /\ On(x) = SP!Holds(seats[x])
             /\ On(x)' = SP!Holds(seats'[x])
  BY DEF On, Seats!SessionsOn, Seats!has_session, SP!Holds, SP!Range, Seats!Range
<1>3. ASSUME LogsIn
      PROVE  /\ SP!Next
             /\ \E seat \in SeatId : /\ On(seat)' = On(seat) \cup {next_session}
                                     /\ \A x \in SeatId \ {seat} : On(x)' = On(x)
  <2>1. PICK seat \in SeatId : SP!attach_session(seat, next_session) /\ next_session \in Session
    BY <1>3, SameSeats DEF LogsIn
  <2>2. \A x \in SeatId : ~SP!has_session(x, next_session)
    BY <2>1, NewIdIsNowhere, SameSeats DEF SeatInv
  <2>3. SP!Next
    BY <2>1, <2>2 DEF SP!Next
  <2> QED BY <1>1, <1>2, <2>1, <2>2, <2>3, SeatAssumptions, SP!AttachAdds
<1>4. ASSUME NEW s \in Session, LogsOut(s)
      PROVE  SP!Next /\ \A x \in SeatId : On(x)' = On(x) \ {s}
  <2>1. SP!detach_session(s)
    BY <1>4, SameSeats DEF LogsOut
  <2> QED BY <1>1, <1>2, <2>1, SeatAssumptions, SP!DetachTakes DEF SP!Next
<1>5. ASSUME Switches PROVE SP!Next /\ \A x \in SeatId : On(x)' = On(x)
  <2>1. PICK seat \in SeatId, s \in Session : SP!switch_active(seat, s)
    BY <1>5, SameSeats DEF Switches
  <2> QED BY <1>1, <1>2, <2>1, SeatAssumptions, SP!SwitchKeeps DEF SP!Next
<1>6. ASSUME Stays \/ EndsAll PROVE UNCHANGED seats /\ \A x \in SeatId : On(x)' = On(x)
  BY <1>2, <1>6 DEF Stays, EndsAll
<1> QED BY <1>3, <1>4, <1>5, <1>6, SeatingSteps DEF PlacesStep

\* At first nobody is anywhere.
LEMMA SeatsAtFirst ==
    ASSUME Init
    PROVE  SeatInv /\ DanglingInv
<1>1. SP!Init /\ DOMAIN sessions = {} /\ DOMAIN pending = {}
  BY DEF Init, Seats!Init, SP!Init, E!Init
<1>2. SP!IInv /\ \A seat \in SeatId : SP!Holds(seats[seat]) = {}
  BY <1>1, SP!InitialEntries, SeatAssumptions
<1>3. \A seat \in SeatId : On(seat) = {}
  BY <1>2 DEF On, Seats!SessionsOn, Seats!has_session, SP!Holds, SP!Range, Seats!Range
<1> QED BY <1>1, <1>2, <1>3 DEF SeatInv, PlacesInv, DanglingInv

\* The seats invariant holds of every behaviour of the daemon.
THEOREM SeatsInvariant == Spec => []SeatInv
<1>1. Init => SeatInv
  BY SeatsAtFirst
<1>2. ASSUME LoginInv, SeatInv, [Next]_vars PROVE SeatInv'
  <2>1. PlacesStep /\ [SP!Next]_seats /\ SP!IInv /\ PlacesInv
    BY <1>2, SeatSteps DEF SeatInv
  <2>2. SP!Next => SP!IInv'
    BY <2>1, SP!StepEffect, SeatAssumptions
  <2>3. UNCHANGED seats => SP!IInv'
    BY <2>1 DEF SP!IInv, SP!TypeOK
  <2>4. PlacesInv'
    BY <1>2, <2>1, PlacesSteps
  <2> QED BY <2>1, <2>2, <2>3, <2>4 DEF SeatInv
<1> QED BY <1>1, <1>2, LoginInvariant, PTL DEF Spec

\* The daemon uses the seat manager as its specification allows: it attaches a session once,
\* when it is new.
THEOREM UsesSeats == Spec => Seats!Spec
<1>1. Init => Seats!Init
  BY DEF Init
<1>2. ASSUME SP!Next PROVE Seats!Next
  BY <1>2, Zenon DEF SP!Next, Seats!Next, SP!attach_session, Seats!attach_session,
              SP!detach_session, Seats!detach_session, SP!switch_active, Seats!switch_active,
              SP!has_session, Seats!has_session, SP!without, Seats!without, SP!Range, Seats!Range
<1>3. LoginInv /\ SeatInv /\ [Next]_vars => [Seats!Next]_seats
  BY <1>2, SeatSteps
<1> QED BY <1>1, <1>3, LoginInvariant, SeatsInvariant, PTL DEF Spec, Seats!Spec

\* So no session is ever in two places, and nobody queues for a free seat.
THEOREM SeatGuarantees ==
    Spec => [](Seats!TypeOK /\ Seats!EverySessionHasOnePlace /\ Seats!NoQueueForAFreeSeat)
<1>1. Seats!Spec => SP!Spec
  BY PTL DEF Seats!Spec, SP!Spec, Seats!Init, SP!Init, SP!Next, Seats!Next,
             SP!attach_session, Seats!attach_session, SP!detach_session, Seats!detach_session,
             SP!switch_active, Seats!switch_active, SP!has_session, Seats!has_session,
             SP!without, Seats!without, SP!Range, Seats!Range
<1>2. SP!Spec => [](SP!TypeOK /\ SP!EverySessionHasOnePlace /\ SP!NoQueueForAFreeSeat)
  BY SP!TypeCorrect, SP!OnePlace, SP!FreeSeatsHaveNoQueue, SeatAssumptions, PTL
<1>3. SP!TypeOK /\ SP!EverySessionHasOnePlace /\ SP!NoQueueForAFreeSeat
        => Seats!TypeOK /\ Seats!EverySessionHasOnePlace /\ Seats!NoQueueForAFreeSeat
  BY DEF SP!TypeOK, Seats!TypeOK, SP!NoQueueForAFreeSeat, Seats!NoQueueForAFreeSeat,
         SP!EverySessionHasOnePlace, Seats!EverySessionHasOnePlace, SP!SessionsOn,
         Seats!SessionsOn, SP!has_session, Seats!has_session, SP!IsInjective,
         Seats!IsInjective, SP!Range, Seats!Range
<1> QED BY <1>1, <1>2, <1>3, UsesSeats, PTL

\* Every session the daemon knows is on a seat.
THEOREM SessionsSeated == Spec => []LiveSessionsAreSeated
<1>1. SessionInv /\ SeatInv => LiveSessionsAreSeated
  BY DEF SessionInv, SeatInv, PlacesInv, On, Seats!SessionsOn, LiveSessionsAreSeated
<1> QED BY <1>1, Invariance, SeatsInvariant, PTL

\* Until a Reboot or PowerOff is handled, no seat and no open request refers to a session
\* that is gone.
THEOREM SessionsExist ==
    Init /\ [][Next /\ ~PowerDownRequests]_vars => []NoDanglingSession
<1>1. RequestInv /\ LoginInv /\ SeatInv /\ DanglingInv /\ [Next /\ ~PowerDownRequests]_vars
        => DanglingInv'
  BY DanglingStays, DanglingInvSteps, SeatSteps
<1>2. [Next /\ ~PowerDownRequests]_vars => [Next]_vars
  OBVIOUS
<1>3. Init /\ [][Next /\ ~PowerDownRequests]_vars => Spec
  BY <1>2, PTL DEF Spec
<1>4. Init => DanglingInv
  BY SeatsAtFirst
<1> QED BY <1>1, <1>3, <1>4, NothingDangles, RequestsInvariant, LoginInvariant, SeatsInvariant, PTL

----------------------------------------------------------------------------
(* The idle detector.                                                       *)

\* The daemon dims, locks and suspends no seat early, whatever else happens between two
\* ticks.
THEOREM IdleGuarantees == Spec => [](SP!IdleInv /\ Idle!StagesAreEarned)
<1>1. Init => SP!IdleInv
  BY DEF Init, Idle!IdleInit, SP!IdleInv, SP!StagesAreEarned
<1>2. [Idle!IdleNext]_(Idle!idle_vars) => [SP!IdleNext]_(SP!idle_vars)
  BY Zenon DEF Idle!IdleNext, SP!IdleNext, Idle!idle_vars, SP!idle_vars,
         Idle!record_activity, SP!record_activity, Idle!tick, SP!tick,
         Idle!elapse_idle, SP!elapse_idle, Idle!stage_for, SP!stage_for,
         Idle!reaches, SP!reaches
<1>3. SP!IdleInv /\ [SP!IdleNext]_(SP!idle_vars) => SP!IdleInv'
  BY SeatAssumptions, SP!IdleNextKeepsIdleInv
<1>4. SessionInv /\ SP!IdleInv /\ [Next]_vars => SP!IdleInv'
  BY <1>2, <1>3, IdleCalls
<1>5. SP!IdleInv => Idle!StagesAreEarned
  BY Zenon DEF SP!IdleInv, SP!StagesAreEarned, Idle!StagesAreEarned
<1> QED BY <1>1, <1>4, <1>5, Invariance, PTL DEF Spec

----------------------------------------------------------------------------
(* The elevation manager.                                                   *)

\* The theorems of the elevation manager, about the daemon's instance of it.
EP == INSTANCE ElevationManagerProofs WITH
        Policy <- {st.elevation : st \in Settings},
        next_id <- next_request, session_auth <- elevation_auth,
        prompt_expiry <- prompt_timers, lockout_expiry <- elevation_lockouts

\* What ElevationManager assumes of its constants holds of the daemon's.
LEMMA ElevationAssumptions ==
    /\ {st.elevation : st \in Settings} \subseteq EP!ElevationPolicy
    /\ MaxAttempts \in Nat \ {0} /\ MaxPending \in Nat
    /\ \A p \in {st.elevation : st \in Settings} :
          /\ p.max_attempts <= MaxAttempts /\ p.max_pending_per_session <= MaxPending
    /\ MaxRequestId \in Nat
BY SettingsAssumption, BoundsAssumption DEF EP!ElevationPolicy, E!ElevationPolicy

\* The two instances are of one specification.
LEMMA SameElevation == E!Spec => EP!Spec
BY PTL DEF E!Spec, EP!Spec, E!Init, EP!Init, E!Next, EP!Next, E!vars, EP!vars,
    E!begin, EP!begin, E!begin_error, EP!begin_error, E!attempt, EP!attempt,
    E!cancel, EP!cancel, E!abandon_session, EP!abandon_session,
    E!abandon_connection, EP!abandon_connection, E!sweep, EP!sweep, E!tick, EP!tick,
    E!clear_expired_lockouts, EP!clear_expired_lockouts, E!expire_pending, EP!expire_pending,
    E!Forget, EP!Forget, E!PendingOf, EP!PendingOf, E!PendingOn, EP!PendingOn,
    E!RequestId, EP!RequestId, E!Restrict, EP!Restrict, E!check, EP!check,
    E!start, EP!start, E!expired, EP!expired, E!drain_expired, EP!drain_expired,
    E!elapse, EP!elapse, E!no_timers, EP!no_timers, E!Cardinality, EP!Cardinality

\* So every guarantee of the elevation manager is one of the daemon: each open prompt
\* and each lockout has its timer, and guesses are bounded.
THEOREM ElevationGuarantees ==
    Spec => [](E!TypeOK /\ E!EveryPromptIsTimed /\ E!EveryLockoutIsTimed /\ E!GuessBudget)
<1>1. EP!Spec => []EP!IInv
  BY EP!Invariance, ElevationAssumptions
<1>2. EP!IInv => E!TypeOK /\ E!EveryPromptIsTimed /\ E!EveryLockoutIsTimed /\ E!GuessBudget
  BY Zenon DEF EP!IInv, E!TypeOK, EP!TypeOK, E!EveryPromptIsTimed, EP!EveryPromptIsTimed,
         E!EveryLockoutIsTimed, EP!EveryLockoutIsTimed, E!GuessBudget, EP!GuessBudget,
         E!PendingOf, EP!PendingOf, E!PendingElevation, EP!PendingElevation,
         E!SessionElevationAuth, EP!SessionElevationAuth, E!Cardinality, EP!Cardinality
<1> QED BY <1>1, <1>2, SameElevation, UsesElevation, PTL

----------------------------------------------------------------------------
(* Types.                                                                   *)

\* The daemon's state keeps its types: the invariants above say it piece by piece.
THEOREM TypeCorrect == Spec => []TypeOK
<1>1. ASSUME SessionInv, LoginInv
      PROVE  /\ settings \in Settings /\ next_session \in 1..(MaxSessionId + 1)
             /\ home \in [Uid -> DirState] /\ runtime \in [Uid -> DirState]
             /\ DOMAIN sessions \subseteq 1..(next_session - 1)
             /\ sessions \in [DOMAIN sessions -> SessionContext]
  BY <1>1 DEF SessionInv, LoginInv, GoodContext
<1>2. ASSUME SP!IdleInv
      PROVE  /\ DOMAIN stage = DOMAIN idle_for /\ DOMAIN stage \subseteq SeatId
             /\ idle_for \in [DOMAIN stage -> 0..MaxIdle]
             /\ stage \in [DOMAIN stage -> Idle!IdleStage]
  BY <1>2 DEF SP!IdleInv, SP!IdleStage, Idle!IdleStage
<1>3. ASSUME RequestInv, ConnInv
      PROVE  /\ conns \in [Conn -> {"new", "open", "gone"}] /\ registry \subseteq Conn
             /\ lock_screens \subseteq Conn \X Session /\ prompts \subseteq Conn \X RequestId
             /\ replies \in [RequestId -> Seq(AuthOutcome)]
  <2>1. 1..next_request \subseteq RequestId
    BY <1>3, BoundsAssumption DEF RequestInv, RequestId
  <2>2. \A p \in prompts : p \in Conn \X (1..next_request)
    BY <1>3 DEF ConnInv
  <2> QED BY <1>3, <2>1, <2>2 DEF RequestInv, ConnInv, ScreenInv
<1>4. /\ SessionInv /\ LoginInv /\ PowerInv /\ RequestInv /\ ConnInv /\ SP!IdleInv
      /\ L!TypeOK /\ E!TypeOK /\ Seats!TypeOK
      => TypeOK
  BY <1>1, <1>2, <1>3 DEF TypeOK, PowerInv
<1> QED BY <1>4, Invariance, LoginInvariant, PowerInvariant, RequestsInvariant,
           ConnectionsInvariant, IdleGuarantees, LockoutsTimed, ElevationGuarantees,
           SeatGuarantees, PTL
====
