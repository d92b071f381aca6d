---- MODULE DaemonRequestProofs ----
(***************************************************************************)
(* The requests the Daemon hands out ids for.  Logins: every step logs a    *)
(* session in or out, or leaves the sessions there are alone.  Elevation:   *)
(* the daemon implements ElevationContract, a request is answered once,     *)
(* when it is closed.  RequestInv is inductive, and under it every step     *)
(* either asks or closes a (possibly empty) set of requests.                *)
(***************************************************************************)
EXTENDS Daemon, TLAPS

----------------------------------------------------------------------------
(* Logins, logouts and seats.                                               *)

\* Session ids are handed out in order.
LoginInv ==
    /\ next_session \in 1..(MaxSessionId + 1)
    /\ DOMAIN sessions \subseteq 1..(next_session - 1)

\* What a step may do to the sessions there are, and to the seats: a session logs in, ...
LogsIn ==
    /\ next_session \in Session /\ next_session' = next_session + 1
    /\ DOMAIN sessions' = DOMAIN sessions \cup {next_session}
    /\ \E seat \in SeatId : Seats!attach_session(seat, next_session)

\* ... or logs out, and its requests are withdrawn, ...
LogsOut(s) ==
    /\ next_session' = next_session
    /\ DOMAIN sessions' = DOMAIN sessions \ {s}
    /\ Seats!detach_session(s)
    /\ \A id \in DOMAIN pending' : pending'[id].session # s

\* ... a seat is switched, ...
Switches ==
    /\ next_session' = next_session /\ DOMAIN sessions' = DOMAIN sessions
    /\ \E seat \in SeatId, s \in Session : Seats!switch_active(seat, s)

\* ... nothing happens, but for a failed login that costs an id, ...
Stays ==
    /\ \/ next_session' = next_session
       \/ next_session \in Session /\ next_session' = next_session + 1
    /\ DOMAIN sessions' = DOMAIN sessions
    /\ seats' = seats

\* ... or every session is ended because machine or daemon will stop.
EndsAll ==
    /\ next_session' = next_session
    /\ DOMAIN sessions' = {}
    /\ seats' = seats
    /\ PowerDownRequests \/ should_exit'

\* Every step of the daemon is one of these.
LEMMA SeatingSteps ==
    ASSUME [Next]_vars
    PROVE  LogsIn \/ (\E s \in Session : LogsOut(s)) \/ Switches \/ Stays \/ EndsAll
<1> USE DEF vars, sessionVars, loginVars
<1>1. CASE SessionRequests
  <2>1. ASSUME NEW c, NEW uid, NEW seat \in SeatId, NEW graphical, NEW fault, NEW spawn_fault,
               CreateSession(c, uid, seat, graphical, fault, spawn_fault)
        PROVE  LogsIn \/ Stays
    BY <2>1 DEF CreateSession, with_session, LogsIn, Stays
  <2>2. ASSUME NEW c, NEW s \in Session, TerminateSession(c, s) PROVE LogsOut(s)
    <3>1. /\ DOMAIN sessions' = DOMAIN sessions \ {s} /\ Seats!detach_session(s)
          /\ next_session' = next_session /\ E!abandon_session(s)
      BY <2>2 DEF TerminateSession, terminated, Restrict
    <3>2. pending' = [id \in DOMAIN pending \ {i \in DOMAIN pending : pending[i].session = s}
                        |-> pending[id]]
      BY <3>1 DEF E!abandon_session, E!Forget, E!Restrict, E!PendingOf
    <3> QED BY <3>1, <3>2 DEF LogsOut
  <2>3. ASSUME NEW c, NEW s, RegisterCompositor(c, s) PROVE Stays
    BY <2>3 DEF RegisterCompositor, Stays
  <2> QED BY <1>1, <2>1, <2>2, <2>3 DEF SessionRequests
<1>2. CASE SwitchRequests
  BY <1>2 DEF SwitchRequests, SwitchSession, Switches
<1>3. CASE PowerDownRequests
  BY <1>3, Zenon DEF PowerDownRequests, Reboot, PowerOff, all_sessions_terminated, terminated, Restrict,
              EndsAll
<1>4. CASE Terminate
  BY <1>4 DEF Terminate, all_sessions_terminated, terminated, Restrict, EndsAll
<1>5. CASE ConnectionSteps
  BY <1>5 DEF ConnectionSteps, Connected, Disconnected, Stays
<1>6. CASE LockRequests
  BY <1>6 DEF LockRequests, LockSession, Unlock, transitioned, Stays
<1>7. CASE InhibitRequests \/ ActivityReports \/ time_passes
  BY <1>7 DEF InhibitRequests, ActivityReports, Inhibit, ReleaseInhibit, ReportActivity,
              time_passes, Stays
<1>8. CASE SuspendRequests \/ timer_fires
  BY <1>8, Zenon DEF SuspendRequests, Suspend, timer_fires, on_idle_tick, transitioned, Stays
<1>9. CASE ElevationRequests
  BY <1>9, Zenon DEF ElevationRequests, RequestElevation, RespondCancelled, RespondPassword, Stays
<1>10. CASE CompositorSteps
  BY <1>10 DEF CompositorSteps, compositor_exits, reap_children, Stays
<1>11. CASE Reloads \/ loop_ends \/ MachineSteps \/ UNCHANGED vars
  BY <1>11 DEF Reloads, ReloadConfig, loop_ends, MachineSteps, wakes, transition_lands, Stays
<1> QED BY <1>1, <1>2, <1>3, <1>4, <1>5, <1>6, <1>7, <1>8, <1>9, <1>10, <1>11 DEF Next, TimerSteps

\* Ids of sessions stay below the next one.
LEMMA LoginsInOrder ==
    ASSUME LoginInv, [Next]_vars
    PROVE  LoginInv'
<1>1. MaxSessionId \in Nat /\ Session = 1..MaxSessionId
  BY BoundsAssumption DEF Session
<1>2. \/ next_session' = next_session /\ DOMAIN sessions' \subseteq DOMAIN sessions
      \/ /\ next_session \in Session /\ next_session' = next_session + 1
         /\ DOMAIN sessions' \subseteq DOMAIN sessions \cup {next_session}
  BY SeatingSteps, Zenon DEF LogsIn, LogsOut, Switches, Stays, EndsAll
<1> QED BY <1>1, <1>2 DEF LoginInv

\* LoginInv is an invariant of the daemon.
THEOREM LoginInvariant == Spec => []LoginInv
<1>1. Init => LoginInv
  BY BoundsAssumption DEF Init, LoginInv
<1>2. LoginInv /\ UNCHANGED vars => LoginInv'
  BY DEF LoginInv, vars, sessionVars, loginVars
<1> QED BY <1>1, <1>2, LoginsInOrder, PTL DEF Spec

----------------------------------------------------------------------------
(* Requests for elevation.                                                  *)

\* Open requests have ids already handed out; nothing was sent for them yet, nor for ids
\* that are still to come.
RequestInv ==
    /\ next_request \in 0..MaxRequestId
    /\ registry \subseteq Conn
    /\ DOMAIN pending \subseteq 1..next_request
    /\ pending = [id \in DOMAIN pending |-> pending[id]]
    /\ replies \in [RequestId -> Seq(AuthOutcome)]
    /\ \A id \in RequestId : id \in DOMAIN pending \/ id > next_request => replies[id] = <<>>

\* A step that closes the requests ids: those of their compositors that have an outbox
\* afterwards take the prompt down, those of their requesters that have one are answered.
Closes(ids) ==
    /\ ids \subseteq DOMAIN pending
    /\ pending' = [id \in DOMAIN pending \ ids |-> pending[id]]
    /\ next_request' = next_request
    /\ registry' \subseteq Conn
    /\ prompts' = prompts \ {<<pending[id].compositor_conn, id>> :
                                id \in {i \in ids : pending[i].compositor_conn \in registry'}}
    /\ \E outcome \in AuthOutcome : replies' =
          [id \in RequestId |-> IF id \in ids /\ pending[id].requester_conn \in registry'
                                THEN Append(replies[id], outcome) ELSE replies[id]]

\* A step that opens request next_request + 1 of connection c, about a session with a
\* compositor, and shows its prompt there.
Opens(c) ==
    /\ next_request < MaxRequestId
    /\ next_request' = next_request + 1
    /\ DOMAIN pending' = DOMAIN pending \cup {next_request'}
    /\ pending' = [id \in DOMAIN pending' |-> pending'[id]]
    /\ conns[c] = "open"
    /\ \E s \in DOMAIN sessions :
          /\ sessions[s].compositor_conn # NoConn
          /\ pending'[next_request'] =
                [session |-> s, compositor_conn |-> sessions[s].compositor_conn,
                 requester_conn |-> c]
    /\ \A id \in DOMAIN pending : id # next_request' => pending'[id] = pending[id]
    /\ prompts' = prompts \cup
          ({pending'[next_request'].compositor_conn} \cap registry) \X {next_request'}
    /\ UNCHANGED <<registry, replies>>

----------------------------------------------------------------------------
(* The two kinds of steps.                                                  *)

\* What the contract calls waiting are the open requests.
LEMMA WaitingArePending ==
    ASSUME RequestInv
    PROVE  DOMAIN pending \subseteq RequestId /\ Contract!Waiting = DOMAIN pending
<1>1. DOMAIN pending \subseteq RequestId
  BY BoundsAssumption DEF RequestInv, RequestId
<1>2. ASSUME NEW id \in RequestId PROVE phase[id] = "waiting" <=> id \in DOMAIN pending
  BY <1>2 DEF RequestInv, phase
<1> QED BY <1>1, <1>2 DEF Contract!Waiting

\* Closing keeps the invariant and is a Close of the contract.
LEMMA ClosingSteps ==
    ASSUME RequestInv, NEW ids, Closes(ids)
    PROVE  RequestInv' /\ Contract!Close(ids)
<1>1. PICK outcome \in AuthOutcome : replies' =
          [id \in RequestId |-> IF id \in ids /\ pending[id].requester_conn \in registry'
                                THEN Append(replies[id], outcome) ELSE replies[id]]
  BY DEF Closes
<1>2. /\ ids \subseteq DOMAIN pending /\ DOMAIN pending \subseteq RequestId
      /\ DOMAIN pending' = DOMAIN pending \ ids
      /\ \A id \in DOMAIN pending' : pending'[id] = pending[id]
      /\ next_request' = next_request /\ registry' \subseteq Conn
      /\ next_request \in Nat /\ DOMAIN pending \subseteq 1..next_request
  BY WaitingArePending DEF Closes, RequestInv
<1>3. \A id \in RequestId : id \notin ids => replies'[id] = replies[id]
  BY <1>1
<1>4. ASSUME NEW id \in ids
      PROVE  /\ replies[id] = <<>>
             /\ pending[id].requester_conn \in registry' => Len(replies'[id]) = 1
             /\ pending[id].requester_conn \notin registry' => Len(replies'[id]) = 0
  <2>1. id \in RequestId /\ id \in DOMAIN pending
    BY <1>2
  <2>2. replies[id] = <<>>
    BY <2>1 DEF RequestInv
  <2>3. replies'[id] = IF pending[id].requester_conn \in registry'
                       THEN Append(<<>>, outcome) ELSE <<>>
    BY <1>1, <2>1, <2>2, Zenon
  <2>4. <<>> \in Seq({outcome}) /\ outcome \in {outcome}
    OBVIOUS
  <2>5. Len(Append(<<>>, outcome)) = 1
    BY <2>4
  <2> QED BY <2>2, <2>3, <2>5
<1>5. RequestInv'
  <2>1. replies' \in [RequestId -> Seq(AuthOutcome)]
    <3>1. \A id \in RequestId : Append(replies[id], outcome) \in Seq(AuthOutcome)
      BY DEF RequestInv
    <3> QED BY <1>1, <3>1 DEF RequestInv
  <2>2. ASSUME NEW id \in RequestId, id \in DOMAIN pending' \/ id > next_request'
        PROVE  replies'[id] = <<>>
    <3>1. id \notin ids
      BY <1>2, <2>2
    <3> QED BY <1>2, <1>3, <2>2, <3>1 DEF RequestInv
  <2>3. pending' = [id \in DOMAIN pending' |-> pending'[id]]
    BY DEF Closes
  <2> QED BY <1>2, <2>1, <2>2, <2>3 DEF RequestInv
<1>6. Contract!Waiting = DOMAIN pending
  BY WaitingArePending
<1>7. [id \in DOMAIN pending' |-> pending'[id].requester_conn]
        = [id \in DOMAIN pending \ ids |->
             [i \in DOMAIN pending |-> pending[i].requester_conn][id]]
  BY <1>2
<1>8. ASSUME NEW id \in RequestId
      PROVE  phase'[id] = IF id \notin ids THEN phase[id]
                          ELSE IF pending[id].requester_conn \in registry'
                               THEN "replied" ELSE "dropped"
  <2>1. CASE id \notin ids
    <3>1. replies'[id] = replies[id] /\ (id \in DOMAIN pending' <=> id \in DOMAIN pending)
      BY <1>2, <1>3, <2>1
    <3> QED BY <1>2, <2>1, <3>1 DEF phase
  <2>2. CASE id \in ids
    <3>1. id \notin DOMAIN pending' /\ id \in 1..next_request'
      BY <1>2, <2>2
    <3>2. phase'[id] = CASE Len(replies'[id]) = 0 -> "dropped"
                         [] Len(replies'[id]) = 1 -> "replied"
                         [] OTHER -> "repeated"
      BY <3>1 DEF phase
    <3> QED BY <1>4, <2>2, <3>2
  <2> QED BY <2>1, <2>2
<1>9. phase' = [id \in RequestId |->
                  IF id \notin ids THEN phase[id]
                  ELSE IF [i \in DOMAIN pending |-> pending[i].requester_conn][id] \in registry'
                       THEN "replied" ELSE "dropped"]
  <2>1. phase' = [id \in RequestId |-> phase'[id]]
    BY DEF phase
  <2> QED BY <1>2, <1>8, <2>1
<1> QED BY <1>2, <1>5, <1>6, <1>7, <1>9 DEF Contract!Close

\* Opening keeps the invariant and is an Ask of the contract.
LEMMA OpeningSteps ==
    ASSUME RequestInv, NEW c \in Conn, Opens(c)
    PROVE  RequestInv' /\ next_request' \in RequestId /\ Contract!Ask(next_request', c)
<1>1. /\ next_request \in Nat /\ MaxRequestId \in Nat /\ next_request' = next_request + 1
      /\ next_request' \in RequestId /\ next_request' \notin DOMAIN pending
      /\ DOMAIN pending' = DOMAIN pending \cup {next_request'}
      /\ registry' = registry /\ replies' = replies
      /\ DOMAIN pending \subseteq 1..next_request
  BY BoundsAssumption DEF Opens, RequestInv, RequestId
<1>2. RequestInv'
  <2>1. next_request' \in 0..MaxRequestId /\ DOMAIN pending' \subseteq 1..next_request'
    BY <1>1 DEF RequestId
  <2>2. ASSUME NEW id \in RequestId, id \in DOMAIN pending' \/ id > next_request'
        PROVE  id \in DOMAIN pending \/ id > next_request
    BY <1>1, <2>2 DEF RequestId
  <2>3. pending' = [id \in DOMAIN pending' |-> pending'[id]]
    BY DEF Opens
  <2> QED BY <1>1, <2>1, <2>2, <2>3 DEF RequestInv
<1>3. Contract!Waiting = DOMAIN pending
  BY WaitingArePending
<1>4. phase[next_request'] = "unsent" /\ replies[next_request'] = <<>>
  BY <1>1 DEF phase, RequestInv
<1>5. ASSUME NEW id \in RequestId
      PROVE  phase'[id] = IF id = next_request' THEN "waiting" ELSE phase[id]
  <2>1. CASE id = next_request'
    BY <1>1, <1>4, <2>1 DEF phase
  <2>2. CASE id # next_request'
    <3>1. id \in DOMAIN pending' <=> id \in DOMAIN pending
      BY <1>1, <2>2
    <3>2. id \in 1..next_request' <=> id \in 1..next_request
      BY <1>1, <2>2 DEF RequestId
    <3> QED BY <1>1, <2>2, <3>1, <3>2 DEF phase
  <2> QED BY <2>1, <2>2
<1>6. phase' = [phase EXCEPT ![next_request'] = "waiting"]
  <2>1. phase = [id \in RequestId |-> phase[id]] /\ phase' = [id \in RequestId |-> phase'[id]]
    BY DEF phase
  <2> QED BY <1>5, <2>1
<1>7. [id \in DOMAIN pending' |-> pending'[id].requester_conn]
        = [i \in DOMAIN pending \cup {next_request'} |->
             IF i = next_request' THEN c
             ELSE [id \in DOMAIN pending |-> pending[id].requester_conn][i]]
  BY <1>1 DEF Opens
<1> QED BY <1>1, <1>2, <1>3, <1>4, <1>6, <1>7 DEF Contract!Ask

----------------------------------------------------------------------------
(* The handlers.                                                            *)

\* A step that leaves requests and replies alone closes nothing, whatever connections do.
LEMMA QuietRequests ==
    ASSUME RequestInv, UNCHANGED <<pending, next_request, prompts, replies>>,
           registry' \subseteq Conn
    PROVE  Closes({})
<1>1. pending' = [id \in DOMAIN pending \ {} |-> pending[id]]
  <2>1. pending' = pending
    OBVIOUS
  <2>2. pending = [id \in DOMAIN pending |-> pending[id]]
    BY DEF RequestInv
  <2>3. DOMAIN pending \ {} = DOMAIN pending
    OBVIOUS
  <2> QED BY <2>1, <2>2, <2>3
<1>2. replies' = [id \in RequestId |-> IF id \in {} /\ pending[id].requester_conn \in registry'
                                       THEN Append(replies[id], "Error") ELSE replies[id]]
  BY DEF RequestInv
<1>3. "Error" \in AuthOutcome
  BY DEF AuthOutcome
<1>4. prompts' = prompts \ {<<pending[id].compositor_conn, id>> :
                               id \in {i \in {} : pending[i].compositor_conn \in registry'}}
  OBVIOUS
<1> QED BY <1>1, <1>2, <1>3, <1>4 DEF Closes

\* The handlers that have nothing to do with requests.
LEMMA OtherHandlers ==
    ASSUME RequestInv,
           \/ SwitchRequests \/ LockRequests \/ InhibitRequests \/ SuspendRequests
           \/ PowerDownRequests \/ ActivityReports \/ Reloads \/ Terminate \/ loop_ends
           \/ MachineSteps \/ time_passes \/ UNCHANGED vars
           \/ \E c \in Conn, uid \in Uid, seat \in SeatId, graphical \in BOOLEAN,
                 fault \in Fault, spawn_fault \in SpawnFault :
                    CreateSession(c, uid, seat, graphical, fault, spawn_fault)
           \/ \E c \in Conn, s \in Session : RegisterCompositor(c, s)
           \/ \E s \in Session : compositor_exits(s)
    PROVE  UNCHANGED <<pending, next_request, prompts, replies, registry>>
<1>1. CASE SwitchRequests \/ ActivityReports
  BY <1>1 DEF SwitchRequests, SwitchSession, ActivityReports, ReportActivity, elevationVars,
              connVars, promptVars
<1>2. CASE LockRequests
  BY <1>2 DEF LockRequests, LockSession, Unlock, elevationVars, connVars, promptVars
<1>3. CASE InhibitRequests
  BY <1>3 DEF InhibitRequests, Inhibit, ReleaseInhibit, elevationVars, connVars, promptVars
<1>4. CASE SuspendRequests
  BY <1>4 DEF SuspendRequests, Suspend, elevationVars, connVars, promptVars
<1>5. CASE PowerDownRequests
  BY <1>5, Zenon DEF PowerDownRequests, Reboot, PowerOff, elevationVars, connVars, promptVars
<1>6. CASE Reloads \/ Terminate \/ loop_ends
  BY <1>6 DEF Reloads, ReloadConfig, Terminate, loop_ends, elevationVars, connVars, promptVars
<1>7. CASE MachineSteps
  BY <1>7 DEF MachineSteps, wakes, transition_lands, elevationVars, connVars, promptVars
<1>8. CASE time_passes
  BY <1>8 DEF time_passes, E!tick, connVars, promptVars
<1>9. CASE UNCHANGED vars
  BY <1>9 DEF vars, elevationVars, connVars, promptVars
<1>10. CASE \E c \in Conn, uid \in Uid, seat \in SeatId, graphical \in BOOLEAN,
                 fault \in Fault, spawn_fault \in SpawnFault :
                    CreateSession(c, uid, seat, graphical, fault, spawn_fault)
  BY <1>10 DEF CreateSession, elevationVars, connVars, promptVars
<1>11. CASE \E c \in Conn, s \in Session : RegisterCompositor(c, s)
  BY <1>11 DEF RegisterCompositor, elevationVars, connVars, promptVars
<1>12. CASE \E s \in Session : compositor_exits(s)
  BY <1>12 DEF compositor_exits, elevationVars, connVars, promptVars
<1> QED BY <1>1, <1>2, <1>3, <1>4, <1>5, <1>6, <1>7, <1>8, <1>9, <1>10, <1>11, <1>12

\* Taking requests out of pending and answering them closes them.
LEMMA AnsweredCloses ==
    ASSUME NEW ids, ids \subseteq DOMAIN pending, NEW outcome \in AuthOutcome,
           registry' \subseteq Conn,
           pending' = [id \in DOMAIN pending \ ids |-> pending[id]],
           next_request' = next_request, answered(ids, outcome, registry')
    PROVE  Closes(ids)
BY DEF Closes, answered

\* A connection that ends closes the requests it prompts for and the ones it made.
LEMMA DisconnectCloses ==
    ASSUME RequestInv, NEW c \in Conn, Connected(c) \/ Disconnected(c)
    PROVE  \E ids : Closes(ids)
<1>1. CASE Connected(c)
  <2>1. UNCHANGED <<pending, next_request, prompts, replies>> /\ registry' \subseteq Conn
    BY <1>1 DEF Connected, elevationVars, promptVars, RequestInv
  <2> QED BY <2>1, QuietRequests
<1>2. CASE Disconnected(c)
  <2>1. /\ registry' = registry \ {c} /\ E!abandon_connection(c)
        /\ answered(E!PendingOn(c), "Error", registry \ {c})
    BY <1>2 DEF Disconnected
  <2>2. registry' \subseteq Conn /\ E!PendingOn(c) \subseteq DOMAIN pending
    BY <2>1 DEF RequestInv, E!PendingOn
  <2>3. /\ pending' = [id \in DOMAIN pending \ E!PendingOn(c) |-> pending[id]]
        /\ next_request' = next_request
    BY <2>1 DEF E!abandon_connection, E!Forget, E!Restrict
  <2>4. answered(E!PendingOn(c), "Error", registry')
    BY <2>1
  <2> QED BY <2>2, <2>3, <2>4, AnsweredCloses DEF AuthOutcome
<1> QED BY <1>1, <1>2

\* A logout closes the requests of its session.
LEMMA TerminateCloses ==
    ASSUME RequestInv, NEW c \in Conn, NEW s \in Session, TerminateSession(c, s)
    PROVE  \E ids : Closes(ids)
<1>1. /\ registry' = registry /\ E!abandon_session(s)
      /\ answered(E!PendingOf(s), "Error", registry)
  BY DEF TerminateSession, connVars
<1>2. registry' \subseteq Conn /\ E!PendingOf(s) \subseteq DOMAIN pending
  BY <1>1 DEF RequestInv, E!PendingOf
<1>3. /\ pending' = [id \in DOMAIN pending \ E!PendingOf(s) |-> pending[id]]
      /\ next_request' = next_request
  BY <1>1 DEF E!abandon_session, E!Forget, E!Restrict
<1>4. answered(E!PendingOf(s), "Error", registry')
  BY <1>1
<1> QED BY <1>2, <1>3, <1>4, AnsweredCloses DEF AuthOutcome

\* A dismissed prompt closes its request.
LEMMA CancelCloses ==
    ASSUME RequestInv, NEW c \in Conn, NEW id \in RequestId, RespondCancelled(c, id)
    PROVE  \E ids : Closes(ids)
<1>1. registry' = registry /\ E!cancel(id) /\ answered({id}, "Cancelled", registry)
  BY DEF RespondCancelled, connVars
<1>2. /\ pending' = [i \in DOMAIN pending \ {id} |-> pending[i]]
      /\ next_request' = next_request /\ {id} \subseteq DOMAIN pending
  BY <1>1 DEF E!cancel, E!Forget, E!Restrict
<1>3. answered({id}, "Cancelled", registry') /\ registry' \subseteq Conn
  BY <1>1 DEF RequestInv
<1> QED BY <1>2, <1>3, AnsweredCloses DEF AuthOutcome

\* A wrong password that leaves the prompt open closes nothing.
LEMMA PasswordCloses ==
    ASSUME RequestInv, NEW c \in Conn, NEW id \in RequestId, NEW valid \in BOOLEAN,
           RespondPassword(c, id, valid)
    PROVE  \E ids : Closes(ids)
<1> DEFINE s == pending[id].session
           outcome == check(valid, elevation_auth[s].attempts,
                            settings.elevation.max_attempts).outcome
<1>1. /\ registry' = registry /\ E!attempt(id, valid, settings.elevation)
      /\ IF outcome = "Failure" THEN UNCHANGED promptVars ELSE answered({id}, outcome, registry)
  BY DEF RespondPassword, connVars
<1>2. outcome \in AuthOutcome
  BY DEF check, AuthOutcome
<1>3. outcome = E!check(valid, elevation_auth[s].attempts,
                        settings.elevation.max_attempts).outcome
  BY DEF check, E!check
<1>4. /\ id \in DOMAIN pending /\ next_request' = next_request
      /\ IF outcome = "Failure" THEN pending' = pending
         ELSE pending' = [i \in DOMAIN pending \ {id} |-> pending[i]]
  BY <1>1, <1>3 DEF E!attempt, E!Forget, E!Restrict
<1> HIDE DEF outcome
<1>5. CASE outcome = "Failure"
  <2>1. UNCHANGED <<pending, next_request, prompts, replies>> /\ registry' \subseteq Conn
    BY <1>1, <1>4, <1>5 DEF promptVars, RequestInv
  <2> QED BY <2>1, QuietRequests
<1>6. CASE outcome # "Failure"
  <2>1. answered({id}, outcome, registry') /\ registry' \subseteq Conn
    BY <1>1, <1>6 DEF RequestInv
  <2>2. /\ pending' = [i \in DOMAIN pending \ {id} |-> pending[i]]
        /\ next_request' = next_request /\ {id} \subseteq DOMAIN pending
    BY <1>4, <1>6
  <2> QED BY <1>2, <2>1, <2>2, AnsweredCloses
<1> QED BY <1>5, <1>6

\* The tick closes the requests that have timed out.
LEMMA TickCloses ==
    ASSUME RequestInv, timer_fires
    PROVE  \E ids : Closes(ids)
<1> DEFINE ids == expired(prompt_timers) \cap DOMAIN pending
<1>1. registry' = registry /\ E!sweep /\ answered(ids, "Error", registry)
  BY DEF timer_fires, on_idle_tick, connVars
<1>2. pending' = [id \in DOMAIN pending \ ids |-> pending[id]] /\ next_request' = next_request
  <2>1. pending' = [id \in DOMAIN pending \ E!expired(prompt_timers) |-> pending[id]]
    BY <1>1 DEF E!sweep, E!expire_pending, E!Forget, E!Restrict
  <2>2. DOMAIN pending \ E!expired(prompt_timers) = DOMAIN pending \ ids
    BY DEF expired, E!expired
  <2>3. next_request' = next_request
    BY <1>1 DEF E!sweep
  <2> QED BY <2>1, <2>2, <2>3
<1>3. answered(ids, "Error", registry') /\ registry' \subseteq Conn
  BY <1>1 DEF RequestInv
<1>4. ids \subseteq DOMAIN pending
  OBVIOUS
<1> HIDE DEF ids
<1> QED BY <1>2, <1>3, <1>4, AnsweredCloses DEF AuthOutcome

\* RequestElevation opens one request, with the next id.
LEMMA RequestOpens ==
    ASSUME RequestInv, NEW c \in Conn, NEW s \in Session, RequestElevation(c, s)
    PROVE  Opens(c)
<1>1. /\ E!begin(s, sessions[s].compositor_conn, c, settings.elevation)
      /\ prompts' = prompts \cup ({sessions[s].compositor_conn} \cap registry) \X {next_request'}
      /\ UNCHANGED <<registry, replies>>
      /\ conns[c] = "open" /\ s \in DOMAIN sessions /\ sessions[s].compositor_conn # NoConn
  BY Zenon DEF RequestElevation, connVars, handles
<1>2. /\ next_request < MaxRequestId /\ next_request' = next_request + 1
      /\ pending' = [id \in DOMAIN pending \cup {next_request'} |->
                       IF id = next_request'
                       THEN [session |-> s, compositor_conn |-> sessions[s].compositor_conn,
                             requester_conn |-> c]
                       ELSE pending[id]]
  BY <1>1 DEF E!begin
<1> QED BY <1>1, <1>2 DEF Opens

\* Reaping a compositor closes nothing: its requests wait for its Disconnected.
LEMMA ReapCloses ==
    ASSUME RequestInv, NEW faults, reap_children(faults)
    PROVE  \E ids : Closes(ids)
<1>1. UNCHANGED <<pending, next_request, prompts, replies>> /\ registry' \subseteq Conn
  BY DEF reap_children, elevationVars, promptVars, RequestInv
<1> QED BY <1>1, QuietRequests

\* Every step of the daemon closes requests, perhaps none, or opens one.
LEMMA StepsOpenOrClose ==
    ASSUME RequestInv, [Next]_vars
    PROVE  (\E ids : Closes(ids)) \/ (\E c \in Conn : Opens(c))
<1>1. ASSUME UNCHANGED <<pending, next_request, prompts, replies, registry>> PROVE Closes({})
  BY <1>1, QuietRequests DEF RequestInv
<1>2. CASE ConnectionSteps
  BY <1>2, DisconnectCloses DEF ConnectionSteps
<1>3. CASE SessionRequests
  BY <1>1, <1>3, TerminateCloses, OtherHandlers DEF SessionRequests
<1>4. CASE ElevationRequests
  BY <1>4, RequestOpens, CancelCloses, PasswordCloses DEF ElevationRequests
<1>5. CASE TimerSteps
  BY <1>1, <1>5, TickCloses, OtherHandlers DEF TimerSteps
<1>6. CASE CompositorSteps
  BY <1>1, <1>6, ReapCloses, OtherHandlers DEF CompositorSteps
<1>7. CASE \/ SwitchRequests \/ LockRequests \/ InhibitRequests \/ SuspendRequests
           \/ PowerDownRequests \/ ActivityReports \/ Reloads \/ Terminate \/ loop_ends
           \/ MachineSteps \/ UNCHANGED vars
  BY <1>1, <1>7, OtherHandlers
<1> QED BY <1>2, <1>3, <1>4, <1>5, <1>6, <1>7 DEF Next

----------------------------------------------------------------------------
(* The theorems.                                                            *)

\* Open requests are unanswered and ids are fresh, in every behaviour of the daemon.
THEOREM RequestsInvariant == Spec => []RequestInv
<1>1. Init => RequestInv
  BY BoundsAssumption DEF Init, E!Init, RequestInv, RequestId
<1>2. RequestInv /\ [Next]_vars => RequestInv'
  BY StepsOpenOrClose, ClosingSteps, OpeningSteps
<1> QED BY <1>1, <1>2, PTL DEF Spec

\* The daemon implements the contract of RequestElevation: whatever answers, cancels,
\* timeouts, logouts, crashes and disconnects do, a request is answered at most once, when
\* it is closed, and is left without a reply only if its requester has no outbox then.
THEOREM KeepsContract == Spec => KeepsElevationContract
<1>1. Init => Contract!Init
  <2> SUFFICES ASSUME Init PROVE Contract!Init
    OBVIOUS
  <2>1. /\ pending = [id \in {} |-> id] /\ next_request = 0 /\ registry = {}
        /\ replies = [id \in RequestId |-> <<>>]
    BY DEF Init, E!Init
  <2>2. phase = [id \in RequestId |-> "unsent"]
    BY <2>1, BoundsAssumption DEF phase, RequestId
  <2>3. [id \in DOMAIN pending |-> pending[id].requester_conn] = [id \in {} |-> id]
    BY <2>1
  <2> QED BY <2>1, <2>2, <2>3 DEF Contract!Init
<1>2. RequestInv /\ [Next]_vars =>
        [Contract!Next]_<<phase, [id \in DOMAIN pending |-> pending[id].requester_conn], registry>>
  <2> SUFFICES ASSUME RequestInv, [Next]_vars PROVE Contract!Next
    OBVIOUS
  <2>1. CASE \E ids : Closes(ids)
    <3>1. PICK ids : Closes(ids)
      BY <2>1
    <3>2. Contract!Close(ids) /\ ids \in SUBSET Contract!Waiting
      BY <3>1, ClosingSteps, WaitingArePending DEF Closes
    <3> QED BY <3>2 DEF Contract!Next
  <2>2. CASE \E c \in Conn : Opens(c)
    BY <2>2, OpeningSteps DEF Contract!Next
  <2> QED BY <2>1, <2>2, StepsOpenOrClose
<1> QED BY <1>1, <1>2, RequestsInvariant, PTL DEF Spec, KeepsElevationContract, Contract!Spec
====
