---- MODULE IpcServer ----
(***************************************************************************)
(* ipc/server.rs: every connection has a reader thread, which forwards its  *)
(* requests on the one channel to the event loop, and a writer thread,      *)
(* which drains the connection's outbox.  The loop keeps the ConnRegistry.  *)
(*                                                                          *)
(* Requests and the replies to them are numbered per connection; 0 stands   *)
(* for an event.  A writer's `for msg in out_rx` ends when no Sender of the *)
(* outbox is left: the reader holds one, the registry another, and a        *)
(* Connected message still on the channel carries that other one.           *)
(***************************************************************************)
EXTENDS Naturals, Sequences, Functions

CONSTANTS
    Conn,
    Caller,         \* the connections that are an IpcClient (mitos-sessionctl)
    MaxRequests,    \* requests the clients send, over all connections
    MaxEvents       \* events the daemon pushes on its own, over all connections

ASSUME CallerAssumption == Caller \subseteq Conn

VARIABLES
    client,     \* connection -> what the peer has done to its socket
    calling,    \* the callers that wait in IpcClient::call
    sent,       \* connection -> requests written to the socket ...
    read,       \* ... and requests the reader has forwarded
    reader,     \* connection -> where handle_connection is
    writer,     \* connection -> where its writer thread is
    channel,    \* the calloop channel of ManagerMessages
    registry,   \* ConnRegistry
    handled,    \* connection -> commands handled by the loop
    deferred,   \* connection -> commands whose reply was deferred (RequestElevation)
    outbox,     \* connection -> messages for its writer
    delivered,  \* connection -> messages written to the socket
    events      \* events pushed so far

socketVars == <<client, calling, sent>>
threadVars == <<reader, writer>>
loopVars == <<registry, handled, deferred, events>>
vars == <<socketVars, read, threadVars, channel, loopVars, outbox, delivered>>

Init ==
    /\ client = [c \in Conn |-> "new"] /\ calling = {}
    /\ sent = [c \in Conn |-> 0] /\ read = [c \in Conn |-> 0]
    /\ reader = [c \in Conn |-> "none"] /\ writer = [c \in Conn |-> "none"]
    /\ channel = <<>> /\ registry = {} /\ events = 0
    /\ handled = [c \in Conn |-> 0] /\ deferred = [c \in Conn |-> {}]
    /\ outbox = [c \in Conn |-> <<>>] /\ delivered = [c \in Conn |-> <<>>]

Message(kind, c) == [kind |-> kind, conn |-> c]
InChannel(kinds, c) == \E i \in DOMAIN channel : channel[i].kind \in kinds /\ channel[i].conn = c

\* Message::Response, as opposed to Message::Event.
is_response(n) == n # 0

----------------------------------------------------------------------------
(* The framing.                                                             *)

\* What read_message may return to c's reader: a whole request; an error for one that
\* is too long, cut short or cannot be decoded; or, once the peer has closed its end,
\* Disconnected.  A reset may lose requests that were not read yet.
read_message(c) ==
    (IF read[c] < sent[c] THEN {"Ok", "Malformed"} ELSE {})
      \cup (IF client[c] = "hung_up" THEN {"Disconnected"} ELSE {})

\* write_message to c reaches a peer that has not closed its end.
write_message(c) == IF client[c] = "open" THEN "Ok" ELSE "Io"

----------------------------------------------------------------------------
(* The clients.                                                             *)

client_connects(c) ==
    /\ client[c] = "new"
    /\ client' = [client EXCEPT ![c] = "open"]
    /\ reader' = [reader EXCEPT ![c] = "starting"]
    /\ UNCHANGED <<calling, sent, read, writer, channel, loopVars, outbox, delivered>>

\* A faulty IpcClient::call that takes an event for the reply.
call_returns_on_any(c, n) == calling' = calling \ {c}

\* IpcClient::call writes a request and reads until a Response comes, skipping events:
\* the connection carries no other request meanwhile.
call_returns(c, n) == calling' = IF is_response(n) THEN calling \ {c} ELSE calling

\* A compositor uses the socket directly and need not wait.
client_sends(c) ==
    /\ client[c] = "open" /\ SumFunction(sent) < MaxRequests
    /\ c \notin calling
    /\ calling' = calling \cup ({c} \cap Caller)
    /\ sent' = [sent EXCEPT ![c] = @ + 1]
    /\ UNCHANGED <<client, read, threadVars, channel, loopVars, outbox, delivered>>

client_hangs_up(c) ==
    /\ client[c] = "open"
    /\ client' = [client EXCEPT ![c] = "hung_up"]
    /\ UNCHANGED <<calling, sent, read, threadVars, channel, loopVars, outbox, delivered>>

----------------------------------------------------------------------------
(* handle_connection, on the reader thread.                                 *)

\* Peer credentials or the cloned socket cannot be had: nobody hears of c.
rejected(c) ==
    /\ reader[c] = "starting"
    /\ reader' = [reader EXCEPT ![c] = "rejected"]
    /\ UNCHANGED <<socketVars, read, writer, channel, loopVars, outbox, delivered>>

\* Connected is sent, and the writer started, before anything is read.
registers(c) ==
    /\ reader[c] = "starting"
    /\ channel' = Append(channel, Message("Connected", c))
    /\ reader' = [reader EXCEPT ![c] = "reading"]
    /\ writer' = [writer EXCEPT ![c] = "running"]
    /\ UNCHANGED <<socketVars, read, loopVars, outbox, delivered>>

\* A faulty reader that does not wait until Connected has been sent.
reads_request_early(c) ==
    /\ reader[c] \in {"starting", "reading"} /\ read[c] < sent[c]
    /\ read' = [read EXCEPT ![c] = @ + 1]
    /\ channel' = Append(channel, Message("Command", c))
    /\ UNCHANGED <<socketVars, threadVars, loopVars, outbox, delivered>>

reads_request(c) ==
    /\ reader[c] = "reading" /\ "Ok" \in read_message(c)
    /\ read' = [read EXCEPT ![c] = @ + 1]
    /\ channel' = Append(channel, Message("Command", c))
    /\ UNCHANGED <<socketVars, threadVars, loopVars, outbox, delivered>>

\* Any error of read_message: drop(out_tx).
stops_reading(c) ==
    /\ reader[c] = "reading" /\ read_message(c) \ {"Ok"} # {}
    /\ reader' = [reader EXCEPT ![c] = "joining"]
    /\ UNCHANGED <<socketVars, read, writer, channel, loopVars, outbox, delivered>>

\* writer_handle.join() has returned.
reports_disconnect(c) ==
    /\ reader[c] = "joining" /\ writer[c] = "done"
    /\ reader' = [reader EXCEPT ![c] = "done"]
    /\ channel' = Append(channel, Message("Disconnected", c))
    /\ UNCHANGED <<socketVars, read, writer, loopVars, outbox, delivered>>

----------------------------------------------------------------------------
(* The writer thread.                                                       *)

\* The loop breaks at the first message that cannot be written; out_rx goes, and with it
\* what is still in the outbox.
writes(c) ==
    /\ writer[c] = "running" /\ outbox[c] # <<>>
    /\ IF write_message(c) = "Ok"
       THEN /\ delivered' = [delivered EXCEPT ![c] = Append(@, Head(outbox[c]))]
            /\ outbox' = [outbox EXCEPT ![c] = Tail(@)]
            /\ call_returns(c, Head(outbox[c]))
            /\ UNCHANGED writer
       ELSE /\ writer' = [writer EXCEPT ![c] = "done"]
            /\ outbox' = [outbox EXCEPT ![c] = <<>>]
            /\ UNCHANGED <<delivered, calling>>
    /\ UNCHANGED <<client, sent, read, reader, channel, loopVars>>

\* A faulty writer that ends as soon as its outbox is empty.
writer_ends_when_empty(c) ==
    /\ writer[c] = "running" /\ outbox[c] = <<>>
    /\ writer' = [writer EXCEPT ![c] = "done"]
    /\ UNCHANGED <<socketVars, read, reader, channel, loopVars, outbox, delivered>>

writer_ends(c) ==
    /\ writer[c] = "running" /\ outbox[c] = <<>>
    /\ reader[c] = "joining" /\ c \notin registry /\ ~InChannel({"Connected"}, c)
    /\ writer' = [writer EXCEPT ![c] = "done"]
    /\ UNCHANGED <<socketVars, read, reader, channel, loopVars, outbox, delivered>>

----------------------------------------------------------------------------
(* The event loop.                                                          *)

\* A faulty ConnRegistry whose outboxes hold one message and drop the next.
sends_if_empty(c, n) ==
    outbox' = IF c \in registry /\ writer[c] = "running" /\ outbox[c] = <<>>
              THEN [outbox EXCEPT ![c] = <<n>>] ELSE outbox

\* ConnRegistry::send_response and send_event: without an outbox, or after the writer
\* has gone, the message is dropped.
sends(c, n) ==
    outbox' = IF c \in registry /\ writer[c] = "running"
              THEN [outbox EXCEPT ![c] = Append(@, n)] ELSE outbox

takes(kind, c) ==
    /\ channel # <<>>
    /\ Head(channel) = Message(kind, c)
    /\ channel' = Tail(channel)

handles_connected(c) ==
    /\ takes("Connected", c)
    /\ registry' = registry \cup {c}
    /\ UNCHANGED <<socketVars, read, threadVars, handled, deferred, events, outbox, delivered>>

handles_command(c, defers) ==
    /\ takes("Command", c)
    /\ handled' = [handled EXCEPT ![c] = @ + 1]
    /\ IF defers
       THEN /\ deferred' = [deferred EXCEPT ![c] = @ \cup {handled'[c]}]
            /\ UNCHANGED outbox
       ELSE sends(c, handled'[c]) /\ UNCHANGED deferred
    /\ UNCHANGED <<socketVars, read, threadVars, registry, events, delivered>>

handles_disconnected(c) ==
    /\ takes("Disconnected", c)
    /\ registry' = registry \ {c}
    /\ UNCHANGED <<socketVars, read, threadVars, handled, deferred, events, outbox, delivered>>

\* An event, or a deferred reply to command n.
pushes(c, n) ==
    /\ events < MaxEvents
    /\ n = 0 \/ n \in deferred[c] \ Range(delivered[c] \o outbox[c])
    /\ c \in registry
    /\ sends(c, n)
    /\ events' = events + 1
    /\ UNCHANGED <<socketVars, read, threadVars, channel, registry, handled, deferred, delivered>>

\* handle_compositor_exit unregisters the compositor's connection.
unregisters(c) ==
    /\ c \in registry
    /\ registry' = registry \ {c}
    /\ UNCHANGED <<socketVars, read, threadVars, channel, handled, deferred, events, outbox,
                   delivered>>

ClientSteps(c) == client_connects(c) \/ client_sends(c) \/ client_hangs_up(c)
ReaderSteps(c) == registers(c) \/ reads_request(c) \/ stops_reading(c) \/ reports_disconnect(c)
WriterSteps(c) == writes(c) \/ writer_ends(c)
LoopSteps(c) ==
    \/ handles_connected(c) \/ handles_disconnected(c)
    \/ \E defers \in BOOLEAN : handles_command(c, defers)

Next == \E c \in Conn :
    \/ ClientSteps(c) \/ ReaderSteps(c) \/ rejected(c) \/ WriterSteps(c) \/ LoopSteps(c)
    \/ \E n \in 0..MaxRequests : pushes(c, n)
    \/ unregisters(c)

\* Every thread is scheduled, and the loop takes what is on its channel.
Fairness == \A c \in Conn :
    WF_vars(ReaderSteps(c)) /\ WF_vars(WriterSteps(c)) /\ WF_vars(LoopSteps(c))

Spec == Init /\ [][Next]_vars /\ Fairness

----------------------------------------------------------------------------
(* Properties.                                                              *)

\* Where connection c is for the event loop.
conn_state(c) ==
    IF reader[c] \in {"none", "starting", "rejected"} \/ InChannel({"Connected"}, c)
    THEN "new"
    ELSE IF reader[c] = "done" /\ ~InChannel({"Command", "Disconnected"}, c)
    THEN "gone" ELSE "open"

C == INSTANCE Connections WITH conns <- [c \in Conn |-> conn_state(c)]

\* The threads and the channel keep the order main.rs is written for: no command is
\* handled before its connection's Connected ("Register before reading anything", says
\* handle_connection) or after its Disconnected, and nothing is sent to either.
KeepsConnectionOrder == C!Spec

\* Where the replies are in a sequence of messages.
responses(msgs) == {i \in DOMAIN msgs : is_response(msgs[i])}

\* As long as a connection is registered and its writer alive, the immediate replies on
\* their way to the client and at the client are those to its first commands, each once
\* and in order, whatever events and deferred replies are mixed in.
RepliesInOrder ==
    \A c \in registry : writer[c] = "running" =>
        LET msgs == delivered[c] \o outbox[c]
            immediate == {i \in responses(msgs) : msgs[i] \notin deferred[c]}
        IN  /\ {msgs[i] : i \in immediate} = (1..handled[c]) \ deferred[c]
            /\ \A i, j \in immediate : i < j => msgs[i] < msgs[j]

\* "Send `request` and wait for the matching `Response`", says ipc/client.rs, although
\* replies carry no request id: on a connection that is used through IpcClient alone
\* the n-th reply is the one to the n-th request (the replies are in order and none is
\* left out), also when replies are deferred and events arrive in between.
CallsGetTheirReply ==
    \A c \in Caller :
        LET msgs == delivered[c] \o outbox[c]
        IN  /\ \A i, j \in responses(msgs) : i < j => msgs[i] < msgs[j]
            /\ \A i \in responses(msgs) : 1..msgs[i] \subseteq Range(msgs)

\* A request the reader has taken is answered at once or deferred on purpose, unless its
\* client hangs up or is unregistered.
RequestsAreAnswered ==
    \A c \in Conn, n \in 1..MaxRequests :
        read[c] >= n ~> \/ n \in deferred[c] \cup Range(delivered[c])
                        \/ client[c] = "hung_up"
                        \/ conn_state(c) # "new" /\ c \notin registry

\* docs/ipc.md: "On disconnect, `ConnRegistry` drops the connection's outbox."
HangUpsAreNoticed ==
    \A c \in Conn : client[c] = "hung_up" /\ c \in registry ~> c \notin registry
====
