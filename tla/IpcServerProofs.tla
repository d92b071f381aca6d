---- MODULE IpcServerProofs ----
(***************************************************************************)
(* The threads and the channel of the IPC server implement Connections, the *)
(* order of messages that main.rs is written for.  ChannelInv is inductive: *)
(* on the channel, the Connected of a connection precedes everything else   *)
(* of it and its Disconnected follows everything else.  ReplyInv is         *)
(* inductive on top of it: the replies of a connection are in order, and a  *)
(* client that waits in call() has at most one request without a reply.     *)
(***************************************************************************)
EXTENDS IpcServer, TLAPS

ReaderState == {"none", "starting", "rejected", "reading", "joining", "done"}
Messages == [kind : {"Connected", "Command", "Disconnected"}, conn : Conn]

\* What the message at place i says of its connection and of the others on the channel.
InOrder(i) ==
    LET c == channel[i].conn
        Of == {j \in 1..Len(channel) : channel[j].conn = c}
    IN  /\ reader[c] \in {"reading", "joining", "done"}
        /\ channel[i].kind = "Connected" => \A j \in Of : i <= j
        /\ channel[i].kind = "Disconnected" => reader[c] = "done" /\ \A j \in Of : j <= i
        /\ reader[c] = "done" => \E j \in Of : channel[j].kind = "Disconnected"

ChannelInv ==
    /\ channel \in Seq(Messages)
    /\ reader \in [Conn -> ReaderState]
    /\ client = [c \in Conn |-> client[c]]
    /\ handled = [c \in Conn |-> handled[c]]
    /\ \A c \in Conn : client[c] = "new" => reader[c] = "none"
    /\ \A i \in 1..Len(channel) : InOrder(i)

\* Registered connections are open ones.
RegistryInv ==
    /\ registry \subseteq Conn
    /\ \A c \in registry : conn_state(c) = "open"

----------------------------------------------------------------------------
(* Steps that put a message on the channel, take one off, or do neither.    *)

\* What is on the channel after a send ...
LEMMA Appended ==
    ASSUME channel \in Seq(Messages), NEW m \in Messages, channel' = Append(channel, m)
    PROVE  /\ channel' \in Seq(Messages) /\ Len(channel) \in Nat
           /\ Len(channel') = Len(channel) + 1
           /\ \A i \in 1..Len(channel) : channel'[i] = channel[i]
           /\ channel'[Len(channel) + 1] = m
           /\ \A i \in 1..Len(channel) : channel[i] \in Messages
OBVIOUS

\* ... and after the loop has taken the first message.
LEMMA Taken ==
    ASSUME channel \in Seq(Messages), NEW kind, NEW c, takes(kind, c)
    PROVE  /\ channel' \in Seq(Messages) /\ Len(channel) \in Nat \ {0}
           /\ Len(channel') = Len(channel) - 1
           /\ \A i \in 1..Len(channel') : channel'[i] = channel[i + 1]
           /\ channel[1].kind = kind /\ channel[1].conn = c
           /\ \A i \in 1..Len(channel) : channel[i] \in Messages
BY DEF takes, Message

\* InChannel, place by place.
LEMMA InChannelIs ==
    ASSUME channel \in Seq(Messages), NEW kinds, NEW c
    PROVE  InChannel(kinds, c) <=>
             \E i \in 1..Len(channel) : channel[i].kind \in kinds /\ channel[i].conn = c
BY DEF InChannel

\* A step that sends nothing and takes nothing, and moves readers only before they
\* register or to where they wait for their writer, shows nothing to the loop.
LEMMA SilentSteps ==
    ASSUME ChannelInv, UNCHANGED <<channel, handled>>,
           client' = [c \in Conn |-> client'[c]], reader' \in [Conn -> ReaderState],
           \A c \in Conn : client'[c] = "new" => reader'[c] = "none",
           \A c \in Conn :
              \/ reader'[c] = reader[c]
              \/ reader[c] \in {"none", "starting"} /\ reader'[c] \in {"starting", "rejected"}
              \/ reader[c] = "reading" /\ reader'[c] = "joining"
    PROVE  ChannelInv' /\ \A c \in Conn : conn_state(c)' = conn_state(c)
<1>1. ASSUME NEW i \in 1..Len(channel) PROVE InOrder(i)'
  <2>1. InOrder(i) /\ channel[i] \in Messages
    BY DEF ChannelInv
  <2>2. channel[i].conn \in Conn
    BY <2>1 DEF Messages
  <2> QED BY <2>1, <2>2 DEF InOrder
<1>2. ChannelInv'
  BY <1>1 DEF ChannelInv
<1>3. ASSUME NEW c \in Conn PROVE conn_state(c)' = conn_state(c)
  BY DEF conn_state, InChannel
<1> QED BY <1>2, <1>3

\* A reader that sends: Connected as its first message, commands, Disconnected as its last.
LEMMA SendingSteps ==
    ASSUME ChannelInv, UNCHANGED <<client, handled>>, NEW c \in Conn,
           NEW kind \in {"Connected", "Command", "Disconnected"},
           channel' = Append(channel, Message(kind, c)),
           NEW next \in {"reading", "done"}, reader' = [reader EXCEPT ![c] = next],
           \/ kind = "Connected" /\ reader[c] = "starting" /\ next = "reading"
           \/ kind = "Command" /\ reader[c] = "reading" /\ next = "reading"
           \/ kind = "Disconnected" /\ reader[c] = "joining" /\ next = "done"
    PROVE  ChannelInv' /\ \A d \in Conn : conn_state(d)' = conn_state(d)
<1> DEFINE n == Len(channel)
<1>1. Message(kind, c) \in Messages
  BY DEF Message, Messages
<1>2. /\ channel' \in Seq(Messages) /\ n \in Nat /\ Len(channel') = n + 1
      /\ \A i \in 1..n : channel'[i] = channel[i] /\ channel[i].conn \in Conn
      /\ channel'[n + 1].kind = kind /\ channel'[n + 1].conn = c
  BY <1>1, Appended DEF ChannelInv, Message, Messages
<1>3. /\ reader' \in [Conn -> ReaderState] /\ reader'[c] = next
      /\ \A d \in Conn : d # c => reader'[d] = reader[d]
  BY DEF ChannelInv, ReaderState
<1>4. \A i \in 1..n : InOrder(i)
  BY DEF ChannelInv
<1> HIDE DEF n
<1>5. ASSUME NEW i \in 1..(n + 1) PROVE InOrder(i)'
  <2>1. CASE i = n + 1
    <3>1. /\ channel'[i].conn = c /\ channel'[i].kind = kind
          /\ reader'[c] \in {"reading", "joining", "done"}
          /\ kind = "Disconnected" => reader'[c] = "done"
      BY <1>2, <1>3, <2>1
    <3>2. ASSUME NEW j \in 1..(n + 1), channel'[j].conn = c, kind = "Connected" PROVE i <= j
      <4>1. ASSUME j \in 1..n PROVE FALSE
        BY <1>2, <1>4, <3>2, <4>1 DEF InOrder
      <4> QED BY <1>2, <2>1, <4>1
    <3>3. reader'[c] = "done" => kind = "Disconnected"
      BY <1>3
    <3> QED BY <1>2, <2>1, <3>1, <3>2, <3>3 DEF InOrder
  <2>2. CASE i \in 1..n /\ channel[i].conn = c
    <3>1. InOrder(i) /\ channel'[i] = channel[i] /\ i <= n + 1
      BY <1>2, <1>4, <2>2
    <3>2. reader[c] \in {"reading", "joining"} /\ kind # "Connected"
      BY <2>2, <3>1 DEF InOrder
    <3>3. channel[i].kind # "Disconnected"
      BY <2>2, <3>1, <3>2 DEF InOrder
    <3>4. ASSUME NEW j \in 1..(n + 1), channel'[j].conn = c, channel[i].kind = "Connected"
          PROVE  i <= j
      <4>1. CASE j \in 1..n
        BY <1>2, <2>2, <3>1, <3>4, <4>1 DEF InOrder, n
      <4>2. CASE j = n + 1
        BY <1>2, <2>2, <4>2
      <4> QED BY <1>2, <4>1, <4>2
    <3>5. reader'[c] = "done" => kind = "Disconnected"
      BY <1>3
    <3>6. n + 1 \in 1..(n + 1) /\ reader'[c] \in {"reading", "joining", "done"}
      BY <1>2, <1>3
    <3> QED BY <1>2, <2>2, <3>1, <3>3, <3>4, <3>5, <3>6 DEF InOrder
  <2>3. CASE i \in 1..n /\ channel[i].conn # c
    <3>1. InOrder(i) /\ channel'[i] = channel[i] /\ channel[i].conn \in Conn
      BY <1>2, <1>4, <2>3
    <3>2. reader'[channel[i].conn] = reader[channel[i].conn]
      BY <1>3, <2>3, <3>1
    <3>3. {j \in 1..(n + 1) : channel'[j].conn = channel[i].conn}
            = {j \in 1..n : channel[j].conn = channel[i].conn}
      BY <1>2, <2>3
    <3>4. \A j \in 1..n : channel'[j] = channel[j]
      BY <1>2
    <3> QED BY <1>2, <3>1, <3>2, <3>3, <3>4 DEF InOrder, n
  <2> QED BY <1>2, <2>1, <2>2, <2>3
<1>6. ChannelInv'
  BY <1>2, <1>3, <1>5 DEF ChannelInv
<1>7. ASSUME NEW d \in Conn, NEW kinds
      PROVE  InChannel(kinds, d)' <=> InChannel(kinds, d) \/ (d = c /\ kind \in kinds)
  <2>1. InChannel(kinds, d)' <=>
          \E i \in 1..(n + 1) : channel'[i].kind \in kinds /\ channel'[i].conn = d
    BY <1>2 DEF InChannel
  <2>2. InChannel(kinds, d) <=>
          \E i \in 1..n : channel[i].kind \in kinds /\ channel[i].conn = d
    BY InChannelIs DEF ChannelInv, n
  <2> QED BY <1>2, <2>1, <2>2
<1>8. ASSUME NEW d \in Conn PROVE conn_state(d)' = conn_state(d)
  <2>1. /\ InChannel({"Connected"}, d)' <=>
             InChannel({"Connected"}, d) \/ (d = c /\ kind = "Connected")
        /\ InChannel({"Command", "Disconnected"}, d)' <=>
             InChannel({"Command", "Disconnected"}, d)
               \/ (d = c /\ kind \in {"Command", "Disconnected"})
    BY <1>7
  <2>2. CASE d # c
    BY <1>3, <2>1, <2>2 DEF conn_state
  <2>3. CASE d = c
    BY <1>3, <2>1, <2>3 DEF conn_state
  <2> QED BY <2>2, <2>3
<1> QED BY <1>6, <1>8

\* The loop takes the first message: what it can tell of its connection, before and after.
LEMMA TakingSteps ==
    ASSUME ChannelInv, UNCHANGED <<client, reader>>, handled' = [d \in Conn |-> handled'[d]],
           NEW c \in Conn, NEW kind, takes(kind, c)
    PROVE  /\ ChannelInv'
           /\ \A d \in Conn : d # c => conn_state(d)' = conn_state(d)
           /\ kind = "Connected" => conn_state(c) = "new" /\ conn_state(c)' = "open"
           /\ kind = "Command" => conn_state(c) = "open" /\ conn_state(c)' = "open"
           /\ kind = "Disconnected" => conn_state(c) = "open" /\ conn_state(c)' = "gone"
<1> DEFINE n == Len(channel)
<1>1. /\ channel' \in Seq(Messages) /\ n \in Nat \ {0} /\ Len(channel') = n - 1
      /\ \A i \in 1..(n - 1) : channel'[i] = channel[i + 1]
      /\ channel[1].kind = kind /\ channel[1].conn = c
      /\ \A i \in 1..n : channel[i] \in Messages
  <2>1. channel \in Seq(Messages)
    BY DEF ChannelInv
  <2> QED BY <2>1, Taken
<1>2. \A i \in 1..n : InOrder(i)
  BY DEF ChannelInv
<1>3. InOrder(1) /\ 1 \in 1..n
  BY <1>1, <1>2
<1> HIDE DEF n
<1>4. \A i \in 2..n : channel[i].conn = c => channel[i].kind # "Connected"
  <2> SUFFICES ASSUME NEW i \in 2..n, channel[i].conn = c, channel[i].kind = "Connected"
               PROVE  FALSE
    OBVIOUS
  <2>1. i \in 1..n /\ 1 \in 1..n /\ ~(i <= 1)
    BY <1>1
  <2>2. InOrder(i)
    BY <1>2, <2>1
  <2>3. i <= 1
    BY <1>1, <2>1, <2>2 DEF InOrder, n
  <2> QED BY <2>1, <2>3
<1>5. ASSUME NEW i \in 1..(n - 1) PROVE InOrder(i)'
  <2> DEFINE d == channel[i + 1].conn
  <2>1. InOrder(i + 1) /\ channel'[i] = channel[i + 1] /\ i + 1 \in 1..n
    BY <1>1, <1>2
  <2>2. ASSUME NEW j \in 1..(n - 1), channel'[j].conn = d
        PROVE  /\ channel[i + 1].kind = "Connected" => i <= j
               /\ channel[i + 1].kind = "Disconnected" => j <= i
    <3>1. j + 1 \in 1..n /\ channel[j + 1].conn = d
      BY <1>1, <2>2
    <3>2. /\ channel[i + 1].kind = "Connected" => i + 1 <= j + 1
          /\ channel[i + 1].kind = "Disconnected" => j + 1 <= i + 1
      <4> DEFINE p == i + 1
                 q == j + 1
      <4>1. InOrder(p) /\ q \in 1..n /\ channel[q].conn = channel[p].conn
        BY <2>1, <3>1
      <4> HIDE DEF p, q
      <4>2. /\ channel[p].kind = "Connected" => p <= q
            /\ channel[p].kind = "Disconnected" => q <= p
        BY <4>1 DEF InOrder, n
      <4> QED BY <4>2 DEF p, q
    <3> QED BY <1>1, <3>2
  <2>3. ASSUME reader[d] = "done"
        PROVE  \E j \in 1..(n - 1) : channel'[j].conn = d /\ channel'[j].kind = "Disconnected"
    <3>1. PICK k \in 1..n : channel[k].conn = d /\ channel[k].kind = "Disconnected"
      BY <2>1, <2>3 DEF InOrder, n
    <3>2. i + 1 <= k
      BY <1>2, <2>1, <3>1 DEF InOrder, n
    <3>3. k - 1 \in 1..(n - 1) /\ channel'[k - 1] = channel[k]
      <4>1. k - 1 \in 1..(n - 1) /\ (k - 1) + 1 = k
        BY <1>1, <3>2
      <4> QED BY <1>1, <4>1
    <3> QED BY <3>1, <3>3
  <2>4. /\ reader[d] \in {"reading", "joining", "done"}
        /\ channel[i + 1].kind = "Disconnected" => reader[d] = "done"
    BY <2>1 DEF InOrder
  <2> QED BY <1>1, <2>1, <2>2, <2>3, <2>4 DEF InOrder
<1>6. ChannelInv'
  BY <1>1, <1>5 DEF ChannelInv
<1>7. ASSUME NEW d \in Conn, NEW kinds
      PROVE  InChannel(kinds, d)' <=>
               \E i \in 2..n : channel[i].kind \in kinds /\ channel[i].conn = d
  <2>1. InChannel(kinds, d)' <=>
          \E i \in 1..(n - 1) : channel'[i].kind \in kinds /\ channel'[i].conn = d
    BY <1>1 DEF InChannel
  <2>2. ASSUME NEW i \in 1..(n - 1) PROVE i + 1 \in 2..n /\ channel'[i] = channel[i + 1]
    BY <1>1
  <2>3. ASSUME NEW i \in 2..n PROVE i - 1 \in 1..(n - 1) /\ channel'[i - 1] = channel[i]
    <3>1. i - 1 \in 1..(n - 1) /\ (i - 1) + 1 = i
      BY <1>1
    <3> QED BY <1>1, <3>1
  <2> QED BY <2>1, <2>2, <2>3
<1>8. ASSUME NEW d \in Conn, NEW kinds
      PROVE  InChannel(kinds, d) <=> InChannel(kinds, d)' \/ (d = c /\ kind \in kinds)
  <2>1. InChannel(kinds, d) <=>
          \E i \in 1..n : channel[i].kind \in kinds /\ channel[i].conn = d
    BY InChannelIs DEF ChannelInv, n
  <2> QED BY <1>1, <1>7, <2>1
<1>9. /\ reader[c] \in {"reading", "joining", "done"}
      /\ ~InChannel({"Connected"}, c)'
      /\ InChannel({"Connected"}, c) <=> kind = "Connected"
  BY <1>1, <1>3, <1>4, <1>7, <1>8 DEF InOrder
<1>10. ASSUME kind # "Disconnected", reader[c] = "done"
       PROVE  InChannel({"Command", "Disconnected"}, c)'
  <2>1. PICK k \in 1..n : channel[k].conn = c /\ channel[k].kind = "Disconnected"
    BY <1>1, <1>3, <1>10 DEF InOrder, n
  <2>2. k \in 2..n
    BY <1>1, <1>10, <2>1
  <2> QED BY <1>7, <2>1, <2>2
<1>11. ASSUME kind = "Disconnected"
       PROVE  reader[c] = "done" /\ ~InChannel({"Command", "Disconnected"}, c)'
  <2>1. reader[c] = "done" /\ \A j \in 1..n : channel[j].conn = c => j <= 1
    BY <1>1, <1>3, <1>11 DEF InOrder, n
  <2>2. \A i \in 2..n : channel[i].conn # c
    BY <1>1, <2>1
  <2> QED BY <1>7, <2>1, <2>2
<1>12. ASSUME NEW d \in Conn, d # c PROVE conn_state(d)' = conn_state(d)
  BY <1>8, <1>12 DEF conn_state
<1>13. kind \in {"Command", "Disconnected"} => InChannel({"Command", "Disconnected"}, c)
  BY <1>8
<1>14. kind \in {"Connected", "Command"} => conn_state(c)' = "open"
  BY <1>9, <1>10 DEF conn_state
<1>15. kind = "Connected" => conn_state(c) = "new"
  BY <1>9 DEF conn_state
<1>16. kind \in {"Command", "Disconnected"} => conn_state(c) = "open"
  BY <1>9, <1>13 DEF conn_state
<1>17. kind = "Disconnected" => conn_state(c)' = "gone"
  BY <1>9, <1>11 DEF conn_state
<1> QED BY <1>6, <1>12, <1>14, <1>15, <1>16, <1>17

----------------------------------------------------------------------------
(* The threads and the loop.                                                *)

\* A step the loop's contract does not see.
Unseen == UNCHANGED <<registry, handled>> /\ \A c \in Conn : conn_state(c)' = conn_state(c)

\* Clients, reader threads and writer threads keep the channel in order.
LEMMA ThreadSteps ==
    ASSUME ChannelInv, NEW c \in Conn,
           \/ ClientSteps(c) \/ ReaderSteps(c) \/ rejected(c) \/ WriterSteps(c)
           \/ \E n \in 0..MaxRequests : pushes(c, n)
           \/ UNCHANGED vars
    PROVE  ChannelInv' /\ Unseen
<1>1. /\ reader \in [Conn -> ReaderState] /\ client = [d \in Conn |-> client[d]]
      /\ \A d \in Conn : client[d] = "new" => reader[d] = "none"
  BY DEF ChannelInv
<1>2. CASE \/ client_sends(c) \/ WriterSteps(c) \/ UNCHANGED vars
           \/ \E n \in 0..MaxRequests : pushes(c, n)
  <2>1. UNCHANGED <<channel, handled, registry, reader, client>>
    BY <1>2 DEF client_sends, WriterSteps, writes, writer_ends, pushes, vars, socketVars,
                threadVars, loopVars
  <2> QED BY <1>1, <2>1, SilentSteps DEF Unseen
<1>3. CASE client_connects(c) \/ client_hangs_up(c) \/ rejected(c) \/ stops_reading(c)
  <2>1. /\ UNCHANGED <<channel, handled, registry>>
        /\ \/ /\ client[c] = "new" /\ client' = [client EXCEPT ![c] = "open"]
              /\ reader' = [reader EXCEPT ![c] = "starting"]
           \/ client[c] = "open" /\ client' = [client EXCEPT ![c] = "hung_up"] /\ reader' = reader
           \/ /\ reader[c] = "starting" /\ reader' = [reader EXCEPT ![c] = "rejected"]
              /\ client' = client
           \/ /\ reader[c] = "reading" /\ reader' = [reader EXCEPT ![c] = "joining"]
              /\ client' = client
    BY <1>3 DEF client_connects, client_hangs_up, rejected, stops_reading, socketVars,
                threadVars, loopVars
  <2>2. client' = [d \in Conn |-> client'[d]] /\ reader' \in [Conn -> ReaderState]
    BY <1>1, <2>1 DEF ReaderState
  <2>3. \A d \in Conn : client'[d] = "new" => reader'[d] = "none"
    BY <1>1, <2>1
  <2>4. \A d \in Conn :
              \/ reader'[d] = reader[d]
              \/ reader[d] \in {"none", "starting"} /\ reader'[d] \in {"starting", "rejected"}
              \/ reader[d] = "reading" /\ reader'[d] = "joining"
    BY <1>1, <2>1
  <2> QED BY <2>1, <2>2, <2>3, <2>4, SilentSteps DEF Unseen
<1>4. CASE registers(c)
  <2>1. /\ UNCHANGED <<client, handled, registry>> /\ reader[c] = "starting"
        /\ channel' = Append(channel, Message("Connected", c))
        /\ reader' = [reader EXCEPT ![c] = "reading"]
    BY <1>4 DEF registers, socketVars, loopVars
  <2> QED BY <2>1, SendingSteps, Zenon DEF Unseen
<1>5. CASE reads_request(c)
  <2>1. /\ UNCHANGED <<client, handled, registry>> /\ reader[c] = "reading"
        /\ channel' = Append(channel, Message("Command", c)) /\ reader' = reader
    BY <1>5 DEF reads_request, socketVars, threadVars, loopVars
  <2>2. reader' = [reader EXCEPT ![c] = "reading"]
    BY <1>1, <2>1
  <2> QED BY <2>1, <2>2, SendingSteps, Zenon DEF Unseen
<1>6. CASE reports_disconnect(c)
  <2>1. /\ UNCHANGED <<client, handled, registry>> /\ reader[c] = "joining"
        /\ channel' = Append(channel, Message("Disconnected", c))
        /\ reader' = [reader EXCEPT ![c] = "done"]
    BY <1>6 DEF reports_disconnect, socketVars, loopVars
  <2> QED BY <2>1, SendingSteps, Zenon DEF Unseen
<1> QED BY <1>2, <1>3, <1>4, <1>5, <1>6 DEF ClientSteps, ReaderSteps

\* What the loop does is what the contract lets it do.
LEMMA LoopStepsAreSteps ==
    ASSUME ChannelInv, RegistryInv, NEW c \in Conn, LoopSteps(c) \/ unregisters(c)
    PROVE  ChannelInv' /\ RegistryInv' /\ C!Next
<1>1. handled = [d \in Conn |-> handled[d]]
  BY DEF ChannelInv
<1>3. CASE handles_connected(c)
  <2>1. /\ takes("Connected", c) /\ UNCHANGED <<client, reader, handled>>
        /\ registry' = registry \cup {c}
    BY <1>3 DEF handles_connected, socketVars, threadVars
  <2>2. /\ ChannelInv' /\ conn_state(c) = "new" /\ conn_state(c)' = "open"
        /\ \A d \in Conn : d # c => conn_state(d)' = conn_state(d)
    BY <1>1, <2>1, TakingSteps
  <2>3. RegistryInv'
    BY <2>1, <2>2 DEF RegistryInv
  <2>4. [d \in Conn |-> conn_state(d)'] = [[d \in Conn |-> conn_state(d)] EXCEPT ![c] = "open"]
    BY <2>2, Zenon
  <2> QED BY <2>1, <2>2, <2>3, <2>4, Zenon DEF C!Next, C!Connected
<1>4. CASE \E defers \in BOOLEAN : handles_command(c, defers)
  <2>1. /\ takes("Command", c) /\ UNCHANGED <<client, reader, registry>>
        /\ handled' = [handled EXCEPT ![c] = @ + 1]
    BY <1>4 DEF handles_command, socketVars, threadVars
  <2>2. handled' = [d \in Conn |-> handled'[d]]
    BY <1>1, <2>1
  <2>3. /\ ChannelInv' /\ conn_state(c) = "open" /\ conn_state(c)' = "open"
        /\ \A d \in Conn : d # c => conn_state(d)' = conn_state(d)
    BY <2>1, <2>2, TakingSteps
  <2>4. RegistryInv'
    BY <2>1, <2>3 DEF RegistryInv
  <2>5. [d \in Conn |-> conn_state(d)'] = [d \in Conn |-> conn_state(d)]
    BY <2>3
  <2> QED BY <2>1, <2>3, <2>4, <2>5, Zenon DEF C!Next, C!Command
<1>5. CASE handles_disconnected(c)
  <2>1. /\ takes("Disconnected", c) /\ UNCHANGED <<client, reader, handled>>
        /\ registry' = registry \ {c}
    BY <1>5 DEF handles_disconnected, socketVars, threadVars
  <2>2. /\ ChannelInv' /\ conn_state(c) = "open" /\ conn_state(c)' = "gone"
        /\ \A d \in Conn : d # c => conn_state(d)' = conn_state(d)
    BY <1>1, <2>1, TakingSteps
  <2>3. RegistryInv'
    BY <2>1, <2>2 DEF RegistryInv
  <2>4. [d \in Conn |-> conn_state(d)'] = [[d \in Conn |-> conn_state(d)] EXCEPT ![c] = "gone"]
    BY <2>2, Zenon
  <2> QED BY <2>1, <2>2, <2>3, <2>4, Zenon DEF C!Next, C!Disconnected
<1>6. CASE unregisters(c)
  <2>1. /\ UNCHANGED <<client, reader, handled, channel>>
        /\ c \in registry /\ registry' = registry \ {c}
    BY <1>6 DEF unregisters, socketVars, threadVars
  <2>2. ChannelInv' /\ \A d \in Conn : conn_state(d)' = conn_state(d)
    BY <2>1, SilentSteps DEF ChannelInv
  <2>3. RegistryInv' /\ conn_state(c) = "open"
    BY <2>1, <2>2 DEF RegistryInv
  <2>4. [d \in Conn |-> conn_state(d)'] = [d \in Conn |-> conn_state(d)]
    BY <2>2
  <2> QED BY <2>1, <2>2, <2>3, <2>4 DEF C!Next, C!Unregistered
<1> QED BY <1>3, <1>4, <1>5, <1>6 DEF LoopSteps

----------------------------------------------------------------------------
(* The theorems.                                                            *)

\* The channel stays in order, and the registry holds open connections only.
THEOREM ChannelInvariant == Spec => [](ChannelInv /\ RegistryInv)
<1>1. Init => ChannelInv /\ RegistryInv
  BY DEF Init, ChannelInv, RegistryInv, ReaderState
<1>2. ChannelInv /\ RegistryInv /\ [Next]_vars => (ChannelInv /\ RegistryInv)'
  <2> SUFFICES ASSUME ChannelInv, RegistryInv, [Next]_vars PROVE (ChannelInv /\ RegistryInv)'
    OBVIOUS
  <2>1. ASSUME Unseen PROVE RegistryInv'
    BY <2>1 DEF Unseen, RegistryInv
  <2>2. CASE UNCHANGED vars
    <3>1. UNCHANGED <<channel, handled, reader, client, registry>>
      BY <2>2 DEF vars, socketVars, threadVars, loopVars
    <3>2. ChannelInv' /\ \A d \in Conn : conn_state(d)' = conn_state(d)
      BY <3>1, SilentSteps DEF ChannelInv
    <3> QED BY <2>1, <3>1, <3>2 DEF Unseen
  <2>3. CASE Next
    BY <2>1, <2>3, ThreadSteps, LoopStepsAreSteps DEF Next
  <2> QED BY <2>2, <2>3
<1> QED BY <1>1, <1>2, PTL DEF Spec

\* Reader threads, writer threads, the channel and the loop implement the contract of
\* Connections, for any number of connections, requests and events: no command is
\* handled, and nothing is sent, before the Connected or after the Disconnected of its
\* connection.
THEOREM KeepsOrder == Spec => KeepsConnectionOrder
<1>1. Init => C!Init
  <2> SUFFICES ASSUME Init PROVE C!Init
    OBVIOUS
  <2>1. /\ registry = {} /\ handled = [c \in Conn |-> 0]
        /\ \A c \in Conn : conn_state(c) = "new"
    BY DEF Init, conn_state
  <2> QED BY <2>1 DEF C!Init
<1>2. ChannelInv /\ RegistryInv /\ [Next]_vars => [C!Next]_(C!vars)
  <2> SUFFICES ASSUME ChannelInv, RegistryInv, [Next]_vars PROVE C!Next \/ UNCHANGED C!vars
    OBVIOUS
  <2>1. ASSUME Unseen PROVE UNCHANGED C!vars
    BY <2>1 DEF Unseen, C!vars
  <2>2. CASE UNCHANGED vars
    BY <2>2 DEF vars, socketVars, threadVars, loopVars, C!vars, conn_state, InChannel
  <2>3. CASE Next
    BY <2>1, <2>3, ThreadSteps, LoopStepsAreSteps DEF Next
  <2> QED BY <2>2, <2>3
<1> QED BY <1>1, <1>2, ChannelInvariant, PTL DEF Spec, KeepsConnectionOrder, C!Spec

----------------------------------------------------------------------------
(* The messages of a connection, in sequence.                               *)

\* A message joins the outbox, or goes from there to the client.
LEMMA Queued ==
    ASSUME NEW d \in Seq(Nat), NEW o \in Seq(Nat), NEW n \in Nat
    PROVE  d \o Append(o, n) = Append(d \o o, n)
OBVIOUS

LEMMA Moved ==
    ASSUME NEW d \in Seq(Nat), NEW o \in Seq(Nat), o # <<>>
    PROVE  Append(d, Head(o)) \o Tail(o) = d \o o
<1> DEFINE l == Append(d, Head(o)) \o Tail(o)
           r == d \o o
<1>1. l \in Seq(Nat) /\ r \in Seq(Nat) /\ Len(l) = Len(r)
  OBVIOUS
<1>2. ASSUME NEW i \in 1..Len(l) PROVE l[i] = r[i]
  BY <1>2
<1> HIDE DEF l, r
<1>3. l = [i \in 1..Len(l) |-> l[i]] /\ r = [i \in 1..Len(l) |-> r[i]]
  BY <1>1
<1>4. l = r
  BY <1>2, <1>3, Zenon
<1> QED BY <1>4 DEF l, r

\* What is at the client comes first.
LEMMA Prefix ==
    ASSUME NEW d \in Seq(Nat), NEW o \in Seq(Nat)
    PROVE  /\ \A i \in DOMAIN d : i \in DOMAIN (d \o o) /\ (d \o o)[i] = d[i]
           /\ d \o o = <<>> => d = <<>>
<1>1. Len(d) \in Nat /\ Len(o) \in Nat /\ Len(d \o o) = Len(d) + Len(o) /\ DOMAIN d = 1..Len(d)
  OBVIOUS
<1>2. ASSUME NEW i \in 1..Len(d) PROVE i \in DOMAIN (d \o o) /\ (d \o o)[i] = d[i]
  OBVIOUS
<1>3. ASSUME d \o o = <<>> PROVE d = <<>>
  <2>1. Len(d) = 0
    BY <1>1, <1>3
  <2> QED BY <2>1
<1> QED BY <1>1, <1>2, <1>3

\* The first message in the outbox comes right after them.
LEMMA FirstQueued ==
    ASSUME NEW d \in Seq(Nat), NEW o \in Seq(Nat), o # <<>>
    PROVE  Len(d) + 1 \in DOMAIN (d \o o) /\ (d \o o)[Len(d) + 1] = Head(o)
OBVIOUS

\* RepliesInOrder, of messages, a number of handled commands and the deferred ones.  With
\* none of them deferred, the responses among msgs are those to the requests 1 to n.
Ordered(msgs, n, later) ==
    LET immediate == {i \in responses(msgs) : msgs[i] \notin later}
    IN  /\ {msgs[i] : i \in immediate} = (1..n) \ later
        /\ \A i, j \in immediate : i < j => msgs[i] < msgs[j]

\* What is added to ordered messages leaves them ordered: the reply to the next command, ...
LEMMA OrderedReply ==
    ASSUME NEW msgs \in Seq(Nat), NEW n \in Nat, NEW later \in SUBSET (1..n),
           \A i \in DOMAIN msgs : msgs[i] <= n, Ordered(msgs, n, later)
    PROVE  Ordered(Append(msgs, n + 1), n + 1, later)
<1> DEFINE all == Append(msgs, n + 1)
           len == Len(msgs)
           before == {i \in responses(msgs) : msgs[i] \notin later}
           after == {i \in responses(all) : all[i] \notin later}
<1>1. /\ len \in Nat /\ DOMAIN msgs = 1..len /\ DOMAIN all = 1..(len + 1)
      /\ all[len + 1] = n + 1 /\ \A i \in 1..len : all[i] = msgs[i]
      /\ \A i \in 1..len : msgs[i] \in Nat
  OBVIOUS
<1>2. after = before \cup {len + 1}
  BY <1>1 DEF responses, is_response
<1>3. before \subseteq 1..len
  BY <1>1 DEF responses
<1>4. /\ {msgs[i] : i \in before} = (1..n) \ later
      /\ \A i, j \in before : i < j => msgs[i] < msgs[j]
  BY DEF Ordered
<1> HIDE DEF all, before, after
<1>5. {all[i] : i \in after} = {msgs[i] : i \in before} \cup {n + 1}
  BY <1>1, <1>2, <1>3, Zenon
<1>6. (1..(n + 1)) \ later = ((1..n) \ later) \cup {n + 1}
  OBVIOUS
<1>7. ASSUME NEW i \in after, NEW j \in after, i < j PROVE all[i] < all[j]
  <2>1. i \in before /\ i \in 1..len
    BY <1>1, <1>2, <1>3, <1>7
  <2>2. CASE j = len + 1
    <3>1. msgs[i] <= n /\ msgs[i] \in Nat /\ all[i] = msgs[i] /\ all[j] = n + 1
      BY <1>1, <2>1, <2>2, Zenon
    <3> QED BY <3>1
  <2>3. CASE j \in before
    <3>1. msgs[i] < msgs[j]
      BY <1>4, <1>7, <2>1, <2>3, Zenon
    <3>2. all[i] = msgs[i] /\ all[j] = msgs[j]
      BY <1>1, <1>3, <2>1, <2>3, Zenon
    <3> QED BY <3>1, <3>2
  <2> QED BY <1>2, <2>2, <2>3
<1>8. {all[i] : i \in after} = (1..(n + 1)) \ later
  BY <1>4, <1>5, <1>6, Zenon
<1> QED BY <1>7, <1>8, Zenon DEF Ordered, all, after

\* ... a command whose reply is deferred, ...
LEMMA OrderedDefer ==
    ASSUME NEW msgs \in Seq(Nat), NEW n \in Nat, NEW later \in SUBSET (1..n),
           \A i \in DOMAIN msgs : msgs[i] <= n, Ordered(msgs, n, later)
    PROVE  Ordered(msgs, n + 1, later \cup {n + 1})
<1>1. {i \in responses(msgs) : msgs[i] \notin later \cup {n + 1}}
        = {i \in responses(msgs) : msgs[i] \notin later}
  BY DEF responses
<1>2. (1..(n + 1)) \ (later \cup {n + 1}) = (1..n) \ later
  OBVIOUS
<1> QED BY <1>1, <1>2 DEF Ordered

\* ... an event or a deferred reply.
LEMMA OrderedPush ==
    ASSUME NEW msgs \in Seq(Nat), NEW n \in Nat, NEW later \in SUBSET (1..n),
           NEW m \in {0} \cup later, Ordered(msgs, n, later)
    PROVE  Ordered(Append(msgs, m), n, later)
<1> DEFINE all == Append(msgs, m)
           len == Len(msgs)
           before == {i \in responses(msgs) : msgs[i] \notin later}
           after == {i \in responses(all) : all[i] \notin later}
<1>1. /\ len \in Nat /\ DOMAIN msgs = 1..len /\ DOMAIN all = 1..(len + 1)
      /\ all[len + 1] = m /\ \A i \in 1..len : all[i] = msgs[i]
  OBVIOUS
<1>2. after = before /\ before \subseteq 1..len
  BY <1>1 DEF responses, is_response
<1>3. /\ {msgs[i] : i \in before} = (1..n) \ later
      /\ \A i, j \in before : i < j => msgs[i] < msgs[j]
  BY DEF Ordered
<1> HIDE DEF all, before, after
<1>4. \A i \in before : all[i] = msgs[i]
  BY <1>1, <1>2
<1>5. {all[i] : i \in after} = {msgs[i] : i \in before}
  BY <1>2, <1>4
<1> QED BY <1>2, <1>3, <1>4, <1>5, Zenon DEF Ordered, all, after

\* No response among them has a higher number.
LEMMA OrderedBound ==
    ASSUME NEW msgs \in Seq(Nat), NEW n \in Nat, Ordered(msgs, n, {})
    PROVE  \A i \in DOMAIN msgs : msgs[i] <= n
<1>1. {i \in responses(msgs) : msgs[i] \notin {}} = responses(msgs)
  OBVIOUS
<1>2. {msgs[i] : i \in responses(msgs)} = 1..n
  BY <1>1 DEF Ordered
<1>3. ASSUME NEW i \in DOMAIN msgs PROVE msgs[i] <= n
  <2>1. CASE msgs[i] = 0
    BY <2>1
  <2>2. CASE i \in responses(msgs)
    BY <1>2, <2>2
  <2> QED BY <2>1, <2>2 DEF responses, is_response
<1> QED BY <1>3

\* What is next in the outbox of a client that waits is an event or the next reply.
LEMMA NextToDeliver ==
    ASSUME NEW d \in Seq(Nat), NEW o \in Seq(Nat), NEW k \in Nat, NEW m \in Nat,
           Ordered(d, k, {}), Ordered(d \o o, m, {})
    PROVE  k <= m /\ (o # <<>> => Head(o) \in {0, k + 1})
<1> DEFINE all == d \o o
           len == Len(d)
           h == Head(o)
<1>1. /\ len \in Nat /\ DOMAIN d = 1..len /\ all \in Seq(Nat)
      /\ 1..len \subseteq DOMAIN all /\ \A i \in 1..len : all[i] = d[i]
  BY Prefix
<1>2. /\ {d[i] : i \in responses(d)} = 1..k
      /\ {all[i] : i \in responses(all)} = 1..m
      /\ \A i, j \in responses(all) : i < j => all[i] < all[j]
  <2>1. ASSUME NEW msgs, NEW n \in Nat, Ordered(msgs, n, {})
        PROVE  /\ {msgs[i] : i \in responses(msgs)} = 1..n
               /\ \A i, j \in responses(msgs) : i < j => msgs[i] < msgs[j]
    <3>1. {i \in responses(msgs) : msgs[i] \notin {}} = responses(msgs)
      OBVIOUS
    <3> QED BY <2>1, <3>1 DEF Ordered
  <2> QED BY <2>1, Zenon
<1>3. /\ responses(d) \subseteq responses(all) /\ responses(d) \subseteq 1..len
      /\ \A i \in responses(all) : i \in 1..len => i \in responses(d)
      /\ \A i \in responses(all) : i \in Nat \ {0} /\ all[i] \in Nat
  BY <1>1 DEF responses
<1>4. 1..k \subseteq 1..m
  BY <1>1, <1>2, <1>3, Zenon
<1>5. k <= m
  <2>1. k # 0 => k \in 1..k
    OBVIOUS
  <2>2. k # 0 => k \in 1..m
    BY <1>4, <2>1
  <2> QED BY <2>2
<1>6. ASSUME o # <<>>, h # 0 PROVE h = k + 1
  <2>1. len + 1 \in DOMAIN all /\ all[len + 1] = h /\ h \in Nat
    BY <1>6
  <2> HIDE DEF all, h, len
  <2>2. len + 1 \in responses(all)
    BY <1>6, <2>1 DEF responses, is_response
  <2>3. h \in 1..m
    BY <1>2, <2>1, <2>2, Zenon
  <2>4. k < h
    <3>1. CASE k = 0
      BY <1>6, <2>1, <3>1
    <3>2. CASE k # 0
      <4>0. k \in 1..k
        BY <3>2
      <4>1. PICK i \in responses(d) : d[i] = k
        BY <1>2, <4>0, Zenon
      <4>2. i \in responses(all) /\ i < len + 1 /\ all[i] = k
        BY <1>1, <1>3, <4>1
      <4> QED BY <1>2, <2>1, <2>2, <4>2
    <3> QED BY <3>1, <3>2
  <2>5. ASSUME k + 1 < h PROVE FALSE
    <3>0. k + 1 \in 1..m /\ k + 1 \notin 1..k
      BY <2>1, <2>3, <2>5
    <3>1. PICK j \in responses(all) : all[j] = k + 1
      BY <1>2, <3>0, Zenon
    <3>2. j \in Nat \ {0} /\ ~(len + 1 < j) /\ j # len + 1
      BY <1>2, <1>3, <2>1, <2>2, <2>5, <3>1
    <3>3. j \in 1..len
      BY <1>1, <3>2
    <3>4. j \in responses(d) /\ d[j] = k + 1
      BY <1>1, <1>3, <3>1, <3>3
    <3> QED BY <1>2, <3>0, <3>4, Zenon
  <2> QED BY <2>1, <2>4, <2>5
<1> QED BY <1>5, <1>6

----------------------------------------------------------------------------
(* What is at a client and in its outbox.                                   *)

\* dlv is at the client and out on its way there; h commands were handled, and the replies
\* to some were left for later.
Queue(dlv, out, h, later) ==
    /\ dlv \in Seq(Nat) /\ out \in Seq(Nat) /\ h \in Nat /\ later \in SUBSET (1..h)
    /\ \A i \in DOMAIN (dlv \o out) : (dlv \o out)[i] <= h

\* A message joins the outbox, ...
LEMMA JoinsQueue ==
    ASSUME NEW dlv, NEW out, NEW h, NEW later, Queue(dlv, out, h, later),
           NEW new \in Nat, NEW n \in 0..new, h \in 0..new
    PROVE  /\ Queue(dlv, Append(out, n), new, later)
           /\ Queue(dlv, out, new, later)
<1> DEFINE all == dlv \o out
<1>1. /\ dlv \in Seq(Nat) /\ out \in Seq(Nat) /\ h \in Nat /\ later \in SUBSET (1..h)
      /\ \A i \in DOMAIN all : all[i] <= h
  BY DEF Queue
<1>2. dlv \o Append(out, n) = Append(all, n) /\ all \in Seq(Nat) /\ Append(out, n) \in Seq(Nat)
  BY <1>1, Queued
<1>3. later \in SUBSET (1..new)
  BY <1>1
<1> HIDE DEF all
<1>4. \A i \in DOMAIN all : all[i] <= new
  BY <1>1, <1>2
<1>5. \A i \in DOMAIN Append(all, n) : Append(all, n)[i] <= new
  BY <1>2, <1>4
<1> QED BY <1>1, <1>2, <1>3, <1>4, <1>5, Zenon DEF Queue, all

\* ... the reply to the next command, ...
LEMMA QueueReply ==
    ASSUME NEW dlv, NEW out, NEW h, NEW later, Queue(dlv, out, h, later)
    PROVE  /\ Queue(dlv, Append(out, h + 1), h + 1, later) /\ Queue(dlv, out, h + 1, later)
           /\ Ordered(dlv \o out, h, later) => Ordered(dlv \o Append(out, h + 1), h + 1, later)
<1>1. /\ h \in Nat /\ h + 1 \in Nat /\ h \in 0..(h + 1) /\ h + 1 \in 0..(h + 1)
      /\ later \in SUBSET (1..h) /\ dlv \in Seq(Nat) /\ out \in Seq(Nat)
      /\ dlv \o out \in Seq(Nat) /\ \A i \in DOMAIN (dlv \o out) : (dlv \o out)[i] <= h
  BY DEF Queue
<1>2. Queue(dlv, Append(out, h + 1), h + 1, later) /\ Queue(dlv, out, h + 1, later)
  BY <1>1, JoinsQueue, Zenon
<1>3. dlv \o Append(out, h + 1) = Append(dlv \o out, h + 1)
  <2>1. dlv \in Seq(Nat) /\ out \in Seq(Nat) /\ h + 1 \in Nat
    BY <1>1, Zenon
  <2> QED BY <2>1, Queued, Zenon
<1>4. Ordered(dlv \o out, h, later) => Ordered(Append(dlv \o out, h + 1), h + 1, later)
  BY <1>1, OrderedReply, Zenon
<1> QED BY <1>2, <1>3, <1>4, Zenon

\* ... an event or a deferred reply; ...
LEMMA QueuePush ==
    ASSUME NEW dlv, NEW out, NEW h, NEW later, Queue(dlv, out, h, later), NEW n \in {0} \cup later
    PROVE  /\ Queue(dlv, Append(out, n), h, later)
           /\ Ordered(dlv \o out, h, later) => Ordered(dlv \o Append(out, n), h, later)
<1>1. h \in Nat /\ later \in SUBSET (1..h) /\ dlv \in Seq(Nat) /\ out \in Seq(Nat)
  BY Zenon DEF Queue
<1>2. n \in 0..h /\ h \in 0..h /\ n \in Nat
  BY <1>1
<1>3. dlv \o out \in Seq(Nat)
  BY <1>1
<1>4. Queue(dlv, Append(out, n), h, later)
  BY <1>1, <1>2, JoinsQueue, Zenon
<1>5. dlv \o Append(out, n) = Append(dlv \o out, n)
  BY <1>1, <1>2, Queued
<1>6. Ordered(dlv \o out, h, later) => Ordered(Append(dlv \o out, n), h, later)
  BY <1>1, <1>2, <1>3, OrderedPush, Zenon
<1> QED BY <1>4, <1>5, <1>6, Zenon

\* ... a command is handled and its reply deferred; ...
LEMMA QueueDefer ==
    ASSUME NEW dlv, NEW out, NEW h, NEW later, Queue(dlv, out, h, later)
    PROVE  /\ Queue(dlv, out, h + 1, later \cup {h + 1})
           /\ Ordered(dlv \o out, h, later) => Ordered(dlv \o out, h + 1, later \cup {h + 1})
<1>1. /\ h \in Nat /\ h + 1 \in Nat /\ h \in 0..(h + 1) /\ h + 1 \in 0..(h + 1)
      /\ later \in SUBSET (1..h) /\ dlv \in Seq(Nat) /\ out \in Seq(Nat)
      /\ dlv \o out \in Seq(Nat) /\ \A i \in DOMAIN (dlv \o out) : (dlv \o out)[i] <= h
  BY DEF Queue
<1>2. Queue(dlv, out, h + 1, later)
  BY <1>1, JoinsQueue, Zenon
<1>3. later \cup {h + 1} \in SUBSET (1..(h + 1))
  <2>1. \A k \in later \cup {h + 1} : k \in 1..(h + 1)
    BY <1>1
  <2> QED BY <2>1
<1>4. Ordered(dlv \o out, h, later) => Ordered(dlv \o out, h + 1, later \cup {h + 1})
  BY <1>1, OrderedDefer, Zenon
<1> QED BY <1>2, <1>3, <1>4 DEF Queue

\* ... the first message goes to the client, or all are dropped.
LEMMA QueueWrite ==
    ASSUME NEW dlv, NEW out, NEW h, NEW later, Queue(dlv, out, h, later)
    PROVE  /\ Queue(dlv, <<>>, h, later)
           /\ out # <<>> => /\ Queue(Append(dlv, Head(out)), Tail(out), h, later)
                            /\ Append(dlv, Head(out)) \o Tail(out) = dlv \o out
<1>1. /\ dlv \in Seq(Nat) /\ out \in Seq(Nat) /\ h \in Nat /\ later \in SUBSET (1..h)
      /\ \A i \in DOMAIN (dlv \o out) : (dlv \o out)[i] <= h
  BY DEF Queue
<1>2. dlv \o <<>> = dlv /\ <<>> \in Seq(Nat)
  BY <1>1
<1>3. \A i \in DOMAIN dlv : dlv[i] <= h
  BY <1>1, Prefix
<1>4. Queue(dlv, <<>>, h, later)
  BY <1>1, <1>2, <1>3 DEF Queue
<1>5. ASSUME out # <<>>
      PROVE  /\ Queue(Append(dlv, Head(out)), Tail(out), h, later)
             /\ Append(dlv, Head(out)) \o Tail(out) = dlv \o out
  <2>1. Append(dlv, Head(out)) \o Tail(out) = dlv \o out
    BY <1>1, <1>5, Moved, Zenon
  <2>2. Append(dlv, Head(out)) \in Seq(Nat) /\ Tail(out) \in Seq(Nat)
    BY <1>1, <1>5
  <2> QED BY <1>1, <2>1, <2>2, Zenon DEF Queue
<1> QED BY <1>4, <1>5, Zenon

----------------------------------------------------------------------------
(* A client that waits for each reply.                                      *)

\* Of its s requests the reader has taken r and the loop has handled h, and ret calls have
\* returned: all but the last one, if it is still waiting.  The replies at the client are
\* those to the calls that have returned; with those on their way, they are the first ones.
Calls(ret, dlv, out, h, r, s) ==
    /\ ret \in Nat /\ h \in Nat /\ r \in Nat /\ s \in Nat
    /\ dlv \in Seq(Nat) /\ out \in Seq(Nat)
    /\ Ordered(dlv, ret, {}) /\ \E m \in 0..h : Ordered(dlv \o out, m, {})
    /\ h <= r /\ r <= s /\ s <= ret + 1

\* No more calls have returned than replies were sent.
LEMMA CallsReturned ==
    ASSUME NEW ret, NEW dlv, NEW out, NEW h, NEW r, NEW s, Calls(ret, dlv, out, h, r, s)
    PROVE  /\ ret <= h
           /\ \A m \in 0..h : Ordered(dlv \o out, m, {}) => ret <= m
<1>1. /\ ret \in Nat /\ h \in Nat /\ dlv \in Seq(Nat) /\ out \in Seq(Nat)
      /\ Ordered(dlv, ret, {})
  BY DEF Calls
<1>2. ASSUME NEW m \in 0..h, Ordered(dlv \o out, m, {}) PROVE ret <= m
  <2>1. m \in Nat
    BY <1>1
  <2> QED BY <1>1, <1>2, <2>1, NextToDeliver
<1>3. PICK m \in 0..h : Ordered(dlv \o out, m, {})
  BY DEF Calls
<1>4. ret <= h
  BY <1>1, <1>2, <1>3
<1> QED BY <1>2, <1>4

\* A client whose calls have all returned sends a request.
LEMMA CallsSend ==
    ASSUME NEW dlv, NEW out, NEW h, NEW r, NEW s, Calls(s, dlv, out, h, r, s)
    PROVE  Calls(s, dlv, out, h, r, s + 1)
BY DEF Calls

\* When the reader takes a request, the loop has handled all it has taken before.
LEMMA CallsRead ==
    ASSUME NEW ret, NEW dlv, NEW out, NEW h, NEW r, NEW s, Calls(ret, dlv, out, h, r, s), r < s
    PROVE  Calls(ret, dlv, out, h, r + 1, s) /\ h = r /\ h < r + 1 /\ ~(h < r)
<1>1. ret <= h
  BY CallsReturned
<1>2. /\ ret \in Nat /\ h \in Nat /\ r \in Nat /\ s \in Nat
      /\ h <= r /\ r <= s /\ s <= ret + 1
  BY DEF Calls
<1>3. h = r /\ r + 1 \in Nat /\ h <= r + 1 /\ r + 1 <= s /\ h < r + 1 /\ ~(h < r)
  BY <1>1, <1>2
<1> QED BY <1>3 DEF Calls

\* When the loop takes a command, it has sent the replies to all before.
LEMMA CallsHandle ==
    ASSUME NEW ret, NEW dlv, NEW out, NEW h, NEW r, NEW s, Calls(ret, dlv, out, h, r, s), h < r
    PROVE  /\ Calls(ret, dlv, out, h + 1, r, s)
           /\ Calls(ret, dlv, Append(out, h + 1), h + 1, r, s)
<1>1. /\ ret \in Nat /\ h \in Nat /\ r \in Nat /\ s \in Nat /\ dlv \in Seq(Nat) /\ out \in Seq(Nat)
      /\ Ordered(dlv, ret, {}) /\ h <= r /\ r <= s /\ s <= ret + 1
  BY DEF Calls
<1>2. PICK m \in 0..h : Ordered(dlv \o out, m, {})
  BY DEF Calls
<1>3. ret <= m
  BY <1>2, CallsReturned
<1>4. m = h /\ m \in Nat /\ m \in 0..(h + 1) /\ h + 1 \in 0..(h + 1) /\ h + 1 \in Nat /\ h + 1 <= r
  BY <1>1, <1>2, <1>3
<1>5. /\ dlv \o out \in Seq(Nat) /\ dlv \o Append(out, h + 1) = Append(dlv \o out, h + 1)
      /\ Append(out, h + 1) \in Seq(Nat)
  <2>1. dlv \in Seq(Nat) /\ out \in Seq(Nat) /\ h + 1 \in Nat
    BY <1>1, <1>4, Zenon
  <2>2. dlv \o Append(out, h + 1) = Append(dlv \o out, h + 1)
    BY <2>1, Queued, Zenon
  <2>3. dlv \o out \in Seq(Nat) /\ Append(out, h + 1) \in Seq(Nat)
    BY <2>1
  <2> QED BY <2>2, <2>3, Zenon
<1>6. \A i \in DOMAIN (dlv \o out) : (dlv \o out)[i] <= h
  BY <1>2, <1>4, <1>5, OrderedBound, Zenon
<1>7. {} \in SUBSET (1..h)
  OBVIOUS
<1>8. Ordered(dlv \o Append(out, h + 1), h + 1, {})
  BY <1>1, <1>2, <1>4, <1>5, <1>6, <1>7, OrderedReply, Zenon
<1>9. Calls(ret, dlv, out, h + 1, r, s)
  BY <1>1, <1>2, <1>4 DEF Calls
<1> QED BY <1>1, <1>4, <1>5, <1>8, <1>9 DEF Calls

\* A reply that was deferred is the next one when it is sent.
LEMMA CallsPush ==
    ASSUME NEW ret, NEW dlv, NEW out, NEW h, NEW r, NEW s, Calls(ret, dlv, out, h, r, s),
           NEW n \in 0..h, n # 0 => n \notin Range(dlv \o out)
    PROVE  Calls(ret, dlv, Append(out, n), h, r, s)
<1>1. /\ ret \in Nat /\ h \in Nat /\ r \in Nat /\ s \in Nat /\ dlv \in Seq(Nat) /\ out \in Seq(Nat)
      /\ Ordered(dlv, ret, {}) /\ h <= r /\ r <= s /\ s <= ret + 1
  BY DEF Calls
<1>2. PICK m \in 0..h : Ordered(dlv \o out, m, {})
  BY DEF Calls
<1>3. ret <= m /\ m \in Nat /\ n \in Nat
  <2>1. ret <= m
    BY <1>2, CallsReturned, Zenon
  <2> QED BY <1>1, <2>1
<1>4. /\ dlv \o out \in Seq(Nat) /\ dlv \o Append(out, n) = Append(dlv \o out, n)
      /\ Append(out, n) \in Seq(Nat)
  <2>1. dlv \o Append(out, n) = Append(dlv \o out, n)
    BY <1>1, <1>3, Queued, Zenon
  <2>2. dlv \o out \in Seq(Nat)
    BY <1>1
  <2>3. Append(out, n) \in Seq(Nat)
    BY <1>1, <1>3
  <2> QED BY <2>1, <2>2, <2>3
<1> {} \in SUBSET (1..m)
  OBVIOUS
<1>5. CASE n = 0
  <2>1. Ordered(dlv \o Append(out, n), m, {})
    BY <1>2, <1>3, <1>4, <1>5, OrderedPush, Zenon
  <2> QED BY <1>1, <1>4, <2>1 DEF Calls
<1>6. CASE n # 0
  <2>1. 1..m \subseteq Range(dlv \o out)
    BY <1>2, Zenon DEF Ordered, Range, responses
  <2>2. n = m + 1 /\ m + 1 \in 0..h
    BY <1>1, <1>2, <1>3, <1>6, <2>1
  <2>3. \A i \in DOMAIN (dlv \o out) : (dlv \o out)[i] <= m
    BY <1>2, <1>3, <1>4, OrderedBound, Zenon
  <2>4. Ordered(dlv \o Append(out, n), m + 1, {})
    BY <1>2, <1>3, <1>4, <2>2, <2>3, OrderedReply, Zenon
  <2> QED BY <1>1, <1>4, <2>2, <2>4 DEF Calls
<1> QED BY <1>5, <1>6

\* The client gets an event, or the reply to the call it waits in; or the outbox is lost.
LEMMA CallsWrite ==
    ASSUME NEW ret, NEW dlv, NEW out, NEW h, NEW r, NEW s, Calls(ret, dlv, out, h, r, s)
    PROVE  /\ Calls(ret, dlv, <<>>, h, r, s)
           /\ out # <<>> /\ Head(out) = 0 => Calls(ret, Append(dlv, Head(out)), Tail(out), h, r, s)
           /\ out # <<>> /\ Head(out) # 0
                => Calls(ret + 1, Append(dlv, Head(out)), Tail(out), h, r, s) /\ s = ret + 1
<1>1. /\ ret \in Nat /\ h \in Nat /\ r \in Nat /\ s \in Nat /\ dlv \in Seq(Nat) /\ out \in Seq(Nat)
      /\ Ordered(dlv, ret, {}) /\ h <= r /\ r <= s /\ s <= ret + 1
  BY DEF Calls
<1>2. PICK m \in 0..h : Ordered(dlv \o out, m, {})
  BY DEF Calls
<1>3. ret <= m /\ m \in Nat /\ ret \in 0..h /\ m <= h
  <2>1. ret <= m /\ ret <= h
    BY <1>2, CallsReturned, Zenon
  <2> QED BY <1>1, <2>1
<1>4. Calls(ret, dlv, <<>>, h, r, s)
  <2>1. dlv \o <<>> = dlv /\ <<>> \in Seq(Nat)
    BY <1>1
  <2> QED BY <1>1, <1>3, <2>1 DEF Calls
<1> {} \in SUBSET (1..ret)
  OBVIOUS
<1>5. ASSUME out # <<>>
      PROVE  /\ Append(dlv, Head(out)) \o Tail(out) = dlv \o out
             /\ Append(dlv, Head(out)) \in Seq(Nat) /\ Tail(out) \in Seq(Nat)
             /\ Head(out) \in {0, ret + 1}
  <2>1. Append(dlv, Head(out)) \o Tail(out) = dlv \o out
    BY <1>1, <1>5, Moved, Zenon
  <2>2. Append(dlv, Head(out)) \in Seq(Nat) /\ Tail(out) \in Seq(Nat)
    BY <1>1, <1>5
  <2> QED BY <1>1, <1>2, <1>3, <1>5, <2>1, <2>2, NextToDeliver, Zenon
<1>6. ASSUME out # <<>>, Head(out) = 0
      PROVE  Calls(ret, Append(dlv, Head(out)), Tail(out), h, r, s)
  <2>1. Ordered(Append(dlv, Head(out)), ret, {})
    BY <1>1, <1>6, OrderedPush
  <2> QED BY <1>1, <1>2, <1>5, <1>6, <2>1, Zenon DEF Calls
<1>7. ASSUME out # <<>>, Head(out) # 0
      PROVE  Calls(ret + 1, Append(dlv, Head(out)), Tail(out), h, r, s) /\ s = ret + 1
  <2>1. Head(out) = ret + 1
    BY <1>5, <1>7
  <2>2. \A i \in DOMAIN dlv : dlv[i] <= ret
    BY <1>1, OrderedBound
  <2>3. Ordered(Append(dlv, Head(out)), ret + 1, {})
    BY <1>1, <2>1, <2>2, OrderedReply
  <2>4. ret + 1 <= m
    <3>1. dlv \o out \in Seq(Nat)
      BY <1>1
    <3>2. \A i \in DOMAIN (dlv \o out) : (dlv \o out)[i] <= m
      BY <1>2, <1>3, <3>1, OrderedBound, Zenon
    <3>3. Len(dlv) + 1 \in DOMAIN (dlv \o out) /\ (dlv \o out)[Len(dlv) + 1] = Head(out)
      BY <1>1, <1>7, FirstQueued
    <3> QED BY <2>1, <3>2, <3>3
  <2>5. s = ret + 1 /\ ret + 1 \in Nat /\ s <= ret + 1 + 1
    BY <1>1, <1>3, <2>4
  <2> QED BY <1>1, <1>2, <1>5, <1>7, <2>3, <2>5, Zenon DEF Calls
<1> QED BY <1>4, <1>6, <1>7

----------------------------------------------------------------------------
(* The invariant of requests and replies.                                   *)

\* The commands of c that wait on the channel, at most one of a client that waits.
Waiting(c) == {i \in 1..Len(channel) : channel[i].kind = "Command" /\ channel[i].conn = c}
OneWaiting(c) == \A i, j \in Waiting(c) : i = j

\* The calls of c that have returned.
Returned(c) == IF c \in calling THEN sent[c] - 1 ELSE sent[c]

\* A client that waits for each reply has at most one request that is not answered.
CallInv(c) ==
    /\ Calls(Returned(c), delivered[c], outbox[c], handled[c], read[c], sent[c])
    /\ Waiting(c) # {} => handled[c] < read[c]
    /\ OneWaiting(c)

\* What is known of c; nothing was handled or sent before the loop has heard of it.
ReplyInvAt(c) ==
    /\ Queue(delivered[c], outbox[c], handled[c], deferred[c])
    /\ conn_state(c) = "new" => handled[c] = 0 /\ delivered[c] = <<>> /\ outbox[c] = <<>>
    /\ c \in registry /\ writer[c] = "running"
         => Ordered(delivered[c] \o outbox[c], handled[c], deferred[c])
    /\ c \in Caller => CallInv(c)

Tables ==
    /\ DOMAIN sent = Conn /\ DOMAIN read = Conn /\ DOMAIN handled = Conn /\ DOMAIN writer = Conn
    /\ DOMAIN deferred = Conn /\ DOMAIN outbox = Conn /\ DOMAIN delivered = Conn

ReplyInv == Tables /\ \A c \in Conn : ReplyInvAt(c)

\* The commands on the channel after a send ...
LEMMA WaitingSent ==
    ASSUME channel \in Seq(Messages), NEW kind \in {"Connected", "Command", "Disconnected"},
           NEW c \in Conn, channel' = Append(channel, Message(kind, c)), NEW d
    PROVE  Waiting(d)' = Waiting(d) \cup (IF kind = "Command" /\ d = c THEN {Len(channel) + 1}
                                          ELSE {})
<1>1. Message(kind, c) \in Messages /\ Message(kind, c).kind = kind /\ Message(kind, c).conn = c
  BY DEF Message, Messages
<1>2. /\ Len(channel) \in Nat /\ Len(channel') = Len(channel) + 1
      /\ \A i \in 1..Len(channel) : channel'[i] = channel[i]
      /\ channel'[Len(channel) + 1] = Message(kind, c)
  BY <1>1, Appended
<1> QED BY <1>1, <1>2 DEF Waiting

\* ... and after the loop has taken the first message.
LEMMA WaitingTaken ==
    ASSUME channel \in Seq(Messages), NEW kind, NEW c, takes(kind, c), NEW d, OneWaiting(d)
    PROVE  /\ OneWaiting(d)'
           /\ Waiting(d)' # {} => Waiting(d) # {}
           /\ kind = "Command" /\ d = c => Waiting(d) # {} /\ Waiting(d)' = {}
<1>1. /\ Len(channel) \in Nat \ {0} /\ Len(channel') = Len(channel) - 1
      /\ \A i \in 1..Len(channel') : channel'[i] = channel[i + 1]
      /\ channel[1].kind = kind /\ channel[1].conn = c
  BY Taken
<1>2. ASSUME NEW i \in Waiting(d)' PROVE i + 1 \in Waiting(d) /\ i \in Nat \ {0}
  BY <1>1 DEF Waiting
<1>3. kind = "Command" /\ d = c => 1 \in Waiting(d)
  BY <1>1 DEF Waiting
<1>4. OneWaiting(d)'
  <2>1. ASSUME NEW i \in Waiting(d)', NEW j \in Waiting(d)' PROVE i = j
    <3>1. i + 1 = j + 1
      BY <1>2 DEF OneWaiting
    <3> QED BY <1>2, <3>1
  <2> QED BY <2>1 DEF OneWaiting
<1>5. ASSUME kind = "Command", d = c, NEW i \in Waiting(d)' PROVE FALSE
  <2>1. i + 1 = 1
    BY <1>2, <1>3, <1>5 DEF OneWaiting
  <2> QED BY <1>2, <2>1
<1> QED BY <1>2, <1>3, <1>4, <1>5

\* A step that does not touch the requests and replies of d, ...
SameMessages(d) ==
    /\ sent'[d] = sent[d] /\ read'[d] = read[d] /\ handled'[d] = handled[d]
    /\ deferred'[d] = deferred[d] /\ outbox'[d] = outbox[d] /\ delivered'[d] = delivered[d]
    /\ d \in calling' <=> d \in calling

\* ... and one that adds none of its commands to the channel.
CommandsKept(d) == d \in Caller => OneWaiting(d)' /\ (Waiting(d)' # {} => Waiting(d) # {})

\* Such a step keeps what is known of d: it starts the writer or registers the connection only
\* before the first reply.
LEMMA LeftAlone ==
    ASSUME NEW d \in Conn, ReplyInvAt(d),
           SameMessages(d), CommandsKept(d),
           conn_state(d)' = "new" => conn_state(d) = "new",
           d \in registry' /\ writer'[d] = "running"
             => conn_state(d) = "new" \/ (d \in registry /\ writer[d] = "running")
    PROVE  ReplyInvAt(d)'
<1> USE DEF SameMessages
<1>1. Returned(d)' = Returned(d)
  BY DEF Returned
<1>2. d \in Caller => CallInv(d)'
  BY <1>1 DEF ReplyInvAt, CallInv, CommandsKept
<1>3. ASSUME conn_state(d) = "new"
      PROVE  Ordered(delivered[d] \o outbox[d], handled[d], deferred[d])
  <2>1. handled[d] = 0 /\ delivered[d] = <<>> /\ outbox[d] = <<>>
    BY <1>3 DEF ReplyInvAt
  <2>2. deferred[d] = {}
    BY <2>1 DEF ReplyInvAt, Queue
  <2>3. <<>> \o <<>> = <<>> /\ responses(<<>>) = {}
    BY DEF responses
  <2> QED BY <2>1, <2>2, <2>3 DEF Ordered
<1>4. d \in registry' /\ writer'[d] = "running"
        => Ordered(delivered[d] \o outbox[d], handled[d], deferred[d])
  BY <1>3 DEF ReplyInvAt
<1> QED BY <1>2, <1>4 DEF ReplyInvAt

\* What ReplyInv says of the queue of c ...
LEMMA QueueKnown ==
    ASSUME ReplyInv, NEW c \in Conn
    PROVE  /\ Queue(delivered[c], outbox[c], handled[c], deferred[c])
           /\ c \in registry /\ writer[c] = "running"
                => Ordered(delivered[c] \o outbox[c], handled[c], deferred[c])
BY DEF ReplyInv, ReplyInvAt

\* ... and of its calls.
LEMMA CallsKnown ==
    ASSUME ReplyInv, NEW c \in Conn, c \in Caller
    PROVE  /\ Calls(Returned(c), delivered[c], outbox[c], handled[c], read[c], sent[c])
           /\ Waiting(c) # {} => handled[c] < read[c]
<1>1. CallInv(c)
  BY DEF ReplyInv, ReplyInvAt
<1> QED BY <1>1 DEF CallInv

\* If nothing else happens to any connection but c, only c is left to look at.
LEMMA Elsewhere ==
    ASSUME ReplyInv, Tables', NEW c \in Conn, ReplyInvAt(c)',
           \A d \in Conn : d # c =>
              /\ SameMessages(d) /\ CommandsKept(d) /\ conn_state(d)' = conn_state(d)
              /\ writer'[d] = writer[d] /\ (d \in registry' <=> d \in registry)
    PROVE  ReplyInv'
<1>1. ASSUME NEW d \in Conn, d # c PROVE ReplyInvAt(d)'
  <2>1. ReplyInvAt(d)
    BY DEF ReplyInv
  <2> QED BY <1>1, <2>1, LeftAlone
<1> QED BY <1>1 DEF ReplyInv

\* The commands on the channel stay if the channel does, and go when they are taken.
LEMMA SameChannel ==
    ASSUME ReplyInv, UNCHANGED channel, NEW d \in Conn
    PROVE  Waiting(d)' = Waiting(d) /\ CommandsKept(d)
<1>1. Waiting(d)' = Waiting(d)
  BY DEF Waiting
<1>2. d \in Caller => OneWaiting(d)
  BY DEF ReplyInv, ReplyInvAt, CallInv
<1> QED BY <1>1, <1>2 DEF CommandsKept, OneWaiting

LEMMA TakenChannel ==
    ASSUME ReplyInv, ChannelInv, NEW kind, NEW c, takes(kind, c), NEW d \in Conn
    PROVE  /\ CommandsKept(d)
           /\ kind = "Command" /\ d = c /\ d \in Caller => Waiting(d) # {} /\ Waiting(d)' = {}
<1>1. d \in Caller => OneWaiting(d)
  BY DEF ReplyInv, ReplyInvAt, CallInv
<1>2. channel \in Seq(Messages)
  BY DEF ChannelInv
<1> QED BY <1>1, <1>2, WaitingTaken DEF CommandsKept

----------------------------------------------------------------------------
(* The steps.                                                               *)

\* A client writes a request: one that waits for its replies has them all.
LEMMA SendsRequest ==
    ASSUME ReplyInv, NEW c \in Conn, client_sends(c) PROVE ReplyInv'
<1>1. /\ UNCHANGED <<read, writer, channel, registry, handled, deferred, outbox, delivered, reader>>
      /\ sent' = [sent EXCEPT ![c] = @ + 1]
      /\ c \notin calling /\ calling' = calling \cup ({c} \cap Caller)
  BY DEF client_sends, threadVars, loopVars
<1>2. /\ Tables' /\ sent'[c] = sent[c] + 1
      /\ \A d \in Conn : d # c => SameMessages(d)
  BY <1>1 DEF ReplyInv, Tables, SameMessages
<1>3. \A d \in Conn : conn_state(d)' = conn_state(d)
  BY <1>1 DEF conn_state, InChannel
<1>4. \A d \in Conn : Waiting(d)' = Waiting(d) /\ CommandsKept(d)
  BY <1>1, SameChannel, Zenon
<1>5. ReplyInvAt(c)
  BY DEF ReplyInv
<1>6. ASSUME c \in Caller PROVE CallInv(c)'
  <2>1. /\ Calls(sent[c], delivered[c], outbox[c], handled[c], read[c], sent[c])
        /\ Waiting(c) # {} => handled[c] < read[c]
    BY <1>1, <1>5, <1>6 DEF ReplyInvAt, CallInv, Returned
  <2>2. Calls(sent[c], delivered[c], outbox[c], handled[c], read[c], sent[c] + 1)
    BY <2>1, CallsSend
  <2>3. Returned(c)' = sent[c]
    <3>1. c \in calling'
      BY <1>1, <1>6
    <3>2. sent'[c] - 1 = sent[c]
      <4>1. sent[c] \in Nat
        BY <2>1 DEF Calls
      <4> QED BY <1>2, <4>1
    <3> QED BY <3>1, <3>2 DEF Returned
  <2> QED BY <1>1, <1>2, <1>4, <1>6, <2>1, <2>2, <2>3 DEF CallInv, CommandsKept
<1>7. ReplyInvAt(c)'
  BY <1>1, <1>3, <1>5, <1>6 DEF ReplyInvAt
<1> QED BY <1>1, <1>2, <1>3, <1>4, <1>7, Elsewhere

\* The reader forwards a request: of a client that waits, no other is on the channel.
LEMMA ReadsRequest ==
    ASSUME ReplyInv, ChannelInv, NEW c \in Conn, reads_request(c) PROVE ReplyInv'
<1>1. /\ UNCHANGED <<calling, sent, writer, registry, handled, deferred, outbox, delivered>>
      /\ channel' = Append(channel, Message("Command", c)) /\ read' = [read EXCEPT ![c] = @ + 1]
      /\ read[c] < sent[c]
  BY DEF reads_request, read_message, threadVars, loopVars, socketVars
<1>2. /\ Tables' /\ read'[c] = read[c] + 1
      /\ \A d \in Conn : d # c => SameMessages(d)
  BY <1>1 DEF ReplyInv, Tables, SameMessages
<1>3. \A d \in Conn : conn_state(d)' = conn_state(d)
  BY ThreadSteps DEF ReaderSteps, Unseen
<1>4. /\ \A d : d # c => Waiting(d)' = Waiting(d)
      /\ Waiting(c)' = Waiting(c) \cup {Len(channel) + 1}
  <2>1. channel \in Seq(Messages)
    BY DEF ChannelInv
  <2>2. ASSUME NEW d
        PROVE  Waiting(d)' = Waiting(d) \cup (IF "Command" = "Command" /\ d = c
                                              THEN {Len(channel) + 1} ELSE {})
    BY <1>1, <2>1, WaitingSent
  <2> QED BY <2>2
<1>5. \A d \in Conn : d # c => CommandsKept(d)
  BY <1>4 DEF CommandsKept, OneWaiting, ReplyInv, ReplyInvAt, CallInv
<1>6. ReplyInvAt(c)
  BY DEF ReplyInv
<1>7. ASSUME c \in Caller PROVE CallInv(c)'
  <2>1. /\ Calls(Returned(c), delivered[c], outbox[c], handled[c], read[c], sent[c])
        /\ Waiting(c) # {} => handled[c] < read[c]
    BY <1>7, CallsKnown
  <2>2. /\ Calls(Returned(c), delivered[c], outbox[c], handled[c], read[c] + 1, sent[c])
        /\ handled[c] < read[c] + 1 /\ ~(handled[c] < read[c])
    BY <1>1, <2>1, CallsRead
  <2>3. OneWaiting(c)'
    BY <1>4, <2>1, <2>2 DEF OneWaiting
  <2>4. Returned(c)' = Returned(c)
    BY <1>1 DEF Returned
  <2> QED BY <1>1, <1>2, <2>2, <2>3, <2>4 DEF CallInv
<1>8. ReplyInvAt(c)'
  BY <1>1, <1>3, <1>6, <1>7 DEF ReplyInvAt
<1> QED BY <1>1, <1>2, <1>3, <1>5, <1>8, Elsewhere

\* What sends does to the outboxes.
LEMMA Sent ==
    ASSUME Tables, NEW c \in Conn, NEW n, sends(c, n)
    PROVE  /\ DOMAIN outbox' = Conn
           /\ \A d \in Conn : d # c => outbox'[d] = outbox[d]
           /\ outbox'[c] = IF c \in registry /\ writer[c] = "running"
                           THEN Append(outbox[c], n) ELSE outbox[c]
BY DEF sends, Tables

\* The loop handles a command: a client that waits is owed just this reply.
LEMMA HandlesCommand ==
    ASSUME ReplyInv, ChannelInv, NEW c \in Conn, NEW defers \in BOOLEAN,
           handles_command(c, defers)
    PROVE  ReplyInv'
<1>1. /\ UNCHANGED <<calling, sent, read, delivered, writer, registry, client, reader>>
      /\ takes("Command", c) /\ handled' = [handled EXCEPT ![c] = @ + 1]
  BY DEF handles_command, socketVars, threadVars
<1>2. /\ Tables /\ DOMAIN handled' = Conn /\ handled'[c] = handled[c] + 1
      /\ \A d \in Conn : d # c => handled'[d] = handled[d]
      /\ handled' = [d \in Conn |-> handled'[d]]
  BY <1>1, Zenon DEF ReplyInv, Tables
<1>3. conn_state(c)' = "open" /\ \A d \in Conn : d # c => conn_state(d)' = conn_state(d)
  BY <1>1, <1>2, TakingSteps
<1>4. /\ \A d \in Conn : CommandsKept(d)
      /\ c \in Caller => Waiting(c) # {} /\ Waiting(c)' = {}
  BY <1>1, TakenChannel
<1>5. \/ /\ defers /\ DOMAIN deferred' = Conn /\ outbox' = outbox
         /\ deferred'[c] = deferred[c] \cup {handled[c] + 1}
         /\ \A d \in Conn : d # c => deferred'[d] = deferred[d]
      \/ ~defers /\ deferred' = deferred /\ sends(c, handled[c] + 1)
  BY <1>2 DEF handles_command, Tables
<1>6. /\ Tables' /\ \A d \in Conn : d # c => SameMessages(d)
      /\ \/ /\ outbox'[c] = outbox[c] /\ deferred'[c] = deferred[c] \cup {handled[c] + 1}
         \/ /\ outbox'[c] = Append(outbox[c], handled[c] + 1) /\ deferred'[c] = deferred[c]
         \/ /\ outbox'[c] = outbox[c] /\ deferred'[c] = deferred[c]
            /\ ~(c \in registry /\ writer[c] = "running")
  <2>1. DOMAIN deferred' = Conn /\ DOMAIN outbox' = Conn
        /\ \A d \in Conn : d # c => deferred'[d] = deferred[d] /\ outbox'[d] = outbox[d]
    BY <1>2, <1>5, Sent DEF Tables
  <2>2. Tables'
    BY <1>1, <1>2, <2>1 DEF Tables
  <2>3. \A d \in Conn : d # c => SameMessages(d)
    BY <1>1, <1>2, <2>1 DEF SameMessages
  <2>4. \/ /\ outbox'[c] = outbox[c] /\ deferred'[c] = deferred[c] \cup {handled[c] + 1}
        \/ /\ outbox'[c] = Append(outbox[c], handled[c] + 1) /\ deferred'[c] = deferred[c]
        \/ /\ outbox'[c] = outbox[c] /\ deferred'[c] = deferred[c]
           /\ ~(c \in registry /\ writer[c] = "running")
    <3>1. CASE deferred' = deferred /\ sends(c, handled[c] + 1)
      <4>1. outbox'[c] = IF c \in registry /\ writer[c] = "running"
                         THEN Append(outbox[c], handled[c] + 1) ELSE outbox[c]
        BY <1>2, <3>1, Sent
      <4> QED BY <3>1, <4>1
    <3> QED BY <1>5, <3>1
  <2> QED BY <2>2, <2>3, <2>4
<1>7. ReplyInvAt(c)
  BY DEF ReplyInv
<1>8. ASSUME c \in Caller PROVE CallInv(c)'
  <2>1. /\ Calls(Returned(c), delivered[c], outbox[c], handled[c], read[c], sent[c])
        /\ handled[c] < read[c]
    BY <1>4, <1>8, CallsKnown
  <2>2. /\ Calls(Returned(c), delivered[c], outbox[c], handled[c] + 1, read[c], sent[c])
        /\ Calls(Returned(c), delivered[c], Append(outbox[c], handled[c] + 1), handled[c] + 1,
                 read[c], sent[c])
    BY <2>1, CallsHandle
  <2>3. Returned(c)' = Returned(c)
    BY <1>1 DEF Returned
  <2>4. Calls(Returned(c), delivered[c], outbox'[c], handled'[c], read[c], sent[c])
    BY <1>2, <1>6, <2>2, Zenon
  <2> QED BY <1>1, <1>4, <1>8, <2>3, <2>4 DEF CallInv, CommandsKept
<1>9. /\ Queue(delivered[c], outbox'[c], handled'[c], deferred'[c])
      /\ c \in registry /\ writer[c] = "running"
           => Ordered(delivered[c] \o outbox'[c], handled'[c], deferred'[c])
  <2>1. /\ Queue(delivered[c], outbox[c], handled[c], deferred[c])
        /\ c \in registry /\ writer[c] = "running"
             => Ordered(delivered[c] \o outbox[c], handled[c], deferred[c])
    BY QueueKnown
  <2>2. /\ Queue(delivered[c], outbox[c], handled[c] + 1, deferred[c] \cup {handled[c] + 1})
        /\ Ordered(delivered[c] \o outbox[c], handled[c], deferred[c])
             => Ordered(delivered[c] \o outbox[c], handled[c] + 1, deferred[c] \cup {handled[c] + 1})
    BY <2>1, QueueDefer
  <2>3. /\ Queue(delivered[c], Append(outbox[c], handled[c] + 1), handled[c] + 1, deferred[c])
        /\ Queue(delivered[c], outbox[c], handled[c] + 1, deferred[c])
        /\ Ordered(delivered[c] \o outbox[c], handled[c], deferred[c])
             => Ordered(delivered[c] \o Append(outbox[c], handled[c] + 1), handled[c] + 1, deferred[c])
    BY <2>1, QueueReply
  <2> QED BY <1>2, <1>6, <2>1, <2>2, <2>3, Zenon
<1>10. ReplyInvAt(c)'
  BY <1>1, <1>3, <1>8, <1>9 DEF ReplyInvAt
<1> QED BY <1>1, <1>3, <1>4, <1>6, <1>10, Elsewhere

\* The loop pushes an event or a reply it has deferred: a client that waits is owed just
\* this one.
LEMMA PushesMessage ==
    ASSUME ReplyInv, RegistryInv, NEW c \in Conn, NEW n, pushes(c, n) PROVE ReplyInv'
<1>1. /\ UNCHANGED <<calling, sent, read, delivered, writer, registry, handled, deferred, channel, reader>>
      /\ c \in registry /\ sends(c, n)
      /\ n = 0 \/ (n \in deferred[c] /\ n \notin Range(delivered[c] \o outbox[c]))
  BY DEF pushes, socketVars, threadVars
<1>2. conn_state(c) = "open" /\ \A d \in Conn : conn_state(d)' = conn_state(d)
  BY <1>1 DEF RegistryInv, conn_state, InChannel
<1>3. Tables /\ ReplyInvAt(c)
  BY DEF ReplyInv
<1>4. /\ DOMAIN outbox' = Conn /\ \A d \in Conn : d # c => outbox'[d] = outbox[d]
      /\ outbox'[c] \in {outbox[c], Append(outbox[c], n)}
  BY <1>1, <1>3, Sent, Zenon
<1>5. Tables' /\ \A d \in Conn : d # c => SameMessages(d)
  BY <1>1, <1>3, <1>4 DEF Tables, SameMessages
<1>6. \A d \in Conn : CommandsKept(d) /\ Waiting(d)' = Waiting(d)
  BY <1>1, SameChannel, Zenon
<1>7. /\ Queue(delivered[c], outbox'[c], handled[c], deferred[c])
      /\ c \in registry /\ writer[c] = "running"
           => Ordered(delivered[c] \o outbox'[c], handled[c], deferred[c])
  <2>1. /\ Queue(delivered[c], outbox[c], handled[c], deferred[c])
        /\ c \in registry /\ writer[c] = "running"
             => Ordered(delivered[c] \o outbox[c], handled[c], deferred[c])
    BY QueueKnown
  <2>2. n \in {0} \cup deferred[c]
    BY <1>1
  <2>3. /\ Queue(delivered[c], Append(outbox[c], n), handled[c], deferred[c])
        /\ Ordered(delivered[c] \o outbox[c], handled[c], deferred[c])
             => Ordered(delivered[c] \o Append(outbox[c], n), handled[c], deferred[c])
    BY <2>1, <2>2, QueuePush
  <2> QED BY <1>4, <2>1, <2>3, Zenon
<1>8. ASSUME c \in Caller PROVE CallInv(c)'
  <2>1. /\ Calls(Returned(c), delivered[c], outbox[c], handled[c], read[c], sent[c])
        /\ Waiting(c) # {} => handled[c] < read[c]
    BY <1>8, CallsKnown, Zenon
  <2>2. n \in 0..handled[c] /\ (n # 0 => n \notin Range(delivered[c] \o outbox[c]))
    <3>1. deferred[c] \in SUBSET (1..handled[c]) /\ handled[c] \in Nat
      BY <1>3 DEF ReplyInvAt, Queue
    <3> QED BY <1>1, <3>1
  <2>3. Calls(Returned(c), delivered[c], Append(outbox[c], n), handled[c], read[c], sent[c])
    BY <2>1, <2>2, CallsPush
  <2>4. Calls(Returned(c), delivered[c], outbox'[c], handled[c], read[c], sent[c])
    BY <1>4, <2>1, <2>3, Zenon
  <2>5. Returned(c)' = Returned(c)
    BY <1>1 DEF Returned
  <2> QED BY <1>1, <1>6, <1>8, <2>1, <2>4, <2>5, Zenon DEF CallInv, CommandsKept
<1>9. ReplyInvAt(c)'
  BY <1>1, <1>2, <1>7, <1>8 DEF ReplyInvAt
<1> QED BY <1>1, <1>2, <1>5, <1>6, <1>9, Elsewhere

\* The writer writes a message, or cannot and takes the rest of the outbox with it.
LEMMA WritesMessage ==
    ASSUME ReplyInv, NEW c \in Conn, writes(c) PROVE ReplyInv'
<1>1. /\ UNCHANGED <<sent, read, registry, handled, deferred, channel, reader>>
      /\ outbox[c] # <<>>
  BY DEF writes, loopVars
<1>2. \/ /\ delivered' = [delivered EXCEPT ![c] = Append(@, Head(outbox[c]))]
          /\ outbox' = [outbox EXCEPT ![c] = Tail(@)] /\ writer' = writer
          /\ calling' = IF Head(outbox[c]) # 0 THEN calling \ {c} ELSE calling
       \/ /\ writer' = [writer EXCEPT ![c] = "done"]
          /\ outbox' = [outbox EXCEPT ![c] = <<>>] /\ delivered' = delivered
          /\ calling' = calling
  BY DEF writes, call_returns, is_response
<1>3. Tables /\ ReplyInvAt(c)
  BY DEF ReplyInv
<1>4. Tables' /\ \A d \in Conn : d # c => SameMessages(d) /\ writer'[d] = writer[d]
  BY <1>1, <1>3, <1>2 DEF Tables, SameMessages
<1>5. \/ /\ delivered'[c] = Append(delivered[c], Head(outbox[c])) /\ outbox'[c] = Tail(outbox[c])
         /\ writer'[c] = writer[c]
         /\ calling' = IF Head(outbox[c]) # 0 THEN calling \ {c} ELSE calling
      \/ /\ delivered'[c] = delivered[c] /\ outbox'[c] = <<>> /\ writer'[c] = "done"
         /\ calling' = calling
  BY <1>3, <1>2 DEF Tables
<1>6. \A d \in Conn : conn_state(d)' = conn_state(d)
  BY <1>1 DEF conn_state, InChannel
<1>7. \A d \in Conn : CommandsKept(d) /\ Waiting(d)' = Waiting(d)
  BY <1>1, SameChannel, Zenon
<1>8. /\ Queue(delivered'[c], outbox'[c], handled[c], deferred[c])
      /\ writer'[c] = "running" => writer[c] = "running"
                                     /\ delivered'[c] \o outbox'[c] = delivered[c] \o outbox[c]
  <2>1. Queue(delivered[c], outbox[c], handled[c], deferred[c])
    BY QueueKnown
  <2>2. /\ Queue(delivered[c], <<>>, handled[c], deferred[c])
        /\ Queue(Append(delivered[c], Head(outbox[c])), Tail(outbox[c]), handled[c], deferred[c])
        /\ Append(delivered[c], Head(outbox[c])) \o Tail(outbox[c]) = delivered[c] \o outbox[c]
    BY <1>1, <2>1, QueueWrite, Zenon
  <2> QED BY <1>5, <2>2, Zenon
<1>9. conn_state(c) # "new"
  BY <1>1, <1>3 DEF ReplyInvAt
<1>10. ASSUME c \in Caller PROVE CallInv(c)'
  <2>1. /\ Calls(Returned(c), delivered[c], outbox[c], handled[c], read[c], sent[c])
        /\ Waiting(c) # {} => handled[c] < read[c]
    BY <1>10, CallsKnown
  <2>2. /\ Calls(Returned(c), delivered[c], <<>>, handled[c], read[c], sent[c])
        /\ Head(outbox[c]) = 0
             => Calls(Returned(c), Append(delivered[c], Head(outbox[c])), Tail(outbox[c]),
                      handled[c], read[c], sent[c])
        /\ Head(outbox[c]) # 0
             => /\ Calls(Returned(c) + 1, Append(delivered[c], Head(outbox[c])), Tail(outbox[c]),
                         handled[c], read[c], sent[c])
                /\ sent[c] = Returned(c) + 1
    BY <1>1, <2>1, CallsWrite
  <2>3. Calls(Returned(c)', delivered'[c], outbox'[c], handled[c], read[c], sent[c])
    <3>1. CASE delivered'[c] = delivered[c] /\ outbox'[c] = <<>> /\ calling' = calling
      <4>1. Returned(c)' = Returned(c)
        BY <1>1, <3>1 DEF Returned
      <4> QED BY <2>2, <3>1, <4>1
    <3>2. CASE /\ delivered'[c] = Append(delivered[c], Head(outbox[c]))
               /\ outbox'[c] = Tail(outbox[c]) /\ Head(outbox[c]) = 0 /\ calling' = calling
      <4>1. Returned(c)' = Returned(c)
        BY <1>1, <3>2 DEF Returned
      <4> QED BY <2>2, <3>2, <4>1
    <3>3. CASE /\ delivered'[c] = Append(delivered[c], Head(outbox[c]))
               /\ outbox'[c] = Tail(outbox[c]) /\ Head(outbox[c]) # 0 /\ calling' = calling \ {c}
      <4>1. Returned(c)' = sent[c]
        BY <1>1, <3>3 DEF Returned
      <4> QED BY <2>2, <3>3, <4>1
    <3> QED BY <1>5, <3>1, <3>2, <3>3
  <2> QED BY <1>1, <1>7, <1>10, <2>1, <2>3 DEF CallInv, CommandsKept
<1>11. ReplyInvAt(c)'
  BY <1>1, <1>3, <1>6, <1>8, <1>9, <1>10, Zenon DEF ReplyInvAt
<1> QED BY <1>1, <1>4, <1>6, <1>7, <1>11, Elsewhere

\* Steps that neither send, read nor answer anything.
LEMMA QuietSteps ==
    ASSUME ReplyInv, Tables', UNCHANGED <<calling, sent, read, handled, deferred, outbox, delivered>>,
           \A d \in Conn :
              /\ CommandsKept(d) /\ (conn_state(d)' = "new" => conn_state(d) = "new")
              /\ d \in registry' /\ writer'[d] = "running"
                   => conn_state(d) = "new" \/ (d \in registry /\ writer[d] = "running")
    PROVE  ReplyInv'
<1>1. ASSUME NEW d \in Conn PROVE ReplyInvAt(d)'
  <2>1. ReplyInvAt(d) /\ SameMessages(d)
    BY DEF ReplyInv, SameMessages
  <2> QED BY <2>1, LeftAlone
<1> QED BY <1>1 DEF ReplyInv

\* Every step keeps what is known of requests and replies.
LEMMA ReplySteps ==
    ASSUME ReplyInv, ChannelInv, RegistryInv, [Next]_vars PROVE ReplyInv'
<1>1. Tables /\ channel \in Seq(Messages) /\ handled = [d \in Conn |-> handled[d]]
  BY DEF ReplyInv, Tables, ChannelInv
<1>2. CASE UNCHANGED vars
  <2>1. UNCHANGED <<calling, sent, read, handled, deferred, outbox, delivered, writer, registry, channel,
                    reader>>
    BY <1>2 DEF vars, socketVars, threadVars, loopVars
  <2>2. Tables' /\ \A d \in Conn : conn_state(d)' = conn_state(d)
    BY <1>1, <2>1 DEF Tables, conn_state, InChannel
  <2> QED BY <2>1, <2>2, SameChannel, QuietSteps
<1>3. ASSUME NEW c \in Conn,
             \/ client_connects(c) \/ client_hangs_up(c) \/ rejected(c) \/ stops_reading(c)
             \/ writer_ends(c)
      PROVE  ReplyInv'
  <2>1. /\ UNCHANGED <<calling, sent, read, handled, deferred, outbox, delivered, registry, channel>>
        /\ writer' \in {writer, [writer EXCEPT ![c] = "done"]}
    BY <1>3 DEF client_connects, client_hangs_up, rejected, stops_reading, writer_ends,
                socketVars, threadVars, loopVars
  <2>2. \A d \in Conn : conn_state(d)' = conn_state(d)
    BY <1>3, ThreadSteps DEF ClientSteps, ReaderSteps, WriterSteps, Unseen
  <2>3. Tables' /\ \A d \in Conn : writer'[d] = "running" => writer[d] = "running"
    BY <1>1, <2>1 DEF Tables
  <2> QED BY <2>1, <2>2, <2>3, SameChannel, QuietSteps
<1>4. ASSUME NEW c \in Conn, registers(c) \/ reports_disconnect(c) PROVE ReplyInv'
  <2>1. /\ UNCHANGED <<calling, sent, read, handled, deferred, outbox, delivered, registry>>
        /\ \/ reader[c] = "starting" /\ writer' = [writer EXCEPT ![c] = "running"]
           \/ writer' = writer
        /\ \/ channel' = Append(channel, Message("Connected", c))
           \/ channel' = Append(channel, Message("Disconnected", c))
    BY <1>4 DEF registers, reports_disconnect, socketVars, loopVars
  <2>2. \A d \in Conn : conn_state(d)' = conn_state(d)
    BY <1>4, ThreadSteps DEF ReaderSteps, Unseen
  <2>3. reader[c] = "starting" => conn_state(c) = "new"
    BY DEF conn_state
  <2>4. ASSUME NEW d, NEW kind \in {"Connected", "Disconnected"},
               channel' = Append(channel, Message(kind, c))
        PROVE  Waiting(d)' = Waiting(d)
    <3>1. Waiting(d)' = Waiting(d) \cup (IF kind = "Command" /\ d = c THEN {Len(channel) + 1}
                                         ELSE {})
      BY <1>1, <2>4, WaitingSent
    <3> QED BY <3>1
  <2>5. \A d \in Conn : CommandsKept(d)
    <3>1. \A d \in Conn : Waiting(d)' = Waiting(d)
      BY <2>1, <2>4
    <3>2. \A d \in Conn : d \in Caller => OneWaiting(d)
      BY DEF ReplyInv, ReplyInvAt, CallInv
    <3> QED BY <3>1, <3>2 DEF CommandsKept, OneWaiting
  <2>6. /\ Tables'
        /\ \A d \in Conn : writer'[d] = "running" => conn_state(d) = "new" \/ writer[d] = "running"
    BY <1>1, <2>1, <2>3 DEF Tables
  <2> QED BY <2>1, <2>2, <2>5, <2>6, QuietSteps
<1>5. ASSUME NEW c \in Conn, handles_connected(c) \/ handles_disconnected(c) PROVE ReplyInv'
  <2>1. /\ UNCHANGED <<calling, sent, read, handled, deferred, outbox, delivered, writer, client, reader>>
        /\ \/ takes("Connected", c) /\ registry' = registry \cup {c}
           \/ takes("Disconnected", c) /\ registry' = registry \ {c}
    BY <1>5 DEF handles_connected, handles_disconnected, socketVars, threadVars
  <2>2. \A d \in Conn : CommandsKept(d)
    BY <2>1, TakenChannel
  <2>3. /\ \A d \in Conn : d # c => conn_state(d)' = conn_state(d)
        /\ conn_state(c)' \in {"open", "gone"}
        /\ c \in registry' => conn_state(c) = "new"
    <3>1. CASE takes("Connected", c) /\ registry' = registry \cup {c}
      BY <1>1, <2>1, <3>1, TakingSteps
    <3>2. CASE takes("Disconnected", c) /\ registry' = registry \ {c}
      BY <1>1, <2>1, <3>2, TakingSteps
    <3> QED BY <2>1, <3>1, <3>2
  <2>4. Tables' /\ \A d \in Conn : d # c /\ d \in registry' => d \in registry
    BY <1>1, <2>1 DEF Tables
  <2> QED BY <2>1, <2>2, <2>3, <2>4, QuietSteps
<1>6. ASSUME NEW c \in Conn, unregisters(c) PROVE ReplyInv'
  <2>1. /\ UNCHANGED <<calling, sent, read, handled, deferred, outbox, delivered, writer, channel, reader>>
        /\ registry' = registry \ {c}
    BY <1>6 DEF unregisters, socketVars, threadVars
  <2>2. Tables' /\ \A d \in Conn : conn_state(d)' = conn_state(d)
    BY <1>1, <2>1 DEF Tables, conn_state, InChannel
  <2> QED BY <2>1, <2>2, SameChannel, QuietSteps
<1>7. CASE Next
  <2>1. PICK c \in Conn :
          \/ ClientSteps(c) \/ ReaderSteps(c) \/ rejected(c) \/ WriterSteps(c) \/ LoopSteps(c)
          \/ \E n \in 0..MaxRequests : pushes(c, n)
          \/ unregisters(c)
    BY <1>7 DEF Next
  <2>2. CASE ClientSteps(c)
    BY <1>3, <2>2, SendsRequest DEF ClientSteps
  <2>3. CASE ReaderSteps(c) \/ rejected(c)
    BY <1>3, <1>4, <2>3, ReadsRequest DEF ReaderSteps
  <2>4. CASE WriterSteps(c)
    BY <1>3, <2>4, WritesMessage DEF WriterSteps
  <2>5. CASE LoopSteps(c)
    BY <1>5, <2>5, HandlesCommand DEF LoopSteps
  <2> QED BY <1>6, <2>1, <2>2, <2>3, <2>4, <2>5, PushesMessage
<1> QED BY <1>2, <1>7

\* ReplyInv is an invariant of the threads and the loop.
THEOREM ReplyInvariant == Spec => []ReplyInv
<1>1. Init => ReplyInv
  <2> SUFFICES ASSUME Init PROVE ReplyInv
    OBVIOUS
  <2>1. /\ delivered = [c \in Conn |-> <<>>] /\ outbox = [c \in Conn |-> <<>>]
        /\ sent = [c \in Conn |-> 0] /\ read = [c \in Conn |-> 0] /\ handled = [c \in Conn |-> 0]
        /\ deferred = [c \in Conn |-> {}] /\ writer = [c \in Conn |-> "none"]
        /\ registry = {} /\ channel = <<>> /\ calling = {}
    BY DEF Init
  <2>2. <<>> \in Seq(Nat) /\ <<>> \o <<>> = <<>>
    OBVIOUS
  <2>3. Ordered(<<>>, 0, {})
    <3>1. responses(<<>>) = {}
      BY DEF responses
    <3> QED BY <3>1 DEF Ordered
  <2>4. Queue(<<>>, <<>>, 0, {})
    BY <2>2 DEF Queue
  <2>5. Calls(0, <<>>, <<>>, 0, 0, 0)
    BY <2>2, <2>3 DEF Calls
  <2>6. ASSUME NEW c \in Conn PROVE ReplyInvAt(c)
    <3>1. Waiting(c) = {} /\ Returned(c) = 0
      BY <2>1 DEF Waiting, Returned
    <3>2. CallInv(c)
      BY <2>1, <2>5, <3>1 DEF CallInv, OneWaiting
    <3> QED BY <2>1, <2>4, <3>2 DEF ReplyInvAt
  <2> QED BY <2>1, <2>6 DEF ReplyInv, Tables
<1>2. ReplyInv /\ ChannelInv /\ RegistryInv /\ [Next]_vars => ReplyInv'
  BY ReplySteps
<1> QED BY <1>1, <1>2, ChannelInvariant, PTL DEF Spec

\* For any number of connections, requests and events: while a connection is registered
\* and its writer alive, the immediate replies to its commands are on their way or at the
\* client, each once and in the order of the commands.
THEOREM InOrderReplies == Spec => []RepliesInOrder
<1>1. ReplyInv /\ RegistryInv => RepliesInOrder
  BY Zenon DEF ReplyInv, ReplyInvAt, RegistryInv, Ordered, RepliesInOrder
<1> QED BY <1>1, ReplyInvariant, ChannelInvariant, PTL

\* A client that waits for each reply gets the reply to the request it has sent, although
\* replies carry no request id and some of them are deferred.
THEOREM RepliesMatchCalls == Spec => []CallsGetTheirReply
<1>1. ASSUME NEW msgs, NEW m \in Nat, Ordered(msgs, m, {})
      PROVE  /\ \A i, j \in responses(msgs) : i < j => msgs[i] < msgs[j]
             /\ \A i \in responses(msgs) : 1..msgs[i] \subseteq Range(msgs)
  <2>1. {i \in responses(msgs) : msgs[i] \notin {}} = responses(msgs)
    OBVIOUS
  <2>2. /\ {msgs[i] : i \in responses(msgs)} = 1..m
        /\ \A i, j \in responses(msgs) : i < j => msgs[i] < msgs[j]
    BY <1>1, <2>1 DEF Ordered
  <2>3. ASSUME NEW i \in responses(msgs) PROVE 1..msgs[i] \subseteq 1..m
    <3>1. msgs[i] \in 1..m
      BY <2>2
    <3> QED BY <3>1
  <2>4. 1..m \subseteq Range(msgs)
    BY <2>2, Zenon DEF Range, responses
  <2> QED BY <2>2, <2>3, <2>4
<1>2. ASSUME ReplyInv, NEW c \in Caller
      PROVE  \E m \in Nat : Ordered(delivered[c] \o outbox[c], m, {})
  <2>1. Calls(Returned(c), delivered[c], outbox[c], handled[c], read[c], sent[c])
    BY <1>2, CallerAssumption DEF ReplyInv, ReplyInvAt, CallInv
  <2> QED BY <2>1 DEF Calls
<1>3. ReplyInv => CallsGetTheirReply
  BY <1>1, <1>2, Zenon DEF CallsGetTheirReply
<1> QED BY <1>3, ReplyInvariant, PTL
====
