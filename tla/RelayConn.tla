------------------------------ MODULE RelayConn -------------------------------
(***************************************************************************)
(* Outbound connections to relays: connections/sslconn.go,                 *)
(* connections/handler/tbconn.go and relay.go, and the list of connections *)
(* in nodes/base.go.                                                       *)
(*                                                                         *)
(* Each connection has a goroutine readLoop, which connects, reads and     *)
(* connects again for ever, and per socket a goroutine sendLoop, which     *)
(* moves messages from the send channel through a buffered writer to the   *)
(* socket.  Any goroutine may close the connection.                        *)
(*                                                                         *)
(* close is one step: it is called at most connTimeout (5 s) before the    *)
(* next Connect.  For the same reason a send loop that was cancelled has   *)
(* returned when readLoop wakes up from its sleep (see Pause).             *)
(***************************************************************************)
EXTENDS Integers, Sequences, SequencesExt

CONSTANTS
    Relays,            \* one connection per relay
    Messages,
    SendChannelSize,
    MaxSockets         \* bound: sockets opened per connection

ASSUME ConnAssumption ==
    /\ SendChannelSize \in Nat \ {0}
    /\ MaxSockets \in [Relays -> Nat]

VARIABLES
    sock,          \* the Socket: 0 is nil, Failed a nil *TLS, else its number
    opened,        \* the number of sockets opened so far
    open,          \* connectionOpen
    broken,        \* the socket is closed or has lost the other side
    sendMessages,  \* the send channel: messages with the socket they were queued for
    writer,        \* what the buffered writer holds
    wire,          \* what was flushed to the current socket
    sendLoop,      \* where the send loop is
    cancelled,     \* its context is done
    readLoop,      \* where readLoop is
    connections,   \* Base.Connections
    wasClosed      \* connections that closeWithRetry was called for

sslVars == <<sock, opened, open, broken, sendMessages, writer, wire, sendLoop, cancelled>>
connVars == <<sslVars, readLoop, connections, wasClosed>>

Failed == -1
Queued == [msg : Messages, sock : Nat]

ConnTypeOK ==
    /\ sock \in [Relays -> {0, Failed} \cup Nat]
    /\ opened \in [Relays -> Nat]
    /\ open \in [Relays -> BOOLEAN]
    /\ broken \in [Relays -> BOOLEAN]
    /\ sendMessages \in [Relays -> Seq(Queued)]
    /\ \A c \in Relays : Len(sendMessages[c]) <= SendChannelSize
    /\ writer \in [Relays -> Seq(Queued)]
    /\ wire \in [Relays -> Seq(Queued)]
    /\ sendLoop \in [Relays -> {"none", "wait", "drain"}]
    /\ cancelled \in [Relays -> BOOLEAN]
    /\ readLoop \in [Relays -> {"new", "connect", "failed", "check", "read", "retry", "pause"}]
    /\ connections \in Seq(Relays)
    /\ wasClosed \subseteq Relays

ConnInit ==
    /\ sock = [c \in Relays |-> 0]
    /\ opened = [c \in Relays |-> 0]
    /\ open = [c \in Relays |-> FALSE]
    /\ broken = [c \in Relays |-> FALSE]
    /\ sendMessages = [c \in Relays |-> <<>>]
    /\ writer = [c \in Relays |-> <<>>]
    /\ wire = [c \in Relays |-> <<>>]
    /\ sendLoop = [c \in Relays |-> "none"]
    /\ cancelled = [c \in Relays |-> FALSE]
    /\ readLoop = [c \in Relays |-> "new"]
    /\ connections = <<>>
    /\ wasClosed = {}

-----------------------------------------------------------------------------
(* SSLConn.                                                                *)

\* close: nothing when the connection is closed already; otherwise the send loop
\* is cancelled and the socket closed.
closeAll(S) ==
    LET closing == {c \in S : open[c]}
    IN  /\ open' = [c \in Relays |-> open[c] /\ c \notin closing]
        /\ cancelled' = [c \in Relays |-> cancelled[c] \/ c \in closing]
        /\ broken' = [c \in Relays |-> broken[c] \/ c \in closing]

\* Send on an open connection: a message that finds the channel full closes the
\* connection and is lost, without an error.
sendAll(S, m) ==
    LET full == {c \in S : Len(sendMessages[c]) = SendChannelSize}
    IN  /\ sendMessages' = [c \in Relays |->
               IF c \in S \ full THEN Append(sendMessages[c], [msg |-> m, sock |-> sock[c]])
               ELSE sendMessages[c]]
        /\ closeAll(full)

\* Connect keeps the channel and the writer of the last socket.
ReuseChannel(c) ==
    /\ opened[c] < MaxSockets[c]
    /\ sock' = [sock EXCEPT ![c] = opened[c] + 1]
    /\ opened' = [opened EXCEPT ![c] = @ + 1]
    /\ open' = [open EXCEPT ![c] = TRUE]
    /\ broken' = [broken EXCEPT ![c] = FALSE]
    /\ wire' = [wire EXCEPT ![c] = <<>>]
    /\ sendLoop' = [sendLoop EXCEPT ![c] = "wait"]
    /\ cancelled' = [cancelled EXCEPT ![c] = FALSE]
    /\ UNCHANGED <<sendMessages, writer>>

\* Connect with a new socket: a new writer, a new channel, a new send loop.  One step
\* here; the code sets connectionOpen first, so that a Send which comes before the new
\* channel and its cancel function are in place meets those of the last socket, or, the
\* first time, closes the connection for want of a channel and calls a nil function.
Connected(c) ==
    /\ opened[c] < MaxSockets[c]
    /\ sock' = [sock EXCEPT ![c] = opened[c] + 1]
    /\ opened' = [opened EXCEPT ![c] = @ + 1]
    /\ open' = [open EXCEPT ![c] = TRUE]
    /\ broken' = [broken EXCEPT ![c] = FALSE]
    /\ sendMessages' = [sendMessages EXCEPT ![c] = <<>>]
    /\ writer' = [writer EXCEPT ![c] = <<>>]
    /\ wire' = [wire EXCEPT ![c] = <<>>]
    /\ sendLoop' = [sendLoop EXCEPT ![c] = "wait"]
    /\ cancelled' = [cancelled EXCEPT ![c] = FALSE]

\* packAndWrite: nothing on a closed connection.  A buffered write fails at the
\* latest when the buffer is full; the failure closes the connection.
packAndWrite(c) ==
    LET q == Head(sendMessages[c])
    IN  /\ sendMessages' = [sendMessages EXCEPT ![c] = Tail(@)]
        /\ sendLoop' = [sendLoop EXCEPT ![c] = "drain"]
        /\ \/ /\ writer' = [writer EXCEPT ![c] = IF open[c] THEN Append(@, q) ELSE @]
              /\ UNCHANGED <<open, cancelled, broken>>
           \/ /\ open[c] /\ broken[c]
              /\ closeAll({c})
              /\ UNCHANGED writer

\* Only one message is taken before the flush.
TakeOne(c) ==
    /\ sendLoop[c] = "wait"
    /\ sendMessages[c] # <<>>
    /\ packAndWrite(c)
    /\ UNCHANGED <<sock, opened, wire, readLoop, connections, wasClosed>>

\* A message is ready.  The select may choose it although the context is done.
TakeMessage(c) ==
    /\ sendLoop[c] \in {"wait", "drain"}
    /\ sendMessages[c] # <<>>
    /\ packAndWrite(c)
    /\ UNCHANGED <<sock, opened, wire, readLoop, connections, wasClosed>>

\* What was flushed stays in the buffer.
FlushTwice(c) ==
    /\ sendLoop[c] = "drain"
    /\ sendMessages[c] = <<>>
    /\ ~broken[c]
    /\ sendLoop' = [sendLoop EXCEPT ![c] = "wait"]
    /\ wire' = [wire EXCEPT ![c] = @ \o writer[c]]
    /\ UNCHANGED <<sock, opened, open, broken, sendMessages, writer, cancelled, readLoop,
                   connections, wasClosed>>

\* The channel is empty: flush.  When that fails the loop returns, and the
\* connection stays open.
Flush(c) ==
    /\ sendLoop[c] = "drain"
    /\ sendMessages[c] = <<>>
    /\ IF broken[c]
       THEN /\ sendLoop' = [sendLoop EXCEPT ![c] = "none"]
            /\ UNCHANGED <<writer, wire>>
       ELSE /\ sendLoop' = [sendLoop EXCEPT ![c] = "wait"]
            /\ wire' = [wire EXCEPT ![c] = @ \o writer[c]]
            /\ writer' = [writer EXCEPT ![c] = <<>>]
    /\ UNCHANGED <<sock, opened, open, broken, sendMessages, cancelled, readLoop, connections,
                   wasClosed>>

SendLoopDone(c) ==
    /\ sendLoop[c] = "wait" /\ cancelled[c]
    /\ sendLoop' = [sendLoop EXCEPT ![c] = "none"]
    /\ UNCHANGED <<sock, opened, open, broken, sendMessages, writer, wire, cancelled, readLoop,
                   connections, wasClosed>>

\* The other side closes the connection, or the network fails.
Break(c) ==
    /\ open[c] /\ ~broken[c]
    /\ broken' = [broken EXCEPT ![c] = TRUE]
    /\ UNCHANGED <<sock, opened, open, sendMessages, writer, wire, sendLoop, cancelled, readLoop,
                   connections, wasClosed>>

-----------------------------------------------------------------------------
(* TbConn and Base.                                                        *)

\* Two connections without a live socket have equal IDs.
SameID(c, d) == sock[c] = sock[d] /\ (c = d \/ sock[c] \in {0, Failed})

\* OnConnClosed removes the first connection of the list with the ID of c.
OnConnClosed(c) ==
    LET same == {i \in 1..Len(connections) : SameID(connections[i], c)}
    IN  connections' =
            IF same = {} THEN connections
            ELSE RemoveAt(connections, CHOOSE i \in same : \A j \in same : i <= j)

OnConnEstablished(c) == connections' = Append(connections, c)

\* connectRelay: NewTbConn registers the connection, Start starts readLoop.
connectRelay(c) ==
    /\ readLoop[c] = "new"
    /\ OnConnEstablished(c)
    /\ readLoop' = [readLoop EXCEPT ![c] = "connect"]
    /\ UNCHANGED <<sslVars, wasClosed>>

\* Connect
Connect(c) ==
    /\ readLoop[c] = "connect"
    /\ \/ /\ Connected(c)
          /\ readLoop' = [readLoop EXCEPT ![c] = "check"]
       \/ /\ sock' = [sock EXCEPT ![c] = Failed]
          /\ open' = [open EXCEPT ![c] = FALSE]
          /\ readLoop' = [readLoop EXCEPT ![c] = "failed"]
          /\ UNCHANGED <<opened, broken, sendMessages, writer, wire, sendLoop, cancelled>>
    /\ UNCHANGED <<connections, wasClosed>>

\* Only a failed Connect is tried again.
RetryConnectOnly(c) ==
    /\ readLoop[c] = "failed"
    /\ OnConnClosed(c)
    /\ closeAll({c})
    /\ wasClosed' = wasClosed \cup {c}
    /\ readLoop' = [readLoop EXCEPT ![c] = "pause"]
    /\ UNCHANGED <<sock, opened, sendMessages, writer, wire, sendLoop>>

\* closeWithRetry, after a failed Connect and after the loop of reads
closeWithRetry(c) ==
    /\ readLoop[c] \in {"failed", "retry"}
    /\ OnConnClosed(c)
    /\ closeAll({c})
    /\ wasClosed' = wasClosed \cup {c}
    /\ readLoop' = [readLoop EXCEPT ![c] = "pause"]
    /\ UNCHANGED <<sock, opened, sendMessages, writer, wire, sendLoop>>

\* The sleep before the next attempt, which the cancelled send loop does not outlast
Pause(c) ==
    /\ readLoop[c] = "pause"
    /\ sendLoop[c] = "none"
    /\ readLoop' = [readLoop EXCEPT ![c] = "connect"]
    /\ UNCHANGED <<sslVars, connections, wasClosed>>

\* The condition of the loop of reads
CheckOpen(c) ==
    /\ readLoop[c] = "check"
    /\ readLoop' = [readLoop EXCEPT ![c] = IF open[c] THEN "read" ELSE "retry"]
    /\ UNCHANGED <<sslVars, connections, wasClosed>>

\* ReadMessages fails: the connection is closed, broken, or silent for 30 s.
ReadFails(c) ==
    /\ readLoop[c] = "read"
    /\ closeAll({c})
    /\ readLoop' = [readLoop EXCEPT ![c] = "retry"]
    /\ UNCHANGED <<sock, opened, sendMessages, writer, wire, sendLoop, connections, wasClosed>>

\* ReadMessages reads; what is done with the messages is up to the node.
ReadSucceeds(c) ==
    /\ readLoop[c] = "read"
    /\ open[c] /\ ~broken[c]
    /\ readLoop' = [readLoop EXCEPT ![c] = "check"]
    /\ UNCHANGED <<sslVars, connections, wasClosed>>

\* DisconnectConn closes connections of the list and leaves them in it.
DisconnectConn(c) ==
    /\ c \in Range(connections)
    /\ closeAll({c})
    /\ UNCHANGED <<sock, opened, sendMessages, writer, wire, sendLoop, readLoop, connections,
                   wasClosed>>

ReadLoopStep(c) ==
    Connect(c) \/ closeWithRetry(c) \/ Pause(c) \/ CheckOpen(c) \/ ReadFails(c)
SendLoopStep(c) == TakeMessage(c) \/ Flush(c) \/ SendLoopDone(c)

-----------------------------------------------------------------------------
(* Properties.                                                             *)

\* What is written to a socket was queued after that socket was connected: Connect
\* starts with a new channel and writer, and the send loop of the last socket is
\* gone by then.
FreshSocket ==
    \A c \in Relays : open[c] =>
        \A q \in Range(writer[c] \o wire[c]) : q.sock = sock[c]

\* A connection that was never closed is in the list the gateway broadcasts to: a
\* connection is not taken off the list for another one, although failed
\* connections have equal IDs.
OpenIsListed == \A c \in Relays : open[c] /\ c \notin wasClosed => c \in Range(connections)

\* readLoop connects again, however the connection was closed.
Reconnects ==
    \A c \in Relays : (readLoop[c] # "new" /\ ~open[c]) ~> (readLoop[c] = "connect" \/ open[c])
===============================================================================
