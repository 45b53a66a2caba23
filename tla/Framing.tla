------------------------------- MODULE Framing --------------------------------
(***************************************************************************)
(* The stream between two nodes: ReadMessages of connections/sslconn.go,   *)
(* and the same loop in handleConnection and processMsg of                 *)
(* cmd/relay/main.go.                                                      *)
(*                                                                         *)
(* A socket delivers the bytes of the packed messages in chunks of any     *)
(* size; the reader collects them in a buffer and cuts messages off its    *)
(* front.  The buffer is the part of the stream from start to read.        *)
(***************************************************************************)
EXTENDS TbMessage

CONSTANTS
    Outgoing,    \* the messages to send
    Clocks,      \* readings of the receiver's clock
    Chunks,      \* numbers of bytes that a read returns
    MaxSent      \* bound: messages sent on one socket

\* A content that is shorter than the ID and the timestamp makes Unpack panic; a signed
\* transaction is longer.
ASSUME FramingAssumption ==
    /\ Chunks \subseteq Nat \ {0} /\ MaxSent \in Nat /\ Clocks \subseteq Nat
    /\ \A m \in Outgoing :
          \/ /\ m.type = "tx" /\ m.timestamp \in Nat
             /\ m.contentLen \in Nat /\ m.contentLen >= TxIDLen + ShortTimestampLen
          \/ m.type = "broadcast" /\ m.blockLen \in Nat /\ m.idCount \in Nat

\* The bytes of the messages
Packed == [m \in Outgoing |-> Pack(m)]
Size == [m \in Outgoing |-> Length(Packed[m])]

VARIABLES
    stream,     \* the messages sent on the socket
    ends,       \* the number of bytes of it up to the end of each message
    read,       \* the number of bytes read from it
    start,      \* the number of bytes cut off the buffer
    parsing,    \* the reader is in the loop over the buffer
    received,   \* unpacked messages
    torn        \* a new socket found the rest of a message in the buffer

wireVars == <<stream, ends, read, start, parsing, received, torn>>

WireInit ==
    /\ stream = <<>>
    /\ ends = <<>>
    /\ read = 0
    /\ start = 0
    /\ parsing = FALSE
    /\ received = <<>>
    /\ torn = FALSE

\* The position in the stream after its first n messages
EndOf(n) == IF n = 0 THEN 0 ELSE ends[n]

\* The bytes of the stream from lo to hi
Wire(lo, hi) ==
    [k \in 0..(hi - lo - 1) |->
        LET n == CHOOSE n \in 1..Len(stream) : EndOf(n - 1) <= lo + k /\ lo + k < EndOf(n)
        IN  Packed[stream[n]][lo + k - EndOf(n - 1)]]

Send(m) ==
    /\ ~torn /\ Len(stream) < MaxSent
    /\ stream' = Append(stream, m)
    /\ ends' = Append(ends, EndOf(Len(stream)) + Size[m])
    /\ UNCHANGED <<read, start, parsing, received, torn>>

\* A read that returns n bytes, or all there are
Read(n) ==
    /\ ~parsing /\ ~torn
    /\ read < EndOf(Len(stream))
    /\ read' = IF read + n <= EndOf(Len(stream)) THEN read + n ELSE EndOf(Len(stream))
    /\ parsing' = TRUE
    /\ UNCHANGED <<stream, ends, start, received, torn>>

\* The length in the header at the front of the buffer
FrontPayload == PayloadLen(Wire(start, start + HeaderLen))

\* The header is not counted.
CompleteWithoutHeader(bufLen) == bufLen >= HeaderLen /\ bufLen >= FrontPayload

\* Whether the buffer holds a whole message: its header, and what that announces
Complete(bufLen) == bufLen >= HeaderLen /\ bufLen >= HeaderLen + FrontPayload

Unpack(buf, now) == IF TbType(buf) = "tx" THEN UnpackTx(buf, now) ELSE UnpackBroadcast(buf)

\* processMsg: a message is cut off, unpacked and handed on.
Cut(now) ==
    /\ parsing /\ ~torn
    /\ Complete(read - start)
    /\ start' = start + HeaderLen + FrontPayload
    /\ received' = Append(received, Unpack(Wire(start, start'), now))
    /\ UNCHANGED <<stream, ends, read, parsing, torn>>

\* The loop goes on without a whole message.
WaitInLoop ==
    /\ parsing /\ ~torn
    /\ ~Complete(read - start)
    /\ UNCHANGED wireVars

\* No whole message is left: the reader goes back to the socket.
Wait ==
    /\ parsing /\ ~torn
    /\ ~Complete(read - start)
    /\ parsing' = FALSE
    /\ UNCHANGED <<stream, ends, read, start, received, torn>>

\* The connection is lost and made again.  What was cut off is history; a rest in
\* the buffer of SSLConn stays in it, in front of the first message of the new socket,
\* and what the reader then takes for headers is not modelled.
Reconnect ==
    /\ ~parsing /\ ~torn
    /\ torn' = (read > start)
    /\ stream' = <<>>
    /\ ends' = <<>>
    /\ read' = 0
    /\ start' = 0
    /\ received' = <<>>
    /\ UNCHANGED parsing

WireNext ==
    \/ \E m \in Outgoing : Send(m)
    \/ \E n \in Chunks : Read(n)
    \/ \E now \in Clocks : Cut(now)
    \/ Wait
    \/ Reconnect

\* Both sides go on reading and handling.
WireSpec ==
    /\ WireInit /\ [][WireNext]_wireVars
    /\ WF_wireVars(\E n \in Chunks : Read(n))
    /\ WF_wireVars((\E now \in Clocks : Cut(now)) \/ Wait)

-----------------------------------------------------------------------------
(* Properties.                                                             *)

\* Type invariant: the reader never holds more bytes than were sent.
WireTypeOK ==
    /\ stream \in Seq(Outgoing) /\ Len(stream) <= MaxSent
    /\ ends \in Seq(Nat) /\ Len(ends) = Len(stream)
    /\ read \in 0..EndOf(Len(stream)) /\ start \in Nat
    /\ parsing \in BOOLEAN /\ torn \in BOOLEAN
    /\ Len(received) <= Len(stream)

\* The reader cuts the stream where the sender put messages together, whatever
\* the chunks, and takes only what it has read.
FramesAligned == ~torn => start = EndOf(Len(received)) /\ start <= read

\* The reader waits for more bytes only if no whole message is left in its buffer.
NothingHeldBack ==
    ~parsing /\ ~torn /\ Len(received) < Len(stream) => read < EndOf(Len(received) + 1)

\* The invariant of the reader: the buffer starts at a message, and is left with less
\* than one.
WireInv == WireTypeOK /\ FramesAligned /\ NothingHeldBack

Received(type) == {i \in 1..Len(received) : stream[i].type = type}

\* A block and its short IDs arrive as they were sent.
BroadcastsIntact ==
    \A i \in Received("broadcast") :
        received[i] = [type |-> "broadcast", hash |-> stream[i].hash,
                       networkNum |-> stream[i].networkNum,
                       block |-> Bytes("block", stream[i].hash, stream[i].blockLen),
                       sids |-> [k \in 1..stream[i].idCount |-> k]]

\* Of a transaction hash, network and short ID arrive, and nothing is taken for its
\* content but bytes of it from the first on: neither the fields around it nor the
\* sender and the control byte behind it.
TxPrefixArrives ==
    \A i \in Received("tx") :
        LET m == stream[i]
            r == received[i]
        IN  /\ <<r.hash, r.networkNum, r.txID>> = <<m.hash, m.networkNum, m.txID>>
            /\ \E n \in 0..m.contentLen : r.content = Bytes("content", m.hash, n)

\* Tx.Content: "returns the blockchain transaction bytes": all of them arrive.
TxContentArrives ==
    \A i \in Received("tx") :
        received[i].content = Bytes("content", stream[i].hash, stream[i].contentLen)

\* The time of a transaction is recovered from its low bits if it was under way for
\* at most Window - Hour (13 minutes), or the sender's clock is ahead by at most
\* that, also across the end of a window.
TimestampRecovered ==
    \A i \in Received("tx") :
        LET t == stream[i].timestamp - (stream[i].timestamp % Unit)
            delay == received[i].now - t
        IN  delay <= Window - Hour /\ -delay <= Window - Hour => received[i].timestamp = t

\* What was sent is received, unless the connection is lost.
SentArrives ==
    \A n \in 1..MaxSent : Len(stream) >= n ~> (Len(received) >= n \/ stream = <<>> \/ torn)
===============================================================================
