------------------------------ MODULE TbMessage -------------------------------
(***************************************************************************)
(* The layout of BDN messages: tbmessage/header.go, broadcast_header.go,   *)
(* tx.go and broadcast.go, with the lengths of constants.go.               *)
(*                                                                         *)
(* A buffer is a function from offsets to bytes.  A byte is named by the   *)
(* field it belongs to, the value of the field and its place in it, so a   *)
(* reader that takes bytes from the wrong place gets something else.       *)
(*                                                                         *)
(* Times are counted in units that keep the ratio of an hour to the 2^42   *)
(* nanoseconds that a short timestamp can tell apart.                      *)
(***************************************************************************)
EXTENDS Integers, FiniteSets, SequencesExt

HeaderLen == 20
BroadcastHeaderLen == 72
ControlByteLen == 1
PayloadSizeOffset == 16
TypeOffset == 4
TypeLength == 12
SHA256HashLen == 32
NetworkNumLen == 4
SourceIDLen == 16
TxIDLen == 4
ShortTimestampLen == 4
SenderLen == 20
BroadcastTypeLen == 4
EncryptedTypeLen == 1
UInt64Len == 8
UInt32Len == 4

CONSTANTS
    Unit,      \* 2^10 nanoseconds, the unit of short timestamps
    Window,    \* 2^42 nanoseconds
    Hour       \* time.Hour

ASSUME TimeAssumption ==
    /\ Unit \in Nat \ {0} /\ Window \in Nat /\ Hour \in Nat
    /\ Window % Unit = 0
    /\ Hour < Window /\ Window < 2 * Hour

Zero == [field |-> "zero", value |-> 0, place |-> 0]

\* The bytes of a field
Bytes(field, value, n) == [k \in 0..(n - 1) |-> [field |-> field, value |-> value, place |-> k]]

\* copy(buf[at:], field)
Put(at, field, value, len) == [at |-> at, field |-> field, value |-> value, len |-> len]

\* A buffer after some writes: a later one goes over an earlier one, and what does not
\* fit is left out.
WriteAll(size, writes) ==
    [i \in 0..(size - 1) |->
        LET over == {k \in DOMAIN writes : writes[k].at <= i /\ i < writes[k].at + writes[k].len}
        IN  IF over = {} THEN Zero
            ELSE LET w == writes[Max(over)]
                 IN  [field |-> w.field, value |-> w.value, place |-> i - w.at]]

Length(buf) == Cardinality(DOMAIN buf)
Slice(buf, lo, hi) == [k \in 0..(hi - lo - 1) |-> buf[lo + k]]

\* The number of an integer field of n bytes at an offset; bytes that are not those
\* of one field make up some other number.
Number(buf, offset, n) ==
    LET b == buf[offset]
    IN  IF Slice(buf, offset, offset + n) = Bytes(b.field, b.value, n) THEN b.value ELSE -1

-----------------------------------------------------------------------------
(* Headers.                                                                *)

\* Header.Size and BroadcastHeader.Size include the control byte.
HeaderSize == HeaderLen + ControlByteLen
BroadcastHeaderSize == HeaderSize + SHA256HashLen + NetworkNumLen + SourceIDLen

\* The writes of Header.Pack
PackHeader(type, size) ==
    << Put(0, "magic", 0, 4),
       Put(TypeOffset, type, 0, TypeLength),
       Put(PayloadSizeOffset, "payload", size - HeaderLen, UInt32Len),
       Put(size - ControlByteLen, "control", 1, ControlByteLen) >>

\* The writes of BroadcastHeader.Pack, which ends with Header.Pack
PackBroadcastHeader(m, type, size) ==
    << Put(HeaderLen, "hash", m.hash, SHA256HashLen),
       Put(HeaderLen + SHA256HashLen, "networkNum", m.networkNum, NetworkNumLen),
       Put(HeaderLen + SHA256HashLen + NetworkNumLen, "sourceID", m.hash, SourceIDLen) >>
        \o PackHeader(type, size)

\* BroadcastHeader.Unpack
UnpackHash(buf) == Number(buf, HeaderLen, SHA256HashLen)
UnpackNetworkNum(buf) == Number(buf, HeaderLen + SHA256HashLen, NetworkNumLen)

\* MessageBytes.TbType
TbType(buf) == buf[TypeOffset].field

\* The length of the payload, as the readers of a stream take it from a header
PayloadLen(buf) == Number(buf, PayloadSizeOffset, UInt32Len)

-----------------------------------------------------------------------------
(* Tx.  The content is not empty.                                          *)

NewTx(hash, contentLen, networkNum, txID, now) ==
    [type |-> "tx", hash |-> hash, networkNum |-> networkNum, txID |-> txID, timestamp |-> now,
     contentLen |-> contentLen]

TxSize(m) == BroadcastHeaderSize + m.contentLen + SenderLen

\* What is left of the time in nanoseconds: 32 bits from the tenth on
ShortTimestamp(t) == (t % Window) \div Unit

PackTx(m) ==
    WriteAll(TxSize(m), PackBroadcastHeader(m, "tx", TxSize(m)) \o
        << Put(BroadcastHeaderLen, "txID", m.txID, TxIDLen),
           Put(BroadcastHeaderLen + TxIDLen, "timestamp", ShortTimestamp(m.timestamp), ShortTimestampLen),
           Put(BroadcastHeaderLen + TxIDLen + ShortTimestampLen, "content", m.hash, m.contentLen),
           Put(BroadcastHeaderLen + TxIDLen + ShortTimestampLen + m.contentLen, "sender", m.hash,
               SenderLen) >>)

\* A time that is exactly an hour off is not corrected.
FullTimestampStrict(short, now) ==
    LET merged == short * Unit + (now - (now % Window))
        lower == IF merged - now > Hour THEN merged - Window ELSE merged
    IN  IF now - lower > Hour THEN lower + Window ELSE lower

\* The time of a Tx: the short timestamp in the window of the receiver's clock,
\* corrected when the result is an hour or more off
FullTimestamp(short, now) ==
    LET merged == short * Unit + (now - (now % Window))
        lower == IF merged - now >= Hour THEN merged - Window ELSE merged
    IN  IF now - lower >= Hour THEN lower + Window ELSE lower

\* The sender is left at the end of the content.
UnpackTxToControl(buf, now) ==
    LET offset == BroadcastHeaderLen + TxIDLen + ShortTimestampLen
    IN  [type |-> "tx", hash |-> UnpackHash(buf), networkNum |-> UnpackNetworkNum(buf),
         txID |-> Number(buf, BroadcastHeaderLen, TxIDLen),
         timestamp |-> FullTimestamp(Number(buf, BroadcastHeaderLen + TxIDLen, ShortTimestampLen), now),
         now |-> now,
         content |-> Slice(buf, offset, Length(buf) - ControlByteLen)]

\* Tx.Unpack
UnpackTx(buf, now) ==
    LET offset == BroadcastHeaderLen + TxIDLen + ShortTimestampLen
    IN  [type |-> "tx", hash |-> UnpackHash(buf), networkNum |-> UnpackNetworkNum(buf),
         txID |-> Number(buf, BroadcastHeaderLen, TxIDLen),
         timestamp |-> FullTimestamp(Number(buf, BroadcastHeaderLen + TxIDLen, ShortTimestampLen), now),
         now |-> now,
         content |-> Slice(buf, offset, Length(buf) - SenderLen - ControlByteLen)]

-----------------------------------------------------------------------------
(* Broadcast: a block and short IDs.                                       *)

\* Of the short IDs only their number matters; they are numbered in their order.
NewBlockBroadcast(hash, blockLen, idCount, networkNum) ==
    [type |-> "broadcast", hash |-> hash, networkNum |-> networkNum, blockLen |-> blockLen,
     idCount |-> idCount]

BroadcastSize(m) ==
    BroadcastHeaderSize + BroadcastTypeLen + EncryptedTypeLen + UInt64Len + m.blockLen + UInt32Len
        + m.idCount * UInt32Len

\* The length in front of the block does not count itself.
PackBlockLenShort(m) == m.blockLen

PackBlockLen(m) == m.blockLen + UInt64Len

PackBroadcast(m) ==
    LET type == BroadcastHeaderLen
        block == type + BroadcastTypeLen + EncryptedTypeLen
        ids == block + UInt64Len + m.blockLen
    IN  WriteAll(BroadcastSize(m), PackBroadcastHeader(m, "broadcast", BroadcastSize(m)) \o
            << Put(type, "blok", 0, BroadcastTypeLen),
               Put(type + BroadcastTypeLen, "encrypted", 0, EncryptedTypeLen),
               Put(block, "sidsOffset", PackBlockLen(m), UInt64Len),
               Put(block + UInt64Len, "block", m.hash, m.blockLen),
               Put(ids, "count", m.idCount, UInt32Len) >> \o
            [i \in 1..m.idCount |-> Put(ids + i * UInt32Len, "sid", i, UInt32Len)])

\* "error" stands for the checks of the buffer's length, which make Unpack fail, and for
\* a block length that does not cover itself, which no check stops: the slice panics.
UnpackBroadcast(buf) ==
    LET block == BroadcastHeaderLen + BroadcastTypeLen + EncryptedTypeLen
        ids == block + Number(buf, block, UInt64Len)
        count == Number(buf, ids, UInt32Len)
        fits(offset, n) == offset + n <= Length(buf)
    IN  IF /\ fits(0, BroadcastHeaderSize) /\ fits(block, UInt64Len)
           /\ ids >= block + UInt64Len /\ fits(ids, UInt32Len)
           /\ count >= 0 /\ fits(ids + UInt32Len, count * UInt32Len)
        THEN [type |-> "broadcast", hash |-> UnpackHash(buf), networkNum |-> UnpackNetworkNum(buf),
              block |-> Slice(buf, block + UInt64Len, ids),
              sids |-> [i \in 1..count |-> Number(buf, ids + i * UInt32Len, UInt32Len)]]
        ELSE [type |-> "error"]

Pack(m) == IF m.type = "tx" THEN PackTx(m) ELSE PackBroadcast(m)
===============================================================================
