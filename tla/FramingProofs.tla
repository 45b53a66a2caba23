---------------------------- MODULE FramingProofs -----------------------------
(***************************************************************************)
(* Proofs about Framing: the messages that a reader cuts off the stream    *)
(* are the ones that were sent, whatever the chunks that the socket        *)
(* delivers, and what Unpack makes of the bytes of Pack.                   *)
(***************************************************************************)
EXTENDS Framing, FiniteSetTheorems, SequenceTheorems, TLAPS

-----------------------------------------------------------------------------
(* Buffers: what a buffer holds after some writes, and what a reader finds. *)

\* Write w covers the byte at i.
Covers(w, i) == w.at <= i /\ i < w.at + w.len

\* A buffer holds the bytes of a field at an offset.
Holds(buf, at, field, value, len) ==
    \A k \in 0..(len - 1) : buf[at + k] = [field |-> field, value |-> value, place |-> k]

\* The writes after the k-th stay out of a field's bytes.
Clear(writes, k, at, len) ==
    \A j \in DOMAIN writes : j > k =>
        /\ writes[j].at \in Int /\ writes[j].len \in Int
        /\ writes[j].at >= at + len \/ writes[j].at + writes[j].len <= at

\* The byte of a buffer is that of the last write that covers it.
LEMMA LastWrite ==
    ASSUME NEW size \in Nat, NEW writes, DOMAIN writes \subseteq Int,
           NEW k \in DOMAIN writes, NEW i \in 0..(size - 1), Covers(writes[k], i),
           \A j \in DOMAIN writes : j > k => ~Covers(writes[j], i)
    PROVE  WriteAll(size, writes)[i] =
               [field |-> writes[k].field, value |-> writes[k].value, place |-> i - writes[k].at]
<1> DEFINE over == {j \in DOMAIN writes : writes[j].at <= i /\ i < writes[j].at + writes[j].len}
<1>1. k \in over /\ \A y \in over : k >= y
  BY DEF Covers
<1>2. Max(over) = k
  <2>1. Max(over) \in over /\ \A y \in over : Max(over) >= y
    BY <1>1 DEF Max
  <2>2. over \subseteq Int
    OBVIOUS
  <2> QED
    BY <1>1, <2>1, <2>2
<1>3. over # {}
  BY <1>1
<1> QED
  BY <1>2, <1>3 DEF WriteAll

\* A field that no later write touches is found in the buffer.
LEMMA FieldHeld ==
    ASSUME NEW size \in Nat, NEW writes, DOMAIN writes \subseteq Int,
           NEW k \in DOMAIN writes, NEW at \in Nat, NEW len \in Nat, NEW field, NEW value,
           writes[k] = Put(at, field, value, len), at + len <= size,
           Clear(writes, k, at, len)
    PROVE  Holds(WriteAll(size, writes), at, field, value, len)
<1> SUFFICES ASSUME NEW n \in 0..(len - 1)
             PROVE  WriteAll(size, writes)[at + n] = [field |-> field, value |-> value, place |-> n]
  BY DEF Holds
<1>1. writes[k].at = at /\ writes[k].len = len /\ writes[k].field = field /\ writes[k].value = value
  BY DEF Put
<1>2. at + n \in 0..(size - 1) /\ Covers(writes[k], at + n)
  BY <1>1 DEF Covers
<1>3. \A j \in DOMAIN writes : j > k => ~Covers(writes[j], at + n)
  BY DEF Covers, Clear
<1>4. WriteAll(size, writes)[at + n] =
          [field |-> writes[k].field, value |-> writes[k].value, place |-> (at + n) - writes[k].at]
  BY <1>2, <1>3, LastWrite
<1> QED
  BY <1>1, <1>4

\* The bytes that a reader finds at the place of a field
LEMMA BytesRead ==
    ASSUME NEW buf, NEW at \in Nat, NEW len \in Nat, NEW field, NEW value,
           Holds(buf, at, field, value, len), NEW n \in 0..len
    PROVE  Slice(buf, at, at + n) = Bytes(field, value, n)
<1>1. (at + n) - at - 1 = n - 1
  OBVIOUS
<1>2. \A k \in 0..(n - 1) : buf[at + k] = [field |-> field, value |-> value, place |-> k]
  BY DEF Holds
<1> QED
  BY <1>1, <1>2 DEF Slice, Bytes

\* The number that a reader finds at the place of a field, and the field's name
LEMMA NumberRead ==
    ASSUME NEW buf, NEW at \in Nat, NEW len \in Nat, len > 0, NEW field, NEW value,
           Holds(buf, at, field, value, len)
    PROVE  Number(buf, at, len) = value /\ buf[at].field = field
<1>1. buf[at] = [field |-> field, value |-> value, place |-> 0]
  <2>1. 0 \in 0..(len - 1) /\ at + 0 = at
    OBVIOUS
  <2> QED
    BY <2>1 DEF Holds
<1>2. Slice(buf, at, at + len) = Bytes(field, value, len)
  BY BytesRead
<1> QED
  BY <1>1, <1>2 DEF Number

-----------------------------------------------------------------------------
(* The writes of the messages.                                             *)

\* The concatenation of two sequences, by places
LEMMA Joined ==
    ASSUME NEW S, NEW s \in Seq(S), NEW T, NEW t \in Seq(T)
    PROVE  /\ s \o t \in Seq(S \cup T)
           /\ Len(s \o t) = Len(s) + Len(t)
           /\ \A i \in 1..Len(s) : (s \o t)[i] = s[i]
           /\ \A i \in 1..Len(t) : (s \o t)[Len(s) + i] = t[i]
<1>1. s \in Seq(S \cup T) /\ t \in Seq(S \cup T)
  BY SeqMonotonic
<1>2. /\ s \o t \in Seq(S \cup T)
      /\ Len(s \o t) = Len(s) + Len(t)
      /\ \A i \in 1..(Len(s) + Len(t)) : (s \o t)[i] = IF i <= Len(s) THEN s[i] ELSE t[i - Len(s)]
  BY <1>1, ConcatProperties
<1>3. Len(s) \in Nat /\ Len(t) \in Nat
  BY LenProperties
<1>4. ASSUME NEW i \in 1..Len(t)
      PROVE  (s \o t)[Len(s) + i] = t[i]
  <2>1. Len(s) + i \in 1..(Len(s) + Len(t)) /\ ~(Len(s) + i <= Len(s)) /\ (Len(s) + i) - Len(s) = i
    BY <1>3
  <2> QED
    BY <1>2, <2>1
<1> QED
  BY <1>2, <1>3, <1>4

\* The first writes of every message
HeaderWritten(w, m, type, size) ==
    /\ w[1] = Put(20, "hash", m.hash, 32)
    /\ w[2] = Put(52, "networkNum", m.networkNum, 4)
    /\ w[3] = Put(56, "sourceID", m.hash, 16)
    /\ w[4] = Put(0, "magic", 0, 4)
    /\ w[5] = Put(4, type, 0, 12)
    /\ w[6] = Put(16, "payload", size - 20, 4)
    /\ w[7] = Put(size - 1, "control", 1, 1)

\* The writes of a header, by places
LEMMA HeaderWrites ==
    ASSUME NEW m, NEW type, NEW size \in Nat,
           NEW w, w = PackBroadcastHeader(m, type, size)
    PROVE  \E S : w \in Seq(S) /\ Len(w) = 7 /\ HeaderWritten(w, m, type, size)
<1> USE DEF HeaderLen, SHA256HashLen, NetworkNumLen, SourceIDLen, TypeOffset, TypeLength,
            PayloadSizeOffset, UInt32Len, ControlByteLen
<1> DEFINE s == <<Put(20, "hash", m.hash, 32), Put(52, "networkNum", m.networkNum, 4),
                  Put(56, "sourceID", m.hash, 16)>>
           t == <<Put(0, "magic", 0, 4), Put(4, type, 0, 12),
                  Put(16, "payload", size - 20, 4), Put(size - 1, "control", 1, 1)>>
           S == {s[1], s[2], s[3]}
           T == {t[1], t[2], t[3], t[4]}
<1>1. w = s \o t
  BY DEF PackBroadcastHeader, PackHeader
<1>2. s \in Seq(S) /\ Len(s) = 3
  OBVIOUS
<1>3. t \in Seq(T) /\ Len(t) = 4
  OBVIOUS
<1>4. w \in Seq(S \cup T) /\ Len(w) = 7
  BY <1>1, <1>2, <1>3, Joined
<1>5. \A i \in 1..3 : w[i] = s[i]
  BY <1>1, <1>2, <1>3, Joined
<1>6. \A i \in 1..4 : w[3 + i] = t[i]
  BY <1>1, <1>2, <1>3, Joined
<1>7. w[1] = s[1] /\ w[2] = s[2] /\ w[3] = s[3]
  BY <1>5
<1>8. w[3 + 1] = t[1] /\ w[3 + 2] = t[2] /\ w[3 + 3] = t[3] /\ w[3 + 4] = t[4]
  BY <1>6
<1> QED
  BY <1>4, <1>7, <1>8 DEF HeaderWritten

\* The fields that a reader finds in every message
HeaderHeld(buf, m, type, size) ==
    /\ Holds(buf, 20, "hash", m.hash, 32)
    /\ Holds(buf, 52, "networkNum", m.networkNum, 4)
    /\ Holds(buf, 4, type, 0, 12)
    /\ Holds(buf, 16, "payload", size - 20, 4)

\* The fields of the header are in a buffer whose other writes are behind them.
LEMMA HeaderKept ==
    ASSUME NEW m, NEW type, NEW size \in Nat, size > 72, NEW w, NEW n \in Nat, n >= 7,
           DOMAIN w = 1..n, HeaderWritten(w, m, type, size),
           \A j \in 8..n : w[j].at \in Nat /\ w[j].len \in Nat /\ w[j].at >= 72
    PROVE  HeaderHeld(WriteAll(size, w), m, type, size)
<1>1. ASSUME NEW j \in DOMAIN w
      PROVE  /\ w[j].at \in Nat /\ w[j].len \in Nat
             /\ j >= 7 => w[j].at >= 72
  <2>1. CASE j \in 8..n
    BY <2>1
  <2>2. CASE j = 1 \/ j = 2
    BY <2>2 DEF HeaderWritten, Put
  <2>3. CASE j = 3 \/ j = 4
    BY <2>3 DEF HeaderWritten, Put
  <2>4. CASE j = 5 \/ j = 6
    BY <2>4 DEF HeaderWritten, Put
  <2>5. CASE j = 7
    BY <2>5 DEF HeaderWritten, Put
  <2> QED
    BY <2>1, <2>2, <2>3, <2>4, <2>5
<1>2. /\ w[2].at = 52 /\ w[3].at = 56 /\ w[4].at = 0 /\ w[4].len = 4
      /\ w[5].at = 4 /\ w[5].len = 12 /\ w[6].at = 16 /\ w[6].len = 4
  BY DEF HeaderWritten, Put
<1>3. \A j \in DOMAIN w : j = 1 \/ j = 2 \/ j = 3 \/ j = 4 \/ j = 5 \/ j = 6 \/ j >= 7
  OBVIOUS
<1>4. Clear(w, 1, 20, 32)
  <2> SUFFICES ASSUME NEW j \in DOMAIN w, j > 1
               PROVE  w[j].at >= 52 \/ w[j].at + w[j].len <= 20
    BY <1>1 DEF Clear
  <2>1. CASE j >= 7
    BY <1>1, <2>1
  <2> QED
    BY <1>2, <1>3, <2>1
<1>12. Clear(w, 2, 52, 4)
  <2> SUFFICES ASSUME NEW j \in DOMAIN w, j > 2
               PROVE  w[j].at >= 56 \/ w[j].at + w[j].len <= 52
    BY <1>1 DEF Clear
  <2>1. CASE j >= 7
    BY <1>1, <2>1
  <2> QED
    BY <1>2, <1>3, <2>1
<1>13. Clear(w, 5, 4, 12)
  <2> SUFFICES ASSUME NEW j \in DOMAIN w, j > 5
               PROVE  w[j].at >= 16
    BY <1>1 DEF Clear
  <2>1. CASE j >= 7
    BY <1>1, <2>1
  <2> QED
    BY <1>2, <1>3, <2>1
<1>14. Clear(w, 6, 16, 4)
  <2> SUFFICES ASSUME NEW j \in DOMAIN w, j > 6
               PROVE  w[j].at >= 20
    BY <1>1 DEF Clear
  <2>1. CASE j >= 7
    BY <1>1, <2>1
  <2> QED
    BY <1>2, <1>3, <2>1
<1>5. /\ DOMAIN w \subseteq Int
      /\ 1 \in DOMAIN w /\ 2 \in DOMAIN w /\ 5 \in DOMAIN w /\ 6 \in DOMAIN w
  OBVIOUS
<1>7. /\ 20 \in Nat /\ 32 \in Nat /\ 52 \in Nat /\ 4 \in Nat /\ 12 \in Nat /\ 16 \in Nat
      /\ 20 + 32 <= size /\ 52 + 4 <= size /\ 4 + 12 <= size /\ 16 + 4 <= size
  OBVIOUS
<1>6. /\ w[1] = Put(20, "hash", m.hash, 32) /\ w[2] = Put(52, "networkNum", m.networkNum, 4)
      /\ w[5] = Put(4, type, 0, 12) /\ w[6] = Put(16, "payload", size - 20, 4)
  BY DEF HeaderWritten
<1>8. Holds(WriteAll(size, w), 20, "hash", m.hash, 32)
  BY <1>4, <1>5, <1>6, <1>7, FieldHeld, Zenon
<1>9. Holds(WriteAll(size, w), 52, "networkNum", m.networkNum, 4)
  BY <1>12, <1>5, <1>6, <1>7, FieldHeld, Zenon
<1>10. Holds(WriteAll(size, w), 4, type, 0, 12)
  BY <1>13, <1>5, <1>6, <1>7, FieldHeld, Zenon
<1>11. Holds(WriteAll(size, w), 16, "payload", size - 20, 4)
  BY <1>14, <1>5, <1>6, <1>7, FieldHeld, Zenon
<1> QED
  BY <1>8, <1>9, <1>10, <1>11 DEF HeaderHeld

\* What the header's readers take from a buffer
LEMMA HeaderRead ==
    ASSUME NEW m, NEW type, NEW size, NEW buf, HeaderHeld(buf, m, type, size)
    PROVE  /\ UnpackHash(buf) = m.hash
           /\ UnpackNetworkNum(buf) = m.networkNum
           /\ TbType(buf) = type
           /\ PayloadLen(buf) = size - 20
<1> USE DEF HeaderLen, SHA256HashLen, NetworkNumLen, TypeOffset, PayloadSizeOffset, UInt32Len
<1>5. /\ 20 \in Nat /\ 32 \in Nat /\ 52 \in Nat /\ 4 \in Nat /\ 12 \in Nat /\ 16 \in Nat
      /\ 32 > 0 /\ 4 > 0 /\ 12 > 0
  OBVIOUS
<1>1. Number(buf, 20, 32) = m.hash
  <2>1. Holds(buf, 20, "hash", m.hash, 32)
    BY DEF HeaderHeld
  <2> QED
    BY <1>5, <2>1, NumberRead, ZenonT(30)
<1>2. Number(buf, 52, 4) = m.networkNum
  <2>1. Holds(buf, 52, "networkNum", m.networkNum, 4)
    BY DEF HeaderHeld
  <2> QED
    BY <1>5, <2>1, NumberRead, ZenonT(30)
<1>3. buf[4].field = type
  <2>1. Holds(buf, 4, type, 0, 12)
    BY DEF HeaderHeld
  <2> QED
    BY <1>5, <2>1, NumberRead, ZenonT(30)
<1>4. Number(buf, 16, 4) = size - 20
  <2>1. Holds(buf, 16, "payload", size - 20, 4)
    BY DEF HeaderHeld
  <2> QED
    BY <1>5, <2>1, NumberRead, ZenonT(30)
<1> QED
  BY <1>1, <1>2, <1>3, <1>4 DEF UnpackHash, UnpackNetworkNum, TbType, PayloadLen

\* The buffer that the writes go to has the size it was made with.
LEMMA BufferSize ==
    ASSUME NEW size \in Nat, NEW w
    PROVE  /\ Length(WriteAll(size, w)) = size
           /\ Slice(WriteAll(size, w), 0, size) = WriteAll(size, w)
<1>1. DOMAIN WriteAll(size, w) = 0..(size - 1)
  BY DEF WriteAll
<1>2. Cardinality(0..(size - 1)) = size
  BY FS_Interval
<1>3. WriteAll(size, w) = [k \in 0..(size - 1) |-> WriteAll(size, w)[k]]
  BY DEF WriteAll
<1> HIDE DEF WriteAll
<1>4. Slice(WriteAll(size, w), 0, size) = [k \in 0..(size - 1) |-> WriteAll(size, w)[k]]
  <2>1. size - 0 - 1 = size - 1 /\ \A k \in 0..(size - 1) : 0 + k = k
    OBVIOUS
  <2> QED
    BY <2>1 DEF Slice
<1> QED
  BY <1>1, <1>2, <1>3, <1>4 DEF Length

-----------------------------------------------------------------------------
(* A transaction: what PackTx writes and UnpackTx reads.                   *)

\* The writes of PackTx, by places
LEMMA TxWrites ==
    ASSUME NEW m, m.contentLen \in Nat
    PROVE  \E w : /\ PackTx(m) = WriteAll(m.contentLen + 93, w)
                  /\ DOMAIN w = 1..11
                  /\ HeaderWritten(w, m, "tx", m.contentLen + 93)
                  /\ w[8] = Put(72, "txID", m.txID, 4)
                  /\ w[9] = Put(76, "timestamp", ShortTimestamp(m.timestamp), 4)
                  /\ w[10] = Put(80, "content", m.hash, m.contentLen)
                  /\ w[11] = Put(80 + m.contentLen, "sender", m.hash, 20)
<1> DEFINE size == m.contentLen + 93
           s == PackBroadcastHeader(m, "tx", size)
           t == <<Put(72, "txID", m.txID, 4), Put(76, "timestamp", ShortTimestamp(m.timestamp), 4),
                  Put(80, "content", m.hash, m.contentLen),
                  Put(80 + m.contentLen, "sender", m.hash, 20)>>
           T == {t[1], t[2], t[3], t[4]}
           w == s \o t
<1>1. TxSize(m) = size
  BY DEF TxSize, BroadcastHeaderSize, HeaderSize, HeaderLen, ControlByteLen, SHA256HashLen,
         NetworkNumLen, SourceIDLen, SenderLen
<1>2. PackTx(m) = WriteAll(size, w)
  BY <1>1 DEF PackTx, BroadcastHeaderLen, TxIDLen, ShortTimestampLen, SenderLen
<1> HIDE DEF s, t, T
<1>12. size \in Nat
  OBVIOUS
<1>3. PICK S : s \in Seq(S) /\ Len(s) = 7 /\ HeaderWritten(s, m, "tx", size)
  BY <1>12, HeaderWrites, Zenon DEF s
<1>4. t \in Seq(T) /\ Len(t) = 4
  BY DEF t, T
<1>5. /\ w \in Seq(S \cup T) /\ Len(w) = Len(s) + Len(t)
      /\ \A i \in 1..Len(s) : w[i] = s[i]
      /\ \A i \in 1..Len(t) : w[Len(s) + i] = t[i]
  <2>1. s \in Seq(S) /\ t \in Seq(T)
    BY <1>3, <1>4
  <2> QED
    BY <2>1, Joined
<1>6. \A i \in 1..7 : w[i] = s[i]
  BY <1>3, <1>5
<1>7. \A i \in 1..4 : w[7 + i] = t[i]
  BY <1>3, <1>4, <1>5
<1> HIDE DEF w
<1>8. DOMAIN w = 1..11
  <2>1. DOMAIN w = 1..Len(w)
    BY <1>5, LenProperties
  <2> QED
    BY <1>3, <1>4, <1>5, <2>1
<1>9. HeaderWritten(w, m, "tx", size)
  <2>1. /\ w[1] = s[1] /\ w[2] = s[2] /\ w[3] = s[3] /\ w[4] = s[4] /\ w[5] = s[5]
        /\ w[6] = s[6] /\ w[7] = s[7]
    BY <1>6
  <2> QED
    BY <1>3, <2>1, Zenon DEF HeaderWritten
<1>10. w[7 + 1] = t[1] /\ w[7 + 2] = t[2] /\ w[7 + 3] = t[3] /\ w[7 + 4] = t[4]
  BY <1>7
<1>11. /\ w[8] = Put(72, "txID", m.txID, 4)
       /\ w[9] = Put(76, "timestamp", ShortTimestamp(m.timestamp), 4)
       /\ w[10] = Put(80, "content", m.hash, m.contentLen)
       /\ w[11] = Put(80 + m.contentLen, "sender", m.hash, 20)
  BY <1>10 DEF t
<1> QED
  BY <1>2, <1>8, <1>9, <1>11

\* The fields that a reader finds in a packed transaction
LEMMA TxHeld ==
    ASSUME NEW m, m.contentLen \in Nat
    PROVE  /\ Length(PackTx(m)) = m.contentLen + 93
           /\ Slice(PackTx(m), 0, m.contentLen + 93) = PackTx(m)
           /\ HeaderHeld(PackTx(m), m, "tx", m.contentLen + 93)
           /\ Holds(PackTx(m), 72, "txID", m.txID, 4)
           /\ Holds(PackTx(m), 76, "timestamp", ShortTimestamp(m.timestamp), 4)
           /\ Holds(PackTx(m), 80, "content", m.hash, m.contentLen)
<1> DEFINE c == m.contentLen
           size == m.contentLen + 93
<1>1. PICK w : /\ PackTx(m) = WriteAll(size, w)
               /\ DOMAIN w = 1..11
               /\ HeaderWritten(w, m, "tx", size)
               /\ w[8] = Put(72, "txID", m.txID, 4)
               /\ w[9] = Put(76, "timestamp", ShortTimestamp(m.timestamp), 4)
               /\ w[10] = Put(80, "content", m.hash, m.contentLen)
               /\ w[11] = Put(80 + m.contentLen, "sender", m.hash, 20)
  BY TxWrites
<1>2. c \in Nat /\ size \in Nat /\ size > 72 /\ size - 1 = c + 92
  OBVIOUS
<1>3. Length(PackTx(m)) = size /\ Slice(PackTx(m), 0, size) = PackTx(m)
  BY <1>1, <1>2, BufferSize
<1>4. /\ w[9].at = 76 /\ w[9].len = 4 /\ w[10].at = 80 /\ w[10].len = c
      /\ w[11].at = 80 + c /\ w[11].len = 20 /\ w[8].at = 72 /\ w[8].len = 4
  BY <1>1 DEF Put
<1> HIDE DEF c, size
<1>5. \A j \in 8..11 : w[j].at \in Nat /\ w[j].len \in Nat /\ w[j].at >= 72
  <2> SUFFICES ASSUME NEW j \in 8..11
               PROVE  w[j].at \in Nat /\ w[j].len \in Nat /\ w[j].at >= 72
    OBVIOUS
  <2>1. j = 8 \/ j = 9 \/ j = 10 \/ j = 11
    OBVIOUS
  <2> QED
    BY <1>2, <1>4, <2>1
<1>6. HeaderHeld(PackTx(m), m, "tx", size)
  <2>1. 11 \in Nat /\ 11 >= 7 /\ size \in Nat /\ size > 72
    BY <1>2
  <2>2. DOMAIN w = 1..11 /\ HeaderWritten(w, m, "tx", size)
    BY <1>1
  <2>3. HeaderHeld(WriteAll(size, w), m, "tx", size)
    BY <1>5, <2>1, <2>2, HeaderKept, ZenonT(30)
  <2> QED
    BY <1>1, <2>3, ZenonT(30)
<1>7. \A j \in DOMAIN w : j > 8 => j = 9 \/ j = 10 \/ j = 11
  BY <1>1
<1>8. Clear(w, 8, 72, 4) /\ Clear(w, 9, 76, 4) /\ Clear(w, 10, 80, c)
  <2>1. Clear(w, 8, 72, 4)
    BY <1>2, <1>4, <1>7 DEF Clear
  <2>2. \A j \in DOMAIN w : j > 9 => j = 10 \/ j = 11
    BY <1>1
  <2>3. Clear(w, 9, 76, 4)
    BY <1>2, <1>4, <2>2 DEF Clear
  <2>4. \A j \in DOMAIN w : j > 10 => j = 11
    BY <1>1
  <2>5. Clear(w, 10, 80, c)
    BY <1>2, <1>4, <2>4 DEF Clear
  <2> QED
    BY <2>1, <2>3, <2>5
<1>9. /\ DOMAIN w \subseteq Int /\ 8 \in DOMAIN w /\ 9 \in DOMAIN w /\ 10 \in DOMAIN w
      /\ 72 \in Nat /\ 76 \in Nat /\ 80 \in Nat /\ 4 \in Nat
  BY <1>1
<1>10. 72 + 4 <= size /\ 76 + 4 <= size /\ 80 + c <= size
  BY <1>2 DEF size, c
<1>14. \A at \in Nat, len \in Nat : \A field, value : \A k \in DOMAIN w :
          w[k] = Put(at, field, value, len) /\ at + len <= size /\ Clear(w, k, at, len)
          => Holds(PackTx(m), at, field, value, len)
  <2> SUFFICES ASSUME NEW at \in Nat, NEW len \in Nat, NEW field, NEW value, NEW k \in DOMAIN w,
                      w[k] = Put(at, field, value, len), at + len <= size, Clear(w, k, at, len)
               PROVE  Holds(WriteAll(size, w), at, field, value, len)
    BY <1>1
  <2> QED
    BY <1>2, <1>9, FieldHeld, Zenon
<1>11. Holds(PackTx(m), 72, "txID", m.txID, 4)
  BY <1>1, <1>8, <1>9, <1>10, <1>14, Zenon
<1>12. Holds(PackTx(m), 76, "timestamp", ShortTimestamp(m.timestamp), 4)
  BY <1>1, <1>8, <1>9, <1>10, <1>14, Zenon
<1>13. Holds(PackTx(m), 80, "content", m.hash, c)
  BY <1>1, <1>2, <1>8, <1>9, <1>10, <1>14, Zenon DEF c
<1> QED
  BY <1>3, <1>6, <1>11, <1>12, <1>13 DEF c, size

\* A transaction as it is unpacked from the bytes of Pack
TxArrived(m, now) ==
    [type |-> "tx", hash |-> m.hash, networkNum |-> m.networkNum, txID |-> m.txID,
     timestamp |-> FullTimestamp(ShortTimestamp(m.timestamp), now), now |-> now,
     content |-> Bytes("content", m.hash, m.contentLen - 8)]

\* UnpackTx reads where PackTx wrote, and takes the last bytes of the content for the
\* sender.
LEMMA TxRead ==
    ASSUME NEW m, m.contentLen \in Nat, m.contentLen >= 8, NEW now
    PROVE  UnpackTx(PackTx(m), now) = TxArrived(m, now)
<1> DEFINE buf == PackTx(m)
<1> HIDE DEF buf
<1>1. /\ Length(buf) = m.contentLen + 93 /\ HeaderHeld(buf, m, "tx", m.contentLen + 93)
      /\ Holds(buf, 72, "txID", m.txID, 4)
      /\ Holds(buf, 76, "timestamp", ShortTimestamp(m.timestamp), 4)
      /\ Holds(buf, 80, "content", m.hash, m.contentLen)
  BY TxHeld, Zenon DEF buf
<1>2. UnpackHash(buf) = m.hash /\ UnpackNetworkNum(buf) = m.networkNum
  <2>1. HeaderHeld(buf, m, "tx", m.contentLen + 93)
    BY <1>1
  <2> QED
    BY <2>1, HeaderRead, ZenonT(30)
<1>3. 72 \in Nat /\ 76 \in Nat /\ 80 \in Nat /\ 4 \in Nat /\ 4 > 0
  OBVIOUS
<1>4. Number(buf, 72, 4) = m.txID /\ Number(buf, 76, 4) = ShortTimestamp(m.timestamp)
  <2>1. Number(buf, 72, 4) = m.txID
    <3>1. Holds(buf, 72, "txID", m.txID, 4)
      BY <1>1
    <3> QED
      BY <1>3, <3>1, NumberRead, ZenonT(30)
  <2>2. Number(buf, 76, 4) = ShortTimestamp(m.timestamp)
    <3>1. Holds(buf, 76, "timestamp", ShortTimestamp(m.timestamp), 4)
      BY <1>1
    <3> QED
      BY <1>3, <3>1, NumberRead, ZenonT(30)
  <2> QED
    BY <2>1, <2>2
<1>5. Slice(buf, 80, Length(buf) - 20 - 1) = Bytes("content", m.hash, m.contentLen - 8)
  <2>1. m.contentLen - 8 \in 0..m.contentLen
    OBVIOUS
  <2>2. Length(buf) - 20 - 1 = 80 + (m.contentLen - 8)
    BY <1>1
  <2>3. Slice(buf, 80, 80 + (m.contentLen - 8)) = Bytes("content", m.hash, m.contentLen - 8)
    BY <1>1, <2>1, BytesRead
  <2> QED
    BY <2>2, <2>3
<1> QED
  BY <1>2, <1>4, <1>5 DEF UnpackTx, TxArrived, buf, BroadcastHeaderLen, TxIDLen, ShortTimestampLen,
                          SenderLen, ControlByteLen

-----------------------------------------------------------------------------
(* A broadcast: what PackBroadcast writes and UnpackBroadcast reads.       *)

\* The writes of PackBroadcast, by places
LEMMA BroadcastWrites ==
    ASSUME NEW m, m.blockLen \in Nat, m.idCount \in Nat
    PROVE  \E w : /\ PackBroadcast(m) = WriteAll(90 + m.blockLen + m.idCount * 4, w)
                  /\ DOMAIN w = 1..(12 + m.idCount)
                  /\ HeaderWritten(w, m, "broadcast", 90 + m.blockLen + m.idCount * 4)
                  /\ w[8] = Put(72, "blok", 0, 4)
                  /\ w[9] = Put(76, "encrypted", 0, 1)
                  /\ w[10] = Put(77, "sidsOffset", m.blockLen + 8, 8)
                  /\ w[11] = Put(85, "block", m.hash, m.blockLen)
                  /\ w[12] = Put(85 + m.blockLen, "count", m.idCount, 4)
                  /\ \A i \in 1..m.idCount :
                        w[12 + i] = Put(85 + m.blockLen + i * 4, "sid", i, 4)
<1> DEFINE b == m.blockLen
           n == m.idCount
           size == 90 + m.blockLen + m.idCount * 4
           s == PackBroadcastHeader(m, "broadcast", size)
           t == <<Put(72, "blok", 0, 4), Put(76, "encrypted", 0, 1),
                  Put(77, "sidsOffset", b + 8, 8), Put(85, "block", m.hash, b),
                  Put(85 + b, "count", n, 4)>>
           T == {t[1], t[2], t[3], t[4], t[5]}
           u == [i \in 1..n |-> Put(85 + b + i * 4, "sid", i, 4)]
           U == {Put(85 + b + i * 4, "sid", i, 4) : i \in 1..n}
           v == s \o t
           w == v \o u
<1>1. BroadcastSize(m) = size
  BY DEF BroadcastSize, BroadcastHeaderSize, HeaderSize, HeaderLen, ControlByteLen, SHA256HashLen,
         NetworkNumLen, SourceIDLen, BroadcastTypeLen, EncryptedTypeLen, UInt64Len, UInt32Len
<1>2. PackBroadcast(m) = WriteAll(size, w)
  BY <1>1 DEF PackBroadcast, PackBlockLen, BroadcastHeaderLen, BroadcastTypeLen, EncryptedTypeLen,
              UInt64Len, UInt32Len
<1>3. size \in Nat /\ b \in Nat /\ n \in Nat
  OBVIOUS
<1> HIDE DEF s, t, T, u, U, v, w, size, b, n
<1>4. PICK S : s \in Seq(S) /\ Len(s) = 7 /\ HeaderWritten(s, m, "broadcast", size)
  BY <1>3, HeaderWrites, Zenon DEF s
<1>5. t \in Seq(T) /\ Len(t) = 5
  BY DEF t, T
<1>6. u \in Seq(U) /\ Len(u) = n
  <2>1. u \in [1..n -> U]
    BY DEF u, U
  <2> QED
    BY <1>3, <2>1
<1>7. /\ v \in Seq(S \cup T) /\ Len(v) = Len(s) + Len(t)
      /\ \A i \in 1..Len(s) : v[i] = s[i]
      /\ \A i \in 1..Len(t) : v[Len(s) + i] = t[i]
  <2>1. s \in Seq(S) /\ t \in Seq(T)
    BY <1>4, <1>5
  <2> QED
    BY <2>1, Joined DEF v
<1>8. /\ Len(v) = 12
      /\ \A i \in 1..7 : v[i] = s[i]
      /\ \A i \in 1..5 : v[7 + i] = t[i]
  BY <1>4, <1>5, <1>7
<1>9. /\ w \in Seq((S \cup T) \cup U) /\ Len(w) = Len(v) + Len(u)
      /\ \A i \in 1..Len(v) : w[i] = v[i]
      /\ \A i \in 1..Len(u) : w[Len(v) + i] = u[i]
  <2>1. v \in Seq(S \cup T) /\ u \in Seq(U)
    BY <1>6, <1>7
  <2> QED
    BY <2>1, Joined DEF w
<1>10. DOMAIN w = 1..(12 + n)
  <2>1. DOMAIN w = 1..Len(w)
    BY <1>9, LenProperties
  <2> QED
    BY <1>6, <1>8, <1>9, <2>1
<1>11. HeaderWritten(w, m, "broadcast", size)
  <2>1. \A i \in 1..7 : w[i] = s[i]
    BY <1>8, <1>9
  <2>2. /\ w[1] = s[1] /\ w[2] = s[2] /\ w[3] = s[3] /\ w[4] = s[4] /\ w[5] = s[5]
        /\ w[6] = s[6] /\ w[7] = s[7]
    BY <2>1
  <2> QED
    BY <1>4, <2>2, Zenon DEF HeaderWritten
<1>12. w[8] = t[1] /\ w[9] = t[2] /\ w[10] = t[3] /\ w[11] = t[4] /\ w[12] = t[5]
  <2>1. v[7 + 1] = t[1] /\ v[7 + 2] = t[2] /\ v[7 + 3] = t[3] /\ v[7 + 4] = t[4] /\ v[7 + 5] = t[5]
    BY <1>8
  <2>2. w[8] = v[8] /\ w[9] = v[9] /\ w[10] = v[10] /\ w[11] = v[11] /\ w[12] = v[12]
    BY <1>8, <1>9
  <2> QED
    BY <2>1, <2>2
<1>13. /\ w[8] = Put(72, "blok", 0, 4) /\ w[9] = Put(76, "encrypted", 0, 1)
       /\ w[10] = Put(77, "sidsOffset", b + 8, 8) /\ w[11] = Put(85, "block", m.hash, b)
       /\ w[12] = Put(85 + b, "count", n, 4)
  BY <1>12 DEF t
<1>14. \A i \in 1..n : w[12 + i] = Put(85 + b + i * 4, "sid", i, 4)
  BY <1>6, <1>8, <1>9 DEF u
<1> QED
  BY <1>2, <1>10, <1>11, <1>13, <1>14 DEF size, b, n

\* The fields that a reader finds in a packed broadcast
LEMMA BroadcastHeld ==
    ASSUME NEW m, m.blockLen \in Nat, m.idCount \in Nat
    PROVE  /\ Length(PackBroadcast(m)) = 90 + m.blockLen + m.idCount * 4
           /\ Slice(PackBroadcast(m), 0, 90 + m.blockLen + m.idCount * 4) = PackBroadcast(m)
           /\ HeaderHeld(PackBroadcast(m), m, "broadcast", 90 + m.blockLen + m.idCount * 4)
           /\ Holds(PackBroadcast(m), 77, "sidsOffset", m.blockLen + 8, 8)
           /\ Holds(PackBroadcast(m), 85, "block", m.hash, m.blockLen)
           /\ Holds(PackBroadcast(m), 85 + m.blockLen, "count", m.idCount, 4)
           /\ \A i \in 1..m.idCount :
                  Holds(PackBroadcast(m), 85 + m.blockLen + i * 4, "sid", i, 4)
<1> DEFINE b == m.blockLen
           n == m.idCount
           size == 90 + m.blockLen + m.idCount * 4
<1>1. PICK w : /\ PackBroadcast(m) = WriteAll(size, w)
               /\ DOMAIN w = 1..(12 + n)
               /\ HeaderWritten(w, m, "broadcast", size)
               /\ w[8] = Put(72, "blok", 0, 4)
               /\ w[9] = Put(76, "encrypted", 0, 1)
               /\ w[10] = Put(77, "sidsOffset", b + 8, 8)
               /\ w[11] = Put(85, "block", m.hash, b)
               /\ w[12] = Put(85 + b, "count", n, 4)
               /\ \A i \in 1..n : w[12 + i] = Put(85 + b + i * 4, "sid", i, 4)
  BY BroadcastWrites
<1>2. b \in Nat /\ n \in Nat /\ size \in Nat /\ size > 72 /\ size = 90 + b + n * 4
  OBVIOUS
<1> HIDE DEF b, n, size
<1>3. Length(PackBroadcast(m)) = size /\ Slice(PackBroadcast(m), 0, size) = PackBroadcast(m)
  <2>1. size \in Nat
    BY <1>2
  <2>2. Length(WriteAll(size, w)) = size /\ Slice(WriteAll(size, w), 0, size) = WriteAll(size, w)
    BY <2>1, BufferSize, ZenonT(30)
  <2> QED
    BY <1>1, <2>2, ZenonT(30)
<1>4. /\ w[8].at = 72 /\ w[8].len = 4 /\ w[9].at = 76 /\ w[9].len = 1
      /\ w[10].at = 77 /\ w[10].len = 8 /\ w[11].at = 85 /\ w[11].len = b
      /\ w[12].at = 85 + b /\ w[12].len = 4
  BY <1>1 DEF Put
<1>5. ASSUME NEW j \in 13..(12 + n)
      PROVE  w[j].at = 85 + b + (j - 12) * 4 /\ w[j].len = 4
  <2>1. j - 12 \in 1..n /\ 12 + (j - 12) = j
    BY <1>2
  <2>2. w[j] = Put(85 + b + (j - 12) * 4, "sid", j - 12, 4)
    BY <1>1, <2>1
  <2> QED
    BY <2>2 DEF Put
<1>6. \A j \in DOMAIN w : \/ j <= 7 \/ j = 8 \/ j = 9 \/ j = 10 \/ j = 11 \/ j = 12
                          \/ j \in 13..(12 + n)
  <2> SUFFICES ASSUME NEW j \in 1..(12 + n), ~(j <= 7), ~(j \in 13..(12 + n))
               PROVE  j = 8 \/ j = 9 \/ j = 10 \/ j = 11 \/ j = 12
    BY <1>1
  <2> QED
    BY <1>2
<1>7. ASSUME NEW j \in 8..(12 + n)
      PROVE  w[j].at \in Nat /\ w[j].len \in Nat /\ w[j].at >= 72
  <2>1. CASE j \in 13..(12 + n)
    BY <1>2, <1>5, <2>1
  <2>2. CASE j = 8 \/ j = 9 \/ j = 10 \/ j = 11 \/ j = 12
    BY <1>2, <1>4, <2>2
  <2> QED
    BY <1>2, <2>1, <2>2
<1>8. HeaderHeld(PackBroadcast(m), m, "broadcast", size)
  <2>1. 12 + n \in Nat /\ 12 + n >= 7 /\ size \in Nat /\ size > 72
    BY <1>2
  <2>2. DOMAIN w = 1..(12 + n) /\ HeaderWritten(w, m, "broadcast", size)
    BY <1>1
  <2>3. HeaderHeld(WriteAll(size, w), m, "broadcast", size)
    BY <1>7, <2>1, <2>2, HeaderKept, ZenonT(30)
  <2> QED
    BY <1>1, <2>3, ZenonT(30)
<1>9. \A at \in Nat, len \in Nat : \A field, value : \A k \in DOMAIN w :
          w[k] = Put(at, field, value, len) /\ at + len <= size /\ Clear(w, k, at, len)
          => Holds(PackBroadcast(m), at, field, value, len)
  <2> SUFFICES ASSUME NEW at \in Nat, NEW len \in Nat, NEW field, NEW value, NEW k \in DOMAIN w,
                      w[k] = Put(at, field, value, len), at + len <= size, Clear(w, k, at, len)
               PROVE  Holds(WriteAll(size, w), at, field, value, len)
    BY <1>1
  <2>1. DOMAIN w \subseteq Int
    BY <1>1
  <2> QED
    BY <1>2, <2>1, FieldHeld, Zenon
<1>10. /\ 10 \in DOMAIN w /\ 11 \in DOMAIN w /\ 12 \in DOMAIN w
       /\ 77 \in Nat /\ 85 \in Nat /\ 8 \in Nat /\ 4 \in Nat /\ 85 + b \in Nat
       /\ 77 + 8 <= size /\ 85 + b <= size /\ (85 + b) + 4 <= size
  BY <1>1, <1>2
<1>11. Holds(PackBroadcast(m), 77, "sidsOffset", b + 8, 8)
  <2>1. Clear(w, 10, 77, 8)
    <3> SUFFICES ASSUME NEW j \in DOMAIN w, j > 10
                 PROVE  w[j].at \in Int /\ w[j].len \in Int /\ w[j].at >= 85
      BY DEF Clear
    <3>1. CASE j \in 13..(12 + n)
      BY <1>2, <1>5, <3>1
    <3>2. CASE j = 11 \/ j = 12
      BY <1>2, <1>4, <3>2
    <3>3. j \in Int
      BY <1>1
    <3> QED
      BY <1>6, <3>1, <3>2, <3>3
  <2> QED
    BY <1>1, <1>9, <1>10, <2>1, Zenon
<1>12. Holds(PackBroadcast(m), 85, "block", m.hash, b)
  <2>1. Clear(w, 11, 85, b)
    <3> SUFFICES ASSUME NEW j \in DOMAIN w, j > 11
                 PROVE  w[j].at \in Int /\ w[j].len \in Int /\ w[j].at >= 85 + b
      BY DEF Clear
    <3>1. CASE j \in 13..(12 + n)
      BY <1>2, <1>5, <3>1
    <3>2. CASE j = 12
      BY <1>2, <1>4, <3>2
    <3>3. j \in Int
      BY <1>1
    <3> QED
      BY <1>6, <3>1, <3>2, <3>3
  <2> QED
    BY <1>1, <1>2, <1>9, <1>10, <2>1, Zenon
<1>13. Holds(PackBroadcast(m), 85 + b, "count", n, 4)
  <2>1. Clear(w, 12, 85 + b, 4)
    <3> SUFFICES ASSUME NEW j \in DOMAIN w, j > 12
                 PROVE  w[j].at \in Int /\ w[j].len \in Int /\ w[j].at >= (85 + b) + 4
      BY DEF Clear
    <3>1. j \in 13..(12 + n)
      BY <1>1, <1>2
    <3> QED
      BY <1>2, <1>5, <3>1
  <2> QED
    BY <1>1, <1>9, <1>10, <2>1, Zenon
<1>14. ASSUME NEW i \in 1..n
       PROVE  Holds(PackBroadcast(m), 85 + b + i * 4, "sid", i, 4)
  <2>1. Clear(w, 12 + i, 85 + b + i * 4, 4)
    <3> SUFFICES ASSUME NEW j \in DOMAIN w, j > 12 + i
                 PROVE  w[j].at \in Int /\ w[j].len \in Int /\ w[j].at >= (85 + b + i * 4) + 4
      BY DEF Clear
    <3>1. j \in 13..(12 + n)
      BY <1>1, <1>2
    <3> QED
      BY <1>2, <1>5, <3>1
  <2>2. /\ 12 + i \in DOMAIN w /\ 85 + b + i * 4 \in Nat /\ 4 \in Nat
        /\ (85 + b + i * 4) + 4 <= size
    BY <1>1, <1>2
  <2>3. w[12 + i] = Put(85 + b + i * 4, "sid", i, 4)
    BY <1>1
  <2> QED
    BY <1>9, <2>1, <2>2, <2>3, Zenon
<1> QED
  BY <1>3, <1>8, <1>11, <1>12, <1>13, <1>14 DEF b, n, size

\* A broadcast as it is unpacked from the bytes of Pack
BroadcastArrived(m) ==
    [type |-> "broadcast", hash |-> m.hash, networkNum |-> m.networkNum,
     block |-> Bytes("block", m.hash, m.blockLen), sids |-> [k \in 1..m.idCount |-> k]]

\* UnpackBroadcast reads where PackBroadcast wrote, and its checks of the length let
\* the buffer pass.
LEMMA BroadcastRead ==
    ASSUME NEW m, m.blockLen \in Nat, m.idCount \in Nat
    PROVE  UnpackBroadcast(PackBroadcast(m)) = BroadcastArrived(m)
<1> DEFINE buf == PackBroadcast(m)
           b == m.blockLen
           n == m.idCount
           size == 90 + m.blockLen + m.idCount * 4
<1>1. b \in Nat /\ n \in Nat /\ size = 90 + b + n * 4
  OBVIOUS
<1> HIDE DEF buf, b, n, size
<1>2. /\ Length(buf) = size /\ HeaderHeld(buf, m, "broadcast", size)
      /\ Holds(buf, 77, "sidsOffset", b + 8, 8) /\ Holds(buf, 85, "block", m.hash, b)
      /\ Holds(buf, 85 + b, "count", n, 4)
      /\ \A i \in 1..n : Holds(buf, 85 + b + i * 4, "sid", i, 4)
  BY BroadcastHeld, Zenon DEF buf, b, n, size
<1>3. UnpackHash(buf) = m.hash /\ UnpackNetworkNum(buf) = m.networkNum
  <2>1. HeaderHeld(buf, m, "broadcast", size)
    BY <1>2
  <2> QED
    BY <2>1, HeaderRead, ZenonT(30)
<1>4. /\ 77 \in Nat /\ 8 \in Nat /\ 8 > 0 /\ 85 \in Nat /\ 4 \in Nat /\ 4 > 0 /\ 85 + b \in Nat
      /\ b \in 0..b /\ \A i \in 1..n : 85 + b + i * 4 \in Nat
  BY <1>1
<1>5. Number(buf, 77, 8) = b + 8
  <2>1. Holds(buf, 77, "sidsOffset", b + 8, 8)
    BY <1>2
  <2> QED
    BY <1>4, <2>1, NumberRead, ZenonT(30)
<1>6. Number(buf, 85 + b, 4) = n
  <2>1. Holds(buf, 85 + b, "count", n, 4)
    BY <1>2
  <2> QED
    BY <1>4, <2>1, NumberRead, ZenonT(30)
<1>7. ASSUME NEW i \in 1..n
      PROVE  Number(buf, 85 + b + i * 4, 4) = i
  <2>1. 85 + b + i * 4 \in Nat /\ Holds(buf, 85 + b + i * 4, "sid", i, 4)
    BY <1>2, <1>4
  <2> QED
    BY <1>4, <2>1, NumberRead, Zenon
<1>8. Slice(buf, 85, 85 + b) = Bytes("block", m.hash, b)
  <2>1. Holds(buf, 85, "block", m.hash, b) /\ b \in Nat /\ b \in 0..b
    BY <1>1, <1>2
  <2> QED
    BY <2>1, BytesRead
<1> DEFINE ids == 77 + Number(buf, 77, 8)
           count == Number(buf, ids, 4)
<1>9. ids = 85 + b /\ count = n
  <2>1. ids = 85 + b
    BY <1>1, <1>5
  <2> QED
    BY <1>6, <2>1
<1> HIDE DEF ids, count
<1>10. /\ 0 + 73 <= Length(buf) /\ 77 + 8 <= Length(buf)
       /\ ids >= 77 + 8 /\ ids + 4 <= Length(buf)
       /\ count >= 0 /\ (ids + 4) + count * 4 <= Length(buf)
  BY <1>1, <1>2, <1>9
<1>11. [i \in 1..count |-> Number(buf, ids + i * 4, 4)] = [i \in 1..n |-> i]
  BY <1>7, <1>9
<1>12. Slice(buf, 77 + 8, ids) = Bytes("block", m.hash, b)
  BY <1>8, <1>9
<1>13. UnpackBroadcast(buf) =
           [type |-> "broadcast", hash |-> UnpackHash(buf), networkNum |-> UnpackNetworkNum(buf),
            block |-> Slice(buf, 77 + 8, ids),
            sids |-> [i \in 1..count |-> Number(buf, ids + i * 4, 4)]]
  BY <1>10 DEF UnpackBroadcast, ids, count, BroadcastHeaderLen, BroadcastHeaderSize, HeaderSize,
               HeaderLen, ControlByteLen, SHA256HashLen, NetworkNumLen, SourceIDLen,
               BroadcastTypeLen, EncryptedTypeLen, UInt64Len, UInt32Len
<1> QED
  BY <1>3, <1>11, <1>12, <1>13, Zenon DEF BroadcastArrived, buf, b, n

-----------------------------------------------------------------------------
(* The messages as the reader of the stream sees them.                     *)

\* What the receiver makes of a message at a reading of its clock
Arrived(m, now) == IF m.type = "tx" THEN TxArrived(m, now) ELSE BroadcastArrived(m)

\* The header of a message announces the rest of it, and its bytes are unpacked to
\* what Arrived says.
LEMMA PackedFacts ==
    ASSUME NEW m \in Outgoing
    PROVE  /\ Size[m] \in Nat /\ Size[m] > 72
           /\ PayloadLen(Slice(Packed[m], 0, 20)) = Size[m] - 20
           /\ Slice(Packed[m], 0, Size[m]) = Packed[m]
           /\ \A now : Unpack(Packed[m], now) = Arrived(m, now)
<1>1. Packed[m] = Pack(m) /\ Size[m] = Length(Pack(m))
  BY DEF Packed, Size
<1>2. \/ m.type = "tx" /\ m.contentLen \in Nat /\ m.contentLen >= 8
      \/ m.type = "broadcast" /\ m.blockLen \in Nat /\ m.idCount \in Nat
  BY FramingAssumption DEF TxIDLen, ShortTimestampLen
<1>3. /\ Size[m] \in Nat /\ Size[m] > 72
      /\ HeaderHeld(Pack(m), m, m.type, Size[m])
      /\ Slice(Pack(m), 0, Size[m]) = Pack(m)
  <2>1. CASE m.type = "tx" /\ m.contentLen \in Nat /\ m.contentLen >= 8
    <3>1. Size[m] = m.contentLen + 93
      BY <1>1, <2>1, TxHeld DEF Pack
    <3>2. HeaderHeld(Pack(m), m, m.type, Size[m]) /\ Slice(Pack(m), 0, Size[m]) = Pack(m)
      BY <2>1, <3>1, TxHeld, Zenon DEF Pack
    <3> QED
      BY <2>1, <3>1, <3>2
  <2>2. CASE m.type = "broadcast" /\ m.blockLen \in Nat /\ m.idCount \in Nat
    <3>1. Size[m] = 90 + m.blockLen + m.idCount * 4
      BY <1>1, <2>2, BroadcastHeld DEF Pack
    <3>2. HeaderHeld(Pack(m), m, m.type, Size[m]) /\ Slice(Pack(m), 0, Size[m]) = Pack(m)
      BY <2>2, <3>1, BroadcastHeld DEF Pack
    <3> QED
      BY <2>2, <3>1, <3>2
  <2> QED
    BY <1>2, <2>1, <2>2
<1>4. PayloadLen(Slice(Pack(m), 0, 20)) = Size[m] - 20
  <2> DEFINE buf == Pack(m)
             front == Slice(buf, 0, 20)
  <2>1. Holds(buf, 16, "payload", Size[m] - 20, 4)
    BY <1>3 DEF HeaderHeld
  <2> HIDE DEF buf
  <2>2. Holds(front, 16, "payload", Size[m] - 20, 4)
    <3> SUFFICES ASSUME NEW k \in 0..(4 - 1)
                 PROVE  front[16 + k] = buf[16 + k]
      BY <2>1 DEF Holds
    <3>1. 16 + k \in 0..(20 - 0 - 1) /\ 0 + (16 + k) = 16 + k
      OBVIOUS
    <3> QED
      BY <3>1 DEF Slice
  <2>3. 16 \in Nat /\ 4 \in Nat /\ 4 > 0
    OBVIOUS
  <2> HIDE DEF front
  <2>4. Number(front, 16, 4) = Size[m] - 20
    BY <2>2, <2>3, NumberRead, Zenon
  <2> QED
    BY <2>4 DEF PayloadLen, front, buf, PayloadSizeOffset, UInt32Len
<1>5. ASSUME NEW now
      PROVE  Unpack(Pack(m), now) = Arrived(m, now)
  <2>1. TbType(Pack(m)) = m.type
    BY <1>3, HeaderRead
  <2>2. CASE m.type = "tx" /\ m.contentLen \in Nat /\ m.contentLen >= 8
    BY <2>1, <2>2, TxRead DEF Unpack, Arrived, Pack
  <2>3. CASE m.type = "broadcast" /\ m.blockLen \in Nat /\ m.idCount \in Nat
    BY <2>1, <2>3, BroadcastRead DEF Unpack, Arrived, Pack
  <2> QED
    BY <1>2, <2>2, <2>3
<1> QED
  BY <1>1, <1>3, <1>4, <1>5

-----------------------------------------------------------------------------
(* The time of a transaction.                                              *)

\* Division with a remainder
LEMMA Division ==
    ASSUME NEW x \in Nat, NEW d \in Nat \ {0}
    PROVE  /\ x \div d \in Nat /\ x % d \in 0..(d - 1)
           /\ x = d * (x \div d) + (x % d)
  OBVIOUS

\* The remainder is the only one in its range.
LEMMA OneRemainder ==
    ASSUME NEW d \in Nat \ {0}, NEW p \in Int, NEW q \in Int, NEW r \in 0..(d - 1), NEW s \in 0..(d - 1),
           d * p + r = d * q + s
    PROVE  p = q /\ r = s
<1>1. d * (p - q) = s - r
  OBVIOUS
<1>2. CASE p - q >= 1
  <2>1. d * (p - q) >= d
    BY <1>2
  <2> QED
    BY <1>1, <2>1
<1>3. CASE q - p >= 1
  <2>1. d * (q - p) >= d
    BY <1>3
  <2>2. d * (q - p) = r - s
    OBVIOUS
  <2> QED
    BY <2>1, <2>2
<1> QED
  BY <1>1, <1>2, <1>3

\* Products of sums
LEMMA Distribute ==
    ASSUME NEW u \in Int, NEW q \in Int, NEW a \in Int, NEW y \in Int
    PROVE  u * (q * a + y) = (u * q) * a + u * y
  OBVIOUS

\* A short timestamp keeps the place in the window of the time, cut to its unit.
LEMMA ShortKeeps ==
    ASSUME NEW t \in Nat
    PROVE  \E a \in Int : ShortTimestamp(t) * Unit = (t - (t % Unit)) - a * Window
<1> DEFINE q == Window \div Unit
           s == t % Window
<1>1. Unit \in Nat \ {0} /\ Window \in Nat \ {0} /\ Window % Unit = 0
  BY TimeAssumption
<1>2. q \in Nat /\ Window = Unit * q
  <2>1. q \in Nat /\ Window = Unit * q + (Window % Unit)
    BY <1>1, Division
  <2> QED
    BY <1>1, <2>1
<1>3. /\ t \div Window \in Nat /\ s \in Nat
      /\ t = Window * (t \div Window) + s
  BY <1>1, Division
<1>4. /\ t \div Unit \in Nat /\ t % Unit \in 0..(Unit - 1)
      /\ t = Unit * (t \div Unit) + (t % Unit)
  BY <1>1, Division
<1> HIDE DEF q, s
<1>5. /\ s \div Unit \in Nat /\ s % Unit \in 0..(Unit - 1)
      /\ s = Unit * (s \div Unit) + (s % Unit)
  BY <1>1, <1>3, Division
<1>6. s % Unit = t % Unit
  <2> DEFINE a == t \div Window
             y == s \div Unit
             p == q * a + y
             r == s % Unit
  <2>1. a \in Int /\ y \in Int /\ q \in Int /\ Unit \in Int
    BY <1>1, <1>2, <1>3, <1>5
  <2>2. t = Window * a + s /\ s = Unit * y + r /\ r \in 0..(Unit - 1)
    BY <1>3, <1>5
  <2> HIDE DEF a, y, r
  <2>3. p \in Int
    BY <2>1
  <2>4. Unit * p = (Unit * q) * a + Unit * y
    BY <2>1, Distribute
  <2>5. Unit * p + r = t
    <3>1. (Unit * q) * a = Window * a
      BY <1>2
    <3>2. Window * a \in Int /\ Unit * y \in Int /\ r \in Int
      BY <1>1, <2>1, <2>2
    <3> HIDE DEF p
    <3> QED
      BY <2>2, <2>4, <3>1, <3>2
  <2> HIDE DEF p
  <2> DEFINE p2 == t \div Unit
             r2 == t % Unit
  <2>6. Unit * p + r = Unit * p2 + r2 /\ p2 \in Int /\ r2 \in 0..(Unit - 1)
    BY <1>4, <2>5
  <2> HIDE DEF p2, r2
  <2>7. r = r2
    BY <1>1, <2>2, <2>3, <2>6, OneRemainder
  <2> QED
    BY <2>7 DEF r, r2
<1>7. ShortTimestamp(t) * Unit = (t - (t % Unit)) - (t \div Window) * Window
  <2>1. ShortTimestamp(t) = s \div Unit
    BY DEF ShortTimestamp, s
  <2> QED
    BY <1>1, <1>3, <1>4, <1>5, <1>6, <2>1
<1> QED
  BY <1>3, <1>7

\* A time that is off by at most Window - Hour is recovered.
LEMMA TimeRecovered ==
    ASSUME NEW t \in Nat, NEW now \in Nat,
           now - (t - (t % Unit)) <= Window - Hour, (t - (t % Unit)) - now <= Window - Hour
    PROVE  FullTimestamp(ShortTimestamp(t), now) = t - (t % Unit)
<1> DEFINE x == t - (t % Unit)
           short == ShortTimestamp(t) * Unit
           base == now - (now % Window)
           merged == short + base
<1>1. /\ Unit \in Nat \ {0} /\ Window \in Nat \ {0} /\ Hour \in Nat
      /\ Hour < Window /\ Window < 2 * Hour
  BY TimeAssumption
<1>2. x \in Int
  BY <1>1, Division
<1>3. PICK a \in Int : short = x - a * Window
  BY ShortKeeps
<1>4. now % Window \in 0..(Window - 1) /\ \E c \in Int : base = c * Window
  <2>1. /\ now \div Window \in Nat /\ now % Window \in 0..(Window - 1)
        /\ now = Window * (now \div Window) + (now % Window)
    BY <1>1, Division
  <2>2. base = (now \div Window) * Window
    BY <1>1, <2>1
  <2> QED
    BY <2>1, <2>2
<1>5. PICK c \in Int : base = c * Window
  BY <1>4
<1>6. short \in Int /\ 0 <= short /\ short < Window
  <2> DEFINE s == t % Window
  <2>1. s \in 0..(Window - 1) /\ s \in Nat
    BY <1>1, Division
  <2> HIDE DEF s
  <2>2. s \div Unit \in Nat /\ s % Unit \in 0..(Unit - 1) /\ s = Unit * (s \div Unit) + (s % Unit)
    BY <1>1, <2>1, Division
  <2>3. short = (s \div Unit) * Unit
    BY DEF ShortTimestamp, s
  <2> QED
    BY <1>1, <2>1, <2>2, <2>3
<1>7. base \in Int /\ base <= now /\ now < base + Window
  BY <1>1, <1>4
<1> DEFINE k == c - a
<1>8. k \in Int /\ merged = x + k * Window
  BY <1>1, <1>2, <1>3, <1>5
<1>9. now - x <= Window - Hour /\ x - now <= Window - Hour
  OBVIOUS
<1>10. FullTimestamp(ShortTimestamp(t), now) =
          LET lower == IF merged - now >= Hour THEN merged - Window ELSE merged
          IN  IF now - lower >= Hour THEN lower + Window ELSE lower
  BY DEF FullTimestamp
<1>11. merged \in Int /\ merged - now < Window /\ now - merged < Window
  <2> HIDE DEF short, base
  <2> QED
    BY <1>1, <1>6, <1>7
<1> HIDE DEF x, short, base, merged, k
<1>12. k = -1 \/ k = 0 \/ k = 1
  <2>1. k * Window < 2 * Window /\ -(2 * Window) < k * Window
    BY <1>1, <1>2, <1>8, <1>9, <1>11
  <2>2. CASE k >= 2
    <3>1. k * Window >= 2 * Window
      BY <1>1, <1>8, <2>2
    <3> QED
      BY <1>1, <1>8, <2>1, <3>1
  <2>3. CASE k <= -2
    <3>1. (-k) * Window >= 2 * Window
      BY <1>1, <1>8, <2>3
    <3>2. (-k) * Window = -(k * Window)
      BY <1>1, <1>8
    <3> QED
      BY <1>1, <1>8, <2>1, <3>1, <3>2
  <2> QED
    BY <1>8, <2>2, <2>3
<1>13. CASE k = 0
  BY <1>1, <1>2, <1>8, <1>9, <1>10, <1>13 DEF x
<1>14. CASE k = 1
  BY <1>1, <1>2, <1>8, <1>9, <1>10, <1>14 DEF x
<1>15. CASE k = -1
  BY <1>1, <1>2, <1>8, <1>9, <1>10, <1>15 DEF x
<1> QED
  BY <1>12, <1>13, <1>14, <1>15

-----------------------------------------------------------------------------
(* The stream.                                                             *)

\* The ends of the messages, each behind the one before
EndsFollow == \A n \in 1..Len(stream) : EndOf(n) = EndOf(n - 1) + Size[stream[n]]
EndsRise == \A i, j \in 0..Len(stream) : i <= j => EndOf(i) <= EndOf(j)

\* Everything that the receiver can make of the messages
Arrivals == {Arrived(m, now) : m \in Outgoing, now \in Clocks}

\* What was received is what was sent, in order, each unpacked at some reading of the
\* clock.
ArrivedInOrder ==
    /\ received \in Seq(Arrivals)
    /\ \A i \in 1..Len(received) : \E now \in Clocks : received[i] = Arrived(stream[i], now)

\* The inductive invariant: the positions of the messages in the stream, with which the
\* bytes at the front of the buffer are known to be those of the next message, and what
\* has been made of the messages cut off
ReaderInv == WireInv /\ EndsFollow /\ EndsRise /\ ArrivedInOrder

\* Positions are numbers.
LEMMA EndType ==
    ASSUME WireTypeOK
    PROVE  Len(stream) \in Nat /\ \A n \in 0..Len(stream) : EndOf(n) \in Nat
<1>1. Len(stream) \in Nat /\ ends \in Seq(Nat) /\ Len(ends) = Len(stream)
  BY DEF WireTypeOK
<1> QED
  BY <1>1 DEF EndOf

\* The bytes behind the end of a message are those of the next one.
LEMMA NextBytes ==
    ASSUME WireTypeOK, EndsFollow, EndsRise, NEW n \in 1..Len(stream), NEW hi \in Nat,
           EndOf(n - 1) <= hi, hi <= EndOf(n)
    PROVE  Wire(EndOf(n - 1), hi) = Slice(Packed[stream[n]], 0, hi - EndOf(n - 1))
<1> DEFINE lo == EndOf(n - 1)
<1>1. lo \in Nat /\ EndOf(n) \in Nat /\ Len(stream) \in Nat
  BY EndType
<1>2. ASSUME NEW k \in 0..(hi - lo - 1)
      PROVE  (CHOOSE j \in 1..Len(stream) : EndOf(j - 1) <= lo + k /\ lo + k < EndOf(j)) = n
  <2> DEFINE P(j) == EndOf(j - 1) <= lo + k /\ lo + k < EndOf(j)
  <2>1. P(n)
    BY <1>1
  <2>2. ASSUME NEW j \in 1..Len(stream), P(j)
        PROVE  j = n
    <3>1. /\ j - 1 \in 0..Len(stream) /\ j \in 0..Len(stream)
          /\ n - 1 \in 0..Len(stream) /\ n \in 0..Len(stream)
      BY <1>1
    <3>2. EndOf(j) \in Nat /\ EndOf(j - 1) \in Nat
      BY <3>1, EndType
    <3>3. CASE j <= n - 1
      <4>1. EndOf(j) <= lo
        BY <3>1, <3>3 DEF EndsRise
      <4> QED
        BY <1>1, <2>2, <3>2, <4>1
    <3>4. CASE n <= j - 1
      <4>1. EndOf(n) <= EndOf(j - 1)
        BY <3>1, <3>4 DEF EndsRise
      <4> QED
        BY <1>1, <2>2, <3>2, <4>1
    <3> QED
      BY <1>1, <3>3, <3>4
  <2> HIDE DEF P
  <2>3. (CHOOSE j \in 1..Len(stream) : P(j)) = n
    BY <2>1, <2>2
  <2> QED
    BY <2>3 DEF P
<1>3. \A k \in 0..(hi - lo - 1) : lo + k - EndOf(n - 1) = 0 + k
  BY <1>1
<1>4. (hi - lo) - 0 - 1 = hi - lo - 1
  BY <1>1
<1>5. ASSUME NEW k \in 0..(hi - lo - 1)
      PROVE  (LET j == CHOOSE j \in 1..Len(stream) : EndOf(j - 1) <= lo + k /\ lo + k < EndOf(j)
              IN  Packed[stream[j]][lo + k - EndOf(j - 1)]) = Packed[stream[n]][0 + k]
  BY <1>2, <1>3
<1> QED
  BY <1>4, <1>5 DEF Wire, Slice

\* The message at the front of the buffer: it is the next one of the stream, and its
\* header announces its size.
LEMMA FrontMessage ==
    ASSUME ReaderInv, ~torn, read - start >= 20
    PROVE  /\ Len(received) + 1 \in 1..Len(stream)
           /\ stream[Len(received) + 1] \in Outgoing
           /\ FrontPayload = Size[stream[Len(received) + 1]] - 20
<1> DEFINE n == Len(received) + 1
<1>1. /\ Len(received) \in Nat /\ Len(received) <= Len(stream) /\ Len(stream) \in Nat
      /\ start \in Nat /\ read \in Nat /\ read <= EndOf(Len(stream))
      /\ start = EndOf(Len(received)) /\ stream \in Seq(Outgoing)
  <2>1. EndOf(Len(stream)) \in Nat /\ Len(stream) \in Nat
    BY EndType DEF ReaderInv, WireInv
  <2> QED
    BY <2>1 DEF ReaderInv, WireInv, WireTypeOK, FramesAligned, ArrivedInOrder
<1>2. n \in 1..Len(stream)
  BY <1>1
<1>3. stream[n] \in Outgoing
  BY <1>1, <1>2
<1>4. Size[stream[n]] \in Nat /\ Size[stream[n]] > 72
  BY <1>3, PackedFacts
<1>5. n - 1 = Len(received) /\ EndOf(n) = start + Size[stream[n]]
  BY <1>1, <1>2 DEF ReaderInv, EndsFollow
<1>6. Wire(start, start + 20) = Slice(Packed[stream[n]], 0, 20)
  <2>1. EndOf(n - 1) = start
    BY <1>1, <1>5
  <2>2. EndOf(n - 1) <= start + 20 /\ start + 20 <= EndOf(n) /\ (start + 20) - EndOf(n - 1) = 20
        /\ start + 20 \in Nat
    <3>1. start + 20 <= start + Size[stream[n]] /\ start <= start + 20 /\ start + 20 \in Nat
      BY <1>1, <1>4
    <3> QED
      BY <1>1, <1>5, <2>1, <3>1
  <2>3. Wire(EndOf(n - 1), start + 20) = Slice(Packed[stream[n]], 0, (start + 20) - EndOf(n - 1))
    BY <1>2, <2>2, NextBytes DEF ReaderInv, WireInv
  <2> QED
    BY <2>1, <2>2, <2>3
<1>7. FrontPayload = Size[stream[n]] - 20
  BY <1>3, <1>6, PackedFacts DEF FrontPayload, HeaderLen
<1> QED
  BY <1>2, <1>3, <1>7

\* The whole message at the front of the buffer is unpacked to what Arrived says.
LEMMA FrontUnpacked ==
    ASSUME ReaderInv, NEW n \in 1..Len(stream), start = EndOf(n - 1), NEW now
    PROVE  Unpack(Wire(start, EndOf(n)), now) = Arrived(stream[n], now)
<1>1. Len(stream) \in Nat /\ EndOf(n) \in Nat /\ EndOf(n - 1) \in Nat /\ stream[n] \in Outgoing
  <2>1. WireTypeOK
    BY DEF ReaderInv, WireInv
  <2>2. Len(stream) \in Nat
    BY <2>1, EndType
  <2>3. n - 1 \in 0..Len(stream) /\ n \in 0..Len(stream)
    BY <2>2
  <2>4. stream[n] \in Outgoing
    BY <2>1 DEF WireTypeOK
  <2> QED
    BY <2>1, <2>2, <2>3, <2>4, EndType
<1>2. /\ Size[stream[n]] \in Nat /\ Slice(Packed[stream[n]], 0, Size[stream[n]]) = Packed[stream[n]]
      /\ Unpack(Packed[stream[n]], now) = Arrived(stream[n], now)
  BY <1>1, PackedFacts
<1>3. EndOf(n) = EndOf(n - 1) + Size[stream[n]]
  BY DEF ReaderInv, EndsFollow
<1>4. EndOf(n - 1) <= EndOf(n) /\ EndOf(n) - EndOf(n - 1) = Size[stream[n]]
  BY <1>1, <1>2, <1>3
<1>5. Wire(EndOf(n - 1), EndOf(n)) = Slice(Packed[stream[n]], 0, EndOf(n) - EndOf(n - 1))
  <2>1. EndOf(n) <= EndOf(n)
    BY <1>1
  <2> QED
    BY <1>1, <1>4, <2>1, NextBytes DEF ReaderInv, WireInv
<1> QED
  BY <1>2, <1>4, <1>5

-----------------------------------------------------------------------------
(* The steps.                                                              *)

\* An empty stream satisfies the invariant.
LEMMA EmptyStream ==
    ASSUME stream = <<>>, ends = <<>>, read = 0, start = 0, parsing \in BOOLEAN, received = <<>>,
           torn \in BOOLEAN
    PROVE  ReaderInv
<1>1. Len(stream) = 0 /\ Len(ends) = 0 /\ Len(received) = 0 /\ EndOf(0) = 0
  BY DEF EndOf
<1>2. stream \in Seq(Outgoing) /\ ends \in Seq(Nat) /\ received \in Seq(Arrivals)
  BY EmptySeq
<1>3. WireTypeOK
  BY <1>1, <1>2, FramingAssumption DEF WireTypeOK
<1>4. FramesAligned /\ NothingHeldBack
  BY <1>1 DEF FramesAligned, NothingHeldBack
<1>5. EndsFollow /\ EndsRise
  BY <1>1 DEF EndsFollow, EndsRise
<1> QED
  BY <1>1, <1>2, <1>3, <1>4, <1>5 DEF ReaderInv, WireInv, ArrivedInOrder

\* A message that is sent goes behind the others.
LEMMA SendKeeps ==
    ASSUME ReaderInv, NEW m \in Outgoing, Send(m)
    PROVE  ReaderInv'
<1>0. PICK last \in Nat : last = Len(stream)
  BY EndType DEF ReaderInv, WireInv
<1>1. /\ WireTypeOK /\ FramesAligned /\ NothingHeldBack
      /\ EndsFollow /\ EndsRise /\ ArrivedInOrder
  BY DEF ReaderInv, WireInv
<1>2. last \in Nat /\ \A n \in 0..last : EndOf(n) \in Nat
  BY <1>0, <1>1, EndType
<1>3. Size[m] \in Nat /\ Size[m] > 72
  BY PackedFacts
<1>4. /\ stream \in Seq(Outgoing) /\ ends \in Seq(Nat) /\ Len(ends) = last /\ last < MaxSent
      /\ stream' = Append(stream, m) /\ ends' = Append(ends, EndOf(last) + Size[m])
      /\ UNCHANGED <<read, start, parsing, received, torn>>
  BY <1>0, <1>1 DEF WireTypeOK, Send
<1>5. /\ stream' \in Seq(Outgoing) /\ Len(stream') = last + 1
      /\ \A n \in 1..last : stream'[n] = stream[n]
      /\ stream'[last + 1] = m
  BY <1>0, <1>2, <1>4
<1>6. /\ ends' \in Seq(Nat) /\ Len(ends') = last + 1
      /\ \A n \in 1..last : ends'[n] = ends[n]
      /\ ends'[last + 1] = EndOf(last) + Size[m]
  <2>1. EndOf(last) + Size[m] \in Nat
    BY <1>2, <1>3
  <2> QED
    BY <1>0, <1>2, <1>4, <2>1
<1>7. /\ \A n \in 0..last : EndOf(n)' = EndOf(n)
      /\ EndOf(last + 1)' = EndOf(last) + Size[m]
  BY <1>2, <1>6 DEF EndOf
<1>8. read \in 0..EndOf(last) /\ start \in Nat /\ Len(received) \in Nat /\ Len(received) <= last
  BY <1>0, <1>1 DEF WireTypeOK, ArrivedInOrder
<1>9. WireTypeOK'
  <2>1. read \in 0..(EndOf(last) + Size[m])
    BY <1>2, <1>3, <1>8
  <2>2. read' \in 0..EndOf(Len(stream))'
    BY <1>4, <1>5, <1>7, <2>1
  <2>3. Len(stream)' <= MaxSent
    BY <1>2, <1>4, <1>5, FramingAssumption
  <2>4. Len(received)' <= Len(stream)'
    BY <1>2, <1>4, <1>5, <1>8
  <2> QED
    BY <1>1, <1>4, <1>5, <1>6, <1>8, <2>2, <2>3, <2>4 DEF WireTypeOK
<1>10. FramesAligned'
  BY <1>1, <1>4, <1>7, <1>8, <1>2 DEF FramesAligned
<1>11. NothingHeldBack'
  <2> SUFFICES ASSUME ~parsing, ~torn
               PROVE  read < EndOf(Len(received) + 1)'
    BY <1>4 DEF NothingHeldBack
  <2>1. CASE Len(received) < last
    <3>1. Len(received) + 1 \in 0..last
      BY <1>2, <1>8, <2>1
    <3>2. EndOf(Len(received) + 1)' = EndOf(Len(received) + 1)
      BY <1>4, <1>7, <3>1
    <3> QED
      BY <1>0, <1>1, <2>1, <3>2 DEF NothingHeldBack
  <2>2. CASE Len(received) = last
    <3>1. EndOf(Len(received) + 1)' = EndOf(last) + Size[m]
      BY <1>4, <1>7, <2>2
    <3> QED
      BY <1>2, <1>3, <1>8, <3>1
  <2> QED
    BY <1>2, <1>8, <2>1, <2>2
<1>12. EndsFollow'
  <2> SUFFICES ASSUME NEW n \in 1..(last + 1)
               PROVE  EndOf(n)' = EndOf(n - 1)' + Size[stream'[n]]
    BY <1>5 DEF EndsFollow
  <2>1. CASE n \in 1..last
    <3>1. n \in 0..last /\ n - 1 \in 0..last
      BY <1>2, <2>1
    <3> QED
      BY <1>0, <1>1, <1>5, <1>7, <2>1, <3>1 DEF EndsFollow
  <2>2. CASE n = last + 1
    <3>1. n - 1 = last /\ last \in 0..last
      BY <1>2, <2>2
    <3> QED
      BY <1>5, <1>7, <2>2, <3>1
  <2> QED
    BY <1>2, <2>1, <2>2
<1>13. EndsRise'
  <2> SUFFICES ASSUME NEW i \in 0..(last + 1), NEW j \in 0..(last + 1), i <= j
               PROVE  EndOf(i)' <= EndOf(j)'
    BY <1>5 DEF EndsRise
  <2>1. CASE j \in 0..last
    <3>1. i \in 0..last
      BY <1>2, <2>1
    <3> QED
      BY <1>0, <1>1, <1>7, <2>1, <3>1 DEF EndsRise
  <2>2. CASE j = last + 1 /\ i \in 0..last
    <3>1. EndOf(i) <= EndOf(last)
      BY <1>0, <1>1, <1>2, <2>2 DEF EndsRise
    <3> QED
      BY <1>2, <1>3, <1>7, <2>2, <3>1
  <2>3. CASE j = last + 1 /\ i = last + 1
    BY <1>2, <1>3, <1>7, <2>3
  <2> QED
    BY <1>2, <2>1, <2>2, <2>3
<1>14. ArrivedInOrder'
  <2>1. \A i \in 1..Len(received) : i \in 1..last
    BY <1>2, <1>8
  <2> QED
    BY <1>1, <1>4, <1>5, <2>1 DEF ArrivedInOrder
<1> QED
  BY <1>9, <1>10, <1>11, <1>12, <1>13, <1>14 DEF ReaderInv, WireInv

\* A read brings the reader nearer to the end of the stream.
LEMMA ReadKeeps ==
    ASSUME ReaderInv, NEW n \in Chunks, Read(n)
    PROVE  ReaderInv'
<1>1. /\ WireTypeOK /\ FramesAligned /\ EndsFollow /\ EndsRise /\ ArrivedInOrder
  BY DEF ReaderInv, WireInv
<1>2. Len(stream) \in Nat /\ EndOf(Len(stream)) \in Nat /\ n \in Nat
  <2>1. Len(stream) \in Nat /\ \A k \in 0..Len(stream) : EndOf(k) \in Nat
    BY <1>1, EndType
  <2> QED
    BY <2>1, FramingAssumption
<1>3. /\ UNCHANGED <<stream, ends, start, received, torn>> /\ parsing' = TRUE
      /\ read' = IF read + n <= EndOf(Len(stream)) THEN read + n ELSE EndOf(Len(stream))
  BY DEF Read
<1>4. \A k \in Nat : EndOf(k)' = EndOf(k)
  BY <1>3 DEF EndOf
<1>5. read \in 0..EndOf(Len(stream)) /\ read' \in 0..EndOf(Len(stream)) /\ read <= read'
  BY <1>1, <1>2, <1>3 DEF WireTypeOK
<1>6. Len(received) \in Nat /\ start \in Nat
  BY <1>1 DEF WireTypeOK, ArrivedInOrder
<1>7. EndOf(Len(stream))' = EndOf(Len(stream)) /\ EndOf(Len(received))' = EndOf(Len(received))
  BY <1>3 DEF EndOf
<1>8. WireTypeOK'
  BY <1>1, <1>3, <1>5, <1>7 DEF WireTypeOK
<1>9. FramesAligned'
  BY <1>1, <1>2, <1>3, <1>5, <1>6, <1>7 DEF FramesAligned
<1>10. NothingHeldBack'
  BY <1>3 DEF NothingHeldBack
<1>11. EndsFollow' /\ EndsRise'
  BY <1>1, <1>3 DEF EndsFollow, EndsRise, EndOf
<1>12. ArrivedInOrder'
  BY <1>1, <1>3 DEF ArrivedInOrder
<1> QED
  BY <1>8, <1>9, <1>10, <1>11, <1>12 DEF ReaderInv, WireInv

\* The message that is cut off is the next one that was sent.
LEMMA CutKeeps ==
    ASSUME ReaderInv, NEW now \in Clocks, Cut(now)
    PROVE  ReaderInv'
<1> DEFINE n == Len(received) + 1
<1>1. /\ WireTypeOK /\ FramesAligned /\ EndsFollow /\ EndsRise /\ ArrivedInOrder
  BY DEF ReaderInv, WireInv
<1>2. /\ ~torn /\ parsing /\ read - start >= 20 /\ read - start >= 20 + FrontPayload
      /\ start' = start + 20 + FrontPayload
      /\ received' = Append(received, Unpack(Wire(start, start'), now))
      /\ UNCHANGED <<stream, ends, read, parsing, torn>>
  BY DEF Cut, Complete, HeaderLen
<1>3. n \in 1..Len(stream) /\ stream[n] \in Outgoing /\ FrontPayload = Size[stream[n]] - 20
  BY <1>2, FrontMessage
<1>4. /\ Len(received) \in Nat /\ Len(stream) \in Nat /\ start \in Nat
      /\ received \in Seq(Arrivals) /\ start = EndOf(Len(received))
  BY <1>1, <1>2 DEF WireTypeOK, FramesAligned, ArrivedInOrder
<1>5. n - 1 = Len(received) /\ Size[stream[n]] \in Nat
  BY <1>3, <1>4, PackedFacts
<1>6. EndOf(n) = start + Size[stream[n]] /\ start = EndOf(n - 1)
  BY <1>1, <1>3, <1>4, <1>5 DEF EndsFollow
<1>7. start' = EndOf(n) /\ start' \in Nat
  <2>1. 20 + FrontPayload = Size[stream[n]] /\ FrontPayload \in Int
    BY <1>3, <1>5
  <2>2. start' = start + (20 + FrontPayload)
    BY <1>2, <1>4, <2>1
  <2> QED
    BY <1>4, <1>5, <1>6, <2>1, <2>2
<1>8. received' = Append(received, Arrived(stream[n], now))
  BY <1>2, <1>3, <1>6, <1>7, FrontUnpacked
<1>9. Arrived(stream[n], now) \in Arrivals
  BY <1>3 DEF Arrivals
<1>10. /\ received' \in Seq(Arrivals) /\ Len(received') = n
       /\ \A i \in 1..Len(received) : received'[i] = received[i]
       /\ received'[n] = Arrived(stream[n], now)
  BY <1>4, <1>8, <1>9
<1>11. EndOf(Len(received))' = EndOf(n) /\ EndOf(Len(stream))' = EndOf(Len(stream))
  BY <1>2, <1>10 DEF EndOf
<1>12. read \in Int /\ read >= start'
  <2>1. read \in Nat
    <3>1. EndOf(Len(stream)) \in Nat
      BY <1>1, <1>4, EndType
    <3> QED
      BY <1>1, <3>1 DEF WireTypeOK
  <2>2. 20 + FrontPayload = Size[stream[n]]
    BY <1>3, <1>5
  <2>3. read - start >= Size[stream[n]]
    BY <1>2, <2>2
  <2>4. start' = start + Size[stream[n]]
    BY <1>6, <1>7
  <2> QED
    BY <1>4, <1>5, <2>1, <2>3, <2>4
<1>13. WireTypeOK'
  <2>1. Len(received)' <= Len(stream)'
    BY <1>2, <1>3, <1>10
  <2> QED
    BY <1>1, <1>2, <1>7, <1>11, <2>1 DEF WireTypeOK
<1>14. FramesAligned'
  BY <1>2, <1>7, <1>11, <1>12 DEF FramesAligned
<1>15. NothingHeldBack'
  BY <1>2 DEF NothingHeldBack
<1>16. EndsFollow' /\ EndsRise'
  BY <1>1, <1>2 DEF EndsFollow, EndsRise, EndOf
<1>17. ArrivedInOrder'
  <2> SUFFICES ASSUME NEW i \in 1..n
               PROVE  \E t \in Clocks : received'[i] = Arrived(stream[i], t)
    BY <1>2, <1>10 DEF ArrivedInOrder
  <2>1. CASE i \in 1..Len(received)
    BY <1>1, <1>10, <2>1 DEF ArrivedInOrder
  <2>2. CASE i = n
    BY <1>10, <2>2
  <2> QED
    BY <1>4, <2>1, <2>2
<1> QED
  BY <1>13, <1>14, <1>15, <1>16, <1>17 DEF ReaderInv, WireInv

\* The reader goes back to the socket only with less than a message.
LEMMA WaitKeeps ==
    ASSUME ReaderInv, Wait
    PROVE  ReaderInv'
<1>1. /\ WireTypeOK /\ FramesAligned /\ EndsFollow /\ EndsRise /\ ArrivedInOrder
  BY DEF ReaderInv, WireInv
<1>2. /\ ~torn /\ ~Complete(read - start) /\ parsing' = FALSE
      /\ UNCHANGED <<stream, ends, read, start, received, torn>>
  BY DEF Wait
<1>3. WireTypeOK' /\ FramesAligned' /\ EndsFollow' /\ EndsRise' /\ ArrivedInOrder'
  BY <1>1, <1>2 DEF WireTypeOK, FramesAligned, EndsFollow, EndsRise, ArrivedInOrder, EndOf
<1>4. ASSUME Len(received) < Len(stream)
      PROVE  read < EndOf(Len(received) + 1)
  <2> DEFINE n == Len(received) + 1
  <2>1. /\ Len(received) \in Nat /\ Len(stream) \in Nat /\ start \in Nat
        /\ start = EndOf(Len(received)) /\ stream \in Seq(Outgoing)
    BY <1>1, <1>2 DEF WireTypeOK, FramesAligned, ArrivedInOrder
  <2>2. n \in 1..Len(stream) /\ n - 1 = Len(received)
    BY <1>4, <2>1
  <2>3. stream[n] \in Outgoing
    BY <2>1, <2>2
  <2>4. Size[stream[n]] \in Nat /\ Size[stream[n]] > 72
    BY <2>3, PackedFacts
  <2>5. EndOf(n) = start + Size[stream[n]]
    BY <1>1, <2>1, <2>2 DEF EndsFollow
  <2>6. read \in Nat
    <3>1. EndOf(Len(stream)) \in Nat
      BY <1>1, <2>1, EndType
    <3> QED
      BY <1>1, <3>1 DEF WireTypeOK
  <2>7. CASE read - start >= 20
    <3>1. FrontPayload = Size[stream[n]] - 20
      BY <1>2, <2>7, FrontMessage
    <3>2. ~(read - start >= 20 + FrontPayload)
      BY <1>2, <2>7 DEF Complete, HeaderLen
    <3>3. 20 + FrontPayload = Size[stream[n]]
      BY <2>4, <3>1
    <3>4. ~(read - start >= Size[stream[n]])
      BY <3>2, <3>3
    <3>5. read < start + Size[stream[n]]
      BY <2>1, <2>4, <2>6, <3>4
    <3> QED
      BY <2>5, <3>5
  <2>8. CASE ~(read - start >= 20)
    BY <2>1, <2>4, <2>5, <2>6, <2>8
  <2> QED
    BY <2>7, <2>8
<1>5. NothingHeldBack'
  BY <1>2, <1>4 DEF NothingHeldBack, EndOf
<1> QED
  BY <1>3, <1>5 DEF ReaderInv, WireInv

\* A new connection starts with an empty stream.
LEMMA ReconnectKeeps ==
    ASSUME ReaderInv, Reconnect
    PROVE  ReaderInv'
<1>1. /\ stream' = <<>> /\ ends' = <<>> /\ read' = 0 /\ start' = 0 /\ received' = <<>>
      /\ parsing' \in BOOLEAN /\ torn' \in BOOLEAN
  BY DEF Reconnect, ReaderInv, WireInv, WireTypeOK
<1>2. Len(stream') = 0 /\ Len(ends') = 0 /\ Len(received') = 0 /\ EndOf(0)' = 0
  BY <1>1 DEF EndOf
<1>3. stream' \in Seq(Outgoing) /\ ends' \in Seq(Nat) /\ received' \in Seq(Arrivals)
  BY <1>1, EmptySeq
<1>4. WireTypeOK'
  BY <1>1, <1>2, <1>3, FramingAssumption DEF WireTypeOK, EndOf
<1>5. FramesAligned' /\ NothingHeldBack'
  BY <1>1, <1>2 DEF FramesAligned, NothingHeldBack, EndOf
<1>6. EndsFollow' /\ EndsRise'
  BY <1>2 DEF EndsFollow, EndsRise, EndOf
<1> QED
  BY <1>2, <1>3, <1>4, <1>5, <1>6 DEF ReaderInv, WireInv, ArrivedInOrder

\* Every step keeps the invariant.
LEMMA ReaderSteps == ReaderInv /\ [WireNext]_wireVars => ReaderInv'
<1> SUFFICES ASSUME ReaderInv, [WireNext]_wireVars
             PROVE  ReaderInv'
  OBVIOUS
<1>1. CASE \E m \in Outgoing : Send(m)
  BY <1>1, SendKeeps
<1>2. CASE \E n \in Chunks : Read(n)
  BY <1>2, ReadKeeps
<1>3. CASE \E now \in Clocks : Cut(now)
  BY <1>3, CutKeeps
<1>4. CASE Wait
  BY <1>4, WaitKeeps
<1>5. CASE Reconnect
  BY <1>5, ReconnectKeeps
<1>6. CASE UNCHANGED wireVars
  BY <1>6 DEF wireVars, ReaderInv, WireInv, WireTypeOK, FramesAligned, NothingHeldBack, EndsFollow,
              EndsRise, ArrivedInOrder, EndOf
<1> QED
  BY <1>1, <1>2, <1>3, <1>4, <1>5, <1>6 DEF WireNext

\* The invariant holds throughout.
LEMMA ReaderHolds == WireSpec => []ReaderInv
<1>1. WireInit => ReaderInv
  BY EmptyStream DEF WireInit
<1> QED
  BY <1>1, ReaderSteps, PTL DEF WireSpec

-----------------------------------------------------------------------------
(* The theorems.                                                           *)

\* ReadMessages cuts the stream at the messages' ends, whatever the chunks, takes only
\* what it has read, and goes back to the socket only when no whole message is left.
THEOREM FramesCut == WireSpec => []WireInv
<1>1. ReaderInv => WireInv
  BY DEF ReaderInv
<1> QED
  BY <1>1, ReaderHolds, PTL

\* A received message, and what was sent in its place
LEMMA ReceivedAs ==
    ASSUME ReaderInv, NEW i \in 1..Len(received)
    PROVE  /\ stream[i] \in Outgoing
           /\ \E now \in Clocks : received[i] = Arrived(stream[i], now)
<1>1. /\ stream \in Seq(Outgoing) /\ Len(received) <= Len(stream) /\ Len(received) \in Nat
      /\ Len(stream) \in Nat
  BY DEF ReaderInv, WireInv, WireTypeOK, ArrivedInOrder
<1>2. i \in 1..Len(stream)
  BY <1>1
<1>3. stream[i] \in Outgoing
  BY <1>1, <1>2
<1> QED
  BY <1>3 DEF ReaderInv, ArrivedInOrder

\* Broadcast.Pack and Broadcast.Unpack agree on every block and every number of short
\* IDs: a block that is received is the one that was sent.
THEOREM BroadcastsArrive == WireSpec => []BroadcastsIntact
<1>1. ReaderInv => BroadcastsIntact
  <2> SUFFICES ASSUME ReaderInv, NEW i \in Received("broadcast")
               PROVE  received[i] = BroadcastArrived(stream[i])
    BY DEF BroadcastsIntact, BroadcastArrived
  <2>1. i \in 1..Len(received) /\ stream[i].type = "broadcast"
    BY DEF Received
  <2>2. PICK now \in Clocks : received[i] = Arrived(stream[i], now)
    BY <2>1, ReceivedAs
  <2> QED
    BY <2>1, <2>2 DEF Arrived
<1> QED
  BY <1>1, ReaderHolds, PTL

\* Tx.Pack and Tx.Unpack agree on the hash, the network, the short ID and the start of the
\* content, for every length: here they differ in the last eight bytes.
THEOREM TxPrefixesArrive == WireSpec => []TxPrefixArrives
<1>1. ReaderInv => TxPrefixArrives
  <2> SUFFICES ASSUME ReaderInv, NEW i \in Received("tx")
               PROVE  LET m == stream[i]
                          r == received[i]
                      IN  /\ <<r.hash, r.networkNum, r.txID>> = <<m.hash, m.networkNum, m.txID>>
                          /\ \E n \in 0..m.contentLen : r.content = Bytes("content", m.hash, n)
    BY DEF TxPrefixArrives
  <2>1. i \in 1..Len(received) /\ stream[i].type = "tx"
    BY DEF Received
  <2>2. stream[i] \in Outgoing
    BY <2>1, ReceivedAs
  <2>3. PICK now \in Clocks : received[i] = Arrived(stream[i], now)
    BY <2>1, ReceivedAs
  <2>4. received[i] = TxArrived(stream[i], now)
    BY <2>1, <2>3 DEF Arrived
  <2>5. stream[i].contentLen - 8 \in 0..stream[i].contentLen
    BY <2>1, <2>2, FramingAssumption DEF TxIDLen, ShortTimestampLen
  <2>6. /\ received[i].hash = stream[i].hash /\ received[i].networkNum = stream[i].networkNum
        /\ received[i].txID = stream[i].txID
        /\ received[i].content = Bytes("content", stream[i].hash, stream[i].contentLen - 8)
    BY <2>4 DEF TxArrived
  <2> QED
    BY <2>5, <2>6
<1> QED
  BY <1>1, ReaderHolds, PTL

\* The time that Tx.Unpack puts together from the low bits in the message and its own
\* clock is the sender's, for every unit, window and hour, if the two are at most
\* Window - Hour apart.
THEOREM TimestampsRecovered == WireSpec => []TimestampRecovered
<1>1. ReaderInv => TimestampRecovered
  <2> SUFFICES ASSUME ReaderInv, NEW i \in Received("tx"),
                      received[i].now - (stream[i].timestamp - (stream[i].timestamp % Unit))
                          <= Window - Hour,
                      -(received[i].now - (stream[i].timestamp - (stream[i].timestamp % Unit)))
                          <= Window - Hour
               PROVE  received[i].timestamp = stream[i].timestamp - (stream[i].timestamp % Unit)
    BY DEF TimestampRecovered
  <2> DEFINE t == stream[i].timestamp
  <2>1. i \in 1..Len(received) /\ stream[i].type = "tx"
    BY DEF Received
  <2>2. stream[i] \in Outgoing
    BY <2>1, ReceivedAs
  <2>3. PICK now \in Clocks : received[i] = Arrived(stream[i], now)
    BY <2>1, ReceivedAs
  <2>4. received[i] = TxArrived(stream[i], now)
    BY <2>1, <2>3 DEF Arrived
  <2>5. received[i].now = now /\ received[i].timestamp = FullTimestamp(ShortTimestamp(t), now)
    BY <2>4 DEF TxArrived
  <2>6. t \in Nat /\ now \in Nat
    BY <2>1, <2>2, FramingAssumption
  <2>7. t % Unit \in Int /\ Window \in Int /\ Hour \in Int
    <3>1. Unit \in Nat \ {0} /\ Window \in Nat /\ Hour \in Nat
      BY TimeAssumption
    <3> QED
      BY <2>6, <3>1, Division
  <2> HIDE DEF t
  <2>8. now - (t - (t % Unit)) <= Window - Hour /\ (t - (t % Unit)) - now <= Window - Hour
    <3>1. now - (t - (t % Unit)) <= Window - Hour /\ -(now - (t - (t % Unit))) <= Window - Hour
      BY <2>5 DEF t
    <3> QED
      BY <2>6, <2>7, <3>1
  <2>9. FullTimestamp(ShortTimestamp(t), now) = t - (t % Unit)
    BY <2>6, <2>8, TimeRecovered
  <2> QED
    BY <2>5, <2>9 DEF t
<1> QED
  BY <1>1, ReaderHolds, PTL
===============================================================================
