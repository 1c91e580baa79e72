----------------------------- MODULE ParserProofs -----------------------------
(***************************************************************************)
(* The parser for every layout, check sum, ring, line and cut of the stream *)
(* into reads: it finds exactly the leftmost frames of its stream, accepts   *)
(* only encodings, counts each byte once, never stops making room, and loses *)
(* nothing of a line without faults.  The argument: what the loop makes of a *)
(* candidate does not change when more bytes arrive, unless it had to wait   *)
(* for them.                                                                *)
(***************************************************************************)
EXTENDS Parser, SequenceTheorems, FiniteSetTheorems, TLAPS

USE ByteAssumption, PayloadAssumption, CapacityAssumption

-------------------------------------------------------------------------------
(* The bytes of the stream. *)

LEMMA RestFacts ==
    ASSUME NEW s \in Seq(Bytes), NEW p \in 1 .. Len(s)
    PROVE  /\ Rest(s, p) \in Seq(Bytes)
           /\ Len(Rest(s, p)) = Len(s) - p + 1
           /\ \A i \in 1 .. Len(s) - p + 1 : Rest(s, p)[i] = s[p + i - 1] /\ Rest(s, p)[i] \in Bytes
<1>1. \A i \in p .. Len(s) : s[i] \in Bytes
  BY ElementOfSeq
<1>2. /\ SubSeq(s, p, Len(s)) \in Seq(Bytes)
      /\ Len(SubSeq(s, p, Len(s))) = IF p <= Len(s) THEN Len(s) - p + 1 ELSE 0
      /\ \A i \in 1 .. Len(s) - p + 1 : SubSeq(s, p, Len(s))[i] = s[p + i - 1]
  BY <1>1, SubSeqProperties
<1>3. \A i \in 1 .. Len(s) - p + 1 : p + i - 1 \in p .. Len(s)
  OBVIOUS
<1> QED  BY <1>1, <1>2, <1>3 DEF Rest

\* Numbers read from the header.
LEMMA PayloadLengthType ==
    ASSUME NEW r \in Seq(Bytes), Len(r) >= HeaderSize
    PROVE  PayloadLength(r) \in Nat /\ EncodedSize(r) \in Nat /\ EncodedSize(r) >= MinEncodedSize
<1>1. r[4] \in Bytes /\ r[5] \in Bytes
  BY ElementOfSeq DEF HeaderSize
<1>2. r[4] \in Nat /\ r[5] \in Nat
  BY <1>1 DEF Bytes
<1>3. \A a, b \in Nat : a * Base + b \in Nat
  OBVIOUS
<1>4. PayloadLength(r) \in Nat
  BY <1>2, <1>3 DEF PayloadLength, ReadU16
<1> QED  BY <1>4 DEF EncodedSize, MinEncodedSize, HeaderSize, CheckSize

LEMMA DecodeResults ==
    ASSUME NEW input
    PROVE  Decode(input) \in {"INPUT_TOO_SMALL", "INVALID_SYNC", "INVALID_KIND",
                              "PAYLOAD_TOO_LARGE", "LENGTH_MISMATCH", "CRC_MISMATCH", "OK"}
BY DEF Decode

\* What each verdict says about the bytes it was reached on.
LEMMA VerdictFacts ==
    ASSUME NEW s \in Seq(Bytes), NEW p \in 1 .. Len(s)
    PROVE  /\ Verdict(s, p) = "PARTIAL" => Len(s) - p + 1 < MaxEncodedSize
           /\ Verdict(s, p) = "OK" =>
                 /\ SizeAt(s, p) \in Nat /\ SizeAt(s, p) >= MinEncodedSize
                 /\ SizeAt(s, p) <= Len(s) - p + 1 /\ SizeAt(s, p) <= MaxEncodedSize
                 /\ Decode(BytesAt(s, p)) = "OK"
<1> DEFINE r == Rest(s, p)
           available == Len(s) - p + 1
<1>1. r \in Seq(Bytes) /\ Len(r) = available /\ available \in Nat
  BY RestFacts
<1>2. Verdict(s, p) =
         IF r[1] # Sync0 THEN "GARBAGE"
         ELSE IF available < 2 THEN "PARTIAL"
         ELSE IF r[2] # Sync1 THEN "GARBAGE"
         ELSE IF available < HeaderSize THEN "PARTIAL"
         ELSE IF PayloadLength(r) > MaxPayload THEN "OVERSIZED"
         ELSE IF available < EncodedSize(r) THEN "PARTIAL"
         ELSE Decode(SubSeq(r, 1, EncodedSize(r)))
  BY <1>1 DEF Verdict
<1>3. SizeAt(s, p) = EncodedSize(r) /\ BytesAt(s, p) = SubSeq(r, 1, EncodedSize(r))
  BY DEF SizeAt, BytesAt
<1> HIDE DEF r
<1>4. available >= HeaderSize => /\ PayloadLength(r) \in Nat /\ EncodedSize(r) \in Nat
                                 /\ EncodedSize(r) >= MinEncodedSize
                                 /\ EncodedSize(r) = MinEncodedSize + PayloadLength(r)
  BY <1>1, PayloadLengthType DEF EncodedSize
<1>5. Decode(SubSeq(r, 1, EncodedSize(r))) # "PARTIAL"
  BY DecodeResults
<1> HIDE DEF available
<1>6. MaxPayload \in Nat /\ MinEncodedSize = 7 /\ HeaderSize = 5
      /\ MaxEncodedSize = 7 + MaxPayload
  BY DEF MinEncodedSize, HeaderSize, CheckSize, MaxEncodedSize
<1>7. Verdict(s, p) = "PARTIAL" => available < MaxEncodedSize
  BY <1>1, <1>2, <1>4, <1>5, <1>6
<1>8. Verdict(s, p) = "OK" =>
         /\ available >= HeaderSize /\ ~(PayloadLength(r) > MaxPayload)
         /\ ~(available < EncodedSize(r)) /\ Decode(SubSeq(r, 1, EncodedSize(r))) = "OK"
  BY <1>1, <1>2, <1>6
<1>9. Verdict(s, p) = "OK" => EncodedSize(r) <= available /\ EncodedSize(r) <= MaxEncodedSize
  BY <1>1, <1>4, <1>6, <1>8
<1> QED  BY <1>3, <1>4, <1>7, <1>8, <1>9 DEF available

\* More bytes change no verdict but one that waited for them.
LEMMA VerdictIsStable ==
    ASSUME NEW s \in Seq(Bytes), NEW t \in Seq(Bytes), NEW p \in 1 .. Len(s),
           Verdict(s, p) # "PARTIAL"
    PROVE  /\ Verdict(s \o t, p) = Verdict(s, p)
           /\ Verdict(s, p) = "OK" => SizeAt(s \o t, p) = SizeAt(s, p)
<1> DEFINE u == s \o t
           r == Rest(s, p)
           w == Rest(u, p)
           available == Len(s) - p + 1
           more == Len(u) - p + 1
<1>1. /\ u \in Seq(Bytes) /\ Len(u) = Len(s) + Len(t)
      /\ \A i \in 1 .. Len(s) : u[i] = s[i]
  BY ConcatProperties
<1> HIDE DEF u
<1>2. r \in Seq(Bytes) /\ Len(r) = available /\ available \in Nat /\ available >= 1
      /\ \A i \in 1 .. available : r[i] = s[p + i - 1] /\ r[i] \in Bytes
  BY RestFacts
<1>3. p \in 1 .. Len(u) /\ more >= available /\ more \in Nat
  BY <1>1
<1>4. w \in Seq(Bytes) /\ Len(w) = more /\ \A i \in 1 .. more : w[i] = u[p + i - 1]
  BY <1>1, <1>3, RestFacts
<1>5. \A i \in 1 .. available : w[i] = r[i]
  <2> TAKE i \in 1 .. available
  <2>1. i \in 1 .. more /\ p + i - 1 \in 1 .. Len(s)
    BY <1>3
  <2> QED  BY <1>1, <1>2, <1>4, <2>1
<1>6. Verdict(s, p) =
         IF r[1] # Sync0 THEN "GARBAGE"
         ELSE IF available < 2 THEN "PARTIAL"
         ELSE IF r[2] # Sync1 THEN "GARBAGE"
         ELSE IF available < HeaderSize THEN "PARTIAL"
         ELSE IF PayloadLength(r) > MaxPayload THEN "OVERSIZED"
         ELSE IF available < EncodedSize(r) THEN "PARTIAL"
         ELSE Decode(SubSeq(r, 1, EncodedSize(r)))
  BY <1>2 DEF Verdict
<1>7. Verdict(u, p) =
         IF w[1] # Sync0 THEN "GARBAGE"
         ELSE IF more < 2 THEN "PARTIAL"
         ELSE IF w[2] # Sync1 THEN "GARBAGE"
         ELSE IF more < HeaderSize THEN "PARTIAL"
         ELSE IF PayloadLength(w) > MaxPayload THEN "OVERSIZED"
         ELSE IF more < EncodedSize(w) THEN "PARTIAL"
         ELSE Decode(SubSeq(w, 1, EncodedSize(w)))
  BY <1>4 DEF Verdict
<1>8. SizeAt(s, p) = EncodedSize(r) /\ SizeAt(u, p) = EncodedSize(w)
  BY DEF SizeAt
<1> HIDE DEF r, w
<1>9. w[1] = r[1] /\ (available >= 2 => w[2] = r[2])
  BY <1>2, <1>5
<1>10. available >= HeaderSize => PayloadLength(w) = PayloadLength(r)
                                  /\ EncodedSize(w) = EncodedSize(r) /\ EncodedSize(r) \in Nat
  <2> HAVE available >= HeaderSize
  <2>1. w[4] = r[4] /\ w[5] = r[5]
    BY <1>2, <1>5 DEF HeaderSize
  <2>2. EncodedSize(r) \in Nat
    BY <1>2, PayloadLengthType
  <2> QED  BY <2>1, <2>2 DEF PayloadLength, EncodedSize
<1>11. available >= HeaderSize /\ EncodedSize(r) <= available =>
          SubSeq(w, 1, EncodedSize(r)) = SubSeq(r, 1, EncodedSize(r))
  <2> HAVE available >= HeaderSize /\ EncodedSize(r) <= available
  <2>1. EncodedSize(r) \in Nat
    BY <1>10
  <2> DEFINE n == EncodedSize(r)
  <2> HIDE DEF n
  <2>2. n \in Nat /\ n <= available /\ n <= more
    BY <1>2, <1>3, <2>1 DEF n
  <2>3. \A i \in 1 .. n : r[i] \in Bytes /\ w[i] \in Bytes /\ w[i] = r[i]
    BY <1>2, <1>5, <2>2
  <2>4. /\ SubSeq(r, 1, n) \in Seq(Bytes) /\ Len(SubSeq(r, 1, n)) = n
        /\ \A i \in 1 .. n : SubSeq(r, 1, n)[i] = r[i]
    <3>1. /\ SubSeq(r, 1, n) \in Seq(Bytes)
          /\ Len(SubSeq(r, 1, n)) = IF 1 <= n THEN n - 1 + 1 ELSE 0
          /\ \A i \in 1 .. n - 1 + 1 : SubSeq(r, 1, n)[i] = r[1 + i - 1]
      BY <1>2, <2>2, <2>3, SubSeqProperties
    <3>2. n - 1 + 1 = n /\ (IF 1 <= n THEN n - 1 + 1 ELSE 0) = n
          /\ \A i \in 1 .. n : 1 + i - 1 = i
      BY <2>2
    <3> QED  BY <3>1, <3>2
  <2>5. /\ SubSeq(w, 1, n) \in Seq(Bytes) /\ Len(SubSeq(w, 1, n)) = n
        /\ \A i \in 1 .. n : SubSeq(w, 1, n)[i] = w[i]
    <3>1. /\ SubSeq(w, 1, n) \in Seq(Bytes)
          /\ Len(SubSeq(w, 1, n)) = IF 1 <= n THEN n - 1 + 1 ELSE 0
          /\ \A i \in 1 .. n - 1 + 1 : SubSeq(w, 1, n)[i] = w[1 + i - 1]
      BY <1>4, <2>2, <2>3, SubSeqProperties
    <3>2. n - 1 + 1 = n /\ (IF 1 <= n THEN n - 1 + 1 ELSE 0) = n
          /\ \A i \in 1 .. n : 1 + i - 1 = i
      BY <2>2
    <3> QED  BY <3>1, <3>2
  <2>6. SubSeq(w, 1, n) = SubSeq(r, 1, n)
    BY <2>3, <2>4, <2>5, SeqEqual
  <2> QED  BY <2>6 DEF n
<1> HIDE DEF available, more
<1>12. Verdict(u, p) = Verdict(s, p)
  <2>1. HeaderSize = 5
    BY DEF HeaderSize
  <2>2. CASE available < HeaderSize
    BY <1>2, <1>3, <1>6, <1>7, <1>9, <2>1, <2>2
  <2>3. CASE ~(available < HeaderSize) /\ EncodedSize(r) <= available
    <3>1. ~(available < 2) /\ ~(more < 2) /\ ~(available < HeaderSize) /\ ~(more < HeaderSize)
          /\ available >= 2 /\ available >= HeaderSize
      BY <1>2, <1>3, <2>1, <2>3
    <3>2. ~(available < EncodedSize(r)) /\ ~(more < EncodedSize(w))
      BY <1>2, <1>3, <1>10, <2>3, <3>1
    <3>3. Decode(SubSeq(w, 1, EncodedSize(w))) = Decode(SubSeq(r, 1, EncodedSize(r)))
      BY <1>10, <1>11, <2>3, <3>1
    <3>4. Verdict(s, p) =
             IF r[1] # Sync0 THEN "GARBAGE"
             ELSE IF r[2] # Sync1 THEN "GARBAGE"
             ELSE IF PayloadLength(r) > MaxPayload THEN "OVERSIZED"
             ELSE Decode(SubSeq(r, 1, EncodedSize(r)))
      BY <1>6, <3>1, <3>2
    <3>5. Verdict(u, p) =
             IF w[1] # Sync0 THEN "GARBAGE"
             ELSE IF w[2] # Sync1 THEN "GARBAGE"
             ELSE IF PayloadLength(w) > MaxPayload THEN "OVERSIZED"
             ELSE Decode(SubSeq(w, 1, EncodedSize(w)))
      BY <1>7, <3>1, <3>2
    <3>6. w[1] = r[1] /\ w[2] = r[2] /\ PayloadLength(w) = PayloadLength(r)
      BY <1>9, <1>10, <3>1
    <3> QED  BY <3>3, <3>4, <3>5, <3>6
  <2>4. CASE ~(available < HeaderSize) /\ ~(EncodedSize(r) <= available)
    BY <1>2, <1>3, <1>6, <1>7, <1>9, <1>10, <2>1, <2>4
  <2> QED  BY <2>2, <2>3, <2>4
<1>13. Verdict(s, p) = "OK" => available >= HeaderSize
  BY <1>2, <1>6 DEF HeaderSize
<1> QED  BY <1>8, <1>10, <1>12, <1>13 DEF u

-------------------------------------------------------------------------------
(* The codec: decoding inverts encoding, and the other way round. *)

\* A part of a sequence.
LEMMA PartFacts ==
    ASSUME NEW S, NEW s \in Seq(S), NEW a \in Nat, NEW b \in Nat,
           1 <= a, a <= b + 1, b <= Len(s)
    PROVE  /\ SubSeq(s, a, b) \in Seq(S) /\ Len(SubSeq(s, a, b)) = b - a + 1
           /\ \A i \in 1 .. b - a + 1 : SubSeq(s, a, b)[i] = s[a + i - 1]
<1>1. Len(s) \in Nat
  OBVIOUS
<1>2. a \in Int /\ b \in Int /\ a .. b \subseteq 1 .. Len(s)
  BY <1>1
<1>3. \A i \in a .. b : s[i] \in S
  BY <1>2, ElementOfSeq
<1>4. /\ SubSeq(s, a, b) \in Seq(S)
      /\ Len(SubSeq(s, a, b)) = IF a <= b THEN b - a + 1 ELSE 0
      /\ \A i \in 1 .. b - a + 1 : SubSeq(s, a, b)[i] = s[a + i - 1]
  BY <1>2, <1>3, SubSeqProperties
<1>5. (IF a <= b THEN b - a + 1 ELSE 0) = b - a + 1
  BY <1>1
<1> QED  BY <1>4, <1>5

\* The fields of a frame of n payload bytes in a sequence of bytes.
LEMMA FieldFacts ==
    ASSUME NEW s \in Seq(Bytes), NEW n \in Nat, 5 + n <= Len(s)
    PROVE  /\ SubSeq(s, 3, 5 + n) \in Seq(Bytes) /\ Len(SubSeq(s, 3, 5 + n)) = 3 + n
           /\ \A i \in 1 .. 3 + n : SubSeq(s, 3, 5 + n)[i] = s[2 + i]
           /\ SubSeq(s, 6, 5 + n) \in Seq(Bytes) /\ Len(SubSeq(s, 6, 5 + n)) = n
           /\ \A i \in 1 .. n : SubSeq(s, 6, 5 + n)[i] = s[5 + i]
<1> DEFINE m == 5 + n
<1>1. m \in Nat /\ m <= Len(s) /\ m - 3 + 1 = 3 + n /\ m - 6 + 1 = n /\ m >= 5
  OBVIOUS
<1> HIDE DEF m
<1>2. \A i \in Int : 3 + i - 1 = 2 + i /\ 6 + i - 1 = 5 + i
  OBVIOUS
<1>3. /\ SubSeq(s, 3, m) \in Seq(Bytes) /\ Len(SubSeq(s, 3, m)) = m - 3 + 1
      /\ \A i \in 1 .. m - 3 + 1 : SubSeq(s, 3, m)[i] = s[3 + i - 1]
  <2>1. 3 \in Nat /\ 1 <= 3 /\ 3 <= m + 1
    BY <1>1
  <2> QED  BY <1>1, <2>1, PartFacts
<1>4. /\ SubSeq(s, 6, m) \in Seq(Bytes) /\ Len(SubSeq(s, 6, m)) = m - 6 + 1
      /\ \A i \in 1 .. m - 6 + 1 : SubSeq(s, 6, m)[i] = s[6 + i - 1]
  <2>1. 6 \in Nat /\ 1 <= 6 /\ 6 <= m + 1
    BY <1>1
  <2> QED  BY <1>1, <2>1, PartFacts
<1> QED  BY <1>1, <1>2, <1>3, <1>4 DEF m

LEMMA WriteU16Type ==
    ASSUME NEW value \in Words
    PROVE  WriteU16(value) \in Seq(Bytes) /\ Len(WriteU16(value)) = 2
<1>1. value \in Nat /\ value < Base * Base /\ Base \in Nat /\ Base > 0
  BY DEF Words
<1> DEFINE high == value \div Base
           low == value % Base
<1>2. high \in Int /\ low \in 0 .. Base - 1 /\ value = Base * high + low
  BY <1>1
<1> HIDE DEF high, low
<1>3. high >= 0
  <2> SUFFICES ASSUME high <= -1 PROVE FALSE
    BY <1>2
  <2>1. Base * high <= -Base
    BY <1>1, <1>2
  <2> QED  BY <1>1, <1>2, <2>1
<1>4. high < Base
  <2> SUFFICES ASSUME high >= Base PROVE FALSE
    BY <1>1, <1>2
  <2>1. Base * high >= Base * Base
    BY <1>1, <1>2
  <2> QED  BY <1>1, <1>2, <2>1
<1>5. high \in Bytes /\ low \in Bytes
  BY <1>1, <1>2, <1>3, <1>4 DEF Bytes
<1>6. WriteU16(value) = <<high, low>>
  BY DEF WriteU16, high, low
<1> QED  BY <1>5, <1>6

\* Two bytes and the word they stand for.
LEMMA WordOfBytes ==
    ASSUME NEW value \in Words
    PROVE  /\ WriteU16(value)[1] \in Bytes /\ WriteU16(value)[2] \in Bytes
           /\ ReadU16(WriteU16(value)[1], WriteU16(value)[2]) = value
<1>1. WriteU16(value) \in Seq(Bytes) /\ Len(WriteU16(value)) = 2
  BY WriteU16Type
<1>2. WriteU16(value)[1] \in Bytes /\ WriteU16(value)[2] \in Bytes
  BY <1>1, ElementOfSeq
<1>3. value \in Nat /\ Base \in Nat /\ Base > 0
  BY DEF Words
<1> DEFINE high == value \div Base
           low == value % Base
<1>4. high \in Int /\ low \in 0 .. Base - 1 /\ value = Base * high + low
  BY <1>3
<1>5. WriteU16(value)[1] = high /\ WriteU16(value)[2] = low
  BY DEF WriteU16
<1> HIDE DEF high, low
<1>6. Base * high = high * Base
  BY <1>3, <1>4
<1> QED  BY <1>2, <1>4, <1>5, <1>6 DEF ReadU16

LEMMA BytesOfWord ==
    ASSUME NEW a \in Bytes, NEW b \in Bytes
    PROVE  /\ ReadU16(a, b) \in Words
           /\ WriteU16(ReadU16(a, b)) = <<a, b>>
<1> DEFINE value == a * Base + b
           high == value \div Base
           low == value % Base
<1>1. Base \in Nat /\ Base > 0 /\ a \in 0 .. Base - 1 /\ b \in 0 .. Base - 1
  BY DEF Bytes
<1>2. value \in Nat
  <2>1. a * Base \in Nat
    BY <1>1
  <2> QED  BY <1>1, <2>1
<1>3. a * Base <= (Base - 1) * Base
  BY <1>1
<1>4. value < Base * Base
  <2>1. (Base - 1) * Base = Base * Base - Base
    BY <1>1
  <2> QED  BY <1>1, <1>3, <2>1
<1>5. value \in Words
  BY <1>2, <1>4 DEF Words
<1> HIDE DEF value
<1>6. high \in Int /\ low \in 0 .. Base - 1 /\ value = Base * high + low
  BY <1>1, <1>2
<1> HIDE DEF high, low
<1>7. Base * a + b = Base * high + low
  <2>1. a * Base = Base * a
    BY <1>1
  <2> QED  BY <1>6, <2>1 DEF value
<1>8. high = a
  <2>1. ASSUME high >= a + 1 PROVE FALSE
    <3>1. Base * high >= Base * (a + 1)
      BY <1>1, <1>6, <2>1
    <3>2. Base * (a + 1) = Base * a + Base
      BY <1>1
    <3> QED  BY <1>1, <1>6, <1>7, <3>1, <3>2
  <2>2. ASSUME a >= high + 1 PROVE FALSE
    <3>1. Base * a >= Base * (high + 1)
      BY <1>1, <1>6, <2>2
    <3>2. Base * (high + 1) = Base * high + Base
      BY <1>1, <1>6
    <3> QED  BY <1>1, <1>6, <1>7, <3>1, <3>2
  <2> QED  BY <1>1, <1>6, <2>1, <2>2
<1>9. low = b
  BY <1>1, <1>6, <1>7, <1>8
<1> QED  BY <1>5, <1>8, <1>9 DEF WriteU16, ReadU16, value, high, low

\* The bytes between the sync bytes and the check sum of a frame.
CoveredBy(frame) == <<frame.kind>> \o WriteU16(Len(frame.payload)) \o frame.payload

LEMMA CoveredShape ==
    ASSUME NEW frame \in [kind : Bytes, payload : Payloads(MaxPayload)]
    PROVE  /\ frame.payload \in Seq(Bytes) /\ Len(frame.payload) \in 0 .. MaxPayload
           /\ CoveredBy(frame) \in Seq(Bytes)
           /\ Len(CoveredBy(frame)) = 3 + Len(frame.payload)
           /\ CoveredBy(frame)[1] = frame.kind
           /\ CoveredBy(frame)[2] = WriteU16(Len(frame.payload))[1]
           /\ CoveredBy(frame)[3] = WriteU16(Len(frame.payload))[2]
           /\ \A i \in 1 .. Len(frame.payload) : CoveredBy(frame)[3 + i] = frame.payload[i]
           /\ Crc(CoveredBy(frame)) \in Words
<1>1. PICK n \in 0 .. MaxPayload : frame.payload \in [1 .. n -> Bytes]
  BY DEF Payloads
<1>2. frame.payload \in Seq(Bytes) /\ Len(frame.payload) = n
  <2>1. frame.payload \in Seq(Bytes)
    BY <1>1, SeqDef
  <2> QED  BY <1>1, <2>1
<1> DEFINE kind == <<frame.kind>>
           length == WriteU16(n)
           head == kind \o length
           payload == frame.payload
           covered == head \o payload
<1>3. length \in Seq(Bytes) /\ Len(length) = 2
  <2>1. n \in Words
    BY DEF Words
  <2> QED  BY <2>1, WriteU16Type
<1>4. kind \in Seq(Bytes) /\ Len(kind) = 1 /\ kind[1] = frame.kind
  OBVIOUS
<1>5. CoveredBy(frame) = covered
  BY <1>2 DEF CoveredBy
<1>6. payload \in Seq(Bytes) /\ Len(payload) = n /\ n \in Nat
  BY <1>2
<1> HIDE DEF kind, length, payload
<1>7. head \in Seq(Bytes) /\ Len(head) = 3
      /\ head[1] = kind[1] /\ head[2] = length[1] /\ head[3] = length[2]
  <2>1. /\ head \in Seq(Bytes) /\ Len(head) = Len(kind) + Len(length)
        /\ \A i \in 1 .. Len(kind) + Len(length) :
              head[i] = IF i <= Len(kind) THEN kind[i] ELSE length[i - Len(kind)]
    BY <1>3, <1>4, ConcatProperties
  <2> HIDE DEF head
  <2>2. \A i \in 1 .. 3 : head[i] = IF i <= 1 THEN kind[i] ELSE length[i - 1]
    BY <1>3, <1>4, <2>1
  <2> QED  BY <1>3, <1>4, <2>1, <2>2
<1> HIDE DEF head
<1>8. /\ covered \in Seq(Bytes) /\ Len(covered) = 3 + n
      /\ \A i \in 1 .. 3 + n : covered[i] = IF i <= 3 THEN head[i] ELSE payload[i - 3]
  <2>1. /\ covered \in Seq(Bytes) /\ Len(covered) = Len(head) + Len(payload)
        /\ \A i \in 1 .. Len(head) + Len(payload) :
              covered[i] = IF i <= Len(head) THEN head[i] ELSE payload[i - Len(head)]
    BY <1>7, <1>6, ConcatProperties
  <2> HIDE DEF covered
  <2> QED  BY <1>7, <1>6, <2>1
<1> HIDE DEF covered
<1>9. covered[1] = kind[1] /\ covered[2] = length[1] /\ covered[3] = length[2]
  BY <1>7, <1>8
<1>10. \A i \in 1 .. n : covered[3 + i] = payload[i]
  BY <1>8, <1>6
<1>11. Crc(covered) \in Words
  <2>1. covered \in [1 .. Len(covered) -> Bytes]
    BY <1>8, LenProperties
  <2>2. 3 + n \in 0 .. 3 + MaxPayload
    OBVIOUS
  <2>3. covered \in Payloads(3 + MaxPayload)
    BY <1>8, <2>1, <2>2 DEF Payloads
  <2> QED  BY <2>3, CrcAssumption
<1>12. /\ covered \in Seq(Bytes) /\ Len(covered) = 3 + n /\ covered[1] = frame.kind
       /\ covered[2] = WriteU16(n)[1] /\ covered[3] = WriteU16(n)[2]
  BY <1>4, <1>8, <1>9 DEF length
<1> QED  BY <1>2, <1>5, <1>10, <1>11, <1>12 DEF payload

\* An encoded frame, byte by byte.
LEMMA EncodeShape ==
    ASSUME NEW frame \in [kind : Bytes, payload : Payloads(MaxPayload)]
    PROVE  /\ Encode(frame) \in Seq(Bytes)
           /\ Len(Encode(frame)) = MinEncodedSize + Len(frame.payload)
           /\ Encode(frame)[1] = Sync0 /\ Encode(frame)[2] = Sync1
           /\ \A i \in 1 .. 3 + Len(frame.payload) : Encode(frame)[2 + i] = CoveredBy(frame)[i]
           /\ \A i \in 1 .. 2 : Encode(frame)[5 + Len(frame.payload) + i]
                                   = WriteU16(Crc(CoveredBy(frame)))[i]
<1> DEFINE n == Len(frame.payload)
           covered == CoveredBy(frame)
           check == WriteU16(Crc(covered))
           sync == <<Sync0, Sync1>>
           front == sync \o covered
           whole == front \o check
<1>1. n \in Nat /\ covered \in Seq(Bytes) /\ Len(covered) = 3 + n
  BY CoveredShape
<1>2. check \in Seq(Bytes) /\ Len(check) = 2
  BY CoveredShape, WriteU16Type
<1>3. sync \in Seq(Bytes) /\ Len(sync) = 2 /\ sync[1] = Sync0 /\ sync[2] = Sync1
  OBVIOUS
<1>4. Encode(frame) = whole
  BY DEF Encode, CoveredBy
<1> HIDE DEF n, covered, check, sync
<1>5. /\ front \in Seq(Bytes) /\ Len(front) = 5 + n
      /\ \A i \in 1 .. 5 + n : front[i] = IF i <= 2 THEN sync[i] ELSE covered[i - 2]
  <2>1. /\ front \in Seq(Bytes) /\ Len(front) = Len(sync) + Len(covered)
        /\ \A i \in 1 .. Len(sync) + Len(covered) :
              front[i] = IF i <= Len(sync) THEN sync[i] ELSE covered[i - Len(sync)]
    BY <1>1, <1>3, ConcatProperties
  <2> HIDE DEF front
  <2> QED  BY <1>1, <1>3, <2>1
<1> HIDE DEF front
<1>6. /\ whole \in Seq(Bytes) /\ Len(whole) = 7 + n
      /\ \A i \in 1 .. 7 + n : whole[i] = IF i <= 5 + n THEN front[i] ELSE check[i - (5 + n)]
  <2>1. /\ whole \in Seq(Bytes) /\ Len(whole) = Len(front) + Len(check)
        /\ \A i \in 1 .. Len(front) + Len(check) :
              whole[i] = IF i <= Len(front) THEN front[i] ELSE check[i - Len(front)]
    BY <1>2, <1>5, ConcatProperties
  <2> HIDE DEF whole
  <2>2. Len(front) + Len(check) = 7 + n
    BY <1>1, <1>2, <1>5
  <2> QED  BY <1>5, <2>1, <2>2
<1> HIDE DEF whole
<1>7. whole[1] = Sync0 /\ whole[2] = Sync1
  BY <1>1, <1>3, <1>5, <1>6
<1>8. \A i \in 1 .. 3 + n : whole[2 + i] = covered[i]
  <2> TAKE i \in 1 .. 3 + n
  <2>1. 2 + i \in 1 .. 5 + n /\ 2 + i \in 1 .. 7 + n /\ ~(2 + i <= 2) /\ 2 + i <= 5 + n
        /\ 2 + i - 2 = i
    BY <1>1
  <2> QED  BY <1>5, <1>6, <2>1
<1>9. \A i \in 1 .. 2 : whole[5 + n + i] = check[i]
  <2> TAKE i \in 1 .. 2
  <2> DEFINE j == 5 + n + i
  <2>1. j \in 1 .. 7 + n /\ ~(j <= 5 + n) /\ j - (5 + n) = i
    BY <1>1
  <2> HIDE DEF j
  <2>2. whole[j] = IF j <= 5 + n THEN front[j] ELSE check[j - (5 + n)]
    BY <1>6, <2>1
  <2>3. whole[j] = check[i]
    BY <2>1, <2>2
  <2> QED  BY <2>3 DEF j
<1> QED
  BY <1>4, <1>6, <1>7, <1>8, <1>9
  DEF n, covered, check, MinEncodedSize, HeaderSize, CheckSize

\* What the codec encodes it decodes, to the frame it was given.
THEOREM DecodeInvertsEncode ==
    ASSUME NEW frame \in Frames
    PROVE  Decode(Encode(frame)) = "OK" /\ Decoded(Encode(frame)) = frame
<1> DEFINE e == Encode(frame)
           n == Len(frame.payload)
           covered == CoveredBy(frame)
           check == WriteU16(Crc(covered))
<1>1. frame \in [kind : Bytes, payload : Payloads(MaxPayload)] /\ frame.kind \in Kinds
  BY DEF Frames
<1>2. /\ frame.payload \in Seq(Bytes) /\ n \in 0 .. MaxPayload
      /\ covered \in Seq(Bytes) /\ Len(covered) = 3 + n /\ covered[1] = frame.kind
      /\ covered[2] = WriteU16(n)[1] /\ covered[3] = WriteU16(n)[2]
      /\ \A i \in 1 .. n : covered[3 + i] = frame.payload[i]
      /\ Crc(covered) \in Words
  BY <1>1, CoveredShape
<1>3. /\ e \in Seq(Bytes) /\ Len(e) = 7 + n /\ e[1] = Sync0 /\ e[2] = Sync1
      /\ \A i \in 1 .. 3 + n : e[2 + i] = covered[i]
      /\ \A i \in 1 .. 2 : e[5 + n + i] = check[i]
  BY <1>1, EncodeShape DEF MinEncodedSize, HeaderSize, CheckSize
<1> HIDE DEF e, n, covered
<1>4. e[3] = covered[1] /\ e[4] = covered[2] /\ e[5] = covered[3]
  BY <1>2, <1>3
<1>5. e[3] = frame.kind /\ e[4] = WriteU16(n)[1] /\ e[5] = WriteU16(n)[2]
  BY <1>2, <1>4
<1>6. PayloadLength(e) = n
  <2>1. n \in Words
    BY <1>2 DEF Words
  <2> QED  BY <1>5, <2>1, WordOfBytes DEF PayloadLength
<1>7. e[6 + n] = check[1] /\ e[7 + n] = check[2]
  <2>1. e[5 + n + 1] = check[1] /\ e[5 + n + 2] = check[2]
    BY <1>3
  <2>2. 5 + n + 1 = 6 + n /\ 5 + n + 2 = 7 + n
    BY <1>2
  <2> QED  BY <2>1, <2>2
<1>8. ReceivedCrc(e) = Crc(covered)
  <2>1. Len(e) - 1 = 6 + n
    BY <1>2, <1>3
  <2>2. ReceivedCrc(e) = ReadU16(check[1], check[2])
    BY <1>3, <1>7, <2>1 DEF ReceivedCrc
  <2> QED  BY <1>2, <2>2, WordOfBytes
<1>9. Covered(e) = covered
  <2> DEFINE c == SubSeq(e, 3, 5 + n)
  <2>1. Covered(e) = c
    BY <1>6 DEF Covered, HeaderSize
  <2>2. /\ c \in Seq(Bytes) /\ Len(c) = 3 + n
        /\ \A i \in 1 .. 3 + n : c[i] = e[2 + i]
    BY <1>2, <1>3, FieldFacts
  <2> HIDE DEF c
  <2>3. \A i \in 1 .. 3 + n : c[i] = covered[i]
    BY <1>3, <2>2
  <2> QED  BY <1>2, <2>1, <2>2, <2>3, SeqEqual
<1>10. Decode(e) = "OK"
  <2>1. MinEncodedSize = 7 /\ EncodedSize(e) = 7 + n
    BY <1>6 DEF EncodedSize, MinEncodedSize, HeaderSize, CheckSize
  <2>2. ~(Len(e) < 7) /\ ~(n > MaxPayload)
    BY <1>2, <1>3
  <2> QED  BY <1>1, <1>3, <1>5, <1>6, <1>8, <1>9, <2>1, <2>2 DEF Decode
<1>11. SubSeq(e, 6, 5 + n) = frame.payload
  <2> DEFINE c == SubSeq(e, 6, 5 + n)
  <2>1. /\ c \in Seq(Bytes) /\ Len(c) = n
        /\ \A i \in 1 .. n : c[i] = e[5 + i]
    BY <1>2, <1>3, FieldFacts
  <2> HIDE DEF c
  <2>2. \A i \in 1 .. n : c[i] = frame.payload[i]
    <3> TAKE i \in 1 .. n
    <3> DEFINE j == 3 + i
    <3>1. j \in 1 .. 3 + n /\ 2 + j = 5 + i
      BY <1>2
    <3>2. covered[j] = frame.payload[i]
      BY <1>2
    <3> HIDE DEF j
    <3>3. e[2 + j] = covered[j]
      BY <1>3, <3>1
    <3> QED  BY <2>1, <3>1, <3>2, <3>3
  <2>3. Len(frame.payload) = n
    BY DEF n
  <2>4. c = frame.payload
    BY <1>2, <2>1, <2>2, <2>3, SeqEqual
  <2> QED  BY <2>4 DEF c
<1>12. Decoded(e) = [kind |-> frame.kind, payload |-> frame.payload]
  <2>1. Len(e) - CheckSize = 5 + n /\ HeaderSize + 1 = 6
    BY <1>2, <1>3 DEF HeaderSize, CheckSize
  <2>2. SubSeq(e, HeaderSize + 1, Len(e) - CheckSize) = frame.payload
    BY <1>11, <2>1
  <2>3. Decoded(e) = [kind |-> e[3], payload |-> SubSeq(e, HeaderSize + 1, Len(e) - CheckSize)]
    BY DEF Decoded
  <2> QED  BY <1>5, <2>2, <2>3
<1>13. Decoded(e) = frame
  BY <1>12 DEF Frames
<1> QED  BY <1>10, <1>13 DEF e

\* Bytes that the codec decodes are the encoding of a frame it would encode.
THEOREM EncodeInvertsDecode ==
    ASSUME NEW b \in Seq(Bytes), Decode(b) = "OK"
    PROVE  Decoded(b) \in Frames /\ Encode(Decoded(b)) = b
<1> DEFINE n == PayloadLength(b)
           frame == Decoded(b)
           e == Encode(frame)
           covered == CoveredBy(frame)
           check == WriteU16(Crc(covered))
<1>1. /\ ~(Len(b) < MinEncodedSize) /\ b[1] = Sync0 /\ b[2] = Sync1 /\ b[3] \in Kinds
      /\ ~(n > MaxPayload) /\ Len(b) = EncodedSize(b) /\ ReceivedCrc(b) = Crc(Covered(b))
  BY DEF Decode
<1>2. Len(b) \in Nat /\ Len(b) >= 7
  BY <1>1 DEF MinEncodedSize, HeaderSize, CheckSize
<1>3. b[3] \in Bytes /\ b[4] \in Bytes /\ b[5] \in Bytes
  BY <1>2, ElementOfSeq
<1>4. n \in Nat /\ WriteU16(n) = <<b[4], b[5]>>
  <2>1. n = ReadU16(b[4], b[5])
    BY DEF PayloadLength
  <2>2. n \in Words /\ WriteU16(n) = <<b[4], b[5]>>
    BY <1>3, <2>1, BytesOfWord
  <2> QED  BY <2>2 DEF Words
<1>5. n \in 0 .. MaxPayload /\ Len(b) = 7 + n
  <2>1. EncodedSize(b) = 7 + n
    BY DEF EncodedSize, MinEncodedSize, HeaderSize, CheckSize
  <2> QED  BY <1>1, <1>4, <2>1
<1> HIDE DEF n
<1>6. /\ SubSeq(b, 6, 5 + n) \in Seq(Bytes) /\ Len(SubSeq(b, 6, 5 + n)) = n
      /\ \A i \in 1 .. n : SubSeq(b, 6, 5 + n)[i] = b[5 + i]
  BY <1>4, <1>5, FieldFacts
<1>7. frame = [kind |-> b[3], payload |-> SubSeq(b, 6, 5 + n)]
  <2>1. Len(b) - CheckSize = 5 + n /\ HeaderSize + 1 = 6
    BY <1>5 DEF HeaderSize, CheckSize
  <2>2. SubSeq(b, HeaderSize + 1, Len(b) - CheckSize) = SubSeq(b, 6, 5 + n)
    BY <2>1
  <2> QED  BY <2>2 DEF Decoded
<1>8. frame \in Frames
  <2>1. SubSeq(b, 6, 5 + n) \in [1 .. n -> Bytes]
    BY <1>6, LenProperties
  <2>2. SubSeq(b, 6, 5 + n) \in Payloads(MaxPayload)
    BY <1>5, <2>1 DEF Payloads
  <2> QED  BY <1>1, <1>7, <2>2 DEF Frames
<1>9. frame.kind = b[3] /\ Len(frame.payload) = n
      /\ \A i \in 1 .. n : frame.payload[i] = b[5 + i]
  BY <1>6, <1>7
<1> HIDE DEF frame
<1>10. /\ covered \in Seq(Bytes) /\ Len(covered) = 3 + n /\ covered[1] = b[3]
       /\ covered[2] = b[4] /\ covered[3] = b[5]
       /\ \A i \in 1 .. n : covered[3 + i] = b[5 + i]
       /\ Crc(covered) \in Words
  <2>1. frame \in [kind : Bytes, payload : Payloads(MaxPayload)]
    BY <1>8 DEF Frames
  <2>2. WriteU16(n)[1] = b[4] /\ WriteU16(n)[2] = b[5]
    BY <1>4
  <2>3. /\ covered \in Seq(Bytes) /\ Len(covered) = 3 + Len(frame.payload)
        /\ covered[1] = frame.kind /\ covered[2] = WriteU16(Len(frame.payload))[1]
        /\ covered[3] = WriteU16(Len(frame.payload))[2]
        /\ \A i \in 1 .. Len(frame.payload) : covered[3 + i] = frame.payload[i]
        /\ Crc(covered) \in Words
    BY <2>1, CoveredShape
  <2> HIDE DEF covered
  <2> QED  BY <1>9, <2>2, <2>3
<1>11. /\ e \in Seq(Bytes) /\ Len(e) = 7 + n /\ e[1] = Sync0 /\ e[2] = Sync1
       /\ \A i \in 1 .. 3 + n : e[2 + i] = covered[i]
       /\ \A i \in 1 .. 2 : e[5 + n + i] = check[i]
  <2>1. frame \in [kind : Bytes, payload : Payloads(MaxPayload)]
    BY <1>8 DEF Frames
  <2> QED  BY <1>9, <2>1, EncodeShape DEF MinEncodedSize, HeaderSize, CheckSize
<1> HIDE DEF e, covered
<1>12. \A i \in 1 .. 3 + n : covered[i] = b[2 + i]
  <2> TAKE i \in 1 .. 3 + n
  <2>1. CASE i \in 1 .. 3
    BY <1>10, <2>1
  <2>2. CASE i \notin 1 .. 3
    <3> DEFINE j == i - 3
    <3>1. j \in 1 .. n /\ 3 + j = i /\ 5 + j = 2 + i
      BY <1>5, <2>2
    <3> HIDE DEF j
    <3>2. covered[3 + j] = b[5 + j]
      BY <1>10, <3>1
    <3> QED  BY <3>1, <3>2
  <2> QED  BY <2>1, <2>2
<1>13. Covered(b) = covered
  <2> DEFINE c == SubSeq(b, 3, 5 + n)
  <2>1. Covered(b) = c
    BY DEF Covered, HeaderSize, n
  <2>2. /\ c \in Seq(Bytes) /\ Len(c) = 3 + n
        /\ \A i \in 1 .. 3 + n : c[i] = b[2 + i]
    BY <1>4, <1>5, FieldFacts
  <2> HIDE DEF c
  <2>3. \A i \in 1 .. 3 + n : c[i] = covered[i]
    BY <1>12, <2>2
  <2> QED  BY <1>10, <2>1, <2>2, <2>3, SeqEqual
<1>14. check[1] = b[6 + n] /\ check[2] = b[7 + n]
  <2>1. Len(b) - 1 = 6 + n
    BY <1>5
  <2>2. Crc(covered) = ReadU16(b[6 + n], b[7 + n])
    BY <1>1, <1>5, <1>13, <2>1 DEF ReceivedCrc
  <2>3. b[6 + n] \in Bytes /\ b[7 + n] \in Bytes
    <3>1. 6 + n \in 1 .. Len(b) /\ 7 + n \in 1 .. Len(b)
      BY <1>5
    <3> QED  BY <3>1, ElementOfSeq
  <2>4. check = <<b[6 + n], b[7 + n]>>
    BY <2>2, <2>3, BytesOfWord
  <2> QED  BY <2>4
<1>15. \A i \in 1 .. 7 + n : e[i] = b[i]
  <2> TAKE i \in 1 .. 7 + n
  <2>1. CASE i \in 1 .. 2
    BY <1>1, <1>11, <2>1
  <2>2. CASE i \in 3 .. 5 + n
    <3> DEFINE j == i - 2
    <3>1. j \in 1 .. 3 + n /\ 2 + j = i
      BY <1>5, <2>2
    <3> HIDE DEF j
    <3> QED  BY <1>11, <1>12, <3>1
  <2>3. CASE i \in 6 + n .. 7 + n
    <3> DEFINE j == i - (5 + n)
    <3>1. j \in 1 .. 2 /\ 5 + n + j = i /\ (j = 1 => i = 6 + n) /\ (j = 2 => i = 7 + n)
      BY <1>5, <2>3
    <3> HIDE DEF j
    <3>2. e[i] = check[j]
      BY <1>11, <3>1
    <3>3. j = 1 \/ j = 2
      BY <3>1
    <3> QED  BY <1>14, <3>1, <3>2, <3>3
  <2> QED  BY <1>5, <2>1, <2>2, <2>3
<1>16. e = b
  BY <1>5, <1>11, <1>15, SeqEqual
<1> QED  BY <1>8, <1>16 DEF e, frame


-------------------------------------------------------------------------------
(* What the steps produce is well typed. *)

LEMMA FrameType ==
    ASSUME NEW s \in Seq(Bytes), NEW p \in 1 .. Len(s), Verdict(s, p) = "OK"
    PROVE  FrameAt(s, p) \in [kind : Bytes, payload : Seq(Bytes)]
<1> DEFINE n == SizeAt(s, p)
           r == Rest(s, p)
           b == BytesAt(s, p)
<1>1. r \in Seq(Bytes) /\ Len(r) = Len(s) - p + 1 /\ \A i \in 1 .. Len(r) : r[i] \in Bytes
  BY RestFacts
<1>2. n \in Nat /\ n >= 7 /\ n <= Len(r)
  BY <1>1, VerdictFacts DEF MinEncodedSize, HeaderSize, CheckSize
<1> HIDE DEF n, r
<1>3. b \in Seq(Bytes) /\ Len(b) = n
  <2>1. \A i \in 1 .. n : r[i] \in Bytes
    BY <1>1, <1>2
  <2>2. SubSeq(r, 1, n) \in Seq(Bytes)
        /\ Len(SubSeq(r, 1, n)) = IF 1 <= n THEN n - 1 + 1 ELSE 0
    BY <1>1, <1>2, <2>1, SubSeqProperties
  <2> QED  BY <1>2, <2>2 DEF BytesAt, n, r
<1> HIDE DEF b
<1>4. b[3] \in Bytes
  BY <1>2, <1>3, ElementOfSeq
<1>5. SubSeq(b, 6, n - 2) \in Seq(Bytes)
  <2>1. \A i \in 6 .. n - 2 : b[i] \in Bytes
    BY <1>2, <1>3, ElementOfSeq
  <2> QED  BY <1>2, <1>3, <2>1, SubSeqProperties
<1>6. FrameAt(s, p) = [kind |-> b[3], payload |-> SubSeq(b, 6, n - 2)]
  BY <1>3 DEF FrameAt, Decoded, HeaderSize, CheckSize, b
<1> QED  BY <1>4, <1>5, <1>6

LEMMA IncreasedType ==
    ASSUME NEW c \in 0 .. MaxCount, NEW n \in Nat
    PROVE  Increased(c, n) \in 0 .. MaxCount
BY MaxCountAssumption DEF Increased

LEMMA CountedType ==
    ASSUME NEW s \in StatsRecord, NEW stop \in Nat, consumed \in Nat, stop > consumed
    PROVE  Counted(s, stop) \in StatsRecord
<1> DEFINE seen(verdicts) ==
        {p \in consumed + 1 .. stop - 1 : Verdict(stream, p) \in verdicts}
<1>1. \A verdicts : Cardinality(seen(verdicts)) \in Nat
  <2> TAKE verdicts
  <2>1. IsFiniteSet(consumed + 1 .. stop - 1)
    BY FS_Interval
  <2>2. seen(verdicts) \in SUBSET (consumed + 1 .. stop - 1)
    OBVIOUS
  <2>3. IsFiniteSet(seen(verdicts))
    BY <2>1, <2>2, FS_Subset
  <2> QED  BY <2>3, FS_CardinalityType
<1> DEFINE oversized == Increased(s.oversized_length_candidates, Cardinality(seen({"OVERSIZED"})))
           errors == Increased(s.decode_errors, Cardinality(seen({"INVALID_KIND", "CRC_MISMATCH"})))
           crc == Increased(s.crc_errors, Cardinality(seen({"CRC_MISMATCH"})))
           discarded == Increased(s.discarded_bytes, stop - 1 - consumed)
<1>2. /\ s.oversized_length_candidates \in 0 .. MaxCount /\ s.decode_errors \in 0 .. MaxCount
      /\ s.crc_errors \in 0 .. MaxCount /\ s.discarded_bytes \in 0 .. MaxCount
      /\ s.frames_ready \in 0 .. MaxCount /\ stop - 1 - consumed \in Nat
  BY DEF StatsRecord
<1>3. oversized \in 0 .. MaxCount /\ errors \in 0 .. MaxCount /\ crc \in 0 .. MaxCount
      /\ discarded \in 0 .. MaxCount
  <2> HIDE DEF seen
  <2> QED  BY <1>1, <1>2, IncreasedType
<1>4. Counted(s, stop) =
         [s EXCEPT !.discarded_bytes = discarded, !.oversized_length_candidates = oversized,
                   !.decode_errors = errors, !.crc_errors = crc]
  BY DEF Counted, StatsRecord
<1> HIDE DEF oversized, errors, crc, discarded
<1> QED  BY <1>3, <1>4 DEF StatsRecord

-------------------------------------------------------------------------------
(* Safety.  Settled is what makes LeftmostFramesDelivered inductive: the     *)
(* verdict on a consumed byte outside the frames is final, and so is the     *)
(* length of every frame.                                                    *)

Settled ==
    /\ \A q \in starts : Verdict(stream, q) = "OK" /\ q + SizeAt(stream, q) - 1 <= consumed
    /\ \A p \in 1 .. consumed : InsideFrame(p) \/ Verdict(stream, p) # "PARTIAL"

IInv == TypeOK /\ LeftmostFramesDelivered /\ NeverStuck /\ Settled

AnyFrame == [kind : Bytes, payload : Seq(Bytes)]

LEMMA InitSafe == Init => IInv
<1> SUFFICES ASSUME Init PROVE IInv
  OBVIOUS
<1>1. Len(stream) = 0 /\ consumed = 0 /\ starts = {} /\ stream \in Seq(Bytes)
  BY EmptySeq DEF Init
<1>2. TypeOK
  BY <1>1, MaxCountAssumption, EmptySeq DEF Init, TypeOK, Buffered, StatsRecord, NoStats
<1>3. LeftmostFramesDelivered /\ Settled
  BY <1>1 DEF LeftmostFramesDelivered, Settled
<1>4. NeverStuck
  BY DEF Init, NeverStuck
<1> QED  BY <1>2, <1>3, <1>4 DEF IInv

LEMMA TypeFacts ==
    ASSUME TypeOK
    PROVE  /\ wire \in Seq(Bytes) /\ stream \in Seq(Bytes) /\ Len(stream) \in Nat
           /\ consumed \in 0 .. Len(stream) /\ consumed \in Nat
           /\ stats \in StatsRecord /\ starts \subseteq 1 .. consumed
           /\ sent \in Seq(AnyFrame) /\ delivered \in Seq(AnyFrame)
           /\ account \in [exact : BOOLEAN, from : Nat, framed : Nat] /\ faults \in Nat
           /\ Buffered <= Capacity /\ result \in {"NONE", "NEED_MORE_DATA", "FRAME_READY"}
BY DEF TypeOK, AnyFrame

\* A suffix of the wire, and what is read from it.
LEMMA WireParts ==
    ASSUME NEW n \in 1 .. Len(wire), wire \in Seq(Bytes)
    PROVE  /\ SubSeq(wire, 1, n) \in Seq(Bytes) /\ Len(SubSeq(wire, 1, n)) = n
           /\ SubSeq(wire, n + 1, Len(wire)) \in Seq(Bytes)
<1>1. \A i \in 1 .. Len(wire) : wire[i] \in Bytes
  BY ElementOfSeq
<1>2. SubSeq(wire, 1, n) \in Seq(Bytes)
      /\ Len(SubSeq(wire, 1, n)) = IF 1 <= n THEN n - 1 + 1 ELSE 0
  BY <1>1, SubSeqProperties
<1>3. SubSeq(wire, n + 1, Len(wire)) \in Seq(Bytes)
  BY <1>1, SubSeqProperties
<1> QED  BY <1>2, <1>3

\* Steps that leave the ring alone.
LEMMA RingUntouched ==
    ASSUME IInv, TypeOK', UNCHANGED <<stream, consumed, starts, result>>
    PROVE  IInv'
BY DEF IInv, LeftmostFramesDelivered, NeverStuck, Settled, InsideFrame, Buffered

LEMMA ReceiveSafe ==
    ASSUME IInv, NEW n \in 1 .. Len(wire), Receive(n)
    PROVE  IInv'
<1> USE DEF IInv
<1> DEFINE t == SubSeq(wire, 1, n)
<1>1. /\ wire \in Seq(Bytes) /\ stream \in Seq(Bytes) /\ consumed \in 0 .. Len(stream)
      /\ starts \subseteq 1 .. consumed /\ Len(stream) \in Nat
  BY TypeFacts
<1>2. t \in Seq(Bytes) /\ Len(t) = n /\ wire' \in Seq(Bytes)
  BY <1>1, WireParts DEF Receive
<1>3. stream' = stream \o t /\ consumed' = consumed /\ starts' = starts /\ result' = "NONE"
  BY DEF Receive
<1> HIDE DEF t
<1>4. stream' \in Seq(Bytes) /\ Len(stream') = Len(stream) + n
  BY <1>1, <1>2, <1>3, ConcatProperties
<1>5. Buffered' <= Capacity
  <2>1. n <= Capacity - (Len(stream) - consumed)
    BY DEF Receive, Buffered
  <2> QED  BY <1>1, <1>3, <1>4, <2>1 DEF Buffered
<1>6. TypeOK'
  BY <1>1, <1>2, <1>3, <1>4, <1>5 DEF Receive, TypeOK
<1>7. \A p \in 1 .. consumed : Verdict(stream, p) # "PARTIAL" =>
         /\ Verdict(stream', p) = Verdict(stream, p)
         /\ Verdict(stream, p) = "OK" => SizeAt(stream', p) = SizeAt(stream, p)
  <2> TAKE p \in 1 .. consumed
  <2>1. p \in 1 .. Len(stream)
    BY <1>1
  <2> QED  BY <1>1, <1>2, <1>3, <2>1, VerdictIsStable
<1>8. \A q \in starts : /\ Verdict(stream, q) = "OK" /\ Verdict(stream', q) = "OK"
                        /\ SizeAt(stream', q) = SizeAt(stream, q)
  BY <1>1, <1>7 DEF Settled
<1>9. \A p \in 1 .. consumed : InsideFrame(p)' <=> InsideFrame(p)
  BY <1>3, <1>8 DEF InsideFrame
<1>10. Settled'
  BY <1>3, <1>7, <1>8, <1>9 DEF Settled
<1>11. LeftmostFramesDelivered'
  BY <1>3, <1>7, <1>8, <1>9 DEF LeftmostFramesDelivered, Settled
<1>12. NeverStuck'
  BY <1>3 DEF NeverStuck
<1> QED  BY <1>6, <1>10, <1>11, <1>12

LEMMA AccountedType ==
    ASSUME NEW counting \in BOOLEAN, NEW size \in Nat,
           account \in [exact : BOOLEAN, from : Nat, framed : Nat]
    PROVE  Accounted(counting, size) \in [exact : BOOLEAN, from : Nat, framed : Nat]
<1> DEFINE exact == account.exact /\ counting
           framed == account.framed + size
<1>1. exact \in BOOLEAN
  BY Zenon
<1>2. framed \in Nat
  OBVIOUS
<1>3. Accounted(counting, size) = [account EXCEPT !.exact = exact, !.framed = framed]
  BY DEF Accounted
<1> HIDE DEF exact, framed
<1> QED  BY <1>1, <1>2, <1>3

LEMMA NeedMoreDataSafe ==
    ASSUME IInv, NEW stop \in consumed + 1 .. Len(stream) + 1, NEW counting \in BOOLEAN,
           NeedMoreData(stop, counting)
    PROVE  IInv'
<1> USE DEF IInv
<1>1. /\ stream \in Seq(Bytes) /\ Len(stream) \in Nat /\ consumed \in Nat
      /\ consumed <= Len(stream) /\ starts \subseteq 1 .. consumed /\ stats \in StatsRecord
      /\ account \in [exact : BOOLEAN, from : Nat, framed : Nat] /\ Buffered <= Capacity
  BY TypeFacts
<1>2. /\ consumed' = stop - 1 /\ stream' = stream /\ starts' = starts
      /\ result' = "NEED_MORE_DATA" /\ stop > consumed
      /\ \A p \in consumed + 1 .. stop - 1 : Verdict(stream, p) \notin {"PARTIAL", "OK"}
      /\ stop <= Len(stream) => Verdict(stream, stop) = "PARTIAL"
  BY DEF NeedMoreData, Skips, Ends
<1>3. stop \in Nat /\ consumed' \in 0 .. Len(stream) /\ consumed' >= consumed
  BY <1>1, <1>2
<1>4. stats' \in StatsRecord
  BY <1>1, <1>2, <1>3, CountedType DEF NeedMoreData
<1>5. account' \in [exact : BOOLEAN, from : Nat, framed : Nat]
  BY <1>1, AccountedType DEF NeedMoreData
<1>6. Buffered' <= Capacity
  BY <1>1, <1>2, <1>3 DEF Buffered
<1>7. starts' \subseteq 1 .. consumed'
  BY <1>1, <1>2, <1>3
<1>8. TypeOK'
  BY <1>2, <1>3, <1>4, <1>5, <1>6, <1>7 DEF NeedMoreData, TypeOK
<1>9. \A p : InsideFrame(p)' <=> InsideFrame(p)
  BY <1>2 DEF InsideFrame
<1>10. \A p \in 1 .. consumed' : p \in 1 .. consumed \/ p \in consumed + 1 .. stop - 1
  BY <1>1, <1>2, <1>3
<1>11. Settled'
  <2>1. \A q \in starts : Verdict(stream, q) = "OK" /\ q + SizeAt(stream, q) - 1 <= consumed'
    <3> TAKE q \in starts
    <3>1. Verdict(stream, q) = "OK" /\ q + SizeAt(stream, q) - 1 <= consumed /\ q \in 1 .. Len(stream)
      BY <1>1 DEF Settled
    <3>2. SizeAt(stream, q) \in Nat
      BY <1>1, <3>1, VerdictFacts
    <3> QED  BY <1>1, <1>2, <1>3, <3>1, <3>2
  <2>2. \A p \in 1 .. consumed' : InsideFrame(p) \/ Verdict(stream, p) # "PARTIAL"
    BY <1>2, <1>10 DEF Settled
  <2> QED  BY <1>2, <1>9, <2>1, <2>2 DEF Settled
<1>12. LeftmostFramesDelivered'
  <2> SUFFICES ASSUME NEW p \in 1 .. consumed'
               PROVE  p \in starts <=> Verdict(stream, p) = "OK" /\ ~InsideFrame(p)
    BY <1>2, <1>9 DEF LeftmostFramesDelivered
  <2>1. CASE p \in 1 .. consumed
    BY <2>1 DEF LeftmostFramesDelivered
  <2>2. CASE p \in consumed + 1 .. stop - 1
    BY <1>1, <1>2, <2>2
  <2> QED  BY <1>10, <2>1, <2>2
<1>13. NeverStuck'
  <2>1. CASE stop <= Len(stream)
    <3>1. stop \in 1 .. Len(stream)
      BY <1>1, <1>3, <2>1
    <3>2. Len(stream) - stop + 1 < MaxEncodedSize
      BY <1>1, <1>2, <2>1, <3>1, VerdictFacts
    <3> QED  BY <1>1, <1>2, <1>3, <3>2 DEF NeverStuck, Buffered
  <2>2. CASE stop = Len(stream) + 1
    BY <1>1, <1>2, <2>2
    DEF NeverStuck, Buffered, MaxEncodedSize, MinEncodedSize, HeaderSize, CheckSize
  <2> QED  BY <1>1, <2>1, <2>2
<1> QED  BY <1>8, <1>11, <1>12, <1>13

LEMMA FrameReadySafe ==
    ASSUME IInv, NEW stop \in consumed + 1 .. Len(stream) + 1, NEW counting \in BOOLEAN,
           FrameReady(stop, counting)
    PROVE  IInv'
<1> USE DEF IInv
<1> DEFINE size == SizeAt(stream, stop)
<1>1. /\ stream \in Seq(Bytes) /\ Len(stream) \in Nat /\ consumed \in Nat
      /\ consumed <= Len(stream) /\ starts \subseteq 1 .. consumed /\ stats \in StatsRecord
      /\ account \in [exact : BOOLEAN, from : Nat, framed : Nat] /\ Buffered <= Capacity
      /\ delivered \in Seq(AnyFrame)
  BY TypeFacts
<1>2. /\ consumed' = stop - 1 + size /\ stream' = stream /\ starts' = starts \cup {stop}
      /\ result' = "FRAME_READY" /\ stop > consumed /\ stop <= Len(stream)
      /\ \A p \in consumed + 1 .. stop - 1 : Verdict(stream, p) \notin {"PARTIAL", "OK"}
      /\ Verdict(stream, stop) = "OK"
  BY DEF FrameReady, Skips, Ends
<1>3. stop \in 1 .. Len(stream)
  BY <1>1, <1>2
<1>4. size \in Nat /\ size >= 7 /\ size <= Len(stream) - stop + 1
  BY <1>1, <1>2, <1>3, VerdictFacts DEF MinEncodedSize, HeaderSize, CheckSize
<1> HIDE DEF size
<1>5. consumed' \in 0 .. Len(stream) /\ consumed' >= stop
  BY <1>1, <1>2, <1>3, <1>4
<1>6. stats' \in StatsRecord
  <2> DEFINE c == Counted(stats, stop)
  <2>1. c \in StatsRecord
    BY <1>1, <1>2, <1>3, CountedType
  <2> HIDE DEF c
  <2>2. Increased(c.frames_ready, 1) \in 0 .. MaxCount
    BY <2>1, IncreasedType DEF StatsRecord
  <2>3. stats' = IF counting THEN [c EXCEPT !.frames_ready = Increased(c.frames_ready, 1)] ELSE stats
    BY <2>1 DEF FrameReady, StatsRecord, c
  <2> QED  BY <1>1, <2>1, <2>2, <2>3 DEF StatsRecord
<1>7. account' \in [exact : BOOLEAN, from : Nat, framed : Nat]
  <2>1. account' = Accounted(counting, size)
    BY DEF FrameReady, size
  <2> QED  BY <1>1, <1>4, <2>1, AccountedType
<1>8. Buffered' <= Capacity
  BY <1>1, <1>2, <1>3, <1>5 DEF Buffered
<1>9. starts' \subseteq 1 .. consumed'
  BY <1>1, <1>2, <1>3, <1>5
<1>10. delivered' \in Seq(AnyFrame)
  <2>1. FrameAt(stream, stop) \in AnyFrame
    BY <1>1, <1>2, <1>3, FrameType DEF AnyFrame
  <2>2. delivered' = Append(delivered, FrameAt(stream, stop))
    BY DEF FrameReady
  <2> QED  BY <1>1, <2>1, <2>2, AppendProperties
<1>11. TypeOK'
  BY <1>2, <1>5, <1>6, <1>7, <1>8, <1>9, <1>10 DEF FrameReady, TypeOK, AnyFrame
<1>12. \A p \in 1 .. stop : InsideFrame(p)' <=> InsideFrame(p)
  <2> TAKE p \in 1 .. stop
  <2>1. ~(stop < p)
    BY <1>3
  <2> QED  BY <1>2, <2>1 DEF InsideFrame
<1>13. ~InsideFrame(stop)
  <2> SUFFICES ASSUME NEW q \in starts, q < stop, stop < q + SizeAt(stream, q) PROVE FALSE
    BY DEF InsideFrame
  <2>1. Verdict(stream, q) = "OK" /\ q + SizeAt(stream, q) - 1 <= consumed /\ q \in 1 .. Len(stream)
    BY <1>1 DEF Settled
  <2>2. SizeAt(stream, q) \in Nat
    BY <1>1, <2>1, VerdictFacts
  <2> QED  BY <1>1, <1>2, <1>3, <2>1, <2>2
<1>14. \A p \in stop + 1 .. consumed' : InsideFrame(p)' /\ p \notin starts'
  <2> TAKE p \in stop + 1 .. consumed'
  <2>1. stop < p /\ p < stop + size /\ stop \in starts'
    BY <1>2, <1>3, <1>4, <1>5
  <2>2. InsideFrame(p)'
    BY <1>2, <2>1 DEF InsideFrame, size
  <2>3. p \notin starts /\ p # stop
    BY <1>1, <1>2, <1>3
  <2> QED  BY <1>2, <2>2, <2>3
<1>15. \A p \in 1 .. consumed' : \/ p \in 1 .. consumed \/ p \in consumed + 1 .. stop - 1
                                 \/ p = stop \/ p \in stop + 1 .. consumed'
  BY <1>1, <1>2, <1>3, <1>5
<1>16. Settled'
  <2>1. \A q \in starts' : Verdict(stream, q) = "OK" /\ q + SizeAt(stream, q) - 1 <= consumed'
    <3> TAKE q \in starts'
    <3>1. CASE q \in starts
      <4>1. Verdict(stream, q) = "OK" /\ q + SizeAt(stream, q) - 1 <= consumed
            /\ q \in 1 .. Len(stream)
        BY <1>1, <3>1 DEF Settled
      <4>2. SizeAt(stream, q) \in Nat
        BY <1>1, <4>1, VerdictFacts
      <4> QED  BY <1>1, <1>2, <1>3, <1>5, <4>1, <4>2
    <3>2. CASE q = stop
      BY <1>2, <1>3, <1>4, <3>2 DEF size
    <3> QED  BY <1>2, <3>1, <3>2
  <2>2. ASSUME NEW p \in 1 .. consumed'
        PROVE  InsideFrame(p)' \/ Verdict(stream, p) # "PARTIAL"
    <3>1. CASE p \in 1 .. consumed
      <4>1. p \in 1 .. stop
        BY <1>1, <1>2, <1>3, <3>1
      <4> QED  BY <1>12, <3>1, <4>1 DEF Settled
    <3>2. CASE p \in consumed + 1 .. stop - 1 \/ p = stop
      BY <1>2, <3>2
    <3>3. CASE p \in stop + 1 .. consumed'
      BY <1>14, <3>3
    <3> QED  BY <1>15, <3>1, <3>2, <3>3
  <2> QED  BY <1>2, <2>1, <2>2 DEF Settled
<1>17. LeftmostFramesDelivered'
  <2> SUFFICES ASSUME NEW p \in 1 .. consumed'
               PROVE  p \in starts' <=> Verdict(stream, p) = "OK" /\ ~InsideFrame(p)'
    BY <1>2 DEF LeftmostFramesDelivered
  <2>1. CASE p \in 1 .. consumed
    <3>1. p \in 1 .. stop /\ p # stop
      BY <1>1, <1>2, <1>3, <2>1
    <3> QED  BY <1>2, <1>12, <2>1, <3>1 DEF LeftmostFramesDelivered
  <2>2. CASE p \in consumed + 1 .. stop - 1
    BY <1>1, <1>2, <1>3, <2>2
  <2>3. CASE p = stop
    BY <1>2, <1>3, <1>12, <1>13, <2>3
  <2>4. CASE p \in stop + 1 .. consumed'
    BY <1>14, <2>4
  <2> QED  BY <1>15, <2>1, <2>2, <2>3, <2>4
<1>18. NeverStuck'
  BY <1>2 DEF NeverStuck
<1> QED  BY <1>11, <1>16, <1>17, <1>18

LEMMA StepSafe == IInv /\ [Next]_vars => IInv'
<1> SUFFICES ASSUME IInv, [Next]_vars PROVE IInv'
  OBVIOUS
<1>1. TypeOK
  BY DEF IInv
<1>2. wire \in Seq(Bytes) /\ sent \in Seq(AnyFrame) /\ faults \in Nat
  BY <1>1, TypeFacts
<1>3. ASSUME NEW frame \in SentFrames, Send(frame) PROVE IInv'
  <2>1. frame \in [kind : Bytes, payload : Payloads(MaxPayload)]
    BY SentAssumption
  <2>2. wire' \in Seq(Bytes)
    BY <1>2, <1>3, <2>1, EncodeShape, ConcatProperties DEF Send
  <2>3. frame \in AnyFrame
    <3>1. PICK n \in 0 .. MaxPayload : frame.payload \in [1 .. n -> Bytes]
      BY <2>1 DEF Payloads
    <3>2. frame.payload \in Seq(Bytes)
      BY <3>1, SeqDef
    <3> QED  BY <2>1, <3>2 DEF AnyFrame
  <2>4. sent' \in Seq(AnyFrame)
    BY <1>2, <1>3, <2>3, AppendProperties DEF Send
  <2>5. TypeOK'
    BY <1>1, <1>3, <2>2, <2>4 DEF TypeOK, Send, AnyFrame, Buffered
  <2> QED  BY <1>3, <2>5, RingUntouched DEF Send
<1>4. ASSUME NEW n \in 1 .. Len(wire), Lose(n) PROVE IInv'
  <2>1. wire' \in Seq(Bytes)
    BY <1>2, <1>4, WireParts DEF Lose
  <2>2. TypeOK'
    BY <1>1, <1>2, <1>4, <2>1 DEF TypeOK, Lose, Buffered
  <2> QED  BY <1>4, <2>2, RingUntouched DEF Lose
<1>5. ASSUME NEW byte \in Bytes, Noise(byte) PROVE IInv'
  <2>1. wire' \in Seq(Bytes)
    <3>1. <<byte>> \in Seq(Bytes)
      OBVIOUS
    <3> QED  BY <1>2, <1>5, <3>1, ConcatProperties DEF Noise
  <2>2. TypeOK'
    BY <1>1, <1>2, <1>5, <2>1 DEF TypeOK, Noise, Buffered
  <2> QED  BY <1>5, <2>2, RingUntouched DEF Noise
<1>6. CASE StatsReset
  <2>1. consumed \in Nat
    BY <1>1, TypeFacts
  <2>2. stats' \in StatsRecord
    BY <1>6, MaxCountAssumption DEF StatsReset, NoStats, StatsRecord
  <2>3. account' \in [exact : BOOLEAN, from : Nat, framed : Nat]
    BY <1>6, <2>1 DEF StatsReset
  <2>4. TypeOK'
    BY <1>1, <1>6, <2>2, <2>3 DEF TypeOK, StatsReset, Buffered
  <2> QED  BY <1>6, <2>4, RingUntouched DEF StatsReset
<1>7. CASE UNCHANGED vars
  <2>1. TypeOK'
    BY <1>1, <1>7 DEF TypeOK, vars, Buffered
  <2> QED  BY <1>7, <2>1, RingUntouched DEF vars
<1> QED
  BY <1>3, <1>4, <1>5, <1>6, <1>7, ReceiveSafe, NeedMoreDataSafe, FrameReadySafe DEF Next

LEMMA InvariantSafe == Spec => []IInv
BY InitSafe, StepSafe, PTL DEF Spec

\* The variables keep their types for every layout, check sum, ring and line.
THEOREM TypeCorrect == Spec => []TypeOK
BY InvariantSafe, PTL DEF IInv

\* For every layout, check sum, ring size and line: the frames delivered are the
\* leftmost valid ones of the consumed stream, however it was cut into reads.
THEOREM Safety == Spec => []LeftmostFramesDelivered
BY InvariantSafe, PTL DEF IInv

\* A call that finds no frame leaves room for more bytes: no line, however
\* faulty, fills the ring with bytes that the parser will not give up.
THEOREM NeverFull == Spec => []NeverStuck
BY InvariantSafe, PTL DEF IInv

-------------------------------------------------------------------------------
(* Only encodings are accepted. *)

LEMMA BytesAtFacts ==
    ASSUME NEW s \in Seq(Bytes), NEW p \in 1 .. Len(s), Verdict(s, p) = "OK"
    PROVE  /\ BytesAt(s, p) \in Seq(Bytes) /\ Len(BytesAt(s, p)) = SizeAt(s, p)
           /\ SizeAt(s, p) \in Nat /\ SizeAt(s, p) >= 7 /\ SizeAt(s, p) <= Len(s) - p + 1
           /\ Decode(BytesAt(s, p)) = "OK"
<1> DEFINE n == SizeAt(s, p)
           r == Rest(s, p)
<1>1. r \in Seq(Bytes) /\ Len(r) = Len(s) - p + 1
  BY RestFacts
<1>2. n \in Nat /\ n >= 7 /\ n <= Len(r) /\ Decode(BytesAt(s, p)) = "OK"
  BY <1>1, VerdictFacts DEF MinEncodedSize, HeaderSize, CheckSize
<1>3. BytesAt(s, p) = SubSeq(r, 1, n)
  BY DEF BytesAt
<1> HIDE DEF n, r
<1>4. SubSeq(r, 1, n) \in Seq(Bytes) /\ Len(SubSeq(r, 1, n)) = n - 1 + 1
  <2>1. 1 \in Nat /\ 1 <= 1 /\ 1 <= n + 1
    BY <1>2
  <2> QED  BY <1>1, <1>2, <2>1, PartFacts
<1> QED  BY <1>1, <1>2, <1>3, <1>4 DEF n

LEMMA AcceptedAreEncodings ==
    ASSUME TypeOK, Settled
    PROVE  OnlyEncodingsAccepted
<1> SUFFICES ASSUME NEW p \in starts
             PROVE  FrameAt(stream, p) \in Frames /\ BytesAt(stream, p) = Encode(FrameAt(stream, p))
  BY DEF OnlyEncodingsAccepted
<1>1. stream \in Seq(Bytes) /\ p \in 1 .. Len(stream)
  BY TypeFacts
<1>2. Verdict(stream, p) = "OK"
  BY DEF Settled
<1>3. BytesAt(stream, p) \in Seq(Bytes) /\ Decode(BytesAt(stream, p)) = "OK"
  BY <1>1, <1>2, BytesAtFacts
<1> QED  BY <1>3, EncodeInvertsDecode DEF FrameAt

\* Whatever the line delivers: each frame returned is one the codec would encode,
\* and the bytes it was found in are exactly its encoding.
THEOREM AcceptedSafe == Spec => []OnlyEncodingsAccepted
<1>1. IInv => OnlyEncodingsAccepted
  BY AcceptedAreEncodings DEF IInv
<1> QED  BY <1>1, InvariantSafe, PTL

-------------------------------------------------------------------------------
(* The counters. *)

\* The candidates with one of these verdicts among those a call drops.
Dropped(stop, verdicts) == {p \in consumed + 1 .. stop - 1 : Verdict(stream, p) \in verdicts}

LEMMA DroppedFacts ==
    ASSUME consumed \in Nat, NEW stop \in Nat, stop > consumed
    PROVE  /\ Cardinality(Dropped(stop, {"OVERSIZED"})) \in Nat
           /\ Cardinality(Dropped(stop, {"INVALID_KIND", "CRC_MISMATCH"})) \in Nat
           /\ Cardinality(Dropped(stop, {"CRC_MISMATCH"})) \in Nat
           /\ Cardinality(Dropped(stop, {"CRC_MISMATCH"}))
                 <= Cardinality(Dropped(stop, {"INVALID_KIND", "CRC_MISMATCH"}))
           /\ Cardinality(Dropped(stop, {"INVALID_KIND", "CRC_MISMATCH"}))
                 + Cardinality(Dropped(stop, {"OVERSIZED"})) <= stop - 1 - consumed
<1> DEFINE all == consumed + 1 .. stop - 1
           long == Dropped(stop, {"OVERSIZED"})
           wrong == Dropped(stop, {"INVALID_KIND", "CRC_MISMATCH"})
           crc == Dropped(stop, {"CRC_MISMATCH"})
<1>1. IsFiniteSet(all) /\ Cardinality(all) = stop - 1 - consumed
  <2>1. consumed + 1 \in Int /\ stop - 1 \in Int
    OBVIOUS
  <2>2. IsFiniteSet(all) /\ Cardinality(all) = IF consumed + 1 > stop - 1 THEN 0 ELSE stop - 1 - (consumed + 1) + 1
    BY <2>1, FS_Interval
  <2> QED  BY <2>2
<1>2. long \subseteq all /\ wrong \subseteq all /\ crc \subseteq wrong /\ long \cap wrong = {}
  BY DEF Dropped
<1> HIDE DEF all, long, wrong, crc
<1>3. IsFiniteSet(long) /\ IsFiniteSet(wrong) /\ IsFiniteSet(crc)
  BY <1>1, <1>2, FS_Subset
<1>4. Cardinality(long) \in Nat /\ Cardinality(wrong) \in Nat /\ Cardinality(crc) \in Nat
  BY <1>3, FS_CardinalityType
<1>5. Cardinality(crc) <= Cardinality(wrong)
  BY <1>2, <1>3, FS_Subset
<1>6. Cardinality(wrong \cup long) = Cardinality(wrong) + Cardinality(long)
  <2>1. wrong \cap long = {}
    BY <1>2
  <2>2. Cardinality(wrong \cup long) = Cardinality(wrong) + Cardinality(long) - Cardinality(wrong \cap long)
    BY <1>3, FS_Union
  <2> QED  BY <1>4, <2>1, <2>2, FS_EmptySet
<1>7. Cardinality(wrong \cup long) <= Cardinality(all)
  <2>1. wrong \cup long \subseteq all
    BY <1>2
  <2> QED  BY <1>1, <2>1, FS_Subset
<1> QED  BY <1>1, <1>4, <1>5, <1>6, <1>7 DEF long, wrong, crc

LEMMA IncreasedFacts ==
    ASSUME NEW c \in 0 .. MaxCount, NEW m \in Nat
    PROVE  /\ Increased(c, m) \in 0 .. MaxCount /\ Increased(c, m) >= c
           /\ Increased(c, m) <= c + m
           /\ Increased(c, m) < MaxCount => Increased(c, m) = c + m
BY MaxCountAssumption DEF Increased

\* Counting further is counting it all at once.
LEMMA IncreasedTwice ==
    ASSUME NEW m \in Nat, NEW n \in Nat
    PROVE  Increased(Increased(0, m), n) = Increased(0, m + n)
BY MaxCountAssumption DEF Increased

LEMMA IncreasedOrder ==
    ASSUME NEW c \in 0 .. MaxCount, NEW d \in 0 .. MaxCount, NEW m \in Nat, NEW n \in Nat,
           c <= d, m <= n
    PROVE  Increased(c, m) <= Increased(d, n)
BY MaxCountAssumption DEF Increased

\* The balance of the counters, and of the bytes in frames.
Balanced ==
    /\ CountersExplainBytes
    /\ account.from + account.framed <= consumed

LEMMA CountedBalance ==
    ASSUME TypeOK, Balanced, NEW stop \in Nat, stop > consumed, NEW size \in Nat,
           NEW counting \in BOOLEAN,
           account' = Accounted(counting, size), consumed' = stop - 1 + size,
           stats' = IF counting THEN [Counted(stats, stop) EXCEPT !.frames_ready = stats'.frames_ready]
                    ELSE stats
    PROVE  Balanced'
<1> DEFINE long == Cardinality(Dropped(stop, {"OVERSIZED"}))
           wrong == Cardinality(Dropped(stop, {"INVALID_KIND", "CRC_MISMATCH"}))
           crc == Cardinality(Dropped(stop, {"CRC_MISMATCH"}))
           n == stop - 1 - consumed
<1>1. /\ consumed \in Nat /\ stats \in StatsRecord
      /\ account \in [exact : BOOLEAN, from : Nat, framed : Nat]
  BY TypeFacts
<1>2. /\ long \in Nat /\ wrong \in Nat /\ crc \in Nat /\ crc <= wrong /\ wrong + long <= n
      /\ n \in Nat
  BY <1>1, DroppedFacts
<1>3. /\ account'.from = account.from /\ account'.framed = account.framed + size
      /\ account'.exact => account.exact /\ counting
  BY <1>1 DEF Accounted
<1>4. account'.from + account'.framed <= consumed'
  BY <1>1, <1>2, <1>3 DEF Balanced
<1>5. /\ stats.discarded_bytes \in 0 .. MaxCount /\ stats.oversized_length_candidates \in 0 .. MaxCount
      /\ stats.decode_errors \in 0 .. MaxCount /\ stats.crc_errors \in 0 .. MaxCount
  BY <1>1 DEF StatsRecord
<1>6. counting =>
         /\ stats'.discarded_bytes = Increased(stats.discarded_bytes, n)
         /\ stats'.oversized_length_candidates = Increased(stats.oversized_length_candidates, long)
         /\ stats'.decode_errors = Increased(stats.decode_errors, wrong)
         /\ stats'.crc_errors = Increased(stats.crc_errors, crc)
  <2> HAVE counting
  <2>1. Counted(stats, stop) =
           [stats EXCEPT !.discarded_bytes = Increased(stats.discarded_bytes, n),
                         !.oversized_length_candidates = Increased(stats.oversized_length_candidates, long),
                         !.decode_errors = Increased(stats.decode_errors, wrong),
                         !.crc_errors = Increased(stats.crc_errors, crc)]
    BY <1>1 DEF Counted, Dropped, StatsRecord
  <2> HIDE DEF n, long, wrong, crc
  <2> QED  BY <1>1, <2>1 DEF StatsRecord
<1> HIDE DEF n, long, wrong, crc
<1>7. stats'.crc_errors <= stats'.decode_errors
  <2>1. stats.crc_errors <= stats.decode_errors
    BY DEF Balanced, CountersExplainBytes
  <2>2. CASE counting
    BY <1>2, <1>5, <1>6, <2>1, <2>2, IncreasedOrder
  <2>3. CASE ~counting
    BY <2>1, <2>3
  <2> QED  BY <2>2, <2>3
<1>8. ASSUME account'.exact
      PROVE  /\ stats'.discarded_bytes = Increased(0, consumed' - account'.from - account'.framed)
             /\ stats'.discarded_bytes < MaxCount =>
                   stats'.decode_errors + stats'.oversized_length_candidates <= stats'.discarded_bytes
  <2> DEFINE d == consumed - account.from - account.framed
  <2>1. counting /\ account.exact
    BY <1>3, <1>8
  <2>2. stats.discarded_bytes = Increased(0, d)
    BY <2>1 DEF Balanced, CountersExplainBytes
  <2>3. d \in Nat /\ consumed' - account'.from - account'.framed = d + n
    BY <1>1, <1>2, <1>3 DEF Balanced, n
  <2> HIDE DEF d
  <2>4. stats'.discarded_bytes = Increased(0, d + n)
    BY <1>2, <1>6, <2>1, <2>2, <2>3, IncreasedTwice
  <2>5. ASSUME stats'.discarded_bytes < MaxCount
        PROVE  stats'.decode_errors + stats'.oversized_length_candidates <= stats'.discarded_bytes
    <3>1. stats'.discarded_bytes = stats.discarded_bytes + n
      BY <1>2, <1>5, <1>6, <2>1, <2>5, IncreasedFacts
    <3>2. stats.discarded_bytes < MaxCount
      BY <1>2, <1>5, <2>5, <3>1, MaxCountAssumption
    <3>3. stats.decode_errors + stats.oversized_length_candidates <= stats.discarded_bytes
      BY <2>1, <3>2 DEF Balanced, CountersExplainBytes
    <3>4. /\ stats'.decode_errors <= stats.decode_errors + wrong
          /\ stats'.oversized_length_candidates <= stats.oversized_length_candidates + long
          /\ stats'.decode_errors \in Nat /\ stats'.oversized_length_candidates \in Nat
      BY <1>2, <1>5, <1>6, <2>1, IncreasedFacts
    <3> QED  BY <1>2, <1>5, <3>1, <3>3, <3>4
  <2> QED  BY <2>3, <2>4, <2>5
<1> QED  BY <1>4, <1>7, <1>8 DEF Balanced, CountersExplainBytes

LEMMA BalanceKept == IInv /\ Balanced /\ [Next]_vars => Balanced'
<1> SUFFICES ASSUME IInv, Balanced, [Next]_vars PROVE Balanced'
  OBVIOUS
<1>1. /\ TypeOK /\ consumed \in Nat /\ stats \in StatsRecord /\ stream \in Seq(Bytes)
      /\ Len(stream) \in Nat
  BY TypeFacts DEF IInv
<1>2. CASE UNCHANGED <<consumed, stats, account>>
  BY <1>2 DEF Balanced, CountersExplainBytes
<1>3. ASSUME NEW stop \in consumed + 1 .. Len(stream) + 1, NEW counting \in BOOLEAN,
             NeedMoreData(stop, counting)
      PROVE  Balanced'
  <2>1. stop \in Nat /\ stop > consumed /\ 0 \in Nat /\ consumed' = stop - 1 + 0
    BY <1>1, <1>3 DEF NeedMoreData
  <2>2. Counted(stats, stop) = [Counted(stats, stop) EXCEPT !.frames_ready = Counted(stats, stop).frames_ready]
        /\ stats = [stats EXCEPT !.frames_ready = stats.frames_ready]
    <3>1. Counted(stats, stop) \in StatsRecord
      BY <1>1, <2>1, CountedType
    <3> QED  BY <1>1, <3>1 DEF StatsRecord
  <2>3. stats' = IF counting THEN [Counted(stats, stop) EXCEPT !.frames_ready = stats'.frames_ready]
                 ELSE stats
    BY <1>3, <2>2 DEF NeedMoreData
  <2>4. account' = Accounted(counting, 0)
    BY <1>3 DEF NeedMoreData
  <2> QED  BY <1>1, <2>1, <2>3, <2>4, CountedBalance
<1>4. ASSUME NEW stop \in consumed + 1 .. Len(stream) + 1, NEW counting \in BOOLEAN,
             FrameReady(stop, counting)
      PROVE  Balanced'
  <2> DEFINE size == SizeAt(stream, stop)
  <2>1. stop \in Nat /\ stop > consumed /\ stop \in 1 .. Len(stream) /\ consumed' = stop - 1 + size
    BY <1>1, <1>4 DEF FrameReady
  <2>2. size \in Nat
    BY <1>1, <1>4, <2>1, BytesAtFacts DEF FrameReady
  <2>3. stats' = IF counting THEN [Counted(stats, stop) EXCEPT !.frames_ready = stats'.frames_ready]
                 ELSE stats
    <3>1. Counted(stats, stop) \in StatsRecord
      BY <1>1, <2>1, CountedType
    <3> QED  BY <1>4, <3>1 DEF FrameReady, StatsRecord
  <2>4. account' = Accounted(counting, size)
    BY <1>4 DEF FrameReady
  <2> QED  BY <1>1, <2>1, <2>2, <2>3, <2>4, CountedBalance
<1>5. CASE StatsReset
  <2>1. /\ stats' = NoStats /\ account' = [exact |-> TRUE, from |-> consumed, framed |-> 0]
        /\ consumed' = consumed
    BY <1>5 DEF StatsReset
  <2>2. Increased(0, consumed' - account'.from - account'.framed) = 0
    BY <1>1, <2>1, MaxCountAssumption DEF Increased
  <2> QED  BY <1>1, <2>1, <2>2 DEF NoStats, Balanced, CountersExplainBytes
<1> QED
  BY <1>2, <1>3, <1>4, <1>5 DEF Next, Send, Lose, Receive, Noise, vars

\* Until a counter saturates every consumed byte is discarded or part of a
\* frame, each refused candidate cost one byte, and CRC errors are decode errors,
\* however calls that count and calls that do not are mixed with resets.
THEOREM CountersSafe == Spec => []CountersExplainBytes
<1>1. Init => Balanced
  BY MaxCountAssumption DEF Init, NoStats, Balanced, CountersExplainBytes, Increased
<1>2. Balanced => CountersExplainBytes
  BY DEF Balanced
<1> QED  BY <1>1, <1>2, BalanceKept, InitSafe, StepSafe, PTL DEF Spec

-------------------------------------------------------------------------------
(* A line without faults.  The bytes written to the ring and those under way *)
(* are the encodings of what was sent, one after the other, and the parser   *)
(* stands at the beginning of the one to deliver next.                       *)

\* What the loop makes of the beginning of a frame, or of all of it.
LEMMA FrameOnLine ==
    ASSUME NEW s \in Seq(Bytes), NEW p \in 1 .. Len(s), NEW frame \in Frames,
           \A j \in 1 .. Len(Encode(frame)) :
               j <= Len(s) - p + 1 => s[p + j - 1] = Encode(frame)[j]
    PROVE  /\ Len(Encode(frame)) <= Len(s) - p + 1 =>
                 /\ Verdict(s, p) = "OK" /\ FrameAt(s, p) = frame
                 /\ SizeAt(s, p) = Len(Encode(frame))
           /\ Len(Encode(frame)) > Len(s) - p + 1 => Verdict(s, p) = "PARTIAL"
<1> DEFINE e == Encode(frame)
           r == Rest(s, p)
           available == Len(s) - p + 1
           n == EncodedSize(r)
<1>1. e \in Seq(Bytes)
  BY EncodeShape DEF Frames
<1>2. Decode(e) = "OK" /\ Decoded(e) = frame
  BY DecodeInvertsEncode
<1> HIDE DEF e
<1>3. /\ ~(Len(e) < MinEncodedSize) /\ e[1] = Sync0 /\ e[2] = Sync1
      /\ ~(PayloadLength(e) > MaxPayload) /\ Len(e) = EncodedSize(e)
  BY <1>2 DEF Decode
<1>4. Len(e) \in Nat /\ Len(e) >= 7 /\ HeaderSize = 5
  BY <1>1, <1>3 DEF MinEncodedSize, HeaderSize, CheckSize
<1>5. /\ r \in Seq(Bytes) /\ Len(r) = available /\ available \in Nat /\ available >= 1
      /\ \A j \in 1 .. available : r[j] = s[p + j - 1] /\ r[j] \in Bytes
  <2>1. available \in Nat /\ available >= 1
    OBVIOUS
  <2>2. /\ Rest(s, p) \in Seq(Bytes) /\ Len(Rest(s, p)) = Len(s) - p + 1
        /\ \A j \in 1 .. Len(s) - p + 1 :
              Rest(s, p)[j] = s[p + j - 1] /\ Rest(s, p)[j] \in Bytes
    BY RestFacts
  <2> QED  BY <2>1, <2>2
<1>6. \A j \in 1 .. Len(e) : j <= available => r[j] = e[j]
  <2>1. \A j \in 1 .. Len(e) : j <= available => s[p + j - 1] = e[j]
    BY DEF e
  <2> HIDE DEF available
  <2>2. \A j \in 1 .. Len(e) : j <= available => j \in 1 .. available
    BY <1>4, <1>5
  <2> QED  BY <1>5, <2>1, <2>2
<1>7. Verdict(s, p) =
         IF r[1] # Sync0 THEN "GARBAGE"
         ELSE IF available < 2 THEN "PARTIAL"
         ELSE IF r[2] # Sync1 THEN "GARBAGE"
         ELSE IF available < HeaderSize THEN "PARTIAL"
         ELSE IF PayloadLength(r) > MaxPayload THEN "OVERSIZED"
         ELSE IF available < n THEN "PARTIAL"
         ELSE Decode(SubSeq(r, 1, n))
  BY <1>5 DEF Verdict
<1>8. SizeAt(s, p) = n /\ FrameAt(s, p) = Decoded(SubSeq(r, 1, n))
  BY DEF SizeAt, FrameAt, BytesAt
<1>9. available >= 5 => PayloadLength(r) = PayloadLength(e) /\ n = Len(e)
  <2> HAVE available >= 5
  <2>1. r[4] = e[4] /\ r[5] = e[5]
    <3>1. 4 \in 1 .. Len(e) /\ 5 \in 1 .. Len(e) /\ 4 <= available /\ 5 <= available
      BY <1>4, <1>5
    <3> HIDE DEF r, available
    <3> QED  BY <1>6, <3>1
  <2> HIDE DEF r
  <2> QED  BY <1>3, <2>1 DEF PayloadLength, EncodedSize
<1> HIDE DEF r, available, n
<1>10. r[1] = Sync0 /\ (available >= 2 => r[2] = Sync1)
  BY <1>3, <1>4, <1>5, <1>6
<1>11. CASE available < Len(e)
  <2>1. Verdict(s, p) = "PARTIAL"
    <3>1. CASE available < 5
      BY <1>4, <1>5, <1>7, <1>10, <3>1
    <3>2. CASE available >= 5
      BY <1>3, <1>4, <1>5, <1>7, <1>9, <1>10, <1>11, <3>2
    <3> QED  BY <1>5, <3>1, <3>2
  <2>2. ~(Len(e) <= available)
    BY <1>4, <1>5, <1>11
  <2> QED  BY <2>1, <2>2 DEF e, available
<1>12. CASE available >= Len(e)
  <2>1. available >= 5 /\ available >= 2 /\ n = Len(e) /\ ~(available < n)
        /\ PayloadLength(r) = PayloadLength(e)
    BY <1>4, <1>5, <1>9, <1>12
  <2>2. SubSeq(r, 1, n) = e
    <3> DEFINE c == SubSeq(r, 1, n)
    <3>1. /\ c \in Seq(Bytes) /\ Len(c) = n - 1 + 1
          /\ \A i \in 1 .. n - 1 + 1 : c[i] = r[1 + i - 1]
      <4>1. 1 \in Nat /\ n \in Nat /\ 1 <= 1 /\ 1 <= n + 1 /\ n <= Len(r)
        BY <1>4, <1>5, <2>1
      <4> QED  BY <1>5, <4>1, PartFacts
    <3> HIDE DEF c
    <3>2. \A i \in 1 .. n : c[i] = e[i]
      <4> TAKE i \in 1 .. n
      <4>1. i \in 1 .. n - 1 + 1 /\ 1 + i - 1 = i /\ i \in 1 .. Len(e) /\ i <= available
        BY <1>4, <1>5, <2>1
      <4> QED  BY <1>6, <3>1, <4>1
    <3>3. Len(c) = Len(e) /\ \A i \in 1 .. Len(c) : c[i] = e[i]
      BY <1>4, <2>1, <3>1, <3>2
    <3>4. c = e
      BY <1>1, <3>1, <3>3, SeqEqual
    <3> QED  BY <3>4 DEF c
  <2>3. Verdict(s, p) = "OK"
    <3>1. ~(available < 2) /\ ~(available < HeaderSize)
      BY <1>4, <1>5, <2>1
    <3> QED  BY <1>2, <1>3, <1>7, <1>10, <2>1, <2>2, <3>1
  <2>4. FrameAt(s, p) = frame /\ SizeAt(s, p) = Len(e)
    BY <1>2, <1>8, <2>1, <2>2
  <2>5. ~(Len(e) > available)
    BY <1>4, <1>5, <1>12
  <2> QED  BY <2>3, <2>4, <2>5 DEF e, available
<1> QED  BY <1>4, <1>5, <1>11, <1>12

Clean == faults = 0 /\ \A i \in 1 .. Len(sent) : sent[i].kind \in Kinds

\* off[i]: how many bytes the first i frames take.
Layout(off) ==
    /\ off \in [0 .. Len(sent) -> Nat] /\ off[0] = 0
    /\ \A i \in 1 .. Len(sent) : off[i] = off[i - 1] + Len(Encode(sent[i]))
    /\ \A i, j \in 0 .. Len(sent) : i < j => off[i] < off[j]
    /\ off[Len(sent)] = Len(stream) + Len(wire)
    /\ \A i \in 1 .. Len(sent) : \A j \in 1 .. Len(Encode(sent[i])) :
          (stream \o wire)[off[i - 1] + j] = Encode(sent[i])[j]
    /\ off[Len(delivered)] = consumed

InOrder ==
    /\ Len(delivered) <= Len(sent)
    /\ \A i \in 1 .. Len(delivered) : delivered[i] = sent[i]
    /\ stats.discarded_bytes = 0
    /\ wire = << >> /\ result = "NEED_MORE_DATA" => Len(delivered) = Len(sent)

Lossless ==
    /\ sent \in Seq(SentFrames)
    /\ Clean => InOrder /\ \E off : Layout(off)

LEMMA EncodedSent ==
    ASSUME sent \in Seq(SentFrames), NEW i \in 1 .. Len(sent)
    PROVE  /\ Encode(sent[i]) \in Seq(Bytes) /\ Len(Encode(sent[i])) \in Nat
           /\ Len(Encode(sent[i])) >= 7
           /\ sent[i].kind \in Kinds => sent[i] \in Frames
<1>1. sent[i] \in SentFrames
  BY ElementOfSeq
<1>2. sent[i] \in [kind : Bytes, payload : Payloads(MaxPayload)]
  BY <1>1, SentAssumption
<1>3. Encode(sent[i]) \in Seq(Bytes) /\ Len(Encode(sent[i])) = 7 + Len(sent[i].payload)
      /\ Len(sent[i].payload) \in Nat
  BY <1>2, EncodeShape, CoveredShape DEF MinEncodedSize, HeaderSize, CheckSize
<1>4. sent[i].kind \in Kinds => sent[i] \in Frames
  BY <1>2 DEF Frames
<1> QED  BY <1>3, <1>4

\* The bytes at the front of the ring are those of the frame to deliver next.
LEMMA NextOnLine ==
    ASSUME TypeOK, Lossless, Clean, consumed < Len(stream), NEW off, Layout(off)
    PROVE  /\ Len(delivered) + 1 \in 1 .. Len(sent)
           /\ sent[Len(delivered) + 1] \in Frames
           /\ LET e == Encode(sent[Len(delivered) + 1])
              IN  /\ off[Len(delivered) + 1] = consumed + Len(e)
                  /\ consumed + Len(e) <= Len(stream) + Len(wire)
                  /\ Len(e) <= Len(stream) - consumed =>
                        /\ Verdict(stream, consumed + 1) = "OK"
                        /\ FrameAt(stream, consumed + 1) = sent[Len(delivered) + 1]
                        /\ SizeAt(stream, consumed + 1) = Len(e)
                  /\ Len(e) > Len(stream) - consumed =>
                        Verdict(stream, consumed + 1) = "PARTIAL"
<1> DEFINE k == Len(delivered) + 1
           N == Len(sent)
           p == consumed + 1
           e == Encode(sent[k])
<1>1. /\ stream \in Seq(Bytes) /\ wire \in Seq(Bytes) /\ Len(stream) \in Nat /\ Len(wire) \in Nat
      /\ consumed \in Nat /\ sent \in Seq(SentFrames) /\ N \in Nat /\ Len(delivered) \in Nat
  BY TypeFacts DEF Lossless
<1>2. Len(delivered) <= N
  BY DEF Lossless, InOrder
<1>3. off[Len(delivered)] = consumed /\ off[N] = Len(stream) + Len(wire)
  BY DEF Layout
<1>4. Len(delivered) # N
  BY <1>1, <1>3
<1>5. k \in 1 .. N /\ k - 1 = Len(delivered) /\ k \in 0 .. N
  BY <1>1, <1>2, <1>4
<1>6. e \in Seq(Bytes) /\ Len(e) \in Nat /\ Len(e) >= 7 /\ sent[k] \in Frames
  BY <1>1, <1>5, EncodedSent DEF Clean
<1> HIDE DEF k, e
<1>7. off[k] = consumed + Len(e)
  <2>1. off[k] = off[k - 1] + Len(Encode(sent[k]))
    BY <1>5 DEF Layout
  <2> QED  BY <1>3, <1>5, <2>1 DEF e
<1>8. off[k] <= off[N]
  <2>1. CASE k = N
    BY <1>1, <1>3, <2>1
  <2>2. CASE k # N
    <3>1. k \in 0 .. N /\ N \in 0 .. N /\ k < N
      BY <1>1, <1>5, <2>2
    <3>2. off[k] < off[N]
      BY <3>1 DEF Layout
    <3> QED  BY <1>1, <1>3, <1>6, <1>7, <3>2
  <2> QED  BY <2>1, <2>2
<1>9. \A j \in 1 .. Len(e) : j <= Len(stream) - p + 1 => stream[p + j - 1] = e[j]
  <2> SUFFICES ASSUME NEW j \in 1 .. Len(e), j <= Len(stream) - p + 1
               PROVE  stream[p + j - 1] = e[j]
    OBVIOUS
  <2>1. (stream \o wire)[off[k - 1] + j] = e[j]
    BY <1>5 DEF Layout, e
  <2> DEFINE i == consumed + j
  <2>2. off[k - 1] + j = i /\ p + j - 1 = i
    BY <1>1, <1>3, <1>5, <1>6
  <2>3. i \in 1 .. Len(stream) /\ i \in 1 .. Len(stream) + Len(wire) /\ i <= Len(stream)
    BY <1>1, <1>6
  <2> HIDE DEF i
  <2>4. (stream \o wire)[i] = stream[i]
    BY <1>1, <2>3, ConcatProperties
  <2> QED  BY <2>1, <2>2, <2>4
<1>10. p \in 1 .. Len(stream) /\ Len(stream) - p + 1 = Len(stream) - consumed
  BY <1>1
<1>11. /\ Len(e) <= Len(stream) - p + 1 =>
             Verdict(stream, p) = "OK" /\ FrameAt(stream, p) = sent[k] /\ SizeAt(stream, p) = Len(e)
       /\ Len(e) > Len(stream) - p + 1 => Verdict(stream, p) = "PARTIAL"
  <2>1. \A j \in 1 .. Len(Encode(sent[k])) :
           j <= Len(stream) - p + 1 => stream[p + j - 1] = Encode(sent[k])[j]
    BY <1>9 DEF e
  <2> HIDE DEF p
  <2> QED  BY <1>1, <1>6, <1>10, <2>1, FrameOnLine DEF e
<1> QED  BY <1>3, <1>5, <1>6, <1>7, <1>8, <1>10, <1>11 DEF k, e

\* So no byte is dropped: a call stops where it starts.
LEMMA NothingDropped ==
    ASSUME TypeOK, Lossless, Clean, NEW off, Layout(off),
           NEW stop \in consumed + 1 .. Len(stream) + 1, Skips(stop)
    PROVE  stop = consumed + 1
<1>1. Len(stream) \in Nat /\ consumed \in 0 .. Len(stream)
  BY TypeFacts
<1>2. CASE consumed = Len(stream)
  BY <1>1, <1>2
<1>3. CASE consumed < Len(stream)
  <2> SUFFICES ASSUME stop > consumed + 1 PROVE FALSE
    BY <1>1
  <2>1. consumed + 1 \in consumed + 1 .. stop - 1
    BY <1>1
  <2>2. Verdict(stream, consumed + 1) \notin {"PARTIAL", "OK"}
    BY <2>1 DEF Skips, Ends
  <2> DEFINE e == Encode(sent[Len(delivered) + 1])
  <2>3. Len(e) \in Nat
    BY <1>3, NextOnLine, EncodedSent DEF Lossless
  <2>4. Len(e) <= Len(stream) - consumed \/ Len(e) > Len(stream) - consumed
    BY <1>1, <2>3
  <2> QED  BY <1>3, <2>2, <2>4, NextOnLine
<1> QED  BY <1>1, <1>2, <1>3

LEMMA SendLossless ==
    ASSUME TypeOK, Lossless, NEW frame \in SentFrames, Send(frame)
    PROVE  Lossless'
<1> DEFINE N == Len(sent)
           code == Encode(frame)
           line == stream \o wire
<1>1. /\ stream \in Seq(Bytes) /\ wire \in Seq(Bytes) /\ Len(stream) \in Nat /\ Len(wire) \in Nat
      /\ sent \in Seq(SentFrames) /\ N \in Nat /\ Len(delivered) \in Nat /\ consumed \in Nat
  BY TypeFacts DEF Lossless
<1>2. /\ sent' = Append(sent, frame) /\ wire' = wire \o code
      /\ UNCHANGED <<stream, consumed, stats, result, delivered, faults>>
  BY DEF Send
<1>3. /\ sent' \in Seq(SentFrames) /\ Len(sent') = N + 1 /\ sent'[N + 1] = frame
      /\ \A i \in 1 .. N : sent'[i] = sent[i]
  BY <1>1, <1>2, AppendProperties
<1>4. code \in Seq(Bytes) /\ Len(code) \in Nat /\ Len(code) >= 7
  <2>1. N + 1 \in 1 .. Len(sent')
    BY <1>1, <1>3
  <2>2. frame \in [kind : Bytes, payload : Payloads(MaxPayload)]
    BY SentAssumption
  <2>3. code \in Seq(Bytes) /\ Len(code) = 7 + Len(frame.payload) /\ Len(frame.payload) \in Nat
    BY <2>2, EncodeShape, CoveredShape DEF MinEncodedSize, HeaderSize, CheckSize
  <2> HIDE DEF code
  <2> QED  BY <2>3
<1> HIDE DEF code
<1>5. wire' \in Seq(Bytes) /\ Len(wire') = Len(wire) + Len(code) /\ wire' # << >>
  <2>1. wire' \in Seq(Bytes) /\ Len(wire') = Len(wire) + Len(code)
    BY <1>1, <1>2, <1>4, ConcatProperties
  <2>2. Len(wire') # 0
    BY <1>1, <1>4, <2>1
  <2> QED  BY <2>1, <2>2, EmptySeq
<1>6. ASSUME Clean' PROVE Clean
  <2>1. ASSUME NEW i \in 1 .. N PROVE sent[i].kind \in Kinds
    <3>1. i \in 1 .. Len(sent') /\ sent'[i] = sent[i]
      BY <1>1, <1>3
    <3> QED  BY <1>6, <3>1 DEF Clean
  <2>2. faults = 0
    BY <1>2, <1>6 DEF Clean
  <2> QED  BY <2>1, <2>2 DEF Clean
<1>7. ASSUME Clean' PROVE InOrder'
  <2>1. InOrder
    BY <1>6, <1>7 DEF Lossless
  <2>2. \A i \in 1 .. Len(delivered) : i \in 1 .. N
    BY <1>1, <2>1 DEF InOrder
  <2> QED  BY <1>1, <1>2, <1>3, <1>5, <2>1, <2>2 DEF InOrder
<1>8. ASSUME Clean' PROVE \E off : Layout(off)'
  <2>1. PICK off : Layout(off)
    BY <1>6, <1>8 DEF Lossless
  <2>2. Len(delivered) <= N
    BY <1>6, <1>8 DEF Lossless, InOrder
  <2>3. PICK more : more = [i \in 0 .. N + 1 |-> IF i <= N THEN off[i] ELSE off[N] + Len(code)]
    OBVIOUS
  <2>4. /\ off \in [0 .. N -> Nat] /\ off[0] = 0 /\ off[N] = Len(stream) + Len(wire)
        /\ \A i \in 1 .. N : off[i] = off[i - 1] + Len(Encode(sent[i]))
        /\ \A i, j \in 0 .. N : i < j => off[i] < off[j]
        /\ off[Len(delivered)] = consumed
    BY <2>1 DEF Layout
  <2>5. /\ \A i \in 0 .. N : more[i] = off[i]
        /\ more[N + 1] = off[N] + Len(code)
        /\ more \in [0 .. N + 1 -> Nat]
    <3>1. \A i \in 0 .. N + 1 : i <= N => i \in 0 .. N
      BY <1>1
    <3>2. \A i \in 0 .. N : off[i] \in Nat
      BY <2>4
    <3>3. off[N] \in Nat
      BY <1>1, <2>4
    <3>4. \A i \in 0 .. N + 1 : (IF i <= N THEN off[i] ELSE off[N] + Len(code)) \in Nat
      BY <1>4, <3>1, <3>2, <3>3
    <3> QED  BY <1>1, <2>3, <3>4
  <2>6. more[0] = 0
    BY <1>1, <2>4, <2>5
  <2>7. ASSUME NEW i \in 1 .. N + 1 PROVE more[i] = more[i - 1] + Len(Encode(sent'[i]))
    <3>1. CASE i \in 1 .. N
      <4>1. i \in 0 .. N /\ i - 1 \in 0 .. N
        BY <1>1, <3>1
      <4> QED  BY <1>3, <2>4, <2>5, <3>1, <4>1
    <3>2. CASE i = N + 1
      <4>1. i - 1 = N /\ N \in 0 .. N
        BY <1>1, <3>2
      <4> QED  BY <1>3, <2>5, <3>2, <4>1 DEF code
    <3> QED  BY <1>1, <3>1, <3>2
  <2>8. ASSUME NEW i \in 0 .. N + 1, NEW j \in 0 .. N + 1, i < j PROVE more[i] < more[j]
    <3>1. CASE j \in 0 .. N
      <4>1. i \in 0 .. N
        BY <1>1, <2>8, <3>1
      <4> QED  BY <2>4, <2>5, <2>8, <3>1, <4>1
    <3>2. CASE j = N + 1
      <4>1. i \in 0 .. N /\ N \in 0 .. N
        BY <1>1, <2>8, <3>2
      <4>2. off[i] \in Nat /\ off[N] \in Nat /\ (i = N \/ off[i] < off[N])
        BY <1>1, <2>4, <4>1
      <4> QED  BY <1>4, <2>5, <3>2, <4>1, <4>2
    <3> QED  BY <1>1, <3>1, <3>2
  <2>9. more[N + 1] = Len(stream') + Len(wire')
    BY <1>1, <1>2, <1>4, <1>5, <2>4, <2>5
  <2>10. ASSUME NEW i \in 1 .. N + 1, NEW j \in 1 .. Len(Encode(sent'[i]))
        PROVE  (stream' \o wire')[more[i - 1] + j] = Encode(sent'[i])[j]
    <3> DEFINE at == more[i - 1] + j
    <3>1. line \in Seq(Bytes) /\ Len(line) = Len(stream) + Len(wire)
      BY <1>1, ConcatProperties
    <3>2. stream' \o wire' = line \o code
      <4>1. /\ stream \o (wire \o code) \in Seq(Bytes)
            /\ (stream \o wire) \o code \in Seq(Bytes)
            /\ Len(stream \o (wire \o code)) = Len((stream \o wire) \o code)
            /\ \A m \in 1 .. Len(stream \o (wire \o code)) :
                  (stream \o (wire \o code))[m] = ((stream \o wire) \o code)[m]
        BY <1>1, <1>4, ConcatProperties
      <4>2. stream \o (wire \o code) = (stream \o wire) \o code
        BY <4>1, SeqEqual
      <4> QED  BY <1>2, <4>2
    <3> HIDE DEF line
    <3>3. \A m \in 1 .. Len(line) + Len(code) :
             (line \o code)[m] = IF m <= Len(line) THEN line[m] ELSE code[m - Len(line)]
      BY <1>4, <3>1, ConcatProperties
    <3>4. CASE i \in 1 .. N
      <4>1. i - 1 \in 0 .. N /\ i \in 0 .. N /\ sent'[i] = sent[i] /\ N \in 0 .. N
        BY <1>1, <1>3, <3>4
      <4>2. line[off[i - 1] + j] = Encode(sent[i])[j]
        BY <2>1, <3>4, <4>1 DEF Layout, line
      <4>3. Len(Encode(sent[i])) \in Nat
        BY <1>1, <3>4, EncodedSent
      <4>4. off[i - 1] \in Nat /\ off[i] \in Nat /\ off[N] \in Nat
            /\ off[i] = off[i - 1] + Len(Encode(sent[i]))
        BY <2>4, <3>4, <4>1
      <4>5. off[i] <= off[N]
        <5>1. CASE i = N
          BY <4>4, <5>1
        <5>2. CASE i < N
          <6>1. off[i] < off[N]
            BY <2>4, <4>1, <5>2
          <6> QED  BY <4>4, <6>1
        <5>3. i = N \/ i < N
          BY <1>1, <3>4
        <5> QED  BY <5>1, <5>2, <5>3
      <4>6. at = off[i - 1] + j
        BY <2>5, <4>1
      <4>7. at \in 1 .. Len(line) + Len(code) /\ at <= Len(line)
        <5> DEFINE a == off[i - 1]
                   c == Len(Encode(sent[i]))
                   b == off[N]
        <5>1. a \in Nat /\ c \in Nat /\ a + c <= b /\ at = a + j /\ b = Len(line)
          BY <2>4, <3>1, <4>3, <4>6, <4>4, <4>5
        <5>2. j \in 1 .. c
          BY <4>1
        <5> HIDE DEF a, b, c, at
        <5> QED  BY <1>1, <1>4, <3>1, <5>1, <5>2
      <4> HIDE DEF at
      <4>8. (line \o code)[at] = line[at]
        BY <3>3, <4>7
      <4> QED  BY <3>2, <4>1, <4>2, <4>6, <4>8 DEF at
    <3>5. CASE i = N + 1
      <4>1. i - 1 = N /\ N \in 0 .. N /\ sent'[i] = frame
        BY <1>1, <1>3, <3>5
      <4>2. at = Len(line) + j /\ j \in 1 .. Len(code)
        BY <2>4, <2>5, <3>1, <4>1 DEF code
      <4>3. at \in 1 .. Len(line) + Len(code) /\ ~(at <= Len(line)) /\ at - Len(line) = j
        BY <1>1, <1>4, <3>1, <4>2
      <4> HIDE DEF at
      <4>4. (line \o code)[at] = code[j]
        BY <3>3, <4>3
      <4> QED  BY <3>2, <4>1, <4>4 DEF at, code
    <3>6. i \in 1 .. N \/ i = N + 1
      BY <1>1
    <3> HIDE DEF at
    <3> QED  BY <3>4, <3>5, <3>6
  <2>11. more[Len(delivered)] = consumed
    BY <1>1, <2>2, <2>4, <2>5
  <2>12. Layout(more)'
    <3>1. Len(sent') = N + 1 /\ delivered' = delivered /\ consumed' = consumed
      BY <1>2, <1>3
    <3>2. \A i \in 1 .. N + 1 : \A j \in 1 .. Len(Encode(sent'[i])) :
             (stream' \o wire')[more[i - 1] + j] = Encode(sent'[i])[j]
      BY <2>10
    <3>3. \A i \in 1 .. N + 1 : more[i] = more[i - 1] + Len(Encode(sent'[i]))
      BY <2>7
    <3>4. \A i, j \in 0 .. N + 1 : i < j => more[i] < more[j]
      BY <2>8
    <3>5. more \in [0 .. Len(sent') -> Nat] /\ more[Len(sent')] = Len(stream') + Len(wire')
          /\ more[Len(delivered')] = consumed'
      BY <2>5, <2>9, <2>11, <3>1
    <3>6. \A i \in 1 .. Len(sent') : more[i] = more[i - 1] + Len(Encode(sent'[i]))
      BY <3>1, <3>3
    <3>7. \A i, j \in 0 .. Len(sent') : i < j => more[i] < more[j]
      BY <3>1, <3>4
    <3>8. \A i \in 1 .. Len(sent') : \A j \in 1 .. Len(Encode(sent'[i])) :
             (stream' \o wire')[more[i - 1] + j] = Encode(sent'[i])[j]
      BY <3>1, <3>2
    <3> QED  BY <2>6, <3>5, <3>6, <3>7, <3>8 DEF Layout
  <2> QED  BY <2>12
<1> QED  BY <1>3, <1>7, <1>8 DEF Lossless

LEMMA ReceiveLossless ==
    ASSUME TypeOK, Lossless, NEW n \in 1 .. Len(wire), Receive(n)
    PROVE  Lossless'
<1> DEFINE t == SubSeq(wire, 1, n)
           u == SubSeq(wire, n + 1, Len(wire))
<1>1. /\ stream \in Seq(Bytes) /\ wire \in Seq(Bytes) /\ Len(stream) \in Nat /\ Len(wire) \in Nat
  BY TypeFacts
<1>2. /\ stream' = stream \o t /\ wire' = u /\ result' = "NONE"
      /\ UNCHANGED <<consumed, stats, sent, delivered, faults>>
  BY DEF Receive
<1>3. /\ t \in Seq(Bytes) /\ Len(t) = n /\ \A i \in 1 .. n : t[i] = wire[i]
  <2>1. 1 \in Nat /\ n \in Nat /\ 1 <= 1 /\ 1 <= n + 1 /\ n <= Len(wire)
    BY <1>1
  <2>2. /\ t \in Seq(Bytes) /\ Len(t) = n - 1 + 1 /\ \A i \in 1 .. n - 1 + 1 : t[i] = wire[1 + i - 1]
    BY <1>1, <2>1, PartFacts
  <2> HIDE DEF t
  <2>3. n - 1 + 1 = n /\ \A i \in Int : 1 + i - 1 = i
    BY <2>1
  <2> QED  BY <2>2, <2>3
<1>4. /\ u \in Seq(Bytes) /\ Len(u) = Len(wire) - n /\ \A i \in 1 .. Len(wire) - n : u[i] = wire[n + i]
  <2> DEFINE a == n + 1
             b == Len(wire)
  <2>1. a \in Nat /\ b \in Nat /\ 1 <= a /\ a <= b + 1 /\ b <= Len(wire)
    BY <1>1
  <2>2. b - a + 1 = Len(wire) - n /\ \A i \in Int : a + i - 1 = n + i
    BY <1>1
  <2>3. u = SubSeq(wire, a, b)
    OBVIOUS
  <2> HIDE DEF a, b, u
  <2>4. /\ u \in Seq(Bytes) /\ Len(u) = b - a + 1 /\ \A i \in 1 .. b - a + 1 : u[i] = wire[a + i - 1]
    BY <1>1, <2>1, <2>3, PartFacts
  <2>5. Len(u) = Len(wire) - n
    BY <2>2, <2>4
  <2>6. ASSUME NEW i \in 1 .. Len(wire) - n PROVE u[i] = wire[n + i]
    <3>1. i \in 1 .. b - a + 1 /\ a + i - 1 = n + i
      BY <2>2
    <3> QED  BY <2>4, <3>1
  <2> QED  BY <2>4, <2>5, <2>6
<1> HIDE DEF t, u
<1>5. stream' \o wire' = stream \o wire
  <2>1. /\ (stream \o t) \o u \in Seq(Bytes) /\ stream \o wire \in Seq(Bytes)
        /\ Len((stream \o t) \o u) = Len(stream \o wire)
        /\ \A m \in 1 .. Len((stream \o t) \o u) : ((stream \o t) \o u)[m] = (stream \o wire)[m]
    <3>1. /\ stream \o t \in Seq(Bytes) /\ Len(stream \o t) = Len(stream) + n
          /\ \A m \in 1 .. Len(stream) + n :
                (stream \o t)[m] = IF m <= Len(stream) THEN stream[m] ELSE t[m - Len(stream)]
      BY <1>1, <1>3, ConcatProperties
    <3> DEFINE v == stream \o t
    <3> HIDE DEF v
    <3>2. v \in Seq(Bytes) /\ Len(v) = Len(stream) + n
          /\ \A m \in 1 .. Len(stream) + n :
                v[m] = IF m <= Len(stream) THEN stream[m] ELSE t[m - Len(stream)]
      BY <3>1 DEF v
    <3>3. /\ v \o u \in Seq(Bytes) /\ Len(v \o u) = Len(stream) + Len(wire)
          /\ \A m \in 1 .. Len(stream) + Len(wire) :
                (v \o u)[m] = IF m <= Len(stream) + n THEN v[m] ELSE u[m - (Len(stream) + n)]
      <4>1. /\ v \o u \in Seq(Bytes) /\ Len(v \o u) = Len(v) + Len(u)
            /\ \A m \in 1 .. Len(v) + Len(u) :
                  (v \o u)[m] = IF m <= Len(v) THEN v[m] ELSE u[m - Len(v)]
        BY <1>4, <3>2, ConcatProperties
      <4>2. Len(v) + Len(u) = Len(stream) + Len(wire)
        BY <1>1, <1>4, <3>2
      <4> QED  BY <3>2, <4>1, <4>2
    <3>4. /\ stream \o wire \in Seq(Bytes) /\ Len(stream \o wire) = Len(stream) + Len(wire)
          /\ \A m \in 1 .. Len(stream) + Len(wire) :
                (stream \o wire)[m] = IF m <= Len(stream) THEN stream[m] ELSE wire[m - Len(stream)]
      BY <1>1, ConcatProperties
    <3>5. ASSUME NEW m \in 1 .. Len(stream) + Len(wire) PROVE (v \o u)[m] = (stream \o wire)[m]
      <4> DEFINE l == m - Len(stream)
      <4>1. CASE m <= Len(stream)
        <5>1. m <= Len(stream) + n /\ m \in 1 .. Len(stream) + n
          BY <1>1, <4>1
        <5> QED  BY <3>2, <3>3, <3>4, <4>1, <5>1
      <4>2. CASE m > Len(stream) /\ m <= Len(stream) + n
        <5>1. l \in 1 .. n /\ m \in 1 .. Len(stream) + n /\ ~(m <= Len(stream))
          BY <1>1, <4>2
        <5> QED  BY <1>3, <3>2, <3>3, <3>4, <4>2, <5>1
      <4>3. CASE m > Len(stream) + n
        <5> DEFINE o == m - (Len(stream) + n)
        <5>1. o \in 1 .. Len(wire) - n /\ l = n + o /\ ~(m <= Len(stream)) /\ ~(m <= Len(stream) + n)
          BY <1>1, <4>3
        <5>2. (v \o u)[m] = u[o] /\ (stream \o wire)[m] = wire[l]
          BY <3>3, <3>4, <5>1
        <5> HIDE DEF o, l
        <5> QED  BY <1>4, <5>1, <5>2
      <4>4. \/ m <= Len(stream)
            \/ m > Len(stream) /\ m <= Len(stream) + n
            \/ m > Len(stream) + n
        BY <1>1
      <4> HIDE DEF l
      <4> QED  BY <4>1, <4>2, <4>3, <4>4
    <3> QED  BY <3>3, <3>4, <3>5 DEF v
  <2>2. (stream \o t) \o u = stream \o wire
    BY <2>1, SeqEqual
  <2> QED  BY <1>2, <2>2
<1>6. Len(stream') + Len(wire') = Len(stream) + Len(wire)
  <2>1. Len(stream') = Len(stream) + n
    BY <1>1, <1>2, <1>3, ConcatProperties
  <2> QED  BY <1>1, <1>2, <1>4, <2>1
<1>7. ASSUME NEW off, Layout(off) PROVE Layout(off)'
  BY <1>2, <1>5, <1>6, <1>7 DEF Layout
<1> QED  BY <1>2, <1>7 DEF Lossless, Clean, InOrder

LEMMA NeedMoreDataLossless ==
    ASSUME IInv, Lossless, NEW stop \in consumed + 1 .. Len(stream) + 1, NEW counting \in BOOLEAN,
           NeedMoreData(stop, counting)
    PROVE  Lossless'
<1>1. /\ TypeOK /\ stream \in Seq(Bytes) /\ Len(stream) \in Nat /\ consumed \in 0 .. Len(stream)
      /\ stats \in StatsRecord /\ wire \in Seq(Bytes) /\ Len(delivered) \in Nat
      /\ Len(sent) \in Nat
  BY TypeFacts DEF IInv
<1>2. /\ Skips(stop)
      /\ stop <= Len(stream) => Verdict(stream, stop) = "PARTIAL"
      /\ consumed' = stop - 1 /\ UNCHANGED <<wire, stream, sent, delivered, faults>>
      /\ stats' = IF counting THEN Counted(stats, stop) ELSE stats
  BY DEF NeedMoreData
<1>3. Clean' <=> Clean
  BY <1>2 DEF Clean
<1>4. ASSUME Clean PROVE InOrder' /\ \E off : Layout(off)'
  <2>1. PICK off : Layout(off)
    BY <1>4 DEF Lossless
  <2>2. InOrder
    BY <1>4 DEF Lossless
  <2>3. stop = consumed + 1
    BY <1>1, <1>2, <1>4, <2>1, NothingDropped
  <2>4. Layout(off)'
    <3>1. consumed' = consumed
      BY <1>1, <1>2, <2>3
    <3> QED  BY <1>2, <2>1, <3>1 DEF Layout
  <2>5. stats'.discarded_bytes = 0
    <3>1. stats.discarded_bytes = 0
      BY <2>2 DEF InOrder
    <3>2. stop - 1 - consumed = 0 /\ Increased(0, 0) = 0
      BY <1>1, <2>3, MaxCountAssumption DEF Increased
    <3>3. Counted(stats, stop).discarded_bytes = Increased(stats.discarded_bytes, stop - 1 - consumed)
      BY <1>1 DEF Counted, StatsRecord
    <3> QED  BY <1>2, <3>1, <3>2, <3>3
  <2>6. ASSUME wire = << >> PROVE Len(delivered) = Len(sent)
    <3>1. Len(wire) = 0
      BY <2>6
    <3>2. CASE consumed = Len(stream)
      <4>1. off[Len(delivered)] = off[Len(sent)]
        BY <1>1, <2>1, <3>1, <3>2 DEF Layout
      <4>2. Len(delivered) <= Len(sent)
        BY <2>2 DEF InOrder
      <4>3. Len(delivered) \in 0 .. Len(sent) /\ Len(sent) \in 0 .. Len(sent)
        BY <1>1, <4>2
      <4>4. off[Len(sent)] \in Nat
        BY <2>1, <4>3 DEF Layout
      <4>5. ~(Len(delivered) < Len(sent))
        <5> SUFFICES ASSUME Len(delivered) < Len(sent) PROVE FALSE
          OBVIOUS
        <5>1. off[Len(delivered)] < off[Len(sent)]
          BY <2>1, <4>3 DEF Layout
        <5> QED  BY <4>1, <4>4, <5>1
      <4> QED  BY <1>1, <4>2, <4>5
    <3>3. CASE consumed < Len(stream)
      <4> DEFINE e == Encode(sent[Len(delivered) + 1])
      <4>1. consumed + Len(e) <= Len(stream) + Len(wire) /\ Len(e) \in Nat
        BY <1>1, <1>4, <2>1, <3>3, NextOnLine, EncodedSent DEF Lossless
      <4>2. Len(e) <= Len(stream) - consumed
        BY <1>1, <3>1, <4>1
      <4>3. Verdict(stream, stop) = "OK"
        BY <1>1, <1>4, <2>1, <2>3, <3>3, <4>2, NextOnLine
      <4> QED  BY <1>1, <1>2, <2>3, <3>3, <4>3
    <3> QED  BY <1>1, <3>2, <3>3
  <2>7. InOrder'
    BY <1>2, <2>2, <2>5, <2>6 DEF InOrder
  <2> QED  BY <2>4, <2>7
<1> QED  BY <1>2, <1>3, <1>4 DEF Lossless

LEMMA FrameReadyLossless ==
    ASSUME IInv, Lossless, NEW stop \in consumed + 1 .. Len(stream) + 1, NEW counting \in BOOLEAN,
           FrameReady(stop, counting)
    PROVE  Lossless'
<1>1. /\ TypeOK /\ stream \in Seq(Bytes) /\ Len(stream) \in Nat /\ consumed \in 0 .. Len(stream)
      /\ stats \in StatsRecord /\ delivered \in Seq(AnyFrame) /\ Len(delivered) \in Nat
  BY TypeFacts DEF IInv
<1>2. /\ Skips(stop) /\ stop <= Len(stream) /\ Verdict(stream, stop) = "OK"
      /\ consumed' = stop - 1 + SizeAt(stream, stop) /\ UNCHANGED <<wire, stream, sent, faults>>
      /\ delivered' = Append(delivered, FrameAt(stream, stop)) /\ result' = "FRAME_READY"
      /\ stats' = IF counting THEN [Counted(stats, stop) EXCEPT !.frames_ready = Increased(@, 1)]
                  ELSE stats
  BY DEF FrameReady
<1>3. Clean' <=> Clean
  BY <1>2 DEF Clean
<1>4. ASSUME Clean PROVE InOrder' /\ \E off : Layout(off)'
  <2> DEFINE k == Len(delivered)
             e == Encode(sent[k + 1])
  <2>1. PICK off : Layout(off)
    BY <1>4 DEF Lossless
  <2>2. InOrder
    BY <1>4 DEF Lossless
  <2>3. stop = consumed + 1 /\ consumed < Len(stream)
    BY <1>1, <1>2, <1>4, <2>1, NothingDropped
  <2>4. /\ k + 1 \in 1 .. Len(sent) /\ off[k + 1] = consumed + Len(e)
        /\ FrameAt(stream, stop) = sent[k + 1] /\ SizeAt(stream, stop) = Len(e)
        /\ Len(e) \in Nat
    <3>1. /\ k + 1 \in 1 .. Len(sent) /\ off[k + 1] = consumed + Len(e)
          /\ Len(e) <= Len(stream) - consumed =>
                FrameAt(stream, stop) = sent[k + 1] /\ SizeAt(stream, stop) = Len(e)
          /\ Len(e) > Len(stream) - consumed => Verdict(stream, stop) = "PARTIAL"
      BY <1>1, <1>4, <2>1, <2>3, NextOnLine
    <3>2. Len(e) \in Nat
      BY <3>1, EncodedSent DEF Lossless
    <3>3. Len(e) <= Len(stream) - consumed
      BY <1>1, <1>2, <3>1, <3>2
    <3> QED  BY <3>1, <3>2, <3>3
  <2> HIDE DEF e
  <2>5. consumed' = off[k + 1]
    BY <1>1, <1>2, <2>3, <2>4
  <2>6. /\ Len(delivered') = k + 1 /\ delivered'[k + 1] = sent[k + 1]
        /\ \A i \in 1 .. k : delivered'[i] = delivered[i]
    <3>1. FrameAt(stream, stop) \in AnyFrame
      BY <1>1, <1>2, <2>3, FrameType DEF AnyFrame
    <3> QED  BY <1>1, <1>2, <2>4, <3>1, AppendProperties
  <2>7. Layout(off)'
    BY <1>2, <2>1, <2>5, <2>6 DEF Layout
  <2>8. stats'.discarded_bytes = 0
    <3>1. stats.discarded_bytes = 0
      BY <2>2 DEF InOrder
    <3>2. stop - 1 - consumed = 0 /\ Increased(0, 0) = 0 /\ stop \in Nat /\ stop > consumed
      BY <1>1, <2>3, MaxCountAssumption DEF Increased
    <3>3. Counted(stats, stop).discarded_bytes = Increased(stats.discarded_bytes, stop - 1 - consumed)
      BY <1>1 DEF Counted, StatsRecord
    <3>4. Counted(stats, stop) \in StatsRecord
      BY <1>1, <3>2, CountedType
    <3> QED  BY <1>2, <3>1, <3>2, <3>3, <3>4 DEF StatsRecord
  <2>9. Len(delivered') <= Len(sent')
    BY <1>1, <1>2, <2>4, <2>6
  <2>10. \A i \in 1 .. k + 1 : delivered'[i] = sent[i]
    <3> TAKE i \in 1 .. k + 1
    <3>1. i \in 1 .. k \/ i = k + 1
      BY <1>1
    <3> QED  BY <2>2, <2>6, <3>1 DEF InOrder
  <2>11. InOrder'
    BY <1>2, <2>6, <2>8, <2>9, <2>10 DEF InOrder
  <2> QED  BY <2>7, <2>11
<1> QED  BY <1>2, <1>3, <1>4 DEF Lossless

LEMMA LosslessKept == IInv /\ Lossless /\ [Next]_vars => Lossless'
<1> SUFFICES ASSUME IInv, Lossless, [Next]_vars PROVE Lossless'
  OBVIOUS
<1>1. TypeOK /\ faults \in Nat
  BY TypeFacts DEF IInv
<1>2. CASE sent' = sent /\ faults' = faults + 1
  <2>1. ~Clean'
    BY <1>1, <1>2 DEF Clean
  <2> QED  BY <1>2, <2>1 DEF Lossless
<1>3. CASE StatsReset \/ UNCHANGED vars
  <2>1. /\ UNCHANGED <<wire, stream, consumed, result, sent, delivered, faults>>
        /\ stats' = stats \/ stats'.discarded_bytes = 0
    BY <1>3 DEF StatsReset, NoStats, vars
  <2>2. Clean' <=> Clean
    BY <2>1 DEF Clean
  <2>3. InOrder => InOrder'
    BY <2>1 DEF InOrder
  <2>4. \A off : Layout(off) => Layout(off)'
    BY <2>1 DEF Layout
  <2> QED  BY <2>1, <2>2, <2>3, <2>4 DEF Lossless
<1> QED
  BY <1>1, <1>2, <1>3, SendLossless, ReceiveLossless, NeedMoreDataLossless, FrameReadyLossless
  DEF Next, Lose, Noise

LEMMA InitLossless == Init => Lossless
<1> SUFFICES ASSUME Init PROVE Lossless
  OBVIOUS
<1>1. /\ Len(stream) = 0 /\ Len(wire) = 0 /\ Len(sent) = 0 /\ Len(delivered) = 0
      /\ consumed = 0 /\ sent \in Seq(SentFrames)
  BY EmptySeq DEF Init
<1>2. InOrder
  BY <1>1 DEF Init, InOrder, NoStats
<1> DEFINE off == [i \in 0 .. 0 |-> 0]
<1>3. Layout(off)
  BY <1>1 DEF Layout
<1> QED  BY <1>1, <1>2, <1>3 DEF Lossless

LEMMA InOrderIsLossless == TypeOK /\ Lossless => CleanLineIsLossless
<1> SUFFICES ASSUME TypeOK, Lossless, Clean
             PROVE  /\ delivered = SubSeq(sent, 1, Len(delivered)) /\ stats.discarded_bytes = 0
                    /\ wire = << >> /\ result = "NEED_MORE_DATA" => delivered = sent
  BY DEF CleanLineIsLossless, Clean
<1> DEFINE k == Len(delivered)
           part == SubSeq(sent, 1, k)
<1>1. /\ delivered \in Seq(AnyFrame) /\ sent \in Seq(AnyFrame) /\ k \in Nat /\ InOrder
      /\ k <= Len(sent)
  BY TypeFacts DEF Lossless, InOrder
<1>2. \A i \in 1 .. k : delivered[i] = sent[i]
  BY <1>1 DEF InOrder
<1>3. delivered = part
  <2>1. 1 \in Nat /\ 1 <= 1 /\ 1 <= k + 1
    BY <1>1
  <2> HIDE DEF k
  <2>2. /\ part \in Seq(AnyFrame) /\ Len(part) = k - 1 + 1
        /\ \A i \in 1 .. k - 1 + 1 : part[i] = sent[1 + i - 1]
    BY <1>1, <2>1, PartFacts
  <2> HIDE DEF part
  <2>3. k - 1 + 1 = k /\ \A i \in Int : 1 + i - 1 = i
    BY <1>1
  <2>4. Len(delivered) = Len(part) /\ \A i \in 1 .. Len(delivered) : delivered[i] = part[i]
    BY <1>2, <2>2, <2>3 DEF k
  <2> QED  BY <1>1, <2>2, <2>4, SeqEqual
<1>4. ASSUME wire = << >>, result = "NEED_MORE_DATA" PROVE delivered = sent
  <2>1. Len(delivered) = Len(sent)
    BY <1>1, <1>4 DEF InOrder
  <2> QED  BY <1>1, <1>2, <2>1, SeqEqual
<1> QED  BY <1>1, <1>3, <1>4 DEF InOrder

\* Over a line without faults, however it is cut into reads and whenever the
\* parser is called: the frames arrive unchanged, once and in order, nothing is
\* discarded, and a call that wants more has delivered all that has arrived.
THEOREM CleanLineSafe == Spec => []CleanLineIsLossless
<1>1. IInv /\ Lossless => CleanLineIsLossless
  BY InOrderIsLossless DEF IInv
<1> QED  BY <1>1, InitLossless, LosslessKept, InitSafe, StepSafe, PTL DEF Spec
================================================================================
