--------------------------- MODULE FrameCodecProofs ---------------------------
(***************************************************************************)
(* Proof that NanoWSD reads every frame that it writes, for every payload  *)
(* length that a Java array can have and every number of frames, and that  *)
(* it accepts no header of another implementation that it would write with *)
(* other bytes.                                                            *)
(***************************************************************************)
EXTENDS FrameCodec, SequenceTheorems, TLAPS

Mask(f) == IF f.masked THEN 4 ELSE 0
LengthSize(f) == IF f.len <= 125 THEN 1 ELSE IF f.len <= 65535 THEN 3 ELSE 9

(* A frame with any header at all, as a reader may get it.                 *)
AnyFrame == [op : OpCode, fin : BOOLEAN, masked : BOOLEAN, len : 0..MaxInt]

LEMMA MaxIntNat == MaxInt \in Nat
  BY SMT DEF MaxInt

LEMMA AnyFields ==
  ASSUME NEW f \in AnyFrame
  PROVE  /\ f.op \in OpCode /\ f.fin \in BOOLEAN /\ f.masked \in BOOLEAN
         /\ f.len \in Nat /\ f.len <= MaxInt
         /\ f = [op |-> f.op, fin |-> f.fin, masked |-> f.masked, len |-> f.len]
<1>1. f.op \in OpCode /\ f.fin \in BOOLEAN /\ f.masked \in BOOLEAN
  BY SMT DEF AnyFrame
<1>2. f = [op |-> f.op, fin |-> f.fin, masked |-> f.masked, len |-> f.len]
  BY SMT DEF AnyFrame
<1>3. f.len \in Nat /\ f.len <= MaxInt
  <2>. DEFINE n == f.len
  <2>1. n \in 0..MaxInt
    BY SMT DEF AnyFrame
  <2>. HIDE DEF n
  <2>2. n \in Nat /\ n <= MaxInt
    BY <2>1, MaxIntNat, SMT
  <2>. QED
    BY <2>2 DEF n
<1>. QED
  BY <1>1, <1>2, <1>3, SMT

LEMMA FrameIsAny ==
  ASSUME NEW f \in Frame
  PROVE  /\ f \in AnyFrame
         /\ f.op \in Control => f.fin /\ f.len <= 125 /\ (f.op = "Close" => f.len # 1)
<1>1. Length \subseteq 0..MaxInt
  BY CodecAssumption, SMT
<1>2. f \in [op : OpCode, fin : BOOLEAN, masked : BOOLEAN, len : Length]
      /\ (f.op \in Control => f.fin /\ f.len <= 125 /\ (f.op = "Close" => f.len # 1))
  BY Zenon DEF Frame
<1>3. [op : OpCode, fin : BOOLEAN, masked : BOOLEAN, len : Length] \subseteq AnyFrame
  <2>. DEFINE L == 0..MaxInt
  <2>1. Length \subseteq L
    BY <1>1
  <2>. HIDE DEF L
  <2>2. [op : OpCode, fin : BOOLEAN, masked : BOOLEAN, len : Length]
          \subseteq [op : OpCode, fin : BOOLEAN, masked : BOOLEAN, len : L]
    BY <2>1, SMT
  <2>. QED
    BY <2>2, SMT DEF L, AnyFrame
<1>. QED
  BY <1>2, <1>3, Zenon

LEMMA FrameFields ==
  ASSUME NEW f \in Frame
  PROVE  /\ f.op \in OpCode /\ f.fin \in BOOLEAN /\ f.masked \in BOOLEAN
         /\ f.len \in Nat /\ f.len <= MaxInt
         /\ f.op \in Control => f.fin /\ f.len <= 125 /\ (f.op = "Close" => f.len # 1)
         /\ f = [op |-> f.op, fin |-> f.fin, masked |-> f.masked, len |-> f.len]
  BY FrameIsAny, AnyFields

(* The bytes of a number, and the number they are put together to.         *)
LEMMA ShortBytes ==
  ASSUME NEW n \in Nat, n <= 65535
  PROVE  /\ ByteOf(n, 256) \in Byte /\ ByteOf(n, 1) \in Byte
         /\ (ByteOf(n, 256) * 256) + ByteOf(n, 1) = n
  BY SMT DEF ByteOf, Byte

LEMMA Split == ASSUME NEW n \in Nat
               PROVE  /\ n \div 256 \in Nat /\ n % 256 \in Byte
                      /\ n = (n \div 256) * 256 + (n % 256)
  BY SMT DEF Byte

LEMMA LongBytes ==
  ASSUME NEW n \in Nat, n <= MaxInt
  PROVE  /\ ByteOf(n, 16777216) \in 0..127 /\ ByteOf(n, 65536) \in Byte
         /\ ByteOf(n, 256) \in Byte /\ ByteOf(n, 1) \in Byte
         /\ ((ByteOf(n, 16777216) * 256 + ByteOf(n, 65536)) * 256 + ByteOf(n, 256)) * 256
              + ByteOf(n, 1) = n
         /\ n > 65535 => ByteOf(n, 16777216) # 0 \/ ByteOf(n, 65536) # 0
<1>. DEFINE a == n \div 256
            b == a \div 256
            c == b \div 256
<1>1. a \in Nat /\ n = a * 256 + (n % 256) /\ n % 256 \in Byte
  BY Split, SMT
<1>2. b \in Nat /\ a = b * 256 + (a % 256) /\ a % 256 \in Byte
  BY <1>1, Split, SMT
<1>3. c \in Nat /\ b = c * 256 + (b % 256) /\ b % 256 \in Byte
  BY <1>2, Split, SMT
<1>4. n \div 65536 = b
  BY <1>1, <1>2, SMT DEF Byte
<1>5. n \div 16777216 = c
  BY <1>1, <1>2, <1>3, SMT DEF Byte
<1>. HIDE DEF a, b, c
<1>6. c \in 0..127 /\ c % 256 = c
  BY <1>1, <1>2, <1>3, SMT DEF MaxInt, Byte
<1>7. n \div 256 = a /\ n \div 1 = n
  BY SMT DEF a
<1>8. /\ ByteOf(n, 16777216) = c /\ ByteOf(n, 65536) = b % 256
      /\ ByteOf(n, 256) = a % 256 /\ ByteOf(n, 1) = n % 256
  BY <1>4, <1>6, <1>5, <1>7, SMT DEF ByteOf
<1>. QED
  BY <1>1, <1>2, <1>3, <1>6, <1>8, SMT DEF Byte

LEMMA KeySeq == Key \in Seq(Byte) /\ Len(Key) = 4
<1>1. Key \in [1..4 -> Byte] /\ 4 \in Nat
  BY CodecAssumption, SMT
<1>2. Key \in Seq(Byte)
  <2>1. [1..4 -> Byte] \in {[1..n -> Byte] : n \in Nat}
    BY 4 \in Nat, Zenon
  <2>. QED
    BY <1>1, <2>1, SeqDef, Zenon
<1>3. Key \in [1..Len(Key) -> Byte] /\ Len(Key) \in Nat
  BY <1>2, LenProperties, SMT
<1>. QED
  BY <1>1, <1>2, <1>3, SMT

LEMMA HeadByte ==
  ASSUME NEW f \in AnyFrame
  PROVE  LET h == Bit(f.fin, 128) + OpValue[f.op]
         IN  /\ h \in Byte /\ (h >= 128 <=> f.fin)
             /\ (h \div 16) % 8 = 0 /\ h % 16 = OpValue[f.op]
<1>1. OpValue[f.op] \in 0..15
  BY AnyFields, SMT DEF OpValue, OpCode
<1>. DEFINE v == OpValue[f.op]
<1>. HIDE DEF v
<1>2. CASE f.fin
  BY <1>1, <1>2, SMT DEF Bit, Byte
<1>3. CASE ~f.fin
  BY <1>1, <1>3, SMT DEF Bit, Byte
<1>. QED
  BY <1>2, <1>3, AnyFields, SMT

LEMMA Parts ==
  ASSUME NEW S, NEW s \in Seq(S), NEW t \in Seq(S)
  PROVE  /\ s \o t \in Seq(S) /\ Len(s \o t) = Len(s) + Len(t)
         /\ Len(s) \in Nat /\ Len(t) \in Nat
         /\ \A i \in 1..Len(s) : (s \o t)[i] = s[i]
         /\ \A i \in 1..Len(t) : (s \o t)[Len(s) + i] = t[i]
<1>1. /\ s \o t \in Seq(S) /\ Len(s \o t) = Len(s) + Len(t)
      /\ Len(s) \in Nat /\ Len(t) \in Nat
      /\ \A i \in 1..(Len(s) + Len(t)) :
           (s \o t)[i] = IF i <= Len(s) THEN s[i] ELSE t[i - Len(s)]
  BY ConcatProperties, LenProperties, Zenon
<1>2. ASSUME NEW i \in 1..Len(s) PROVE (s \o t)[i] = s[i]
  <2>1. i \in 1..(Len(s) + Len(t)) /\ i <= Len(s)
    BY <1>1, SMT
  <2>. QED BY <1>1, <2>1, Zenon
<1>3. ASSUME NEW i \in 1..Len(t) PROVE (s \o t)[Len(s) + i] = t[i]
  <2>1. Len(s) + i \in 1..(Len(s) + Len(t)) /\ ~(Len(s) + i <= Len(s)) /\ (Len(s) + i) - Len(s) = i
    BY <1>1, SMT
  <2>2. (s \o t)[Len(s) + i] = t[(Len(s) + i) - Len(s)]
    BY <1>1, <2>1, Zenon
  <2>. QED BY <2>1, <2>2, Zenon
<1>. QED
  BY <1>1, <1>2, <1>3, Zenon

(* Where the bytes of a header are.                                        *)
Layout(n, mask, b) ==
  /\ b \in Seq(Byte)
  /\ n <= 125 => Len(b) = 1 /\ b[1] = mask + n
  /\ n > 125 /\ n <= 65535 =>
       Len(b) = 3 /\ b[1] = mask + 126 /\ b[2] = ByteOf(n, 256) /\ b[3] = ByteOf(n, 1)
  /\ n > 65535 =>
       /\ Len(b) = 9 /\ b[1] = mask + 127
       /\ b[2] = 0 /\ b[3] = 0 /\ b[4] = 0 /\ b[5] = 0
       /\ b[6] = ByteOf(n, 16777216) /\ b[7] = ByteOf(n, 65536)
       /\ b[8] = ByteOf(n, 256) /\ b[9] = ByteOf(n, 1)

LEMMA LengthBytesAt ==
  ASSUME NEW n \in Nat, n <= MaxInt, NEW mask \in {0, 128}
  PROVE  Layout(n, mask, LengthBytes(n, mask))
<1>. USE DEF Layout
<1>1. CASE n <= 125
  <2>1. LengthBytes(n, mask) = <<mask + n>> /\ mask + n \in Byte
    BY <1>1, SMT DEF LengthBytes, Byte
  <2>. QED
    BY <1>1, <2>1, SMT
<1>2. CASE n > 125 /\ n <= 65535
  <2>. DEFINE x == ByteOf(n, 256)
              y == ByteOf(n, 1)
  <2>1. LengthBytes(n, mask) = <<mask + 126, x, y>>
    BY <1>2, SMT DEF LengthBytes
  <2>2. mask + 126 \in Byte
    BY SMT DEF Byte
  <2>3. x \in Byte /\ y \in Byte
    BY <1>2, ShortBytes, SMT
  <2>. HIDE DEF x, y
  <2>4. LET b == LengthBytes(n, mask)
        IN  b \in Seq(Byte) /\ Len(b) = 3 /\ b[1] = mask + 126 /\ b[2] = x /\ b[3] = y
    BY <2>1, <2>2, <2>3, SMT
  <2>. QED
    BY <1>2, <2>4, SMT DEF x, y
<1>3. CASE n > 65535
  <2>. DEFINE w == ByteOf(n, 16777216)
              v == ByteOf(n, 65536)
              x == ByteOf(n, 256)
              y == ByteOf(n, 1)
  <2>1. LengthBytes(n, mask) = <<mask + 127, 0, 0, 0, 0, w, v, x, y>>
    BY <1>3, SMT DEF LengthBytes
  <2>2. mask + 127 \in Byte /\ 0 \in Byte
    BY SMT DEF Byte
  <2>3. w \in Byte /\ v \in Byte /\ x \in Byte /\ y \in Byte
    BY LongBytes, SMT DEF Byte
  <2>. HIDE DEF w, v, x, y
  <2>4. LET b == LengthBytes(n, mask)
        IN  /\ b \in Seq(Byte) /\ Len(b) = 9 /\ b[1] = mask + 127
            /\ b[2] = 0 /\ b[3] = 0 /\ b[4] = 0 /\ b[5] = 0
            /\ b[6] = w /\ b[7] = v /\ b[8] = x /\ b[9] = y
    BY <2>1, <2>2, <2>3, SMT
  <2>. QED
    BY <1>3, <2>4, SMT DEF w, v, x, y
<1>. QED
  BY <1>1, <1>2, <1>3, SMT

Size(f) == 1 + LengthSize(f) + Mask(f)

LEMMA HeaderAt ==
  ASSUME NEW f \in AnyFrame
  PROVE  LET h == Header(f)
             b == LengthBytes(f.len, Bit(f.masked, 128))
         IN  /\ h \in Seq(Byte) /\ Len(h) = Size(f)
             /\ h[1] = Bit(f.fin, 128) + OpValue[f.op]
             /\ Len(b) = LengthSize(f) /\ \A i \in 1..Len(b) : h[1 + i] = b[i]
             /\ f.masked => \A i \in 1..4 : h[1 + LengthSize(f) + i] = Key[i]
<1>. DEFINE key == IF f.masked THEN Key ELSE <<>>
            head == Bit(f.fin, 128) + OpValue[f.op]
            b == LengthBytes(f.len, Bit(f.masked, 128))
<1>1. head \in Byte
  BY HeadByte, SMT
<1>2. b \in Seq(Byte) /\ Len(b) = LengthSize(f)
  <2>1. Bit(f.masked, 128) \in {0, 128} /\ f.len \in Nat /\ f.len <= MaxInt
    BY AnyFields, SMT DEF Bit
  <2>. DEFINE n == f.len
              mask == Bit(f.masked, 128)
  <2>. HIDE DEF n, mask
  <2>2. n \in Nat /\ n <= MaxInt /\ mask \in {0, 128}
    BY <2>1 DEF n, mask
  <2>3. LengthBytes(n, mask) \in Seq(Byte) /\ Len(LengthBytes(n, mask)) =
          IF n <= 125 THEN 1 ELSE IF n <= 65535 THEN 3 ELSE 9
    BY <2>2, LengthBytesAt, SMT DEF Layout
  <2>. QED
    BY <2>3, SMT DEF LengthSize, n, mask
<1>3. key \in Seq(Byte) /\ Len(key) = Mask(f)
  <2>1. CASE f.masked
    BY <2>1, KeySeq, SMT DEF Mask
  <2>2. CASE ~f.masked
    BY <2>2, SMT DEF Mask
  <2>. QED
    BY <2>1, <2>2
<1>4. Header(f) = (<<head>> \o b) \o key
  BY SMT DEF Header
<1>5. LengthSize(f) \in Nat /\ Mask(f) \in Nat
  BY SMT DEF LengthSize, Mask
<1>. HIDE DEF key, head, b
<1>6. <<head>> \in Seq(Byte) /\ Len(<<head>>) = 1 /\ <<head>>[1] = head
  BY <1>1, SMT
<1>7. /\ <<head>> \o b \in Seq(Byte) /\ Len(<<head>> \o b) = 1 + LengthSize(f)
      /\ (<<head>> \o b)[1] = head
      /\ \A i \in 1..Len(b) : (<<head>> \o b)[1 + i] = b[i]
  BY <1>2, <1>5, <1>6, ConcatProperties, SMT
<1>. DEFINE front == <<head>> \o b
<1>. HIDE DEF front
<1>8. front \in Seq(Byte) /\ Len(front) = 1 + LengthSize(f)
  BY <1>7 DEF front
<1>9. /\ front \o key \in Seq(Byte) /\ Len(front \o key) = Len(front) + Len(key)
      /\ \A i \in 1..Len(front) : (front \o key)[i] = front[i]
  BY <1>3, <1>8, Parts, Zenon
<1>10. front[1] = head /\ \A i \in 1..Len(b) : front[1 + i] = b[i]
  BY <1>7 DEF front
<1>11. 1 \in 1..Len(front) /\ \A i \in 1..Len(b) : 1 + i \in 1..Len(front)
  BY <1>2, <1>5, <1>8, SMT
<1>12. /\ (front \o key)[1] = head
       /\ \A i \in 1..Len(b) : (front \o key)[1 + i] = b[i]
  BY <1>9, <1>10, <1>11, Zenon
<1>13. Len(front \o key) = 1 + LengthSize(f) + Mask(f)
  BY <1>3, <1>5, <1>8, <1>9, SMT
<1>14. Header(f) = front \o key
  BY <1>4 DEF front
<1>15. /\ Header(f) \in Seq(Byte) /\ Len(Header(f)) = 1 + LengthSize(f) + Mask(f)
       /\ Header(f)[1] = head
       /\ \A i \in 1..Len(b) : Header(f)[1 + i] = b[i]
  BY <1>9, <1>12, <1>13, <1>14, Zenon
<1>16. ASSUME f.masked PROVE \A i \in 1..4 : Header(f)[1 + LengthSize(f) + i] = Key[i]
  <2>1. key = Key /\ Len(key) = 4
    BY <1>16, KeySeq DEF key
  <2>2. \A i \in 1..Len(key) : (front \o key)[Len(front) + i] = key[i]
    BY <1>3, <1>8, Parts, SMT
  <2>. QED
    BY <1>8, <1>14, <2>1, <2>2, Zenon
<1>. QED
  BY <1>2, <1>15, <1>16 DEF Size, head, b

(* read undoes write.                                                      *)
LEMMA OpIsRead ==
  ASSUME NEW f \in Frame, NEW head, head = Bit(f.fin, 128) + OpValue[f.op]
  PROVE  HeadError(head) = "no" /\ OpOf(head) = f.op /\ (head >= 128 <=> f.fin)
<1>1. (head >= 128 <=> f.fin) /\ (head \div 16) % 8 = 0 /\ head % 16 = OpValue[f.op]
  BY HeadByte, FrameIsAny
<1>2. f.op \in OpCode /\ (f.op \in Control => f.fin)
  BY FrameFields, SMT
<1>3. \A o, p \in OpCode : OpValue[o] = OpValue[p] => o = p
  BY SMT DEF OpCode, OpValue
<1>4. HasOp(head)
  BY <1>1, <1>2, Zenon DEF HasOp
<1>5. OpOf(head) = f.op
  BY <1>1, <1>2, <1>3, Zenon DEF OpOf
<1>6. HeadError(head) = "no"
  <2>1. ~(OpOf(head) \in Control /\ head < 128)
    <3>1. head \in Byte
      BY HeadByte, FrameIsAny
    <3>. QED
      BY <1>1, <1>2, <1>5, <3>1, SMT DEF Byte
  <2>. QED
    BY <1>1, <1>4, <2>1, Zenon DEF HeadError
<1>. QED
  BY <1>1, <1>5, <1>6

LEMMA LengthIsRead ==
  ASSUME NEW n \in Nat, n <= MaxInt, NEW m \in BOOLEAN, NEW s \in Seq(Byte),
         Len(s) >= 1 + Len(LengthBytes(n, Bit(m, 128))),
         \A i \in 1..Len(LengthBytes(n, Bit(m, 128))) : s[1 + i] = LengthBytes(n, Bit(m, 128))[i]
  PROVE  /\ PayloadInfo(s) = [error |-> "no", len |-> n]
         /\ 1 + Extra(s[2]) = Len(LengthBytes(n, Bit(m, 128)))
         /\ s[2] >= 128 <=> m
<1>. DEFINE mask == Bit(m, 128)
            b == LengthBytes(n, mask)
<1>1. mask \in {0, 128} /\ (m => mask = 128) /\ (~m => mask = 0)
  BY SMT DEF Bit
<1>. HIDE DEF mask
<1>2. Layout(n, mask, b)
  BY <1>1, LengthBytesAt, Zenon
<1>. HIDE DEF b
<1>3. Len(s) >= 1 + Len(b) /\ \A i \in 1..Len(b) : s[1 + i] = b[i]
  BY DEF b, mask
<1>. DEFINE more == SubSeq(s, 3, 2 + Extra(s[2]))
<1>4. ASSUME NEW k \in Nat, Extra(s[2]) = k, 2 + k <= Len(s)
      PROVE  \A i \in 1..k : more[i] = s[2 + i]
  <2>1. \A i \in 3..(2 + k) : s[i] \in Byte
    BY <1>4, ElementOfSeq, LenProperties, SMT
  <2>2. \A i \in 1..(2 + k) - 3 + 1 : SubSeq(s, 3, 2 + k)[i] = s[3 + i - 1]
    BY <1>4, <2>1, SubSeqProperties, SMT
  <2>. QED
    BY <1>4, <2>2, SMT
<1>. HIDE DEF more
<1>5. CASE n <= 125
  <2>0. Len(b) = 1 /\ b[1] = mask + n
    BY <1>2, <1>5, SMT DEF Layout
  <2>1. s[2] = mask + n /\ Len(b) = 1
    BY <1>3, <2>0, SMT
  <2>2. Extra(s[2]) = 0 /\ s[2] % 128 = n
    BY <1>1, <1>5, <2>1, SMT DEF Extra
  <2>3. PayloadInfo(s) = [error |-> "no", len |-> n]
    BY <2>2, SMT DEF PayloadInfo
  <2>. QED
    <3>1. 1 + Extra(s[2]) = Len(b) /\ (s[2] >= 128 <=> m)
      BY <1>1, <1>5, <2>1, <2>2, SMT
    <3>. QED
      BY <2>3, <3>1, Zenon DEF b, mask
<1>6. CASE n > 125 /\ n <= 65535
  <2>1. /\ s[2] = mask + 126 /\ s[3] = ByteOf(n, 256) /\ s[4] = ByteOf(n, 1)
        /\ Len(b) = 3 /\ Len(s) >= 4
    <3>1. Len(b) = 3 /\ b[1] = mask + 126 /\ b[2] = ByteOf(n, 256) /\ b[3] = ByteOf(n, 1)
      BY <1>2, <1>6, SMT DEF Layout
    <3>2. s[2] = b[1] /\ s[3] = b[2] /\ s[4] = b[3] /\ Len(s) >= 4
      <4>1. Len(b) = 3
        BY <3>1
      <4>. QED
        BY <1>3, <4>1, SMT
    <3>. QED
      BY <3>1, <3>2, Zenon
  <2>2. Extra(s[2]) = 2
    BY <1>1, <2>1, SMT DEF Extra
  <2>3. more[1] = s[3] /\ more[2] = s[4]
    BY <1>4, <2>1, <2>2, SMT
  <2>4. (more[1] * 256) + more[2] = n
    BY <1>6, <2>1, <2>3, ShortBytes, SMT
  <2>5. ShortLength(more) = [error |-> "no", len |-> n]
    BY <1>6, <2>4, SMT DEF ShortLength
  <2>6. PayloadInfo(s) = ShortLength(more)
    BY <2>2, SMT DEF PayloadInfo, more
  <2>. QED
    <3>1. 1 + Extra(s[2]) = Len(b) /\ (s[2] >= 128 <=> m)
      BY <1>1, <2>1, <2>2, SMT
    <3>. QED
      BY <2>5, <2>6, <3>1, Zenon DEF b, mask
<1>7. CASE n > 65535
  <2>1. /\ s[2] = mask + 127 /\ s[3] = 0 /\ s[4] = 0 /\ s[5] = 0 /\ s[6] = 0
        /\ s[7] = ByteOf(n, 16777216) /\ s[8] = ByteOf(n, 65536)
        /\ s[9] = ByteOf(n, 256) /\ s[10] = ByteOf(n, 1)
        /\ Len(b) = 9 /\ Len(s) >= 10
    <3>1. /\ Len(b) = 9 /\ b[1] = mask + 127
          /\ b[2] = 0 /\ b[3] = 0 /\ b[4] = 0 /\ b[5] = 0
          /\ b[6] = ByteOf(n, 16777216) /\ b[7] = ByteOf(n, 65536)
          /\ b[8] = ByteOf(n, 256) /\ b[9] = ByteOf(n, 1)
      BY <1>2, <1>7, SMT DEF Layout
    <3>2. /\ s[2] = b[1] /\ s[3] = b[2] /\ s[4] = b[3] /\ s[5] = b[4] /\ s[6] = b[5]
          /\ s[7] = b[6] /\ s[8] = b[7] /\ s[9] = b[8] /\ s[10] = b[9] /\ Len(s) >= 10
      <4>1. Len(b) = 9
        BY <3>1, SMT
      <4>. QED
        BY <1>3, <4>1, SMT
    <3>. QED
      BY <3>1, <3>2, SMT
  <2>2. Extra(s[2]) = 8
    <3>1. s[2] = mask + 127
      BY <2>1, SMT
    <3>2. s[2] % 128 = 127
      BY <1>1, <3>1, SMT
    <3>. QED
      BY <3>2, SMT DEF Extra
  <2>3. \A i \in 1..8 : more[i] = s[2 + i]
    BY <1>4, <2>1, <2>2, SMT
  <2>4. /\ more[1] = s[3] /\ more[2] = s[4] /\ more[3] = s[5] /\ more[4] = s[6]
        /\ more[5] = s[7] /\ more[6] = s[8] /\ more[7] = s[9] /\ more[8] = s[10]
    BY <2>3, SMT
  <2>9. \A i \in 1..4 : more[i] = 0
    <3>1. more[1] = 0 /\ more[2] = 0 /\ more[3] = 0 /\ more[4] = 0
      BY <2>1, <2>4, SMT
    <3>. QED
      BY <3>1, SMT
  <2>5. /\ more[5] \in 0..127 /\ more[6] \in Byte
        /\ more[5] # 0 \/ more[6] # 0
        /\ Low(more) = n
    <3>1. /\ more[5] = ByteOf(n, 16777216) /\ more[6] = ByteOf(n, 65536)
          /\ more[7] = ByteOf(n, 256) /\ more[8] = ByteOf(n, 1)
      BY <2>1, <2>4, SMT
    <3>. QED
      BY <1>7, <3>1, LongBytes, SMT DEF Low
  <2>6. ~Negative(more) /\ ~Small(more) /\ ~Above31Bits(more)
    <3>1. more[1] = 0
      BY <2>9, SMT
    <3>2. ~(more[1] >= 128) /\ ~(more[5] >= 128)
      <4>1. ~(0 >= 128) /\ \A i \in 0..127 : ~(i >= 128)
        BY SMT
      <4>. QED
        BY <2>5, <3>1, <4>1, Zenon
    <3>3. 5 \in 1..6 /\ 6 \in 1..6
      BY SMT
    <3>. QED
      BY <2>5, <2>9, <3>2, <3>3, Zenon DEF Negative, Small, Above31Bits
  <2>7. LongLength(more) = [error |-> "no", len |-> n]
    BY <2>5, <2>6, Zenon DEF LongLength
  <2>8. PayloadInfo(s) = LongLength(more)
    BY <2>2, SMT DEF PayloadInfo, more
  <2>. QED
    <3>1. 1 + Extra(s[2]) = Len(b) /\ (s[2] >= 128 <=> m)
      <4>1. s[2] = mask + 127 /\ Len(b) = 9
        BY <2>1, SMT
      <4>. QED
        BY <1>1, <2>2, <4>1, SMT
    <3>. QED
      BY <2>7, <2>8, <3>1, Zenon DEF b, mask
<1>. QED
  <2>1. n <= 125 \/ (n > 125 /\ n <= 65535) \/ n > 65535
    BY SMT
  <2>. QED
    BY <1>5, <1>6, <1>7, <2>1, SMT

LEMMA HeaderIsRead ==
  ASSUME NEW f \in Frame, NEW s \in Seq(Byte), Len(s) >= Size(f),
         \A i \in 1..Size(f) : s[i] = Header(f)[i]
  PROVE  /\ Error(s) = "no" /\ Decoded(s) = f
         /\ HeaderLength(s) = Size(f)
<1>. DEFINE n == f.len
            b == LengthBytes(n, Bit(f.masked, 128))
<1>1. /\ f.op \in OpCode /\ f.masked \in BOOLEAN /\ f.fin \in BOOLEAN /\ n \in Nat /\ n <= MaxInt
      /\ f.op \in Control => f.fin /\ n <= 125 /\ (f.op = "Close" => n # 1)
      /\ f = [op |-> f.op, fin |-> f.fin, masked |-> f.masked, len |-> n]
  BY FrameFields
<1>2. /\ Header(f)[1] = Bit(f.fin, 128) + OpValue[f.op]
      /\ Len(b) = LengthSize(f) /\ \A i \in 1..Len(b) : Header(f)[1 + i] = b[i]
  BY HeaderAt, FrameIsAny
<1>. HIDE DEF b, n
<1>3. LengthSize(f) \in Nat /\ Mask(f) \in Nat /\ Size(f) = 1 + LengthSize(f) + Mask(f)
  BY SMT DEF LengthSize, Mask, Size
<1>4. 1 \in 1..Size(f) /\ Len(s) >= 1 + Len(b)
      /\ \A i \in 1..Len(b) : 1 + i \in 1..Size(f)
  BY <1>2, <1>3, LenProperties, SMT
<1>5. s[1] = Bit(f.fin, 128) + OpValue[f.op] /\ \A i \in 1..Len(b) : s[1 + i] = b[i]
  BY <1>2, <1>4, Zenon
<1>6. HeadError(s[1]) = "no" /\ OpOf(s[1]) = f.op /\ (s[1] >= 128 <=> f.fin)
  BY <1>5, OpIsRead, Zenon
<1>7. /\ PayloadInfo(s) = [error |-> "no", len |-> n]
      /\ 1 + Extra(s[2]) = Len(b)
      /\ s[2] >= 128 <=> f.masked
  <2>1. Len(s) >= 1 + Len(b) /\ \A i \in 1..Len(b) : s[1 + i] = b[i]
    BY <1>4, <1>5
  <2>. QED
    BY <1>1, <2>1, LengthIsRead DEF b
<1>8. ControlError(f.op, n) = "no"
  <2>1. ~(f.op \in Control /\ n > 125)
    <3>1. n <= 125 => ~(n > 125)
      BY <1>1, SMT
    <3>. QED
      BY <1>1, <3>1, Zenon
  <2>. QED
    BY <1>1, <2>1, Zenon DEF ControlError, Control
<1>9. PayloadInfo(s).error = "no" /\ PayloadInfo(s).len = n
  BY <1>7, SMT
<1>10. Error(s) = "no"
  BY <1>6, <1>8, <1>9, Zenon DEF Error
<1>11. Decoded(s) = f
  <2>1. (s[1] >= 128) = f.fin /\ (s[2] >= 128) = f.masked
    BY <1>1, <1>6, <1>7, SMT
  <2>. QED
    BY <1>1, <1>6, <1>9, <2>1, Zenon DEF Decoded
<1>12. HeaderLength(s) = Size(f)
  <2>1. Extra(s[2]) \in Int
    BY SMT DEF Extra
  <2>2. 2 + Extra(s[2]) = 1 + LengthSize(f)
    BY <1>2, <1>3, <1>7, <2>1, SMT
  <2>3. (IF s[2] >= 128 THEN 4 ELSE 0) = Mask(f)
    BY <1>7, Zenon DEF Mask
  <2>. QED
    BY <1>3, <2>2, <2>3, Zenon DEF HeaderLength
<1>. QED
  BY <1>10, <1>11, <1>12

-----------------------------------------------------------------------------
(* The stream as headers in a row.                                         *)

(* Where each of the frames of w after the first g ends in the stream s.   *)
FrameAt(f, s, from, to) ==
  /\ to = from + Size(f)
  /\ \A j \in 1..Size(f) : s[from + j] = Header(f)[j]

Cuts(cut, s, w, g) ==
  /\ cut \in [g..Len(w) -> Nat]
  /\ cut[g] = 0 /\ cut[Len(w)] = Len(s)
  /\ \A i, j \in g..Len(w) : i <= j => cut[i] <= cut[j]
  /\ \A i \in (g + 1)..Len(w) : FrameAt(w[i], s, cut[i - 1], cut[i])

LEMMA SizeNat == ASSUME NEW f PROVE Size(f) \in Nat \ {0}
  BY SMT DEF Size, LengthSize, Mask

LEMMA WriteCuts ==
  ASSUME NEW f \in Frame, NEW s \in Seq(Byte), NEW w \in Seq(Frame),
         NEW g \in 0..Len(w), NEW cut, Cuts(cut, s, w, g)
  PROVE  \E c : Cuts(c, s \o Header(f), Append(w, f), g)
<1>. DEFINE n == Len(w)
            h == Header(f)
            t == s \o h
            v == Append(w, f)
            c == [i \in g..(n + 1) |-> IF i <= n THEN cut[i] ELSE Len(s) + Size(f)]
<1>1. /\ n \in Nat /\ g \in 0..n /\ Len(v) = n + 1
      /\ (\A i \in 1..n : v[i] = w[i]) /\ v[n + 1] = f
  BY AppendProperties, LenProperties
<1>2. /\ h \in Seq(Byte) /\ Len(h) = Size(f) /\ Size(f) \in Nat
      /\ Len(t) = Len(s) + Size(f) /\ Len(s) \in Nat
      /\ (\A j \in 1..Len(s) : t[j] = s[j]) /\ \A j \in 1..Size(f) : t[Len(s) + j] = h[j]
  <2>1. h \in Seq(Byte) /\ Len(h) = Size(f)
    BY HeaderAt, FrameIsAny
  <2>2. Size(f) \in Nat
    BY SizeNat, SMT
  <2>. HIDE DEF h
  <2>3. /\ Len(s \o h) = Len(s) + Len(h) /\ Len(s) \in Nat
        /\ \A j \in 1..Len(s) : (s \o h)[j] = s[j]
    BY <2>1, Parts, Zenon
  <2>4. \A j \in 1..Len(h) : (s \o h)[Len(s) + j] = h[j]
    BY <2>1, Parts, SMT
  <2>. QED
    BY <2>1, <2>2, <2>3, <2>4, Zenon
<1>3. /\ cut \in [g..n -> Nat] /\ cut[g] = 0 /\ cut[n] = Len(s)
      /\ (\A i, j \in g..n : i <= j => cut[i] <= cut[j])
      /\ \A i \in (g + 1)..n : FrameAt(w[i], s, cut[i - 1], cut[i])
  BY DEF Cuts
<1>. HIDE DEF n, h, t, v
<1>4. c \in [g..(n + 1) -> Nat]
  BY <1>1, <1>2, <1>3, SMT
<1>5. c[n + 1] = Len(s) + Size(f) /\ \A i \in g..n : c[i] = cut[i]
  BY <1>1, SMT
<1>6. \A i, j \in g..(n + 1) : i <= j => c[i] <= c[j]
  <2>1. \A i \in g..n : cut[i] \in Nat /\ cut[i] <= Len(s)
    BY <1>1, <1>3, SMT
  <2>. QED
    BY <1>1, <1>2, <1>3, <1>5, <2>1, SMT
<1>. HIDE DEF c
<1>7. ASSUME NEW i \in (g + 1)..(n + 1) PROVE FrameAt(v[i], t, c[i - 1], c[i])
  <2>1. CASE i = n + 1
    <3>1. v[i] = f /\ c[i - 1] = Len(s) /\ c[i] = Len(s) + Size(f)
      BY <1>1, <1>3, <1>5, <2>1, SMT
    <3>. QED
      BY <3>1, <1>2 DEF FrameAt, h
  <2>2. CASE i # n + 1
    <3>1. i \in (g + 1)..n /\ v[i] = w[i] /\ c[i - 1] = cut[i - 1] /\ c[i] = cut[i]
          /\ cut[i - 1] \in Nat /\ cut[i] \in Nat /\ cut[i] <= Len(s)
      BY <1>1, <1>3, <1>5, <2>2, SMT
    <3>2. cut[i] = cut[i - 1] + Size(w[i])
          /\ \A j \in 1..Size(w[i]) : s[cut[i - 1] + j] = Header(w[i])[j]
      BY <1>3, <3>1 DEF FrameAt
    <3>3. \A j \in 1..Size(w[i]) : cut[i - 1] + j \in 1..Len(s)
      <4>. DEFINE p == cut[i - 1]
                  q == cut[i]
                  m == Size(w[i])
      <4>1. p \in Nat /\ q = p + m /\ q <= Len(s) /\ Len(s) \in Nat /\ m \in Nat
        BY <3>1, <3>2, <1>2, SizeNat
      <4>. HIDE DEF p, q, m
      <4>2. \A j \in 1..m : p + j \in 1..Len(s)
        BY <4>1, SMT
      <4>. QED
        BY <4>2 DEF p, m
    <3>. QED
      BY <1>2, <3>1, <3>2, <3>3, Zenon DEF FrameAt
  <2>. QED
    BY <2>1, <2>2
<1>8. Cuts(c, t, v, g)
  <2>1. c[g] = 0 /\ c[n + 1] = Len(t)
    BY <1>1, <1>2, <1>3, <1>5, SMT
  <2>. QED
    BY <1>1, <1>4, <1>6, <1>7, <2>1, Zenon DEF Cuts
<1>. QED
  BY <1>8 DEF t, v, h

LEMMA FirstFrame ==
  ASSUME NEW s \in Seq(Byte), NEW w \in Seq(Frame), NEW g \in 0..Len(w), NEW cut,
         Cuts(cut, s, w, g), g # Len(w)
  PROVE  /\ g + 1 \in 1..Len(w) /\ w[g + 1] \in Frame
         /\ cut[g + 1] = Size(w[g + 1]) /\ Size(w[g + 1]) <= Len(s)
         /\ Size(w[g + 1]) \in Nat \ {0} /\ s # <<>>
         /\ \A i \in 1..Size(w[g + 1]) : s[i] = Header(w[g + 1])[i]
<1>1. Len(w) \in Nat /\ Len(s) \in Nat /\ g + 1 \in 1..Len(w)
  BY LenProperties, SMT
<1>2. w[g + 1] \in Frame
  BY <1>1, ElementOfSeq, SMT
<1>3. Size(w[g + 1]) \in Nat \ {0}
  BY SizeNat
<1>4. cut[g] = 0 /\ cut[Len(w)] = Len(s) /\ cut[g + 1] <= cut[Len(w)]
  <2>1. g + 1 \in g..Len(w) /\ Len(w) \in g..Len(w) /\ g + 1 <= Len(w)
    BY <1>1, SMT
  <2>. QED
    BY <2>1, Zenon DEF Cuts
<1>5. cut[g + 1] = cut[g] + Size(w[g + 1])
      /\ \A i \in 1..Size(w[g + 1]) : s[cut[g] + i] = Header(w[g + 1])[i]
  <2>1. g + 1 \in (g + 1)..Len(w) /\ (g + 1) - 1 = g
    BY <1>1, SMT
  <2>2. FrameAt(w[g + 1], s, cut[(g + 1) - 1], cut[g + 1])
    BY <2>1, Zenon DEF Cuts
  <2>. QED
    BY <2>1, <2>2, Zenon DEF FrameAt
<1>6. cut[g + 1] = Size(w[g + 1]) /\ Size(w[g + 1]) <= Len(s)
      /\ \A i \in 1..Size(w[g + 1]) : cut[g] + i = i
  BY <1>3, <1>4, <1>5, SMT
<1>7. \A i \in 1..Size(w[g + 1]) : s[i] = Header(w[g + 1])[i]
  BY <1>5, <1>6, SMT
<1>8. s # <<>>
  BY <1>3, <1>6, SMT
<1>. QED
  BY <1>1, <1>2, <1>3, <1>6, <1>7, <1>8

LEMMA ReadCuts ==
  ASSUME NEW s \in Seq(Byte), NEW w \in Seq(Frame), NEW g \in 0..Len(w), NEW cut,
         Cuts(cut, s, w, g), g # Len(w)
  PROVE  LET size == Size(w[g + 1])
             rest == SubSeq(s, size + 1, Len(s))
         IN  rest \in Seq(Byte) /\ \E c : Cuts(c, rest, w, g + 1)
<1>. DEFINE n == Len(w)
            size == Size(w[g + 1])
            rest == SubSeq(s, size + 1, Len(s))
            c == [i \in (g + 1)..n |-> cut[i] - size]
<1>1. /\ g \in Nat /\ n \in Nat /\ g + 1 \in 1..n /\ cut[g + 1] = size
      /\ size \in Nat \ {0} /\ size <= Len(s) /\ Len(s) \in Nat
  BY FirstFrame, LenProperties, SMT
<1>2. /\ cut \in [g..n -> Nat] /\ cut[n] = Len(s)
      /\ (\A i, j \in g..n : i <= j => cut[i] <= cut[j])
      /\ \A i \in (g + 1)..n : FrameAt(w[i], s, cut[i - 1], cut[i])
  BY DEF Cuts
<1>. HIDE DEF n, size
<1>3. rest \in Seq(Byte) /\ Len(rest) = Len(s) - size
      /\ \A i \in 1..(Len(s) - size) : rest[i] = s[size + i]
  <2>1. \A i \in (size + 1)..Len(s) : s[i] \in Byte
    BY <1>1, ElementOfSeq, SMT
  <2>2. /\ rest \in Seq(Byte)
        /\ Len(rest) = IF size + 1 <= Len(s) THEN Len(s) - (size + 1) + 1 ELSE 0
        /\ \A i \in 1..Len(s) - (size + 1) + 1 : rest[i] = s[(size + 1) + i - 1]
    BY <1>1, <2>1, SubSeqProperties, SMT
  <2>. HIDE DEF rest
  <2>. QED
    BY <1>1, <2>2, SMT
<1>. HIDE DEF rest
<1>4. \A i \in (g + 1)..n : cut[i] \in Nat /\ size <= cut[i] /\ cut[i] <= Len(s)
  BY <1>1, <1>2, SMT
<1>5. c \in [(g + 1)..n -> Nat] /\ \A i \in (g + 1)..n : c[i] = cut[i] - size
  BY <1>4, <1>1, SMT
<1>. HIDE DEF c
<1>6. c[g + 1] = 0 /\ c[n] = Len(rest)
  <2>1. g + 1 \in (g + 1)..n /\ n \in (g + 1)..n /\ size - size = 0
    BY <1>1, SMT
  <2>. QED
    BY <1>1, <1>2, <1>3, <1>5, <2>1, Zenon
<1>7. \A i, j \in (g + 1)..n : i <= j => c[i] <= c[j]
  <2>. SUFFICES ASSUME NEW i \in (g + 1)..n, NEW j \in (g + 1)..n, i <= j PROVE c[i] <= c[j]
    OBVIOUS
  <2>1. cut[i] <= cut[j]
    BY <1>1, <1>2, SMT
  <2>2. cut[i] \in Nat /\ cut[j] \in Nat /\ c[i] = cut[i] - size /\ c[j] = cut[j] - size
    BY <1>4, <1>5, Zenon
  <2>. QED
    BY <1>1, <2>1, <2>2, SMT
<1>8. ASSUME NEW i \in ((g + 1) + 1)..n PROVE FrameAt(w[i], rest, c[i - 1], c[i])
  <2>. DEFINE m == Size(w[i])
  <2>1. i \in (g + 1)..n /\ i - 1 \in (g + 1)..n
    BY <1>1, SMT
  <2>2. cut[i] = cut[i - 1] + m /\ \A j \in 1..m : s[cut[i - 1] + j] = Header(w[i])[j]
    BY <1>2, <2>1, Zenon DEF FrameAt
  <2>3. m \in Nat
    BY SizeNat, SMT
  <2>. HIDE DEF m
  <2>4. c[i] = c[i - 1] + m
    <3>1. /\ cut[i] = cut[i - 1] + m /\ cut[i - 1] \in Nat
          /\ c[i] = cut[i] - size /\ c[i - 1] = cut[i - 1] - size
      BY <1>4, <1>5, <2>1, <2>2, Zenon
    <3>. QED
      BY <1>1, <2>3, <3>1, SMT
  <2>5. \A j \in 1..m : rest[c[i - 1] + j] = s[cut[i - 1] + j]
    <3>. SUFFICES ASSUME NEW j \in 1..m PROVE rest[c[i - 1] + j] = s[cut[i - 1] + j]
      OBVIOUS
    <3>1. c[i - 1] = cut[i - 1] - size /\ cut[i - 1] \in Nat /\ size <= cut[i - 1]
          /\ cut[i] <= Len(s) /\ cut[i] \in Nat
      BY <1>4, <1>5, <2>1, SMT
    <3>2. c[i - 1] + j \in 1..(Len(s) - size) /\ size + (c[i - 1] + j) = cut[i - 1] + j
      <4>1. cut[i] = cut[i - 1] + m
        BY <2>2
      <4>. DEFINE p == cut[i - 1]
                  q == cut[i]
                  r == c[i - 1]
      <4>2. /\ q = p + m /\ r = p - size /\ p \in Nat /\ size <= p /\ q <= Len(s)
            /\ m \in Nat /\ size \in Nat /\ Len(s) \in Nat
        BY <1>1, <2>3, <3>1, <4>1, Zenon
      <4>. HIDE DEF p, q, r
      <4>3. r + j \in 1..(Len(s) - size) /\ size + (r + j) = p + j
        BY <4>2, SMT
      <4>. QED
        BY <4>3 DEF p, r
    <3>. QED
      BY <1>3, <3>2, Zenon
  <2>. QED
    BY <2>2, <2>4, <2>5, Zenon DEF FrameAt, m
<1>9. Cuts(c, rest, w, g + 1)
  BY <1>5, <1>6, <1>7, <1>8, Zenon DEF Cuts, n
<1>. QED
  BY <1>3, <1>9 DEF rest, size

-----------------------------------------------------------------------------
(* write undoes read: what it makes of a number put together from bytes.   *)
LEMMA ShortNumber ==
  ASSUME NEW x \in Byte, NEW y \in Byte, NEW n, n = (x * 256) + y
  PROVE  n \in Nat /\ n <= 65535 /\ ByteOf(n, 256) = x /\ ByteOf(n, 1) = y
  BY SMT DEF ByteOf, Byte

Joined(n, a, x) == n \in Nat /\ n \div 256 = a /\ n % 256 = x

LEMMA Join == ASSUME NEW a \in Nat, NEW x \in Byte
              PROVE  Joined((a * 256) + x, a, x)
  BY SMT DEF Byte, Joined

LongForm(n, w, v, x, y) ==
  /\ n \in Nat /\ n <= MaxInt
  /\ ByteOf(n, 16777216) = w /\ ByteOf(n, 65536) = v
  /\ ByteOf(n, 256) = x /\ ByteOf(n, 1) = y
  /\ w # 0 \/ v # 0 => n > 65535

LEMMA LongNumber ==
  ASSUME NEW w \in 0..127, NEW v \in Byte, NEW x \in Byte, NEW y \in Byte,
         NEW n, n = ((((((w * 256) + v) * 256) + x) * 256) + y)
  PROVE  LongForm(n, w, v, x, y)
<1>. DEFINE b == (w * 256) + v
            a == (b * 256) + x
<1>0. n = (a * 256) + y
  OBVIOUS
<1>1. w \in Nat /\ w % 256 = w
  BY SMT
<1>2. Joined(b, w, v)
  BY <1>1, Join, Zenon
<1>b. b \in Nat /\ b \div 256 = w /\ b % 256 = v
  BY <1>2 DEF Joined
<1>. HIDE DEF b
<1>3. Joined(a, b, x)
  BY <1>b, Join, Zenon
<1>a. a \in Nat /\ a \div 256 = b /\ a % 256 = x
  BY <1>3 DEF Joined
<1>. HIDE DEF a
<1>4. n \in Nat /\ n \div 256 = a /\ n % 256 = y
  <2>1. Joined((a * 256) + y, a, y)
    BY <1>a, Join, Zenon
  <2>. QED
    BY <1>0, <2>1 DEF Joined
<1>5. n = ((w * 16777216) + (v * 65536)) + ((x * 256) + y)
  BY <1>0, SMT DEF a, b, Byte
<1>6. n <= MaxInt /\ (w # 0 \/ v # 0 => n > 65535)
  BY <1>5, SMT DEF MaxInt, Byte
<1>7. n \div 65536 = b /\ n \div 16777216 = w
  <2>1. n = (w * 16777216) + ((v * 65536) + ((x * 256) + y)) /\ n = (b * 65536) + ((x * 256) + y)
    BY <1>0, <1>5, SMT DEF a, b, Byte
  <2>2. n \div 65536 = b
    BY <1>b, <2>1, SMT DEF Byte
  <2>3. n \div 16777216 = w
    BY <2>1, SMT DEF Byte
  <2>. QED
    BY <2>2, <2>3
<1>8. n \div 1 = n
  BY <1>4, SMT
<1>9. /\ ByteOf(n, 16777216) = w /\ ByteOf(n, 65536) = v
      /\ ByteOf(n, 256) = x /\ ByteOf(n, 1) = y
  BY <1>1, <1>b, <1>a, <1>4, <1>7, <1>8, SMT DEF ByteOf
<1>. QED
  BY <1>4, <1>6, <1>9, SMT DEF LongForm

LEMMA Following ==
  ASSUME NEW s \in Seq(Byte), NEW k \in Nat, 2 + k <= Len(s)
  PROVE  \A i \in 1..k : SubSeq(s, 3, 2 + k)[i] = s[2 + i] /\ s[2 + i] \in Byte
<1>1. \A i \in 3..(2 + k) : s[i] \in Byte
  BY ElementOfSeq, LenProperties, SMT
<1>2. \A i \in 1..(2 + k) - 3 + 1 : SubSeq(s, 3, 2 + k)[i] = s[3 + i - 1]
  BY <1>1, SubSeqProperties, SMT
<1>. QED
  BY <1>1, <1>2, SMT

(* A length that is accepted has the bytes that write makes of it.         *)
LEMMA AcceptedLength ==
  ASSUME NEW s \in Seq(Byte), Len(s) >= 2 + Extra(s[2]), PayloadInfo(s).error = "no"
  PROVE  LET n == PayloadInfo(s).len
             b == LengthBytes(n, Bit(s[2] >= 128, 128))
         IN  /\ n \in Nat /\ n <= MaxInt /\ Len(b) = 1 + Extra(s[2])
             /\ \A i \in 1..Len(b) : s[1 + i] = b[i]
<1>. DEFINE m == s[2]
            mask == Bit(m >= 128, 128)
            n == PayloadInfo(s).len
            b == LengthBytes(n, mask)
<1>1. Len(s) \in Nat /\ Extra(m) \in Nat
  BY SMT DEF Extra
<1>2. m \in Byte
  BY <1>1, ElementOfSeq, SMT
<1>3. mask \in {0, 128} /\ m = mask + (m % 128)
  <2>1. (m >= 128 => mask = 128) /\ (~(m >= 128) => mask = 0)
    BY Zenon DEF Bit
  <2>. HIDE DEF m, mask
  <2>. QED
    BY <1>2, <2>1, SMT DEF Byte
<1>4. /\ m % 128 = 126 => Extra(m) = 2
      /\ m % 128 = 127 => Extra(m) = 8
      /\ m % 128 # 126 /\ m % 128 # 127 => Extra(m) = 0
  BY SMT DEF Extra
<1>. DEFINE more == SubSeq(s, 3, 2 + Extra(m))
<1>5. \A i \in 1..Extra(m) : more[i] = s[2 + i] /\ s[2 + i] \in Byte
  BY <1>1, Following, SMT
<1>6. PayloadInfo(s) = CASE Extra(m) = 2 -> ShortLength(more)
                         [] Extra(m) = 8 -> LongLength(more)
                         [] OTHER -> [error |-> "no", len |-> m % 128]
  BY Zenon DEF PayloadInfo
<1>. SUFFICES /\ n \in Nat /\ n <= MaxInt /\ Len(b) = 1 + Extra(m)
              /\ \A i \in 1..Len(b) : s[1 + i] = b[i]
  OBVIOUS
<1>. HIDE DEF mask, more
<1>7. CASE m % 128 # 126 /\ m % 128 # 127
  <2>1. n = m % 128
    BY <1>4, <1>6, <1>7, SMT
  <2>. HIDE DEF n
  <2>2. n \in Nat /\ n <= 125 /\ n <= MaxInt
    <3>. HIDE DEF m
    <3>. QED
      BY <1>2, <1>7, <2>1, SMT DEF Byte, MaxInt
  <2>3. Len(b) = 1 /\ b[1] = mask + n
    <3>1. Layout(n, mask, b)
      BY <1>3, <2>2, LengthBytesAt, SMT
    <3>. QED
      BY <2>2, <3>1, SMT DEF Layout
  <2>. HIDE DEF b
  <2>4. s[2] = b[1]
    BY <1>3, <2>1, <2>3
  <2>. QED
    BY <1>4, <1>7, <2>2, <2>3, <2>4, SMT
<1>8. CASE m % 128 = 126
  <2>. DEFINE x == s[3]
              y == s[4]
  <2>1. x \in Byte /\ y \in Byte /\ more[1] = x /\ more[2] = y
    BY <1>4, <1>5, <1>8, SMT
  <2>. HIDE DEF x, y
  <2>2. n = (x * 256) + y /\ ~(n < 126)
    <3>1. PayloadInfo(s) = ShortLength(more)
      BY <1>4, <1>6, <1>8, SMT
    <3>2. ShortLength(more) = [error |-> IF (x * 256) + y < 126 THEN "NotMinimal" ELSE "no",
                               len |-> (x * 256) + y]
      BY <2>1, SMT DEF ShortLength
    <3>. QED
      BY <3>1, <3>2, SMT
  <2>3. n \in Nat /\ n <= 65535 /\ ByteOf(n, 256) = x /\ ByteOf(n, 1) = y
    <3>1. x \in Byte /\ y \in Byte /\ n = (x * 256) + y
      BY <2>1, <2>2
    <3>. HIDE DEF n
    <3>. QED
      BY <3>1, ShortNumber, SMT
  <2>. HIDE DEF n
  <2>4. n > 125 /\ n <= MaxInt
    BY <2>2, <2>3, SMT DEF MaxInt
  <2>5. Len(b) = 3 /\ b[1] = mask + 126 /\ b[2] = x /\ b[3] = y
    BY <1>3, <2>3, <2>4, LengthBytesAt, SMT DEF Layout
  <2>6. s[2] = b[1] /\ s[3] = b[2] /\ s[4] = b[3] /\ Len(b) = 3
    BY <1>3, <1>8, <2>5 DEF x, y
  <2>. HIDE DEF b
  <2>. QED
    BY <1>4, <1>8, <2>3, <2>4, <2>6, SMT
<1>9. CASE m % 128 = 127
  <2>. DEFINE w == s[7]
              v == s[8]
              x == s[9]
              y == s[10]
  <2>1. /\ w \in Byte /\ v \in Byte /\ x \in Byte /\ y \in Byte
        /\ more[5] = w /\ more[6] = v /\ more[7] = x /\ more[8] = y
        /\ \A i \in 1..4 : more[i] = s[2 + i] /\ s[2 + i] \in Byte
    BY <1>4, <1>5, <1>9, SMT
  <2>2. PayloadInfo(s) = LongLength(more)
    BY <1>4, <1>6, <1>9, SMT
  <2>3. ~Negative(more) /\ ~Small(more) /\ ~Above31Bits(more) /\ n = Low(more)
    <3>1. ~(Negative(more) \/ Small(more)) /\ ~(~Negative(more) /\ Above31Bits(more))
      <4>1. "NotMinimal" # "no" /\ "TooBig" # "no"
        BY SMT
      <4>. QED
        BY <2>2, <4>1, SMT DEF LongLength
    <3>2. LongLength(more) = [error |-> "no", len |-> Low(more)]
      BY <3>1, Zenon DEF LongLength
    <3>. QED
      BY <2>2, <3>1, <3>2, SMT
  <2>4. s[3] = 0 /\ s[4] = 0 /\ s[5] = 0 /\ s[6] = 0
    <3>1. \A i \in 1..4 : s[2 + i] = 0
      BY <2>1, <2>3, Zenon DEF Above31Bits
    <3>. QED
      BY <3>1, SMT
  <2>. HIDE DEF w, v, x, y
  <2>5. w \in 0..127 /\ (w # 0 \/ v # 0)
    <3>1. ~(more[5] >= 128) /\ ~(\A i \in 1..6 : more[i] = 0) /\ \A i \in 1..4 : more[i] = 0
      BY <2>3, SMT DEF Negative, Small, Above31Bits
    <3>2. more[5] # 0 \/ more[6] # 0
      BY <3>1, SMT
    <3>3. w \in Byte /\ ~(w >= 128) /\ (w # 0 \/ v # 0)
      BY <2>1, <3>1, <3>2, Zenon
    <3>. QED
      BY <3>3, SMT DEF Byte
  <2>6. n = ((((((w * 256) + v) * 256) + x) * 256) + y)
    <3>1. Low(more) = ((((((w * 256) + v) * 256) + x) * 256) + y)
      BY <2>1, SMT DEF Low
    <3>. QED
      BY <2>3, <3>1
  <2>7. /\ n \in Nat /\ n <= MaxInt /\ n > 65535
        /\ ByteOf(n, 16777216) = w /\ ByteOf(n, 65536) = v
        /\ ByteOf(n, 256) = x /\ ByteOf(n, 1) = y
    <3>1. v \in Byte /\ x \in Byte /\ y \in Byte
      BY <2>1
    <3>. HIDE DEF n
    <3>2. LongForm(n, w, v, x, y)
      BY <2>5, <2>6, <3>1, LongNumber, Zenon
    <3>. QED
      BY <2>5, <3>2, SMT DEF LongForm
  <2>. HIDE DEF n
  <2>8. /\ Len(b) = 9 /\ b[1] = mask + 127
        /\ b[2] = 0 /\ b[3] = 0 /\ b[4] = 0 /\ b[5] = 0
        /\ b[6] = w /\ b[7] = v /\ b[8] = x /\ b[9] = y
    <3>1. Layout(n, mask, b)
      BY <1>3, <2>7, LengthBytesAt, SMT
    <3>. QED
      BY <2>7, <3>1, SMT DEF Layout
  <2>9. /\ s[2] = b[1] /\ s[3] = b[2] /\ s[4] = b[3] /\ s[5] = b[4] /\ s[6] = b[5]
        /\ s[7] = b[6] /\ s[8] = b[7] /\ s[9] = b[8] /\ s[10] = b[9] /\ Len(b) = 9
    BY <1>3, <1>9, <2>4, <2>8 DEF w, v, x, y
  <2>. HIDE DEF b
  <2>. QED
    BY <1>4, <1>9, <2>7, <2>9, SMT
<1>. QED
  BY <1>7, <1>8, <1>9

(* So does its first byte, if no reserved bit is set in it.                *)
LEMMA AcceptedHead ==
  ASSUME NEW head \in Byte, HeadError(head) = "no"
  PROVE  OpOf(head) \in OpCode /\ head = Bit(head >= 128, 128) + OpValue[OpOf(head)]
<1>1. (head \div 16) % 8 = 0 /\ HasOp(head)
  <2>1. "Reserved" # "no" /\ "OpCode" # "no"
    BY SMT
  <2>. QED
    BY <2>1, Zenon DEF HeadError
<1>2. OpOf(head) \in OpCode /\ OpValue[OpOf(head)] = head % 16
  BY <1>1, Zenon DEF HasOp, OpOf
<1>3. head = (IF head >= 128 THEN 128 ELSE 0) + (head % 16)
  BY <1>1, SMT DEF Byte
<1>. QED
  BY <1>2, <1>3, Zenon DEF Bit

LEMMA AcceptedIsWritten ==
  ASSUME NEW s \in RawHeader, Error(s) = "no"
  PROVE  Len(s) = HeaderLength(s) /\ s # <<>> /\ Header(Decoded(s)) = s
<1>. DEFINE f == Decoded(s)
            n == PayloadInfo(s).len
            b == LengthBytes(n, Bit(s[2] >= 128, 128))
<1>1. /\ s \in Seq(Byte) /\ Len(s) \in Nat /\ Len(s) >= 2 /\ Len(s) = HeaderLength(s)
      /\ s[2] >= 128 => \A i \in 1..4 : s[Len(s) - 4 + i] = Key[i]
  BY CodecAssumption, RawAssumption, LenProperties, SMT
<1>2. s[1] \in Byte
  BY <1>1, ElementOfSeq, SMT
<1>3. HeadError(s[1]) = "no" /\ PayloadInfo(s).error = "no"
  BY Zenon DEF Error
<1>4. OpOf(s[1]) \in OpCode /\ s[1] = Bit(s[1] >= 128, 128) + OpValue[OpOf(s[1])]
  BY <1>2, <1>3, AcceptedHead, Zenon
<1>5. Extra(s[2]) \in Nat /\ Len(s) = (2 + Extra(s[2])) + (IF s[2] >= 128 THEN 4 ELSE 0)
  BY <1>1, SMT DEF HeaderLength, Extra
<1>6. /\ n \in Nat /\ n <= MaxInt /\ Len(b) = 1 + Extra(s[2])
      /\ \A i \in 1..Len(b) : s[1 + i] = b[i]
  <2>1. Len(s) >= 2 + Extra(s[2])
    BY <1>5, SMT
  <2>. QED
    BY <1>1, <1>3, <2>1, AcceptedLength, Zenon
<1>7. f = [op |-> OpOf(s[1]), fin |-> (s[1] >= 128), masked |-> (s[2] >= 128), len |-> n]
  BY Zenon DEF Decoded
<1>. HIDE DEF n
<1>8. /\ f.op = OpOf(s[1]) /\ f.fin = (s[1] >= 128) /\ f.masked = (s[2] >= 128)
      /\ f.len = n /\ f \in AnyFrame
  <2>1. n \in 0..MaxInt
    BY <1>6, MaxIntNat, SMT
  <2>. DEFINE L == 0..MaxInt
  <2>. HIDE DEF L, f
  <2>2. f \in [op : OpCode, fin : BOOLEAN, masked : BOOLEAN, len : L]
    <3>. DEFINE fin == (s[1] >= 128)
                masked == (s[2] >= 128)
    <3>1. fin \in BOOLEAN /\ masked \in BOOLEAN
      BY SMT
    <3>3. n \in L
      BY <2>1 DEF L
    <3>2. f = [op |-> OpOf(s[1]), fin |-> fin, masked |-> masked, len |-> n]
      BY <1>7
    <3>. HIDE DEF fin, masked
    <3>. QED
      BY <1>4, <3>1, <3>2, <3>3, SMT
  <2>3. /\ f.op = OpOf(s[1]) /\ f.fin = (s[1] >= 128) /\ f.masked = (s[2] >= 128)
        /\ f.len = n
    BY <1>7, Zenon
  <2>. QED
    BY <2>2, <2>3, Zenon DEF L, AnyFrame
<1>. HIDE DEF f, b
<1>9. LengthBytes(f.len, Bit(f.masked, 128)) = b
  BY <1>8, Zenon DEF b, n
<1>10. /\ Header(f) \in Seq(Byte) /\ Len(Header(f)) = Size(f)
       /\ Header(f)[1] = Bit(f.fin, 128) + OpValue[f.op]
       /\ Len(b) = LengthSize(f) /\ \A i \in 1..Len(b) : Header(f)[1 + i] = b[i]
       /\ f.masked => \A i \in 1..4 : Header(f)[(1 + LengthSize(f)) + i] = Key[i]
  <2>1. f \in AnyFrame
    BY <1>8
  <2>. QED
    BY <1>9, <2>1, HeaderAt, SMT
<1>11. Header(f)[1] = s[1]
  BY <1>4, <1>8, <1>10, Zenon
<1>12. LengthSize(f) = 1 + Extra(s[2]) /\ Len(Header(f)) = Len(s)
  <2>1. Mask(f) = IF s[2] >= 128 THEN 4 ELSE 0
    BY <1>8, Zenon DEF Mask
  <2>2. LengthSize(f) = 1 + Extra(s[2]) /\ Len(Header(f)) = (1 + LengthSize(f)) + Mask(f)
    BY <1>6, <1>10 DEF Size
  <2>. QED
    BY <1>5, <2>1, <2>2, SMT
<1>13. ASSUME NEW i \in 1..Len(s) PROVE Header(f)[i] = s[i]
  <2>1. CASE i = 1
    BY <1>11, <2>1
  <2>2. CASE i \in 2..(1 + Len(b))
    <3>1. i - 1 \in 1..Len(b) /\ 1 + (i - 1) = i
      BY <1>5, <1>6, <2>2, SMT
    <3>2. s[1 + (i - 1)] = b[i - 1] /\ Header(f)[1 + (i - 1)] = b[i - 1]
      BY <1>6, <1>10, <3>1, Zenon
    <3>. QED
      BY <3>1, <3>2
  <2>3. CASE i > 1 + Len(b)
    <3>1. s[2] >= 128
      BY <1>5, <1>6, <2>3, SMT
    <3>. DEFINE k == i - (1 + Len(b))
    <3>2. k \in 1..4 /\ (1 + LengthSize(f)) + k = i /\ (Len(s) - 4) + k = i
      <4>1. /\ Len(s) = (1 + LengthSize(f)) + 4 /\ Len(b) = LengthSize(f)
            /\ LengthSize(f) \in Nat
        <5>1. Len(s) = (2 + Extra(s[2])) + 4
          BY <1>5, <3>1, Zenon
        <5>. QED
          BY <1>5, <1>6, <1>12, <5>1, SMT
      <4>. HIDE DEF b
      <4>. QED
        BY <2>3, <4>1, SMT
    <3>3. f.masked
      BY <1>8, <3>1
    <3>. HIDE DEF k
    <3>4. Header(f)[i] = Key[k]
      BY <1>10, <3>2, <3>3, Zenon
    <3>5. s[i] = Key[k]
      BY <1>1, <3>1, <3>2, Zenon
    <3>. QED
      BY <3>4, <3>5
  <2>. QED
    <3>1. i \in Nat /\ (i = 1 \/ i \in 2..(1 + Len(b)) \/ i > 1 + Len(b))
      BY <1>5, <1>6, SMT
    <3>. QED
      BY <2>1, <2>2, <2>3, <3>1
<1>14. Header(f) = s
  BY <1>1, <1>10, <1>12, <1>13, SeqEqual, Zenon
<1>15. s # <<>>
  BY <1>1, SMT
<1>. QED
  BY <1>1, <1>14, <1>15 DEF f

-----------------------------------------------------------------------------
(* The stream is always what was written and not yet read.                 *)
OwnStream ==
  /\ stream \in Seq(Byte) /\ written \in Seq(Frame) /\ got \in Seq(Frame)
  /\ Len(got) <= Len(written) /\ refused = "no"
  /\ \A i \in DOMAIN got : got[i] = written[i]
  /\ \E cut : Cuts(cut, stream, written, Len(got))

CodecInv == sender = "NanoWSD" => OwnStream

LEMMA WriteStep ==
  ASSUME OwnStream, NEW f \in Frame, WriteFrame(f)
  PROVE  OwnStream'
<1>1. /\ stream' = stream \o Header(f) /\ written' = Append(written, f)
      /\ got' = got /\ refused' = refused
  BY DEF WriteFrame
<1>2. /\ stream \in Seq(Byte) /\ written \in Seq(Frame) /\ got \in Seq(Frame)
      /\ Len(got) <= Len(written) /\ refused = "no"
      /\ DOMAIN got = 1..Len(got) /\ Len(got) \in 0..Len(written)
      /\ Len(written) \in Nat
  BY LenProperties, SMT DEF OwnStream
<1>3. stream' \in Seq(Byte)
  BY <1>1, <1>2, HeaderAt, FrameIsAny, Parts, Zenon
<1>4. /\ written' \in Seq(Frame) /\ Len(written') = Len(written) + 1
      /\ \A i \in 1..Len(written) : written'[i] = written[i]
  BY <1>1, <1>2, AppendProperties, SMT
<1>5. \A i \in DOMAIN got' : got'[i] = written'[i]
  <2>1. \A i \in DOMAIN got : i \in 1..Len(written)
    BY <1>2, SMT
  <2>. QED
    BY <1>1, <1>4, <2>1, Zenon DEF OwnStream
<1>6. PICK cut : Cuts(cut, stream, written, Len(got))
  BY DEF OwnStream
<1>7. \E c : Cuts(c, stream', written', Len(got'))
  BY <1>1, <1>2, <1>6, WriteCuts, Zenon
<1>8. Len(got') <= Len(written')
  BY <1>1, <1>2, <1>4, SMT
<1>. QED
  BY <1>1, <1>2, <1>3, <1>4, <1>5, <1>7, <1>8, Zenon DEF OwnStream

(* What a reader finds at the start of a stream that is not empty.         *)
LEMMA NextFrame ==
  ASSUME OwnStream, stream # <<>>
  PROVE  LET f == written[Len(got) + 1]
             rest == SubSeq(stream, Size(f) + 1, Len(stream))
         IN  /\ Len(got) + 1 \in 1..Len(written) /\ f \in Frame
             /\ Error(stream) = "no" /\ Decoded(stream) = f
             /\ HeaderLength(stream) = Size(f)
             /\ rest \in Seq(Byte) /\ \E c : Cuts(c, rest, written, Len(got) + 1)
<1>. DEFINE g == Len(got)
            f == written[g + 1]
<1>1. /\ stream \in Seq(Byte) /\ written \in Seq(Frame) /\ g \in 0..Len(written)
      /\ Len(stream) \in Nat
  BY LenProperties, SMT DEF OwnStream
<1>2. PICK cut : Cuts(cut, stream, written, g)
  BY DEF OwnStream
<1>. HIDE DEF g
<1>3. g # Len(written)
  <2>1. g = Len(written) => Len(stream) = 0
    BY <1>2, Zenon DEF Cuts
  <2>. QED
    BY <1>1, <2>1, EmptySeq, SMT
<1>4. /\ g + 1 \in 1..Len(written) /\ f \in Frame /\ Size(f) <= Len(stream)
      /\ Size(f) \in Nat
      /\ \A i \in 1..Size(f) : stream[i] = Header(f)[i]
  BY <1>1, <1>2, <1>3, FirstFrame, SMT
<1>5. LET rest == SubSeq(stream, Size(f) + 1, Len(stream))
      IN  rest \in Seq(Byte) /\ \E c : Cuts(c, rest, written, g + 1)
  BY <1>1, <1>2, <1>3, ReadCuts, Zenon
<1>. HIDE DEF f
<1>6. Len(stream) >= Size(f)
  BY <1>1, <1>4, SMT
<1>7. Error(stream) = "no" /\ Decoded(stream) = f /\ HeaderLength(stream) = Size(f)
  BY <1>1, <1>4, <1>6, HeaderIsRead, Zenon
<1>. QED
  BY <1>4, <1>5, <1>7 DEF f, g

LEMMA ReadStep ==
  ASSUME OwnStream, ReadFrame
  PROVE  OwnStream'
<1>. DEFINE f == written[Len(got) + 1]
            g == Len(got)
<1>1. /\ g + 1 \in 1..Len(written) /\ f \in Frame
      /\ Decoded(stream) = f /\ HeaderLength(stream) = Size(f)
  BY NextFrame, Zenon DEF ReadFrame
<1>2. /\ SubSeq(stream, Size(f) + 1, Len(stream)) \in Seq(Byte)
      /\ \E c : Cuts(c, SubSeq(stream, Size(f) + 1, Len(stream)), written, g + 1)
  BY NextFrame, Zenon DEF ReadFrame
<1>3. /\ got' = Append(got, Decoded(stream)) /\ written' = written /\ refused' = refused
      /\ stream' = SubSeq(stream, HeaderLength(stream) + 1, Len(stream))
  BY Zenon DEF ReadFrame
<1>. HIDE DEF f
<1>4. /\ got' = Append(got, f) /\ got \in Seq(Frame) /\ g \in Nat
      /\ written' = written /\ written \in Seq(Frame)
      /\ stream' = SubSeq(stream, Size(f) + 1, Len(stream))
  BY <1>1, <1>3, LenProperties, Zenon DEF OwnStream
<1>5. /\ got' \in Seq(Frame) /\ Len(got') = g + 1
      /\ got'[g + 1] = f /\ \A i \in 1..g : got'[i] = got[i]
  BY <1>1, <1>4, AppendProperties, SMT
<1>6. ASSUME NEW i \in DOMAIN got' PROVE got'[i] = written[i]
  <2>1. i \in 1..(g + 1)
    BY <1>5, LenProperties, SMT
  <2>2. CASE i = g + 1
    BY <1>5, <2>2 DEF f
  <2>3. CASE i # g + 1
    <3>1. i \in 1..g /\ DOMAIN got = 1..g
      BY <1>4, <2>1, <2>3, LenProperties, SMT
    <3>. QED
      BY <1>5, <3>1, Zenon DEF OwnStream
  <2>. QED
    BY <2>2, <2>3
<1>7. Len(got') <= Len(written)
  BY <1>1, <1>5, SMT
<1>8. stream' \in Seq(Byte) /\ \E c : Cuts(c, stream', written, Len(got'))
  BY <1>2, <1>4, <1>5, Zenon
<1>. QED
  BY <1>3, <1>4, <1>5, <1>6, <1>7, <1>8, Zenon DEF OwnStream

(* Every frame that write produces is read as it was, none is refused and  *)
(* the next one is found where it begins: for every payload length that a  *)
(* Java array can have, every masking key and every number of frames       *)
(* (NanoWSD.java, lines 432-453 and 694-732).                              *)
THEOREM EveryFrameIsReadBack == Spec => []RoundTrip
<1>1. Init => CodecInv
  <2>. SUFFICES ASSUME Init PROVE OwnStream
    BY DEF CodecInv
  <2>1. stream = <<>> /\ written = <<>> /\ got = <<>> /\ refused = "no"
    BY DEF Init
  <2>2. Cuts([i \in 0..0 |-> 0], <<>>, <<>>, 0)
    BY SMT DEF Cuts
  <2>. QED
    BY <2>1, <2>2, SMT DEF OwnStream
<1>2. CodecInv /\ [Next]_vars => CodecInv'
  <2>. SUFFICES ASSUME CodecInv, [Next]_vars, sender' = "NanoWSD" PROVE OwnStream'
    BY DEF CodecInv
  <2>1. sender = "NanoWSD" /\ OwnStream
    BY Zenon DEF CodecInv, Next, vars, WriteFrame, WriteRaw, ReadFrame, RefuseFrame
  <2>2. CASE \E f \in Frame : WriteFrame(f)
    BY <2>1, <2>2, WriteStep
  <2>3. CASE ReadFrame
    BY <2>1, <2>3, ReadStep
  <2>4. CASE RefuseFrame
    BY <2>1, <2>4, NextFrame DEF RefuseFrame
  <2>5. CASE UNCHANGED vars
    BY <2>1, <2>5 DEF OwnStream, vars
  <2>. QED
    BY <2>1, <2>2, <2>3, <2>4, <2>5, Zenon DEF Next, WriteRaw
<1>3. CodecInv => RoundTrip
  <2>. SUFFICES ASSUME OwnStream PROVE
                  /\ refused = "no" /\ Len(got) <= Len(written)
                  /\ \A i \in DOMAIN got : got[i] = written[i]
                  /\ stream = <<>> => Len(got) = Len(written)
    BY DEF CodecInv, RoundTrip
  <2>1. ASSUME stream = <<>> PROVE Len(got) = Len(written)
    <3>1. PICK cut : Cuts(cut, stream, written, Len(got))
      BY DEF OwnStream
    <3>2. /\ stream \in Seq(Byte) /\ written \in Seq(Frame) /\ Len(got) \in 0..Len(written)
      BY LenProperties, SMT DEF OwnStream
    <3>. QED
      BY <2>1, <3>1, <3>2, FirstFrame, Zenon
  <2>. QED
    BY <2>1 DEF OwnStream
<1>. QED
  BY <1>1, <1>2, <1>3, PTL DEF Spec

-----------------------------------------------------------------------------
(* The stream of another implementation: its header is there, or it was    *)
(* read, and then it was what write would have made of the frame.          *)
RawStream ==
  \/ got = <<>> /\ consumed = <<>> /\ stream \in RawHeader \union {<<>>}
  \/ stream = <<>> /\ got # <<>> /\ consumed = Header(got[1])

RawInv == sender = "other" => RawStream

LEMMA RawReadStep ==
  ASSUME RawStream, ReadFrame
  PROVE  RawStream'
<1>1. /\ stream # <<>> /\ Error(stream) = "no"
      /\ got' = Append(got, Decoded(stream))
      /\ consumed' = consumed \o SubSeq(stream, 1, HeaderLength(stream))
      /\ stream' = SubSeq(stream, HeaderLength(stream) + 1, Len(stream))
  BY Zenon DEF ReadFrame
<1>2. got = <<>> /\ consumed = <<>> /\ stream \in RawHeader
  BY <1>1, Zenon DEF RawStream
<1>3. HeaderLength(stream) = Len(stream) /\ Header(Decoded(stream)) = stream
  BY <1>1, <1>2, AcceptedIsWritten, Zenon
<1>4. stream \in Seq(Byte) /\ Len(stream) \in Nat
  BY <1>2, CodecAssumption, LenProperties, SMT
<1>5. stream' = <<>>
  BY <1>1, <1>3, <1>4, SMT
<1>6. consumed' = stream
  <2>1. SubSeq(stream, 1, Len(stream)) = stream
    BY <1>4, SMT
  <2>. QED
    BY <1>1, <1>2, <1>3, <1>4, <2>1, SMT
<1>7. got' # <<>> /\ got'[1] = Decoded(stream)
  <2>1. got' = <<Decoded(stream)>>
    BY <1>1, <1>2, SMT
  <2>. QED
    BY <2>1, SMT
<1>. QED
  BY <1>3, <1>5, <1>6, <1>7, Zenon DEF RawStream

(* Whatever header another implementation sends, a frame that is accepted  *)
(* is written as the very bytes it was read from: of the three forms of a  *)
(* length only the shortest is accepted, and none is taken for another     *)
(* number (NanoWSD.java, lines 606-646).                                   *)
THEOREM AcceptedHeaderIsCanonical == Spec => []Canonical
<1>1. Init => RawInv
  BY Zenon DEF Init, RawInv, RawStream
<1>2. RawInv /\ [Next]_vars => RawInv'
  <2>. SUFFICES ASSUME RawInv, [Next]_vars, sender' = "other" PROVE RawStream'
    BY DEF RawInv
  <2>1. sender = "other" /\ RawStream
    BY Zenon DEF RawInv, Next, vars, WriteFrame, WriteRaw, ReadFrame, RefuseFrame
  <2>2. ASSUME NEW f \in Frame PROVE ~WriteFrame(f)
    <3>1. "other" # "NanoWSD"
      BY SMT
    <3>. QED
      BY <2>1, <3>1, Zenon DEF WriteFrame
  <2>3. ASSUME NEW bytes \in RawHeader, WriteRaw(bytes) PROVE RawStream'
    BY <2>1, <2>3, Zenon DEF WriteRaw, RawStream
  <2>4. CASE ReadFrame
    BY <2>1, <2>4, RawReadStep
  <2>5. CASE RefuseFrame
    BY <2>1, <2>5, Zenon DEF RefuseFrame, RawStream
  <2>6. CASE UNCHANGED vars
    BY <2>1, <2>6, Zenon DEF RawStream, vars
  <2>. QED
    BY <2>2, <2>3, <2>4, <2>5, <2>6, Zenon DEF Next
<1>3. RawInv => Canonical
  BY Zenon DEF RawInv, RawStream, Canonical
<1>. QED
  BY <1>1, <1>2, <1>3, PTL DEF Spec
=============================================================================
