----------------------------- MODULE FrameCodec -----------------------------
(***************************************************************************)
(* The header of a websocket frame as NanoWSD.WebSocketFrame writes and    *)
(* reads it, byte by byte: opcode, final flag, mask and the three forms of *)
(* the payload length.  A stream is the bytes of headers only; a payload   *)
(* is exactly as long as its header says, and masking is its own inverse.  *)
(* The reader's arithmetic is Java's: of the eight bytes of a long length  *)
(* the first four are shifted as long and the others as int.               *)
(***************************************************************************)
EXTENDS Integers, Sequences

CONSTANTS Length,     \* payload lengths that are written
          RawHeader,  \* byte sequences that another implementation may send
          Key,        \* a masking key
          MaxFrames   \* bound: headers written

Byte == 0..255
MaxInt == 2147483647

ASSUME CodecAssumption ==
  /\ Length \subseteq 0..MaxInt
  /\ RawHeader \subseteq Seq(Byte)
  /\ Key \in [1..4 -> Byte]
  /\ MaxFrames \in Nat

VARIABLES sender,   \* "NanoWSD", or another implementation
          stream,   \* written and not yet read
          written,  \* history: the frames written by write
          got,      \* history: the frames read
          consumed, \* history: the bytes of the frames read
          refused   \* why read threw, or "no"

vars == <<sender, stream, written, got, consumed, refused>>

OpCode == {"Continuation", "Text", "Binary", "Close", "Ping", "Pong"}
Control == {"Close", "Ping", "Pong"}
OpValue == [Continuation |-> 0, Text |-> 1, Binary |-> 2,
            Close |-> 8, Ping |-> 9, Pong |-> 10]

Init ==
  /\ sender \in {"NanoWSD", "other"}
  /\ stream = <<>> /\ written = <<>> /\ got = <<>> /\ consumed = <<>>
  /\ refused = "no"

-----------------------------------------------------------------------------
(* write.                                                                  *)

(* out.write(int) keeps the low eight bits of n >>> shift.                 *)
ByteOf(n, unit) == (n \div unit) % 256

Bit(flag, value) == IF flag THEN value ELSE 0

(* Faulty variant: 65535 is written in the long form.                      *)
LengthBytesStrict(len, mask) ==
  IF len <= 125 THEN <<mask + len>>
  ELSE IF len < 65535 THEN <<mask + 126, ByteOf(len, 256), ByteOf(len, 1)>>
  ELSE <<mask + 127, 0, 0, 0, 0, ByteOf(len, 16777216), ByteOf(len, 65536),
         ByteOf(len, 256), ByteOf(len, 1)>>

LengthBytes(len, mask) ==
  IF len <= 125 THEN <<mask + len>>
  ELSE IF len <= 65535 THEN <<mask + 126, ByteOf(len, 256), ByteOf(len, 1)>>
  ELSE <<mask + 127, 0, 0, 0, 0, ByteOf(len, 16777216), ByteOf(len, 65536),
         ByteOf(len, 256), ByteOf(len, 1)>>

Header(f) ==
  <<Bit(f.fin, 128) + OpValue[f.op]>>
    \o LengthBytes(f.len, Bit(f.masked, 128))
    \o (IF f.masked THEN Key ELSE <<>>)

(* The frames the server and its clients make: control frames are whole    *)
(* and short, and a close is empty or has a code.                          *)
Frame == { f \in [op : OpCode, fin : BOOLEAN, masked : BOOLEAN, len : Length] :
             f.op \in Control => /\ f.fin /\ f.len <= 125
                                 /\ f.op = "Close" => f.len # 1 }

WriteFrame(f) ==
  /\ sender = "NanoWSD"
  /\ Len(written) < MaxFrames
  /\ stream' = stream \o Header(f)
  /\ written' = Append(written, f)
  /\ UNCHANGED <<sender, got, consumed, refused>>

(* Another implementation sends a header of its own, once.                 *)
WriteRaw(bytes) ==
  /\ sender = "other"
  /\ stream = <<>> /\ got = <<>>
  /\ stream' = bytes
  /\ UNCHANGED <<sender, written, got, consumed, refused>>

-----------------------------------------------------------------------------
(* read.                                                                   *)

HasOp(head) == \E op \in OpCode : OpValue[op] = head % 16
OpOf(head) == CHOOSE op \in OpCode : OpValue[op] = head % 16

(* How many bytes follow the second one to hold the length.                *)
Extra(b) == CASE b % 128 = 126 -> 2 [] b % 128 = 127 -> 8 [] OTHER -> 0

(* The eight bytes of a long length.  The fifth is shifted as an int, so   *)
(* from 128 on its sign fills the four bytes above it.                     *)
Negative(b) == b[1] >= 128 \/ b[5] >= 128
Small(b) == \A i \in 1..6 : b[i] = 0
Above31Bits(b) == \E i \in 1..4 : b[i] # 0
Low(b) == ((b[5] * 256 + b[6]) * 256 + b[7]) * 256 + b[8]

(* The length, or why it is refused.                                       *)
LongLength(b) ==
  CASE Negative(b) \/ Small(b) -> [error |-> "NotMinimal", len |-> 0]
    [] ~Negative(b) /\ Above31Bits(b) -> [error |-> "TooBig", len |-> 0]
    [] OTHER -> [error |-> "no", len |-> Low(b)]

(* Faulty variant: any two-byte length is taken.                           *)
ShortLengthLax(b) == [error |-> "no", len |-> b[1] * 256 + b[2]]

ShortLength(b) ==
  LET n == b[1] * 256 + b[2]
  IN  [error |-> IF n < 126 THEN "NotMinimal" ELSE "no", len |-> n]

PayloadInfo(s) ==
  LET more == SubSeq(s, 3, 2 + Extra(s[2]))
  IN  CASE Extra(s[2]) = 2 -> ShortLength(more)
        [] Extra(s[2]) = 8 -> LongLength(more)
        [] OTHER -> [error |-> "no", len |-> s[2] % 128]

HeadError(head) ==
  CASE (head \div 16) % 8 # 0 -> "Reserved"
    [] (head \div 16) % 8 = 0 /\ ~HasOp(head) -> "OpCode"
    [] OTHER -> IF OpOf(head) \in Control /\ head < 128 THEN "Fragmented" ELSE "no"

ControlError(op, len) ==
  CASE op \in Control /\ len > 125 -> "LongControl"
    [] op = "Close" /\ len = 1 -> "CloseLength"
    [] OTHER -> "no"

(* What is wrong with the header at the start of s, tested in this order.  *)
Error(s) ==
  IF HeadError(s[1]) # "no" THEN HeadError(s[1])
  ELSE LET info == PayloadInfo(s)
       IN  IF info.error # "no" THEN info.error
                                ELSE ControlError(OpOf(s[1]), info.len)

Decoded(s) == [op |-> OpOf(s[1]), fin |-> s[1] >= 128,
               masked |-> s[2] >= 128, len |-> PayloadInfo(s).len]

HeaderLength(s) == 2 + Extra(s[2]) + (IF s[2] >= 128 THEN 4 ELSE 0)

(* What another implementation sends is one header, with Key if masked.    *)
ASSUME RawAssumption ==
  \A b \in RawHeader :
    /\ Len(b) >= 2 /\ Len(b) = HeaderLength(b)
    /\ b[2] >= 128 => \A i \in 1..4 : b[Len(b) - 4 + i] = Key[i]

ReadFrame ==
  /\ stream # <<>> /\ refused = "no"
  /\ Error(stream) = "no"
  /\ got' = Append(got, Decoded(stream))
  /\ consumed' = consumed \o SubSeq(stream, 1, HeaderLength(stream))
  /\ stream' = SubSeq(stream, HeaderLength(stream) + 1, Len(stream))
  /\ UNCHANGED <<sender, written, refused>>

RefuseFrame ==
  /\ stream # <<>> /\ refused = "no"
  /\ Error(stream) # "no"
  /\ refused' = Error(stream)
  /\ UNCHANGED <<sender, stream, written, got, consumed>>

-----------------------------------------------------------------------------

Next ==
  \/ \E f \in Frame : WriteFrame(f)
  \/ \E bytes \in RawHeader : WriteRaw(bytes)
  \/ ReadFrame
  \/ RefuseFrame

Spec == Init /\ [][Next]_vars

-----------------------------------------------------------------------------
(* Every frame that write produces is read as it was, none is refused and  *)
(* the next one is found where it begins (NanoWSD.java:432-453, 694-732).  *)
RoundTrip ==
  sender = "NanoWSD" =>
    /\ refused = "no"
    /\ Len(got) <= Len(written)
    /\ \A i \in DOMAIN got : got[i] = written[i]
    /\ stream = <<>> => Len(got) = Len(written)

(* The other way round: whatever bytes came, a frame that was accepted is  *)
(* written as the bytes it was read from, so no length is accepted in two  *)
(* forms and no length is taken for another (NanoWSD.java:606-646).        *)
Canonical == sender = "other" /\ got # <<>> => consumed = Header(got[1])
=============================================================================
