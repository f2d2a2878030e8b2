------------------------------- MODULE Frames -------------------------------
(***************************************************************************)
(* Encoding, decoding and framing of messages (proto/src/lib.rs).          *)
(*                                                                         *)
(* A message is the sequence of bytes postcard makes of it, never empty.   *)
(* encode puts a tag in front and may compress it; on a byte stream        *)
(* encode_frame puts the length in front of that, and FrameDecoder takes   *)
(* the stream, in whatever pieces it arrives, apart again.                 *)
(***************************************************************************)
EXTENDS Integers, Sequences

CONSTANTS
    COMPRESS_MIN,        \* the least length worth compressing
    MAX_FRAME            \* the greatest length of a frame

ASSUME FramesAssumption ==
    COMPRESS_MIN \in Nat /\ MAX_FRAME \in Nat /\ MAX_FRAME <= 2147483647

Byte == 0 .. 255
ENC_RAW == 0
ENC_ZSTD == 1

\* zstd, as a run-length code: it shortens what repeats, lengthens what does
\* not, and gives back what went in unless that exceeds the capacity.
Repeats(body) == Len(body) \in 1 .. 255 /\ \A i \in 1 .. Len(body) : body[i] = body[1]
Compress(body) == IF Repeats(body) THEN <<body[1], Len(body)>> ELSE Append(body, 0)

Malformed == <<>>
Decompress(bytes, capacity) ==
    IF Len(bytes) = 2 /\ bytes[2] <= capacity
    THEN [i \in 1 .. bytes[2] |-> bytes[1]]
    ELSE Malformed

Encode(body) ==
    IF Len(body) >= COMPRESS_MIN /\ Len(Compress(body)) < Len(body)
    THEN <<ENC_ZSTD>> \o Compress(body)
    ELSE <<ENC_RAW>> \o body

Decode(bytes) ==
    IF bytes = <<>> THEN Malformed
    ELSE IF bytes[1] = ENC_RAW THEN Tail(bytes)
    ELSE IF bytes[1] = ENC_ZSTD THEN Decompress(Tail(bytes), MAX_FRAME)
    ELSE Malformed

-----------------------------------------------------------------------------
\* u32::to_be_bytes of a length cast to u32, and u32::from_be_bytes.
ToBeBytes(n) ==
    <<(n \div 16777216) % 256, (n \div 65536) % 256, (n \div 256) % 256, n % 256>>
FromBeBytes(buf) == buf[1] * 16777216 + buf[2] * 65536 + buf[3] * 256 + buf[4]

\* The length prefix put in front of an encoded message.
Framed(bytes) == ToBeBytes(Len(bytes)) \o bytes
EncodeFrame(body) == Framed(Encode(body))

\* FrameDecoder.next_frame: what it returns, and what stays in the buffer.
NoFrame(buf) == [kind |-> "none", frame |-> <<>>, rest |-> buf]
OversizedFrame(buf) == [kind |-> "oversized", frame |-> <<>>, rest |-> buf]
Frame(bytes, rest) == [kind |-> "frame", frame |-> bytes, rest |-> rest]

\* Faulty: the limit counts the length prefix too.
NextFrameTighter(buf) ==
    IF Len(buf) < 4 THEN NoFrame(buf)
    ELSE LET len == FromBeBytes(buf) IN
         IF 4 + len > MAX_FRAME THEN OversizedFrame(buf)
         ELSE IF Len(buf) < 4 + len THEN NoFrame(buf)
         ELSE Frame(SubSeq(buf, 5, 4 + len), SubSeq(buf, 5 + len, Len(buf)))

NextFrame(buf) ==
    IF Len(buf) < 4 THEN NoFrame(buf)
    ELSE LET len == FromBeBytes(buf) IN
         IF len > MAX_FRAME THEN OversizedFrame(buf)
         ELSE IF Len(buf) < 4 + len THEN NoFrame(buf)
         ELSE Frame(SubSeq(buf, 5, 4 + len), SubSeq(buf, 5 + len, Len(buf)))
=============================================================================
