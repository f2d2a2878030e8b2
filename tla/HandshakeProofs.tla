-------------------------- MODULE HandshakeProofs ---------------------------
(***************************************************************************)
(* Proofs about the handshake: encoding and framing, for messages and      *)
(* frames of every length; authentication, for any number of connections   *)
(* and keys; and the streams of the connections, however they are cut.     *)
(***************************************************************************)
EXTENDS Handshake, SequenceTheorems, TLAPS

\* A leaf that names no prover is Zenon's; what needs arithmetic goes to SMT.
USE ZenonT(60)

\* The lengths whose prefix is looked at here; MAX_FRAME is one of them.
MaxLength == 2147483647

LEMMA LimitFits == MAX_FRAME \in Nat /\ MAX_FRAME <= MaxLength
  BY FramesAssumption, SMTT(60) DEF MaxLength

\* The length prefix is read back as it was written, whatever follows it.
LEMMA LengthReadBack ==
    ASSUME NEW n \in Nat, n <= MaxLength, NEW s \in Seq(Byte)
    PROVE  /\ ToBeBytes(n) \in Seq(Byte) /\ Len(ToBeBytes(n)) = 4
           /\ FromBeBytes(ToBeBytes(n) \o s) = n
<1> DEFINE a == (n \div 16777216) % 256
           b == (n \div 65536) % 256
           d == (n \div 256) % 256
           e == n % 256
           v == a * 16777216 + b * 65536 + d * 256 + e
<1>1. a \in Byte /\ b \in Byte /\ d \in Byte /\ e \in Byte
  BY SMTT(60) DEF Byte
<1>2. n = v
  BY SMTT(60) DEF MaxLength
<1>3. ToBeBytes(n) = <<a, b, d, e>>
  BY SMTT(60) DEF ToBeBytes
<1> HIDE DEF a, b, d, e
<1>4. <<a, b, d, e>> \in Seq(Byte) /\ Len(<<a, b, d, e>>) = 4
  BY <1>1, SMTT(60)
<1>5. /\ (<<a, b, d, e>> \o s)[1] = a /\ (<<a, b, d, e>> \o s)[2] = b
      /\ (<<a, b, d, e>> \o s)[3] = d /\ (<<a, b, d, e>> \o s)[4] = e
  BY <1>1, <1>4, SMTT(60)
<1>6. FromBeBytes(<<a, b, d, e>> \o s) = v
  BY <1>5, SMTT(60) DEF FromBeBytes
<1> HIDE DEF v
<1> QED
  BY <1>2, <1>3, <1>4, <1>6, SMTT(60)

-----------------------------------------------------------------------------
\* A frame in the decoder's buffer: what its parts are.
LEMMA FramedParts ==
    ASSUME NEW bytes \in Seq(Byte), Len(bytes) <= MaxLength, NEW rest \in Seq(Byte)
    PROVE  /\ Framed(bytes) \o rest \in Seq(Byte)
           /\ Len(Framed(bytes) \o rest) = 4 + Len(bytes) + Len(rest)
           /\ FromBeBytes(Framed(bytes) \o rest) = Len(bytes)
           /\ \A i \in 1 .. Len(bytes) : (Framed(bytes) \o rest)[4 + i] = bytes[i]
           /\ \A i \in 1 .. Len(rest) : (Framed(bytes) \o rest)[4 + Len(bytes) + i] = rest[i]
<1> DEFINE prefix == ToBeBytes(Len(bytes))
           body == bytes \o rest
<1>1. /\ Len(bytes) \in Nat /\ Len(rest) \in Nat
      /\ body \in Seq(Byte) /\ Len(body) = Len(bytes) + Len(rest)
      /\ \A i \in 1 .. Len(bytes) + Len(rest) :
            body[i] = IF i <= Len(bytes) THEN bytes[i] ELSE rest[i - Len(bytes)]
  BY ConcatProperties, LenProperties, SMTT(60)
<1> HIDE DEF body
<1>2. prefix \in Seq(Byte) /\ Len(prefix) = 4 /\ FromBeBytes(prefix \o body) = Len(bytes)
  BY <1>1, LengthReadBack, SMTT(60)
<1>3. Framed(bytes) = prefix \o bytes
  BY SMTT(60) DEF Framed
<1> HIDE DEF prefix
<1>4. prefix \in Seq(Byte) /\ body \in Seq(Byte)
  BY <1>1, <1>2, SMTT(60)
<1>5. (prefix \o bytes) \o rest = prefix \o (bytes \o rest)
  BY <1>4, ConcatAssociative, SMTT(60)
<1>6. Framed(bytes) \o rest = prefix \o body
  BY <1>3, <1>5, SMTT(60) DEF body
<1>7. /\ prefix \o body \in Seq(Byte)
      /\ Len(prefix \o body) = Len(prefix) + Len(body)
      /\ \A i \in 1 .. Len(prefix) + Len(body) :
            (prefix \o body)[i] = IF i <= Len(prefix) THEN prefix[i] ELSE body[i - Len(prefix)]
  BY <1>4, ConcatProperties, Zenon
<1> DEFINE buf == prefix \o body
<1> HIDE DEF buf
<1>8. /\ buf \in Seq(Byte) /\ Len(buf) = 4 + Len(bytes) + Len(rest)
      /\ FromBeBytes(buf) = Len(bytes)
      /\ \A i \in 1 .. Len(body) : buf[4 + i] = body[i]
  <2>1. \A i \in 1 .. 4 + Len(body) : buf[i] = IF i <= 4 THEN prefix[i] ELSE body[i - 4]
    BY <1>2, <1>7, SMTT(60) DEF buf
  <2>2. \A i \in 1 .. Len(body) : buf[4 + i] = body[i]
    <3> SUFFICES ASSUME NEW i \in 1 .. Len(body) PROVE buf[4 + i] = body[i]
      BY SMTT(60)
    <3>1. 4 + i \in 1 .. 4 + Len(body) /\ ~(4 + i <= 4) /\ (4 + i) - 4 = i
      BY <1>1, SMTT(60)
    <3> QED
      BY <2>1, <3>1, SMTT(60)
  <2> QED
    BY <1>1, <1>2, <1>7, <2>2, SMTT(60) DEF buf
<1>9. \A i \in 1 .. Len(bytes) : buf[4 + i] = bytes[i]
  BY <1>1, <1>8, SMTT(60)
<1>10. \A i \in 1 .. Len(rest) : buf[4 + Len(bytes) + i] = rest[i]
  <2> SUFFICES ASSUME NEW i \in 1 .. Len(rest) PROVE buf[4 + Len(bytes) + i] = rest[i]
    BY SMTT(60)
  <2>1. /\ Len(bytes) + i \in 1 .. Len(body) /\ ~(Len(bytes) + i <= Len(bytes))
        /\ (Len(bytes) + i) - Len(bytes) = i /\ 4 + (Len(bytes) + i) = 4 + Len(bytes) + i
    BY <1>1, SMTT(60)
  <2>2. buf[4 + (Len(bytes) + i)] = body[Len(bytes) + i]
    BY <1>8, <2>1, SMTT(60)
  <2> QED
    BY <1>1, <2>1, <2>2, SMTT(60)
<1> QED
  BY <1>6, <1>8, <1>9, <1>10, Zenon DEF buf

\* next_frame gives back the frame that encode_frame made and leaves exactly what
\* follows it, for every frame up to MAX_FRAME and whatever has arrived after it.
THEOREM FrameExact ==
    ASSUME NEW bytes \in Seq(Byte), Len(bytes) <= MAX_FRAME, NEW rest \in Seq(Byte)
    PROVE  NextFrame(Framed(bytes) \o rest) = Frame(bytes, rest)
<1> DEFINE buf == Framed(bytes) \o rest
           len == Len(bytes)
<1>1. len \in Nat /\ len <= MaxLength /\ MAX_FRAME \in Nat
  BY LimitFits, SMTT(60) DEF MaxLength
<1>2. /\ buf \in Seq(Byte) /\ Len(buf) = 4 + len + Len(rest) /\ FromBeBytes(buf) = len
      /\ \A i \in 1 .. len : buf[4 + i] = bytes[i]
      /\ \A i \in 1 .. Len(rest) : buf[4 + len + i] = rest[i]
  BY <1>1, FramedParts, Zenon
<1> HIDE DEF buf
<1>3. SubSeq(buf, 5, 4 + len) = bytes
  BY <1>1, <1>2, SMTT(60)
<1>4. SubSeq(buf, 5 + len, Len(buf)) = rest
  BY <1>1, <1>2, SMTT(60)
<1>5. ~(Len(buf) < 4) /\ ~(len > MAX_FRAME) /\ ~(Len(buf) < 4 + len)
  BY <1>1, <1>2, SMTT(60)
<1>6. NextFrame(buf) = Frame(SubSeq(buf, 5, 4 + len), SubSeq(buf, 5 + len, Len(buf)))
  BY <1>2, <1>5, SMTT(60) DEF NextFrame
<1> QED
  BY <1>3, <1>4, <1>6, Zenon DEF buf

\* As long as any byte of a frame is missing, next_frame waits and keeps what it
\* has: a chunk may end anywhere, in the length prefix too.
THEOREM FrameAwaited ==
    ASSUME NEW bytes \in Seq(Byte), Len(bytes) <= MAX_FRAME,
           NEW buf \in Seq(Byte), NEW missing \in Seq(Byte), missing # <<>>,
           buf \o missing = Framed(bytes)
    PROVE  NextFrame(buf) = NoFrame(buf)
<1>1. Len(bytes) \in Nat /\ Len(bytes) <= MaxLength /\ MAX_FRAME \in Nat
  BY LimitFits, SMTT(60) DEF MaxLength
<1>2. Framed(bytes) \o <<>> = Framed(bytes) /\ <<>> \in Seq(Byte) /\ Len(<<>>) = 0
  <2>1. Framed(bytes) \in Seq(Byte)
    BY ConcatProperties, Zenon
  <2> QED
    BY <2>1, ConcatEmptySeq, SMTT(60)
<1>3. Len(Framed(bytes)) = 4 + Len(bytes) /\ FromBeBytes(Framed(bytes)) = Len(bytes)
  <2>1. /\ Len(Framed(bytes) \o <<>>) = 4 + Len(bytes) + Len(<<>>)
        /\ FromBeBytes(Framed(bytes) \o <<>>) = Len(bytes)
    BY <1>1, <1>2, FramedParts, Zenon
  <2> QED
    BY <1>1, <1>2, <2>1, SMTT(60)
<1>4. Len(buf) < 4 + Len(bytes)
  BY <1>1, <1>3, SMTT(60)
<1>5. CASE Len(buf) < 4
  BY <1>5, SMTT(60) DEF NextFrame
<1>6. CASE ~(Len(buf) < 4)
  <2>1. \A i \in 1 .. 4 : Framed(bytes)[i] = buf[i]
    BY <1>6, SMTT(60)
  <2>2. FromBeBytes(buf) = Len(bytes)
    <3>1. FromBeBytes(buf) = FromBeBytes(Framed(bytes))
      BY <2>1, SMTT(60) DEF FromBeBytes
    <3> QED
      BY <1>3, <3>1, SMTT(60)
  <2>3. ~(Len(bytes) > MAX_FRAME)
    BY <1>1, SMTT(60)
  <2> QED
    BY <1>4, <1>6, <2>2, <2>3, SMTT(60) DEF NextFrame
<1> QED
  BY <1>5, <1>6, SMTT(60)

\* A frame longer than MAX_FRAME is refused as soon as its length is there.
THEOREM OversizedRefused ==
    ASSUME NEW bytes \in Seq(Byte), MAX_FRAME < Len(bytes), Len(bytes) <= MaxLength,
           NEW rest \in Seq(Byte)
    PROVE  NextFrame(Framed(bytes) \o rest) = OversizedFrame(Framed(bytes) \o rest)
<1> DEFINE buf == Framed(bytes) \o rest
<1>1. Len(buf) = 4 + Len(bytes) + Len(rest) /\ FromBeBytes(buf) = Len(bytes)
  BY FramedParts, SMTT(60)
<1> HIDE DEF buf
<1>2. ~(Len(buf) < 4)
  BY <1>1, SMTT(60)
<1>3. NextFrame(buf) = OversizedFrame(buf)
  BY <1>1, <1>2, SMTT(60) DEF NextFrame
<1> QED
  BY <1>3, SMTT(60) DEF buf

-----------------------------------------------------------------------------
\* decode undoes encode for every message up to MAX_FRAME, whether it was worth
\* compressing or not.
THEOREM DecodeUndoesEncode ==
    ASSUME NEW body \in Seq(Byte), body # <<>>, Len(body) <= MAX_FRAME
    PROVE  Decode(Encode(body)) = body
<1>1. Len(body) \in Nat \ {0} /\ MAX_FRAME \in Nat
  BY LimitFits, SMTT(60)
<1>2. CASE Len(body) >= COMPRESS_MIN /\ Len(Compress(body)) < Len(body)
  <2>1. Repeats(body)
    BY <1>1, <1>2, SMTT(60) DEF Compress
  <2> DEFINE packed == <<body[1], Len(body)>>
  <2>2. Encode(body) = <<1>> \o packed
    <3>1. Compress(body) = packed
      BY <2>1, SMTT(60) DEF Compress
    <3> QED
      BY <1>2, <3>1, SMTT(60) DEF Encode, ENC_ZSTD
  <2>3. packed \in Seq(Nat)
    <3>1. body[1] \in Byte
      BY <1>1, ElementOfSeq, SMTT(60)
    <3>2. body[1] \in Nat
      <4>1. \A byte \in Byte : byte \in Nat
        BY SMTT(60) DEF Byte
      <4> QED
        BY <3>1, <4>1, Zenon
    <3> QED
      BY <1>1, <3>2, SMTT(60)
  <2> HIDE DEF packed
  <2>4. Decode(Encode(body)) = Decompress(packed, MAX_FRAME)
    <3>1. <<1>> \o packed # <<>> /\ (<<1>> \o packed)[1] = 1 /\ Tail(<<1>> \o packed) = packed
      BY <2>3, SMTT(60)
    <3> DEFINE bytes == Encode(body)
    <3>2. bytes # <<>> /\ bytes[1] = 1 /\ Tail(bytes) = packed
      BY <2>2, <3>1, SMTT(60)
    <3> HIDE DEF bytes
    <3>3. Decode(bytes) = Decompress(packed, MAX_FRAME)
      <4>1. bytes[1] # ENC_RAW /\ bytes[1] = ENC_ZSTD
        BY <3>2, SMTT(60) DEF ENC_RAW, ENC_ZSTD
      <4> QED
        BY <3>2, <4>1, Zenon DEF Decode
    <3> QED
      BY <3>3, SMTT(60) DEF bytes
  <2>5. Decompress(packed, MAX_FRAME) = [i \in 1 .. Len(body) |-> body[1]]
    BY <1>1, SMTT(60) DEF Decompress, packed
  <2>6. [i \in 1 .. Len(body) |-> body[1]] = body
    BY <1>1, <2>1, SMTT(60) DEF Repeats
  <2> QED
    BY <2>4, <2>5, <2>6, SMTT(60)
<1>3. CASE ~(Len(body) >= COMPRESS_MIN /\ Len(Compress(body)) < Len(body))
  <2>1. Encode(body) = <<0>> \o body
    BY <1>3, SMTT(60) DEF Encode, ENC_RAW
  <2>2. <<0>> \o body # <<>> /\ (<<0>> \o body)[1] = 0 /\ Tail(<<0>> \o body) = body
    BY SMTT(60)
  <2> QED
    BY <2>1, <2>2, SMTT(60) DEF Decode, ENC_RAW
<1> QED
  BY <1>2, <1>3, SMTT(60)
-----------------------------------------------------------------------------
Waiting == {"queued", "fetch", "refetch"}

\* Strengthens TokensJudged: a token's key is published or older than one that
\* is, so it does not come back once retired; tokens that are decided without a
\* key wait for none.
JudgedInv ==
    /\ AuthTypeOK
    /\ \A c \in Conns : \E k \in published : token[c].key <= k
    /\ \A c \in Conns : verdict[c] \in Waiting => token[c].flow \notin {"static", "garbage"}
    /\ TokensJudged

-----------------------------------------------------------------------------
\* Oidc.verify accepts the claims of a flow exactly when the flow's tokens stand
\* for the allowed subject.
LEMMA ClaimsOfFlow ==
    ASSUME NEW flow \in DOMAIN Minted, allowed_sub \in {User, ClientId}
    PROVE  ClaimsAccepted(Minted[flow]) <=> allowed_sub \in Owner(flow)
<1>1. DOMAIN Minted = {"standard", "shared", "device", "credentials", "expired", "other_sub",
                       "other_aud", "other_app", "nobody"}
  BY DEF Minted
<1>2. CASE flow = "standard"
  BY <1>2 DEF Minted, Claims, ClaimsAccepted, Accepts, Owner, User, ClientId, None
<1>3. CASE flow = "shared"
  BY <1>3 DEF Minted, Claims, ClaimsAccepted, Accepts, Owner, User, ClientId, None
<1>4. CASE flow = "device"
  BY <1>4 DEF Minted, Claims, ClaimsAccepted, Accepts, Owner, User, ClientId, None
<1>5. CASE flow = "credentials"
  BY <1>5 DEF Minted, Claims, ClaimsAccepted, Accepts, Owner, User, ClientId, None
<1>6. CASE flow \in {"expired", "other_sub", "other_aud", "other_app", "nobody"}
  BY <1>6, SMTT(60) DEF Minted, Claims, ClaimsAccepted, Accepts, Owner, User, ClientId, None
<1> QED
  BY <1>1, <1>2, <1>3, <1>4, <1>5, <1>6

\* What Checked says of a token that has been matched with a key.
LEMMA CheckedRight ==
    ASSUME NEW t \in [flow : Flows, key : 0 .. MaxKey, kid : BOOLEAN], NEW key,
           allowed_sub \in {User, ClientId}, t.flow \notin {"static", "garbage"}
    PROVE  /\ Checked(t, key) \in {"accepted", "rejected"}
           /\ Checked(t, key) = "accepted" => allowed_sub \in Owner(t.flow)
           /\ Checked(t, key) = "rejected" /\ allowed_sub \in Owner(t.flow) => t.key # key
<1>1. Checked(t, key) \in {"accepted", "rejected"}
  BY DEF Checked
<1>2. CASE t.flow \in DOMAIN Minted
  BY <1>1, <1>2, ClaimsOfFlow DEF Checked
<1>3. CASE t.flow = "foreign"
  <2>1. Owner(t.flow) = {}
    BY <1>3 DEF Owner
  <2>2. t.flow \notin DOMAIN Minted
    BY <1>3 DEF Minted
  <2> QED
    BY <1>1, <2>1, <2>2 DEF Checked
<1> QED
  BY <1>2, <1>3 DEF Flows

-----------------------------------------------------------------------------
\* The invariant holds at first.
LEMMA JudgedInit == AuthInit => JudgedInv
<1> SUFFICES ASSUME AuthInit PROVE JudgedInv
  OBVIOUS
<1>1. AuthTypeOK
  BY AuthAssumption, SMTT(60) DEF AuthInit, AuthTypeOK, NoToken, Token, ForeignKey, Flows
<1>2. \A c \in Conns : token[c].key = 0 /\ verdict[c] = "none"
  BY DEF AuthInit, NoToken, Token, ForeignKey
<1>3. published = {1}
  BY DEF AuthInit
<1> QED
  BY <1>1, <1>2, <1>3, SMTT(60) DEF JudgedInv, TokensJudged, Waiting

\* A token got before the Hello is sent: nothing has been said of it yet.
LEMMA PresentJudged ==
    ASSUME JudgedInv, NEW c \in Conns, NEW flow \in Flows, Present(c, flow)
    PROVE  JudgedInv'
<1>1. PICK t \in Tokens(flow) : token' = [token EXCEPT ![c] = t]
  BY DEF Present
<1>2. UNCHANGED <<allowed_sub, verdict, jwks, mutex, published>> /\ verdict[c] = "none"
  BY DEF Present
<1>3. AuthTypeOK /\ TokensJudged
  BY DEF JudgedInv
<1>4. PICK k \in published : TRUE
  BY DEF JudgedInv
<1>5. published \subseteq 1 .. MaxKey
  BY <1>3 DEF AuthTypeOK
<1>6. t \in [flow : Flows, key : 0 .. MaxKey, kid : BOOLEAN] /\ t.key \in {0} \cup published
  <2>1. \E key \in {0} \cup published, kid \in BOOLEAN : t = Token(flow, key, kid)
    <3>1. CASE flow \in DOMAIN Minted
      <4>1. Tokens(flow) = {Token(flow, key, kid) : key \in published, kid \in BOOLEAN}
        <5>1. flow # "foreign"
          BY <3>1 DEF Minted
        <5> QED
          BY <3>1, <5>1, SMTT(60) DEF Tokens
      <4> QED
        BY <4>1, SMTT(60)
    <3>2. CASE flow = "foreign" /\ flow \notin DOMAIN Minted
      <4>1. Tokens(flow) = {Token(flow, 0, kid) : kid \in BOOLEAN}
        BY <3>2, SMTT(60) DEF Tokens, ForeignKey
      <4> QED
        BY <4>1
    <3>3. CASE flow # "foreign" /\ flow \notin DOMAIN Minted
      <4>1. Tokens(flow) = {Token(flow, 0, FALSE)}
        BY <3>3, SMTT(60) DEF Tokens, ForeignKey
      <4> QED
        BY <4>1
    <3> QED
      BY <3>1, <3>2, <3>3
  <2>2. PICK key \in {0} \cup published, kid \in BOOLEAN : t = Token(flow, key, kid)
    BY <2>1
  <2>3. key \in 0 .. MaxKey
    BY <1>5, AuthAssumption, SMTT(60)
  <2> QED
    BY <2>2, <2>3 DEF Token
<1>7. AuthTypeOK'
  BY <1>1, <1>2, <1>3, <1>6 DEF AuthTypeOK
<1>8. \A d \in Conns : d # c => token'[d] = token[d]
  BY <1>1, <1>3 DEF AuthTypeOK
<1>9. token'[c] = t
  BY <1>1, <1>3 DEF AuthTypeOK
<1>10. (\A d \in Conns : \E j \in published : token[d].key <= j)'
  <2> SUFFICES ASSUME NEW d \in Conns PROVE \E j \in published : token'[d].key <= j
    BY <1>2
  <2>1. CASE d = c
    BY <1>4, <1>5, <1>6, <1>9, <2>1, SMTT(60)
  <2>2. CASE d # c
    BY <1>8, <2>2 DEF JudgedInv
  <2> QED
    BY <2>1, <2>2
<1>11. (\A d \in Conns : verdict[d] \in Waiting => token[d].flow \notin {"static", "garbage"})'
  BY <1>2, <1>8 DEF JudgedInv, Waiting
<1>12. TokensJudged'
  BY <1>2, <1>3, <1>8 DEF TokensJudged, Owner
<1> QED
  BY <1>7, <1>10, <1>11, <1>12 DEF JudgedInv

\* A step that changes one verdict, to one that is right, keeps the invariant.
LEMMA VerdictJudged ==
    ASSUME JudgedInv, NEW c \in Conns,
           NEW v \in {"queued", "fetch", "refetch", "accepted", "rejected", "unreachable"},
           verdict' = [verdict EXCEPT ![c] = v],
           UNCHANGED <<allowed_sub, token, published>>,
           jwks' \subseteq 1 .. MaxKey, mutex' \in Conns \cup {0},
           v \in Waiting => token[c].flow \notin {"static", "garbage"},
           v = "accepted" => allowed_sub \in Owner(token[c].flow),
           v = "rejected" /\ allowed_sub \in Owner(token[c].flow) /\ token[c].kid
              => token[c].key \notin published
    PROVE  JudgedInv'
<1>1. AuthTypeOK'
  BY DEF JudgedInv, AuthTypeOK
<1>2. \A d \in Conns : verdict'[d] = IF d = c THEN v ELSE verdict[d]
  BY DEF JudgedInv, AuthTypeOK
<1>3. (\A d \in Conns : \E k \in published : token[d].key <= k)'
  BY DEF JudgedInv
<1>4. (\A d \in Conns : verdict[d] \in Waiting => token[d].flow \notin {"static", "garbage"})'
  BY <1>2 DEF JudgedInv
<1>5. TokensJudged'
  BY <1>2, SMTT(60) DEF JudgedInv, TokensJudged, Owner
<1> QED
  BY <1>1, <1>3, <1>4, <1>5 DEF JudgedInv

\* Auth.verify: the static token is anybody's, what is no JWT nobody's.
LEMMA VerifyJudged ==
    ASSUME JudgedInv, NEW c \in Conns, Verify(c)
    PROVE  JudgedInv'
<1> DEFINE v == CASE token[c].flow = "static" -> "accepted"
                  [] token[c].flow = "garbage" -> "rejected"
                  [] OTHER -> "queued"
<1>1. verdict' = [verdict EXCEPT ![c] = v]
  BY DEF Verify
<1>2. UNCHANGED <<allowed_sub, token, jwks, mutex, published>>
  BY DEF Verify
<1>3. jwks' \subseteq 1 .. MaxKey /\ mutex' \in Conns \cup {0} /\ allowed_sub \in {User, ClientId}
  BY <1>2 DEF JudgedInv, AuthTypeOK
<1>4. CASE token[c].flow = "static"
  <2>1. v = "accepted" /\ allowed_sub \in Owner(token[c].flow)
    BY <1>3, <1>4 DEF Owner
  <2> HIDE DEF v
  <2> QED
    BY <1>1, <1>2, <1>3, <2>1, VerdictJudged DEF Waiting
<1>5. CASE token[c].flow = "garbage"
  <2>1. v = "rejected" /\ Owner(token[c].flow) = {}
    BY <1>5 DEF Owner
  <2> HIDE DEF v
  <2> QED
    BY <1>1, <1>2, <1>3, <2>1, VerdictJudged DEF Waiting
<1>6. CASE token[c].flow \notin {"static", "garbage"}
  <2>1. v = "queued"
    BY <1>6
  <2> HIDE DEF v
  <2> QED
    BY <1>1, <1>2, <1>3, <1>6, <2>1, VerdictJudged DEF Waiting
<1> QED
  BY <1>4, <1>5, <1>6

\* decoding_key and the checks that follow it, with a key of the given set: what
\* is found is judged right, and what a header names and is not found is not
\* there.
LEMMA SelectedJudged ==
    ASSUME JudgedInv, NEW c \in Conns, NEW S, NEW key \in Selected(token[c], S),
           verdict[c] \in Waiting,
           verdict' = [verdict EXCEPT ![c] = Checked(token[c], key)],
           UNCHANGED <<allowed_sub, token, published>>,
           jwks' \subseteq 1 .. MaxKey, mutex' \in Conns \cup {0}
    PROVE  JudgedInv'
<1>1. /\ token[c] \in [flow : Flows, key : 0 .. MaxKey, kid : BOOLEAN]
      /\ allowed_sub \in {User, ClientId} /\ token[c].flow \notin {"static", "garbage"}
  BY DEF JudgedInv, AuthTypeOK
<1>2. /\ Checked(token[c], key) \in {"accepted", "rejected"}
      /\ Checked(token[c], key) = "accepted" => allowed_sub \in Owner(token[c].flow)
      /\ Checked(token[c], key) = "rejected" /\ allowed_sub \in Owner(token[c].flow)
            => token[c].key # key
  BY <1>1, CheckedRight, SMTT(60)
<1>3. token[c].kid => token[c].key = key
  BY DEF Selected
<1> QED
  BY <1>2, <1>3, VerdictJudged DEF Waiting

LEMMA DecodingKeyJudged ==
    ASSUME JudgedInv, NEW c \in Conns, DecodingKey(c)
    PROVE  JudgedInv'
<1>1. /\ verdict[c] \in Waiting /\ token[c].flow \notin {"static", "garbage"}
      /\ UNCHANGED <<allowed_sub, token, jwks, published>>
      /\ jwks' \subseteq 1 .. MaxKey /\ mutex \in Conns \cup {0}
  BY DEF DecodingKey, JudgedInv, AuthTypeOK, Waiting
<1>2. CASE verdict' = [verdict EXCEPT ![c] = "fetch"] /\ mutex' = c
  BY <1>1, <1>2, VerdictJudged DEF Waiting
<1>3. CASE verdict' = [verdict EXCEPT ![c] = "refetch"] /\ mutex' = c
  BY <1>1, <1>3, VerdictJudged DEF Waiting
<1>4. ASSUME NEW key \in Selected(token[c], jwks),
             verdict' = [verdict EXCEPT ![c] = Checked(token[c], key)], UNCHANGED mutex
      PROVE  JudgedInv'
  BY <1>1, <1>4, SelectedJudged
<1> QED
  BY <1>2, <1>3, <1>4 DEF DecodingKey

LEMMA FetchJwksJudged ==
    ASSUME JudgedInv, NEW c \in Conns, FetchJwks(c)
    PROVE  JudgedInv'
<1>1. /\ verdict[c] \in Waiting /\ token[c].flow \notin {"static", "garbage"}
      /\ UNCHANGED <<allowed_sub, token, published>> /\ mutex \in Conns \cup {0}
      /\ jwks' \subseteq 1 .. MaxKey
  BY DEF FetchJwks, JudgedInv, AuthTypeOK, Waiting
<1>2. CASE verdict' = [verdict EXCEPT ![c] = "refetch"] /\ UNCHANGED mutex
  BY <1>1, <1>2, VerdictJudged DEF Waiting
<1>3. CASE /\ Selected(token[c], published) = {}
           /\ verdict' = [verdict EXCEPT ![c] = "rejected"] /\ mutex' = 0
  <2>1. token[c].kid => token[c].key \notin published
    BY <1>3 DEF Selected
  <2> QED
    BY <1>1, <1>3, <2>1, VerdictJudged DEF Waiting
<1>4. ASSUME NEW key \in Selected(token[c], published),
             verdict' = [verdict EXCEPT ![c] = Checked(token[c], key)], mutex' = 0
      PROVE  JudgedInv'
  BY <1>1, <1>4, SelectedJudged
<1> QED
  BY <1>2, <1>3, <1>4 DEF FetchJwks

LEMMA FetchFailsJudged ==
    ASSUME JudgedInv, NEW c \in Conns, FetchFails(c)
    PROVE  JudgedInv'
<1>1. /\ verdict' = [verdict EXCEPT ![c] = "unreachable"]
      /\ UNCHANGED <<allowed_sub, token, published>>
      /\ jwks' \subseteq 1 .. MaxKey /\ mutex' \in Conns \cup {0}
  BY DEF FetchFails, JudgedInv, AuthTypeOK
<1> QED
  BY <1>1, VerdictJudged DEF Waiting

\* A new key is no token's yet: a refused token stays refused rightly.
LEMMA PublishKeyJudged ==
    ASSUME JudgedInv, PublishKey
    PROVE  JudgedInv'
<1>1. PICK key \in 1 .. MaxKey : /\ \A k \in published : k < key
                                 /\ published' = published \cup {key}
  BY DEF PublishKey
<1>2. UNCHANGED <<allowed_sub, token, verdict, jwks, mutex>>
  BY DEF PublishKey
<1>3. AuthTypeOK /\ TokensJudged
  BY DEF JudgedInv
<1>4. AuthTypeOK'
  BY <1>1, <1>2, <1>3 DEF AuthTypeOK
<1>5. (\A c \in Conns : \E k \in published : token[c].key <= k)'
  BY <1>1, <1>2 DEF JudgedInv
<1>6. \A c \in Conns : token[c].key # key
  <2> SUFFICES ASSUME NEW c \in Conns PROVE token[c].key # key
    OBVIOUS
  <2>1. PICK k \in published : token[c].key <= k
    BY DEF JudgedInv
  <2>2. token[c].key \in Int /\ k \in Int /\ k < key
    BY <1>1, <1>3, SMTT(60) DEF AuthTypeOK
  <2> QED
    BY <2>1, <2>2, SMTT(60)
<1>7. TokensJudged'
  BY <1>1, <1>2, <1>3, <1>6 DEF TokensJudged, Owner
<1>8. (\A c \in Conns : verdict[c] \in Waiting => token[c].flow \notin {"static", "garbage"})'
  BY <1>2 DEF JudgedInv
<1> QED
  BY <1>4, <1>5, <1>7, <1>8 DEF JudgedInv

\* The oldest key goes: a younger one remains above every token's.
LEMMA RetireKeyJudged ==
    ASSUME JudgedInv, RetireKey
    PROVE  JudgedInv'
<1>1. PICK key \in published : /\ published # {key} /\ \A k \in published : key <= k
                               /\ published' = published \ {key}
  BY DEF RetireKey
<1>2. UNCHANGED <<allowed_sub, token, verdict, jwks, mutex>>
  BY DEF RetireKey
<1>3. AuthTypeOK /\ TokensJudged
  BY DEF JudgedInv
<1>4. AuthTypeOK'
  BY <1>1, <1>2, <1>3 DEF AuthTypeOK
<1>5. (\A c \in Conns : \E k \in published : token[c].key <= k)'
  <2> SUFFICES ASSUME NEW c \in Conns PROVE \E k \in published' : token[c].key <= k
    BY <1>2
  <2>1. PICK k \in published : token[c].key <= k
    BY DEF JudgedInv
  <2>2. PICK j \in published : j # key
    BY <1>1
  <2>3. token[c].key \in Int /\ k \in Int /\ j \in Int /\ key \in Int /\ key <= j
    BY <1>1, <1>3, SMTT(60) DEF AuthTypeOK
  <2>4. CASE k = key
    BY <1>1, <2>1, <2>2, <2>3, <2>4, SMTT(60)
  <2>5. CASE k # key
    BY <1>1, <2>1, <2>5
  <2> QED
    BY <2>4, <2>5
<1>6. TokensJudged'
  BY <1>1, <1>2, <1>3 DEF TokensJudged, Owner
<1>7. (\A c \in Conns : verdict[c] \in Waiting => token[c].flow \notin {"static", "garbage"})'
  BY <1>2 DEF JudgedInv
<1> QED
  BY <1>4, <1>5, <1>6, <1>7 DEF JudgedInv

-----------------------------------------------------------------------------
\* A step of the handshake is a step of authentication or leaves it alone.
LEMMA HandshakeStep ==
    ASSUME SetupAssumption, setup \in Setups, [Next]_vars
    PROVE  (AuthNext \/ UNCHANGED authVars) /\ setup' \in Setups
<1>1. CASE UNCHANGED vars
  BY <1>1 DEF vars, given
<1>2. ASSUME NEW c \in Conns, ClientStep(c) \/ ClientStdin(c) \/ ConnectTimeout(c)
      PROVE  (AuthNext \/ UNCHANGED authVars) /\ setup' \in Setups
  <2>1. CASE SendHello(c)
    <3>1. PICK flow \in setup.flows[c] : Present(c, flow)
      BY <2>1 DEF SendHello
    <3>2. flow \in Flows
      BY SetupAssumption
    <3>3. setup' = setup
      BY <2>1 DEF SendHello, given
    <3> QED
      BY <3>1, <3>2, <3>3 DEF AuthNext
  <2>2. CASE ~SendHello(c)
    BY <1>2, <2>2 DEF ClientStep, Connect, ConnectWs, Connected, SendRequest, ClientChunk,
       ClientRecv, ClientClosed, ClientLost, ClientStdin, ConnectTimeout, GiveUp, given
  <2> QED
    BY <2>1, <2>2
<1>3. ASSUME NEW c \in Conns, ServerStep(c) \/ ServerOutput(c) \/ ServerLost(c) \/ Cut(c)
      PROVE  (AuthNext \/ UNCHANGED authVars) /\ setup' \in Setups
  <2>1. CASE ServerHello(c)
    BY <2>1 DEF ServerHello, AuthNext, given
  <2>2. CASE (DecodingKey(c) \/ FetchJwks(c) \/ FetchFails(c)) /\ Aside
    BY <2>2 DEF Aside, AuthNext, given
  <2>3. CASE \/ ServerChunk(c) \/ ServerVerified(c) \/ ServerRequest(c) \/ ServerStdin(c)
             \/ ServerRefuses(c) \/ ServerOutput(c) \/ ServerLost(c) \/ Cut(c)
    BY <2>3 DEF ServerChunk, ServerVerified, ServerRequest, ServerStdin, ServerRefuses, ServerFails,
       ServerOutput, ServerLost, Cut, given
  <2> QED
    BY <1>3, <2>1, <2>2, <2>3 DEF ServerStep
<1>4. CASE (PublishKey \/ RetireKey) /\ Aside
  BY <1>4 DEF AuthNext, Aside, given
<1> QED
  BY <1>1, <1>2, <1>3, <1>4 DEF Next

LEMMA AuthStepJudged ==
    ASSUME JudgedInv, AuthNext \/ UNCHANGED authVars
    PROVE  JudgedInv'
<1>1. CASE UNCHANGED authVars
  BY <1>1 DEF authVars, JudgedInv, AuthTypeOK, TokensJudged
<1>2. CASE AuthNext
  BY <1>2, PresentJudged, VerifyJudged, DecodingKeyJudged, FetchJwksJudged, FetchFailsJudged,
     PublishKeyJudged, RetireKeyJudged DEF AuthNext
<1> QED
  BY <1>1, <1>2

\* For any number of connections and keys, whatever is cached when and whoever
\* fetched it: Auth.verify accepts only the static token and valid tokens of the
\* allowed subject issued to this client, and refuses such a token that names its
\* key only when that key has been retired or the issuer cannot be reached.
THEOREM TokensAlwaysJudged == Spec => []TokensJudged
<1>1. Init => JudgedInv /\ setup \in Setups
  BY JudgedInit DEF Init
<1>2. JudgedInv /\ setup \in Setups /\ [Next]_vars => JudgedInv' /\ (setup \in Setups)'
  BY HandshakeStep, AuthStepJudged, SetupAssumption
<1>3. JudgedInv => TokensJudged
  BY DEF JudgedInv
<1> QED
  BY <1>1, <1>2, <1>3, PTL DEF Spec

-----------------------------------------------------------------------------
(* Messages and frames                                                       *)

\* What is sent: messages whose encoding is at most MaxLength bytes long.
Bodies == {body \in Seq(Byte) : body # <<>> /\ Len(body) < MaxLength}

LEMMA LengthBound == MaxLength \in Nat /\ MaxLength > 3
  BY SMTT(60) DEF MaxLength

LEMMA ThreeBytes ==
    ASSUME NEW a \in Byte, NEW b \in Byte
    PROVE  LET bytes == <<1>> \o <<a, b>> IN
           /\ bytes \in Seq(Byte) /\ Len(bytes) = 3 /\ bytes # <<>>
           /\ bytes[1] = 1 /\ Tail(bytes) = <<a, b>>
<1> DEFINE q == <<a, b>>
<1>1. a \in Nat /\ b \in Nat
  BY SMTT(60) DEF Byte
<1>2. q \in Seq(Byte) /\ q \in Seq(Nat) /\ Len(q) = 2
  BY <1>1, SMTT(60)
<1> HIDE DEF q
<1>3. <<1>> \o q # <<>> /\ (<<1>> \o q)[1] = 1 /\ Tail(<<1>> \o q) = q
  BY <1>2, SMTT(60)
<1>4. <<1>> \in Seq(Byte) /\ Len(<<1>>) = 1
  BY SMTT(60) DEF Byte
<1>5. <<1>> \o q \in Seq(Byte) /\ Len(<<1>> \o q) = Len(<<1>>) + Len(q)
  BY <1>2, <1>4, ConcatProperties
<1>6. Len(<<1>> \o q) = 3
  BY <1>2, <1>4, <1>5, SMTT(60)
<1> QED
  BY <1>3, <1>5, <1>6 DEF q

LEMMA FrameRecord ==
    ASSUME NEW bytes, NEW rest
    PROVE  /\ Frame(bytes, rest).kind = "frame" /\ Frame(bytes, rest).frame = bytes
           /\ Frame(bytes, rest).rest = rest
  BY DEF Frame

\* What encode and encode_frame make of a message, and decode of the encoding.
LEMMA EncodeParts ==
    ASSUME NEW body \in Bodies
    PROVE  /\ body \in Seq(Byte) /\ body # <<>>
           /\ Encode(body) \in Seq(Byte) /\ Len(Encode(body)) \in 1 .. MaxLength
           /\ Decode(Encode(body)) \in {body, Malformed}
           /\ Len(body) <= MAX_FRAME => Decode(Encode(body)) = body
<1>1. body \in Seq(Byte) /\ body # <<>> /\ Len(body) < MaxLength
  BY DEF Bodies
<1>2. Len(body) \in Nat \ {0} /\ MAX_FRAME \in Nat /\ body[1] \in Byte
  BY <1>1, LimitFits, ElementOfSeq, SMTT(60)
<1>3. Len(body) <= MAX_FRAME => Decode(Encode(body)) = body
  BY <1>1, DecodeUndoesEncode
<1>4. CASE Len(body) >= COMPRESS_MIN /\ Len(Compress(body)) < Len(body)
  <2>1. Repeats(body)
    BY <1>1, <1>2, <1>4, SMTT(60) DEF Compress
  <2> DEFINE packed == <<body[1], Len(body)>>
             bytes == <<1>> \o packed
  <2>2. Encode(body) = bytes
    <3>1. Compress(body) = packed
      BY <2>1 DEF Compress
    <3> QED
      BY <1>4, <3>1, SMTT(60) DEF Encode, ENC_ZSTD
  <2>3. Len(body) \in Byte
    BY <1>2, <2>1, SMTT(60) DEF Repeats, Byte
  <2>4. /\ bytes \in Seq(Byte) /\ Len(bytes) = 3 /\ bytes # <<>>
        /\ bytes[1] = 1 /\ Tail(bytes) = packed
    BY <1>2, <2>3, ThreeBytes
  <2>5. Decode(Encode(body)) = body \/ Decode(Encode(body)) = Malformed
    <3> SUFFICES ASSUME ~(Len(body) <= MAX_FRAME)
                 PROVE  Decode(Encode(body)) = Malformed
      BY <1>3
    <3>1. Decompress(packed, MAX_FRAME) = Malformed
      BY <1>2, SMTT(60) DEF Decompress
    <3> HIDE DEF bytes, packed
    <3>2. bytes[1] # ENC_RAW /\ bytes[1] = ENC_ZSTD
      BY <2>4, SMTT(60) DEF ENC_RAW, ENC_ZSTD
    <3> QED
      BY <2>2, <2>4, <3>1, <3>2 DEF Decode
  <2> HIDE DEF bytes
  <2>6. Len(bytes) \in 1 .. MaxLength
    BY <2>4, LengthBound, SMTT(60)
  <2> QED
    BY <1>1, <1>3, <2>2, <2>4, <2>5, <2>6
<1>5. CASE ~(Len(body) >= COMPRESS_MIN /\ Len(Compress(body)) < Len(body))
  <2>1. Encode(body) = <<0>> \o body
    BY <1>5, SMTT(60) DEF Encode, ENC_RAW
  <2>2. 0 \in Byte
    BY SMTT(60) DEF Byte
  <2>3. /\ <<0>> \o body \in Seq(Byte) /\ Len(<<0>> \o body) = 1 + Len(body)
        /\ <<0>> \o body # <<>> /\ (<<0>> \o body)[1] = 0 /\ Tail(<<0>> \o body) = body
    BY <1>1, <2>2, SMTT(60)
  <2>4. Len(Encode(body)) \in 1 .. MaxLength
    BY <1>1, <1>2, <2>1, <2>3, LengthBound, SMTT(60)
  <2>5. Decode(Encode(body)) = body
    BY <2>1, <2>3, SMTT(60) DEF Decode, ENC_RAW
  <2> QED
    BY <1>1, <2>1, <2>3, <2>4, <2>5
<1> QED
  BY <1>4, <1>5

LEMMA FrameParts ==
    ASSUME NEW body \in Bodies
    PROVE  /\ EncodeFrame(body) \in Seq(Byte)
           /\ Len(EncodeFrame(body)) = 4 + Len(Encode(body)) /\ Len(Encode(body)) \in Nat
           /\ FromBeBytes(EncodeFrame(body)) = Len(Encode(body))
           /\ \A i \in 1 .. Len(Encode(body)) : EncodeFrame(body)[4 + i] = Encode(body)[i]
<1> DEFINE bytes == Encode(body)
<1>1. bytes \in Seq(Byte) /\ Len(bytes) \in 1 .. MaxLength /\ <<>> \in Seq(Byte)
  BY EncodeParts, SMTT(60)
<1> HIDE DEF bytes
<1>2. Len(bytes) \in Nat /\ Len(bytes) <= MaxLength
  BY <1>1, LengthBound, SMTT(60)
<1>3. /\ Framed(bytes) \o <<>> \in Seq(Byte)
      /\ Len(Framed(bytes) \o <<>>) = 4 + Len(bytes) + Len(<<>>)
      /\ FromBeBytes(Framed(bytes) \o <<>>) = Len(bytes)
      /\ \A i \in 1 .. Len(bytes) : (Framed(bytes) \o <<>>)[4 + i] = bytes[i]
  BY <1>1, <1>2, FramedParts
<1>4. Framed(bytes) \o <<>> = Framed(bytes)
  <2>1. ToBeBytes(Len(bytes)) \in Seq(Byte)
    BY <1>1, <1>2, LengthReadBack
  <2>2. Framed(bytes) \in Seq(Byte)
    BY <1>1, <2>1, ConcatProperties DEF Framed
  <2> QED
    BY <2>2, ConcatEmptySeq
<1>5. Len(Framed(bytes)) = 4 + Len(bytes)
  BY <1>2, <1>3, <1>4, SMTT(60)
<1> QED
  BY <1>2, <1>3, <1>4, <1>5 DEF EncodeFrame, bytes

\* What next_frame makes of a buffer that starts with a frame or a part of one.
LEMMA FrontFrame ==
    ASSUME NEW body \in Bodies, NEW buf \in Seq(Byte),
           \A j \in 1 .. Len(buf) :
              j <= Len(EncodeFrame(body)) => buf[j] = EncodeFrame(body)[j]
    PROVE  LET next == NextFrame(buf) IN
           /\ next.kind \in {"none", "frame", "oversized"}
           /\ next.kind = "oversized" => Len(Encode(body)) > MAX_FRAME
           /\ next.kind = "frame" =>
                /\ Len(Encode(body)) <= MAX_FRAME /\ Len(EncodeFrame(body)) <= Len(buf)
                /\ next.frame = Encode(body)
                /\ next.rest = SubSeq(buf, Len(EncodeFrame(body)) + 1, Len(buf))
<1> DEFINE frame == EncodeFrame(body)
           bytes == Encode(body)
           len == Len(bytes)
<1>1. /\ frame \in Seq(Byte) /\ Len(frame) = 4 + len /\ len \in Nat /\ bytes \in Seq(Byte)
      /\ FromBeBytes(frame) = len /\ \A i \in 1 .. len : frame[4 + i] = bytes[i]
      /\ MAX_FRAME \in Nat
  BY FrameParts, EncodeParts, LimitFits
<1>2. \A j \in 1 .. Len(buf) : j <= 4 + len => buf[j] = frame[j]
  BY <1>1
<1> HIDE DEF frame, bytes
<1>3. CASE Len(buf) < 4
  <2>1. NextFrame(buf) = NoFrame(buf)
    BY <1>3 DEF NextFrame
  <2> QED
    BY <2>1, SMTT(60) DEF NoFrame
<1>4. CASE ~(Len(buf) < 4)
  <2>1. FromBeBytes(buf) = len
    <3>1. buf[1] = frame[1] /\ buf[2] = frame[2] /\ buf[3] = frame[3] /\ buf[4] = frame[4]
      BY <1>1, <1>2, <1>4, SMTT(60)
    <3> QED
      BY <1>1, <3>1, SMTT(60) DEF FromBeBytes
  <2>2. CASE len > MAX_FRAME
    <3>1. NextFrame(buf) = OversizedFrame(buf)
      BY <1>4, <2>1, <2>2 DEF NextFrame
    <3> QED
      BY <2>2, <3>1, SMTT(60) DEF OversizedFrame, bytes
  <2>3. CASE ~(len > MAX_FRAME) /\ Len(buf) < 4 + len
    <3>1. NextFrame(buf) = NoFrame(buf)
      BY <1>4, <2>1, <2>3 DEF NextFrame
    <3> QED
      BY <3>1, SMTT(60) DEF NoFrame
  <2>4. CASE ~(len > MAX_FRAME) /\ ~(Len(buf) < 4 + len)
    <3>1. NextFrame(buf) = Frame(SubSeq(buf, 5, 4 + len), SubSeq(buf, 5 + len, Len(buf)))
      BY <1>4, <2>1, <2>4 DEF NextFrame
    <3>2. SubSeq(buf, 5, 4 + len) = bytes
      BY <1>1, <1>2, <2>4, SMTT(60)
    <3>3. Len(frame) + 1 = 5 + len /\ Len(frame) <= Len(buf) /\ len <= MAX_FRAME
      BY <1>1, <2>4, SMTT(60)
    <3> DEFINE rest == SubSeq(buf, Len(frame) + 1, Len(buf))
               next == NextFrame(buf)
    <3>4. next = Frame(bytes, rest)
      BY <3>1, <3>2, <3>3
    <3> HIDE DEF rest, next
    <3>5. next.kind = "frame" /\ next.frame = bytes /\ next.rest = rest
      BY <3>4, FrameRecord
    <3> QED
      BY <3>3, <3>5, SMTT(60) DEF frame, bytes, rest, next
  <2> QED
    BY <2>2, <2>3, <2>4
<1> QED
  BY <1>3, <1>4

\* What has been sent and not been taken out of the stream yet, in order: the
\* messages of a WebSocket.
Queued(failed, s) ==
    /\ Len(s.got) + Len(s.wire) <= Len(s.sent)
    /\ ~failed => Len(s.got) + Len(s.wire) = Len(s.sent)
    /\ \A k \in 1 .. Len(s.wire) : s.wire[k] = Encode(s.sent[Len(s.got) + k])

\* The bytes of a QUIC stream, those in the buffer first.
Total(s) == Len(s.buf) + Len(s.wire)
At(s, p) == IF p <= Len(s.buf) THEN s.buf[p] ELSE s.wire[p - Len(s.buf)][1]

\* off[k] bytes are the frames of the first k messages.
Offsets(sent, off) ==
    /\ off \in [Nat -> Nat]
    /\ \A k \in 1 .. Len(sent) : off[k] = off[k - 1] + Len(EncodeFrame(sent[k]))
    /\ \A k, l \in 0 .. Len(sent) : k <= l => off[k] <= off[l]

\* The bytes left are a prefix of the frames of the messages not received.
Framing(s, off) ==
    \A k \in Len(s.got) + 1 .. Len(s.sent) : \A j \in 1 .. Len(EncodeFrame(s.sent[k])) :
        off[k - 1] + j <= off[Len(s.got)] + Total(s) =>
            At(s, off[k - 1] + j - off[Len(s.got)]) = EncodeFrame(s.sent[k])[j]

Streamed(failed, s, off) ==
    /\ Offsets(s.sent, off) /\ Framing(s, off)
    /\ \A i \in 1 .. Len(s.wire) : Len(s.wire[i]) = 1
    /\ off[Len(s.got)] + Total(s) <= off[Len(s.sent)]
    /\ ~failed => off[Len(s.got)] + Total(s) = off[Len(s.sent)]

StreamInv(by, failed, s) ==
    /\ s \in Stream /\ \A k \in 1 .. Len(s.sent) : s.sent[k] \in Bodies
    /\ Len(s.got) <= Len(s.sent) /\ \A i \in 1 .. Len(s.got) : s.got[i] = s.sent[i]
    /\ by = "quic" => \E off : Streamed(failed, s, off)
    /\ by # "quic" => Queued(failed, s)

-----------------------------------------------------------------------------
(* What next() finds in a stream                                             *)

LEMMA StreamTypes ==
    ASSUME NEW s \in Stream
    PROVE  /\ s.sent \in Seq(Seq(Byte)) /\ s.wire \in Seq(Seq(Byte))
           /\ s.buf \in Seq(Byte) /\ s.got \in Seq(Seq(Byte))
           /\ Len(s.sent) \in Nat /\ Len(s.wire) \in Nat /\ Len(s.buf) \in Nat /\ Len(s.got) \in Nat
<1>1. /\ s.sent \in Seq(Seq(Byte)) /\ s.wire \in Seq(Seq(Byte))
      /\ s.buf \in Seq(Byte) /\ s.got \in Seq(Seq(Byte))
  BY DEF Stream
<1> QED
  BY <1>1, LenProperties

\* The bytes in the buffer are those of the message that is due.
LEMMA BufferFront ==
    ASSUME NEW s \in Stream, NEW off, Offsets(s.sent, off), Framing(s, off),
           Len(s.got) < Len(s.sent), NEW j \in 1 .. Len(s.buf),
           s.sent[Len(s.got) + 1] \in Bodies,
           j <= Len(EncodeFrame(s.sent[Len(s.got) + 1]))
    PROVE  s.buf[j] = EncodeFrame(s.sent[Len(s.got) + 1])[j]
<1> DEFINE g == Len(s.got)
           n == Len(s.sent)
           b == Len(s.buf)
           w == Len(s.wire)
           frame == EncodeFrame(s.sent[g + 1])
<1>1. /\ g \in Nat /\ n \in Nat /\ b \in Nat /\ w \in Nat /\ g < n
      /\ off \in [Nat -> Nat] /\ Len(frame) \in Nat
  <2>1. Len(frame) \in Nat
    BY FrameParts, LenProperties
  <2> QED
    BY <2>1, StreamTypes DEF Offsets
<1> HIDE DEF g, n, b, w, frame
<1>2. g + 1 \in g + 1 .. n /\ (g + 1) - 1 = g /\ j \in 1 .. Len(frame)
  <2>1. j \in 1 .. b /\ j <= Len(frame)
    BY DEF b, frame, g
  <2> QED
    BY <1>1, <2>1, SMTT(60)
<1>3. off[g] + j <= off[g] + (b + w) /\ off[g] + j - off[g] = j /\ j <= b
  <2>1. j \in 1 .. b
    BY DEF b
  <2> DEFINE o == off[g]
  <2>2. o \in Nat
    BY <1>1
  <2> HIDE DEF o
  <2>3. o + j <= o + (b + w) /\ o + j - o = j /\ j <= b
    BY <1>1, <2>1, <2>2, SMTT(60)
  <2> QED
    BY <2>3 DEF o
<1>4. off[(g + 1) - 1] + j <= off[g] + (b + w) => At(s, off[(g + 1) - 1] + j - off[g]) = frame[j]
  BY <1>2 DEF Framing, Total, g, n, b, w, frame
<1>5. At(s, j) = frame[j]
  BY <1>2, <1>3, <1>4
<1> QED
  BY <1>3, <1>5 DEF At, b, frame, g

\* Whatever next() finds is the message that is due; only one that is too long
\* does not decode.
LEMMA FoundQuic ==
    ASSUME NEW s, NEW failed, StreamInv("quic", failed, s), NextFrame(s.buf).kind # "none"
    PROVE  LET next == NextFrame(s.buf)
               due == s.sent[Len(s.got) + 1]
           IN  /\ Len(s.got) < Len(s.sent) /\ due \in Bodies
               /\ next.kind \in {"frame", "oversized"}
               /\ next.kind = "oversized" => Len(Encode(due)) > MAX_FRAME
               /\ next.kind = "frame" =>
                     /\ next.frame = Encode(due) /\ Len(EncodeFrame(due)) <= Len(s.buf)
                     /\ next.rest = SubSeq(s.buf, Len(EncodeFrame(due)) + 1, Len(s.buf))
<1> DEFINE g == Len(s.got)
           n == Len(s.sent)
           due == s.sent[g + 1]
<1>1. s \in Stream /\ g \in Nat /\ n \in Nat /\ g <= n /\ s.buf \in Seq(Byte)
      /\ Len(s.buf) \in Nat /\ Len(s.wire) \in Nat
  BY StreamTypes DEF StreamInv
<1>2. PICK off : Streamed(failed, s, off)
  BY DEF StreamInv
<1>3. off \in [Nat -> Nat] /\ Offsets(s.sent, off) /\ Framing(s, off)
      /\ off[g] + Total(s) <= off[n]
  BY <1>2 DEF Streamed, Offsets
<1>4. g < n
  <2> SUFFICES ASSUME g = n PROVE FALSE
    BY <1>1, SMTT(60)
  <2>1. Len(s.buf) < 4
    <3> DEFINE o == off[g]
               b == Len(s.buf)
               w == Len(s.wire)
    <3>1. o + (b + w) <= o /\ o \in Nat /\ b \in Nat /\ w \in Nat
      BY <1>1, <1>3 DEF Total
    <3> HIDE DEF o, b, w
    <3>2. b < 4
      BY <3>1, SMTT(60)
    <3> QED
      BY <3>2 DEF b
  <2>2. NextFrame(s.buf) = NoFrame(s.buf)
    BY <2>1 DEF NextFrame
  <2>3. NextFrame(s.buf).kind = "none"
    BY <2>2, SMTT(60) DEF NoFrame
  <2> QED
    BY <2>3
<1>5. due \in Bodies
  <2>1. g + 1 \in 1 .. n
    BY <1>1, <1>4, SMTT(60)
  <2> QED
    BY <2>1 DEF StreamInv
<1>6. \A j \in 1 .. Len(s.buf) : j <= Len(EncodeFrame(due)) => s.buf[j] = EncodeFrame(due)[j]
  BY <1>1, <1>3, <1>4, <1>5, BufferFront
<1> HIDE DEF due
<1>7. LET next == NextFrame(s.buf) IN
      /\ next.kind \in {"none", "frame", "oversized"}
      /\ next.kind = "oversized" => Len(Encode(due)) > MAX_FRAME
      /\ next.kind = "frame" =>
            /\ Len(Encode(due)) <= MAX_FRAME /\ Len(EncodeFrame(due)) <= Len(s.buf)
            /\ next.frame = Encode(due)
            /\ next.rest = SubSeq(s.buf, Len(EncodeFrame(due)) + 1, Len(s.buf))
  BY <1>1, <1>5, <1>6, FrontFrame
<1> QED
  BY <1>4, <1>5, <1>7 DEF due

LEMMA FoundQueued ==
    ASSUME NEW s, NEW failed, NEW by, by # "quic", StreamInv(by, failed, s), s.wire # <<>>
    PROVE  /\ Len(s.got) < Len(s.sent) /\ s.sent[Len(s.got) + 1] \in Bodies
           /\ Head(s.wire) = Encode(s.sent[Len(s.got) + 1])
<1> DEFINE g == Len(s.got)
           n == Len(s.sent)
           w == Len(s.wire)
<1>1. s \in Stream /\ g \in Nat /\ n \in Nat /\ w \in Nat /\ s.wire \in Seq(Seq(Byte))
  BY StreamTypes DEF StreamInv
<1>2. w # 0 /\ Head(s.wire) = s.wire[1]
  BY <1>1, SMTT(60)
<1>3. g + w <= n /\ \A k \in 1 .. w : s.wire[k] = Encode(s.sent[g + k])
  BY DEF StreamInv, Queued
<1> HIDE DEF g, n, w
<1>4. g < n /\ g + 1 \in 1 .. n /\ 1 \in 1 .. w
  BY <1>1, <1>2, <1>3, SMTT(60)
<1>5. s.sent[g + 1] \in Bodies
  BY <1>4 DEF StreamInv, n
<1> QED
  BY <1>2, <1>3, <1>4, <1>5 DEF g, n

LEMMA NoFrameRecord ==
    ASSUME NEW buf
    PROVE  NoFrame(buf).kind = "none"
  BY DEF NoFrame

LEMMA Found ==
    ASSUME NEW c, NEW s, NEW failed, StreamInv(transport[c], failed, s), Event(c, s).kind # "none"
    PROVE  LET next == Event(c, s)
               due == s.sent[Len(s.got) + 1]
           IN  /\ Len(s.got) < Len(s.sent) /\ due \in Bodies
               /\ next.kind = "frame" \/ TooLong(due)
               /\ next.kind = "frame" =>
                     next.frame = Encode(due) /\ Decode(next.frame) \in {due, Malformed}
               /\ TooLong(due) \/ (next.kind = "frame" /\ Decode(next.frame) = due)
<1> DEFINE next == Event(c, s)
           due == s.sent[Len(s.got) + 1]
<1>1. /\ Len(s.got) < Len(s.sent) /\ due \in Bodies
      /\ next.kind = "frame" \/ (Len(Encode(due)) > MAX_FRAME)
      /\ next.kind = "frame" => next.frame = Encode(due)
  <2>1. CASE transport[c] = "quic"
    <3>1. next = NextFrame(s.buf)
      BY <2>1 DEF Event
    <3>2. StreamInv("quic", failed, s)
      BY <2>1
    <3> QED
      BY <3>1, <3>2, FoundQuic
  <2>2. CASE transport[c] # "quic"
    <3>1. s.wire # <<>>
      <4> SUFFICES ASSUME s.wire = <<>> PROVE FALSE
        OBVIOUS
      <4>1. next = NoFrame(s.buf)
        BY <2>2 DEF Event
      <4> QED
        BY <4>1, NoFrameRecord
    <3>2. next = Frame(Head(s.wire), s.buf)
      BY <2>2, <3>1 DEF Event
    <3>3. next.kind = "frame" /\ next.frame = Head(s.wire)
      BY <3>2, FrameRecord, SMTT(60)
    <3> QED
      BY <2>2, <3>1, <3>3, FoundQueued
  <2> QED
    BY <2>1, <2>2
<1> HIDE DEF next, due
<1>2. next.kind = "frame" \/ TooLong(due)
  BY <1>1 DEF TooLong
<1>3. /\ Decode(Encode(due)) \in {due, Malformed}
      /\ Len(due) <= MAX_FRAME => Decode(Encode(due)) = due
  BY <1>1, EncodeParts
<1>4. TooLong(due) \/ Len(due) <= MAX_FRAME
  <2>1. Len(due) \in Nat /\ MAX_FRAME \in Nat
    BY <1>1, EncodeParts, LimitFits, LenProperties
  <2>2. Len(due) > MAX_FRAME \/ Len(due) <= MAX_FRAME
    BY <2>1, SMTT(60)
  <2> QED
    BY <2>2 DEF TooLong
<1> QED
  BY <1>1, <1>2, <1>3, <1>4 DEF next, due

\* What was received, and what is found next, was sent.
LEMMA StreamInStep ==
    ASSUME NEW c, NEW s, NEW failed, StreamInv(transport[c], failed, s)
    PROVE  InStep(c, s)
<1>1. Len(s.got) <= Len(s.sent) /\ \A i \in 1 .. Len(s.got) : s.got[i] = s.sent[i]
  BY DEF StreamInv
<1>2. Event(c, s).kind # "none" =>
         /\ Len(s.got) < Len(s.sent)
         /\ \/ TooLong(s.sent[Len(s.got) + 1])
            \/ /\ Event(c, s).kind = "frame"
               /\ Decode(Event(c, s).frame) = s.sent[Len(s.got) + 1]
  BY Found
<1> QED
  BY <1>1, <1>2 DEF InStep

LEMMA BadTooLong ==
    ASSUME NEW c, NEW s, NEW failed, StreamInv(transport[c], failed, s), Bad(c, s)
    PROVE  Len(s.got) + 1 \in 1 .. Len(s.sent) /\ TooLong(s.sent[Len(s.got) + 1])
<1> DEFINE next == Event(c, s)
           due == s.sent[Len(s.got) + 1]
<1>1. next.kind = "oversized" \/ (next.kind = "frame" /\ Decode(next.frame) = Malformed)
  BY DEF Bad
<1>2. /\ Len(s.got) < Len(s.sent) /\ due \in Bodies
      /\ TooLong(due) \/ (next.kind = "frame" /\ Decode(next.frame) = due)
  BY <1>1, Found
<1>3. due # Malformed
  BY <1>2 DEF Bodies, Malformed
<1>4. TooLong(due)
  BY <1>1, <1>2, <1>3
<1>5. Len(s.got) \in Nat /\ Len(s.sent) \in Nat
  BY StreamTypes DEF StreamInv
<1>6. Len(s.got) + 1 \in 1 .. Len(s.sent)
  BY <1>2, <1>5, SMTT(60)
<1> QED
  BY <1>4, <1>6

-----------------------------------------------------------------------------
(* What the steps do to a stream                                             *)

\* send, recv, read_chunk and the failure of a connection, for one stream.
Sent(c, s, body, s2) ==
    /\ s2.sent = Append(s.sent, body) /\ s2.buf = s.buf /\ s2.got = s.got
    /\ s2.wire = IF cut[c] THEN s.wire ELSE s.wire \o Pieces(c, body)

Received(c, s, s2) ==
    /\ Event(c, s).kind = "frame" /\ ~Bad(c, s)
    /\ s2.got = Append(s.got, Decode(Event(c, s).frame)) /\ s2.sent = s.sent
    /\ s2.wire = IF transport[c] = "quic" THEN s.wire ELSE Tail(s.wire)
    /\ s2.buf = Event(c, s).rest

Filled(s, n, s2) ==
    /\ s2.buf = s.buf \o [i \in 1 .. n |-> s.wire[i][1]] /\ s2.sent = s.sent /\ s2.got = s.got
    /\ s2.wire = SubSeq(s.wire, n + 1, Len(s.wire))

Emptied(s, s2) == s2.wire = <<>> /\ s2.sent = s.sent /\ s2.buf = s.buf /\ s2.got = s.got

LEMMA Stored ==
    ASSUME NEW f \in [Conns -> Stream], NEW c \in Conns, NEW s \in Stream
    PROVE  LET f2 == [f EXCEPT ![c] = s] IN
           /\ f2 \in [Conns -> Stream] /\ f2[c] = s
           /\ \A d \in Conns : d # c => f2[d] = f[d]
  OBVIOUS

LEMMA StreamUpdates ==
    ASSUME NEW s \in Stream, NEW a \in Seq(Seq(Byte)), NEW w \in Seq(Seq(Byte)),
           NEW b \in Seq(Byte), NEW g \in Seq(Seq(Byte))
    PROVE  /\ [s EXCEPT !.sent = a] \in Stream /\ [s EXCEPT !.wire = w] \in Stream
           /\ [s EXCEPT !.buf = b] \in Stream /\ [s EXCEPT !.got = g] \in Stream
  BY DEF Stream

\* send puts the pieces of a message at the end of the stream.
LEMMA PiecesType ==
    ASSUME NEW c, NEW body \in Bodies
    PROVE  /\ Pieces(c, body) \in Seq(Seq(Byte))
           /\ transport[c] = "quic" =>
                /\ Len(Pieces(c, body)) = Len(EncodeFrame(body))
                /\ \A i \in 1 .. Len(EncodeFrame(body)) :
                      Pieces(c, body)[i] = <<EncodeFrame(body)[i]>>
           /\ transport[c] # "quic" => Pieces(c, body) = <<Encode(body)>>
<1>1. CASE transport[c] = "quic"
  <2> DEFINE frame == EncodeFrame(body)
             n == Len(frame)
             p == [i \in 1 .. n |-> <<frame[i]>>]
  <2>1. Pieces(c, body) = p
    BY <1>1 DEF Pieces
  <2>2. frame \in Seq(Byte) /\ n \in Nat
    BY FrameParts, LenProperties
  <2> HIDE DEF frame
  <2>3. \A i \in 1 .. n : <<frame[i]>> \in Seq(Byte)
    BY <2>2, SMTT(60)
  <2> HIDE DEF n
  <2>4. p \in Seq(Seq(Byte)) /\ Len(p) = n /\ \A i \in 1 .. n : p[i] = <<frame[i]>>
    BY <2>2, <2>3, SMTT(60)
  <2> QED
    BY <1>1, <2>1, <2>4 DEF frame, n
<1>2. CASE transport[c] # "quic"
  <2>1. Pieces(c, body) = <<Encode(body)>> /\ Encode(body) \in Seq(Byte)
    BY <1>2, EncodeParts DEF Pieces
  <2>2. <<Encode(body)>> \in Seq(Seq(Byte))
    BY <2>1, SMTT(60)
  <2> QED
    BY <1>2, <2>1, <2>2
<1> QED
  BY <1>1, <1>2

LEMMA SendMoves ==
    ASSUME NEW f \in [Conns -> Stream], NEW c \in Conns, NEW body \in Bodies, NEW f2,
           f2 = [f EXCEPT ![c].sent = Append(@, body),
                          ![c].wire = IF cut[c] THEN @ ELSE @ \o Pieces(c, body)]
    PROVE  /\ f2 \in [Conns -> Stream] /\ Sent(c, f[c], body, f2[c])
           /\ \A d \in Conns : d # c => f2[d] = f[d]
<1> DEFINE p == Pieces(c, body)
           s == f[c]
           s1 == [s EXCEPT !.sent = Append(@, body)]
           w == IF cut[c] THEN s1.wire ELSE s1.wire \o p
           s2 == [s1 EXCEPT !.wire = w]
<1>1. p \in Seq(Seq(Byte)) /\ s \in Stream /\ s.sent \in Seq(Seq(Byte)) /\ s.wire \in Seq(Seq(Byte))
      /\ body \in Seq(Byte)
  BY PiecesType, StreamTypes DEF Bodies
<1> HIDE DEF p
<1>2. f2 = [f EXCEPT ![c] = s2]
  BY DEF p
<1> HIDE DEF s
<1>3. Append(s.sent, body) \in Seq(Seq(Byte)) /\ s.wire \o p \in Seq(Seq(Byte))
  BY <1>1, AppendProperties, ConcatProperties
<1>4. /\ s1 \in Stream /\ s1.sent = Append(s.sent, body) /\ s1.wire = s.wire
      /\ s1.buf = s.buf /\ s1.got = s.got
  BY <1>1, <1>3, StreamUpdates DEF Stream
<1> HIDE DEF s1
<1>5. /\ s2 \in Stream /\ s2.sent = s1.sent /\ s2.buf = s1.buf /\ s2.got = s1.got
      /\ s2.wire = w
  <2>1. w \in Seq(Seq(Byte))
    BY <1>1, <1>3, <1>4
  <2> HIDE DEF w
  <2> QED
    BY <1>1, <1>4, <2>1, StreamUpdates DEF Stream
<1> HIDE DEF s2
<1>6. Sent(c, s, body, s2)
  <2>1. w = IF cut[c] THEN s.wire ELSE s.wire \o p
    BY <1>4
  <2> HIDE DEF w
  <2> QED
    BY <1>4, <1>5, <2>1 DEF Sent, p
<1> DEFINE h == [f EXCEPT ![c] = s2]
<1>7. h \in [Conns -> Stream] /\ h[c] = s2 /\ \A d \in Conns : d # c => h[d] = f[d]
  BY <1>5, Stored
<1>8. f2 = h
  BY <1>2
<1> HIDE DEF h
<1> QED
  BY <1>6, <1>7, <1>8 DEF s

\* recv takes the message that is due, and of the stream what held it.
LEMMA RecvFacts ==
    ASSUME NEW c, NEW s, NEW failed, StreamInv(transport[c], failed, s),
           Event(c, s).kind = "frame", ~Bad(c, s)
    PROVE  LET due == s.sent[Len(s.got) + 1] IN
           /\ Len(s.got) < Len(s.sent) /\ due \in Bodies /\ Decode(Event(c, s).frame) = due
           /\ Event(c, s).rest \in Seq(Byte)
           /\ transport[c] = "quic" =>
                /\ Len(EncodeFrame(due)) <= Len(s.buf)
                /\ Event(c, s).rest = SubSeq(s.buf, Len(EncodeFrame(due)) + 1, Len(s.buf))
           /\ transport[c] # "quic" => s.wire # <<>> /\ Event(c, s).rest = s.buf
<1> DEFINE due == s.sent[Len(s.got) + 1]
           next == Event(c, s)
<1>1. /\ Len(s.got) < Len(s.sent) /\ due \in Bodies /\ next.frame = Encode(due)
      /\ Decode(next.frame) \in {due, Malformed}
  BY Found
<1>2. Decode(next.frame) = due
  BY <1>1 DEF Bad
<1>3. s \in Stream /\ s.buf \in Seq(Byte) /\ Len(s.buf) \in Nat
  BY StreamTypes DEF StreamInv
<1>4. CASE transport[c] = "quic"
  <2>1. next = NextFrame(s.buf) /\ StreamInv("quic", failed, s)
    BY <1>4 DEF Event
  <2>2. /\ Len(EncodeFrame(due)) <= Len(s.buf)
        /\ next.rest = SubSeq(s.buf, Len(EncodeFrame(due)) + 1, Len(s.buf))
    BY <2>1, FoundQuic
  <2>3. Len(EncodeFrame(due)) \in Nat
    BY <1>1, FrameParts, LenProperties
  <2> HIDE DEF due, next
  <2>4. SubSeq(s.buf, Len(EncodeFrame(due)) + 1, Len(s.buf)) \in Seq(Byte)
    BY <1>3, <2>2, <2>3, SMTT(60)
  <2> QED
    BY <1>1, <1>2, <1>4, <2>2, <2>4 DEF due, next
<1>5. CASE transport[c] # "quic"
  <2>1. s.wire # <<>>
    <3> SUFFICES ASSUME s.wire = <<>> PROVE FALSE
      OBVIOUS
    <3>1. next = NoFrame(s.buf)
      BY <1>5 DEF Event
    <3> QED
      BY <3>1, NoFrameRecord
  <2>2. next = Frame(Head(s.wire), s.buf)
    BY <1>5, <2>1 DEF Event
  <2>3. next.rest = s.buf
    BY <2>2, FrameRecord, SMTT(60)
  <2> QED
    BY <1>1, <1>2, <1>3, <1>5, <2>1, <2>3
<1> QED
  BY <1>4, <1>5

AfterRecv(c, f) ==
    [f EXCEPT ![c].got = Append(@, Decode(Event(c, f[c]).frame)),
              ![c].wire = IF transport[c] = "quic" THEN @ ELSE Tail(@),
              ![c].buf = Event(c, f[c]).rest]

LEMMA RecvMoves ==
    ASSUME NEW f \in [Conns -> Stream], NEW c \in Conns, NEW failed,
           StreamInv(transport[c], failed, f[c]), Event(c, f[c]).kind = "frame", ~Bad(c, f[c]),
           NEW f2, f2 = AfterRecv(c, f)
    PROVE  /\ f2 \in [Conns -> Stream] /\ Received(c, f[c], f2[c])
           /\ \A d \in Conns : d # c => f2[d] = f[d]
<1> DEFINE s == f[c]
           v == Decode(Event(c, s).frame)
           b == Event(c, s).rest
           s1 == [s EXCEPT !.got = Append(@, v)]
           w == IF transport[c] = "quic" THEN s1.wire ELSE Tail(s1.wire)
           s2 == [s1 EXCEPT !.wire = w]
           s3 == [s2 EXCEPT !.buf = b]
           h == [f EXCEPT ![c] = s3]
<1>1. s \in Stream /\ s.got \in Seq(Seq(Byte)) /\ s.wire \in Seq(Seq(Byte))
      /\ v \in Seq(Byte) /\ b \in Seq(Byte) /\ (transport[c] # "quic" => s.wire # <<>>)
  <2>1. StreamInv(transport[c], failed, s) /\ Event(c, s).kind = "frame" /\ ~Bad(c, s)
    OBVIOUS
  <2>2. s \in Stream
    OBVIOUS
  <2> HIDE DEF s
  <2>3. v \in Bodies /\ b \in Seq(Byte) /\ (transport[c] # "quic" => s.wire # <<>>)
    BY <2>1, RecvFacts
  <2>4. v \in Seq(Byte)
    <3> HIDE DEF v
    <3> QED
      BY <2>3 DEF Bodies
  <2> QED
    BY <2>2, <2>3, <2>4, StreamTypes
<1>2. f2 = h
  BY DEF AfterRecv
<1>3. Append(s.got, v) \in Seq(Seq(Byte)) /\ (s.wire # <<>> => Tail(s.wire) \in Seq(Seq(Byte)))
  <2> HIDE DEF s, v
  <2>1. Append(s.got, v) \in Seq(Seq(Byte))
    BY <1>1, AppendProperties
  <2> QED
    BY <1>1, <2>1, SMTT(60)
<1>4. Event(c, s).kind = "frame" /\ ~Bad(c, s)
  OBVIOUS
<1> HIDE DEF s, v, b
<1>5. s1 \in Stream /\ s1.got = Append(s.got, v) /\ s1.wire = s.wire /\ s1.sent = s.sent
  BY <1>1, <1>3, StreamUpdates DEF Stream
<1> HIDE DEF s1
<1>6. w = (IF transport[c] = "quic" THEN s.wire ELSE Tail(s.wire)) /\ w \in Seq(Seq(Byte))
  BY <1>1, <1>3, <1>5
<1> HIDE DEF w
<1>7. s2 \in Stream /\ s2.got = s1.got /\ s2.wire = w /\ s2.sent = s1.sent
  BY <1>5, <1>6, StreamUpdates DEF Stream
<1> HIDE DEF s2
<1>8. s3 \in Stream /\ s3.got = s2.got /\ s3.wire = s2.wire /\ s3.sent = s2.sent /\ s3.buf = b
  BY <1>1, <1>7, StreamUpdates DEF Stream
<1> HIDE DEF s3
<1>9. h \in [Conns -> Stream] /\ h[c] = s3 /\ \A d \in Conns : d # c => h[d] = f[d]
  BY <1>8, Stored
<1>10. Received(c, s, s3)
  BY <1>4, <1>5, <1>6, <1>7, <1>8 DEF Received, v, b
<1> HIDE DEF h
<1> QED
  BY <1>2, <1>9, <1>10 DEF s

LEMMA WireBytes ==
    ASSUME NEW wire \in Seq(Seq(Byte)), \A i \in 1 .. Len(wire) : Len(wire[i]) = 1,
           NEW n \in 1 .. Len(wire)
    PROVE  LET p == [i \in 1 .. n |-> wire[i][1]] IN
           p \in Seq(Byte) /\ Len(p) = n /\ \A i \in 1 .. n : p[i] = wire[i][1]
<1>1. Len(wire) \in Nat
  BY LenProperties
<1>2. \A i \in 1 .. n : wire[i][1] \in Byte
  <2> SUFFICES ASSUME NEW i \in 1 .. n PROVE wire[i][1] \in Byte
    OBVIOUS
  <2>1. i \in 1 .. Len(wire)
    BY <1>1, SMTT(60)
  <2>2. wire[i] \in Seq(Byte) /\ Len(wire[i]) = 1
    BY <2>1, ElementOfSeq
  <2>3. 1 \in 1 .. 1
    BY SMTT(60)
  <2> QED
    BY <2>2, <2>3, ElementOfSeq
<1>3. n \in Nat
  BY <1>1, SMTT(60)
<1> DEFINE p == [i \in 1 .. n |-> wire[i][1]]
<1>4. p \in [1 .. n -> Byte] /\ \A i \in 1 .. n : p[i] = wire[i][1]
  BY <1>2
<1> HIDE DEF p
<1>5. p \in Seq(Byte) /\ Len(p) = n
  <2>1. p \in Seq(Byte)
    BY <1>3, <1>4, SeqDef
  <2>2. DOMAIN p = 1 .. Len(p) /\ Len(p) \in Nat /\ DOMAIN p = 1 .. n
    BY <1>4, <2>1, LenProperties
  <2> QED
    <3> DEFINE l == Len(p)
    <3>1. 1 .. l = 1 .. n /\ l \in Nat
      BY <2>2
    <3>2. n \in 1 .. n
      BY <1>1, <1>3, SMTT(60)
    <3> HIDE DEF l
    <3>3. n <= l /\ l >= 1
      BY <1>3, <3>1, <3>2, SMTT(60)
    <3>4. l \in 1 .. l
      BY <3>1, <3>3, SMTT(60)
    <3>5. l \in 1 .. n
      BY <3>1, <3>4
    <3>6. l = n
      BY <1>3, <3>1, <3>3, <3>5, SMTT(60)
    <3> QED
      BY <2>1, <3>6 DEF l
<1> QED
  BY <1>4, <1>5 DEF p

LEMMA ChunkMoves ==
    ASSUME NEW f \in [Conns -> Stream], NEW c \in Conns, NEW failed,
           StreamInv("quic", failed, f[c]), NEW n \in 1 .. Len(f[c].wire), NEW f2,
           f2 = [f EXCEPT ![c].buf = @ \o [i \in 1 .. n |-> f[c].wire[i][1]],
                          ![c].wire = SubSeq(@, n + 1, Len(@))]
    PROVE  /\ f2 \in [Conns -> Stream] /\ Filled(f[c], n, f2[c])
           /\ \A d \in Conns : d # c => f2[d] = f[d]
<1> DEFINE s == f[c]
           p == [i \in 1 .. n |-> s.wire[i][1]]
           s1 == [s EXCEPT !.buf = @ \o p]
           w == SubSeq(s1.wire, n + 1, Len(s1.wire))
           s2 == [s1 EXCEPT !.wire = w]
           h == [f EXCEPT ![c] = s2]
<1>1. /\ s \in Stream /\ s.buf \in Seq(Byte) /\ s.wire \in Seq(Seq(Byte))
      /\ \A i \in 1 .. Len(s.wire) : Len(s.wire[i]) = 1
  BY StreamTypes DEF StreamInv, Streamed
<1>2. f2 = h
  OBVIOUS
<1> HIDE DEF s
<1>3. p \in Seq(Byte) /\ SubSeq(s.wire, n + 1, Len(s.wire)) \in Seq(Seq(Byte))
  <2>1. n \in 1 .. Len(s.wire) /\ Len(s.wire) \in Nat
    BY <1>1, LenProperties DEF s
  <2>2. p \in Seq(Byte)
    BY <1>1, <2>1, WireBytes
  <2> QED
    BY <1>1, <2>1, <2>2, SMTT(60)
<1> HIDE DEF p
<1>4. s.buf \o p \in Seq(Byte)
  BY <1>1, <1>3, ConcatProperties
<1>5. s1 \in Stream /\ s1.buf = s.buf \o p /\ s1.wire = s.wire /\ s1.sent = s.sent /\ s1.got = s.got
  BY <1>1, <1>4, StreamUpdates DEF Stream
<1> HIDE DEF s1
<1>6. w = SubSeq(s.wire, n + 1, Len(s.wire)) /\ w \in Seq(Seq(Byte))
  BY <1>3, <1>5
<1> HIDE DEF w
<1>7. s2 \in Stream /\ s2.buf = s1.buf /\ s2.wire = w /\ s2.sent = s1.sent /\ s2.got = s1.got
  BY <1>5, <1>6, StreamUpdates DEF Stream
<1> HIDE DEF s2
<1>8. h \in [Conns -> Stream] /\ h[c] = s2 /\ \A d \in Conns : d # c => h[d] = f[d]
  BY <1>7, Stored
<1>9. Filled(s, n, s2)
  BY <1>5, <1>6, <1>7 DEF Filled, p
<1> HIDE DEF h
<1> QED
  BY <1>2, <1>8, <1>9 DEF s

LEMMA CutMoves ==
    ASSUME NEW f \in [Conns -> Stream], NEW c \in Conns
    PROVE  LET f2 == [f EXCEPT ![c].wire = <<>>] IN
           /\ f2 \in [Conns -> Stream] /\ Emptied(f[c], f2[c])
           /\ \A d \in Conns : d # c => f2[d] = f[d]
<1>1. <<>> \in Seq(Seq(Byte))
  BY SMTT(60)
<1> QED
  BY <1>1 DEF Stream, Emptied

-----------------------------------------------------------------------------
(* The steps keep a stream in order                                          *)

LEMMA TotalType ==
    ASSUME NEW s \in Stream
    PROVE  Total(s) \in Nat /\ Total(s) = Len(s.buf) + Len(s.wire)
<1> DEFINE b == Len(s.buf)
           w == Len(s.wire)
<1>1. b \in Nat /\ w \in Nat /\ Total(s) = b + w
  BY StreamTypes DEF Total
<1> HIDE DEF b, w
<1>2. b + w \in Nat
  BY <1>1, SMTT(60)
<1> QED
  BY <1>1, <1>2 DEF b, w

\* Where the bytes of a frame are, counted from the start of the stream.
LEMMA FramePlace ==
    ASSUME NEW sent, NEW off, Offsets(sent, off), Len(sent) \in Nat, NEW g \in Nat,
           NEW k \in g + 1 .. Len(sent), NEW j \in 1 .. Len(EncodeFrame(sent[k])),
           Len(EncodeFrame(sent[k])) \in Nat
    PROVE  /\ off[k - 1] \in Nat /\ off[g] \in Nat /\ off[Len(sent)] \in Nat
           /\ off[g] <= off[k - 1] /\ off[k - 1] + j <= off[Len(sent)]
<1> DEFINE n == Len(sent)
           len == Len(EncodeFrame(sent[k]))
           x == off[k - 1]
           y == off[k]
           z == off[n]
<1>1. /\ n \in Nat /\ len \in Nat /\ k \in g + 1 .. n /\ j \in 1 .. len
  OBVIOUS
<1> HIDE DEF n, len
<1>2. /\ g \in 0 .. n /\ k - 1 \in 0 .. n /\ k \in 0 .. n /\ n \in 0 .. n /\ k \in 1 .. n
      /\ g <= k - 1 /\ k <= n /\ g \in Nat /\ k - 1 \in Nat /\ k \in Nat
  BY <1>1, SMTT(60)
<1>3. /\ off \in [Nat -> Nat] /\ y = x + len /\ off[g] <= x /\ y <= z
  <2>1. \A i \in 1 .. n : off[i] = off[i - 1] + Len(EncodeFrame(sent[i]))
    BY DEF Offsets, n
  <2>2. \A i, l \in 0 .. n : i <= l => off[i] <= off[l]
    BY DEF Offsets, n
  <2>3. y = x + len
    BY <1>2, <2>1 DEF len
  <2> QED
    BY <1>2, <2>2, <2>3 DEF Offsets
<1>4. x \in Nat /\ y \in Nat /\ z \in Nat /\ off[g] \in Nat
  BY <1>1, <1>2, <1>3
<1> HIDE DEF x, y, z
<1>5. x + j <= z
  BY <1>1, <1>3, <1>4, SMTT(60)
<1> QED
  BY <1>3, <1>4, <1>5 DEF x, z, n

\* Fewer bytes of the same frames.
LEMMA FramingShorter ==
    ASSUME NEW s, NEW s2, NEW off, Framing(s, off), Offsets(s.sent, off),
           s \in Stream, s2 \in Stream, \A k \in 1 .. Len(s.sent) : s.sent[k] \in Bodies,
           s2.sent = s.sent, s2.got = s.got, Total(s2) <= Total(s),
           \A p \in 1 .. Total(s2) : At(s2, p) = At(s, p)
    PROVE  Framing(s2, off)
<1> DEFINE g == Len(s.got)
           n == Len(s.sent)
<1>1. g \in Nat /\ n \in Nat /\ Total(s) \in Nat /\ Total(s2) \in Nat
  BY StreamTypes, TotalType
<1>2. SUFFICES ASSUME NEW k \in g + 1 .. n, NEW j \in 1 .. Len(EncodeFrame(s.sent[k])),
                      off[k - 1] + j <= off[g] + Total(s2)
               PROVE  At(s2, off[k - 1] + j - off[g]) = EncodeFrame(s.sent[k])[j]
  BY DEF Framing
<1>3. k \in 1 .. n
  BY <1>1, SMTT(60)
<1>4. Len(EncodeFrame(s.sent[k])) \in Nat
  BY <1>3, FrameParts, LenProperties
<1> DEFINE x == off[k - 1]
           z == off[g]
           t == Total(s)
           t2 == Total(s2)
<1>5. x \in Nat /\ z \in Nat /\ z <= x
  BY <1>1, <1>4, FramePlace
<1>6. x + j <= z + t2 /\ t \in Nat /\ t2 \in Nat /\ t2 <= t /\ j \in Nat /\ j >= 1
  <2>1. j \in Nat /\ j >= 1
    BY <1>4, SMTT(60)
  <2> QED
    BY <1>1, <1>2, <2>1
<1> HIDE DEF x, z, t, t2
<1>7. x + j <= z + t /\ x + j - z \in 1 .. t2
  BY <1>5, <1>6, SMTT(60)
<1>8. At(s, x + j - z) = EncodeFrame(s.sent[k])[j]
  BY <1>2, <1>7 DEF Framing, x, z, t
<1> QED
  BY <1>7, <1>8 DEF x, z, t2

LEMMA NewInv ==
    ASSUME NEW by, NEW failed
    PROVE  StreamInv(by, failed, NewStream)
<1> DEFINE s == NewStream
           off == [k \in Nat |-> 0]
<1>1. s.sent = <<>> /\ s.wire = <<>> /\ s.buf = <<>> /\ s.got = <<>> /\ s \in Stream
  <2>1. <<>> \in Seq(Seq(Byte)) /\ <<>> \in Seq(Byte)
    BY SMTT(60)
  <2> QED
    BY <2>1 DEF NewStream, Stream
<1> HIDE DEF s
<1>2. Len(<<>>) = 0 /\ 0 \in Nat /\ 0 + 0 = 0 /\ 0 <= 0 /\ 1 .. 0 = {} /\ 0 + 1 .. 0 = {}
  BY SMTT(60)
<1>3. Len(s.sent) = 0 /\ Len(s.wire) = 0 /\ Len(s.buf) = 0 /\ Len(s.got) = 0
  BY <1>1, <1>2
<1>4. off \in [Nat -> Nat] /\ \A k, l \in 0 .. 0 : k <= l => off[k] <= off[l]
  BY SMTT(60)
<1>5. off[0] = 0
  BY <1>2
<1> HIDE DEF off
<1>6. Offsets(s.sent, off)
  BY <1>2, <1>3, <1>4 DEF Offsets
<1>7. Framing(s, off)
  BY <1>2, <1>3 DEF Framing
<1>8. Streamed(failed, s, off)
  BY <1>2, <1>3, <1>5, <1>6, <1>7 DEF Streamed, Total
<1>9. Queued(failed, s)
  BY <1>2, <1>3 DEF Queued
<1>10. StreamInv(by, failed, s)
  BY <1>1, <1>2, <1>3, <1>8, <1>9 DEF StreamInv
<1> QED
  BY <1>10 DEF s

LEMMA FailedInv ==
    ASSUME NEW by, NEW failed, NEW s, StreamInv(by, failed, s)
    PROVE  StreamInv(by, TRUE, s)
<1>1. ASSUME NEW off, Streamed(failed, s, off)
      PROVE  Streamed(TRUE, s, off)
  BY <1>1 DEF Streamed
<1>2. Queued(failed, s) => Queued(TRUE, s)
  BY DEF Queued
<1> QED
  BY <1>1, <1>2 DEF StreamInv

LEMMA OffsetsAppend ==
    ASSUME NEW sent \in Seq(Seq(Byte)), NEW off, Offsets(sent, off), NEW body \in Bodies,
           NEW off2, off2 = [k \in Nat |-> IF k = Len(sent) + 1
                                           THEN off[Len(sent)] + Len(EncodeFrame(body)) ELSE off[k]]
    PROVE  /\ Offsets(Append(sent, body), off2)
           /\ \A k \in 0 .. Len(sent) : off2[k] = off[k]
           /\ off2[Len(sent) + 1] = off[Len(sent)] + Len(EncodeFrame(body))
<1> DEFINE n == Len(sent)
           len == Len(EncodeFrame(body))
           m == Append(sent, body)
           z == off[n]
<1>1. n \in Nat /\ len \in Nat /\ body \in Seq(Byte) /\ off \in [Nat -> Nat]
  BY FrameParts, LenProperties DEF Bodies, Offsets
<1>2. m \in Seq(Seq(Byte)) /\ Len(m) = n + 1 /\ m[n + 1] = body /\ \A k \in 1 .. n : m[k] = sent[k]
  BY <1>1, AppendProperties, SMTT(60)
<1>3. /\ \A k \in 1 .. n : off[k] = off[k - 1] + Len(EncodeFrame(sent[k]))
      /\ \A k, l \in 0 .. n : k <= l => off[k] <= off[l]
  BY DEF Offsets
<1>4. z \in Nat
  BY <1>1
<1>5. off2 = [k \in Nat |-> IF k = n + 1 THEN z + len ELSE off[k]]
  OBVIOUS
<1> HIDE DEF n, len, m, z
<1>6. off2 \in [Nat -> Nat] /\ off2[n + 1] = z + len
  <2>1. n + 1 \in Nat /\ z + len \in Nat
    BY <1>1, <1>4, SMTT(60)
  <2> QED
    BY <1>1, <1>5, <2>1
<1>7. \A k \in 0 .. n : off2[k] = off[k]
  BY <1>1, <1>5, SMTT(60)
<1>8. ASSUME NEW k \in 1 .. n + 1
      PROVE  off2[k] = off2[k - 1] + Len(EncodeFrame(m[k]))
  <2>1. CASE k = n + 1
    <3>1. k - 1 = n /\ n \in 0 .. n
      BY <1>1, <2>1, SMTT(60)
    <3> QED
      BY <1>2, <1>6, <1>7, <2>1, <3>1 DEF z, len
  <2>2. CASE k # n + 1
    <3>1. k \in 1 .. n /\ k \in 0 .. n /\ k - 1 \in 0 .. n
      BY <1>1, <2>2, SMTT(60)
    <3> QED
      BY <1>2, <1>3, <1>7, <3>1
  <2> QED
    BY <2>1, <2>2
<1>9. ASSUME NEW k \in 0 .. n + 1, NEW l \in 0 .. n + 1, k <= l
      PROVE  off2[k] <= off2[l]
  <2>1. CASE l = n + 1 /\ k = n + 1
    <3>1. z + len <= z + len
      BY <1>1, <1>4, SMTT(60)
    <3> QED
      BY <1>6, <2>1, <3>1
  <2>2. CASE l = n + 1 /\ k # n + 1
    <3>1. k \in 0 .. n /\ n \in 0 .. n /\ k <= n /\ k \in Nat
      BY <1>1, <2>2, SMTT(60)
    <3> DEFINE x == off[k]
    <3>2. x <= z /\ x \in Nat
      BY <1>1, <1>3, <3>1 DEF z
    <3> HIDE DEF x
    <3>3. x <= z + len
      BY <1>1, <1>4, <3>2, SMTT(60)
    <3> QED
      BY <1>6, <1>7, <2>2, <3>1, <3>3 DEF x
  <2>3. CASE l # n + 1
    <3>1. k \in 0 .. n /\ l \in 0 .. n
      BY <1>1, <1>9, <2>3, SMTT(60)
    <3> QED
      BY <1>3, <1>7, <1>9, <3>1
  <2> QED
    BY <2>1, <2>2, <2>3
<1>10. Offsets(m, off2)
  BY <1>2, <1>6, <1>8, <1>9 DEF Offsets
<1> QED
  BY <1>6, <1>7, <1>10 DEF n, len, m, z

LEMMA AppendItems ==
    ASSUME NEW sent \in Seq(Seq(Byte)), NEW body \in Seq(Byte)
    PROVE  /\ Append(sent, body) \in Seq(Seq(Byte)) /\ Len(Append(sent, body)) = Len(sent) + 1
           /\ Append(sent, body)[Len(sent) + 1] = body
           /\ \A k \in 1 .. Len(sent) : Append(sent, body)[k] = sent[k]
  BY AppendProperties, SMTT(60)

LEMMA BeforeLast ==
    ASSUME NEW g \in Nat, NEW n \in Nat, NEW k \in g + 1 .. n + 1, k # n + 1
    PROVE  k \in g + 1 .. n /\ k \in 1 .. n /\ k - 1 \in 0 .. n
  BY SMTT(60)

\* A frame at the end of the stream, or one that a failed connection has lost.
LEMMA FramingAppend ==
    ASSUME NEW s, NEW s2, NEW off, NEW off2, NEW body \in Bodies, Framing(s, off),
           Offsets(s.sent, off), s \in Stream, s2 \in Stream,
           \A k \in 1 .. Len(s.sent) : s.sent[k] \in Bodies, Len(s.got) <= Len(s.sent),
           s2.sent = Append(s.sent, body), s2.got = s.got,
           \A k \in 0 .. Len(s.sent) : off2[k] = off[k],
           off[Len(s.got)] + Total(s) <= off[Len(s.sent)],
           \A p \in 1 .. Total(s) : At(s2, p) = At(s, p),
           \/ Total(s2) = Total(s)
           \/ /\ off[Len(s.got)] + Total(s) = off[Len(s.sent)]
              /\ Total(s2) = Total(s) + Len(EncodeFrame(body))
              /\ \A j \in 1 .. Len(EncodeFrame(body)) : At(s2, Total(s) + j) = EncodeFrame(body)[j]
    PROVE  Framing(s2, off2)
<1> DEFINE g == Len(s.got)
           n == Len(s.sent)
           t == Total(s)
           t2 == Total(s2)
           z == off[g]
           e == off[n]
<1>1. g \in Nat /\ n \in Nat /\ t \in Nat /\ t2 \in Nat /\ g <= n /\ body \in Seq(Byte)
      /\ s.sent \in Seq(Seq(Byte)) /\ off \in [Nat -> Nat]
  BY StreamTypes, TotalType DEF Bodies, Offsets
<1>2. /\ Len(s2.sent) = n + 1 /\ s2.sent[n + 1] = body
      /\ \A k \in 1 .. n : s2.sent[k] = s.sent[k]
  <2> DEFINE m == Append(s.sent, body)
  <2>1. Len(m) = n + 1 /\ m[n + 1] = body /\ \A k \in 1 .. n : m[k] = s.sent[k]
    BY <1>1, AppendItems
  <2>2. s2.sent = m
    OBVIOUS
  <2> HIDE DEF m
  <2> QED
    BY <2>1, <2>2
<1>3. /\ \A k \in 0 .. n : off2[k] = off[k]
      /\ z + t <= e /\ z \in Nat /\ e \in Nat
  BY <1>1
<1>4. g \in 0 .. n /\ n \in 0 .. n
  BY <1>1, SMTT(60)
<1>5. SUFFICES ASSUME NEW k \in g + 1 .. n + 1, NEW j \in 1 .. Len(EncodeFrame(s2.sent[k])),
                      off2[k - 1] + j <= z + t2
               PROVE  At(s2, off2[k - 1] + j - z) = EncodeFrame(s2.sent[k])[j]
  <2>1. Len(s2.got) = g /\ off2[g] = z
    BY <1>3, <1>4
  <2> HIDE DEF g, n, z
  <2> QED
    BY <1>2, <2>1 DEF Framing
<1>6. CASE k = n + 1
  <2> DEFINE len == Len(EncodeFrame(body))
  <2>1. k - 1 = n /\ off2[k - 1] = e /\ j \in 1 .. len /\ len \in Nat
    <3>1. k - 1 = n
      BY <1>1, <1>6, SMTT(60)
    <3>2. len \in Nat
      BY FrameParts, LenProperties
    <3> QED
      BY <1>2, <1>3, <1>4, <1>6, <3>1, <3>2
  <2>2. e + j <= z + t2
    BY <1>5, <2>1
  <2> HIDE DEF len
  <2>3. CASE t2 = t
    <3> HIDE DEF t, t2, z, e
    <3>1. FALSE
      BY <1>1, <1>3, <2>1, <2>2, <2>3, SMTT(60)
    <3> QED
      BY <3>1
  <2>4. CASE /\ z + t = e /\ t2 = t + len
             /\ \A i \in 1 .. len : At(s2, t + i) = EncodeFrame(body)[i]
    <3> HIDE DEF t, t2, z, e
    <3>1. e + j - z = t + j
      BY <1>1, <1>3, <2>1, <2>4, SMTT(60)
    <3> QED
      BY <1>2, <1>6, <2>1, <2>4, <3>1
  <2> QED
    BY <2>3, <2>4 DEF len
<1>7. CASE k # n + 1
  <2>1. k \in g + 1 .. n /\ k \in 1 .. n /\ k - 1 \in 0 .. n
    <3> HIDE DEF g, n
    <3> QED
      BY <1>1, <1>7, BeforeLast
  <2> DEFINE frame == EncodeFrame(s.sent[k])
             x == off[k - 1]
  <2>2. Len(frame) \in Nat /\ s2.sent[k] = s.sent[k] /\ j \in 1 .. Len(frame) /\ off2[k - 1] = x
    <3>1. Len(frame) \in Nat
      BY <2>1, FrameParts, LenProperties
    <3> QED
      BY <1>2, <1>3, <2>1, <3>1
  <2>3. x \in Nat /\ z <= x /\ x + j <= e
    BY <1>1, <2>1, <2>2, FramePlace
  <2>4. x + j <= z + t2 /\ (t2 = t \/ z + t = e)
    BY <1>5, <2>2
  <2>5. j \in Nat /\ j >= 1
    <3> HIDE DEF frame
    <3> QED
      BY <2>2, SMTT(60)
  <2>6. x + j <= z + t /\ x + j - z \in 1 .. t
    <3> HIDE DEF x, z, e, t, t2
    <3> QED
      BY <1>1, <1>3, <2>3, <2>4, <2>5, SMTT(60)
  <2>7. At(s, x + j - z) = frame[j]
    BY <2>1, <2>2, <2>6 DEF Framing
  <2>8. At(s2, x + j - z) = At(s, x + j - z)
    BY <2>6
  <2> HIDE DEF x, z
  <2> QED
    BY <2>2, <2>7, <2>8
<1> QED
  BY <1>6, <1>7

LEMMA BytesAppend ==
    ASSUME NEW s \in Stream, NEW s2 \in Stream, NEW p \in Seq(Seq(Byte)),
           s2.buf = s.buf, s2.wire = s.wire \o p
    PROVE  /\ Total(s2) = Total(s) + Len(p)
           /\ \A q \in 1 .. Total(s) : At(s2, q) = At(s, q)
           /\ \A j \in 1 .. Len(p) : At(s2, Total(s) + j) = p[j][1]
           /\ Len(s2.wire) = Len(s.wire) + Len(p)
           /\ \A i \in 1 .. Len(s.wire) : s2.wire[i] = s.wire[i]
           /\ \A i \in 1 .. Len(p) : s2.wire[Len(s.wire) + i] = p[i]
<1> DEFINE b == Len(s.buf)
           w == Len(s.wire)
           l == Len(p)
           v == s2.wire
<1>1. b \in Nat /\ w \in Nat /\ l \in Nat /\ s.wire \in Seq(Seq(Byte)) /\ Len(s2.buf) = b
  BY StreamTypes, LenProperties
<1>2. /\ Len(s.wire \o p) = w + l
      /\ \A i \in 1 .. w + l : (s.wire \o p)[i] = IF i <= w THEN s.wire[i] ELSE p[i - w]
  BY <1>1, ConcatProperties, SMTT(60)
<1>3. /\ Len(v) = w + l /\ \A i \in 1 .. w + l : v[i] = IF i <= w THEN s.wire[i] ELSE p[i - w]
  BY <1>2
<1>4. Total(s) = b + w /\ Total(s2) = b + (w + l)
  BY <1>1, <1>3 DEF Total
<1> HIDE DEF b, w, l, v
<1>5. Total(s2) = Total(s) + l
  BY <1>1, <1>4, SMTT(60)
<1>6. \A i \in 1 .. w : v[i] = s.wire[i]
  <2> SUFFICES ASSUME NEW i \in 1 .. w PROVE v[i] = s.wire[i]
    OBVIOUS
  <2>1. i \in 1 .. w + l /\ i <= w
    BY <1>1, SMTT(60)
  <2> QED
    BY <1>3, <2>1
<1>7. \A i \in 1 .. l : v[w + i] = p[i]
  <2> SUFFICES ASSUME NEW i \in 1 .. l PROVE v[w + i] = p[i]
    OBVIOUS
  <2>1. w + i \in 1 .. w + l /\ ~(w + i <= w) /\ (w + i) - w = i
    BY <1>1, SMTT(60)
  <2> QED
    BY <1>3, <2>1
<1>8. \A q \in 1 .. b + w : At(s2, q) = At(s, q)
  <2> SUFFICES ASSUME NEW q \in 1 .. b + w PROVE At(s2, q) = At(s, q)
    OBVIOUS
  <2>1. q <= b \/ q - b \in 1 .. w
    BY <1>1, SMTT(60)
  <2>2. CASE q <= b
    BY <1>1, <2>2 DEF At, b
  <2>3. CASE ~(q <= b) /\ q - b \in 1 .. w
    BY <1>1, <1>6, <2>3 DEF At, b, v
  <2> QED
    BY <2>1, <2>2, <2>3
<1>9. \A j \in 1 .. l : At(s2, (b + w) + j) = p[j][1]
  <2> SUFFICES ASSUME NEW j \in 1 .. l PROVE At(s2, (b + w) + j) = p[j][1]
    OBVIOUS
  <2> DEFINE q == (b + w) + j
  <2>1. ~(q <= b) /\ q - b = w + j
    BY <1>1, SMTT(60)
  <2> HIDE DEF q
  <2>2. At(s2, q) = v[w + j][1]
    BY <1>1, <2>1 DEF At, v
  <2> QED
    BY <1>7, <2>2 DEF q
<1> QED
  BY <1>3, <1>4, <1>5, <1>6, <1>7, <1>8, <1>9 DEF l, w, v

\* recv takes the first len bytes.
LEMMA BytesTaken ==
    ASSUME NEW s \in Stream, NEW s2 \in Stream, NEW len \in Nat, len <= Len(s.buf),
           s2.buf = SubSeq(s.buf, len + 1, Len(s.buf)), s2.wire = s.wire
    PROVE  Total(s) = Total(s2) + len /\ \A q \in 1 .. Total(s2) : At(s2, q) = At(s, q + len)
<1> DEFINE b == Len(s.buf)
           w == Len(s.wire)
           v == s2.buf
<1>1. b \in Nat /\ w \in Nat /\ s.buf \in Seq(Byte) /\ len \in Nat /\ len <= b
  BY StreamTypes
<1>2. v = SubSeq(s.buf, len + 1, b)
  OBVIOUS
<1> HIDE DEF v
<1>3. Len(v) = b - len /\ \A i \in 1 .. b - len : v[i] = s.buf[i + len]
  <2>1. /\ Len(SubSeq(s.buf, len + 1, b)) = b - len
        /\ \A i \in 1 .. b - len : SubSeq(s.buf, len + 1, b)[i] = s.buf[i + len]
    <3> HIDE DEF w
    <3> QED
      BY <1>1, SMTT(60)
  <2> QED
    BY <1>2, <2>1
<1>4. Total(s) = b + w /\ Total(s2) = Len(v) + w
  BY DEF Total, v
<1> HIDE DEF b, w
<1>5. Total(s2) = (b - len) + w /\ Total(s) = Total(s2) + len
  BY <1>1, <1>3, <1>4, SMTT(60)
<1>6. ASSUME NEW q \in 1 .. (b - len) + w
      PROVE  At(s2, q) = At(s, q + len)
  <2>1. CASE q <= b - len
    <3>1. q \in 1 .. b - len /\ q + len <= b
      BY <1>1, <2>1, SMTT(60)
    <3>2. At(s2, q) = v[q]
      BY <1>3, <2>1 DEF At, v
    <3>3. At(s, q + len) = s.buf[q + len]
      BY <3>1 DEF At, b
    <3> QED
      BY <1>3, <3>1, <3>2, <3>3
  <2>2. CASE ~(q <= b - len)
    <3>1. ~(q + len <= b) /\ (q + len) - b = q - (b - len)
      BY <1>1, <2>2, SMTT(60)
    <3>2. At(s2, q) = s.wire[q - (b - len)][1]
      BY <1>3, <2>2 DEF At, v
    <3>3. At(s, q + len) = s.wire[(q + len) - b][1]
      BY <3>1 DEF At, b
    <3> QED
      BY <3>1, <3>2, <3>3
  <2> QED
    BY <2>1, <2>2
<1> QED
  BY <1>5, <1>6

LEMMA ConcatItems ==
    ASSUME NEW buf \in Seq(Byte), NEW p \in Seq(Byte)
    PROVE  /\ Len(buf \o p) = Len(buf) + Len(p)
           /\ \A i \in 1 .. Len(buf) + Len(p) :
                 (buf \o p)[i] = IF i <= Len(buf) THEN buf[i] ELSE p[i - Len(buf)]
  BY ConcatProperties

\* read_chunk moves the first n bytes of the wire into the buffer.
LEMMA BytesMoved ==
    ASSUME NEW s \in Stream, NEW s2 \in Stream, NEW n \in 1 .. Len(s.wire), Filled(s, n, s2),
           \A i \in 1 .. Len(s.wire) : Len(s.wire[i]) = 1
    PROVE  /\ Total(s2) = Total(s) /\ \A q \in 1 .. Total(s2) : At(s2, q) = At(s, q)
           /\ Len(s2.wire) = Len(s.wire) - n
           /\ \A i \in 1 .. Len(s2.wire) : i + n \in 1 .. Len(s.wire) /\ s2.wire[i] = s.wire[i + n]
<1> DEFINE b == Len(s.buf)
           w == Len(s.wire)
           p == [i \in 1 .. n |-> s.wire[i][1]]
           v == s2.wire
           d == s2.buf
<1>1. /\ b \in Nat /\ w \in Nat /\ n \in Nat /\ n <= w /\ s.buf \in Seq(Byte)
      /\ s.wire \in Seq(Seq(Byte)) /\ d \in Seq(Byte)
  <2>1. w \in Nat
    BY StreamTypes
  <2>2. n \in Nat /\ n <= w
    BY <2>1, SMTT(60)
  <2> QED
    BY <2>2, StreamTypes
<1>2. v = SubSeq(s.wire, n + 1, w) /\ d = s.buf \o p
  BY DEF Filled
<1>3. Len(v) = w - n /\ \A i \in 1 .. w - n : v[i] = s.wire[i + n]
  <2>1. /\ Len(SubSeq(s.wire, n + 1, w)) = w - n
        /\ \A i \in 1 .. w - n : SubSeq(s.wire, n + 1, w)[i] = s.wire[i + n]
    BY <1>1, SMTT(60)
  <2> HIDE DEF v
  <2> QED
    BY <1>2, <2>1
<1>4. Len(d) = b + n /\ \A i \in 1 .. b + n : d[i] = IF i <= b THEN s.buf[i] ELSE s.wire[i - b][1]
  <2>1. p \in Seq(Byte) /\ Len(p) = n /\ \A i \in 1 .. n : p[i] = s.wire[i][1]
    BY <1>1, WireBytes
  <2> HIDE DEF p
  <2>2. /\ Len(s.buf \o p) = b + Len(p)
        /\ \A i \in 1 .. b + Len(p) : (s.buf \o p)[i] = IF i <= b THEN s.buf[i] ELSE p[i - b]
    BY <1>1, <2>1, ConcatItems
  <2>3. Len(d) = b + n /\ \A i \in 1 .. b + n : d[i] = IF i <= b THEN s.buf[i] ELSE p[i - b]
    BY <1>2, <2>1, <2>2
  <2> HIDE DEF d, b, w
  <2>4. \A i \in 1 .. b + n : ~(i <= b) => p[i - b] = s.wire[i - b][1]
    <3> SUFFICES ASSUME NEW i \in 1 .. b + n, ~(i <= b) PROVE p[i - b] = s.wire[i - b][1]
      OBVIOUS
    <3>1. i - b \in 1 .. n
      BY <1>1, SMTT(60)
    <3> QED
      BY <2>1, <3>1
  <2> QED
    BY <2>3, <2>4
<1>5. Total(s) = b + w /\ Total(s2) = Len(d) + Len(v)
  BY DEF Total
<1> HIDE DEF b, w, v, d, p
<1>6. Total(s2) = Total(s)
  BY <1>1, <1>3, <1>4, <1>5, SMTT(60)
<1>7. \A i \in 1 .. Len(v) : i + n \in 1 .. w /\ v[i] = s.wire[i + n]
  <2> SUFFICES ASSUME NEW i \in 1 .. w - n PROVE i + n \in 1 .. w
    BY <1>3
  <2> QED
    BY <1>1, SMTT(60)
<1>8. \A q \in 1 .. b + w : At(s2, q) = At(s, q)
  <2> SUFFICES ASSUME NEW q \in 1 .. b + w PROVE At(s2, q) = At(s, q)
    OBVIOUS
  <2>1. CASE q <= b
    <3>1. q <= b + n /\ q \in 1 .. b + n
      BY <1>1, <2>1, SMTT(60)
    <3>2. At(s2, q) = d[q]
      BY <1>4, <3>1 DEF At, d
    <3>3. At(s, q) = s.buf[q]
      BY <2>1 DEF At, b
    <3> QED
      BY <1>4, <2>1, <3>1, <3>2, <3>3
  <2>2. CASE ~(q <= b) /\ q <= b + n
    <3>1. q \in 1 .. b + n
      BY <1>1, <2>2, SMTT(60)
    <3>2. At(s2, q) = d[q]
      BY <1>4, <2>2 DEF At, d
    <3>3. At(s, q) = s.wire[q - b][1]
      BY <2>2 DEF At, b
    <3> QED
      BY <1>4, <2>2, <3>1, <3>2, <3>3
  <2>3. CASE ~(q <= b) /\ ~(q <= b + n)
    <3>1. q - (b + n) \in 1 .. w - n /\ (q - (b + n)) + n = q - b
      BY <1>1, <2>3, SMTT(60)
    <3>2. At(s2, q) = v[q - (b + n)][1]
      BY <1>4, <2>3 DEF At, d, v
    <3>3. At(s, q) = s.wire[q - b][1]
      BY <2>3 DEF At, b
    <3> QED
      BY <1>3, <3>1, <3>2, <3>3
  <2> QED
    BY <2>1, <2>2, <2>3
<1> QED
  BY <1>3, <1>5, <1>6, <1>7, <1>8 DEF v, w

\* send: the message is at the end of what has been sent and of the stream.
LEMMA SentInv ==
    ASSUME NEW c, NEW s, NEW s2 \in Stream, NEW body \in Bodies,
           StreamInv(transport[c], cut[c], s), Sent(c, s, body, s2)
    PROVE  StreamInv(transport[c], cut[c], s2)
<1> DEFINE g == Len(s.got)
           n == Len(s.sent)
           p == Pieces(c, body)
           frame == EncodeFrame(body)
           len == Len(frame)
<1>1. /\ s \in Stream /\ g \in Nat /\ n \in Nat /\ g <= n /\ s.sent \in Seq(Seq(Byte))
      /\ \A k \in 1 .. n : s.sent[k] \in Bodies /\ body \in Seq(Byte)
      /\ \A i \in 1 .. g : s.got[i] = s.sent[i]
  BY StreamTypes DEF StreamInv, Bodies
<1>2. /\ s2.sent = Append(s.sent, body) /\ s2.buf = s.buf /\ s2.got = s.got
      /\ s2.wire = IF cut[c] THEN s.wire ELSE s.wire \o p
  BY DEF Sent
<1>3. /\ Len(s2.sent) = n + 1 /\ s2.sent[n + 1] = body
      /\ \A k \in 1 .. n : s2.sent[k] = s.sent[k]
  <2> DEFINE m == Append(s.sent, body)
  <2>1. body \in Seq(Byte)
    BY DEF Bodies
  <2>2. Len(m) = n + 1 /\ m[n + 1] = body /\ \A k \in 1 .. n : m[k] = s.sent[k]
    BY <1>1, <2>1, AppendItems
  <2>3. s2.sent = m
    BY <1>2
  <2> HIDE DEF m
  <2> QED
    BY <2>2, <2>3
<1>4. /\ \A k \in 1 .. Len(s2.sent) : s2.sent[k] \in Bodies
      /\ Len(s2.got) <= Len(s2.sent) /\ \A i \in 1 .. Len(s2.got) : s2.got[i] = s2.sent[i]
  <2>1. \A k \in 1 .. n + 1 : k = n + 1 \/ k \in 1 .. n
    BY <1>1, SMTT(60)
  <2>2. g <= n + 1 /\ \A i \in 1 .. g : i \in 1 .. n
    BY <1>1, SMTT(60)
  <2> QED
    BY <1>1, <1>2, <1>3, <2>1, <2>2
<1>5. CASE transport[c] = "quic"
  <2>1. PICK off : Streamed(cut[c], s, off)
    BY <1>5 DEF StreamInv
  <2>2. /\ Offsets(s.sent, off) /\ Framing(s, off) /\ \A i \in 1 .. Len(s.wire) : Len(s.wire[i]) = 1
        /\ off[g] + Total(s) <= off[n] /\ (~cut[c] => off[g] + Total(s) = off[n])
    BY <2>1 DEF Streamed
  <2> DEFINE off2 == [k \in Nat |-> IF k = n + 1 THEN off[n] + len ELSE off[k]]
  <2>3. /\ Offsets(s2.sent, off2) /\ \A k \in 0 .. n : off2[k] = off[k]
        /\ off2[n + 1] = off[n] + len
    <3>1. Offsets(s.sent, off) /\ s.sent \in Seq(Seq(Byte)) /\ s2.sent = Append(s.sent, body)
      BY <1>1, <1>2, <2>2
    <3>2. off2 = [k \in Nat |-> IF k = Len(s.sent) + 1
                                THEN off[Len(s.sent)] + Len(EncodeFrame(body)) ELSE off[k]]
      OBVIOUS
    <3> HIDE DEF off2
    <3>3. /\ Offsets(Append(s.sent, body), off2)
          /\ \A k \in 0 .. Len(s.sent) : off2[k] = off[k]
          /\ off2[Len(s.sent) + 1] = off[Len(s.sent)] + Len(EncodeFrame(body))
      BY <3>1, <3>2, OffsetsAppend, SMTT(60)
    <3> QED
      BY <3>1, <3>3
  <2> HIDE DEF off2
  <2>4. off2[g] = off[g] /\ off[g] \in Nat /\ off[n] \in Nat /\ len \in Nat /\ Total(s) \in Nat
    <3>1. g \in 0 .. n
      BY <1>1, SMTT(60)
    <3>2. len \in Nat
      BY FrameParts, LenProperties
    <3> QED
      BY <1>1, <2>2, <2>3, <3>1, <3>2, TotalType DEF Offsets
  <2>5. CASE cut[c]
    <3>1. s2.wire = s.wire
      BY <1>2, <2>5
    <3>2. Total(s2) = Total(s) /\ \A q \in 1 .. Total(s) : At(s2, q) = At(s, q)
      BY <1>2, <3>1 DEF Total, At
    <3>3. Framing(s2, off2)
      BY <1>1, <1>2, <2>2, <2>3, <3>2, FramingAppend
    <3>4. off[g] + Total(s) <= off[n] + len
      <4> DEFINE x == off[g]
                 y == off[n]
                 t == Total(s)
      <4>1. x + t <= y /\ x \in Nat /\ y \in Nat /\ t \in Nat
        BY <2>2, <2>4
      <4> HIDE DEF x, y, t, len
      <4>2. x + t <= y + len
        BY <2>4, <4>1, SMTT(60)
      <4> QED
        BY <4>2 DEF x, y, t
    <3> HIDE DEF len
    <3>5. Streamed(cut[c], s2, off2)
      BY <1>2, <1>3, <2>2, <2>3, <2>4, <2>5, <3>1, <3>2, <3>3, <3>4 DEF Streamed
    <3> QED
      BY <1>4, <1>5, <3>5 DEF StreamInv
  <2>6. CASE ~cut[c]
    <3>1. s2.wire = s.wire \o p
      BY <1>2, <2>6
    <3>2. p \in Seq(Seq(Byte)) /\ Len(p) = len /\ \A i \in 1 .. len : p[i] = <<frame[i]>>
      BY <1>5, PiecesType
    <3> HIDE DEF p
    <3>3. /\ Total(s2) = Total(s) + len /\ \A q \in 1 .. Total(s) : At(s2, q) = At(s, q)
          /\ \A j \in 1 .. len : At(s2, Total(s) + j) = p[j][1]
          /\ Len(s2.wire) = Len(s.wire) + len
          /\ \A i \in 1 .. Len(s.wire) : s2.wire[i] = s.wire[i]
          /\ \A i \in 1 .. len : s2.wire[Len(s.wire) + i] = p[i]
      <4> HIDE DEF len
      <4> QED
        BY <1>1, <1>2, <3>1, <3>2, BytesAppend
    <3>4. \A x : <<x>>[1] = x /\ Len(<<x>>) = 1
      BY SMTT(60)
    <3>5. \A j \in 1 .. len : At(s2, Total(s) + j) = frame[j]
      <4> HIDE DEF len
      <4> QED
        BY <3>2, <3>3, <3>4, SMTT(60)
    <3>6. Framing(s2, off2)
      <4>1. /\ off[g] + Total(s) = off[n] /\ Total(s2) = Total(s) + len
            /\ \A j \in 1 .. len : At(s2, Total(s) + j) = frame[j]
        BY <2>2, <2>6, <3>3, <3>5
      <4>2. \A q \in 1 .. Total(s) : At(s2, q) = At(s, q)
        BY <3>3
      <4>3. s2.sent = Append(s.sent, body) /\ s2.got = s.got
        BY <1>2
      <4> QED
        BY <1>1, <2>2, <2>3, <4>1, <4>2, <4>3, FramingAppend, SMTT(60)
    <3>7. \A i \in 1 .. Len(s2.wire) : Len(s2.wire[i]) = 1
      <4> DEFINE w == Len(s.wire)
      <4>1. w \in Nat
        BY <1>1, StreamTypes
      <4> HIDE DEF len, w
      <4>2. ASSUME NEW i \in 1 .. w + len
            PROVE  i \in 1 .. w \/ (i - w \in 1 .. len /\ w + (i - w) = i)
        BY <2>4, <4>1, SMTT(60)
      <4>3. \A i \in 1 .. len : Len(p[i]) = 1
        BY <3>2, <3>4
      <4>4. ASSUME NEW i \in 1 .. w + len
            PROVE  Len(s2.wire[i]) = 1
        <5>1. CASE i \in 1 .. w
          BY <2>2, <3>3, <5>1 DEF w
        <5>2. CASE i - w \in 1 .. len /\ w + (i - w) = i
          <6>1. s2.wire[w + (i - w)] = p[i - w]
            BY <3>3, <5>2 DEF w
          <6> QED
            BY <4>3, <5>2, <6>1
        <5> QED
          BY <4>2, <5>1, <5>2
      <4> QED
        BY <3>3, <4>4 DEF w
    <3>8. off[g] + Total(s2) = off[n] + len /\ off[g] + Total(s2) <= off[n] + len
      <4> DEFINE x == off[g]
                 y == off[n]
                 t == Total(s)
                 t2 == Total(s2)
      <4>1. x + t = y /\ t2 = t + len /\ x \in Nat /\ y \in Nat /\ t \in Nat
        BY <2>2, <2>4, <2>6, <3>3
      <4> HIDE DEF x, y, t, t2, len
      <4>2. x + t2 = y + len /\ x + t2 <= y + len
        BY <2>4, <4>1, SMTT(60)
      <4> QED
        BY <4>2 DEF x, y, t2
    <3> HIDE DEF len
    <3>9. Streamed(cut[c], s2, off2)
      BY <1>2, <1>3, <2>3, <2>4, <3>6, <3>7, <3>8 DEF Streamed
    <3> QED
      BY <1>4, <1>5, <3>9 DEF StreamInv
  <2> QED
    BY <2>5, <2>6
<1>6. CASE transport[c] # "quic"
  <2> DEFINE w == Len(s.wire)
  <2>1. /\ w \in Nat /\ g + w <= n /\ (~cut[c] => g + w = n) /\ s.wire \in Seq(Seq(Byte))
        /\ \A k \in 1 .. w : s.wire[k] = Encode(s.sent[g + k])
    BY <1>1, <1>6, StreamTypes DEF StreamInv, Queued
  <2>2. \A k \in 1 .. w : g + k \in 1 .. n
    <3> HIDE DEF w, g, n
    <3> QED
      BY <1>1, <2>1, SMTT(60)
  <2>3. \A k \in 1 .. w : s.wire[k] = Encode(s2.sent[g + k])
    BY <1>3, <2>1, <2>2
  <2>4. CASE cut[c]
    <3>1. s2.wire = s.wire
      BY <1>2, <2>4
    <3>2. g + w <= n + 1
      <4> HIDE DEF w, g, n
      <4> QED
        BY <1>1, <2>1, SMTT(60)
    <3>3. Queued(cut[c], s2)
      BY <1>2, <1>3, <2>3, <2>4, <3>1, <3>2 DEF Queued
    <3> QED
      BY <1>4, <1>6, <3>3 DEF StreamInv
  <2>5. CASE ~cut[c]
    <3>1. s2.wire = s.wire \o <<Encode(body)>> /\ <<Encode(body)>> \in Seq(Seq(Byte))
      BY <1>2, <1>6, <2>5, PiecesType
    <3>2. /\ Len(s2.wire) = w + 1 /\ s2.wire[w + 1] = Encode(body)
          /\ \A i \in 1 .. w : s2.wire[i] = s.wire[i]
      <4> DEFINE e == Encode(body)
      <4> HIDE DEF e
      <4>1. Len(<<e>>) = 1 /\ <<e>>[1] = e /\ 1 \in 1 .. 1
        BY SMTT(60)
      <4>2. /\ Len(s2.wire) = w + Len(<<e>>) /\ \A i \in 1 .. w : s2.wire[i] = s.wire[i]
            /\ \A i \in 1 .. Len(<<e>>) : s2.wire[w + i] = <<e>>[i]
        BY <1>1, <1>2, <3>1, BytesAppend DEF e
      <4>3. Len(s2.wire) = w + 1 /\ s2.wire[w + 1] = e
        BY <4>1, <4>2
      <4> QED
        BY <4>2, <4>3 DEF e
    <3>3. /\ g + w = n /\ g + (w + 1) <= n + 1 /\ g + (w + 1) = n + 1
          /\ \A k \in 1 .. w + 1 : k = w + 1 \/ k \in 1 .. w
      <4>1. g + w = n
        BY <2>1, <2>5
      <4> HIDE DEF w, g, n
      <4> QED
        BY <1>1, <2>1, <4>1, SMTT(60)
    <3>4. ASSUME NEW k \in 1 .. w + 1
          PROVE  s2.wire[k] = Encode(s2.sent[g + k])
      <4>1. CASE k \in 1 .. w
        BY <2>3, <3>2, <4>1
      <4>2. CASE k = w + 1
        BY <1>3, <3>2, <3>3, <4>2
      <4> QED
        BY <3>3, <4>1, <4>2
    <3>5. Queued(cut[c], s2)
      BY <1>2, <1>3, <3>2, <3>3, <3>4 DEF Queued
    <3> QED
      BY <1>4, <1>6, <3>5 DEF StreamInv
  <2> QED
    BY <2>4, <2>5
<1> QED
  BY <1>5, <1>6

\* What a reader has got is one message longer.
LEMMA GotMore ==
    ASSUME NEW s \in Stream, NEW s2, Len(s.got) < Len(s.sent), s.sent[Len(s.got) + 1] \in Seq(Byte),
           \A i \in 1 .. Len(s.got) : s.got[i] = s.sent[i],
           s2.got = Append(s.got, s.sent[Len(s.got) + 1])
    PROVE  /\ Len(s2.got) = Len(s.got) + 1 /\ Len(s2.got) <= Len(s.sent)
           /\ \A i \in 1 .. Len(s2.got) : s2.got[i] = s.sent[i]
<1> DEFINE g == Len(s.got)
           n == Len(s.sent)
           due == s.sent[g + 1]
<1>1. g \in Nat /\ n \in Nat /\ s.got \in Seq(Seq(Byte))
  BY StreamTypes
<1>2. Len(Append(s.got, due)) = g + 1 /\ Append(s.got, due)[g + 1] = due
      /\ \A k \in 1 .. g : Append(s.got, due)[k] = s.got[k]
  BY <1>1, AppendItems
<1>3. Len(s2.got) = g + 1 /\ s2.got[g + 1] = due /\ \A k \in 1 .. g : s2.got[k] = s.got[k]
  BY <1>2
<1>4. g + 1 <= n /\ \A i \in 1 .. g + 1 : i \in 1 .. g \/ i = g + 1
  <2>1. g < n
    OBVIOUS
  <2> HIDE DEF g, n
  <2> QED
    BY <1>1, <2>1, SMTT(60)
<1> QED
  BY <1>3, <1>4

\* A frame taken off the buffer: the others are where they were in the stream.
LEMMA FramingTaken ==
    ASSUME NEW s \in Stream, NEW s2 \in Stream, NEW off, Framing(s, off), Offsets(s.sent, off),
           \A k \in 1 .. Len(s.sent) : s.sent[k] \in Bodies, NEW len \in Nat,
           s2.sent = s.sent, Len(s2.got) = Len(s.got) + 1,
           off[Len(s.got) + 1] = off[Len(s.got)] + len,
           Total(s) = Total(s2) + len, \A q \in 1 .. Total(s2) : At(s2, q) = At(s, q + len)
    PROVE  Framing(s2, off)
<1> DEFINE g == Len(s.got)
           n == Len(s.sent)
           x == off[g]
           t2 == Total(s2)
<1> SUFFICES ASSUME NEW k \in g + 2 .. n, NEW j \in 1 .. Len(EncodeFrame(s.sent[k])),
                    off[k - 1] + j <= off[g + 1] + t2
             PROVE  At(s2, off[k - 1] + j - off[g + 1]) = EncodeFrame(s.sent[k])[j]
  <2>1. g \in Nat /\ n \in Nat
    BY StreamTypes
  <2>2. (g + 1) + 1 = g + 2
    <3> HIDE DEF g
    <3> QED
      BY <2>1, SMTT(60)
  <2> QED
    BY <2>2 DEF Framing
<1>1. g \in Nat /\ n \in Nat /\ Total(s2) \in Nat /\ x \in Nat
  BY StreamTypes, TotalType DEF Offsets
<1>2. /\ k \in (g + 1) + 1 .. n /\ k \in g + 1 .. n /\ k \in 1 .. n
      /\ g + 1 \in Nat /\ j \in Nat /\ j > 0
  <2> HIDE DEF g, n
  <2> QED
    BY <1>1, SMTT(60)
<1>3. Len(EncodeFrame(s.sent[k])) \in Nat
  BY <1>2, FrameParts, LenProperties
<1>4. off[k - 1] \in Nat /\ off[g + 1] <= off[k - 1]
  BY <1>1, <1>2, <1>3, FramePlace
<1>5. off[g + 1] = x + len /\ Total(s) = t2 + len
  OBVIOUS
<1> DEFINE y == off[k - 1]
           q == y + j - off[g + 1]
<1>6. q \in 1 .. t2 /\ q + len = y + j - x /\ y + j <= x + Total(s)
  <2> DEFINE z == off[g + 1]
             t == Total(s)
  <2>1. z = x + len /\ t = t2 + len /\ y \in Nat /\ z <= y /\ y + j <= z + t2
    BY <1>4, <1>5
  <2> HIDE DEF x, y, z, t, t2
  <2>2. y + j - z \in 1 .. t2 /\ (y + j - z) + len = y + j - x /\ y + j <= x + t
    BY <1>1, <1>2, <2>1, SMTT(60) DEF t2
  <2> QED
    BY <2>2 DEF z, t
<1>7. At(s2, q) = At(s, q + len)
  BY <1>6
<1>8. At(s, y + j - x) = EncodeFrame(s.sent[k])[j]
  BY <1>2, <1>6 DEF Framing
<1> QED
  BY <1>6, <1>7, <1>8

\* recv: the next message leaves the stream and is what was sent.
LEMMA ReceivedInv ==
    ASSUME NEW c, NEW s, NEW failed, NEW s2 \in Stream,
           StreamInv(transport[c], failed, s), Received(c, s, s2)
    PROVE  StreamInv(transport[c], failed, s2)
<1> DEFINE g == Len(s.got)
           n == Len(s.sent)
           due == s.sent[g + 1]
           len == Len(EncodeFrame(due))
<1>1. /\ s \in Stream /\ g \in Nat /\ n \in Nat
      /\ \A k \in 1 .. n : s.sent[k] \in Bodies /\ \A i \in 1 .. g : s.got[i] = s.sent[i]
  BY StreamTypes DEF StreamInv
<1>2. /\ Event(c, s).kind = "frame" /\ ~Bad(c, s) /\ s2.sent = s.sent
      /\ s2.got = Append(s.got, Decode(Event(c, s).frame)) /\ s2.buf = Event(c, s).rest
      /\ s2.wire = IF transport[c] = "quic" THEN s.wire ELSE Tail(s.wire)
  BY DEF Received
<1>3. /\ g < n /\ due \in Bodies /\ Decode(Event(c, s).frame) = due
      /\ transport[c] = "quic" =>
           len <= Len(s.buf) /\ Event(c, s).rest = SubSeq(s.buf, len + 1, Len(s.buf))
      /\ transport[c] # "quic" => s.wire # <<>>
  BY <1>2, RecvFacts
<1>4. /\ Len(s2.got) = g + 1 /\ Len(s2.got) <= n
      /\ \A i \in 1 .. Len(s2.got) : s2.got[i] = s.sent[i]
  <2>1. due \in Seq(Byte) /\ s2.got = Append(s.got, due)
    BY <1>2, <1>3 DEF Bodies
  <2> QED
    BY <1>1, <1>3, <2>1, GotMore, SMTT(60)
<1>5. CASE transport[c] = "quic"
  <2>1. PICK off : Streamed(failed, s, off)
    BY <1>5 DEF StreamInv
  <2>2. /\ Offsets(s.sent, off) /\ Framing(s, off) /\ \A i \in 1 .. Len(s.wire) : Len(s.wire[i]) = 1
        /\ off[g] + Total(s) <= off[n] /\ (~failed => off[g] + Total(s) = off[n])
    BY <2>1 DEF Streamed
  <2>3. len \in Nat /\ len <= Len(s.buf) /\ s2.wire = s.wire
        /\ s2.buf = SubSeq(s.buf, len + 1, Len(s.buf))
    BY <1>2, <1>3, <1>5, FrameParts, LenProperties
  <2>4. off[g + 1] = off[g] + len /\ off[g] \in Nat
    <3>1. g + 1 \in 1 .. n /\ (g + 1) - 1 = g
      <4>1. g < n
        BY <1>3
      <4> HIDE DEF g, n
      <4> QED
        BY <1>1, <4>1, SMTT(60)
    <3> QED
      BY <1>1, <2>2, <3>1 DEF Offsets
  <2> HIDE DEF len
  <2>5. Total(s) = Total(s2) + len /\ \A q \in 1 .. Total(s2) : At(s2, q) = At(s, q + len)
    BY <1>1, <2>3, BytesTaken
  <2>6. Framing(s2, off)
    BY <1>1, <1>2, <1>4, <2>2, <2>3, <2>4, <2>5, FramingTaken
  <2>7. off[g + 1] + Total(s2) = off[g] + Total(s)
    <3> DEFINE x == off[g]
               y == off[g + 1]
               t == Total(s)
               t2 == Total(s2)
    <3>1. y = x + len /\ t = t2 + len /\ x \in Nat /\ t2 \in Nat
      BY <2>4, <2>5, TotalType
    <3> HIDE DEF x, y, t, t2
    <3>2. y + t2 = x + t
      BY <2>3, <3>1, SMTT(60)
    <3> QED
      BY <3>2 DEF x, y, t, t2
  <2>8. Streamed(failed, s2, off)
    BY <1>2, <1>4, <2>2, <2>3, <2>6, <2>7 DEF Streamed
  <2> QED
    BY <1>1, <1>2, <1>4, <1>5, <2>8 DEF StreamInv
<1>6. CASE transport[c] # "quic"
  <2> DEFINE w == Len(s.wire)
  <2>1. /\ w \in Nat /\ g + w <= n /\ (~failed => g + w = n) /\ s.wire \in Seq(Seq(Byte))
        /\ \A k \in 1 .. w : s.wire[k] = Encode(s.sent[g + k])
    BY <1>1, <1>6, StreamTypes DEF StreamInv, Queued
  <2>2. s2.wire = Tail(s.wire) /\ s.wire # <<>>
    BY <1>2, <1>3, <1>6
  <2>3. Len(Tail(s.wire)) = w - 1 /\ \A k \in 1 .. w - 1 : Tail(s.wire)[k] = s.wire[k + 1]
    <3> DEFINE z == s.wire
    <3>1. z \in Seq(Seq(Byte)) /\ z # <<>>
      BY <2>1, <2>2
    <3> HIDE DEF z
    <3>2. Len(Tail(z)) = Len(z) - 1 /\ \A k \in 1 .. Len(z) - 1 : Tail(z)[k] = z[k + 1]
      BY <3>1, HeadTailProperties, SMTT(60)
    <3> QED
      BY <3>2 DEF z
  <2>4. /\ (g + 1) + (w - 1) = g + w
        /\ \A k \in 1 .. w - 1 : k + 1 \in 1 .. w /\ g + (k + 1) = (g + 1) + k
    <3> HIDE DEF w, g
    <3> QED
      BY <1>1, <2>1, SMTT(60)
  <2>5. Len(s2.wire) = w - 1 /\ \A k \in 1 .. w - 1 : s2.wire[k] = Encode(s.sent[(g + 1) + k])
    BY <2>1, <2>2, <2>3, <2>4
  <2>6. Queued(failed, s2)
    BY <1>2, <1>4, <2>1, <2>4, <2>5 DEF Queued
  <2> QED
    BY <1>1, <1>2, <1>4, <1>6, <2>6 DEF StreamInv
<1> QED
  BY <1>5, <1>6

\* read_chunk: the same bytes, more of them in the buffer.
LEMMA FilledInv ==
    ASSUME NEW s, NEW failed, NEW s2 \in Stream, NEW n \in 1 .. Len(s.wire),
           StreamInv("quic", failed, s), Filled(s, n, s2)
    PROVE  StreamInv("quic", failed, s2)
<1>1. /\ s \in Stream /\ \A k \in 1 .. Len(s.sent) : s.sent[k] \in Bodies
      /\ Len(s.got) <= Len(s.sent) /\ \A i \in 1 .. Len(s.got) : s.got[i] = s.sent[i]
  BY DEF StreamInv
<1>2. PICK off : Streamed(failed, s, off)
  BY DEF StreamInv
<1>3. /\ Offsets(s.sent, off) /\ Framing(s, off) /\ \A i \in 1 .. Len(s.wire) : Len(s.wire[i]) = 1
  BY <1>2 DEF Streamed
<1>4. s2.sent = s.sent /\ s2.got = s.got
  BY DEF Filled
<1>5. /\ Total(s2) = Total(s) /\ \A q \in 1 .. Total(s2) : At(s2, q) = At(s, q)
      /\ \A i \in 1 .. Len(s2.wire) : i + n \in 1 .. Len(s.wire) /\ s2.wire[i] = s.wire[i + n]
  BY <1>1, <1>3, BytesMoved
<1>6. Total(s2) <= Total(s)
  <2> DEFINE t == Total(s)
             t2 == Total(s2)
  <2>1. t2 = t /\ t \in Nat
    BY <1>1, <1>5, TotalType
  <2> HIDE DEF t, t2
  <2>2. t2 <= t
    BY <2>1, SMTT(60)
  <2> QED
    BY <2>2 DEF t, t2
<1>7. Framing(s2, off)
  BY <1>1, <1>3, <1>4, <1>5, <1>6, FramingShorter
<1>8. \A i \in 1 .. Len(s2.wire) : Len(s2.wire[i]) = 1
  BY <1>3, <1>5
<1>9. Streamed(failed, s2, off)
  BY <1>2, <1>4, <1>5, <1>7, <1>8 DEF Streamed
<1> QED
  BY <1>1, <1>4, <1>9 DEF StreamInv

\* The connection fails, and the end of the stream is lost.
LEMMA EmptiedInv ==
    ASSUME NEW s, NEW failed, NEW by, NEW s2 \in Stream, StreamInv(by, failed, s), Emptied(s, s2)
    PROVE  StreamInv(by, TRUE, s2)
<1>1. /\ s \in Stream /\ \A k \in 1 .. Len(s.sent) : s.sent[k] \in Bodies
      /\ Len(s.got) <= Len(s.sent) /\ \A i \in 1 .. Len(s.got) : s.got[i] = s.sent[i]
  BY DEF StreamInv
<1>2. s2.wire = <<>> /\ s2.sent = s.sent /\ s2.buf = s.buf /\ s2.got = s.got
  BY DEF Emptied
<1>3. Len(s2.wire) = 0 /\ \A k \in 1 .. Len(s2.wire) : FALSE
  <2>1. Len(<<>>) = 0 /\ \A k \in 1 .. 0 : FALSE
    BY SMTT(60)
  <2> QED
    BY <1>2, <2>1
<1> DEFINE b == Len(s.buf)
           w == Len(s.wire)
           g == Len(s.got)
           n == Len(s.sent)
<1>4. b \in Nat /\ w \in Nat /\ g \in Nat /\ n \in Nat /\ g <= n
  BY <1>1, StreamTypes
<1>5. CASE by = "quic"
  <2>1. PICK off : Streamed(failed, s, off)
    BY <1>5 DEF StreamInv
  <2>2. Offsets(s.sent, off) /\ Framing(s, off) /\ off[g] + Total(s) <= off[n]
    BY <2>1 DEF Streamed
  <2> DEFINE x == off[g]
             y == off[n]
             t == Total(s)
             t2 == Total(s2)
  <2>3. t = b + w /\ t2 = b + 0 /\ x \in Nat /\ y \in Nat /\ x + t <= y
    BY <1>1, <1>2, <1>3, <1>4, <2>2, TotalType DEF Offsets
  <2>4. t2 <= t /\ x + t2 <= y /\ \A q \in 1 .. t2 : q <= b
    <3> HIDE DEF b, w, x, y, t, t2
    <3> QED
      BY <1>4, <2>3, SMTT(60)
  <2>5. \A q \in 1 .. Total(s2) : At(s2, q) = At(s, q)
    BY <1>2, <2>4 DEF At
  <2>6. Framing(s2, off)
    BY <1>1, <1>2, <2>2, <2>4, <2>5, FramingShorter
  <2>7. Streamed(TRUE, s2, off)
    BY <1>2, <1>3, <2>2, <2>4, <2>6 DEF Streamed
  <2> QED
    BY <1>1, <1>2, <1>5, <2>7 DEF StreamInv
<1>6. CASE by # "quic"
  <2>1. g + 0 <= n
    <3> HIDE DEF g, n
    <3> QED
      BY <1>4, SMTT(60)
  <2>2. Queued(TRUE, s2)
    BY <1>2, <1>3, <2>1 DEF Queued
  <2> QED
    BY <1>1, <1>2, <1>6, <2>2 DEF StreamInv
<1> QED
  BY <1>5, <1>6

-----------------------------------------------------------------------------
(* One direction of every connection                                         *)

Kept(f, words) ==
    /\ f \in [Conns -> Stream]
    /\ \A c \in Conns : StreamInv(transport[c], cut[c], f[c])
    /\ \A c \in Conns : \A k \in 1 .. Len(f[c].sent) : f[c].sent[k] \in words

\* A step of one connection keeps the streams of all of them.
LEMMA KeptOne ==
    ASSUME NEW f, NEW f2, NEW words, NEW c \in Conns, Kept(f, words), f2 \in [Conns -> Stream],
           \A d \in Conns : d # c => f2[d] = f[d],
           StreamInv(transport[c], cut[c], f2[c]),
           \A k \in 1 .. Len(f2[c].sent) : f2[c].sent[k] \in words
    PROVE  Kept(f2, words)
  BY DEF Kept

LEMMA SentKept ==
    ASSUME NEW f, NEW f2, NEW words \in SUBSET Bodies, NEW c \in Conns, NEW body \in words,
           Kept(f, words), f2 \in [Conns -> Stream], Sent(c, f[c], body, f2[c]),
           \A d \in Conns : d # c => f2[d] = f[d]
    PROVE  Kept(f2, words)
<1>1. /\ f \in [Conns -> Stream] /\ StreamInv(transport[c], cut[c], f[c]) /\ body \in Bodies
      /\ \A k \in 1 .. Len(f[c].sent) : f[c].sent[k] \in words
  BY DEF Kept
<1>2. StreamInv(transport[c], cut[c], f2[c])
  <2>1. f2[c] \in Stream
    OBVIOUS
  <2> QED
    BY <1>1, <2>1, SentInv
<1> DEFINE s == f[c].sent
           s2 == f2[c].sent
<1>3. s2 = Append(s, body) /\ s \in Seq(Seq(Byte)) /\ body \in Seq(Byte) /\ Len(s) \in Nat
  <2>1. f[c] \in Stream
    BY <1>1
  <2> QED
    BY <1>1, <2>1, StreamTypes DEF Sent, Bodies
<1>4. \A k \in 1 .. Len(s) : s[k] \in words
  BY <1>1
<1> HIDE DEF s, s2
<1>5. \A k \in 1 .. Len(s2) : s2[k] \in words
  <2> DEFINE m == Append(s, body)
             n == Len(s)
  <2>1. Len(m) = n + 1 /\ m[n + 1] = body /\ \A k \in 1 .. n : m[k] = s[k]
    BY <1>3, AppendItems
  <2>2. s2 = m /\ n \in Nat
    BY <1>3
  <2> HIDE DEF m, n
  <2>3. \A k \in 1 .. n + 1 : k = n + 1 \/ k \in 1 .. n
    BY <2>2, SMTT(60)
  <2> QED
    BY <1>4, <2>1, <2>2, <2>3 DEF n
<1>6. \A k \in 1 .. Len(f2[c].sent) : f2[c].sent[k] \in words
  BY <1>5 DEF s2
<1> QED
  BY <1>2, <1>6, KeptOne

LEMMA ReceivedKept ==
    ASSUME NEW f, NEW f2, NEW words, NEW c \in Conns, Kept(f, words),
           f2 \in [Conns -> Stream], Received(c, f[c], f2[c]),
           \A d \in Conns : d # c => f2[d] = f[d]
    PROVE  Kept(f2, words)
<1>1. /\ StreamInv(transport[c], cut[c], f[c])
      /\ \A k \in 1 .. Len(f[c].sent) : f[c].sent[k] \in words
  BY DEF Kept
<1>2. f2[c] \in Stream /\ f2[c].sent = f[c].sent
  BY DEF Received
<1>3. StreamInv(transport[c], cut[c], f2[c])
  BY <1>1, <1>2, ReceivedInv
<1> QED
  BY <1>1, <1>2, <1>3, KeptOne, SMTT(60)

LEMMA FilledKept ==
    ASSUME NEW f, NEW f2, NEW words, NEW c \in Conns, Kept(f, words), transport[c] = "quic",
           NEW n \in 1 .. Len(f[c].wire), f2 \in [Conns -> Stream], Filled(f[c], n, f2[c]),
           \A d \in Conns : d # c => f2[d] = f[d]
    PROVE  Kept(f2, words)
<1>1. /\ StreamInv("quic", cut[c], f[c])
      /\ \A k \in 1 .. Len(f[c].sent) : f[c].sent[k] \in words
  BY DEF Kept
<1>2. f2[c] \in Stream /\ f2[c].sent = f[c].sent
  BY DEF Filled
<1>3. StreamInv("quic", cut[c], f2[c])
  BY <1>1, <1>2, FilledInv
<1> QED
  BY <1>1, <1>2, <1>3, KeptOne, SMTT(60)

\* What becomes of one direction when a connection takes a step.
Moved(c, f, f2, words) == Kept(f2, words) /\ \A d \in Conns : d # c => f2[d] = f[d]

\* What a client says, and a server.
Asked == {Hello, request, Stdin}
Told == {Welcome, Started, Stdout}

StreamsInv == Kept(up, Asked) /\ Kept(down, Told)

\* The messages of a handshake have a frame.
LEMMA WordsFit ==
    ASSUME setup \in Setups, request \in setup.requests
    PROVE  Asked \subseteq Bodies /\ Told \subseteq Bodies
<1>1. request \in Bodies
  <2>1. request \in Seq(Byte)
    BY SetupAssumption
  <2>2. request # <<>> /\ Len(request) < MaxLength
    BY RequestAssumption, SMTT(60) DEF MaxLength
  <2> QED
    BY <2>1, <2>2 DEF Bodies
<1>2. ASSUME NEW body \in {Hello, Welcome, Started, Stdin, Stdout}
      PROVE  body \in Seq(Byte) /\ body # <<>> /\ Len(body) < 5
  <2>1. CASE body = Hello
    BY <2>1, SMTT(60) DEF Hello, Byte
  <2>2. CASE body = Started
    BY <2>2, SMTT(60) DEF Started, Byte
  <2>3. CASE body = Welcome
    BY <2>3, SMTT(60) DEF Welcome, Byte
  <2>4. CASE body = Stdin
    BY <2>4, SMTT(60) DEF Stdin, Byte
  <2>5. CASE body = Stdout
    BY <2>5, SMTT(60) DEF Stdout, Byte
  <2> QED
    BY <2>1, <2>2, <2>3, <2>4, <2>5
<1>3. ASSUME NEW body \in {Hello, Welcome, Started, Stdin, Stdout}
      PROVE  Len(body) < MaxLength
  <2>1. body \in Seq(Byte) /\ Len(body) < 5
    BY <1>2
  <2>2. Len(body) \in Nat
    BY <2>1, LenProperties
  <2> DEFINE n == Len(body)
  <2>3. n < 5 /\ n \in Nat
    BY <2>1, <2>2
  <2> HIDE DEF n
  <2>4. n < MaxLength
    BY <2>3, SMTT(60) DEF MaxLength
  <2> QED
    BY <2>4 DEF n
<1> QED
  BY <1>1, <1>2, <1>3 DEF Bodies, Asked, Told

LEMMA UpSent ==
    ASSUME StreamsInv, setup \in Setups, request \in setup.requests, NEW c \in Conns,
           NEW body \in Asked, Send(up, c, body)
    PROVE  Moved(c, up, up', Asked)
<1>1. Kept(up, Asked) /\ up \in [Conns -> Stream]
  BY DEF StreamsInv, Kept
<1>2. Asked \in SUBSET Bodies /\ body \in Bodies
  BY WordsFit
<1>3. /\ up' \in [Conns -> Stream] /\ Sent(c, up[c], body, up'[c])
      /\ \A d \in Conns : d # c => up'[d] = up[d]
  BY <1>1, <1>2, SendMoves DEF Send
<1>4. Kept(up', Asked)
  BY <1>1, <1>2, <1>3, SentKept
<1> QED
  BY <1>3, <1>4 DEF Moved

LEMMA DownSent ==
    ASSUME StreamsInv, setup \in Setups, request \in setup.requests, NEW c \in Conns,
           NEW body \in Told, Send(down, c, body)
    PROVE  Moved(c, down, down', Told)
<1>1. Kept(down, Told) /\ down \in [Conns -> Stream]
  BY DEF StreamsInv, Kept
<1>2. Told \in SUBSET Bodies /\ body \in Bodies
  BY WordsFit
<1>3. /\ down' \in [Conns -> Stream] /\ Sent(c, down[c], body, down'[c])
      /\ \A d \in Conns : d # c => down'[d] = down[d]
  BY <1>1, <1>2, SendMoves DEF Send
<1>4. Kept(down', Told)
  BY <1>1, <1>2, <1>3, SentKept
<1> QED
  BY <1>3, <1>4 DEF Moved

LEMMA UpReceived ==
    ASSUME StreamsInv, NEW c \in Conns, Recv(up, c) \/ Chunk(up, c)
    PROVE  Moved(c, up, up', Asked)
<1>1. /\ Kept(up, Asked) /\ up \in [Conns -> Stream]
      /\ StreamInv(transport[c], cut[c], up[c])
  BY DEF StreamsInv, Kept
<1>2. CASE Recv(up, c)
  <2>1. Event(c, up[c]).kind = "frame" /\ ~Bad(c, up[c])
    BY <1>2 DEF Recv
  <2>2. up' = AfterRecv(c, up)
    BY <1>2 DEF Recv, AfterRecv
  <2>3. /\ up' \in [Conns -> Stream] /\ Received(c, up[c], up'[c])
        /\ \A d \in Conns : d # c => up'[d] = up[d]
    BY <1>1, <2>1, <2>2, RecvMoves
  <2>4. Kept(up', Asked)
    BY <1>1, <2>3, ReceivedKept
  <2> QED
    BY <2>3, <2>4 DEF Moved
<1>3. CASE Chunk(up, c)
  <2>1. PICK n \in 1 .. Len(up[c].wire) :
           up' = [up EXCEPT ![c].buf = @ \o [i \in 1 .. n |-> up[c].wire[i][1]],
                            ![c].wire = SubSeq(@, n + 1, Len(@))]
    BY <1>3 DEF Chunk
  <2>2. transport[c] = "quic" /\ StreamInv("quic", cut[c], up[c])
    BY <1>1, <1>3 DEF Chunk
  <2>3. /\ up' \in [Conns -> Stream] /\ Filled(up[c], n, up'[c])
        /\ \A d \in Conns : d # c => up'[d] = up[d]
    BY <1>1, <2>1, <2>2, ChunkMoves
  <2>4. Kept(up', Asked)
    BY <1>1, <2>2, <2>3, FilledKept
  <2> QED
    BY <2>3, <2>4 DEF Moved
<1> QED
  BY <1>2, <1>3

LEMMA DownReceived ==
    ASSUME StreamsInv, NEW c \in Conns, Recv(down, c) \/ Chunk(down, c)
    PROVE  Moved(c, down, down', Told)
<1>1. /\ Kept(down, Told) /\ down \in [Conns -> Stream]
      /\ StreamInv(transport[c], cut[c], down[c])
  BY DEF StreamsInv, Kept
<1>2. CASE Recv(down, c)
  <2>1. Event(c, down[c]).kind = "frame" /\ ~Bad(c, down[c])
    BY <1>2 DEF Recv
  <2>2. down' = AfterRecv(c, down)
    BY <1>2 DEF Recv, AfterRecv
  <2>3. /\ down' \in [Conns -> Stream] /\ Received(c, down[c], down'[c])
        /\ \A d \in Conns : d # c => down'[d] = down[d]
    BY <1>1, <2>1, <2>2, RecvMoves
  <2>4. Kept(down', Told)
    BY <1>1, <2>3, ReceivedKept
  <2> QED
    BY <2>3, <2>4 DEF Moved
<1>3. CASE Chunk(down, c)
  <2>1. PICK n \in 1 .. Len(down[c].wire) :
           down' = [down EXCEPT ![c].buf = @ \o [i \in 1 .. n |-> down[c].wire[i][1]],
                            ![c].wire = SubSeq(@, n + 1, Len(@))]
    BY <1>3 DEF Chunk
  <2>2. transport[c] = "quic" /\ StreamInv("quic", cut[c], down[c])
    BY <1>1, <1>3 DEF Chunk
  <2>3. /\ down' \in [Conns -> Stream] /\ Filled(down[c], n, down'[c])
        /\ \A d \in Conns : d # c => down'[d] = down[d]
    BY <1>1, <2>1, <2>2, ChunkMoves
  <2>4. Kept(down', Told)
    BY <1>1, <2>2, <2>3, FilledKept
  <2> QED
    BY <2>3, <2>4 DEF Moved
<1> QED
  BY <1>2, <1>3

-----------------------------------------------------------------------------
(* The course of a handshake                                                 *)

ClientPlaces == {"start", "fallback", "hello", "request", "failed", "closed"} \cup ClientReads
ServerPlaces == {"none", "verify", "gone", "no_session"} \cup ServerReads

Places ==
    /\ setup \in Setups /\ request \in setup.requests
    /\ client \in [Conns -> ClientPlaces] /\ server \in [Conns -> ServerPlaces]
    /\ transport \in [Conns -> {"none", "quic", "ws"}] /\ cut \in [Conns -> BOOLEAN]

Refused(c) == verdict[c] \in {"rejected", "unreachable"} \/ TooLong(request) \/ cut[c]

\* Nothing is sent before a connection is made; a handler that is gone had a
\* reason, and a client that is told so is not told by anybody else.
Course(c) ==
    /\ client[c] \in {"start", "fallback"} =>
         server[c] = "none" /\ transport[c] = "none" /\ up[c] = NewStream /\ down[c] = NewStream
    /\ server[c] = "gone" => Refused(c)
    /\ client[c] = "closed" => server[c] \in {"gone", "no_session"}

HandshakeInv == JudgedInv /\ Places /\ StreamsInv /\ \A c \in Conns : Course(c)

\* What a step leaves alone for good: a token refused stays refused.
LEMMA VerdictFinal ==
    ASSUME AuthTypeOK, AuthNext \/ UNCHANGED authVars, NEW c \in Conns,
           verdict[c] \in {"rejected", "unreachable"}
    PROVE  verdict'[c] = verdict[c]
<1>1. verdict \in [Conns -> {"none", "queued", "fetch", "refetch", "accepted", "rejected",
                             "unreachable"}]
  BY DEF AuthTypeOK
<1>2. ASSUME NEW d \in Conns, NEW v, verdict' = [verdict EXCEPT ![d] = v],
             verdict[d] \in {"none", "queued", "fetch", "refetch"}
      PROVE  verdict'[c] = verdict[c]
  BY <1>1, <1>2
<1>3. ASSUME NEW d \in Conns, Verify(d) \/ DecodingKey(d) \/ FetchJwks(d) \/ FetchFails(d)
      PROVE  verdict'[c] = verdict[c]
  <2>1. CASE Verify(d)
    BY <1>2, <2>1 DEF Verify
  <2>2. CASE DecodingKey(d)
    BY <1>2, <2>2 DEF DecodingKey
  <2>3. CASE FetchJwks(d)
    BY <1>2, <2>3 DEF FetchJwks
  <2>4. CASE FetchFails(d)
    BY <1>2, <2>4 DEF FetchFails
  <2> QED
    BY <1>3, <2>1, <2>2, <2>3, <2>4
<1>4. ASSUME NEW d \in Conns, NEW flow, Present(d, flow)
      PROVE  verdict' = verdict
  BY <1>4 DEF Present
<1>5. CASE PublishKey \/ RetireKey
  BY <1>5 DEF PublishKey, RetireKey
<1>6. CASE UNCHANGED authVars
  BY <1>6 DEF authVars
<1> QED
  BY <1>3, <1>4, <1>5, <1>6 DEF AuthNext

\* A step of connection c: what is the same for the others.
Elsewhere(c) ==
    \A d \in Conns : d # c =>
        /\ client'[d] = client[d] /\ server'[d] = server[d] /\ transport'[d] = transport[d]
        /\ cut'[d] = cut[d] /\ up'[d] = up[d] /\ down'[d] = down[d]

LEMMA CourseElsewhere ==
    ASSUME HandshakeInv, AuthNext \/ UNCHANGED authVars, request' = request,
           NEW c, NEW d \in Conns, d # c, Elsewhere(c)
    PROVE  Course(d)'
<1>1. Course(d)
  BY DEF HandshakeInv
<1>2. verdict[d] \in {"rejected", "unreachable"} => verdict'[d] = verdict[d]
  BY VerdictFinal DEF HandshakeInv, JudgedInv
<1>3. TooLong(request)' = TooLong(request)
  BY DEF TooLong
<1> QED
  BY <1>1, <1>2, <1>3 DEF Elsewhere, Course, Refused

\* What is left to show of a step of connection c.
LEMMA Combined ==
    ASSUME HandshakeInv, AuthNext \/ UNCHANGED authVars, UNCHANGED given, NEW c, Elsewhere(c),
           Places', StreamsInv', c \in Conns => Course(c)'
    PROVE  HandshakeInv'
<1>1. JudgedInv'
  BY AuthStepJudged DEF HandshakeInv
<1>2. request' = request
  BY DEF given
<1>3. \A d \in Conns : Course(d)'
  BY <1>2, CourseElsewhere
<1> QED
  BY <1>1, <1>3 DEF HandshakeInv

\* The streams after a step that leaves transports and connections alone.
LEMMA StreamsAfter ==
    ASSUME StreamsInv, UNCHANGED <<transport, cut, request>>, NEW c,
           up' = up \/ Moved(c, up, up', Asked), down' = down \/ Moved(c, down, down', Told)
    PROVE  /\ StreamsInv'
           /\ \A d \in Conns : d # c => up'[d] = up[d] /\ down'[d] = down[d]
<1>1. Kept(up', Asked) /\ Kept(down', Told)
  BY DEF StreamsInv, Moved
<1>2. Asked' = Asked /\ Told' = Told
  BY DEF Asked, Told
<1>3. Kept(up, Asked)' /\ Kept(down, Told)'
  BY <1>1, <1>2 DEF Kept
<1> QED
  BY <1>3 DEF StreamsInv, Moved

LEMMA Placed ==
    ASSUME NEW S, NEW f \in [Conns -> S], NEW c \in Conns, NEW to \in S, NEW f2,
           f2 = [f EXCEPT ![c] = to]
    PROVE  f2 \in [Conns -> S] /\ f2[c] = to /\ \A d \in Conns : d # c => f2[d] = f[d]
  OBVIOUS

\* A step of an established connection that it survives.
LEMMA OrdinaryStep ==
    ASSUME HandshakeInv, AuthNext \/ UNCHANGED authVars, UNCHANGED <<given, transport, cut>>,
           NEW c \in Conns,
           client' \in [Conns -> ClientPlaces], server' \in [Conns -> ServerPlaces],
           \A d \in Conns : d # c => client'[d] = client[d] /\ server'[d] = server[d],
           up' = up \/ Moved(c, up, up', Asked), down' = down \/ Moved(c, down, down', Told),
           client'[c] \notin {"start", "fallback"}, server'[c] = "gone" => Refused(c),
           client'[c] = "closed" => server'[c] \in {"gone", "no_session"}
    PROVE  HandshakeInv'
<1>1. Places /\ StreamsInv /\ AuthTypeOK
  BY DEF HandshakeInv, JudgedInv
<1>2. setup' = setup /\ request' = request /\ transport' = transport /\ cut' = cut
  BY DEF given
<1>3. Places'
  BY <1>1, <1>2 DEF Places
<1>4. /\ StreamsInv'
      /\ \A d \in Conns : d # c => up'[d] = up[d] /\ down'[d] = down[d]
  BY <1>1, <1>2, StreamsAfter
<1>5. Elsewhere(c)
  BY <1>2, <1>4 DEF Elsewhere
<1>6. Refused(c) => Refused(c)'
  <2>1. TooLong(request)' = TooLong(request)
    BY <1>2 DEF TooLong
  <2>2. verdict[c] \in {"rejected", "unreachable"} => verdict'[c] = verdict[c]
    BY <1>1, VerdictFinal
  <2> QED
    BY <1>2, <2>1, <2>2 DEF Refused
<1>7. Course(c)'
  BY <1>6 DEF Course
<1> QED
  BY <1>3, <1>4, <1>5, <1>7, Combined

\* The client's own steps.
LEMMA ClientSteps ==
    ASSUME HandshakeInv, AuthNext \/ UNCHANGED authVars, UNCHANGED given, NEW c \in Conns,
           \/ SendHello(c) \/ SendRequest(c) \/ ClientChunk(c) \/ ClientRecv(c) \/ ClientClosed(c)
           \/ ClientStdin(c)
    PROVE  HandshakeInv'
<1>1. Places /\ StreamsInv /\ Course(c)
  BY DEF HandshakeInv
<1>2. client \in [Conns -> ClientPlaces] /\ server \in [Conns -> ServerPlaces]
      /\ setup \in Setups /\ request \in setup.requests
  BY <1>1 DEF Places
<1>3. server[c] = "gone" => Refused(c)
  BY <1>1 DEF Course
<1>4. CASE SendHello(c)
  <2>1. Moved(c, up, up', Asked)
    BY <1>1, <1>2, <1>4, UpSent DEF SendHello, Asked
  <2>2. /\ client' = [client EXCEPT ![c] = "request"]
        /\ UNCHANGED <<server, transport, down, cut>>
    BY <1>4 DEF SendHello, Goto
  <2>3. "request" \in ClientPlaces
    BY DEF ClientPlaces
  <2>4. /\ client' \in [Conns -> ClientPlaces] /\ client'[c] = "request"
        /\ \A d \in Conns : d # c => client'[d] = client[d]
    BY <1>2, <2>2, <2>3, Placed
  <2> QED
    BY <1>2, <1>3, <2>1, <2>2, <2>4, OrdinaryStep
<1>5. CASE SendRequest(c)
  <2>1. Moved(c, up, up', Asked)
    BY <1>1, <1>2, <1>5, UpSent DEF SendRequest, Asked
  <2>2. /\ client' = [client EXCEPT ![c] = "welcome"]
        /\ UNCHANGED <<server, transport, down, cut>>
    BY <1>5 DEF SendRequest, Goto
  <2>3. "welcome" \in ClientPlaces
    BY DEF ClientPlaces, ClientReads
  <2>4. /\ client' \in [Conns -> ClientPlaces] /\ client'[c] = "welcome"
        /\ \A d \in Conns : d # c => client'[d] = client[d]
    BY <1>2, <2>2, <2>3, Placed
  <2> QED
    BY <1>2, <1>3, <2>1, <2>2, <2>4, OrdinaryStep
<1>6. CASE ClientChunk(c)
  <2>1. Moved(c, down, down', Told)
    BY <1>1, <1>6, DownReceived DEF ClientChunk
  <2>2. client[c] \in ClientReads /\ UNCHANGED <<client, server, transport, up, cut>>
    BY <1>6 DEF ClientChunk, pcs
  <2>3. client[c] \notin {"start", "fallback", "closed"}
    BY <2>2 DEF ClientReads
  <2> QED
    BY <1>2, <1>3, <2>1, <2>2, <2>3, OrdinaryStep
<1>7. CASE ClientRecv(c)
  <2>1. Moved(c, down, down', Told)
    BY <1>1, <1>7, DownReceived DEF ClientRecv
  <2>2. /\ client[c] \in ClientReads /\ client' = [client EXCEPT ![c] = ClientAfter[client[c]]]
        /\ UNCHANGED <<server, transport, up, cut>>
    BY <1>7 DEF ClientRecv, Goto
  <2>3. ClientAfter[client[c]] \in {"started", "exec"}
    BY <2>2, SMTT(60) DEF ClientReads, ClientAfter
  <2>4. ClientAfter[client[c]] \in ClientPlaces
    BY <2>3 DEF ClientPlaces, ClientReads
  <2>5. /\ client' \in [Conns -> ClientPlaces] /\ client'[c] = ClientAfter[client[c]]
        /\ \A d \in Conns : d # c => client'[d] = client[d]
    BY <1>2, <2>2, <2>4, Placed
  <2>6. client'[c] \notin {"start", "fallback", "closed"}
    BY <2>3, <2>5
  <2> QED
    BY <1>2, <1>3, <2>1, <2>2, <2>5, <2>6, OrdinaryStep
<1>8. CASE ClientClosed(c)
  <2>1. /\ server[c] \in {"gone", "no_session"} /\ client' = [client EXCEPT ![c] = "closed"]
        /\ UNCHANGED <<server, transport, up, down, cut>>
    BY <1>8 DEF ClientClosed, Goto
  <2>2. "closed" \in ClientPlaces
    BY DEF ClientPlaces
  <2>3. /\ client' \in [Conns -> ClientPlaces] /\ client'[c] = "closed"
        /\ \A d \in Conns : d # c => client'[d] = client[d]
    BY <1>2, <2>1, <2>2, Placed
  <2> QED
    BY <1>2, <1>3, <2>1, <2>3, OrdinaryStep
<1>9. CASE ClientStdin(c)
  <2>1. Moved(c, up, up', Asked)
    BY <1>1, <1>2, <1>9, UpSent DEF ClientStdin, Asked
  <2>2. client[c] = "exec" /\ UNCHANGED <<client, server, transport, down, cut>>
    BY <1>9 DEF ClientStdin, pcs
  <2>3. client[c] \notin {"start", "fallback", "closed"}
    BY <2>2
  <2> QED
    BY <1>2, <1>3, <2>1, <2>2, <2>3, OrdinaryStep
<1> QED
  BY <1>4, <1>5, <1>6, <1>7, <1>8, <1>9

\* The handler's: it has a client that waits for it.
LEMMA ServerSteps ==
    ASSUME HandshakeInv, AuthNext \/ UNCHANGED authVars, UNCHANGED given, NEW c \in Conns,
           \/ ServerChunk(c) \/ ServerHello(c) \/ ServerVerified(c) \/ ServerRequest(c)
           \/ ServerStdin(c) \/ ServerOutput(c) \/ ServerRefuses(c) \/ ServerLost(c)
    PROVE  HandshakeInv'
<1>1. Places /\ StreamsInv /\ Course(c)
  BY DEF HandshakeInv
<1>2. client \in [Conns -> ClientPlaces] /\ server \in [Conns -> ServerPlaces]
      /\ setup \in Setups /\ request \in setup.requests
  BY <1>1 DEF Places
<1>3. server[c] \in ServerReads \cup {"verify"} /\ UNCHANGED <<client, transport, cut>>
  BY DEF ServerChunk, ServerHello, ServerVerified, ServerRequest, ServerStdin, ServerOutput,
     ServerRefuses, ServerLost, ServerFails, ServerReads, pcs
<1>4. server[c] \notin {"none", "gone", "no_session"}
  BY <1>3 DEF ServerReads
<1>5. client[c] \notin {"start", "fallback", "closed"} /\ client' = client
  BY <1>1, <1>3, <1>4 DEF Course
<1>6. ASSUME NEW to \in ServerPlaces, server' = [server EXCEPT ![c] = to],
             to = "gone" => Refused(c), up' = up \/ Moved(c, up, up', Asked),
             down' = down \/ Moved(c, down, down', Told)
      PROVE  HandshakeInv'
  <2>1. /\ server' \in [Conns -> ServerPlaces] /\ server'[c] = to
        /\ \A d \in Conns : d # c => server'[d] = server[d]
    BY <1>2, <1>6, Placed
  <2> QED
    BY <1>2, <1>3, <1>5, <1>6, <2>1, OrdinaryStep
<1>7. ASSUME server' = server, up' = up \/ Moved(c, up, up', Asked),
             down' = down \/ Moved(c, down, down', Told)
      PROVE  HandshakeInv'
  BY <1>2, <1>3, <1>4, <1>5, <1>7, OrdinaryStep
<1>8. {"verify", "request", "attached", "no_session", "gone"} \subseteq ServerPlaces
  BY DEF ServerPlaces, ServerReads
<1>9. CASE ServerChunk(c) \/ ServerStdin(c)
  <2>1. Moved(c, up, up', Asked)
    BY <1>1, <1>9, UpReceived DEF ServerChunk, ServerStdin
  <2> QED
    BY <1>7, <1>9, <2>1 DEF ServerChunk, ServerStdin, pcs
<1>10. CASE ServerHello(c)
  <2>1. Moved(c, up, up', Asked)
    BY <1>1, <1>10, UpReceived DEF ServerHello
  <2> QED
    BY <1>6, <1>8, <1>10, <2>1 DEF ServerHello, Goto
<1>11. CASE ServerVerified(c)
  <2>1. CASE Goto(server, c, "request") /\ Send(down, c, Welcome)
    <3>1. Moved(c, down, down', Told)
      BY <1>1, <1>2, <2>1, DownSent DEF Told
    <3> QED
      BY <1>6, <1>8, <1>11, <2>1, <3>1 DEF ServerVerified, Goto
  <2>2. CASE /\ verdict[c] \in {"rejected", "unreachable"}
             /\ Goto(server, c, "gone") /\ UNCHANGED down
    BY <1>6, <1>8, <1>11, <2>2 DEF ServerVerified, Goto, Refused
  <2> QED
    BY <1>11, <2>1, <2>2 DEF ServerVerified
<1>12. CASE ServerRequest(c)
  <2>1. Moved(c, up, up', Asked)
    BY <1>1, <1>12, UpReceived DEF ServerRequest
  <2>2. CASE Goto(server, c, "attached") /\ Send(down, c, Started)
    <3>1. Moved(c, down, down', Told)
      BY <1>1, <1>2, <2>2, DownSent DEF Told
    <3> QED
      BY <1>6, <1>8, <2>1, <2>2, <3>1 DEF Goto
  <2>3. CASE Goto(server, c, "no_session") /\ UNCHANGED down
    BY <1>6, <1>8, <2>1, <2>3 DEF Goto
  <2> QED
    BY <1>12, <2>2, <2>3 DEF ServerRequest
<1>13. CASE ServerOutput(c)
  <2>1. Moved(c, down, down', Told)
    BY <1>1, <1>2, <1>13, DownSent DEF ServerOutput, Told
  <2> QED
    BY <1>7, <1>13, <2>1 DEF ServerOutput, pcs
<1>14. CASE ServerRefuses(c)
  <2>1. Bad(c, up[c]) /\ server' = [server EXCEPT ![c] = "gone"] /\ up' = up /\ down' = down
    BY <1>14 DEF ServerRefuses, ServerFails, Goto
  <2>2. /\ StreamInv(transport[c], cut[c], up[c])
        /\ \A k \in 1 .. Len(up[c].sent) : up[c].sent[k] \in Asked
    BY <1>1 DEF StreamsInv, Kept
  <2>3. PICK k \in 1 .. Len(up[c].sent) : TooLong(up[c].sent[k])
    BY <2>1, <2>2, BadTooLong
  <2>4. TooLong(request)
    BY <2>2, <2>3, MessagesFit DEF Asked
  <2> QED
    BY <1>6, <1>8, <2>1, <2>4 DEF Refused
<1>15. CASE ServerLost(c)
  <2>1. cut[c] /\ server' = [server EXCEPT ![c] = "gone"] /\ up' = up /\ down' = down
    BY <1>15 DEF ServerLost, ServerFails, Goto
  <2> QED
    BY <1>6, <1>8, <2>1 DEF Refused
<1> QED
  BY <1>9, <1>10, <1>11, <1>12, <1>13, <1>14, <1>15

\* A connection is made, on streams that nothing has been sent on.
LEMMA ConnectedStep ==
    ASSUME HandshakeInv, NEW c \in Conns, client[c] \in {"start", "fallback"},
           NEW by \in {"quic", "ws"}, Connected(c, by)
    PROVE  HandshakeInv'
<1>1. Places /\ StreamsInv /\ Course(c)
  BY DEF HandshakeInv
<1>2. up[c] = NewStream /\ down[c] = NewStream
  BY <1>1 DEF Course
<1>3. /\ client' = [client EXCEPT ![c] = "hello"] /\ server' = [server EXCEPT ![c] = "hello"]
      /\ transport' = [transport EXCEPT ![c] = by]
      /\ UNCHANGED <<authVars, setup, request, up, down, cut>>
  BY DEF Connected, Goto, given
<1>4. "hello" \in ClientPlaces /\ "hello" \in ServerPlaces /\ by \in {"none", "quic", "ws"}
  BY DEF ClientPlaces, ServerPlaces, ServerReads
<1>5. /\ client \in [Conns -> ClientPlaces] /\ server \in [Conns -> ServerPlaces]
      /\ transport \in [Conns -> {"none", "quic", "ws"}]
  BY <1>1 DEF Places
<1>6. /\ client' \in [Conns -> ClientPlaces] /\ client'[c] = "hello"
      /\ \A d \in Conns : d # c => client'[d] = client[d]
  BY <1>3, <1>4, <1>5, Placed
<1>7. /\ server' \in [Conns -> ServerPlaces] /\ server'[c] = "hello"
      /\ \A d \in Conns : d # c => server'[d] = server[d]
  BY <1>3, <1>4, <1>5, Placed
<1>8. /\ transport' \in [Conns -> {"none", "quic", "ws"}] /\ transport'[c] = by
      /\ \A d \in Conns : d # c => transport'[d] = transport[d]
  BY <1>3, <1>4, <1>5, Placed
<1>9. Places'
  BY <1>1, <1>3, <1>6, <1>7, <1>8 DEF Places
<1>10. StreamsInv'
  <2>1. Asked' = Asked /\ Told' = Told
    BY <1>3 DEF Asked, Told
  <2>2. Kept(up, Asked) /\ Kept(down, Told)
    BY <1>1 DEF StreamsInv
  <2>3. ASSUME NEW d \in Conns
        PROVE  /\ StreamInv(transport'[d], cut[d], up[d])
               /\ StreamInv(transport'[d], cut[d], down[d])
    <3>1. CASE d = c
      BY <1>2, <3>1, NewInv
    <3>2. CASE d # c
      BY <1>8, <2>2, <3>2 DEF Kept
    <3> QED
      BY <3>1, <3>2
  <2>4. Kept(up, Asked)'
    BY <1>3, <2>1, <2>2, <2>3 DEF Kept
  <2>5. Kept(down, Told)'
    BY <1>3, <2>1, <2>2, <2>3 DEF Kept
  <2> QED
    BY <2>4, <2>5 DEF StreamsInv
<1>11. Elsewhere(c)
  BY <1>3, <1>6, <1>7, <1>8 DEF Elsewhere
<1>12. Course(c)'
  BY <1>6, <1>7 DEF Course
<1>13. UNCHANGED given
  BY <1>3 DEF given
<1> QED
  BY <1>3, <1>9, <1>10, <1>11, <1>12, <1>13, Combined

LEMMA ConnectSteps ==
    ASSUME HandshakeInv, NEW c \in Conns, Connect(c) \/ ConnectWs(c)
    PROVE  HandshakeInv'
<1>1. Places /\ StreamsInv /\ Course(c)
  BY DEF HandshakeInv
<1>2. client[c] \in {"start", "fallback"} /\ server[c] = "none"
  BY <1>1 DEF Connect, ConnectWs, Course
<1>3. CASE Connected(c, "quic") \/ Connected(c, "ws")
  BY <1>2, <1>3, ConnectedStep
<1>4. CASE /\ Goto(client, c, "fallback") \/ Goto(client, c, "failed")
           /\ UNCHANGED <<authVars, given, server, transport, up, down, cut>>
  <2>1. PICK to \in {"fallback", "failed"} : client' = [client EXCEPT ![c] = to]
    BY <1>4 DEF Goto
  <2>2. to \in ClientPlaces /\ client \in [Conns -> ClientPlaces]
    BY <1>1 DEF ClientPlaces, Places
  <2>3. /\ client' \in [Conns -> ClientPlaces] /\ client'[c] = to
        /\ \A d \in Conns : d # c => client'[d] = client[d]
    BY <2>1, <2>2, Placed
  <2>4. /\ Places' /\ Elsewhere(c)
    BY <1>1, <1>4, <2>3 DEF Places, Elsewhere, given
  <2>5. StreamsInv'
    BY <1>1, <1>4, StreamsAfter DEF given
  <2>6. Course(c)'
    BY <1>1, <1>2, <1>4, <2>3 DEF Course
  <2> QED
    BY <1>4, <2>4, <2>5, <2>6, Combined
<1> QED
  BY <1>3, <1>4 DEF Connect, ConnectWs

\* The client gives up, or the connection fails.
LEMMA FailingSteps ==
    ASSUME HandshakeInv, NEW c \in Conns, ConnectTimeout(c) \/ ClientLost(c) \/ Cut(c)
    PROVE  HandshakeInv'
<1>1. Places /\ StreamsInv /\ Course(c)
  BY DEF HandshakeInv
<1>2. /\ cut' = [cut EXCEPT ![c] = TRUE]
      /\ UNCHANGED <<authVars, setup, request, server, transport>>
  BY DEF ConnectTimeout, ClientLost, Cut, GiveUp, given, pcs
<1>3. client \in [Conns -> ClientPlaces] /\ cut \in [Conns -> BOOLEAN] /\ TRUE \in BOOLEAN
  BY <1>1 DEF Places
<1>4. /\ cut' \in [Conns -> BOOLEAN] /\ cut'[c] = TRUE
      /\ \A d \in Conns : d # c => cut'[d] = cut[d]
  BY <1>2, <1>3, Placed
<1>5. Kept(up, Asked) /\ Kept(down, Told) /\ Asked' = Asked /\ Told' = Told
  BY <1>1, <1>2 DEF StreamsInv, Asked, Told
<1>6. UNCHANGED given
  BY <1>2 DEF given
<1>7. CASE GiveUp(c)
  <2>1. client' = [client EXCEPT ![c] = "failed"] /\ UNCHANGED <<up, down>>
    BY <1>7 DEF GiveUp, Goto
  <2>2. "failed" \in ClientPlaces
    BY DEF ClientPlaces
  <2>3. /\ client' \in [Conns -> ClientPlaces] /\ client'[c] = "failed"
        /\ \A d \in Conns : d # c => client'[d] = client[d]
    BY <1>3, <2>1, <2>2, Placed
  <2>4. ASSUME NEW d \in Conns
        PROVE  /\ StreamInv(transport[d], cut'[d], up[d])
               /\ StreamInv(transport[d], cut'[d], down[d])
    <3>1. /\ StreamInv(transport[d], cut[d], up[d])
          /\ StreamInv(transport[d], cut[d], down[d])
      BY <1>5 DEF Kept
    <3>2. CASE d = c
      <4>1. /\ StreamInv(transport[d], TRUE, up[d])
            /\ StreamInv(transport[d], TRUE, down[d])
        BY <3>1, FailedInv
      <4> QED
        BY <1>4, <3>2, <4>1
    <3>3. CASE d # c
      BY <1>4, <3>1, <3>3
    <3> QED
      BY <3>2, <3>3
  <2>5. Kept(up, Asked)'
    BY <1>2, <1>5, <2>1, <2>4 DEF Kept
  <2>6. Kept(down, Told)'
    BY <1>2, <1>5, <2>1, <2>4 DEF Kept
  <2>7. StreamsInv'
    BY <2>5, <2>6 DEF StreamsInv
  <2>8. Places' /\ Elsewhere(c)
    BY <1>1, <1>2, <1>4, <2>1, <2>3 DEF Places, Elsewhere
  <2>9. Course(c)'
    BY <1>4, <2>3 DEF Course, Refused
  <2> QED
    BY <1>2, <1>6, <2>7, <2>8, <2>9, Combined
<1>8. CASE Cut(c)
  <2>1. /\ up' = [up EXCEPT ![c].wire = <<>>] /\ down' = [down EXCEPT ![c].wire = <<>>]
        /\ client' = client /\ transport[c] # "none"
    BY <1>8 DEF Cut, pcs
  <2>2. up \in [Conns -> Stream] /\ down \in [Conns -> Stream]
    BY <1>5 DEF Kept
  <2>3. /\ up' \in [Conns -> Stream] /\ Emptied(up[c], up'[c])
        /\ \A d \in Conns : d # c => up'[d] = up[d]
    BY <2>1, <2>2, CutMoves
  <2>4. /\ down' \in [Conns -> Stream] /\ Emptied(down[c], down'[c])
        /\ \A d \in Conns : d # c => down'[d] = down[d]
    BY <2>1, <2>2, CutMoves
  <2>5. up'[c] \in Stream /\ down'[c] \in Stream
    BY <2>3, <2>4
  <2>6. StreamInv(transport[c], TRUE, up'[c]) /\ StreamInv(transport[c], TRUE, down'[c])
    <3>1. StreamInv(transport[c], cut[c], up[c]) /\ StreamInv(transport[c], cut[c], down[c])
      BY <1>5 DEF Kept
    <3> QED
      BY <2>3, <2>4, <2>5, <3>1, EmptiedInv
  <2>7. up'[c].sent = up[c].sent /\ down'[c].sent = down[c].sent
    BY <2>3, <2>4 DEF Emptied
  <2>8. ASSUME NEW d \in Conns
        PROVE  /\ StreamInv(transport[d], cut'[d], up'[d])
               /\ StreamInv(transport[d], cut'[d], down'[d])
               /\ up'[d].sent = up[d].sent /\ down'[d].sent = down[d].sent
    <3>1. CASE d = c
      BY <1>4, <2>6, <2>7, <3>1
    <3>2. CASE d # c
      BY <1>4, <1>5, <2>3, <2>4, <3>2 DEF Kept
    <3> QED
      BY <3>1, <3>2
  <2>9. Kept(up, Asked)'
    BY <1>2, <1>5, <2>3, <2>8 DEF Kept
  <2>10. Kept(down, Told)'
    BY <1>2, <1>5, <2>4, <2>8 DEF Kept
  <2>11. StreamsInv'
    BY <2>9, <2>10 DEF StreamsInv
  <2>12. Places' /\ Elsewhere(c)
    BY <1>1, <1>2, <1>4, <2>1, <2>3, <2>4 DEF Places, Elsewhere
  <2>13. Course(c)'
    BY <1>1, <1>2, <1>4, <2>1 DEF Course, Refused
  <2> QED
    BY <1>2, <1>6, <2>11, <2>12, <2>13, Combined
<1> QED
  BY <1>7, <1>8 DEF ConnectTimeout, ClientLost

\* A step of authentication beside the connections, or none.
LEMMA AsideStep ==
    ASSUME HandshakeInv, AuthNext \/ UNCHANGED authVars, Aside
    PROVE  HandshakeInv'
<1>1. Places /\ StreamsInv
  BY DEF HandshakeInv
<1>2. UNCHANGED <<setup, request, client, server, transport, up, down, cut>>
  BY DEF Aside, given, pcs
<1>3. Places' /\ UNCHANGED given
  BY <1>1, <1>2 DEF Places, given
<1>4. StreamsInv'
  BY <1>1, <1>2, StreamsAfter
<1>5. 0 \notin Conns
  BY AuthAssumption
<1>6. Elsewhere(0)
  BY <1>2 DEF Elsewhere
<1> QED
  BY <1>3, <1>4, <1>5, <1>6, Combined

LEMMA HandshakeNext ==
    ASSUME HandshakeInv, [Next]_vars
    PROVE  HandshakeInv'
<1>1. setup \in Setups
  BY DEF HandshakeInv, Places
<1>2. AuthNext \/ UNCHANGED authVars
  BY <1>1, HandshakeStep, SetupAssumption
<1>3. ASSUME NEW c \in Conns, ClientStep(c) \/ ClientStdin(c) \/ ConnectTimeout(c)
      PROVE  HandshakeInv'
  <2>1. CASE Connect(c) \/ ConnectWs(c)
    BY <2>1, ConnectSteps
  <2>2. CASE ConnectTimeout(c) \/ ClientLost(c)
    BY <2>2, FailingSteps
  <2>3. CASE \/ SendHello(c) \/ SendRequest(c) \/ ClientChunk(c) \/ ClientRecv(c) \/ ClientClosed(c)
             \/ ClientStdin(c)
    <3>1. UNCHANGED given
      BY <2>3 DEF SendHello, SendRequest, ClientChunk, ClientRecv, ClientClosed, ClientStdin
    <3> QED
      BY <1>2, <2>3, <3>1, ClientSteps
  <2> QED
    BY <1>3, <2>1, <2>2, <2>3 DEF ClientStep
<1>4. ASSUME NEW c \in Conns, ServerStep(c) \/ ServerOutput(c) \/ ServerLost(c) \/ Cut(c)
      PROVE  HandshakeInv'
  <2>1. CASE (DecodingKey(c) \/ FetchJwks(c) \/ FetchFails(c)) /\ Aside
    BY <1>2, <2>1, AsideStep
  <2>2. CASE Cut(c)
    BY <2>2, FailingSteps
  <2>3. CASE \/ ServerChunk(c) \/ ServerHello(c) \/ ServerVerified(c) \/ ServerRequest(c)
             \/ ServerStdin(c) \/ ServerOutput(c) \/ ServerRefuses(c) \/ ServerLost(c)
    <3>1. UNCHANGED given
      BY <2>3 DEF ServerChunk, ServerHello, ServerVerified, ServerRequest, ServerStdin, ServerOutput,
         ServerRefuses, ServerLost, ServerFails
    <3> QED
      BY <1>2, <2>3, <3>1, ServerSteps
  <2> QED
    BY <1>4, <2>1, <2>2, <2>3 DEF ServerStep
<1>5. CASE (PublishKey \/ RetireKey) /\ Aside
  BY <1>2, <1>5, AsideStep
<1>6. CASE UNCHANGED vars
  BY <1>2, <1>6, AsideStep DEF vars, Aside
<1> QED
  BY <1>3, <1>4, <1>5, <1>6 DEF Next

LEMMA HandshakeInit == Init => HandshakeInv
<1> SUFFICES ASSUME Init PROVE HandshakeInv
  OBVIOUS
<1>1. JudgedInv
  BY JudgedInit DEF Init
<1>2. Places
  BY DEF Init, Places, ClientPlaces, ServerPlaces
<1>3. \A c \in Conns : up[c] = NewStream /\ down[c] = NewStream
  BY DEF Init
<1>4. NewStream \in Stream /\ \A k \in 1 .. Len(NewStream.sent) : FALSE
  <2>1. NewStream \in Stream
    <3>1. StreamInv("ws", FALSE, NewStream)
      BY NewInv
    <3> QED
      BY <3>1 DEF StreamInv
  <2>2. Len(NewStream.sent) = 0
    BY SMTT(60) DEF NewStream
  <2>3. \A k \in 1 .. 0 : FALSE
    BY SMTT(60)
  <2> QED
    BY <2>1, <2>2, <2>3
<1>5. Kept(up, Asked) /\ Kept(down, Told)
  <2>1. up \in [Conns -> Stream] /\ down \in [Conns -> Stream]
    BY <1>4 DEF Init
  <2> QED
    BY <1>3, <1>4, <2>1, NewInv DEF Kept
<1>6. \A c \in Conns : Course(c)
  BY <1>3 DEF Init, Course
<1> QED
  BY <1>1, <1>2, <1>5, <1>6 DEF HandshakeInv, StreamsInv

LEMMA HandshakeInvariantHolds == Spec => []HandshakeInv
<1> QED
  BY HandshakeInit, HandshakeNext, PTL DEF Spec

\* Type correctness of connecting, authenticating and the two streams.
THEOREM HandshakeTypeCorrect == Spec => []TypeOK
<1>1. HandshakeInv => TypeOK
  BY DEF HandshakeInv, JudgedInv, Places, StreamsInv, Kept, TypeOK, ClientPlaces, ServerPlaces
<1> QED
  BY <1>1, HandshakeInvariantHolds, PTL

\* Conn::recv returns what the peer's Conn::send was given, in order, for any
\* number of messages of any length: however read_chunk cuts a QUIC stream and
\* wherever a select! drops a pending next(), the FrameDecoder finds the next frame
\* where it starts, and nothing but a message over MAX_FRAME fails to decode.
THEOREM FramesAlwaysExact == Spec => []FramesExact
<1>1. HandshakeInv => FramesExact
  BY StreamInStep DEF HandshakeInv, StreamsInv, Kept, FramesExact
<1> QED
  BY <1>1, HandshakeInvariantHolds, PTL

\* handle_connection returns early only for a token that Auth.verify refused, a
\* request over MAX_FRAME, a session that cannot be started or a connection that
\* has failed: no client is told that it was closed for anything else.
THEOREM AlwaysClosedForCause == Spec => []ClosedForCause
<1>1. HandshakeInv => ClosedForCause
  BY DEF HandshakeInv, Course, Refused, ClosedForCause
<1> QED
  BY <1>1, HandshakeInvariantHolds, PTL
=============================================================================
