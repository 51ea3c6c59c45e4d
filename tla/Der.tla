--------------------------------- MODULE Der ---------------------------------
(***************************************************************************)
(* The strict DER codec of ECDSA signatures in secp256k1-zkp               *)
(* (ecdsa_impl.h), over bytes of any base: 256 in the code.  The parsers   *)
(* take the input and a position in it and return the next position.       *)
(* Input strings are grown from encodings by editing single bytes.         *)
(***************************************************************************)
EXTENDS Once, Integers, Sequences

CONSTANTS Base,        \* 256: the values of a byte
          ScalarBytes, \* 32: bytes of a scalar
          NScalar,     \* the group order
          SizeT,       \* sizeof(size_t)
          IntTag,      \* 0x02
          SeqTag,      \* 0x30
          DerInts,     \* bound: byte strings that the first encodings hold
          EditBytes,   \* bound: bytes that an edit writes
          MaxEdits     \* bound: edits

VARIABLES input, \* the bytes a caller passes to the parser
          edits  \* how many times it was edited

derVars == <<input, edits>>

Half == Base \div 2

-----------------------------------------------------------------------------
(* The parser.                                                             *)

\* len is -1 when the length octets at position p are refused
NoLen(p) == [len |-> -1, p |-> p]

\* the value of the left octets after p, -1 if it points behind the end
LongLen(b, p, left) ==
    LET ret[k \in 0 .. left] ==
            IF k = 0 THEN 0
            ELSE With(ret[k - 1], LAMBDA r :
                   IF r = -1 \/ r * Base + b[p + k] + (left - k + 1) > Len(b) + 1 - (p + k)
                   THEN -1 ELSE r * Base + b[p + k])
    IN  ret[left]

\* Mutant: a short length may be written the long way.
der_read_longAny(b, p, left) ==
    IF left > Len(b) - p \/ b[p + 1] = 0 \/ left > SizeT THEN NoLen(p)
    ELSE [len |-> LongLen(b, p, left), p |-> p + 1 + left]

der_read_long(b, p, left) ==
    IF left > Len(b) - p \/ b[p + 1] = 0 \/ left > SizeT THEN NoLen(p)
    ELSE With(LongLen(b, p, left), LAMBDA ret :
           IF ret < Half THEN NoLen(p) ELSE [len |-> ret, p |-> p + 1 + left])

der_read_len(b, p) ==
    IF p > Len(b) \/ b[p] \in {Base - 1, Half} THEN NoLen(p)
    ELSE IF b[p] < Half THEN [len |-> b[p], p |-> p + 1]
    ELSE der_read_long(b, p, b[p] % Half)

ZeroPadded(b, q, len)     == b[q] = 0 /\ len > 1 /\ b[q + 1] < Half
NegativePadded(b, q, len) == b[q] = Base - 1 /\ len > 1 /\ b[q + 1] >= Half

\* the number a few bytes stand for
Number(b) ==
    LET v[k \in 0 .. Len(b)] == IF k = 0 THEN 0 ELSE v[k - 1] * Base + b[k]
    IN  v[Len(b)]

\* leading zero bytes are skipped; negative and too large values read as zero
LeadingZeros(b, q, len) ==
    CHOOSE z \in 0 .. len : /\ \A k \in 0 .. z - 1 : b[q + k] = 0
                            /\ z < len => b[q + z] # 0

IntegerValue(b, negative) ==
    IF negative \/ Len(b) > ScalarBytes THEN 0
    ELSE With(Number(b), LAMBDA v : IF v >= NScalar THEN 0 ELSE v)

\* the integer of len bytes at q
IntegerAt(b, q, len) ==
    [ok |-> TRUE, p |-> q + len,
     v |-> IntegerValue(SubSeq(b, q + LeadingZeros(b, q, len), q + len - 1), b[q] >= Half)]

der_parse_integer(b, p) ==
    IF p > Len(b) \/ b[p] # IntTag THEN [ok |-> FALSE]
    ELSE With(der_read_len(b, p + 1), LAMBDA l :
           IF \/ l.len <= 0 \/ l.p + l.len - 1 > Len(b)
              \/ ZeroPadded(b, l.p, l.len) \/ NegativePadded(b, l.p, l.len)
           THEN [ok |-> FALSE]
           ELSE IntegerAt(b, l.p, l.len))

NoSig == [ok |-> FALSE, r |-> 0, s |-> 0]

\* the two integers of a sequence, from p to the end
IntegersFrom(b, p) ==
    With(der_parse_integer(b, p), LAMBDA rr :
        IF ~rr.ok THEN NoSig
        ELSE With(der_parse_integer(b, rr.p), LAMBDA rs :
               IF ~rs.ok \/ rs.p # Len(b) + 1 THEN NoSig
               ELSE [ok |-> TRUE, r |-> rr.v, s |-> rs.v]))

ecdsa_sig_parse(b) ==
    IF b = <<>> \/ b[1] # SeqTag THEN NoSig
    ELSE With(der_read_len(b, 2), LAMBDA l :
           IF l.len < 0 \/ l.p + l.len - 1 # Len(b) THEN NoSig ELSE IntegersFrom(b, l.p))

-----------------------------------------------------------------------------
(* The serializer.                                                         *)

ScalarDigits(v) == [i \in 1 .. ScalarBytes |-> (v \div Base ^ (ScalarBytes - i)) % Base]

\* a zero byte and the scalar, less the zeros that are not needed
Trim(d) ==
    SubSeq(d, 1 + CHOOSE z \in 0 .. ScalarBytes :
                    /\ \A k \in 1 .. z : d[k] = 0 /\ d[k + 1] < Half
                    /\ z < ScalarBytes => ~(d[z + 1] = 0 /\ d[z + 2] < Half),
           ScalarBytes + 1)
Trimmed(v) == Trim(<<0>> \o ScalarDigits(v))

\* size is what the caller's buffer holds, and then what the encoding needs
Assembled(rp, sp, size) ==
    With(6 + Len(rp) + Len(sp), LAMBDA need :
        [ret |-> size >= need, size |-> need,
         sig |-> IF size < need THEN <<>>
                 ELSE <<SeqTag, need - 2, IntTag, Len(rp)>> \o rp \o <<IntTag, Len(sp)>> \o sp])
ecdsa_sig_serialize(r, s, size) == Assembled(Trimmed(r), Trimmed(s), size)

-----------------------------------------------------------------------------
(* What DER is: tag, shortest length, contents; integers without padding.  *)
LenOctets(k) == IF k < Half THEN <<k>>
                ELSE IF k < Base THEN <<Half + 1, k>> ELSE <<Half + 2, k \div Base, k % Base>>
TLV(tag, body) == <<tag>> \o LenOctets(Len(body)) \o body
Encoding(i1, i2) == TLV(SeqTag, TLV(IntTag, i1) \o TLV(IntTag, i2))
Minimal(i) == i # <<>> /\ ~ZeroPadded(i, 1, Len(i)) /\ ~NegativePadded(i, 1, Len(i))

ScalarOf(i) ==
    LET m == IF Len(i) > 1 /\ i[1] = 0 THEN Tail(i) ELSE i
    IN  IF i[1] >= Half \/ Len(m) > ScalarBytes \/ Number(m) >= NScalar THEN 0 ELSE Number(m)

\* the pairs of integers that a string encodes, the first from its a-th byte on,
\* the second from its c-th to its end
Decodings(b) ==
    {x \in {<<SubSeq(b, a, c - 2 - Len(LenOctets(Len(b) - c + 1))), SubSeq(b, c, Len(b))>>
              : a, c \in 4 .. Len(b)} :
        Minimal(x[1]) /\ Minimal(x[2]) /\ b = Encoding(x[1], x[2])}

DerInit ==
    /\ \E i1, i2 \in DerInts : input = Encoding(i1, i2)
    /\ edits = 0

Edit(b) == edits < MaxEdits /\ edits' = edits + 1 /\ input' = b
Replace == \E k \in 1 .. Len(input), d \in EditBytes : Edit([input EXCEPT ![k] = d])
Insert  == \E k \in 0 .. Len(input), d \in EditBytes :
             Edit(SubSeq(input, 1, k) \o <<d>> \o SubSeq(input, k + 1, Len(input)))
Delete  == \E k \in 1 .. Len(input) :
             Edit(SubSeq(input, 1, k - 1) \o SubSeq(input, k + 1, Len(input)))
DerDone == edits = MaxEdits /\ UNCHANGED derVars

DerNext == Replace \/ Insert \/ Delete \/ DerDone

-----------------------------------------------------------------------------
(* The parser accepts exactly the strings that are the DER encoding of two *)
(* integers, whatever lengths, paddings and lengths of lengths they claim, *)
(* and reads each as its value, or as zero where it is no scalar.          *)
DerStrict ==
    \A r \in {ecdsa_sig_parse(input)}, d \in {Decodings(input)} :
        /\ r.ok = (d # {})
        /\ \A x \in d : r = [ok |-> TRUE, r |-> ScalarOf(x[1]), s |-> ScalarOf(x[2])]

(* Serializing what was parsed gives the bytes back, unless an integer was *)
(* no scalar; a buffer that is one byte short is refused with the size     *)
(* that is needed, and nothing is written.                                 *)
DerRoundTrip ==
    \A d \in {ecdsa_sig_parse(input)} : d.ok =>
        \A out \in {ecdsa_sig_serialize(d.r, d.s, 6 + 2 * (ScalarBytes + 1))} :
                /\ out.ret /\ out.size = Len(out.sig)
                /\ ecdsa_sig_parse(out.sig) = d
                /\ (d.r # 0 /\ d.s # 0) => out.sig = input
                /\ ecdsa_sig_serialize(d.r, d.s, out.size - 1)
                     = [ret |-> FALSE, size |-> out.size, sig |-> <<>>]
=============================================================================
