------------------------------ MODULE RangeProof ------------------------------
(***************************************************************************)
(* Range proofs of secp256k1-zkp (rangeproof_impl.h, borromean_impl.h): a  *)
(* value is proved by one ring of candidate digits for each two bits, and  *)
(* whoever has the nonce can rewind a proof to its blinding factor, value  *)
(* and message.  The group is that of the discrete logarithms, a point the *)
(* number it is a multiple of the generator by; 32 bytes are a number of   *)
(* 3 PW + 1 bits: the flag of the value's encoding and three copies of an  *)
(* amount.  SHA-256 and the RFC 6979 generator are parameters.             *)
(***************************************************************************)
EXTENDS Once, Integers, Sequences, SequencesExt, Bitwise

CONSTANTS PW, PMaxExp,   \* width of amounts and largest exponent, as in RangeParams
          N,             \* order of the group, a prime below 2^(3 PW + 1)
          FieldP,        \* order of the field of the coordinates
          GenLog,        \* the commitments' generator
          NoSuchX(_),   \* what the formulas make of a coordinate that has no point
          Sha(_),        \* SHA-256 of a sequence of numbers
          Rng(_, _),     \* Rng(seed, i): draw i of the generator
          PBlinds, PValues, PMinimums, PPrecisions, PNonces, PMessages, PExtras
                         \* bounds: the arguments of a proof

P == INSTANCE RangeParams WITH W <- PW, MaxExp <- PMaxExp

VARIABLES made,   \* the arguments of the proof that was asked for
          proof,  \* the proof, or NoProof
          edited  \* what was changed of the proof on the way

proofVars == <<made, proof, edited>>

NoProof == [ok |-> FALSE]
Top32   == 2^(3 * PW + 1)
Flag    == 2^(3 * PW)

MulMod(a, b) == (((a * (b \div 1024)) % N) * 1024 + a * (b % 1024)) % N
Neg(a) == (-a) % N
InverseMod(a) ==  \* a^(N - 2)
    LET pow[e \in 0 .. N - 2] ==
            IF e = 0 THEN 1
            ELSE With(pow[e \div 2], LAMBDA h : MulMod(MulMod(h, h), IF e % 2 = 1 THEN a ELSE 1))
    IN  pow[N - 2]
BadScalar(b) == b >= N \/ b % N = 0

\* The x coordinate of a point and whether its y is no square: a point and its
\* opposite share x, and about half of the field has no point.  0 is the point at
\* infinity.
XOf(k)   == IF k <= N \div 2 THEN k ELSE N - k
SignOf(k) == IF k <= N \div 2 THEN 0 ELSE 1
rangeproof_serialize_point(k) == <<SignOf(k), XOf(k)>>

\* What fe_set_b32 and ge_set_xquad make of 32 bytes: whether these are a number below
\* the order of the field, and whether there is such a point, is not looked at.
PointOf(x) == IF x \in 1 .. N \div 2 THEN x ELSE NoSuchX(x)
PointAt(x, sign) ==
    With(PointOf(x % FieldP), LAMBDA k : IF sign = 1 THEN Neg(k) ELSE k)

Amount(k) == k % 2^PW
pedersen_ecmult(sec, value) == (sec + MulMod(Amount(value) % N, GenLog)) % N

\* candidate digit j of ring i, counted from 0, once digit 0 is known
Expanded(first, base, rsizes) ==
    [i \in 1 .. Len(rsizes) |-> [j \in 1 .. rsizes[i] |->
        (first[i] + MulMod(MulMod(base, 4^(i - 1)), j - 1)) % N]]
rangeproof_pub_expand(first, exp, rsizes) ==
    Expanded(first, MulMod(Neg(GenLog), 10^(IF exp < 0 THEN 0 ELSE exp)), rsizes)

-----------------------------------------------------------------------------
(* The numbers that are drawn for a proof: blinding factors of the digits  *)
(* that sum to zero, and 32 bytes for each candidate, combined with the    *)
(* message.                                                                *)

\* draws of a ring's blinding factor: one is dropped, then the first in range
NextDraw(seed, d) ==
    LET good[i \in d + 2 .. d + 5] == IF ~BadScalar(Rng(seed, i)) \/ i = d + 5 THEN i ELSE good[i + 1]
    IN  good[d + 2]

\* r: what the rings so far have, [d: draws, acc, sec, str]; at: the ring's first draw
RingDrawn(r, at, sec, prep, seed) ==
    [d |-> at + Len(prep), acc |-> (r.acc + sec) % N, sec |-> Append(r.sec, sec),
     str |-> Append(r.str, [j \in 1 .. Len(prep) |-> Rng(seed, at + j) ^^ prep[j]])]

rangeproof_genrand(prep, seed) ==
    LET ring[i \in 0 .. Len(prep)] ==
            IF i = 0 THEN [d |-> 0, acc |-> 0, sec |-> <<>>, str |-> <<>>]
            ELSE With(ring[i - 1], LAMBDA r :
                 With(IF i < Len(prep) THEN NextDraw(seed, r.d) ELSE r.d, LAMBDA at :
                   RingDrawn(r, at, IF i < Len(prep) THEN Rng(seed, at) ELSE Neg(r.acc),
                             prep[i], seed)))
    IN  ring[Len(prep)]

Seed(nonce, commit, header) ==
    <<nonce>> \o rangeproof_serialize_point(commit) \o rangeproof_serialize_point(GenLog) \o header

-----------------------------------------------------------------------------
(* Borromean ring signatures: every ring is a chain of challenges, and the *)
(* ends of all chains give the one from which they start.                  *)

borromean_hash(m, e, ring, pos) == Sha(<<e, m, ring, pos>>)

\* the point that closes a chain of ring i from candidate `from` on: the challenge
\* e and the points at which it went on; 0 if a check failed
Link(b, r, m, i, j) ==
    IF ~b.ok \/ BadScalar(b.e) \/ r = 0 THEN [b EXCEPT !.ok = FALSE]
    ELSE [e |-> borromean_hash(m, r, i - 1, j), r |-> r, ok |-> TRUE,
          es |-> Append(b.es, b.e % N)]
Chain(m, pubs, s, i, from, to, e) ==
    LET step[j \in from - 1 .. to] ==
            IF j = from - 1 THEN [e |-> e, r |-> 0, ok |-> TRUE, es |-> <<>>]
            ELSE With(step[j - 1], LAMBDA b :
                   Link(b, (s[j] + MulMod(b.e % N, pubs[j])) % N, m, i, j))
    IN  step[to]

\* the challenge that all rings start from, from the ends of their chains
RingsHash(chains, m) == Sha(Append([i \in DOMAIN chains |-> chains[i].r], m))

borromean_verify(e0, s, pubs, m) ==
    With([i \in DOMAIN pubs |-> Chain(m, pubs[i], s[i], i, 1, Len(pubs[i]),
                                      borromean_hash(m, e0, i - 1, 0))], LAMBDA chains :
        [ok |-> /\ \A i \in DOMAIN pubs : \A j \in DOMAIN pubs[i] : s[i][j] # 0 /\ pubs[i][j] # 0
                /\ \A i \in DOMAIN pubs : chains[i].ok
                /\ e0 = RingsHash(chains, m),
         evalues |-> [i \in DOMAIN pubs |-> chains[i].es]])

\* from the digit that is known to the end of ring i, and from its start to that digit
Upper(s, pubs, k, secidx, m, i) ==
    IF secidx + 1 = Len(pubs) THEN [ok |-> TRUE, r |-> k]
    ELSE Chain(m, pubs, s, i, secidx + 2, Len(pubs), borromean_hash(m, k, i - 1, secidx + 1))
Lower(s, pubs, secidx, m, i, e0) == Chain(m, pubs, s, i, 1, secidx, borromean_hash(m, e0, i - 1, 0))

Solved(k, e, sec) == (k + Neg(MulMod(e % N, sec))) % N

\* the numbers that the signer knows the secrets for
Filled(s, secidx, solved) ==
    [i \in DOMAIN s |-> [s[i] EXCEPT ![secidx[i] + 1] = solved[i]]]
Closed(s, k, sec, secidx, e0, lower, solved) ==
    IF \E i \in DOMAIN s : k[i] = 0 \/ ~lower[i].ok \/ BadScalar(lower[i].e) \/ solved[i] = 0
    THEN NoProof
    ELSE [ok |-> TRUE, e0 |-> e0, s |-> Filled(s, secidx, solved)]

borromean_sign(s, pubs, k, sec, secidx, m) ==
    With([i \in DOMAIN pubs |-> Upper(s[i], pubs[i], k[i], secidx[i], m, i)], LAMBDA upper :
    With(RingsHash(upper, m), LAMBDA e0 :
    With([i \in DOMAIN pubs |-> Lower(s[i], pubs[i], secidx[i], m, i, e0)], LAMBDA lower :
        IF \E i \in DOMAIN pubs : ~upper[i].ok THEN NoProof
        ELSE Closed(s, k, sec, secidx, e0, lower,
                    [i \in DOMAIN pubs |-> Solved(k[i], lower[i].e, sec[i])]))))

-----------------------------------------------------------------------------
(* Signing.                                                                *)

\* Mutant: the points are not hashed, as if the challenges bound them enough.
MessageHashNoPoints(commit, header, points, extra) ==
    Sha(rangeproof_serialize_point(commit) \o rangeproof_serialize_point(GenLog) \o header
        \o extra)

\* what is hashed before the challenges: header, bytes of the points of all rings but
\* the last
MessageHash(commit, header, points, extra) ==
    Sha(rangeproof_serialize_point(commit) \o rangeproof_serialize_point(GenLog) \o header
        \o FlattenSeq(points) \o extra)
Serialized(points) == [i \in 1 .. Len(points) |-> rangeproof_serialize_point(points[i])]

\* the message fills the rings but the last; three copies of the value are put where
\* the last ring's digit is not
Spread(v) == Flag + v * (1 + 2^PW + 2^(2 * PW))
PreparedAt(p, message, i, j, idx) ==
    IF i = p.rings /\ j = idx /\ p.rsizes[i] > 1 THEN Spread(p.v)
    ELSE IF (i - 1) * 4 + j <= Len(message) THEN message[(i - 1) * 4 + j] ELSE 0
Prepared(p, message) ==
    With(Last(p.rsizes) - (IF Last(p.secidx) = Last(p.rsizes) - 1 THEN 1 ELSE 0), LAMBDA idx :
        [i \in 1 .. p.rings |-> [j \in 1 .. p.rsizes[i] |-> PreparedAt(p, message, i, j, idx)]])

\* the proof around a ring signature b; the last ring's point is not sent
Assembled(commit, header, points, b) ==
    IF ~b.ok THEN NoProof
    ELSE [ok |-> TRUE, commit |-> commit, header |-> header,
          signs |-> [i \in DOMAIN points |-> SignOf(points[i])], spare |-> 0,
          xs |-> [i \in DOMAIN points |-> XOf(points[i])],
          e0 |-> b.e0, s |-> b.s,
          plen |-> P!HeaderBytes(header[1], Len(header))
                   + P!BodyBytes(Len(FlattenSeq(b.s)), Len(b.s))]

\* the rings are signed once their numbers str and secrets sec are drawn
SignRings(a, p, commit, header, str, sec, first) ==
    IF Last(sec) = 0 \/ \E i \in DOMAIN first : first[i] = 0 THEN NoProof
    ELSE Assembled(commit, header, Front(first),
           borromean_sign(str, rangeproof_pub_expand(first, p.exp, p.rsizes),
                          [i \in 1 .. p.rings |-> str[i][p.secidx[i] + 1]], sec, p.secidx,
                          MessageHash(commit, header, Serialized(Front(first)), a.extra)))

DigitPoints(p, sec) ==
    [i \in 1 .. p.rings |-> pedersen_ecmult(sec[i], p.secidx[i] * p.scale * 4^(i - 1))]

SignDrawn(a, p, commit, header, rnd) ==
    IF a.blind >= N \/ \E i \in DOMAIN rnd.str : \E j \in DOMAIN rnd.str[i] : BadScalar(rnd.str[i][j])
    THEN NoProof
    ELSE With([rnd.sec EXCEPT ![p.rings] = (@ + a.blind) % N], LAMBDA sec :
           SignRings(a, p, commit, header, rnd.str, sec, DigitPoints(p, sec)))

SignRange(a, p, commit, header, plen) ==
    IF \/ Len(a.message) > 4 * (p.rings - 1)
       \/ plen - P!HeaderBytes(header[1], Len(header)) < P!BodyBytes(p.npub, p.rings)
    THEN NoProof
    ELSE SignDrawn(a, p, commit, header,
                   rangeproof_genrand(Prepared(p, a.message), Seed(a.nonce, commit, header)))

rangeproof_sign(a, plen) ==
    IF ~P!ArgsOk(plen, a.min_value, a.exp, a.min_bits, a.value) THEN NoProof
    ELSE With(P!range_proveparams(a.min_value, a.exp, a.min_bits, a.value), LAMBDA p :
           IF ~p.ok THEN NoProof
           ELSE SignRange(a, p, pedersen_ecmult(a.blind, a.value), P!WriteHeader(p), plen))

-----------------------------------------------------------------------------
(* Verifying.                                                              *)

\* what is read as the header's last parts where the proof has none: its body
Read(pr) == pr.header \o <<pr.e0 % 256, Amount(pr.e0)>>

\* the last digit's point is what the others and the minimum leave of the commitment
LastPoint(pr, points, min_value) ==
    (pr.commit + Neg(FoldLeft(LAMBDA x, y : (x + y) % N, pedersen_ecmult(0, min_value), points))) % N

VerifyRings(pr, extra, g, rsizes, points, last) ==
    IF last = 0 THEN NoProof
    ELSE With(borromean_verify(pr.e0, pr.s,
                               rangeproof_pub_expand(Append(points, last), g.exp, rsizes),
                               MessageHash(pr.commit, SubSeq(Read(pr), 1, g.parts),
                                           [i \in DOMAIN points |-> <<pr.signs[i], pr.xs[i]>>], extra)),
              LAMBDA b :
           IF ~b.ok THEN NoProof
           ELSE [ok |-> TRUE, min_value |-> g.min_value, max_value |-> g.max_value,
                 scale |-> g.scale, rsizes |-> rsizes, evalues |-> b.evalues])

\* refused: too short or extra data, sign bits of no point, a number not reduced
VerifyRange(pr, extra, g, rsizes) ==
    IF \/ pr.plen # P!HeaderBytes(pr.header[1], g.parts)
                   + P!BodyBytes(4 * (Len(rsizes) - 1) + Last(rsizes), Len(rsizes))
       \/ pr.spare # 0
       \/ \E i \in DOMAIN rsizes : \E j \in 1 .. rsizes[i] : pr.s[i][j] >= N
    THEN NoProof
    ELSE With([i \in 1 .. Len(rsizes) - 1 |-> PointAt(pr.xs[i], pr.signs[i])], LAMBDA points :
           VerifyRings(pr, extra, g, rsizes, points, LastPoint(pr, points, g.min_value)))

rangeproof_verify(pr, extra) ==
    With(P!rangeproof_getheader(Read(pr), pr.plen), LAMBDA g :
        IF ~g.ok THEN NoProof ELSE VerifyRange(pr, extra, g, P!RingSizes(g.mantissa)))

-----------------------------------------------------------------------------
(* Rewinding.                                                              *)

rangeproof_recover_x(k, e, s) == MulMod((k + Neg(s)) % N, InverseMod(e))
rangeproof_recover_k(x, e, s) == (s + MulMod(x, e)) % N

IsEncoding(t) == /\ t >= Flag
                 /\ (t \div 2^PW) % 2^PW = t % 2^PW /\ (t \div 2^(2 * PW)) % 2^PW = t % 2^PW

RecoverX(pr, ver, rnd, i, j) ==
    rangeproof_recover_x(rnd.str[i][j] % N, ver.evalues[i][j], pr.s[i][j])

\* A digit that the last ring does not have selects numbers that were never set.  Any
\* blinding factor may come out; there is one that opens the commitment.
Unset(pr, vv) == {0, (pr.commit + Neg(pedersen_ecmult(0, vv))) % N}

\* what candidate j of ring i carries, when the known digit of the ring is `digit`
ReadAt(pr, ver, rnd, i, j, digit) ==
    (IF j = digit + 1 THEN rangeproof_recover_k(rnd.sec[i], ver.evalues[i][j], pr.s[i][j])
     ELSE pr.s[i][j]) ^^ rnd.str[i][j]
ReadRing(pr, ver, rnd, i, digit, js) ==
    [k \in 1 .. Len(js) |-> ReadAt(pr, ver, rnd, i, js[k], digit)]

UpTo(n) == [j \in 1 .. n |-> j]
DigitAt(v, i) == (v \div 4^(i - 1)) % 4
ProvedValue(ver, v) == Amount(v * ver.scale + ver.min_value)

\* the blinding factor, the value's digits and the message, where a value is found
Found(pr, ver, rnd, rings, pos, v) ==
    IF pos = DigitAt(v, rings) + 1 THEN NoProof
    ELSE [ok |-> TRUE, v |-> v,
          blinds |-> IF DigitAt(v, rings) + 1 > ver.rsizes[rings]
                     THEN Unset(pr, ProvedValue(ver, v))
                     ELSE {(RecoverX(pr, ver, rnd, rings, DigitAt(v, rings) + 1)
                            + Neg(rnd.sec[rings])) % N},
          message |-> FlattenSeq([i \in 1 .. rings |->
              ReadRing(pr, ver, rnd, i, DigitAt(v, i),
                  SelectSeq(UpTo(ver.rsizes[i]),
                            LAMBDA j : i < rings \/ j \notin {pos, DigitAt(v, i) + 1}))])]

\* the value is looked for in the last candidate first, and then in the one before
Encoded(pr, rnd, rings, j) == pr.s[rings][j] ^^ rnd.str[rings][j]
\* Mutant: the value is looked for in the last candidate only.
SearchLast(pr, ver, rnd, rings, n) ==
    IF ~IsEncoding(Encoded(pr, rnd, rings, n)) THEN NoProof
    ELSE Found(pr, ver, rnd, rings, n, Amount(Encoded(pr, rnd, rings, n)))
Search(pr, ver, rnd, rings, n) ==
    With({j \in {n - 1, n} : IsEncoding(Encoded(pr, rnd, rings, j))}, LAMBDA found :
        IF found = {} THEN NoProof
        ELSE With(IF n \in found THEN n ELSE n - 1, LAMBDA pos :
               Found(pr, ver, rnd, rings, pos, Amount(Encoded(pr, rnd, rings, pos)))))

rangeproof_rewind_inner(pr, ver, nonce) ==
    With(rangeproof_genrand([i \in DOMAIN ver.rsizes |-> [j \in 1 .. ver.rsizes[i] |-> 0]],
                            Seed(nonce, pr.commit, pr.header)), LAMBDA rnd :
        IF ver.rsizes = <<1>>
        THEN [ok |-> TRUE, v |-> 0, message |-> <<>>, blinds |-> {RecoverX(pr, ver, rnd, 1, 1)}]
        ELSE Search(pr, ver, rnd, Len(ver.rsizes), Last(ver.rsizes)))

\* the commitment is computed again from what was found
Rewound(pr, ver, w, blind, vv) ==
    IF pedersen_ecmult(blind, vv) = 0 \/ pedersen_ecmult(blind, vv) # pr.commit THEN NoProof
    ELSE [ok |-> TRUE, blind |-> blind, value |-> vv, message |-> w.message,
          min_value |-> ver.min_value, max_value |-> ver.max_value]

\* the results that a rewind may have
rangeproof_rewind(pr, extra, nonce) ==
    With(rangeproof_verify(pr, extra), LAMBDA ver :
        IF ~ver.ok THEN {NoProof}
        ELSE With(rangeproof_rewind_inner(pr, ver, nonce), LAMBDA w :
               IF ~w.ok THEN {NoProof}
               ELSE {Rewound(pr, ver, w, blind, ProvedValue(ver, w.v)) : blind \in w.blinds}))

-----------------------------------------------------------------------------
\* the largest proof that the caller has room for, or less
Room == {5134, 97, 64}
Unmade == [value |-> -1]

ProofInit == made = Unmade /\ proof = NoProof /\ edited = "no"

Sign(a, plen) ==
    /\ made = Unmade
    /\ made' = a /\ proof' = rangeproof_sign(a, plen)
    /\ UNCHANGED edited

\* a proof that differs from one that was signed in a single place
EditTo(what, pr) == /\ proof.ok /\ edited = "no"
                    /\ edited' = what /\ proof' = pr /\ UNCHANGED made
Edits ==
    \/ EditTo("challenge", [proof EXCEPT !.e0 = (@ + 1) % Top32])
    \/ EditTo("length", [proof EXCEPT !.plen = @ + 1])
    \/ EditTo("commitment", [proof EXCEPT !.commit = (@ % (N - 1)) + 1])
    \/ proof.xs # <<>> /\ EditTo("spare", [proof EXCEPT !.spare = 1])
    \/ \E i \in 1 .. Len(proof.s) : \E j \in 1 .. Len(proof.s[i]) :
         \/ EditTo("signature", [proof EXCEPT !.s[i][j] = (@ + 1) % N])
         \/ proof.s[i][j] + N < Top32 /\ EditTo("range", [proof EXCEPT !.s[i][j] = @ + N])
    \/ \E i \in 1 .. Len(proof.xs) :
         \/ EditTo("sign", [proof EXCEPT !.signs[i] = 1 - @])
         \/ EditTo("point", [proof EXCEPT !.xs[i] = (@ % (N \div 2)) + 1])
         \/ EditTo("no point", [proof EXCEPT !.xs[i] = N - @])
         \/ proof.xs[i] + FieldP < Top32 /\ EditTo("field", [proof EXCEPT !.xs[i] = @ + FieldP])
    \/ \E bit \in 0 .. 7 : EditTo("flags", [proof EXCEPT !.header[1] = @ ^^ (2^bit)])
    \/ /\ Len(proof.header) > 1 /\ P!has_nz_range(proof.header)
       /\ \E d \in 1 .. PW : EditTo("mantissa", [proof EXCEPT !.header[2] = (@ + d) % (PW + 1)])
    \/ /\ P!has_min(proof.header)
       /\ EditTo("minimum", [proof EXCEPT !.header[Len(proof.header)] = (@ + 1) % 2^PW])

ProofNext ==
    \/ \E b \in PBlinds, v \in PValues, m \in PMinimums, e \in -1 .. PMaxExp, bits \in PPrecisions,
          n \in PNonces, t \in PMessages, x \in PExtras, plen \in Room :
         Sign([blind |-> b, value |-> v, min_value |-> m, exp |-> e, min_bits |-> bits,
               nonce |-> n, message |-> t, extra |-> x], plen)
    \/ proof.ok /\ Edits
    \/ made # Unmade /\ UNCHANGED proofVars

-----------------------------------------------------------------------------
(* A proof that is signed verifies for a range with the value in it, and   *)
(* the nonce it was made with takes it back to the blinding factor, the    *)
(* value and the message, whichever digits are the known ones, however     *)
(* many rings there are and whichever draws were refused on the way; a     *)
(* different nonce gives nothing that is not so.                           *)
ProofsRewind ==
    (proof.ok /\ edited = "no") =>
        \A rew \in rangeproof_rewind(proof, made.extra, made.nonce) :
            /\ rew.ok /\ rew.blind = made.blind /\ rew.value = made.value
            /\ rew.min_value <= made.value /\ made.value <= rew.max_value
            /\ \A i \in 1 .. Len(made.message) : rew.message[i] = made.message[i]
            /\ \A i \in Len(made.message) + 1 .. Len(rew.message) : rew.message[i] = 0
            /\ \A nonce \in PNonces \ {made.nonce} :
                 \A other \in rangeproof_rewind(proof, made.extra, nonce) :
                     other.ok => other.value = made.value /\ other.blind = made.blind

(* A proof verifies for its own commitment, range, extra data and length   *)
(* only.  With any one part changed it is refused: a bit of its first      *)
(* byte, the mantissa, the minimum, a sign bit, also of no point, a digit  *)
(* point, also to a coordinate that has no point or is not reduced, the    *)
(* challenge or one of the numbers that answer it, also one not reduced.   *)
EditsRefused ==
    /\ edited # "no" => ~rangeproof_verify(proof, made.extra).ok
    /\ (proof.ok /\ edited = "no") =>
         \A x \in PExtras \ {made.extra} : ~rangeproof_verify(proof, x).ok
=============================================================================
