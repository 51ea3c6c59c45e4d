------------------------------ MODULE Field5x52 ------------------------------
(***************************************************************************)
(* Field elements of secp256k1-zkp in the 64-bit representation            *)
(* (field_5x52_impl.h and field_5x52_int128_impl.h): five limbs of 52 bits *)
(* in 64-bit words, the last one of 48 bits, modulo p = 2^256 - C with C   *)
(* smaller than a limb.  The number of limbs is fixed: the product is      *)
(* unrolled in an order of its own.                                        *)
(***************************************************************************)
EXTENDS Limbs

CONSTANTS Base,    \* bits of a limb, 52
          Top,     \* bits of the last limb, 48
          Word,    \* bits of a machine word, 64
          C,       \* 2^256 - p, 0x1000003D1
          MaxMag,  \* largest magnitude of an element, 2048
          MulMag,  \* largest magnitude of a factor, 8
          Chunk    \* bits of a byte string read at a time, 4

Index == 0 .. 4
M     == 2^Base - 1
MTop  == 2^Top - 1
Slack == 2^(Base - Top)
P     == 2^(4 * Base + Top) - C

W64(x)  == x % 2^Word
W128(x) == x % 2^(2 * Word)

FE(n, mag, norm) == [n |-> n, magnitude |-> mag, normalized |-> norm]

\* the value is p or more, for limbs that fit their sizes
AtLeastP(t) ==
    /\ t[4] = MTop
    /\ t[1] = M /\ t[2] = M /\ t[3] = M
    /\ t[0] >= M + 1 - C

fe_verify(a) ==
    LET m == IF a.normalized THEN 1 ELSE 2 * a.magnitude
    IN  /\ \A i \in 0 .. 3 : a.n[i] <= M * m
        /\ a.n[4] <= MTop * m
        /\ a.magnitude \in 0 .. MaxMag
        /\ a.normalized => a.magnitude <= 1 /\ ~AtLeastP(a.n)

\* x multiples of 2^256 leave the last limb and enter the first
Fold256(t, x) == Carry([t EXCEPT ![0] = W64(@ + W64(x * C))], Base, Word)

FirstPass(t) == Fold256([t EXCEPT ![4] = @ % 2^Top], t[4] \div 2^Top)

fe_normalize(r) ==
    LET t == FirstPass(r.n)
        x == IF AtLeastP(t) THEN 1 ELSE t[4] \div 2^Top
    IN  FE([Fold256(t, x) EXCEPT ![4] = @ % 2^Top], 1, TRUE)

fe_normalize_weak(r) == FE(FirstPass(r.n), 1, r.normalized)

fe_normalize_var(r) ==
    LET t == FirstPass(r.n)
        x == AtLeastP(t) \/ t[4] \div 2^Top # 0
    IN  FE(IF x THEN [Fold256(t, 1) EXCEPT ![4] = @ % 2^Top] ELSE t, 1, TRUE)

\* the two raw values that stand for zero: 0 and p (z0 and z1 in the code)
RawZero(t) == \A i \in Index : t[i] = 0
RawP(t) ==
    /\ t[0] = M + 1 - C
    /\ t[1] = M /\ t[2] = M /\ t[3] = M
    /\ t[4] = MTop

fe_normalizes_to_zero(r) ==
    LET t == FirstPass(r.n) IN RawZero(t) \/ RawP(t)

\* the fast path looks at the lowest limb only
fe_normalizes_to_zero_var(r) ==
    LET x  == r.n[4] \div 2^Top
        z0 == W64(r.n[0] + W64(x * C)) % 2^Base
        t  == FirstPass(r.n)
    IN  /\ z0 = 0 \/ z0 = M + 1 - C
        /\ RawZero(t) \/ RawP(t)

fe_set_int(a) == FE([i \in Index |-> IF i = 0 THEN a ELSE 0], 1, TRUE)
fe_is_zero(a) == \A i \in Index : a.n[i] = 0
fe_is_odd(a)  == a.n[0] % 2 = 1
fe_clear      == FE([i \in Index |-> 0], 0, TRUE)

\* the highest limb that differs decides
fe_cmp_var(a, b) ==
    LET diff == {i \in Index : a.n[i] # b.n[i]}
    IN  IF diff = {} THEN 0
        ELSE IF a.n[Max(diff)] > b.n[Max(diff)] THEN 1 ELSE -1

\* the 32 bytes are read four bits at a time; b[k] is the k-th four, lowest first
Chunks == 0 .. (4 * Base + Top) \div Chunk - 1
fe_set_b32(b) ==
    LET n == [l \in Index |->
                MapThenSumSet(LAMBDA k : b[k] * 2^((Chunk * k) % Base),
                              {k \in Chunks : (Chunk * k) \div Base = l})]
    IN  [ok |-> ~AtLeastP(n), fe |-> FE(n, 1, TRUE)]

fe_get_b32(a) ==
    [k \in Chunks |->
        (a.n[(Chunk * k) \div Base] \div 2^((Chunk * k) % Base)) % 2^Chunk]

fe_negate(a, m) ==
    LET p == [i \in Index |-> CASE i = 0 -> M + 1 - C
                                [] i = 4 -> MTop
                                [] OTHER -> M]
    IN  FE([i \in Index |-> W64(p[i] * 2 * (m + 1) - a.n[i])], m + 1, FALSE)

fe_mul_int(r, a) ==
    FE([i \in Index |-> W64(r.n[i] * a)], r.magnitude * a, FALSE)

fe_add(r, a) ==
    FE([i \in Index |-> W64(r.n[i] + a.n[i])], r.magnitude + a.magnitude, FALSE)

R == C * Slack

\* The order of the product: columns 3 and 8, then 4, which gives the two upper
\* limbs t3 and t4; then 0 and 5, 1 and 6, 2 and 7 for the three lower ones, each
\* taking in R times the column above; p[k] is column k.
Reduce(p) ==
    LET dA == W128(p[3] + (p[8] % 2^Base) * R)
        t3 == dA % 2^Base
        dB == W128(dA \div 2^Base + p[4] + (p[8] \div 2^Base) * R)
        t4 == dB % 2^Top                     \* without tx, the bits above
        tx == (dB % 2^Base) \div 2^Top
        dC == W128(dB \div 2^Base + p[5])
        u0 == (dC % 2^Base) * Slack + tx
        c0 == W128(p[0] + u0 * (R \div Slack))
        dD == W128(dC \div 2^Base + p[6])
        c1 == W128(c0 \div 2^Base + p[1] + (dD % 2^Base) * R)
        dE == W128(dD \div 2^Base + p[7])
        c2 == W128(c1 \div 2^Base + p[2] + (dE % 2^Base) * R)
        c3 == W128(c2 \div 2^Base + (dE \div 2^Base) * R + t3)
        c4 == W128(c3 \div 2^Base + t4)
    IN  [i \in Index |-> CASE i = 0 -> c0 % 2^Base
                           [] i = 1 -> c1 % 2^Base
                           [] i = 2 -> c2 % 2^Base
                           [] i = 3 -> c3 % 2^Base
                           [] i = 4 -> W64(c4)]

fe_mul_inner(a, b) == Reduce([k \in 0 .. 8 |-> W128(Column(a, b, k))])

\* each pair of equal products is taken once, with a factor doubled in a word
fe_sqr_inner(a) ==
    Reduce([k \in 0 .. 8 |-> W128(
        MapThenSumSet(LAMBDA i : (IF 2 * i = k THEN a[i] ELSE W64(2 * a[i])) * a[k - i],
                      {i \in Index : 2 * i <= k /\ k - i <= 4}))])

fe_mul(a, b) == FE(fe_mul_inner(a.n, b.n), 1, FALSE)
fe_sqr(a)    == FE(fe_sqr_inner(a.n), 1, FALSE)

fe_cmov(r, a, flag) ==
    FE(IF flag THEN a.n ELSE r.n, Max({r.magnitude, a.magnitude}),
       r.normalized /\ a.normalized)

\* packed into whole words, and back
fe_to_storage(a)   == Repack(a.n, Base, Word, (4 * Base + Top - 1) \div Word + 1)
fe_from_storage(s) == FE(Repack(s, Word, Base, 5), 1, TRUE)

fe_equal(a, b)     == fe_normalizes_to_zero(fe_add(fe_negate(a, 1), b))
fe_equal_var(a, b) == fe_normalizes_to_zero_var(fe_add(fe_negate(a, 1), b))
=============================================================================
