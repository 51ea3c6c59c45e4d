----------------------------- MODULE Field10x26 ------------------------------
(***************************************************************************)
(* Field elements of secp256k1-zkp in the 32-bit representation            *)
(* (field_10x26_impl.h): ten limbs of 26 bits in 32-bit words, the last    *)
(* one of 22 bits, modulo p = 2^256 - (C1 * 2^26 + C0).  The sizes and the *)
(* two words of 2^256 - p are constants.  An element may be unnormalized:  *)
(* its limbs may exceed their size, by a factor that the magnitude of a    *)
(* VERIFY build tracks.                                                    *)
(***************************************************************************)
EXTENDS Limbs

CONSTANTS Limb,    \* number of limbs, 10
          Base,    \* bits of a limb, 26
          Top,     \* bits of the last limb, 22
          Word,    \* bits of a machine word, 32
          C0, C1,  \* 2^256 = C1 * 2^26 + C0 (mod p): 0x3D1 and 0x40
          MaxMag,  \* largest magnitude of an element, 32
          MulMag,  \* largest magnitude of a factor, 8
          Chunk    \* bits of a byte string read at a time, 2

Index == 0 .. Limb - 1
Last  == Limb - 1
M     == 2^Base - 1
MTop  == 2^Top - 1
Slack == 2^(Base - Top)
P     == 2^(Base * Last + Top) - (C1 * 2^Base + C0)

W32(x) == x % 2^Word
W64(x) == x % 2^(2 * Word)

FE(n, mag, norm) == [n |-> n, magnitude |-> mag, normalized |-> norm]

\* the value is p or more, for limbs that fit their sizes
AtLeastP(t) ==
    /\ t[Last] = MTop
    /\ \A i \in 2 .. Last - 1 : t[i] = M
    /\ t[1] + C1 + ((t[0] + C0) \div 2^Base) > M

fe_verify(a) ==
    LET m == IF a.normalized THEN 1 ELSE 2 * a.magnitude
    IN  /\ \A i \in Index \ {Last} : a.n[i] <= M * m
        /\ a.n[Last] <= MTop * m
        /\ a.magnitude \in 0 .. MaxMag
        /\ a.normalized => a.magnitude <= 1 /\ ~AtLeastP(a.n)

\* x multiples of 2^256 leave the last limb and enter the first two
Fold256(t, x) ==
    Carry([t EXCEPT ![0] = W32(@ + W32(x * C0)), ![1] = W32(@ + W32(x * C1))],
          Base, Word)

FirstPass(t) == Fold256([t EXCEPT ![Last] = @ % 2^Top], t[Last] \div 2^Top)

\* Mutant: values from p to 2^256 are left as they are.
fe_normalizeKeepsP(r) ==
    LET t == FirstPass(r.n)
    IN  FE([Fold256(t, t[Last] \div 2^Top) EXCEPT ![Last] = @ % 2^Top], 1, TRUE)

fe_normalize(r) ==
    LET t == FirstPass(r.n)
        x == IF AtLeastP(t) THEN 1 ELSE t[Last] \div 2^Top
        f == Fold256(t, x)
    IN  FE([f EXCEPT ![Last] = @ % 2^Top], 1, TRUE)

fe_normalize_weak(r) == FE(FirstPass(r.n), 1, r.normalized)

fe_normalize_var(r) ==
    LET t == FirstPass(r.n)
        x == IF AtLeastP(t) THEN 1 ELSE t[Last] \div 2^Top
        f == Carry([t EXCEPT ![0] = W32(@ + C0), ![1] = W32(@ + x * C1)],
                   Base, Word)
    IN  FE(IF x # 0 THEN [f EXCEPT ![Last] = @ % 2^Top] ELSE t, 1, TRUE)

\* the two raw values that stand for zero: 0 and p (z0 and z1 in the code)
RawZero(t) == \A i \in Index : t[i] = 0
RawP(t) ==
    /\ t[0] = M + 1 - C0
    /\ t[1] = M - C1
    /\ \A i \in 2 .. Last - 1 : t[i] = M
    /\ t[Last] = MTop

fe_normalizes_to_zero(r) ==
    LET t == FirstPass(r.n) IN RawZero(t) \/ RawP(t)

\* the fast path looks at the lowest limb only
fe_normalizes_to_zero_var(r) ==
    LET x  == r.n[Last] \div 2^Top
        z0 == W32(r.n[0] + W32(x * C0)) % 2^Base
        t  == FirstPass(r.n)
    IN  /\ z0 = 0 \/ z0 = M + 1 - C0
        /\ RawZero(t) \/ RawP(t)

fe_set_int(a) == FE([i \in Index |-> IF i = 0 THEN a ELSE 0], 1, TRUE)
fe_is_zero(a) == \A i \in Index : a.n[i] = 0
fe_is_odd(a)  == a.n[0] % 2 = 1
fe_clear      == FE([i \in Index |-> 0], 0, TRUE)

\* the highest limb that differs decides
fe_cmp_var(a, b) ==
    LET diff == {i \in Index : a.n[i] # b.n[i]}
    IN  IF diff = {} THEN 0
        ELSE IF a.n[Max(diff)] > b.n[Max(diff)] THEN 1 ELSE -1

\* The 32 bytes are read two bits at a time; b[k] is pair k, lowest first.  A
\* limb holds a whole number of pairs.
Chunks == 0 .. (Base * Last + Top) \div Chunk - 1
fe_set_b32(b) ==
    LET n == [l \in Index |->
                MapThenSumSet(LAMBDA k : b[k] * 2^((Chunk * k) % Base),
                              {k \in Chunks : (Chunk * k) \div Base = l})]
    IN  [ok |-> ~AtLeastP(n), fe |-> FE(n, 1, TRUE)]

fe_get_b32(a) ==
    [k \in Chunks |->
        (a.n[(Chunk * k) \div Base] \div 2^((Chunk * k) % Base)) % 2^Chunk]

\* the limbs of p, times an even number large enough for no limb to go below 0
fe_negate(a, m) ==
    LET p == [i \in Index |-> CASE i = 0    -> M + 1 - C0
                                [] i = 1    -> M - C1
                                [] i = Last -> MTop
                                [] OTHER    -> M]
    IN  FE([i \in Index |-> W32(p[i] * 2 * (m + 1) - a.n[i])], m + 1, FALSE)

fe_mul_int(r, a) ==
    FE([i \in Index |-> W32(r.n[i] * a)], r.magnitude * a, FALSE)

fe_add(r, a) ==
    FE([i \in Index |-> W32(r.n[i] + a.n[i])], r.magnitude + a.magnitude, FALSE)

R0 == C0 * Slack
R1 == C1 * Slack

\* Column i of the product goes into c, column Limb + i into d; the low limb of
\* d is worth R1, R0 one and zero limbs lower.
ReduceStep(s, p, i) ==
    LET d == W64(s.d + p[Limb + i])
        u == d % 2^Base
        c == W64(s.c + p[i] + u * R0)
    IN  [d |-> d \div 2^Base,
         c |-> W64(c \div 2^Base + u * R1),
         t |-> [s.t EXCEPT ![i] = c % 2^Base]]

\* What is left in c and d goes above the last limb and is folded twice.
ReduceTail(s) ==
    LET c  == W64(s.c + s.d * R0 + s.t[Last])
        c2 == W64(c \div 2^Top + s.d * (R1 * Slack))
        d0 == W64(c2 * (R0 \div Slack) + s.t[0])
        d1 == W64(d0 \div 2^Base + c2 * (R1 \div Slack) + s.t[1])
    IN  [s.t EXCEPT ![Last] = c % 2^Top,
                    ![0] = d0 % 2^Base,
                    ![1] = d1 % 2^Base,
                    ![2] = W32(d1 \div 2^Base + s.t[2])]

\* p[k] is column k of the double-length product
Reduce(p) ==
    LET start == [d |-> W64(p[Last]) \div 2^Base, c |-> 0,
                  t |-> [i \in Index |-> IF i = Last THEN W64(p[Last]) % 2^Base
                                                     ELSE 0]]
        step[i \in 0 .. Last] ==
            IF i = 0 THEN start ELSE ReduceStep(step[i - 1], p, i - 1)
    IN  ReduceTail(step[Last])

fe_mul_inner(a, b) == Reduce([k \in 0 .. 2 * Last |-> Column(a, b, k)])

\* each pair of equal products is taken once, with a factor doubled in a word
fe_sqr_inner(a) ==
    Reduce([k \in 0 .. 2 * Last |->
        MapThenSumSet(LAMBDA i : (IF 2 * i = k THEN a[i] ELSE W32(2 * a[i])) * a[k - i],
                      {i \in Index : 2 * i <= k /\ k - i <= Last})])

fe_mul(a, b) == FE(fe_mul_inner(a.n, b.n), 1, FALSE)
fe_sqr(a)    == FE(fe_sqr_inner(a.n), 1, FALSE)

fe_cmov(r, a, flag) ==
    FE(IF flag THEN a.n ELSE r.n, Max({r.magnitude, a.magnitude}),
       r.normalized /\ a.normalized)

\* packed into whole words, and back
fe_to_storage(a)   == Repack(a.n, Base, Word, (Base * Last + Top - 1) \div Word + 1)
fe_from_storage(s) == FE(Repack(s, Word, Base, Limb), 1, TRUE)

\* field_impl.h
fe_equal(a, b)     == fe_normalizes_to_zero(fe_add(fe_negate(a, 1), b))
fe_equal_var(a, b) == fe_normalizes_to_zero_var(fe_add(fe_negate(a, 1), b))
=============================================================================
