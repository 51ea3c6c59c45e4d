------------------------------- MODULE Scalar --------------------------------
(***************************************************************************)
(* Scalars of secp256k1-zkp (scalar_8x32_impl.h; scalar_4x64_impl.h is the *)
(* same with four limbs): numbers modulo the order n of the group, always  *)
(* reduced, in Limb words of Bits bits.  2^256 - n, N_C in the code, has   *)
(* one limb more than half of them and its last limb is 1.                 *)
(***************************************************************************)
EXTENDS Limbs, Sequences

CONSTANTS Limb,  \* number of limbs, 8 or 4
          Bits,  \* bits of a limb, 32 or 64
          NC     \* 2^256 - n

Index == 0 .. Limb - 1
Half  == Limb \div 2
B     == 2^Bits
N     == 2^(Limb * Bits) - NC
N_    == LimbsOf(N, Bits, Limb)
N_C   == LimbsOf(NC, Bits, Half + 1)
N_H   == LimbsOf(N \div 2, Bits, Limb)

\* limb sums x added up with their carries
Ripple(x) ==
    LET sum[i \in Index] == x[i] + (IF i = 0 THEN 0 ELSE sum[i - 1] \div B)
    IN  [d |-> [i \in Index |-> sum[i] % B], c |-> sum[Limb - 1] \div B]

scalar_set_int(v) == [i \in Index |-> IF i = 0 THEN v ELSE 0]
scalar_set_u64(v) == [i \in Index |-> IF i = 0 THEN v % B
                                      ELSE IF i = 1 THEN v \div B ELSE 0]
scalar_is_zero(a) == \A i \in Index : a[i] = 0
scalar_is_one(a)  == a[0] = 1 /\ \A i \in Index \ {0} : a[i] = 0
scalar_is_even(a) == a[0] % 2 = 0
scalar_eq(a, b)   == \A i \in Index : a[i] = b[i]

scalar_get_bits(a, offset, count) ==
    (a[offset \div Bits] \div 2^(offset % Bits)) % 2^count

scalar_get_bits_var(a, offset, count) ==
    IF (offset + count - 1) \div Bits = offset \div Bits
    THEN scalar_get_bits(a, offset, count)
    ELSE (a[offset \div Bits] \div 2^(offset % Bits)
           + a[offset \div Bits + 1] * 2^(Bits - (offset % Bits))) % 2^count

\* Mutant: the lowest limb of n itself is no overflow.
scalar_check_overflowAboveN(a) ==
    \E i \in 0 .. Half :
        /\ a[i] > N_[i]
        /\ \A j \in i + 1 .. Limb - 1 : a[j] >= N_[j]

\* "yes" at limb i unless a higher limb said "no"; the limbs of n above the
\* middle one are all ones and cannot be exceeded
scalar_check_overflow(a) ==
    \E i \in 0 .. Half :
        /\ IF i = 0 THEN a[0] >= N_[0] ELSE a[i] > N_[i]
        /\ \A j \in i + 1 .. Limb - 1 : a[j] >= N_[j]

scalar_reduce(r, overflow) ==
    Ripple([i \in Index |-> r[i] + (IF i <= Half THEN overflow * N_C[i] ELSE 0)]).d

Bit(b) == IF b THEN 1 ELSE 0

scalar_add(a, b) ==
    With(Ripple([i \in Index |-> a[i] + b[i]]), LAMBDA s :
        LET over == s.c + Bit(scalar_check_overflow(s.d))
        IN  [d |-> scalar_reduce(s.d, over), overflow |-> over])

\* adds 2^bit, the caller knowing that the sum stays below n
scalar_cadd_bit(r, bit, flag) ==
    Ripple([i \in Index |->
        r[i] + (IF flag /\ bit \div Bits = i THEN 2^(bit % Bits) ELSE 0)]).d

\* the 32 bytes as the words they are packed into, lowest first
scalar_set_b32(w) ==
    LET over == scalar_check_overflow(w)
    IN  [d |-> scalar_reduce(w, Bit(over)), overflow |-> over]

\* ~a + n + 1, and zero for zero
scalar_negate(a) ==
    LET s == Ripple([i \in Index |-> (B - 1 - a[i]) + N_[i] + Bit(i = 0)]).d
    IN  IF scalar_is_zero(a) THEN [i \in Index |-> 0] ELSE s

scalar_cond_negate(r, flag) ==
    LET s == Ripple([i \in Index |-> IF flag THEN (B - 1 - r[i]) + ((N_[i] + Bit(i = 0)) % B)
                                     ELSE r[i]]).d
    IN  [d |-> IF scalar_is_zero(r) THEN [i \in Index |-> 0] ELSE s,
         sign |-> IF flag THEN -1 ELSE 1]

\* the limbs of n/2 from the middle one to the last but one are all ones
scalar_is_high(a) ==
    \E i \in (0 .. Half - 1) \union {Limb - 1} :
        /\ a[i] > N_H[i]
        /\ \A j \in i + 1 .. Limb - 1 : a[j] >= N_H[j]

\* The three-word accumulator (c0, c1, c2) and its macros, with the carries as
\* they are found: a sum smaller than a term has wrapped.
muladd(c, a, b) ==
    LET tl == (a * b) % B
        c0 == (c[1] + tl) % B
        th == ((a * b) \div B + Bit(c0 < tl)) % B
        c1 == (c[2] + th) % B
    IN  <<c0, c1, (c[3] + Bit(c1 < th)) % B>>

\* the _fast macros drop the carry out of c1, and with it c2, where it cannot be
muladd_fast(c, a, b) ==
    LET tl == (a * b) % B
        c0 == (c[1] + tl) % B
        th == ((a * b) \div B + Bit(c0 < tl)) % B
    IN  <<c0, (c[2] + th) % B, c[3]>>

muladd2(c, a, b) ==
    LET tl  == (a * b) % B
        th  == (a * b) \div B
        thd == (th + th) % B
        tl2 == (tl + tl) % B
        c0  == (c[1] + tl2) % B
        th1 == (thd + Bit(tl2 < tl)) % B
        th2 == (th1 + Bit(c0 < tl2)) % B
        c1  == (c[2] + th2) % B
    IN  <<c0, c1, (c[3] + Bit(thd < th) + Bit(c0 < tl2 /\ th2 = 0)
                        + Bit(c1 < th2)) % B>>

sumadd(c, a) ==
    LET c0 == (c[1] + a) % B
        c1 == (c[2] + Bit(c0 < a)) % B
    IN  <<c0, c1, (c[3] + Bit(c1 < Bit(c0 < a))) % B>>

sumadd_fast(c, a) ==
    LET c0 == (c[1] + a) % B IN <<c0, (c[2] + Bit(c0 < a)) % B, c[3]>>

extract(c)      == <<c[2], c[3], 0>>
extract_fast(c) == <<c[2], 0, c[3]>>

\* the products of column k of x * y added to c
AddColumn(c, x, y, k, fast) ==
    LET top == Max(DOMAIN x)
        f[i \in -1 .. top] ==
            IF i = -1 THEN c
            ELSE IF k - i \notin DOMAIN y THEN f[i - 1]
            ELSE IF fast THEN muladd_fast(f[i - 1], x[i], y[k - i])
            ELSE muladd(f[i - 1], x[i], y[k - i])
    IN  f[top]

\* The limbs of a sum of columns, lowest first, and the accumulator after it: a
\* column adds to what is left of the one below, and gives its lowest word.  The
\* columns of `fast', of one product or sum, are added up with two words.
Columns(add(_, _), fast, last) ==
    LET col[k \in 0 .. last] ==
            LET prev == IF k = 0 THEN [out |-> <<>>, c |-> <<0, 0, 0>>] ELSE col[k - 1]
                acc  == add(prev.c, k)
            IN  [out |-> Append(prev.out, acc[1]),
                 c   |-> IF k \in fast THEN extract_fast(acc) ELSE extract(acc)]
    IN  col[last]

\* low + high * N_C up to a column; the top limb of N_C is 1 and needs no product
NCLow == [i \in 0 .. Half - 1 |-> N_C[i]]
AddNC(low, high, last) ==
    LET fast == {0, last}
        sum(c, v, quick) == IF quick THEN sumadd_fast(c, v) ELSE sumadd(c, v)
        add(c, k) ==
            LET d == AddColumn(IF k < Limb THEN sum(c, low[k + 1], k \in fast \union {1})
                               ELSE c, high, NCLow, k, k \in fast)
            IN  IF k - Half \in DOMAIN high THEN sum(d, high[k - Half], k \in fast) ELSE d
    IN  Columns(add, fast, last)

\* the limbs of a sequence from k on
From(l, k) == [i \in 0 .. Len(l) - k - 1 |-> l[k + i + 1]]

\* 512 bits to 385, to 258, to 256, to below n
scalar_reduce_512(l) ==
    With(AddNC(l, From(l, Limb), Limb + Half - 1), LAMBDA s :
      LET m == Append(s.out, s.c[1])
      IN  With(AddNC(m, From(m, Limb), Limb - 1), LAMBDA p :
            LET p8 == p.c[1] + m[Limb + Half + 1]
                r  == Ripple([i \in Index |->
                        p.out[i + 1] + (IF i <= Half THEN N_C[i] * p8 ELSE 0)])
            IN  With(r, LAMBDA q :
                  scalar_reduce(q.d, q.c + Bit(scalar_check_overflow(q.d))))))

\* the columns of a single product
Single == {0, 2 * Limb - 2}

scalar_mul_512(a, b) ==
    Columns(LAMBDA c, k : AddColumn(c, a, b, k, k \in Single), Single, 2 * Limb - 1).out

\* products of two different limbs are taken once and doubled
scalar_sqr_512(a) ==
    Columns(LAMBDA c, k :
              LET f[i \in -1 .. Limb - 1] ==
                      IF i = -1 THEN c
                      ELSE IF k - i \notin Index \/ 2 * i > k THEN f[i - 1]
                      ELSE IF 2 * i < k THEN muladd2(f[i - 1], a[i], a[k - i])
                      ELSE IF k \in Single THEN muladd_fast(f[i - 1], a[i], a[i])
                      ELSE muladd(f[i - 1], a[i], a[i])
              IN  f[Limb - 1],
            Single, 2 * Limb - 1).out

scalar_mul(a, b) == scalar_reduce_512(scalar_mul_512(a, b))
scalar_sqr(a)    == scalar_reduce_512(scalar_sqr_512(a))

scalar_shr_int(r, n) ==
    [d |-> [i \in Index |->
              (r[i] \div 2^n
                + (IF i < Limb - 1 THEN r[i + 1] * 2^(Bits - n) ELSE 0)) % B],
     low |-> r[0] % 2^n]

scalar_split_128(a) ==
    [lo |-> [i \in Index |-> IF i < Half THEN a[i] ELSE 0],
     hi |-> [i \in Index |-> IF i < Half THEN a[i + Half] ELSE 0]]

\* a * b / 2^shift, rounded; shift >= 256
scalar_mul_shift_var(a, b, shift) ==
    With(scalar_mul_512(a, b), LAMBDA l :
    LET sl   == shift \div Bits
        low  == shift % Bits
        r(i) == IF shift < Bits * (2 * Limb - i)
                THEN (l[i + sl + 1] \div 2^low
                       + (IF shift < Bits * (2 * Limb - i - 1) /\ low # 0
                          THEN l[i + sl + 2] * 2^(Bits - low) ELSE 0)) % B
                ELSE 0
        half == (l[(shift - 1) \div Bits + 1] \div 2^((shift - 1) % Bits)) % 2
    IN  scalar_cadd_bit([i \in Index |-> r(i)], 0, half = 1))

\* k = r1 + r2 * lambda with both parts about half as long as n (scalar_impl.h);
\* the constants are those of the lattice of lambda
LatticePart(a, g, minus_b, shift) ==
    With(scalar_mul_shift_var(a, g, shift), LAMBDA c : scalar_mul(c, minus_b))

\* Mutant: the signs of the second lattice vector are mixed up.
scalar_split_lambdaMixedSigns(a, k) ==
    With(scalar_add(LatticePart(a, k.g1, k.minus_b1, k.shift),
                    scalar_negate(LatticePart(a, k.g2, k.minus_b2, k.shift))).d, LAMBDA r2 :
         [r1 |-> scalar_add(scalar_mul(r2, k.minus_lambda), a).d, r2 |-> r2])

scalar_split_lambda(a, k) ==
    With(scalar_add(LatticePart(a, k.g1, k.minus_b1, k.shift),
                    LatticePart(a, k.g2, k.minus_b2, k.shift)).d, LAMBDA r2 :
         [r1 |-> scalar_add(scalar_mul(r2, k.minus_lambda), a).d, r2 |-> r2])
=============================================================================
