----------------------------- MODULE ScalarCalls ------------------------------
(***************************************************************************)
(* A caller of the scalar code of secp256k1-zkp: two scalars s and t and   *)
(* any sequence of calls.  vs and vt are the numbers below n that          *)
(* arithmetic says they are.  A caller who has split a scalar, by 128 bits *)
(* or with lambda, goes on with the two parts.                             *)
(***************************************************************************)
EXTENDS Wnaf

CONSTANTS Numbers,         \* numbers of 256 bits that a caller reads
          Lambda, Lattice, \* lambda, and the constants of its lattice
          Window,          \* WINDOW_A
          MaxScalarCalls   \* bound: calls

VARIABLES s, t,    \* two scalars
          vs, vt,  \* the numbers they stand for
          steps    \* number of calls made

scalarVars == <<s, t, vs, vt, steps>>

Number(x) == ValueOf(x, Bits)
Words(v)  == LimbsOf(v, Bits, Limb)
Constants == [f \in DOMAIN Lattice |->
                IF f = "shift" THEN Lattice[f] ELSE Words(Lattice[f])]

ScalarInit ==
    /\ s = scalar_set_int(0) /\ t = scalar_set_u64(B + 1)
    /\ vs = 0 /\ vt = B + 1
    /\ steps = 0

Call == steps < MaxScalarCalls /\ steps' = steps + 1
Gives(x, v) == Call /\ s' = x /\ vs' = v % N /\ UNCHANGED <<t, vt>>

SetB32 ==
    \E v \in Numbers :
        LET r == scalar_set_b32(Words(v))
        IN  Gives(r.d, IF r.overflow THEN v - N ELSE v)

ScalarCopy    == Call /\ t' = s /\ vt' = vs /\ UNCHANGED <<s, vs>>
ScalarAdd     == Gives(scalar_add(s, t).d, vs + vt)
ScalarMul     == Gives(scalar_mul(s, t), MulMod(vs, vt, N))
ScalarSqr     == Gives(scalar_sqr(s), MulMod(vs, vs, N))
ScalarNegate  == Gives(scalar_negate(s), -vs)
CondNegate    == \E flag \in BOOLEAN :
                   Gives(scalar_cond_negate(s, flag).d, IF flag THEN -vs ELSE vs)
CaddBit       == \E bit \in {0, 1, Bits, Width - 1}, flag \in BOOLEAN :
                   /\ vs + 2^bit < N
                   /\ Gives(scalar_cadd_bit(s, bit, flag), vs + (IF flag THEN 2^bit ELSE 0))
ShrInt        == \E n \in 1 .. Bits - 1 : Gives(scalar_shr_int(s, n).d, vs \div 2^n)

Split128 ==
    LET r == scalar_split_128(s)
    IN  /\ Call
        /\ s' = r.lo /\ vs' = vs % 2^(Half * Bits)
        /\ t' = r.hi /\ vt' = vs \div 2^(Half * Bits)

\* what the two parts must be is said by SplitIsShort
SplitLambda ==
    \E r \in {scalar_split_lambda(s, Constants)} :
        /\ Call
        /\ s' = r.r1 /\ vs' = Number(r.r1)
        /\ t' = r.r2 /\ vt' = Number(r.r2)

ScalarDone == steps = MaxScalarCalls /\ UNCHANGED scalarVars

ScalarNext ==
    \/ SetB32 \/ ScalarCopy \/ ScalarAdd \/ ScalarMul \/ ScalarSqr \/ ScalarNegate
    \/ CondNegate \/ CaddBit \/ ShrInt \/ Split128 \/ SplitLambda \/ ScalarDone

-----------------------------------------------------------------------------
(* No carry is lost in the three-word accumulator, in the three folds of    *)
(* reduce_512 or in the final subtraction: after any sequence of calls both *)
(* scalars are the numbers below n that arithmetic gives.                   *)
ScalarValueKept == Number(s) = vs /\ Number(t) = vt /\ vs < N /\ vt < N

(* The tests and the bit extractors agree with the number, also where a     *)
(* run of bits crosses two limbs and where a value is next to n/2.          *)
ScalarTestsAgree ==
    /\ scalar_is_high(s) = (vs > N \div 2)
    /\ scalar_is_zero(s) = (vs = 0) /\ scalar_is_one(s) = (vs = 1)
    /\ scalar_is_even(s) = (vs % 2 = 0) /\ scalar_eq(s, t) = (vs = vt)
    /\ \A off \in 0 .. Width - 2, count \in 1 .. Bits :
         off + count <= Width =>
           scalar_get_bits_var(s, off, count) = (vs \div 2^off) % 2^count
    /\ \A n \in 1 .. Bits - 1 : scalar_shr_int(s, n).low = vs % 2^n

(* The lambda decomposition gives a scalar back, r1 + lambda * r2 = s, and  *)
(* each part or its negation fits half the width, which is why the loops    *)
(* that follow may stop at 128 bits.                                        *)
SplitIsShort ==
    \A r \in {scalar_split_lambda(s, Constants)} :
      LET r1 == Number(r.r1)
          r2 == Number(r.r2)
          short(v) == Min({v, N - v}) < 2^(Half * Bits)
      IN  /\ (r1 + MulMod(r2, Lambda, N)) % N = vs
          /\ short(r1) /\ short(r2)

(* ecmult_wnaf keeps what its comment promises: the digits add up to the    *)
(* scalar, are odd and small, non-zero ones are w apart, and no carry is    *)
(* left when the entries are used up.                                       *)
WnafRepresents ==
    \A r \in {ecmult_wnaf(s, Width, Window)} :
        /\ MapThenSumSet(LAMBDA d : d[2] * 2^d[1], r.digits) % N = vs
        /\ r.carry = 0
        /\ \A d \in r.digits :
             /\ d[2] % 2 = 1 /\ d[2] \in 1 - 2^(Window - 1) .. 2^(Window - 1) - 1
             /\ \A e \in r.digits : d[1] < e[1] => e[1] - d[1] >= Window

(* The halves of a split scalar are short enough for the 130 entries that   *)
(* ecmult has for them.                                                     *)
SplitWnafFits ==
    \A r \in {scalar_split_lambda(s, Constants)} : \A h \in {r.r1, r.r2} :
      \A w \in {ecmult_wnaf(h, Half * Bits + 2, Window)} :
          /\ w.carry = 0
          /\ MapThenSumSet(LAMBDA d : d[2] * 2^d[1], w.digits) % N = Number(h)

(* wnaf_const: all digits are odd, none exceeds w bits, they add up to the  *)
(* scalar plus its skew of 1 or 2, and nothing of the scalar is left over,  *)
(* for minus one too, where the 2 would overflow.  A scalar that is not     *)
(* taken for negative must not be high.                                     *)
WnafConstRepresents ==
    \A neg \in {TRUE} \union {vs > N \div 2} :
      LET w == Window - 1
      IN  \A r \in {wnaf_const(s, w, Width, neg)} :
          /\ MapThenSumSet(LAMBDA k : r.wnaf[k] * 2^(w * k), DOMAIN r.wnaf) % N
               = (vs + r.skew) % N
          /\ scalar_is_zero(r.rest)
          /\ \A k \in DOMAIN r.wnaf : r.wnaf[k] % 2 = 1 /\ r.wnaf[k] \in 1 - 2^w .. 2^w - 1
=============================================================================
