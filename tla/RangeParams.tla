----------------------------- MODULE RangeParams -----------------------------
(***************************************************************************)
(* The parameters and the header of a range proof of secp256k1-zkp         *)
(* (rangeproof_impl.h): which digits a value is proved by, what the header *)
(* says of them and what a reader makes of it.  Amounts have W bits in     *)
(* place of 64, and powers of ten go to MaxExp in place of 18.             *)
(***************************************************************************)
EXTENDS Once, Integers, Sequences

CONSTANTS W,      \* bits of an amount
          MaxExp  \* largest exponent of ten

\* powers: shifts of one bit, and the scale after so many steps
Pow2[n \in Nat]  == IF n = 0 THEN 1 ELSE 2 * Pow2[n - 1]
Pow10[n \in Nat] == IF n = 0 THEN 1 ELSE 10 * Pow10[n - 1]

UINT_MAX == Pow2[W] - 1
INT_MAX  == Pow2[W - 1] - 1
BitLength(x) == CHOOSE n \in 0 .. W : x < Pow2[n] /\ (n = 0 \/ x >= Pow2[n - 1])
\* Mutant: one leading zero too many.
clz_varOneMore(x) == W + 1 - BitLength(x)
clz_var(x) == W - BitLength(x)
BitOr(x, y) == x + y  \* of numbers that share no bit
LowOnes(bits) == Pow2[bits] - 1

\* The exponent has five bits of the header, an amount of w bits has room for each
\* power of ten up to x, and so many ones, scaled, either leave one half of the amounts
\* free or leave room for a minimum of the remaining bits and for what a division by
\* the power of ten drops.  64 bits and 18 powers are such numbers; 9 and 2 are not.
Roomy(w, x) ==
    /\ w \in Nat /\ w >= 3 /\ x \in 0 .. 31 /\ Pow10[x] <= Pow2[w - 1]
    /\ \A e \in 0 .. x, b \in 1 .. w - 3 :
         \/ LowOnes(b) * Pow10[e] <= Pow2[w - 1]
         \/ LowOnes(b) * Pow10[e] >= Pow2[w]
         \/ LowOnes(b) * Pow10[e] + LowOnes(w - b) + Pow10[e] <= Pow2[w]

ASSUME WidthAssumption == Roomy(W, MaxExp)

Refusal == [ok |-> FALSE]

\* the exponent is lowered until min_bits bits, scaled, fit an amount
ExponentFor(exp, min_bits) ==
    CHOOSE i \in 0 .. exp :
        /\ \A j \in 0 .. i - 1 : LowOnes(min_bits) * Pow10[j] <= UINT_MAX \div 10
        /\ i < exp => LowOnes(min_bits) * Pow10[i] > UINT_MAX \div 10

\* v, in units of 10^exp, in rings of two bits each; what is left is the minimum
RingOf(mantissa, i) == IF 2 * i - 1 < mantissa THEN 4 ELSE 2
InRings(value, v, exp, mantissa, rings) ==
    [ok |-> TRUE, v |-> v, rings |-> rings,
     rsizes |-> [i \in 1 .. rings |-> RingOf(mantissa, i)],
     secidx |-> [i \in 1 .. rings |-> (v \div Pow2[2 * (i - 1)]) % 4],
     npub |-> 4 * (rings - 1) + RingOf(mantissa, rings),
     min_value |-> (value - v * Pow10[exp]) % Pow2[W], mantissa |-> mantissa,
     scale |-> Pow10[exp], exp |-> exp]
Digits(value, v, exp, mantissa) == InRings(value, v, exp, mantissa, (mantissa + 1) \div 2)

Smaller(x, y) == IF x < y THEN x ELSE y
Larger(x, y)  == IF x > y THEN x ELSE y

range_proveparams(min_value, exp, min_bits, value) ==
    IF exp < 0 \/ min_value = UINT_MAX
    THEN \* an exact value
         [ok |-> TRUE, v |-> 0, rings |-> 1, rsizes |-> <<1>>, secidx |-> <<0>>, npub |-> 2,
          min_value |-> value, mantissa |-> 0, scale |-> 1, exp |-> 0]
    ELSE IF \/ min_value # 0 /\ value > INT_MAX
            \/ value # 0 /\ min_value >= INT_MAX
    THEN Refusal
    ELSE With(Smaller(min_bits, IF min_value # 0 THEN clz_var(min_value) ELSE W), LAMBDA bits :
         With(ExponentFor(IF bits > W - 3 \/ value > INT_MAX THEN 0 ELSE exp, bits), LAMBDA e :
         With((value - min_value) \div Pow10[e], LAMBDA v :
             Digits(value, v, e, Larger(bits, IF v = 0 THEN 1 ELSE BitLength(v))))))

\* what sign_impl checks of its arguments first
ArgsOk(plen, min_value, exp, min_bits, value) ==
    /\ plen >= 65 /\ min_value <= value
    /\ min_bits <= W /\ min_bits >= 0 /\ exp >= -1 /\ exp <= MaxExp

-----------------------------------------------------------------------------
(* The header: a byte of flags and the exponent, a byte with the mantissa  *)
(* if there is a range, eight bytes, here one number, with the minimum if  *)
(* there is one.                                                           *)

HasRange == 64
HasMin   == 32

WriteHeader(p) ==
    <<BitOr(IF p.rsizes[1] > 1 THEN BitOr(HasRange, p.exp) ELSE 0,
            IF p.min_value # 0 THEN HasMin ELSE 0)>>
    \o (IF p.rsizes[1] > 1 THEN <<p.mantissa - 1>> ELSE <<>>)
    \o (IF p.min_value # 0 THEN <<p.min_value>> ELSE <<>>)

\* the bytes of a header of so many parts: a minimum has eight
HeaderBytes(first, parts) == IF (first \div HasMin) % 2 = 1 THEN parts + 7 ELSE parts

\* h is the proof from its start on and plen its length in bytes
has_nz_range(h) == (h[1] \div HasRange) % 2 = 1
has_min(h)      == (h[1] \div HasMin) % 2 = 1

\* scaled by 10^exp step by step; -1 once it exceeds an amount
ScaledMax(max, exp) ==
    IF \E i \in 0 .. exp - 1 : max * Pow10[i] > UINT_MAX \div 10 THEN -1 ELSE max * Pow10[exp]

\* the header's last part, after the first ones; max is the largest value above it
WithMinimum(h, plen, exp, mantissa, max, parts) ==
    IF has_min(h) /\ plen - parts < 8 THEN Refusal
    ELSE With(IF has_min(h) THEN h[parts + 1] ELSE 0, LAMBDA min :
           IF max > UINT_MAX - min THEN Refusal
           ELSE [ok |-> TRUE, exp |-> exp, mantissa |-> mantissa,
                 scale |-> IF exp < 0 THEN 1 ELSE Pow10[exp],
                 min_value |-> min, max_value |-> max + min,
                 parts |-> IF has_min(h) THEN parts + 1 ELSE parts])

WithRange(h, plen, exp, mantissa) ==
    IF exp > MaxExp \/ mantissa > W THEN Refusal
    ELSE With(ScaledMax(LowOnes(mantissa), exp), LAMBDA max :
           IF max = -1 THEN Refusal ELSE WithMinimum(h, plen, exp, mantissa, max, 2))

rangeproof_getheader(h, plen) ==
    IF plen < 65 \/ h[1] >= 128 THEN Refusal
    ELSE IF has_nz_range(h) THEN WithRange(h, plen, h[1] % 32, h[2] + 1)
    ELSE WithMinimum(h, plen, -1, 0, 0, 1)

\* rings that the verifier expects for a mantissa
RingSizes(mantissa) ==
    IF mantissa = 0 THEN <<1>>
    ELSE [i \in 1 .. mantissa \div 2 |-> 4] \o (IF mantissa % 2 = 1 THEN <<2>> ELSE <<>>)

\* bytes after the header: sign bits, points, a hash and the signatures
BodyBytes(npub, rings) == 32 * (npub + rings - 1) + 32 + ((rings + 6) \div 8)
=============================================================================
