-------------------------------- MODULE Wnaf ---------------------------------
(***************************************************************************)
(* The two recodings of a scalar into signed digits that the point         *)
(* multiplications of secp256k1-zkp run over: secp256k1_ecmult_wnaf        *)
(* (ecmult_impl.h), sparse and of variable time, and secp256k1_wnaf_const  *)
(* (ecmult_const_impl.h), with every digit odd.                            *)
(***************************************************************************)
EXTENDS Scalar

Width == Limb * Bits  \* 256

\* Mutant: a negative digit carries nothing into the next one.
WnafLoopNoCarry(s, len, w) ==
    LET loop[bit \in 0 .. len] ==
            IF bit = len THEN [digits |-> {}, carry |-> 0]
            ELSE IF scalar_get_bits(s, bit, 1) = 0 THEN loop[bit + 1]
            ELSE LET now  == Min({w, len - bit})
                     word == scalar_get_bits_var(s, bit, now)
                     up   == (word \div 2^(w - 1)) % 2
                 IN  [loop[bit + now] EXCEPT !.digits = @ \union {<<bit, word - up * 2^w>>}]
    IN  loop[0]

\* The while loop from a bit on: a bit equal to the carry is skipped, else up to
\* w bits become one digit, and the carry of a negative digit goes on.
WnafLoop(s, len, w) ==
    LET loop[bit \in 0 .. len, carry \in {0, 1}] ==
            IF bit = len THEN [digits |-> {}, carry |-> carry]
            ELSE IF scalar_get_bits(s, bit, 1) = carry THEN loop[bit + 1, carry]
            ELSE LET now  == Min({w, len - bit})
                     word == scalar_get_bits_var(s, bit, now) + carry
                     up   == (word \div 2^(w - 1)) % 2
                     rest == loop[bit + now, up]
                 IN  [rest EXCEPT !.digits = @ \union {<<bit, word - up * 2^w>>}]
    IN  loop[0, 0]

\* A scalar with its highest bit set is recoded as minus its negation.  The digits
\* are the pairs <<bit, digit>> of those that are not zero; `set' is the number of
\* entries up to the last of them, which the function returns.
ecmult_wnaf(a, len, w) ==
    LET high == scalar_get_bits(a, Width - 1, 1) = 1
    IN  With(WnafLoop(IF high THEN scalar_negate(a) ELSE a, len, w), LAMBDA l :
          [digits |-> {<<d[1], (IF high THEN -1 ELSE 1) * d[2]>> : d \in l.digits},
           carry  |-> l.carry,
           set    |-> 1 + Max({-1} \union {d[1] : d \in l.digits})])

WNAF_SIZE(size, w) == (size + w - 1) \div w

\* The do loop: from w bits and the next w, an even next word takes one from this
\* digit, or gives it one, so that both are odd.
WnafConstLoop(s, w, size) ==
    LET start == scalar_shr_int(s, w)
        step[k \in 0 .. WNAF_SIZE(size, w)] ==
            IF k = 0 THEN [s |-> start.d, last |-> start.low, digit |-> 0]
            ELSE LET prev == step[k - 1]
                     next == scalar_shr_int(prev.s, w)
                     even == next.low % 2 = 0
                     sign == IF prev.last > 0 THEN 1 ELSE -1
                     move == IF even THEN sign ELSE 0
                 IN  [s |-> next.d, last |-> next.low + move,
                      digit |-> prev.last - move * 2^w]
    IN  step

\* The scalar is made odd by adding 1 or 2 to it (before, or after, its negation);
\* minus one, which has no room for the 2, is only negated, and the digits'
\* sign is turned instead.
wnaf_const(a, w, size, maybe_negative) ==
    LET flip        == maybe_negative /\ scalar_is_high(a)
        bit         == IF flip = scalar_is_even(a) THEN 1 ELSE 0
        not_neg_one == maybe_negative => ~scalar_is_one(scalar_negate(a))
        sign        == IF not_neg_one THEN 1 ELSE -1
        words       == WNAF_SIZE(size, w)
        Recoded(odd) ==
            With(WnafConstLoop(odd.d, w, size), LAMBDA loop :
              [wnaf |-> [k \in 0 .. words |->
                           odd.sign * sign * (IF k < words THEN loop[k + 1].digit
                                              ELSE loop[words].last)],
               skew |-> 2^bit,
               rest |-> loop[words].s])
    IN  Recoded(scalar_cond_negate(scalar_cadd_bit(a, bit, not_neg_one), flip))
=============================================================================
