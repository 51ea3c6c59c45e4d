------------------------------ MODULE CurveField ------------------------------
(***************************************************************************)
(* Field elements as the point code of secp256k1-zkp sees them: a residue  *)
(* and the magnitude that a VERIFY build tracks.  That the limbs of either *)
(* representation keep the residue while the magnitudes are respected is   *)
(* what FieldCalls checks; here a call whose precondition on magnitudes    *)
(* fails gives an element of magnitude Over, and so does every call that   *)
(* uses one.                                                               *)
(***************************************************************************)
EXTENDS Integers, Sequences, Once

CONSTANTS Q,       \* the prime of the field
          MaxMag,  \* largest magnitude, 32 in the 32-bit representation
          MulMag   \* largest magnitude of a factor, 8

ASSUME FieldAssumption == Q \in Nat /\ Q > 3 /\ Q % 12 = 7

Over == MaxMag + 1
FE(v, m, ok) == [v |-> v % Q, m |-> IF ok THEN m ELSE Over]

fe_set_int(k)       == FE(k, 1, TRUE)
fe_clear            == FE(0, 0, TRUE)
fe_normalize(a)     == FE(a.v, 1, a.m # Over)
fe_mul(a, b)        == FE(a.v * b.v, 1, a.m <= MulMag /\ b.m <= MulMag)
fe_sqr(a)           == FE(a.v * a.v, 1, a.m <= MulMag)
fe_mul_int(a, k)    == FE(a.v * k, a.m * k, a.m * k <= MaxMag)
fe_add(a, b)        == FE(a.v + b.v, a.m + b.m, a.m + b.m <= MaxMag)
fe_negate(a, m)     == FE(-a.v, m + 1, a.m <= m /\ m < MaxMag)
fe_cmov(r, a, flag) == FE(IF flag THEN a.v ELSE r.v, IF a.m > r.m THEN a.m ELSE r.m,
                          a.m # Over /\ r.m # Over)

\* the tests depend on the residue only
IsZero(a) == a.v = 0
fe_equal(a, b) == IsZero(fe_add(fe_negate(a, 1), b))

\* powers by the exponents that AdditionChain shows the code to compute
Power(x, e) ==
    LET pow[k \in 0 .. e] ==
            IF k = 0 THEN 1
            ELSE LET h == pow[k \div 2] IN (((h * h) % Q) * (IF k % 2 = 1 THEN x ELSE 1)) % Q
    IN  pow[e]
Inverses == [x \in 0 .. Q - 1 |-> Power(x, Q - 2)]
Roots    == [x \in 0 .. Q - 1 |-> Power(x, (Q + 1) \div 4)]

fe_inv(a)  == FE(Inverses[a.v], 1, a.m <= MulMag)
fe_sqrt(a) == With(FE(Roots[a.v], 1, a.m <= MulMag),
                   LAMBDA r : [r |-> r, ok |-> fe_equal(fe_sqr(r), a)])
fe_is_quad_var(a) == fe_sqrt(a).ok

\* one inverse for many: prefix products, then back with the suffix
fe_inv_all_var(a) ==
    LET prefix[i \in 1 .. Len(a)] == IF i = 1 THEN a[1] ELSE fe_mul(prefix[i - 1], a[i])
        u[i \in 1 .. Len(a)] == IF i = Len(a) THEN fe_inv(prefix[i]) ELSE fe_mul(u[i + 1], a[i + 1])
    IN  [i \in 1 .. Len(a) |-> IF i = 1 THEN u[1] ELSE fe_mul(prefix[i - 1], u[i])]
=============================================================================
