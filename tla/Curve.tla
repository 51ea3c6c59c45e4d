-------------------------------- MODULE Curve --------------------------------
(***************************************************************************)
(* The group that the points of secp256k1-zkp form, for a small curve: the *)
(* group law of the textbook, the multiples of the generator and the       *)
(* points that coordinates stand for.                                      *)
(***************************************************************************)
EXTENDS Group

CONSTANTS Order,  \* order of the group, a prime
          GX, GY  \* the generator

\* The group law of the textbook; <<>> is the point at infinity.
AffineAdd(P1, P2) ==
    IF P1 = <<>> THEN P2
    ELSE IF P2 = <<>> THEN P1
    ELSE IF P1[1] = P2[1] /\ (P1[2] + P2[2]) % Q = 0 THEN <<>>
    ELSE LET Third(l, x) == <<x, (l * (P1[1] - x) - P1[2]) % Q>>
             Line(l) == Third(l, (l * l - P1[1] - P2[1]) % Q)
         IN  Line(IF P1 = P2 THEN (3 * P1[1] * P1[1] * Inverses[(2 * P1[2]) % Q]) % Q
                  ELSE ((P2[2] - P1[2]) * Inverses[(P2[1] - P1[1]) % Q]) % Q)

\* Multiple[k] is k times the generator
Multiple ==
    LET mult[k \in 0 .. Order - 1] ==
            IF k = 0 THEN <<>> ELSE AffineAdd(mult[k - 1], <<GX, GY>>)
    IN  [k \in 0 .. Order - 1 |-> mult[k]]

ASSUME CurveAssumption == Multiple[Order - 1] = <<GX, (-GY) % Q>>

ge_const_g == ge_set_xy(fe_set_int(GX), fe_set_int(GY))

\* the points that coordinates stand for
AffineOf(a) ==
    IF a.infinity THEN <<>>
    ELSE With(Inverses[a.z.v], LAMBDA zi :
              <<(a.x.v * zi * zi) % Q, (a.y.v * ((zi * zi * zi) % Q)) % Q>>)
PointOf(a) == IF a.infinity THEN <<>> ELSE <<a.x.v, a.y.v>>
=============================================================================
