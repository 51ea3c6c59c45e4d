------------------------------ MODULE GroupCalls ------------------------------
(***************************************************************************)
(* A caller of the point code of secp256k1-zkp on a small curve: one point *)
(* in Jacobian coordinates, one affine one, and any sequence of calls.     *)
(* logj and logp are the multiples of the generator that the group law     *)
(* says the two points are.                                                *)
(***************************************************************************)
EXTENDS Curve

CONSTANTS Lambda,       \* Lambda * (x, y) = (Beta * x, y)
          Scales,       \* bound: z coordinates that are tried
          MaxPointCalls \* bound: calls

VARIABLES j, p,       \* a gej and a ge
          logj, logp, \* the points they are
          pcalls      \* number of calls made

pointVars == <<j, p, logj, logp, pcalls>>

ASSUME LambdaAssumption == Multiple[Lambda] = <<(Beta * GX) % Q, GY>>

PointInit ==
    /\ j = gej_set_infinity /\ logj = 0
    /\ p = ge_const_g /\ logp = 1
    /\ pcalls = 0

PointCall == pcalls < MaxPointCalls /\ pcalls' = pcalls + 1
NewJ(a, k) == PointCall /\ j' = a /\ logj' = k % Order /\ UNCHANGED <<p, logp>>
NewP(a, k) == PointCall /\ p' = a /\ logp' = k % Order /\ UNCHANGED <<j, logj>>

DoubleVar == NewJ(gej_double_var(j).r, 2 * logj)
AddVar    == \E s \in Scales :
               NewJ(gej_add_var(j, gej_rescale(gej_set_ge(p), fe_set_int(s))).r, logj + logp)
AddGeVar  == NewJ(gej_add_ge_var(j, p).r, logj + logp)
AddZinvVar ==
    \E s \in Scales :
        NewJ(gej_add_zinv_var(j, ge_set_gej_zinv(p, fe_inv(fe_set_int(s))), fe_set_int(s)),
             logj + logp)
AddGe     == ~p.infinity /\ NewJ(gej_add_ge(j, p), logj + logp)
NegJ      == NewJ(gej_neg(j), -logj)
Rescale   == \E s \in Scales : NewJ(gej_rescale(j, fe_set_int(s)), logj)

NegP      == NewP(ge_neg(p), -logp)
MulLambda == NewP(ge_mul_lambda(p), Lambda * logp)
Storage   == ~p.infinity /\ NewP(ge_from_storage(ge_to_storage(p)), logp)
SetXo     == /\ ~p.infinity
             /\ \E odd \in BOOLEAN :
                  LET r == ge_set_xo_var(fe_normalize(p.x), odd)
                  IN  r.ok /\ NewP(r.ge, IF (p.y.v % 2 = 1) = odd THEN logp ELSE -logp)

\* both conversions also leave the Jacobian point with z = 1
ToAffine ==
    /\ PointCall
    /\ p' = ge_set_gej_var(j) /\ logp' = logj
    /\ j' = IF j.infinity THEN j ELSE gej_set_ge(ge_set_gej(j))
    /\ UNCHANGED logj

ToAffineConst ==
    /\ PointCall
    /\ p' = ge_set_gej(j) /\ logp' = logj
    /\ j' = gej_set_ge(ge_set_gej(j))
    /\ UNCHANGED logj

PointDone == pcalls = MaxPointCalls /\ UNCHANGED pointVars

PointNext ==
    \/ DoubleVar \/ AddVar \/ AddGeVar \/ AddZinvVar \/ AddGe \/ NegJ \/ Rescale
    \/ NegP \/ MulLambda \/ Storage \/ SetXo \/ ToAffine \/ ToAffineConst \/ PointDone

-----------------------------------------------------------------------------
(* Whatever the sequence of calls, the coordinates stand for the point that *)
(* the group law gives: sums of equal and of opposite points, the case of   *)
(* the constant-time addition where y1 = -y2 and x1 # x2, sums with         *)
(* infinity and with its stale coordinates, and every z.                    *)
GroupLaw == AffineOf(j) = Multiple[logj] /\ PointOf(p) = Multiple[logp]

(* No call is made with a magnitude beyond its precondition: the            *)
(* coordinates that one call leaves are never too large for the next.       *)
PointMagnitudes == Over \notin {j.x.m, j.y.m, j.z.m, p.x.m, p.y.m}

(* The validity tests accept every finite point, the comparison of an x     *)
(* coordinate decides equality up to sign, has_quad_y decides whether the   *)
(* affine y is a square, and set_xquad finds the point whose y is one.      *)
PointTests ==
    /\ gej_is_valid_var(j) = (logj # 0) /\ ge_is_valid_var(p) = (logp # 0)
    /\ logj # 0 /\ logp # 0 =>
         /\ gej_eq_x_var(fe_normalize(p.x), j) = (logj \in {logp, Order - logp})
         /\ LET y == Multiple[logj][2]
                q == ge_set_xquad(fe_set_int(Multiple[logj][1]))
            IN  /\ gej_has_quad_y_var(j) = (\E v \in 0 .. Q - 1 : (v * v) % Q = y)
                /\ q.ok /\ q.ge.y.v = (IF gej_has_quad_y_var(j) THEN y ELSE (-y) % Q)
=============================================================================
