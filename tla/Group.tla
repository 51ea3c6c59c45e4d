-------------------------------- MODULE Group --------------------------------
(***************************************************************************)
(* The points of secp256k1-zkp (group_impl.h): affine (ge) and Jacobian    *)
(* (gej), where (x, y, z) stands for (x/z^2, y/z^3).  A call that the code *)
(* makes with its result in place of an argument keeps that argument's     *)
(* coordinates where the code leaves them alone.                           *)
(***************************************************************************)
EXTENDS CurveField

CONSTANTS CURVE_B,  \* the curve is y^2 = x^3 + CURVE_B
          Beta      \* a cube root of one in the field

ge_set_xy(x, y) == [x |-> x, y |-> y, infinity |-> FALSE]
ge_clear        == ge_set_xy(fe_clear, fe_clear)
gej_set_infinity == [x |-> fe_clear, y |-> fe_clear, z |-> fe_clear, infinity |-> TRUE]
gej_set_ge(a)   == [x |-> a.x, y |-> a.y, z |-> fe_set_int(1), infinity |-> a.infinity]

ge_set_gej_zinv(a, zi) ==
    LET zi2 == fe_sqr(zi)
    IN  [x |-> fe_mul(a.x, zi2), y |-> fe_mul(a.y, fe_mul(zi2, zi)), infinity |-> a.infinity]

ge_neg(a)  == [a EXCEPT !.y = fe_negate(fe_normalize(@), 1)]
gej_neg(a) == [a EXCEPT !.y = fe_negate(fe_normalize(@), 1)]

ge_set_gej(a) == ge_set_gej_zinv(a, fe_inv(a.z))
ge_set_gej_var(a) == IF a.infinity THEN [ge_clear EXCEPT !.infinity = TRUE] ELSE ge_set_gej(a)

\* the points at infinity are left out of the common inversion
ge_set_all_gej_var(a) ==
    LET finite == SelectSeq([i \in 1 .. Len(a) |-> i], LAMBDA i : ~a[i].infinity)
        azi    == fe_inv_all_var([k \in 1 .. Len(finite) |-> a[finite[k]].z])
        pos(i) == CHOOSE k \in 1 .. Len(finite) : finite[k] = i
    IN  [i \in 1 .. Len(a) |->
           IF a[i].infinity THEN [ge_clear EXCEPT !.infinity = TRUE]
           ELSE ge_set_gej_zinv(a[i], azi[pos(i)])]

\* zr[i] is the ratio of the z coordinates of a[i] and a[i - 1]: one inverse, of
\* the last z, scales the whole table, from its end
ge_set_table_gej_var(a, zr) ==
    LET len == Len(a)
        zi[i \in 1 .. len] == IF i = len THEN fe_inv(a[len].z) ELSE fe_mul(zi[i + 1], zr[i + 1])
    IN  [i \in 1 .. len |-> ge_set_gej_zinv(a[i], zi[i])]

\* the same without an inverse: all points over the z of the last one
ge_globalz_set_table_gej(a, zr) ==
    LET len == Len(a)
        zs[i \in 1 .. len - 1] ==
            IF i = len - 1 THEN zr[len] ELSE fe_mul(zs[i + 1], zr[i + 1])
    IN  [globalz |-> a[len].z,
         pre |-> [i \in 1 .. len |-> IF i = len THEN ge_set_xy(a[len].x, a[len].y)
                                     ELSE ge_set_gej_zinv(a[i], zs[i])]]

ge_set_xquad(x) ==
    With(fe_sqrt(fe_add(fe_set_int(CURVE_B), fe_mul(x, fe_sqr(x)))),
         LAMBDA r : [ok |-> r.ok, ge |-> ge_set_xy(x, r.r)])

ge_set_xo_var(x, odd) ==
    With(ge_set_xquad(x), LAMBDA q :
        LET y == fe_normalize(q.ge.y)
        IN  [ok |-> q.ok,
             ge |-> IF q.ok THEN ge_set_xy(x, IF (y.v % 2 = 1) # odd THEN fe_negate(y, 1) ELSE y)
                    ELSE q.ge])

gej_eq_x_var(x, a) == fe_equal(fe_mul(fe_sqr(a.z), x), fe_normalize(a.x))

gej_is_valid_var(a) ==
    LET x3 == fe_mul(fe_sqr(a.x), a.x)
        z2 == fe_sqr(a.z)
        z6 == fe_mul_int(fe_mul(fe_sqr(z2), z2), CURVE_B)
    IN  ~a.infinity /\ fe_equal(fe_sqr(a.y), fe_normalize(fe_add(x3, z6)))

ge_is_valid_var(a) ==
    LET x3 == fe_mul(fe_sqr(a.x), a.x)
    IN  ~a.infinity /\ fe_equal(fe_sqr(a.y), fe_normalize(fe_add(x3, fe_set_int(CURVE_B))))

gej_has_quad_y_var(a) == ~a.infinity /\ fe_is_quad_var(fe_mul(a.y, a.z))

\* 2a, and the ratio rzr of its z to a's
gej_double_var(a) ==
    LET Twice(t1, t2, t3, t4) ==
            [x |-> fe_add(fe_negate(fe_mul_int(t3, 4), 4), t2),
             y |-> fe_add(fe_mul(t1, fe_add(fe_mul_int(t3, 6), fe_negate(t2, 1))),
                          fe_negate(t4, 2)),
             z |-> fe_mul_int(fe_mul(a.z, a.y), 2), infinity |-> FALSE]
        From(t1, s) == Twice(t1, fe_sqr(t1), fe_mul(s, a.x), fe_mul_int(fe_sqr(s), 2))
    IN  IF a.infinity THEN [r |-> a, rzr |-> fe_set_int(1)]
        ELSE [r   |-> From(fe_mul_int(fe_sqr(a.x), 3), fe_mul_int(fe_sqr(a.y), 2)),
              rzr |-> fe_mul_int(fe_normalize(a.y), 2)]

gej_double_nonzero(a) == gej_double_var(a)

\* the sum, from h^3, u1 * h^2, s1 * h^3 and i
SumPoint(h3, t, s1h3, i, z) ==
    With(fe_add(fe_negate(fe_add(fe_mul_int(t, 2), h3), 3), fe_sqr(i)), LAMBDA x :
        [x |-> x, y |-> fe_add(fe_mul(fe_add(fe_negate(x, 5), t), i), fe_negate(s1h3, 1)),
         z |-> z, infinity |-> FALSE])

\* what the three variable-time additions share once u1, s1, h = u2 - u1 and
\* i = s2 - s1 are known: equal points, opposite points, and the sum
Added(a, u1, s1, h, i, z, rzr) ==
    LET Of(h2, h3) == SumPoint(h3, fe_mul(u1, h2), fe_mul(h3, s1), i, z)
    IN  IF IsZero(h) /\ IsZero(i) THEN gej_double_var(a)
        ELSE IF IsZero(h) THEN [r |-> [a EXCEPT !.infinity = TRUE], rzr |-> fe_set_int(0)]
        ELSE [r |-> Of(fe_sqr(h), fe_mul(h, fe_sqr(h))), rzr |-> rzr]

gej_add_var(a, b) ==
    LET z22 == fe_sqr(b.z)
        z12 == fe_sqr(a.z)
        u1  == fe_mul(a.x, z22)
        s1  == fe_mul(fe_mul(a.y, z22), b.z)
        h   == fe_add(fe_negate(u1, 1), fe_mul(b.x, z12))
        i   == fe_add(fe_negate(s1, 1), fe_mul(fe_mul(b.y, z12), a.z))
        hz  == fe_mul(h, b.z)
    IN  IF a.infinity THEN [r |-> b, rzr |-> fe_clear]
        ELSE IF b.infinity THEN [r |-> a, rzr |-> fe_set_int(1)]
        ELSE Added(a, u1, s1, h, i, fe_mul(a.z, hz), hz)

gej_add_ge_var(a, b) ==
    LET z12 == fe_sqr(a.z)
        u1  == fe_normalize(a.x)
        s1  == fe_normalize(a.y)
        h   == fe_add(fe_negate(u1, 1), fe_mul(b.x, z12))
        i   == fe_add(fe_negate(s1, 1), fe_mul(fe_mul(b.y, z12), a.z))
    IN  IF a.infinity THEN [r |-> gej_set_ge(b), rzr |-> fe_clear]
        ELSE IF b.infinity THEN [r |-> a, rzr |-> fe_set_int(1)]
        ELSE Added(a, u1, s1, h, i, fe_mul(a.z, h), h)

\* b is (x, y, 1/bzinv): both z coordinates are scaled by bzinv, the result's not
gej_add_zinv_var(a, b, bzinv) ==
    LET az  == fe_mul(a.z, bzinv)
        z12 == fe_sqr(az)
        u1  == fe_normalize(a.x)
        s1  == fe_normalize(a.y)
        h   == fe_add(fe_negate(u1, 1), fe_mul(b.x, z12))
        i   == fe_add(fe_negate(s1, 1), fe_mul(fe_mul(b.y, z12), az))
    IN  IF b.infinity THEN a
        ELSE IF a.infinity THEN gej_set_ge(ge_set_gej_zinv(b, bzinv))
        ELSE Added(a, u1, s1, h, i, fe_mul(a.z, h), h).r

\* the sum from the slope rr / m, with t = u1 + u2; n is m^4, or m itself where the
\* slope is the other one
Placed(a, b, t, rr, m, n, z) ==
    LET Ordinate(x3, q) == fe_negate(fe_add(fe_mul(fe_add(fe_mul_int(x3, 2), q), rr), n), 3)
        Point(x3, q) ==
            [x |-> fe_cmov(fe_mul_int(x3, 4), b.x, a.infinity),
             y |-> fe_cmov(fe_mul_int(fe_normalize(Ordinate(x3, q)), 4), b.y, a.infinity),
             z |-> fe_cmov(fe_mul_int(z, 2), fe_set_int(1), a.infinity),
             infinity |-> IsZero(z) /\ ~a.infinity]
    IN  With(fe_negate(fe_mul(fe_sqr(m), t), 1), LAMBDA q :
             Point(fe_normalize(fe_add(fe_sqr(rr), q)), q))

\* Mutant: the slope is never replaced.
ChosenFirst(a, b, t, m, rr, rr2, m2) ==
    Placed(a, b, t, rr, m, fe_sqr(fe_sqr(m)), fe_mul(a.z, m))

\* rr2 / m2 is the other slope
Chosen(a, b, t, m, rr, rr2, m2) ==
    LET degenerate == IsZero(m) /\ IsZero(rr)
    IN  With(fe_cmov(m2, m, ~degenerate), LAMBDA m_alt :
             Placed(a, b, t, fe_cmov(rr2, rr, ~degenerate), m_alt,
                    fe_cmov(fe_sqr(fe_sqr(m_alt)), m, degenerate), fe_mul(a.z, m_alt)))

Slope(a, b, u1, u2, s1, s2, nu2) ==
    Chosen(a, b, fe_add(u1, u2), fe_add(s1, s2),
           fe_add(fe_sqr(fe_add(u1, u2)), fe_mul(u1, nu2)),
           fe_mul_int(s1, 2), fe_add(nu2, u1))

\* the addition without branches, for b not infinity: one formula for sums and
\* doubles, another slope where y1 = -y2 and x1^3 = x2^3, and conditional moves
gej_add_ge(a, b) ==
    With(fe_sqr(a.z), LAMBDA zz :
         Slope(a, b, fe_normalize(a.x), fe_mul(b.x, zz), fe_normalize(a.y),
               fe_mul(fe_mul(b.y, zz), a.z), fe_negate(fe_mul(b.x, zz), 1)))

gej_rescale(r, s) ==
    LET zz == fe_sqr(s)
    IN  [r EXCEPT !.x = fe_mul(@, zz), !.y = fe_mul(fe_mul(@, zz), s), !.z = fe_mul(@, s)]

\* a storage holds the two normalized coordinates
ge_to_storage(a)   == <<fe_normalize(a.x).v, fe_normalize(a.y).v>>
ge_from_storage(s) == ge_set_xy(fe_set_int(s[1]), fe_set_int(s[2]))
ge_storage_cmov(r, a, flag) == IF flag THEN a ELSE r

ge_mul_lambda(a) == [a EXCEPT !.x = fe_mul(@, fe_set_int(Beta))]
=============================================================================
