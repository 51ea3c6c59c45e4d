-------------------------------- MODULE Ecmult --------------------------------
(***************************************************************************)
(* The point multiplications of secp256k1-zkp: tables of odd multiples and *)
(* na * A + ng * G (ecmult_impl.h), the constant-time multiple of one      *)
(* point (ecmult_const_impl.h), and the blinded multiple of the generator  *)
(* with its context (ecmult_gen_impl.h).  The loops run one iteration per  *)
(* step; a build with the endomorphism splits its scalars first.           *)
(***************************************************************************)
EXTENDS GroupCalls, FiniteSets, SequencesExt

CONSTANTS Limb, Bits, NC,     \* the scalars, see Scalar
          Lattice,            \* constants of scalar_split_lambda
          WINDOW_A, WINDOW_G, \* window sizes, 5 and 15 or 16
          GenBits,            \* bits per table of ecmult_gen, 4
          NumsLog,            \* the point "with no known scalar"
          Scalars, Logs,      \* bound: scalars and points that are tried
          ConstScalars,       \* bound: scalars of ecmult_const
          MaxMults            \* bound: multiplications and blindings

S == INSTANCE Wnaf

ScalarOf(v) == S!LimbsOf(v, Bits, Limb)
ConstantsOf == [f \in DOMAIN Lattice |->
                  IF f = "shift" THEN Lattice[f] ELSE ScalarOf(Lattice[f])]
HalfWidth == S!Half * Bits  \* 128

ECMULT_TABLE_SIZE(w) == 2^(w - 2)

\* a, 3a, 5a, ... with the ratios of their z coordinates, added up where 2a is
\* affine: its z is dropped, and only the last z of the table is put right
OddMultiples(n, a, d, age) ==
    LET tab[i \in 1 .. n] ==
            IF i = 1 THEN [r   |-> [x |-> age.x, y |-> age.y, z |-> a.z, infinity |-> FALSE],
                           rzr |-> d.z]
            ELSE gej_add_ge_var(tab[i - 1].r, ge_set_xy(d.x, d.y))
    IN  [i \in 1 .. n |-> IF i = n THEN [tab[n] EXCEPT !.r.z = fe_mul(@, d.z)] ELSE tab[i]]

ecmult_odd_multiples_table(n, a) ==
    With(gej_double_var(a).r, LAMBDA d : OddMultiples(n, a, d, ge_set_gej_zinv(a, d.z)))

Prej(tab) == [i \in DOMAIN tab |-> tab[i].r]
Zr(tab)   == [i \in DOMAIN tab |-> tab[i].rzr]

ecmult_odd_multiples_table_globalz_windowa(a) ==
    With(ecmult_odd_multiples_table(ECMULT_TABLE_SIZE(WINDOW_A), a),
         LAMBDA tab : ge_globalz_set_table_gej(Prej(tab), Zr(tab)))

ecmult_odd_multiples_table_storage_var(n, a) ==
    With(ecmult_odd_multiples_table(n, a), LAMBDA tab :
         With(ge_set_table_gej_var(Prej(tab), Zr(tab)), LAMBDA prea :
              [i \in 1 .. n |-> ge_to_storage(prea[i])]))

ECMULT_TABLE_GET_GE(pre, n) ==
    IF n > 0 THEN pre[(n - 1) \div 2 + 1] ELSE ge_neg(pre[(-n - 1) \div 2 + 1])

ECMULT_TABLE_GET_GE_STORAGE(pre, n) ==
    IF n > 0 THEN ge_from_storage(pre[(n - 1) \div 2 + 1])
    ELSE ge_neg(ge_from_storage(pre[(-n - 1) \div 2 + 1]))

\* every entry is looked at, and y is negated in all cases
ECMULT_CONST_TABLE_GET_GE(pre, n) ==
    LET abs == IF n > 0 THEN n ELSE -n
        e   == pre[abs \div 2 + 1]
        x   == fe_cmov(fe_clear, e.x, TRUE)
        y   == fe_cmov(fe_clear, e.y, TRUE)
    IN  ge_set_xy(x, fe_cmov(y, fe_negate(y, 1), n # abs))

VARIABLES endo,   \* built with USE_ENDOMORPHISM
          pre_g, pre_g_128,  \* the context's tables, or <<>>
          gen,    \* the context of ecmult_gen
          calc,   \* the multiplication that runs
          mults   \* number of multiplications and blindings so far

multVars == <<endo, pre_g, pre_g_128, gen, calc, mults>>

Idle == [kind |-> "none", r |-> gej_set_infinity, i |-> 0, terms |-> <<>>,
         skew |-> <<>>, a |-> ge_clear, want |-> 0, Z |-> fe_clear]
NoGen == [prec |-> <<>>, blind |-> 0, initial |-> gej_set_infinity]

MultInit ==
    /\ endo \in BOOLEAN
    /\ pre_g = <<>> /\ pre_g_128 = <<>>
    /\ gen = NoGen
    /\ calc = Idle
    /\ mults = 0

PointAt(k) == ge_from_storage(Multiple[k])

\* n doublings
Doubled(a, n) ==
    LET d[k \in 0 .. n] == IF k = 0 THEN a ELSE gej_double_var(d[k - 1]).r IN d[n]

ecmult_context_build ==
    /\ calc.kind = "none" /\ pre_g = <<>>
    /\ LET gj == gej_set_ge(ge_const_g)
           n  == ECMULT_TABLE_SIZE(WINDOW_G)
       IN  /\ pre_g' = ecmult_odd_multiples_table_storage_var(n, gj)
           /\ pre_g_128' = IF endo
                           THEN ecmult_odd_multiples_table_storage_var(n, Doubled(gj, HalfWidth))
                           ELSE <<>>
    /\ UNCHANGED <<endo, gen, calc, mults>>

\* one scalar of a multiplication: its recoding, its table, and whether the table
\* is the generator's
Term(pre, wnaf, g) == [pre |-> pre, wnaf |-> wnaf, g |-> g]
Lambdas(pre) == [i \in DOMAIN pre |-> ge_mul_lambda(pre[i])]

EndoTerms(pre, sna, sng) ==
    <<Term(pre, S!ecmult_wnaf(sna.r1, HalfWidth + 2, WINDOW_A), FALSE),
      Term(Lambdas(pre), S!ecmult_wnaf(sna.r2, HalfWidth + 2, WINDOW_A), FALSE),
      Term(pre_g, S!ecmult_wnaf(sng.lo, HalfWidth + 1, WINDOW_G), TRUE),
      Term(pre_g_128, S!ecmult_wnaf(sng.hi, HalfWidth + 1, WINDOW_G), TRUE)>>

ecmult_terms(pre, na, ng) ==
    IF endo THEN EndoTerms(pre, S!scalar_split_lambda(ScalarOf(na), ConstantsOf),
                           S!scalar_split_128(ScalarOf(ng)))
    ELSE <<Term(pre, S!ecmult_wnaf(ScalarOf(na), S!Width, WINDOW_A), FALSE),
           Term(pre_g, S!ecmult_wnaf(ScalarOf(ng), S!Width, WINDOW_G), TRUE)>>

\* the iterations: the entries of the longest recoding
BitsOf(terms) ==
    CHOOSE m \in 0 .. S!Width :
        /\ \A t \in DOMAIN terms : terms[t].wnaf.set <= m
        /\ m = 0 \/ \E t \in DOMAIN terms : terms[t].wnaf.set = m

ecmult_begin ==
    /\ calc.kind = "none" /\ mults < MaxMults /\ pre_g # <<>>
    /\ \E k \in Logs, z \in Scales :
         \E tab \in {ecmult_odd_multiples_table_globalz_windowa(
                        gej_rescale(gej_set_ge(PointAt(k)), fe_set_int(z)))},
            na \in Scalars, ng \in Scalars :
           \E terms \in {ecmult_terms(tab.pre, na, ng)} :
              calc' = [Idle EXCEPT !.kind = "ecmult", !.i = BitsOf(terms), !.terms = terms,
                                   !.Z = tab.globalz, !.want = (na * k + ng) % Order]
    /\ mults' = mults + 1
    /\ UNCHANGED <<endo, pre_g, pre_g_128, gen>>

AddTerm(r, t, i, Z) ==
    LET d == {e \in t.wnaf.digits : e[1] = i}
        n == (CHOOSE e \in d : TRUE)[2]
    IN  IF d = {} THEN r
        ELSE IF t.g THEN gej_add_zinv_var(r, ECMULT_TABLE_GET_GE_STORAGE(t.pre, n), Z)
        ELSE gej_add_ge_var(r, ECMULT_TABLE_GET_GE(t.pre, n)).r

ecmult_iterate ==
    /\ calc.kind = "ecmult" /\ calc.i > 0
    /\ calc' = [calc EXCEPT
         !.i = @ - 1,
         !.r = FoldLeft(LAMBDA r, t : AddTerm(r, t, calc.i - 1, calc.Z),
                        gej_double_var(@).r, calc.terms)]
    /\ UNCHANGED <<endo, pre_g, pre_g_128, gen, mults>>

\* Mutant: the result stays on the curve of the table.
ecmult_endNoZ ==
    /\ calc.kind = "ecmult" /\ calc.i = 0
    /\ calc' = [calc EXCEPT !.kind = "done"]
    /\ UNCHANGED <<endo, pre_g, pre_g_128, gen, mults>>

ecmult_end ==
    /\ calc.kind = "ecmult" /\ calc.i = 0
    /\ calc' = [calc EXCEPT !.kind = "done",
                            !.r.z = IF calc.r.infinity THEN @ ELSE fe_mul(@, calc.Z)]
    /\ UNCHANGED <<endo, pre_g, pre_g_128, gen, mults>>

\* the first digits of a constant-time multiplication set r, so that it never
\* starts at infinity; the skews say what is to be taken off at the end
ConstSize(size) == IF endo /\ size > HalfWidth THEN HalfWidth ELSE size

ecmult_const_terms(pre, v, size) ==
    IF endo /\ size > HalfWidth
    THEN With(S!scalar_split_lambda(ScalarOf(v), ConstantsOf), LAMBDA q :
           <<Term(pre, S!wnaf_const(q.r1, WINDOW_A - 1, HalfWidth, TRUE), FALSE),
             Term(Lambdas(pre), S!wnaf_const(q.r2, WINDOW_A - 1, HalfWidth, TRUE), FALSE)>>)
    ELSE <<Term(pre, S!wnaf_const(ScalarOf(v), WINDOW_A - 1, size, size = S!Width), FALSE)>>

ecmult_const_first(terms, top) ==
    LET first(t) == ECMULT_CONST_TABLE_GET_GE(terms[t].pre, terms[t].wnaf.wnaf[top])
        r        == gej_set_ge(first(1))
    IN  IF Len(terms) = 2 THEN gej_add_ge(r, first(2)) ELSE r

ecmult_const_begin ==
    /\ calc.kind = "none" /\ mults < MaxMults
    /\ \E k \in Logs :
         \E tab \in {ecmult_odd_multiples_table_globalz_windowa(gej_set_ge(PointAt(k)))} :
           \E pre \in {[i \in DOMAIN tab.pre |-> [tab.pre[i] EXCEPT !.y = fe_normalize(@)]]},
              v \in ConstScalars, size \in {HalfWidth, S!Width} :
             /\ v < 2^size
             /\ \E terms \in {ecmult_const_terms(pre, v, size)},
                   top \in {S!WNAF_SIZE(ConstSize(size), WINDOW_A - 1)} :
                  calc' = [Idle EXCEPT !.kind = "const", !.i = top, !.terms = terms,
                             !.Z = tab.globalz, !.a = PointAt(k), !.want = (v * k) % Order,
                             !.r = ecmult_const_first(terms, top)]
    /\ mults' = mults + 1
    /\ UNCHANGED <<endo, pre_g, pre_g_128, gen>>

\* n doublings of a point that is not infinity
DoubledNonzero(a, n) ==
    LET d[k \in 0 .. n] == IF k = 0 THEN a ELSE gej_double_nonzero(d[k - 1]).r IN d[n]

ecmult_const_iterate ==
    /\ calc.kind = "const" /\ calc.i > 0
    /\ calc' = [calc EXCEPT
         !.i = @ - 1,
         !.r = FoldLeft(LAMBDA r, t : gej_add_ge(r,
                          ECMULT_CONST_TABLE_GET_GE(t.pre, t.wnaf.wnaf[calc.i - 1])),
                        DoubledNonzero(@, WINDOW_A - 1), calc.terms)]
    /\ UNCHANGED <<endo, pre_g, pre_g_128, gen, mults>>

\* the global z, and the skew: a or 2a, for the part with lambda too
ecmult_const_end ==
    LET a2 == ge_to_storage(ge_set_gej(gej_double_var(gej_set_ge(calc.a)).r))
        correction(t) ==
            LET c == ge_neg(ge_from_storage(
                       ge_storage_cmov(ge_to_storage(calc.a), a2, calc.terms[t].wnaf.skew = 2)))
            IN  IF t = 2 THEN ge_mul_lambda(c) ELSE c
        r == [calc.r EXCEPT !.z = fe_mul(@, calc.Z)]
    IN  /\ calc.kind = "const" /\ calc.i = 0
        /\ calc' = [calc EXCEPT !.kind = "done",
                      !.r = FoldLeft(LAMBDA x, t : gej_add_ge(x, correction(t)), r,
                                     [t \in DOMAIN calc.terms |-> t])]
        /\ UNCHANGED <<endo, pre_g, pre_g_128, gen, mults>>

\* prec[j][i] = 2^(GenBits * j) * i * G + U_j, where the U_j are multiples of a
\* point nobody knows the scalar of, and add up to nothing
GenRows == S!Width \div GenBits
GenTable ==
    LET gj   == gej_set_ge(ge_const_g)
        nums == gej_add_ge_var(gej_set_ge(PointAt(NumsLog)), ge_const_g).r
        base[j_ \in 0 .. GenRows] == IF j_ = 0 THEN gj ELSE Doubled(base[j_ - 1], GenBits)
        u[j_ \in 0 .. GenRows] ==
            LET next == gej_double_var(u[j_ - 1]).r
            IN  IF j_ = 0 THEN nums
                ELSE IF j_ - 1 = GenRows - 2 THEN gej_add_var(gej_neg(next), nums).r
                ELSE next
        row(j_) ==
            LET e[i \in 0 .. 2^GenBits - 1] ==
                    IF i = 0 THEN u[j_] ELSE gej_add_var(e[i - 1], base[j_]).r
            IN  [i \in 1 .. 2^GenBits |-> e[i - 1]]
    IN  With(ge_set_all_gej_var(FlattenSeq([j_ \in 1 .. GenRows |-> row(j_ - 1)])), LAMBDA all :
          [j_ \in 0 .. GenRows - 1 |->
            [i \in 0 .. 2^GenBits - 1 |-> ge_to_storage(all[2^GenBits * j_ + i + 1])]])

\* (gn + blind) * G, from -blind * G on; one row of the table for each GenBits bits
ecmult_gen(ctx, gn) ==
    LET Sum(gnb) ==
            LET sum[k \in 0 .. GenRows] ==
                    IF k = 0 THEN ctx.initial
                    ELSE gej_add_ge(sum[k - 1], ge_from_storage(
                           ctx.prec[k - 1][S!scalar_get_bits(gnb, (k - 1) * GenBits, GenBits)]))
            IN  sum[GenRows]
    IN  Sum(S!scalar_add(ScalarOf(gn), ScalarOf(ctx.blind)).d)

\* Mutant: the blinding value is not negated.
ecmult_gen_blindSameSign(ctx, seeded, s, b) ==
    LET base == IF seeded THEN ctx
                ELSE [ctx EXCEPT !.initial = gej_neg(gej_set_ge(ge_const_g)), !.blind = 1]
    IN  With([base EXCEPT !.initial = gej_rescale(@, fe_set_int(s))], LAMBDA from :
             [from EXCEPT !.blind = b, !.initial = ecmult_gen(from, b)])

\* Without a seed, blind is 1 and initial -G before they are chained forward.  s
\* and b are what the generator of nonces gives, retried until they are in range.
ecmult_gen_blind(ctx, seeded, s, b) ==
    LET base == IF seeded THEN ctx
                ELSE [ctx EXCEPT !.initial = gej_neg(gej_set_ge(ge_const_g)), !.blind = 1]
    IN  With([base EXCEPT !.initial = gej_rescale(@, fe_set_int(s))], LAMBDA from :
             [from EXCEPT !.blind = (Order - b) % Order, !.initial = ecmult_gen(from, b)])

ecmult_gen_context_build ==
    /\ calc.kind = "none" /\ gen.prec = <<>>
    /\ \E new \in {[NoGen EXCEPT !.prec = GenTable]}, s \in Scales, b \in Scalars \ {0} :
         gen' = ecmult_gen_blind(new, FALSE, s, b)
    /\ UNCHANGED <<endo, pre_g, pre_g_128, calc, mults>>

ecmult_gen_randomize ==
    /\ calc.kind = "none" /\ gen.prec # <<>> /\ mults < MaxMults
    /\ \E seeded \in BOOLEAN, s \in Scales, b \in Scalars \ {0} :
         gen' = ecmult_gen_blind(gen, seeded, s, b)
    /\ mults' = mults + 1
    /\ UNCHANGED <<endo, pre_g, pre_g_128, calc>>

\* both contexts are cleared; tables, blinding value and initial point are gone
context_clear ==
    /\ calc.kind = "none" /\ mults = MaxMults
    /\ gen.prec # <<>> \/ pre_g # <<>>
    /\ pre_g' = <<>> /\ pre_g_128' = <<>>
    /\ gen' = NoGen
    /\ UNCHANGED <<endo, calc, mults>>

MultReturn ==
    /\ calc.kind = "done"
    /\ calc' = Idle
    /\ UNCHANGED <<endo, pre_g, pre_g_128, gen, mults>>

MultDone == calc.kind = "none" /\ mults = MaxMults /\ UNCHANGED multVars

MultNext ==
    \/ ecmult_context_build \/ ecmult_begin \/ ecmult_iterate \/ ecmult_end
    \/ ecmult_const_begin \/ ecmult_const_iterate \/ ecmult_const_end
    \/ ecmult_gen_context_build \/ ecmult_gen_randomize \/ context_clear
    \/ MultReturn \/ MultDone

-----------------------------------------------------------------------------
(* ecmult and ecmult_const return na * A + ng * G and v * A: the tables on  *)
(* another curve than the points, the correction by the global z, the       *)
(* splits of the scalars and the skew of the recoding cancel out.           *)
ProductRight == calc.kind = "done" => AffineOf(calc.r) = Multiple[calc.want]

(* The tables hold what their readers index: odd multiples of G and of      *)
(* 2^128 * G, none of them infinity.                                        *)
TablesRight ==
    /\ \A i \in DOMAIN pre_g : pre_g[i] = Multiple[(2 * i - 1) % Order]
    /\ \A i \in DOMAIN pre_g_128 :
         pre_g_128[i] = Multiple[((2 * i - 1) * 2^HalfWidth) % Order]

(* ecmult_gen gives gn * G under every blinding value, however often the    *)
(* context was blinded anew, with a seed or reset.                          *)
BlindingCancels ==
    gen.prec # <<>> => \A v \in Scalars : AffineOf(ecmult_gen(gen, v)) = Multiple[v % Order]

(* The constant-time loop never doubles infinity, which gej_double_nonzero  *)
(* forbids: not even where the parts with and without lambda are added, for *)
(* no prefix of the two recodings is a vector of the lattice.  No magnitude *)
(* exceeds a precondition on the way.                                       *)
ConstNeverInfinity ==
    /\ calc.kind = "const" => ~calc.r.infinity
    /\ Over \notin {calc.r.x.m, calc.r.y.m, calc.r.z.m}
=============================================================================
