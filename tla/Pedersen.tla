------------------------------- MODULE Pedersen -------------------------------
(***************************************************************************)
(* Generators and Pedersen commitments of secp256k1-zkp: the generator and *)
(* rangeproof modules' main_impl.h and pedersen_impl.h.  A caller makes or *)
(* parses a generator, commits to values with it, and closes the list of   *)
(* commitments with a blinding factor for which they sum to nothing.  Both *)
(* objects are 33 bytes: a first byte and an x coordinate.                 *)
(***************************************************************************)
EXTENDS Ecdsa, SequencesExt

CONSTANTS HashValues,  \* bound: what SHA-256 gives for a key, 32 bytes, not zero
          ParsedX,     \* bound: x coordinates of objects that are parsed
          CommitKeys,  \* bound: keys (pairs of hash values) with which values are committed
          Blinds,      \* bound: blinding factors, 32 bytes
          Values,      \* bound: amounts, far below the order
          MaxItems     \* bound: commitments in the list

VARIABLES gen,    \* the generator
          hgen,   \* how it was made: [key, blind], blind is NotGiven for none
          items,  \* the list: [neg, blind, value, gen, hgen, commit]
          closed, \* the last item was made to balance: how, or "no"
          gone    \* an internal check failed: the process ended

pedVars == <<gen, hgen, items, closed, gone>>

Object(tag, x) == [tag |-> tag, x |-> x]
NoGen    == Object(0, 0)
Unknown  == [key |-> <<>>, blind |-> NotGiven]

PedInit == gen = NoGen /\ hgen = Unknown /\ items = <<>> /\ closed = "no" /\ gone = FALSE

-----------------------------------------------------------------------------
(* Generators.  The first byte is 10 if y is a square, else 11.            *)

\* load and save are the same for generators and for commitments (8 or 9)
object_load(o) ==
    With(ge_set_xquad(fe_set_int(o.x)).ge, LAMBDA ge : IF o.tag % 2 = 1 THEN ge_neg(ge) ELSE ge)
object_save(high, ge) ==
    Object(IF fe_is_quad_var(ge.y) THEN high - 1 ELSE high, fe_normalize(ge.x).v)

generator_load(o)  == object_load(o)
generator_save(ge) == object_save(11, ge)

\* only the first byte is looked at
Parses(tag, high) == tag \in {high - 1, high}

\* the first of three candidates for x that has a y, with the sign that t says
Candidate(x, root) == [x |-> x, ok |-> root.ok, y |-> root.r]
Candidates(x) == Candidate(x, fe_sqrt(fe_add(fe_mul(fe_sqr(x), x), fe_set_int(CURVE_B))))
WithSign(y, t) == fe_cmov(y, fe_negate(y, 1), t.v % 2 = 1)
\* Mutant: the third candidate replaces the first where the second has no y.
SelectedThird(a, b, c, t) ==
    ge_set_xy(fe_cmov(fe_cmov(a.x, b.x, ~a.ok /\ b.ok), c.x, ~b.ok),
              WithSign(fe_cmov(fe_cmov(a.y, b.y, ~a.ok /\ b.ok), c.y, ~b.ok), t))
Selected(a, b, c, t) ==
    ge_set_xy(fe_cmov(fe_cmov(a.x, b.x, ~a.ok /\ b.ok), c.x, ~a.ok /\ ~b.ok),
              WithSign(fe_cmov(fe_cmov(a.y, b.y, ~a.ok /\ b.ok), c.y, ~a.ok /\ ~b.ok), t))

\* the three quotients, with one inversion of the product of their denominators
Quotients(t, wd, x1n, x3d, jinv) ==
    Selected(Candidates(fe_mul(fe_mul(x1n, x3d), jinv)),
             Candidates(fe_mul(fe_mul(fe_negate(fe_add(x1n, wd), 5), x3d), jinv)),
             Candidates(fe_mul(fe_mul(fe_add(fe_sqr(wd), x3d), wd), jinv)), t)

\* c and d: the square root of -3, and (c - 1) / 2
SvdwC == fe_set_int(Roots[(-3) % Q])
SvdwD == fe_set_int((Roots[(-3) % Q] - 1) * Inverses[2])

\* a point of the curve from a field element that is not zero
shallue_van_de_woestijne(t) ==
    With(fe_mul(SvdwC, t), LAMBDA wn :
    With(fe_add(fe_sqr(t), fe_set_int(CURVE_B + 1)), LAMBDA wd :
    With(fe_sqr(wn), LAMBDA x3d :
        Quotients(t, wd, fe_add(fe_mul(SvdwD, wd), fe_negate(fe_mul(t, wn), 1)), x3d,
                  fe_inv(fe_mul(x3d, wd))))))

HashedTo(h) == shallue_van_de_woestijne(fe_set_int(h))
BlindPoint(P) == IF P = NoPoint THEN gej_set_infinity ELSE gej_set_ge(ge_from_storage(P))

\* the sum of two points that are hashed to and, if given, of blind * G
generator_point(key, blind) ==
    gej_add_ge(IF blind = NotGiven THEN gej_set_ge(HashedTo(key[1]))
               ELSE gej_add_ge(BlindPoint(Multiple[scalar_set_b32(blind).v]), HashedTo(key[1])),
               HashedTo(key[2]))

\* The checks end the process: a blinding factor or a hash that is out of range.
generator_generate_internal(key, blind) ==
    /\ ~gone /\ items = <<>>
    /\ IF (blind # NotGiven /\ blind >= Order) \/ key[1] >= Q \/ key[2] >= Q
       THEN gone' = TRUE /\ UNCHANGED <<gen, hgen, items, closed>>
       ELSE /\ gen' = generator_save(ge_set_gej(generator_point(key, blind)))
            /\ hgen' = [key |-> key, blind |-> blind]
            /\ UNCHANGED <<items, closed, gone>>

\* serializing and parsing copy the bytes
generator_parse(tag, x) ==
    /\ ~gone /\ items = <<>>
    /\ gen' = IF Parses(tag, 11) THEN Object(tag, x) ELSE gen
    /\ hgen' = IF Parses(tag, 11) THEN Unknown ELSE hgen
    /\ UNCHANGED <<items, closed, gone>>

-----------------------------------------------------------------------------
(* Commitments.                                                            *)

commitment_load(o)  == object_load(o)
commitment_save(ge) == object_save(9, ge)

Finite(P) == ge_set_xy(fe_set_int(P[1]), fe_set_int(P[2]))
Times(k, P) == LET mul[i \in 0 .. k] == IF i = 0 THEN NoPoint ELSE AffineAdd(mul[i - 1], P)
               IN  mul[k]
pedersen_ecmult(sec, value, genp) == AffineAdd(Multiple[sec], Times(value, PointOf(genp)))

pedersen_commit(blind, value, g) ==
    With(scalar_set_b32(blind), LAMBDA sec :
    With(pedersen_ecmult(sec.v, value, generator_load(g)), LAMBDA r :
        IF sec.overflow \/ r = NoPoint THEN [ok |-> FALSE]
        ELSE [ok |-> TRUE, commit |-> commitment_save(Finite(r))]))

\* Mutant: the last positive factor counts as negative.
pedersen_blind_sumOneLess(blinds, npositive) ==
    LET sum[i \in 0 .. Len(blinds)] ==
            IF i = 0 THEN 0
            ELSE With(scalar_set_b32(blinds[i]).v, LAMBDA x :
                   (sum[i - 1] + (IF i >= npositive THEN scalar_negate(x) ELSE x)) % Order)
    IN  IF \E i \in DOMAIN blinds : scalar_set_b32(blinds[i]).overflow THEN [ok |-> FALSE]
        ELSE [ok |-> TRUE, blind |-> sum[Len(blinds)]]

\* the first npositive factors count as positive, the others as negative
pedersen_blind_sum(blinds, npositive) ==
    LET sum[i \in 0 .. Len(blinds)] ==
            IF i = 0 THEN 0
            ELSE With(scalar_set_b32(blinds[i]).v, LAMBDA x :
                   (sum[i - 1] + (IF i > npositive THEN scalar_negate(x) ELSE x)) % Order)
    IN  IF \E i \in DOMAIN blinds : scalar_set_b32(blinds[i]).overflow THEN [ok |-> FALSE]
        ELSE [ok |-> TRUE, blind |-> sum[Len(blinds)]]

\* the negative ones are summed first, and the sum is negated
Accumulated(start, list) ==
    LET acc[i \in 0 .. Len(list)] ==
            IF i = 0 THEN start ELSE gej_add_ge_var(acc[i - 1], commitment_load(list[i])).r
    IN  acc[Len(list)]
Tally(commits, ncommits) == Accumulated(gej_neg(Accumulated(gej_set_infinity, ncommits)), commits)

pedersen_commit_sum(commits, ncommits) ==
    With(Tally(commits, ncommits), LAMBDA accj :
        IF accj.infinity THEN [ok |-> FALSE]
        ELSE [ok |-> TRUE, commit |-> commitment_save(ge_set_gej(accj))])

pedersen_verify_tally(commits, ncommits) == Tally(commits, ncommits).infinity

\* the blinding factor of the last of n_total, of which the first n_inputs are
\* inputs, so that the factors of the generators cancel too
Addend(value, gblind, blind) ==
    (value * scalar_set_b32(gblind).v + scalar_set_b32(blind).v) % Order
pedersen_blind_generator_blind_sum(value, generator_blind, blinding_factor, n_inputs) ==
    LET sum[i \in 0 .. Len(value)] ==
            IF i = 0 THEN 0
            ELSE With(Addend(value[i], generator_blind[i], blinding_factor[i]), LAMBDA a :
                   (sum[i - 1] + (IF i <= n_inputs THEN scalar_negate(a) ELSE a)) % Order)
    IN  IF \E i \in DOMAIN value : scalar_set_b32(generator_blind[i]).overflow
                                   \/ scalar_set_b32(blinding_factor[i]).overflow
        THEN [ok |-> FALSE]
        ELSE [ok |-> TRUE, blind |-> (scalar_set_b32(Last(blinding_factor)).v
                                      + scalar_negate(sum[Len(value)])) % Order]

-----------------------------------------------------------------------------
(* The caller's list.                                                      *)

Item(neg, blind, value) == [neg |-> neg, blind |-> blind, value |-> value,
                            gen |-> gen, hgen |-> hgen]

Of(list, neg) == SelectSeq(list, LAMBDA it : it.neg = neg)
Column(list, F(_)) == [i \in DOMAIN list |-> F(list[i])]
Commits(list, neg) == Column(Of(list, neg), LAMBDA it : it.commit)
GenBlind(it) == IF it.hgen.blind = NotGiven THEN 0 ELSE it.hgen.blind

\* the list with one more commitment, if the library makes it
Listed(neg, blind, value, r) ==
    /\ r.ok
    /\ items' = Append(items, [commit |-> r.commit] @@ Item(neg, blind, value))

Commit(neg, blind, value) ==
    /\ ~gone /\ closed = "no" /\ hgen.key \in CommitKeys /\ Len(items) < MaxItems
    /\ \E r \in {pedersen_commit(blind, value, gen)} : Listed(neg, blind, value, r)
    /\ UNCHANGED <<gen, hgen, closed, gone>>

\* another blinding of the same generator is used from now on
Reblind(blind) ==
    /\ ~gone /\ closed = "no" /\ items # <<>>
    /\ hgen' = [hgen EXCEPT !.blind = blind]
    /\ gen' = generator_save(ge_set_gej(generator_point(hgen.key, blind)))
    /\ UNCHANGED <<items, closed, gone>>

\* a last commitment, on the negative side, with the sum of all blinding factors
CloseWithSum(value) ==
    /\ ~gone /\ closed = "no" /\ items # <<>>
    /\ \E sum \in {pedersen_blind_sum(Column(Of(items, FALSE) \o Of(items, TRUE), LAMBDA it : it.blind),
                                       Len(Of(items, FALSE)))} :
         /\ sum.ok
         /\ \E r \in {pedersen_commit(sum.blind, value, gen)} : Listed(TRUE, sum.blind, value, r)
    /\ closed' = "sum"
    /\ UNCHANGED <<gen, hgen, gone>>

\* inputs are the negative side; the last output's blinding factor is replaced
CloseWithGenerators(blind, value) ==
    /\ ~gone /\ closed = "no" /\ items # <<>>
    /\ \E list \in {Of(items, TRUE) \o Of(items, FALSE) \o <<Item(FALSE, blind, value)>>} :
       \E sum \in {pedersen_blind_generator_blind_sum(
                       Column(list, LAMBDA it : it.value), Column(list, GenBlind),
                       Column(list, LAMBDA it : it.blind), Len(Of(items, TRUE)))} :
         /\ sum.ok
         /\ \E r \in {pedersen_commit(sum.blind, value, gen)} : Listed(FALSE, sum.blind, value, r)
    /\ closed' = "generators"
    /\ UNCHANGED <<gen, hgen, gone>>

PedNext ==
    \/ \E h1, h2 \in HashValues, b \in {NotGiven, Order} : generator_generate_internal(<<h1, h2>>, b)
    \/ \E key \in CommitKeys, b \in Blinds : generator_generate_internal(key, b)
    \/ \E tag \in {8, 10, 11}, x \in ParsedX : generator_parse(tag, x)
    \/ \E neg \in BOOLEAN, b \in Blinds, v \in Values : Commit(neg, b, v)
    \/ \E b \in Blinds : b < Order /\ Reblind(b)
    \/ \E v \in Values : CloseWithSum(v) \/ \E b \in Blinds : CloseWithGenerators(b, v)
    \/ (gone \/ closed # "no") /\ UNCHANGED pedVars

-----------------------------------------------------------------------------
(* A generator that is made is a point of the curve, the sum of the two    *)
(* points its key is hashed to and of its blinding, and its bytes load as  *)
(* the same point.  Where that sum is the point at infinity, which is not  *)
(* looked for, the bytes are those of x = 0 and load as no point of the    *)
(* curve.  The hash of -t is the opposite point, as the code's comment     *)
(* asks for.  No field operation leaves its magnitudes.                    *)
GeneratorsValid ==
    hgen.key # <<>> =>
        \A P \in {HashedTo(hgen.key[1])}, R \in {HashedTo(hgen.key[2])} :
            /\ \A S \in {P, R} : PointOf(S) \in DOMAIN LogOf /\ S.x.m # Over /\ S.y.m # Over
            /\ PointOf(HashedTo((-hgen.key[1]) % Q)) = <<P.x.v, (-P.y.v) % Q>>
            /\ \A all \in {AffineAdd(Multiple[IF hgen.blind = NotGiven THEN 0 ELSE hgen.blind],
                                      AffineAdd(PointOf(P), PointOf(R)))} :
                 IF all # NoPoint THEN PointOf(generator_load(gen)) = all
                 ELSE gen = Object(10, 0) /\ PointOf(generator_load(gen)) \notin DOMAIN LogOf

(* The commitments of a list sum to nothing exactly if their blinding      *)
(* factors and values, multiplied out, do; otherwise the sum is saved as a *)
(* commitment to what is left.  A list closed with blind_sum balances if   *)
(* its values do, whatever the signs, repetitions and points at infinity   *)
(* on the way; so does one closed with blind_generator_blind_sum when each *)
(* generator was blinded with a factor of its own.                         *)
TallyBalances ==
    LET Sum(F(_)) == FoldLeft(LAMBDA s, it : s + (IF it.neg THEN -1 ELSE 1) * F(it), 0, items) % Order
    IN  \A pos \in {Commits(items, FALSE)}, neg \in {Commits(items, TRUE)},
           values \in {Sum(LAMBDA it : it.value)},
           log \in {Sum(LAMBDA it : it.blind + it.value * LogOf[PointOf(generator_load(it.gen))])} :
        /\ pedersen_verify_tally(pos, neg) = (log = 0)
        /\ \A sum \in {pedersen_commit_sum(pos, neg)} :
             /\ sum.ok = (log # 0)
             /\ sum.ok => PointOf(commitment_load(sum.commit)) = Multiple[log]
        /\ (closed = "generators" /\ values = 0) => log = 0
        /\ (closed = "sum" /\ values = 0 /\ \A i \in DOMAIN items : items[i].gen = gen) => log = 0
=============================================================================
