------------------------------ MODULE FieldCalls ------------------------------
(***************************************************************************)
(* A caller of the field code of secp256k1-zkp: two elements and any       *)
(* sequence of calls that respects the preconditions a VERIFY build        *)
(* asserts (magnitudes, normalized arguments), under either of the two     *)
(* representations a build may select.  va and vb are the residues modulo  *)
(* p that arithmetic says the two elements stand for.                      *)
(***************************************************************************)
EXTENDS Limbs

CONSTANTS Limb10, Base10, Top10, Word10, C0, C1, MaxMag10, MulMag10,
          Base5, Top5, Word5, C, MaxMag5, MulMag5,
          Loads10, Loads5,  \* the numbers a caller reads from 32 bytes
          Factors,          \* the arguments of fe_mul_int
          MaxCalls          \* bound: calls after the first load

F10 == INSTANCE Field10x26 WITH Limb <- Limb10, Base <- Base10, Top <- Top10,
                                Word <- Word10, MaxMag <- MaxMag10,
                                MulMag <- MulMag10, Chunk <- 1
F5  == INSTANCE Field5x52  WITH Base <- Base5, Top <- Top5, Word <- Word5,
                                MaxMag <- MaxMag5, MulMag <- MulMag5, Chunk <- 1

VARIABLES impl,     \* the representation the library was built with
          a, b,     \* two field elements
          va, vb,   \* the residues they stand for
          refused,  \* numbers that fe_set_b32 has refused
          calls     \* number of calls made

vars == <<impl, a, b, va, vb, refused, calls>>

Is10 == impl = "10x26"
Prime  == IF Is10 THEN F10!P ELSE F5!P
MagBound == IF Is10 THEN MaxMag10 ELSE MaxMag5
MulBound == IF Is10 THEN MulMag10 ELSE MulMag5
Loads  == IF Is10 THEN Loads10 ELSE Loads5

\* the 32 bytes of a number, as the bits the code reads
Bytes(v) ==
    [k \in (IF Is10 THEN F10!Chunks ELSE F5!Chunks) |-> (v \div 2^k) % 2]

Init ==
    /\ impl \in {"10x26", "5x52"}
    /\ a = IF Is10 THEN F10!fe_set_int(1) ELSE F5!fe_set_int(1)
    /\ b = a
    /\ va = 1 /\ vb = 1
    /\ refused = {}
    /\ calls = 0

\* one call that leaves a with the element fe, worth v
Result(fe, v) ==
    /\ calls < MaxCalls
    /\ calls' = calls + 1
    /\ a' = fe
    /\ va' = v % Prime
    /\ UNCHANGED <<impl, b, vb, refused>>

Load ==
    /\ calls = 0
    /\ calls' = 1
    /\ \E v \in Loads :
         LET r == IF Is10 THEN F10!fe_set_b32(Bytes(v)) ELSE F5!fe_set_b32(Bytes(v))
         IN  IF r.ok
             THEN a' = r.fe /\ va' = v /\ UNCHANGED refused
             ELSE refused' = {v} /\ UNCHANGED <<a, va>>
    /\ UNCHANGED <<impl, b, vb>>

Copy ==
    /\ calls < MaxCalls
    /\ calls' = calls + 1
    /\ b' = a /\ vb' = va
    /\ UNCHANGED <<impl, a, va, refused>>

Normalize     == Result(IF Is10 THEN F10!fe_normalize(a) ELSE F5!fe_normalize(a), va)
NormalizeVar  == Result(IF Is10 THEN F10!fe_normalize_var(a)
                                ELSE F5!fe_normalize_var(a), va)
NormalizeWeak == Result(IF Is10 THEN F10!fe_normalize_weak(a)
                                ELSE F5!fe_normalize_weak(a), va)

Negate ==
    /\ a.magnitude < MagBound
    /\ \E m \in {a.magnitude, MagBound - 1} :
         Result(IF Is10 THEN F10!fe_negate(a, m) ELSE F5!fe_negate(a, m), -va)

MulInt ==
    \E k \in Factors :
        /\ a.magnitude * k <= MagBound
        /\ Result(IF Is10 THEN F10!fe_mul_int(a, k) ELSE F5!fe_mul_int(a, k), k * va)

Add ==
    /\ a.magnitude + b.magnitude <= MagBound
    /\ Result(IF Is10 THEN F10!fe_add(a, b) ELSE F5!fe_add(a, b), va + vb)

Mul ==
    /\ a.magnitude <= MulBound /\ b.magnitude <= MulBound
    /\ Result(IF Is10 THEN F10!fe_mul(a, b) ELSE F5!fe_mul(a, b), MulMod(va, vb, Prime))

Sqr ==
    /\ a.magnitude <= MulBound
    /\ Result(IF Is10 THEN F10!fe_sqr(a) ELSE F5!fe_sqr(a), MulMod(va, va, Prime))

Cmov ==
    \E flag \in BOOLEAN :
        Result(IF Is10 THEN F10!fe_cmov(a, b, flag) ELSE F5!fe_cmov(a, b, flag),
               IF flag THEN vb ELSE va)

Clear == Result(IF Is10 THEN F10!fe_clear ELSE F5!fe_clear, 0)

Store ==
    /\ a.normalized
    /\ Result(IF Is10 THEN F10!fe_from_storage(F10!fe_to_storage(a))
                      ELSE F5!fe_from_storage(F5!fe_to_storage(a)), va)

\* the caller may stop at any time
Done == calls = MaxCalls /\ UNCHANGED vars

Next ==
    \/ Load \/ Copy \/ Normalize \/ NormalizeVar \/ NormalizeWeak \/ Negate
    \/ MulInt \/ Add \/ Mul \/ Sqr \/ Cmov \/ Clear \/ Store \/ Done

Spec == Init /\ [][Next]_vars

-----------------------------------------------------------------------------
Residue(x) == ResidueOf(x.n, IF Is10 THEN Base10 ELSE Base5, Prime)

(* The assertions of secp256k1_fe_verify hold after every sequence of calls *)
(* that respects the magnitudes: no limb outgrows the bound that the next   *)
(* call relies on, and a normalized element is the canonical one.           *)
MagnitudesHold ==
    IF Is10 THEN F10!fe_verify(a) /\ F10!fe_verify(b)
            ELSE F5!fe_verify(a) /\ F5!fe_verify(b)

(* No carry is lost: after any sequence of calls the limbs still stand for  *)
(* the residue that arithmetic gives, however the calls interleave lazy     *)
(* reductions, negations and products.                                      *)
ValueKept == Residue(a) = va /\ Residue(b) = vb

(* fe_normalize and fe_normalize_var agree and give the limbs of the        *)
(* residue, for every element a caller can hold.                            *)
CanonicalForm ==
    IF Is10
    THEN /\ F10!fe_normalize(a).n = LimbsOf(va, Base10, Limb10)
         /\ F10!fe_normalize_var(a) = F10!fe_normalize(a)
    ELSE /\ F5!fe_normalize(a).n = LimbsOf(va, Base5, 5)
         /\ F5!fe_normalize_var(a) = F5!fe_normalize(a)

(* The constant-time and the early-exit test for zero agree with the        *)
(* residue, whichever of 0, p and 2p the limbs hold, and so do equality,    *)
(* order and parity.                                                        *)
TestsAgree ==
    LET zero(x)  == IF Is10 THEN F10!fe_normalizes_to_zero(x)
                            ELSE F5!fe_normalizes_to_zero(x)
        zerov(x) == IF Is10 THEN F10!fe_normalizes_to_zero_var(x)
                            ELSE F5!fe_normalizes_to_zero_var(x)
        eq  == IF Is10 THEN F10!fe_equal(a, b) ELSE F5!fe_equal(a, b)
        eqv == IF Is10 THEN F10!fe_equal_var(a, b) ELSE F5!fe_equal_var(a, b)
        cmp == IF Is10 THEN F10!fe_cmp_var(a, b) ELSE F5!fe_cmp_var(a, b)
    IN  /\ zero(a) = (va = 0) /\ zerov(a) = (va = 0)
        /\ a.magnitude <= 1 /\ b.magnitude + 2 <= MagBound =>
             eq = (va = vb) /\ eqv = (va = vb)
        /\ a.normalized /\ b.normalized =>
             /\ cmp = (IF va = vb THEN 0 ELSE IF va > vb THEN 1 ELSE -1)
             /\ (IF Is10 THEN F10!fe_is_odd(a) ELSE F5!fe_is_odd(a)) = (va % 2 = 1)
             /\ (IF Is10 THEN F10!fe_is_zero(a) ELSE F5!fe_is_zero(a)) = (va = 0)

(* A byte string is refused only if its number is not below p, and an       *)
(* accepted one is written back unchanged.                                  *)
BytesRoundTrip ==
    /\ \A v \in refused : v >= Prime
    /\ a.normalized =>
         (IF Is10 THEN F10!fe_get_b32(a) ELSE F5!fe_get_b32(a)) = Bytes(va)
=============================================================================
