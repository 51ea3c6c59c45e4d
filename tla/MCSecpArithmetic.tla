--------------------------- MODULE MCSecpArithmetic ---------------------------
(***************************************************************************)
(* The arithmetic of secp256k1-zkp on small instances.  The units do not   *)
(* interact: a behaviour is one caller of one of them, and the variables   *)
(* of the others stay idle.                                                *)
(***************************************************************************)
EXTENDS Ecmult

CONSTANTS Limb10, Base10, Top10, Word10, C0, C1, MaxMag10, MulMag10,
          Base5, Top5, Word5, C, MaxMag5, MulMag5, Loads10, Loads5, Factors, MaxCalls,
          SLimb, SBits, SNC, SLambda, SLattice, Numbers, Window, MaxScalarCalls,
          Block, Digest, WordBits, IV, Transform(_, _), Sizes, KeySizes, MaxBytes,
          DrawSizes, MaxDraws

VARIABLES unit,                                         \* the unit that is called
          impl, a, b, va, vb, refused, calls,           \* FieldCalls
          s, t, vs, vt, steps,                          \* ScalarCalls
          func, pc, done, power, written,               \* AdditionChain
          hash, mac, macKey, msg, rng, seed, drawn, drew  \* Hash

FC == INSTANCE FieldCalls
SC == INSTANCE ScalarCalls WITH Limb <- SLimb, Bits <- SBits, NC <- SNC,
                                Lambda <- SLambda, Lattice <- SLattice
AC == INSTANCE AdditionChain
HC == INSTANCE Hash

-----------------------------------------------------------------------------
\* Four limbs of 5 bits modulo 2^19 - 35 and five of 6 bits modulo 2^29 - 1: limbs
\* all zero, all one or mixed, and the numbers around 0, p and 2^256.
MCLoads10 ==
    {0, 1, 2^19 - 37, 2^19 - 36, 2^19 - 35, 2^19 - 34, 2^19 - 1,
     2^10 - 1, 2^15 + 2^9, 349525}
MCLoads5 == {0, 1, 2^29 - 3, 2^29 - 2, 2^29 - 1, 2^12 - 1, 2^18 + 2^9, 357913941}

\* scalars below 4003 in four limbs of 3 bits, and below 229 in two of 4
MCNumbers == {0, 1, 2, 2001, 2002, 4001, 4002, 4003, 4095, 63, 64, 2048, 3822, 1365}
MCScalarLattice == [g1 |-> 598, g2 |-> 278, minus_b1 |-> 34, minus_b2 |-> 3930,
                    minus_lambda |-> 823, shift |-> 15]
MCLattice == [g1 |-> 76, g2 |-> 22, minus_b1 |-> 5, minus_b2 |-> 212,
              minus_lambda |-> 135, shift |-> 10]

\* the ends of the range, the middle, 2^4 and lambda, with their neighbours
MCConstScalars == {0, 1, 2, 15, 16, 17, 93, 94, 95, 113, 114, 115, 135, 212, 227, 228}

MCIV == <<17, 91, 5, 200>>
MCTransform(state, c) ==
    [i \in 1 .. 4 |->
       (state[i] * 37 + state[(i % 4) + 1]
        + FoldLeft(LAMBDA acc, k : (acc * (i + 2) + c[k] * (k + i)) % 251,
                   state[i], [k \in 1 .. 8 |-> k])) % 256]

-----------------------------------------------------------------------------
FieldIdle  == /\ impl = "" /\ a = "" /\ b = "" /\ va = 0 /\ vb = 0
              /\ refused = {} /\ calls = 0
ScalarIdle == s = "" /\ t = "" /\ vs = 0 /\ vt = 0 /\ steps = 0
ChainIdle  == func = "" /\ pc = 0 /\ done = 0 /\ power = "" /\ written = {}
HashIdle   == /\ hash = "" /\ mac = "" /\ macKey = "" /\ msg = "" /\ rng = ""
              /\ seed = "" /\ drawn = "" /\ drew = ""
PointIdle  == j = "" /\ p = "" /\ logj = 0 /\ logp = 0 /\ pcalls = 0
MultIdle   == /\ endo = FALSE /\ pre_g = "" /\ pre_g_128 = "" /\ gen = "" /\ calc = ""
              /\ mults = 0

ArithmeticInit ==
    \/ /\ unit = "field" /\ FC!Init
       /\ ScalarIdle /\ ChainIdle /\ HashIdle /\ PointIdle /\ MultIdle
    \/ /\ unit = "scalar" /\ SC!ScalarInit
       /\ FieldIdle /\ ChainIdle /\ HashIdle /\ PointIdle /\ MultIdle
    \/ /\ unit = "chain" /\ AC!ChainInit
       /\ FieldIdle /\ ScalarIdle /\ HashIdle /\ PointIdle /\ MultIdle
    \/ /\ unit = "hash" /\ HC!HashInit
       /\ FieldIdle /\ ScalarIdle /\ ChainIdle /\ PointIdle /\ MultIdle
    \/ /\ unit = "group" /\ PointInit
       /\ FieldIdle /\ ScalarIdle /\ ChainIdle /\ HashIdle /\ MultIdle
    \/ /\ unit = "ecmult" /\ MultInit
       /\ FieldIdle /\ ScalarIdle /\ ChainIdle /\ HashIdle /\ PointIdle

fieldVars == <<impl, a, b, va, vb, refused, calls>>
sVars == <<s, t, vs, vt, steps>>
cVars == <<func, pc, done, power, written>>
hVars == <<hash, mac, macKey, msg, rng, seed, drawn, drew>>

Field  == /\ unit = "field" /\ FC!Next
          /\ UNCHANGED <<unit, sVars, cVars, hVars, pointVars, multVars>>
Scalar == /\ unit = "scalar" /\ SC!ScalarNext
          /\ UNCHANGED <<unit, fieldVars, cVars, hVars, pointVars, multVars>>
Chains == /\ unit = "chain" /\ AC!ChainNext
          /\ UNCHANGED <<unit, fieldVars, sVars, hVars, pointVars, multVars>>
Hashes == /\ unit = "hash" /\ HC!HashNext
          /\ UNCHANGED <<unit, fieldVars, sVars, cVars, pointVars, multVars>>
Points == /\ unit = "group" /\ PointNext
          /\ UNCHANGED <<unit, fieldVars, sVars, cVars, hVars, multVars>>
Mults  == /\ unit = "ecmult" /\ MultNext
          /\ UNCHANGED <<unit, fieldVars, sVars, cVars, hVars, pointVars>>

ArithmeticNext == Field \/ Scalar \/ Chains \/ Hashes \/ Points \/ Mults

arithmeticVars == <<unit, fieldVars, sVars, cVars, hVars, pointVars, multVars>>

ArithmeticSpec == ArithmeticInit /\ [][ArithmeticNext]_arithmeticVars

-----------------------------------------------------------------------------
(* Field elements, in both representations: no limb outgrows the magnitude *)
(* that the next call relies on, no carry is lost, both normalizations     *)
(* give the canonical limbs, every test agrees with the residue, and bytes *)
(* are refused only from p on (field_10x26_impl.h, field_5x52_impl.h).     *)
FieldCorrect ==
    unit = "field" => /\ FC!MagnitudesHold /\ FC!ValueKept /\ FC!CanonicalForm
                      /\ FC!TestsAgree /\ FC!BytesRoundTrip

(* Scalars are the numbers below n that arithmetic gives, whatever was     *)
(* carried and folded, and the tests and bit extractors read them so       *)
(* (scalar_8x32_impl.h).                                                   *)
ScalarCorrect == unit = "scalar" => SC!ScalarValueKept /\ SC!ScalarTestsAgree

(* secp256k1_scalar_split_lambda gives two parts that add up and are half  *)
(* as long, so that ecmult's 130 entries hold their recodings.             *)
SplitIsShort == unit = "scalar" => SC!SplitIsShort /\ SC!SplitWnafFits

(* Both recodings of a scalar add up to it: the sparse one of              *)
(* secp256k1_ecmult_wnaf and the odd one of secp256k1_wnaf_const.          *)
RecodingsAddUp == unit = "scalar" => SC!WnafRepresents /\ SC!WnafConstRepresents

(* The addition chains of secp256k1_fe_sqrt, secp256k1_fe_inv and          *)
(* secp256k1_scalar_inverse raise to (p + 1) / 4, p - 2 and n - 2 of the   *)
(* real p and n.                                                           *)
ChainsRaise == unit = "chain" => AC!BlocksHold /\ AC!FinalExponent

(* Digests, HMACs and nonces are the standards', whatever the pieces in    *)
(* which the bytes are written and drawn (hash_impl.h).                    *)
HashesStandard ==
    unit = "hash" => HC!DigestStandard /\ HC!HmacStandard /\ HC!NoncesStandard

(* Sequences of point operations obey the group law and stay within the    *)
(* magnitudes, and the tests on points agree with it (group_impl.h).       *)
PointsObeyGroupLaw == unit = "group" => GroupLaw /\ PointMagnitudes /\ PointTests

(* The multiplications return the multiples of the group law, from tables  *)
(* of odd multiples, and the constant-time one never doubles infinity,     *)
(* with the endomorphism or without (ecmult_impl.h, ecmult_const_impl.h).  *)
MultiplesRight ==
    unit = "ecmult" => ProductRight /\ TablesRight /\ ConstNeverInfinity

(* Blinding cancels: secp256k1_ecmult_gen returns gn * G after any chain   *)
(* of secp256k1_ecmult_gen_blind, seeded or reset.                         *)
GenBlindingCancels == unit = "ecmult" => BlindingCancels
=============================================================================
