-------------------------------- MODULE Ecdsa --------------------------------
(***************************************************************************)
(* ECDSA and the keys of secp256k1-zkp over the group of a small curve:    *)
(* ecdsa_impl.h, eckey_impl.h, the recovery module and the loads, saves    *)
(* and nonces of secp256k1.c.  Scalars and field elements are numbers      *)
(* (ScalarCalls and FieldCalls check their limbs) and a multiple of a      *)
(* point is the one that the group has (Ecmult checks how it is computed). *)
(***************************************************************************)
EXTENDS Curve

CONSTANT Top  \* 2^256: the values of 32 bytes

\* 32 bytes exceed neither the field nor the group more than once, and no point
\* has an x coordinate that is zero
ASSUME BytesAssumption ==
    /\ Order < Q /\ Q < 2 * Order /\ Q <= Top /\ Top <= 2 * Order
    /\ \A k \in 1 .. Order - 1 : Multiple[k][1] # 0

\* the points of the curve are the multiples of the generator but zero, of which
\* the order is an odd prime; opposite multiples share x; and the square root of
\* the field finds one of the two roots of a square
OnCurve(x, y) == (y * y) % Q = (x * x * x + CURVE_B) % Q

ASSUME GroupAssumption ==
    /\ Order \in Nat /\ Order > 2 /\ Order % 2 = 1 /\ Q % 2 = 1
    /\ Top \in Nat /\ CURVE_B \in Nat
    /\ \A s \in 1 .. Order - 1 : \E t \in 1 .. Order - 1 : (s * t) % Order = 1
    /\ Multiple[0] = <<>>
    /\ \A j, k \in 0 .. Order - 1 : Multiple[j] = Multiple[k] => j = k
    /\ \A k \in 1 .. Order - 1 : \E x, y \in 0 .. Q - 1 :
         /\ Multiple[k] = <<x, y>> /\ OnCurve(x, y)
         /\ Multiple[Order - k] = <<x, (-y) % Q>>
    /\ \A x, y \in 0 .. Q - 1 :
         OnCurve(x, y) => \E k \in 1 .. Order - 1 : Multiple[k] = <<x, y>>
    /\ \A v \in 0 .. Q - 1 : Roots[v] \in 0 .. Q - 1
    /\ \A y \in 0 .. Q - 1 : Roots[(y * y) % Q] \in {y, (-y) % Q}

Bytes32 == 0 .. Top - 1
Zero32  == 0
NoPoint == <<>>
ZeroKey == <<0, 0>>  \* a public key object of zero bytes
ZeroSig == <<0, 0>>

\* what a context can do, and whether its illegal callback returns: the default
\* one ends the process, and with one that returns the call returns 0
Contexts == [sign : BOOLEAN, verify : BOOLEAN, returns : BOOLEAN]

scalar_set_b32(b) == [v |-> b % Order, overflow |-> b >= Order]
scalar_is_high(s) == s > Order \div 2
scalar_negate(s)  == (-s) % Order
ValidSecret(b)    == ~scalar_set_b32(b).overflow /\ scalar_set_b32(b).v # 0

ScalarInverse == [s \in 1 .. Order - 1 |-> CHOOSE t \in 1 .. Order - 1 : (s * t) % Order = 1]
LogOf == [P \in {Multiple[k] : k \in 0 .. Order - 1} |->
            CHOOSE k \in 0 .. Order - 1 : Multiple[k] = P]

\* na * P + ng * G
ecmult(P, na, ng) == Multiple[(na * LogOf[P] + ng) % Order]

-----------------------------------------------------------------------------
(* Public keys.  An encoding is a first byte, a length and two numbers.    *)

Encoded(tag, size, x, y) == [tag |-> tag, size |-> size, x |-> x, y |-> y]

\* a point, or NoPoint where the encoding is refused
Compressed(e) == e.size = 33 /\ e.tag \in {2, 3} /\ e.x < Q
Full(e)       == /\ e.size = 65 /\ e.tag \in {4, 6, 7} /\ e.x < Q /\ e.y < Q
                 /\ e.tag \in {6, 7} => (e.y % 2 = 1) = (e.tag = 7)
eckey_pubkey_parse(e) ==
    IF Compressed(e)
    THEN With(ge_set_xo_var(fe_set_int(e.x), e.tag = 3), LAMBDA xo :
           IF xo.ok THEN ge_to_storage(xo.ge) ELSE NoPoint)
    ELSE IF Full(e)
    THEN With(ge_set_xy(fe_set_int(e.x), fe_set_int(e.y)), LAMBDA xy :
           IF ge_is_valid_var(xy) THEN ge_to_storage(xy) ELSE NoPoint)
    ELSE NoPoint

eckey_pubkey_serialize(P, compressed) ==
    IF compressed THEN Encoded(2 + (P[2] % 2), 33, P[1], 0) ELSE Encoded(4, 65, P[1], P[2])

\* the object holds the storage of the point; a loaded x of zero is an illegal argument
pubkey_save(P) == P
pubkey_load(key) == IF key[1] = 0 THEN NoPoint ELSE key

-----------------------------------------------------------------------------
(* Tweaks: ok is false where the result is no key.                         *)

\* Mutant: a sum that is zero is taken for a key.
eckey_privkey_tweak_addAny(key, tweak) == [ok |-> TRUE, key |-> (key + tweak) % Order]

eckey_privkey_tweak_add(key, tweak) ==
    [ok |-> (key + tweak) % Order # 0, key |-> (key + tweak) % Order]

eckey_pubkey_tweak_add(P, tweak) ==
    With(ecmult(P, 1, tweak), LAMBDA R : [ok |-> R # NoPoint, key |-> R])

eckey_privkey_tweak_mul(key, tweak) == [ok |-> tweak # 0, key |-> (key * tweak) % Order]

eckey_pubkey_tweak_mul(P, tweak) == [ok |-> tweak # 0, key |-> ecmult(P, tweak, 0)]

-----------------------------------------------------------------------------
(* Signatures.                                                             *)

\* Mutant: the recovery id keeps the parity of the nonce's point.
LoweredSameId(r, s, overflow, odd) ==
    [ok |-> s # 0, r |-> r,
     s |-> IF scalar_is_high(s) THEN scalar_negate(s) ELSE s,
     recid |-> (IF overflow THEN 2 ELSE 0) + (IF odd THEN 1 ELSE 0)]

\* s is made low, which turns the parity of the nonce's point
Lowered(r, s, overflow, odd) ==
    [ok |-> s # 0, r |-> r,
     s |-> IF scalar_is_high(s) THEN scalar_negate(s) ELSE s,
     recid |-> (IF overflow THEN 2 ELSE 0) + (IF odd # scalar_is_high(s) THEN 1 ELSE 0)]

ecdsa_sig_sign(sec, msg, nonce) ==
    With(Multiple[nonce], LAMBDA R :
    With(scalar_set_b32(R[1]), LAMBDA r :
        Lowered(r.v, (ScalarInverse[nonce] * ((r.v * sec + msg) % Order)) % Order,
                r.overflow, R[2] % 2 = 1)))

\* Mutant: x coordinates above the order are forgotten.
ecdsa_sig_verifySmallX(r, s, P, m) ==
    /\ r # 0 /\ s # 0
    /\ With(ecmult(P, (ScalarInverse[s] * r) % Order, (ScalarInverse[s] * m) % Order), LAMBDA pr :
           pr # NoPoint /\ pr[1] = r)

\* r stands for the x coordinates r and, if that is below the field's prime, r + n
ecdsa_sig_verify(r, s, P, m) ==
    /\ r # 0 /\ s # 0
    /\ With(ecmult(P, (ScalarInverse[s] * r) % Order, (ScalarInverse[s] * m) % Order), LAMBDA pr :
           /\ pr # NoPoint
           /\ \/ pr[1] = r
              \/ r < Q - Order /\ pr[1] = r + Order)

\* the key that made the signature, or NoPoint
ecdsa_sig_recover(r, s, m, recid) ==
    IF r = 0 \/ s = 0 \/ (recid \div 2 = 1 /\ r >= Q - Order) THEN NoPoint
    ELSE With(ge_set_xo_var(fe_set_int(r + Order * (recid \div 2)), recid % 2 = 1), LAMBDA R :
         With(ScalarInverse[r], LAMBDA rn :
           IF ~R.ok THEN NoPoint
           ELSE ecmult(ge_to_storage(R.ge), (rn * s) % Order, scalar_negate((rn * m) % Order))))

-----------------------------------------------------------------------------
(* The bytes that seed the RFC 6979 generator: 32 of the key, 32 of the    *)
(* message, 32 of extra data if given and 16 of the algorithm's name if    *)
(* given, here in units of 16 bytes.  The nonce is draw counter + 1.       *)

NotGiven == -1
nonce_keydata(key, msg, data, algo) ==
    <<key, key, msg, msg>>
    \o (IF data # NotGiven THEN <<data, data>> ELSE <<>>)
    \o (IF algo # NotGiven THEN <<algo>> ELSE <<>>)
=============================================================================
