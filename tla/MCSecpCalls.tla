----------------------------- MODULE MCSecpCalls -----------------------------
(***************************************************************************)
(* The calls that the wallet makes of secp256k1-zkp on small instances:    *)
(* keys, signatures and their encodings, contexts, commitments and range   *)
(* proofs.  As in MCSecpArithmetic, a behaviour is one caller of one unit. *)
(***************************************************************************)
EXTENDS KeyCalls, SigCalls, Pedersen, SecpContext, RangeCalls

CONSTANTS Base, ScalarBytes, NScalar, SizeT, IntTag, SeqTag, DerInts, EditBytes, MaxEdits,
          PW, PMaxExp, N, FieldP, GenLog, NoSuchX(_), Sha(_), Rng(_, _),
          PBlinds, PValues, PMinimums, PPrecisions, PNonces, PMessages, PExtras

VARIABLES unit,                       \* the unit that is called
          input, edits,               \* Der
          proved, proof, edited       \* RangeProof

DE == INSTANCE Der
RP == INSTANCE RangeProof WITH made <- proved

-----------------------------------------------------------------------------
\* y^2 = x^3 + 7 modulo 79 has 67 points, three of them with x above 67
MCEncodings ==
    {Encoded(t, 33, x, 0) : t \in {2, 3, 4}, x \in {1, 2, 80}}
    \cup {Encoded(t, 65, 1, y) : t \in {2, 4, 6, 7}, y \in {18, 61, 5, 97}}

\* nonces that are out of range, that give s = 0 (24 for the key 5 and the message 72),
\* and whose points have x above the order (17, 28, 48)
MCNonceFns  == {<<0, 67, 7>>, <<67, Fail, 3>>, <<24, 17, 14>>, <<90, 28, 2>>, <<48, 5, Fail>>}
MCNonceData == {NotGiven, 4}
MCDraw(seed, i) ==
    (seed[1] * 13 + seed[3] * 7 + Len(seed) * 5
     + (IF Len(seed) > 4 THEN seed[5] * 11 ELSE 0) + i * 29) % 128

MCCommitKeys == {<<1, 2>>}

\* bytes of base 32: zero, padding, sign, the scalar order and a length of two octets
MCDerInts == {<<0>>, <<15>>, <<0, 16>>, <<31>>, <<16, 0>>, <<0, 31, 28>>, <<0, 31, 29>>,
              <<1, 0>>, <<1>> \o [i \in 1 .. 16 |-> 0]}

MCBody == <<3, 140>>

MCSha(x) ==
    FoldLeft(LAMBDA h, y : ((((h % 8191) * 211 + y * 37 + 7919) % 524287) * 1597
                            + (h \div 64) * 13) % 524288, 12345, x)
MCRng(seed, i) == MCSha(Append(seed, i * 1009 + 77))
MCNoSuchX(x) == MCSha(<<x, 5>>) % 510007
MCMessages == {<<>>, <<77, 300000, 3, 4, 5>>}
MCExtras   == {<<>>, <<5>>}

-----------------------------------------------------------------------------
\* a unit that is not called stays in an initial state, or without a value
KeyIdle == KeyInit /\ seckey = CHOOSE k \in Secrets : TRUE
SigIdle == SigInit /\ signer = CHOOSE k \in Signers : TRUE
PedIdle == gen = 0 /\ hgen = 0 /\ items = 0 /\ closed = 0 /\ gone = 0
DerIdle == input = 0 /\ edits = 0
RPIdle  == proved = 0 /\ proof = 0 /\ edited = 0

CallsInit ==
    \/ /\ unit = "key" /\ KeyInit
       /\ SigIdle /\ PedIdle /\ DerIdle /\ CtxInit /\ RangeInit /\ RPIdle
    \/ /\ unit = "signature" /\ SigInit
       /\ KeyIdle /\ PedIdle /\ DerIdle /\ CtxInit /\ RangeInit /\ RPIdle
    \/ /\ unit = "pedersen" /\ PedInit
       /\ KeyIdle /\ SigIdle /\ DerIdle /\ CtxInit /\ RangeInit /\ RPIdle
    \/ /\ unit = "der" /\ DE!DerInit
       /\ KeyIdle /\ SigIdle /\ PedIdle /\ CtxInit /\ RangeInit /\ RPIdle
    \/ /\ unit = "context" /\ CtxInit
       /\ KeyIdle /\ SigIdle /\ PedIdle /\ DerIdle /\ RangeInit /\ RPIdle
    \/ /\ unit = "range" /\ RangeInit
       /\ KeyIdle /\ SigIdle /\ PedIdle /\ DerIdle /\ CtxInit /\ RPIdle
    \/ /\ unit = "proof" /\ RP!ProofInit
       /\ KeyIdle /\ SigIdle /\ PedIdle /\ DerIdle /\ CtxInit /\ RangeInit

dVars  == <<input, edits>>
rVars  == <<proved, proof, edited>>

Keys       == /\ unit = "key" /\ KeyNext
              /\ UNCHANGED <<unit, sigVars, pedVars, dVars, ctxVars, rangeVars, rVars>>
Signatures == /\ unit = "signature" /\ SigNext
              /\ UNCHANGED <<unit, keyVars, pedVars, dVars, ctxVars, rangeVars, rVars>>
Pedersens  == /\ unit = "pedersen" /\ PedNext
              /\ UNCHANGED <<unit, keyVars, sigVars, dVars, ctxVars, rangeVars, rVars>>
Ders       == /\ unit = "der" /\ DE!DerNext
              /\ UNCHANGED <<unit, keyVars, sigVars, pedVars, ctxVars, rangeVars, rVars>>
Ctxs       == /\ unit = "context" /\ CtxNext
              /\ UNCHANGED <<unit, keyVars, sigVars, pedVars, dVars, rangeVars, rVars>>
Ranges     == /\ unit = "range" /\ RangeNext
              /\ UNCHANGED <<unit, keyVars, sigVars, pedVars, dVars, ctxVars, rVars>>
Proofs     == /\ unit = "proof" /\ RP!ProofNext
              /\ UNCHANGED <<unit, keyVars, sigVars, pedVars, dVars, ctxVars, rangeVars>>

CallsNext == Keys \/ Signatures \/ Pedersens \/ Ders \/ Ctxs \/ Ranges \/ Proofs

callsVars == <<unit, keyVars, sigVars, pedVars, dVars, ctxVars, rangeVars, rVars>>

CallsSpec == CallsInit /\ [][CallsNext]_callsVars

-----------------------------------------------------------------------------
(* A public key object is zeros or a point of the curve                    *)
(* (secp256k1_ec_pubkey_parse, _combine); secp256k1_generator_generate and *)
(* its blinded form give the sum of the hashed points, whose saved bytes   *)
(* load as the same point, unless it is the point at infinity: that is     *)
(* saved too, as bytes that load as no point.                              *)
ObjectsHoldPoints == PublicKeysValid /\ (unit = "pedersen" => GeneratorsValid)

(* secp256k1_ecdsa_sig_parse accepts exactly the DER encodings of two      *)
(* integers, and secp256k1_ecdsa_sig_serialize gives the bytes back.       *)
DerExact == unit = "der" => DE!DerStrict /\ DE!DerRoundTrip

(* secp256k1_pedersen_verify_tally accepts exactly the lists whose         *)
(* blinding factors and values cancel, and both ways to compute the last   *)
(* blinding factor make them cancel.                                       *)
TalliesBalance == unit = "pedersen" => TallyBalances

(* A signed range proof verifies and rewinds, with its nonce, to blinding  *)
(* factor, value and message (secp256k1_rangeproof_sign, _rewind).         *)
ProofsRewindable == unit = "proof" => RP!ProofsRewind

(* secp256k1_rangeproof_verify refuses a proof of which one part was       *)
(* changed.                                                                *)
EditedRefused == unit = "proof" => RP!EditsRefused
=============================================================================
