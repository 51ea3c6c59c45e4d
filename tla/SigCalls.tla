------------------------------- MODULE SigCalls -------------------------------
(***************************************************************************)
(* A caller of the signature calls of secp256k1.c and of the recovery      *)
(* module: one key pair, one signature object, one recoverable signature   *)
(* and the 64 bytes of a compact encoding.  made and rmade are the         *)
(* messages that the two objects are the key's signatures of.              *)
(***************************************************************************)
EXTENDS Ecdsa

CONSTANTS Signers,      \* bound: secret keys, 32 bytes
          Msgs,         \* bound: message hashes, 32 bytes
          NonceFns,     \* bound: nonce functions of the caller, as the sequence of
                        \* what they return: 32 bytes, or Fail
          NonceData,    \* bound: extra data of the nonce, or NotGiven
          Draw(_, _),   \* the nonces of the RFC 6979 generator: Draw(seed, i)
          MaxNonces,    \* bound: attempts of one signing call
          MaxSigCalls   \* bound: calls

VARIABLES signer,      \* the secret key
          sig, rsig,   \* <<r, s>> and <<r, s, recid>>
          compact,     \* the last compact encoding: two numbers and a recovery id
          made, rmade, \* messages, or NoMsg
          verdict,     \* what the last call returned
          halted,      \* the illegal callback ended the process
          scalls       \* number of calls made

sigVars == <<signer, sig, rsig, compact, made, rmade, verdict, halted, scalls>>

Fail  == -1
NoMsg == -1

\* a nonce whose r is not zero: ecdsa_sig_sign says that this "should be checked
\* before calling", and no caller does
GivesR(b) == b \in 1 .. Order - 1 => Multiple[b][1] # Order

ASSUME SignersAssumption ==
    /\ Signers \subseteq Bytes32 /\ Msgs \subseteq Bytes32 /\ MaxNonces \in Nat
    /\ \A f \in NonceFns, i \in 1 .. MaxNonces : f[i] \in Bytes32 \cup {Fail} /\ GivesR(f[i])
    /\ \A key \in Signers, msg \in Msgs, data \in NonceData, i \in 1 .. MaxNonces :
         LET b == Draw(nonce_keydata(key, msg, data, NotGiven), i)
         IN  b \in Bytes32 /\ GivesR(b)

Signer == Multiple[signer % Order]  \* the public key
ZeroRSig == <<0, 0, 0>>

SigInit ==
    /\ signer \in Signers
    /\ sig = ZeroSig /\ rsig = ZeroRSig /\ compact = ZeroRSig
    /\ made = NoMsg /\ rmade = NoMsg
    /\ verdict = FALSE /\ halted = FALSE /\ scalls = 0

SigCall == /\ ~halted /\ scalls < MaxSigCalls
           /\ scalls' = scalls + 1 /\ UNCHANGED <<signer, halted>>

\* a context without what the call needs: nothing is written
Refused(c) ==
    /\ ~halted /\ scalls < MaxSigCalls /\ scalls' = scalls + 1
    /\ verdict' = FALSE /\ halted' = ~c.returns
    /\ UNCHANGED <<signer, sig, rsig, compact, made, rmade>>

-----------------------------------------------------------------------------
(* Signing: nonces are asked for until one is in range and gives a         *)
(* signature, or the nonce function fails.                                 *)

nonce_function_rfc6979(msg, key, data, counter) ==
    Draw(nonce_keydata(key, msg, data, NotGiven), counter + 1)

Usable(sec, msg, b) ==
    /\ ~scalar_set_b32(b).overflow /\ b # 0
    /\ ecdsa_sig_sign(sec, scalar_set_b32(msg).v, b).ok

\* the nonces of the successive attempts: of the default nonce function or of one
\* of the caller
Nonces(msg) ==
    {[count \in 1 .. MaxNonces |-> nonce_function_rfc6979(msg, signer, data, count - 1)] :
        data \in NonceData} \cup NonceFns

\* the attempts that end the loop
Stops(sec, msg, nonces) ==
    {count \in 1 .. MaxNonces : nonces[count] = Fail \/ Usable(sec, msg, nonces[count])}

NoSignature == [ok |-> FALSE]

SignLoop(sec, msg, nonces, stops) ==
    With(nonces[CHOOSE count \in stops : \A other \in stops : count <= other], LAMBDA nonce :
        IF nonce = Fail THEN NoSignature
        ELSE ecdsa_sig_sign(sec, scalar_set_b32(msg).v, nonce))

\* what signing can end with, after at most MaxNonces attempts
Signed(msg) ==
    IF ~ValidSecret(signer) THEN {NoSignature}
    ELSE {SignLoop(signer, msg, a[1], a[2]) :
            a \in {b \in {<<nonces, Stops(signer, msg, nonces)>> : nonces \in Nonces(msg)} :
                     b[2] # {}}}

ecdsa_sign(c, msg) ==
    \/ ~c.sign /\ Refused(c)
    \/ /\ c.sign /\ SigCall
       /\ \E t \in Signed(msg) : /\ sig' = IF t.ok THEN <<t.r, t.s>> ELSE ZeroSig
                                 /\ made' = IF t.ok THEN msg ELSE NoMsg
                                 /\ verdict' = t.ok
       /\ UNCHANGED <<rsig, rmade, compact>>

ecdsa_sign_recoverable(c, msg) ==
    \/ ~c.sign /\ Refused(c)
    \/ /\ c.sign /\ SigCall
       /\ \E t \in Signed(msg) : /\ rsig' = IF t.ok THEN <<t.r, t.s, t.recid>> ELSE ZeroRSig
                                 /\ rmade' = IF t.ok THEN msg ELSE NoMsg
                                 /\ verdict' = t.ok
       /\ UNCHANGED <<sig, made, compact>>

-----------------------------------------------------------------------------
(* Encodings.                                                              *)

ecdsa_signature_serialize_compact ==
    /\ SigCall /\ compact' = <<sig[1], sig[2], 0>> /\ verdict' = TRUE
    /\ UNCHANGED <<sig, rsig, made, rmade>>

ecdsa_recoverable_signature_serialize_compact ==
    /\ SigCall /\ compact' = rsig /\ verdict' = TRUE
    /\ UNCHANGED <<sig, rsig, made, rmade>>

\* what arrives for an encoding: itself, the other sign of s, a number that is
\* not reduced
Arrivals == {compact} \cup
            {<<compact[1], scalar_negate(compact[2]), compact[3]>>} \cup
            {x \in {<<compact[1] + Order, compact[2], compact[3]>>,
                    <<compact[1], compact[2] + Order, compact[3]>>} :
               x[1] \in Bytes32 /\ x[2] \in Bytes32}

\* both numbers are below the order
CompactOk(in) == ~scalar_set_b32(in[1]).overflow /\ ~scalar_set_b32(in[2]).overflow

SameSig(a, b) == a[1] = b[1] /\ b[2] \in {a[2], scalar_negate(a[2])}

ecdsa_signature_parse_compact(in) ==
    /\ SigCall /\ verdict' = CompactOk(in)
    /\ sig' = IF CompactOk(in) THEN <<in[1], in[2]>> ELSE ZeroSig
    /\ made' = IF CompactOk(in) /\ made # NoMsg /\ SameSig(sig, in) THEN made ELSE NoMsg
    /\ UNCHANGED <<rsig, rmade, compact>>

ecdsa_recoverable_signature_parse_compact(in, recid) ==
    /\ SigCall /\ verdict' = CompactOk(in)
    /\ rsig' = IF CompactOk(in) THEN <<in[1], in[2], recid>> ELSE ZeroRSig
    /\ rmade' = IF CompactOk(in) /\ rsig' = rsig THEN rmade ELSE NoMsg
    /\ UNCHANGED <<sig, made, compact>>

ecdsa_recoverable_signature_convert ==
    /\ SigCall /\ verdict' = TRUE
    /\ sig' = <<rsig[1], rsig[2]>> /\ made' = rmade
    /\ UNCHANGED <<rsig, rmade, compact>>

Normalized(g) == IF scalar_is_high(g[2]) THEN <<g[1], scalar_negate(g[2])>> ELSE g

ecdsa_signature_normalize ==
    /\ SigCall /\ verdict' = scalar_is_high(sig[2])
    /\ sig' = Normalized(sig)
    /\ UNCHANGED <<rsig, made, rmade, compact>>

-----------------------------------------------------------------------------
(* Verification and recovery.                                              *)

Verifies(g, msg, P) ==
    /\ ~scalar_is_high(g[2]) /\ pubkey_load(P) # NoPoint
    /\ ecdsa_sig_verify(g[1], g[2], P, scalar_set_b32(msg).v)

ecdsa_verify(c, msg) ==
    \/ ~c.verify /\ Refused(c)
    \/ /\ c.verify /\ SigCall /\ verdict' = Verifies(sig, msg, Signer)
       /\ UNCHANGED <<sig, rsig, made, rmade, compact>>

Recovered(g, msg) == ecdsa_sig_recover(g[1], g[2], scalar_set_b32(msg).v, g[3])

ecdsa_recover(c, msg) ==
    \/ ~c.verify /\ Refused(c)
    \/ /\ c.verify /\ SigCall /\ verdict' = (Recovered(rsig, msg) # NoPoint)
       /\ UNCHANGED <<sig, rsig, made, rmade, compact>>

SigNext ==
    \/ \E c \in Contexts, msg \in Msgs :
         \/ ecdsa_sign(c, msg) \/ ecdsa_sign_recoverable(c, msg)
         \/ ecdsa_verify(c, msg) \/ ecdsa_recover(c, msg)
    \/ ecdsa_signature_serialize_compact \/ ecdsa_recoverable_signature_serialize_compact
    \/ \E in \in Arrivals : \/ ecdsa_signature_parse_compact(in)
                            \/ \E recid \in 0 .. 3 : ecdsa_recoverable_signature_parse_compact(in, recid)
    \/ ecdsa_recoverable_signature_convert \/ ecdsa_signature_normalize
    \/ (halted \/ scalls = MaxSigCalls) /\ UNCHANGED sigVars

SigSpec == SigInit /\ [][SigNext]_sigVars

-----------------------------------------------------------------------------
(* A signature that was made, whatever nonces were refused on the way and  *)
(* through whatever encodings it went, verifies for its message under the  *)
(* signer's key if and only if its s is low; the other form, which anyone  *)
(* can make of it, is refused until it is normalized.  Zeros never verify. *)
SignaturesVerify ==
    /\ made # NoMsg => /\ Verifies(sig, made, Signer) = ~scalar_is_high(sig[2])
                       /\ Verifies(Normalized(sig), made, Signer)
    /\ \A msg \in Msgs : ~Verifies(ZeroSig, msg, Signer)

(* The recovery id leads back to the signer's key, also for a nonce whose  *)
(* point has an x coordinate above the order and for an s that was         *)
(* negated; and whatever key is recovered from whatever signature, the     *)
(* signature is valid for it.                                              *)
RecoveryFindsSigner ==
    /\ rmade # NoMsg => Recovered(rsig, rmade) = Signer
    /\ \A msg \in Msgs : \A P \in {Recovered(rsig, msg)} \ {NoPoint} :
         Verifies(Normalized(<<rsig[1], rsig[2]>>), msg, P)

(* Different keys, messages, extra data and algorithm names, given or not, *)
(* never seed the generator of nonces alike.                               *)
NonceSeedsDiffer ==
    LET given == {NotGiven} \cup {1, 2}
        Args == (1 .. 2) \X (1 .. 2) \X given \X given
        Seed(a) == nonce_keydata(a[1], a[2], a[3], a[4])
    IN  \A a, b \in Args : Seed(a) = Seed(b) => a = b

(* secp256k1_ecdsa_recover finds the signer, and never a key for which the *)
(* signature is not valid; no two arguments seed the nonces alike.         *)
RecoveryRight == RecoveryFindsSigner /\ NonceSeedsDiffer
=============================================================================
