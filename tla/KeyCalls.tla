------------------------------- MODULE KeyCalls -------------------------------
(***************************************************************************)
(* A caller that holds a secret key and a public key of secp256k1-zkp and  *)
(* makes any sequence of the key calls of secp256k1.c and of the ECDH      *)
(* module on them.  A failed argument check calls the context's illegal    *)
(* callback: the default one aborts the process, another one may return,   *)
(* and then the call returns 0.  hseckey and hpubkey record what was done  *)
(* to either key since the public one was made from the secret one.        *)
(***************************************************************************)
EXTENDS Ecdsa

CONSTANTS Secrets,    \* bound: 32-byte strings for secret keys
          Tweaks,     \* bound: 32-byte strings for tweaks
          Encodings,  \* bound: encodings of public keys that are parsed
          Others,     \* bound: logarithms of the keys that are combined
          MaxKeyCalls \* bound: calls

ASSUME KeysAssumption == Secrets \subseteq Bytes32 /\ Tweaks \subseteq Bytes32

VARIABLES seckey,           \* 32 bytes
          pubkey,           \* a public key object, or OffCurve
          hseckey, hpubkey, \* [paired, failed, done]: the history of each
          outcome,          \* what the last call returned
          aborted,          \* the illegal callback ended the process
          kcalls            \* number of calls made

keyVars == <<seckey, pubkey, hseckey, hpubkey, outcome, aborted, kcalls>>

\* A sum with a key that failed to load, once the illegal callback returned:
\* the header calls it undefined, and the caller drops it.
OffCurve == <<"off the curve">>

Unpaired == [paired |-> FALSE, failed |-> FALSE, done |-> <<>>]
Paired   == [paired |-> TRUE, failed |-> FALSE, done |-> <<>>]
\* on is the object that the call gives a value, if any
Outcome(on, ok, illegal) == [on |-> on, ok |-> ok, illegal |-> illegal]
After(h, what, ok) ==
    IF h.paired THEN [h EXCEPT !.failed = @ \/ ~ok, !.done = Append(@, what)] ELSE h

KeyInit ==
    /\ seckey \in Secrets
    /\ pubkey = ZeroKey
    /\ hseckey = Unpaired /\ hpubkey = Unpaired
    /\ outcome = Outcome("nothing", TRUE, FALSE)
    /\ aborted = FALSE /\ kcalls = 0

\* how a call with context c ends: with its result, or in the illegal callback
Returns(on, ok)  == outcome' = Outcome(on, ok, FALSE) /\ aborted' = FALSE
Illegal(on, c)   == outcome' = Outcome(on, FALSE, TRUE) /\ aborted' = ~c.returns
KeyCall          == ~aborted /\ kcalls < MaxKeyCalls /\ kcalls' = kcalls + 1
ReadsKey         == KeyCall /\ pubkey # OffCurve

-----------------------------------------------------------------------------
ec_seckey_verify ==
    /\ KeyCall
    /\ Returns("nothing", ValidSecret(seckey))
    /\ UNCHANGED <<seckey, pubkey, hseckey, hpubkey>>

\* the object is cleared before the context is checked
ec_pubkey_create(c) ==
    /\ KeyCall
    /\ UNCHANGED seckey
    /\ IF c.sign
       THEN /\ Returns("public", ValidSecret(seckey))
            /\ pubkey' = IF ValidSecret(seckey) THEN pubkey_save(Multiple[seckey]) ELSE ZeroKey
       ELSE Illegal("public", c) /\ pubkey' = ZeroKey
    /\ LET h == IF c.sign /\ ValidSecret(seckey) THEN Paired ELSE Unpaired
       IN  hseckey' = h /\ hpubkey' = h

\* A secret key that is out of range is reduced, never refused.
NewSecret(what, ok, key) ==
    /\ KeyCall
    /\ seckey' = IF ok THEN key ELSE Zero32
    /\ hseckey' = After(hseckey, what, ok)
    /\ Returns("secret", ok)
    /\ UNCHANGED <<pubkey, hpubkey>>

ec_privkey_negate ==
    NewSecret(<<"negate">>, TRUE, scalar_negate(scalar_set_b32(seckey).v))

ec_privkey_tweak_add(tweak) ==
    LET term == scalar_set_b32(tweak)
        t    == eckey_privkey_tweak_add(scalar_set_b32(seckey).v, term.v)
    IN  NewSecret(<<"tweak_add", tweak>>, ~term.overflow /\ t.ok, t.key)

ec_privkey_tweak_mul(tweak) ==
    LET factor == scalar_set_b32(tweak)
        t      == eckey_privkey_tweak_mul(scalar_set_b32(seckey).v, factor.v)
    IN  NewSecret(<<"tweak_mul", tweak>>, ~factor.overflow /\ t.ok, t.key)

\* the tweak of a public key that loads
Tweaked(Tweak(_, _), scalar) ==
    IF pubkey_load(pubkey) = NoPoint THEN [ok |-> FALSE, key |-> NoPoint]
    ELSE Tweak(pubkey_load(pubkey), scalar)

\* the object is cleared once it was loaded, and saved again if all went well
NewPublic(what, c, loads, ok, P) ==
    /\ ReadsKey
    /\ IF loads /\ pubkey_load(pubkey) = NoPoint
       THEN Illegal("public", c) /\ pubkey' = ZeroKey
            /\ hpubkey' = After(hpubkey, what, FALSE)
       ELSE Returns("public", ok)
            /\ pubkey' = (IF ok THEN pubkey_save(P) ELSE ZeroKey)
            /\ hpubkey' = After(hpubkey, what, ok)
    /\ UNCHANGED <<seckey, hseckey>>

NoCapability(c) ==
    /\ ReadsKey /\ ~c.verify
    /\ Illegal("nothing", c) /\ UNCHANGED <<seckey, pubkey, hseckey, hpubkey>>

ec_pubkey_negate(c) ==
    NewPublic(<<"negate">>, c, TRUE, TRUE, <<pubkey[1], (-pubkey[2]) % Q>>)

ec_pubkey_tweak_add(c, tweak) ==
    \/ NoCapability(c)
    \/ /\ c.verify /\ pubkey # OffCurve
       /\ \E term \in {scalar_set_b32(tweak)} : \E t \in {Tweaked(eckey_pubkey_tweak_add, term.v)} :
            NewPublic(<<"tweak_add", tweak>>, c, ~term.overflow, ~term.overflow /\ t.ok, t.key)

ec_pubkey_tweak_mul(c, tweak) ==
    \/ NoCapability(c)
    \/ /\ c.verify /\ pubkey # OffCurve
       /\ \E factor \in {scalar_set_b32(tweak)} : \E t \in {Tweaked(eckey_pubkey_tweak_mul, factor.v)} :
            NewPublic(<<"tweak_mul", tweak>>, c, ~factor.overflow, ~factor.overflow /\ t.ok, t.key)

ec_pubkey_parse(e) ==
    /\ KeyCall
    /\ \E P \in {eckey_pubkey_parse(e)} :
         /\ Returns("public", P # NoPoint)
         /\ pubkey' = IF P # NoPoint THEN pubkey_save(P) ELSE ZeroKey
    /\ hpubkey' = Unpaired /\ hseckey' = Unpaired
    /\ UNCHANGED seckey

\* Parsing what was serialized stands for the bytes in between.  The sizes of
\* output buffers are those that the flags ask for.
ec_pubkey_serialize(c, compressed) ==
    /\ ReadsKey
    /\ LET P == pubkey_load(pubkey)
       IN  IF P = NoPoint
           THEN Illegal("nothing", c) /\ UNCHANGED pubkey
           ELSE /\ Returns("nothing", TRUE)
                /\ pubkey' = eckey_pubkey_parse(eckey_pubkey_serialize(P, compressed))
    /\ UNCHANGED <<seckey, hseckey, hpubkey>>

\* the sum of the public key and another one, or of the first alone; that a key
\* does not load is not looked at
FirstOnly == gej_add_ge(gej_set_infinity, ge_from_storage(pubkey))
Combined(others) == IF others = <<>> THEN FirstOnly
                    ELSE gej_add_ge(FirstOnly, ge_from_storage(Multiple[others[1]]))
SavedSum(sum) == IF sum = ZeroKey \/ sum \in DOMAIN LogOf THEN pubkey_save(sum) ELSE OffCurve

ec_pubkey_combine(c, others) ==
    /\ ReadsKey
    /\ \E Qj \in {Combined(others)}, illegal \in {pubkey_load(pubkey) = NoPoint} :
         /\ outcome' = Outcome("public", ~Qj.infinity, illegal)
         /\ aborted' = (illegal /\ ~c.returns)
         /\ pubkey' = IF Qj.infinity THEN ZeroKey ELSE SavedSum(ge_to_storage(ge_set_gej(Qj)))
         /\ hpubkey' = [Unpaired EXCEPT !.failed = illegal]
    /\ hseckey' = Unpaired
    /\ UNCHANGED seckey

\* a shared secret is computed from whatever was loaded
ecdh(c) ==
    /\ ReadsKey
    /\ LET illegal == pubkey_load(pubkey) = NoPoint
       IN  /\ outcome' = Outcome("nothing", ValidSecret(seckey), illegal)
           /\ aborted' = (illegal /\ ~c.returns)
    /\ UNCHANGED <<seckey, pubkey, hseckey, hpubkey>>

KeyNext ==
    \/ ec_seckey_verify
    \/ ec_privkey_negate
    \/ \E t \in Tweaks : ec_privkey_tweak_add(t) \/ ec_privkey_tweak_mul(t)
    \/ \E e \in Encodings : ec_pubkey_parse(e)
    \/ \E c \in Contexts :
         \/ ec_pubkey_create(c)
         \/ ec_pubkey_negate(c)
         \/ \E t \in Tweaks : ec_pubkey_tweak_add(c, t) \/ ec_pubkey_tweak_mul(c, t)
         \/ \E z \in BOOLEAN : ec_pubkey_serialize(c, z)
         \/ \E o \in Others \cup {0} : ec_pubkey_combine(c, IF o = 0 THEN <<>> ELSE <<o>>)
         \/ ecdh(c)
    \/ (aborted \/ kcalls = MaxKeyCalls) /\ UNCHANGED keyVars

KeySpec == KeyInit /\ [][KeyNext]_keyVars

-----------------------------------------------------------------------------
(* Tweaking and negating the secret key and the public key made from it    *)
(* are the same operations: where both went through the same calls, in     *)
(* whatever order, either both had a failure or neither, and without one   *)
(* the public key is still that of the secret key.                         *)
KeyPairKept ==
    (hseckey.paired /\ hpubkey.paired /\ hseckey.done = hpubkey.done /\ ~aborted) =>
        /\ hseckey.failed = hpubkey.failed
        /\ ~hseckey.failed => ValidSecret(seckey) /\ pubkey = Multiple[seckey]

(* A public key object holds zeros or a finite point of the curve, except  *)
(* for a sum with a key that did not load; a call that fails without an    *)
(* illegal argument leaves zeros.                                          *)
PublicKeysValid ==
    /\ CASE pubkey = OffCurve -> hpubkey.failed
         [] OTHER -> pubkey = ZeroKey \/ \E k \in 1 .. Order - 1 : pubkey = Multiple[k]
    /\ outcome = Outcome("public", FALSE, FALSE) => pubkey = ZeroKey
=============================================================================
