-------------------------------- MODULE Limbs --------------------------------
(***************************************************************************)
(* Numbers kept as little-endian arrays of machine words, as secp256k1-zkp *)
(* keeps field elements and scalars.  The sizes are parameters of the      *)
(* operators: the library's limbs have 26, 32, 52 or 64 bits, a model's a  *)
(* few, and the carries, masks and comparisons are the same.               *)
(***************************************************************************)
EXTENDS Integers, FiniteSetsExt, Once

(* The number that the limbs n[0], n[1], ... of w bits stand for.           *)
ValueOf(n, w) == MapThenSumSet(LAMBDA i : n[i] * 2^(w * i), DOMAIN n)

(* Products and limb values modulo p in steps that stay below 2 * p.        *)
MulMod(x, y, p) ==
    LET m[v \in 0 .. y] ==
            IF v = 0 THEN 0 ELSE (2 * m[v \div 2] + (v % 2) * x) % p
    IN  m[y]

ResidueOf(n, w, p) ==
    LET last == Max(DOMAIN n)
        h[i \in 0 .. last] ==
            LET j == last - i   \* from the highest limb down
            IN  ((IF i = 0 THEN 0 ELSE MulMod(h[i - 1], 2^w, p)) + n[j]) % p
    IN  h[last]

(* The k limbs of w bits of a number.                                       *)
LimbsOf(v, w, k) == [i \in 0 .. k - 1 |-> (v \div 2^(w * i)) % 2^w]

(* The words n[0], n[1], ... of w bits packed anew into k words of v bits:   *)
(* each takes its piece of every word that overlaps it, shifted and masked. *)
(* The pieces share no bit, so that | is their sum.                         *)
Repack(n, w, v, k) ==
    [j \in 0 .. k - 1 |->
       MapThenSumSet(LAMBDA i : (IF w * i >= v * j THEN n[i] * 2^(w * i - v * j)
                                 ELSE n[i] \div 2^(v * j - w * i)) % 2^v,
                     {i \in DOMAIN n : w * i < v * (j + 1) /\ v * j < w * (i + 1)})]

(* Column k of the schoolbook product of two arrays, "pk" in the comments   *)
(* of the sources.                                                          *)
Column(a, b, k) ==
    MapThenSumSet(LAMBDA i : a[i] * b[k - i],
                  {i \in DOMAIN a : k - i \in DOMAIN b})

(* One pass of carries from limb 0 to the last one, which keeps what it     *)
(* gets; the words hold `word' bits.                                        *)
Carry(t, w, word) ==
    LET last == Max(DOMAIN t)
        sum[i \in 0 .. last] ==
            (t[i] + (IF i = 0 THEN 0 ELSE sum[i - 1] \div 2^w)) % 2^word
    IN  [i \in 0 .. last |-> IF i = last THEN sum[i] ELSE sum[i] % 2^w]
=============================================================================
