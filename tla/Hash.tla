--------------------------------- MODULE Hash ---------------------------------
(***************************************************************************)
(* The hashing of secp256k1-zkp (hash_impl.h): SHA-256 fed piece by piece, *)
(* HMAC, and the generator of RFC 6979 that nonces and blinding values     *)
(* come from.  The compression function is a parameter, the sizes are      *)
(* scaled down; buffering, padding, lengths, keys and retries are as in    *)
(* the code.  A caller writes pieces of any size, or draws values from a   *)
(* generator again and again.                                              *)
(***************************************************************************)
EXTENDS Once, Integers, Sequences, SequencesExt, Bitwise

CONSTANTS Block,            \* bytes of a block, 64
          Digest,           \* bytes of a digest, 32
          WordBits,         \* bits of one of the two words of the length, 32
          IV,               \* the initial state
          Transform(_, _),  \* the compression of a state and a block
          Sizes,            \* bound: sizes of the pieces of a message
          KeySizes,         \* bound: sizes of keys
          MaxBytes,         \* bound: bytes of a message
          DrawSizes,        \* bound: sizes of the values of a generator
          MaxDraws          \* bound: values drawn from it

WordBytes == WordBits \div 8

\* s, what the buffer holds (old bytes included), and the bytes seen
sha256_initialize == [s |-> IV, buf |-> [i \in 1 .. Block |-> 0], bytes |-> 0]

\* the buffer with data put in after its first n bytes
Filled(buf, n, data) ==
    [i \in 1 .. Block |-> IF i \in n + 1 .. n + Len(data) THEN data[i - n] ELSE buf[i]]

\* the bytes that the first k blocks take when the buffer holds start
Taken(start, k) == IF k = 0 THEN 0 ELSE k * Block - start

\* the bytes of data after those of k blocks, up to the n-th, put in the buffer
Refilled(buf, start, data, k, n) ==
    Filled(buf, IF k = 0 THEN start ELSE 0, SubSeq(data, Taken(start, k) + 1, n))

\* full is the number of blocks that get complete
Absorbed(h, data, start, full) ==
    LET loop[k \in 0 .. full] ==
            IF k = 0 THEN [h EXCEPT !.bytes = @ + Len(data)]
            ELSE With(loop[k - 1], LAMBDA prev :
                   With(Refilled(prev.buf, start, data, k - 1, Taken(start, k)), LAMBDA buf :
                     [prev EXCEPT !.s = Transform(prev.s, buf), !.buf = buf]))
    IN  [loop[full] EXCEPT !.buf = Refilled(@, start, data, full, Len(data))]

sha256_write(h, data) ==
    Absorbed(h, data, h.bytes % Block, ((h.bytes % Block) + Len(data)) \div Block)

\* a word as bytes, most significant first
BE(w) == [i \in 1 .. WordBytes |-> (w \div 2^(8 * (WordBytes - i))) % 256]

Pad(n) == [i \in 1 .. n |-> IF i = 1 THEN 128 ELSE 0]

\* one byte of 0x80 and zeros up to the place of the length, in bits, in two words
sha256_finalize(h) ==
    sha256_write(
        sha256_write(h, Pad(1 + ((2 * Block - 2 * WordBytes - 1 - (h.bytes % Block)) % Block))),
        BE(h.bytes \div 2^(WordBits - 3)) \o BE((h.bytes * 8) % 2^WordBits)).s

sha256(data) == sha256_finalize(sha256_write(sha256_initialize, data))

Zeros(n) == [i \in 1 .. n |-> 0]
Masked(key, c) == [i \in DOMAIN key |-> key[i] ^^ c]

\* a long key is hashed first; outer and inner take it with two masks
Padded(key) == key \o Zeros(Block - Len(key))
Keyed(rkey) == [outer |-> sha256_write(sha256_initialize, Masked(rkey, 92)),
                inner |-> sha256_write(sha256_initialize, Masked(rkey, 54))]
hmac_sha256_initialize(key) ==
    Keyed(Padded(IF Len(key) <= Block THEN key ELSE sha256(key)))

hmac_sha256_write(h, data) == [h EXCEPT !.inner = sha256_write(@, data)]

hmac_sha256_finalize(h) ==
    sha256_finalize(sha256_write(h.outer, sha256_finalize(h.inner)))

\* the HMAC of the pieces, written one after the other
HmacOf(key, pieces) ==
    hmac_sha256_finalize(FoldLeft(hmac_sha256_write, hmac_sha256_initialize(key), pieces))

rfc6979_initialize(key) ==
    With([i \in 1 .. Digest |-> 1], LAMBDA v0 :
    With(HmacOf(Zeros(Digest), <<v0, <<0>>, key>>), LAMBDA k1 :
    With(HmacOf(k1, <<v0>>), LAMBDA v1 :
    With(HmacOf(k1, <<v1, <<1>>, key>>), LAMBDA k2 :
        [k |-> k2, v |-> HmacOf(k2, <<v1>>), retry |-> FALSE]))))

\* Mutant: later values go on from the same key.
RetriedNot(g) == g

\* a value after the first starts from a new key, so that no two share a state
Retried(g) ==
    IF ~g.retry THEN g
    ELSE With(HmacOf(g.k, <<g.v, <<0>>>>), LAMBDA k :
           [g EXCEPT !.k = k, !.v = HmacOf(k, <<g.v>>)])

\* n digests of output, the last one cut
Produced(g, outlen, last) ==
    LET out[n \in 0 .. last] ==
            IF n = 0 THEN [rng |-> [g EXCEPT !.retry = TRUE], out |-> <<>>]
            ELSE With(out[n - 1], LAMBDA o :
                   With(HmacOf(g.k, <<o.rng.v>>), LAMBDA v :
                     [rng |-> [o.rng EXCEPT !.v = v],
                      out |-> o.out \o SubSeq(v, 1, IF n < last THEN Digest
                                                    ELSE outlen - (last - 1) * Digest)]))
    IN  out[last]

rfc6979_generate(g, outlen) == Produced(Retried(g), outlen, (outlen + Digest - 1) \div Digest)

rfc6979_finalize == [k |-> Zeros(Digest), v |-> Zeros(Digest), retry |-> FALSE]

VARIABLES hash,   \* a hash that is being written to
          mac,    \* an HMAC, under the key macKey
          macKey,
          msg,    \* what has been written to both, in one piece
          rng,    \* a generator
          seed,   \* the key it was given, <<>> if none
          drawn,  \* the sizes of the values drawn from it
          drew    \* the values

hashVars == <<hash, mac, macKey, msg, rng, seed, drawn, drew>>

\* data of n bytes, different at each place of a message
Data(from, n) == [i \in 1 .. n |-> (7 * (from + i) + 3) % 256]

HashInit ==
    /\ hash = sha256_initialize
    /\ macKey \in {Data(100, n) : n \in KeySizes}
    /\ mac = hmac_sha256_initialize(macKey)
    /\ msg = <<>>
    /\ rng = rfc6979_finalize /\ seed = <<>> /\ drawn = <<>> /\ drew = <<>>

Write ==
    /\ seed = <<>>
    /\ \E n \in Sizes :
         LET data == Data(Len(msg), n)
         IN  /\ Len(msg) + n <= MaxBytes
             /\ hash' = sha256_write(hash, data)
             /\ mac' = hmac_sha256_write(mac, data)
             /\ msg' = msg \o data
    /\ UNCHANGED <<macKey, rng, seed, drawn, drew>>

Seed ==
    /\ seed = <<>> /\ msg = <<>>
    /\ seed' = macKey
    /\ rng' = rfc6979_initialize(seed')
    /\ UNCHANGED <<hash, mac, macKey, msg, drawn, drew>>

Draw ==
    /\ seed # <<>> /\ rng # rfc6979_finalize /\ Len(drawn) < MaxDraws
    /\ \E n \in DrawSizes :
         \E g \in {rfc6979_generate(rng, n)} :
             rng' = g.rng /\ drawn' = Append(drawn, n) /\ drew' = Append(drew, g.out)
    /\ UNCHANGED <<hash, mac, macKey, msg, seed>>

Wipe ==
    /\ seed # <<>> /\ rng # rfc6979_finalize
    /\ rng' = rfc6979_finalize
    /\ UNCHANGED <<hash, mac, macKey, msg, seed, drawn, drew>>

HashDone == UNCHANGED hashVars

HashNext == Write \/ Seed \/ Draw \/ Wipe \/ HashDone

HashSpec == HashInit /\ [][HashNext]_hashVars

-----------------------------------------------------------------------------
\* The standard's hash: the message, 0x80, zeros and its length in bits fill whole
\* blocks, and no block more than they need.
StandardPadded(m) ==
    m \o Pad(1 + CHOOSE z \in 0 .. Block - 1 : (Len(m) + 1 + z + 2 * WordBytes) % Block = 0)
      \o [i \in 1 .. 2 * WordBytes |-> ((8 * Len(m)) \div 2^(8 * (2 * WordBytes - i))) % 256]
Compressed(full) ==
    FoldLeft(LAMBDA s, k : Transform(s, SubSeq(full, (k - 1) * Block + 1, k * Block)),
             IV, [k \in 1 .. Len(full) \div Block |-> k])
Standard(m) == Compressed(StandardPadded(m))

MaskedTwice(k, m) == Standard(Masked(k, 92) \o Standard(Masked(k, 54) \o m))
StandardHmac(key, m) ==
    MaskedTwice(Padded(IF Len(key) > Block THEN Standard(key) ELSE key), m)

(* Hashing in pieces: whatever the sizes of the writes, and whatever old    *)
(* bytes the buffer still holds, the digest is that of the whole message,   *)
(* padded as the standard says; so also where the padding needs a block     *)
(* more and where the length needs its upper word.                          *)
DigestStandard == sha256_finalize(hash) = Standard(msg)

(* The same for HMAC, with keys shorter than, as long as, and longer than a *)
(* block.                                                                   *)
HmacStandard == hmac_sha256_finalize(mac) = StandardHmac(macKey, msg)

\* RFC 6979, 3.2: the state before and the value of the n-th draw
Rfc6979(key, sizes) ==
    LET \* the update with data (steps d to g), or with none after a refused value
        update(x, data) == With(StandardHmac(x.k, x.v \o data), LAMBDA k :
                                [k |-> k, v |-> StandardHmac(k, x.v), t |-> <<>>])
        start == update(update([k |-> Zeros(Digest), v |-> [i \in 1 .. Digest |-> 1], t |-> <<>>],
                               <<0>> \o key), <<1>> \o key)
        \* one more digest of output
        more(x)  == With(StandardHmac(x.k, x.v), LAMBDA v : [x EXCEPT !.v = v, !.t = @ \o v])
        value(x, size) == FoldLeft(LAMBDA y, i : more(y), x,
                                   [i \in 1 .. (size + Digest - 1) \div Digest |-> i])
        draw[n \in 0 .. Len(sizes)] ==
            IF n = 0 THEN start
            ELSE value(IF n = 1 THEN draw[0] ELSE update(draw[n - 1], <<0>>), sizes[n])
    IN  [n \in 1 .. Len(sizes) |-> SubSeq(draw[n].t, 1, sizes[n])]

(* Every value of the generator is the one of RFC 6979, in particular those *)
(* drawn after a first one was refused, and whatever the sizes asked for.   *)
NoncesStandard == seed # <<>> => drew = Rfc6979(seed, drawn)
=============================================================================
