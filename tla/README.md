# A verification project for grin-dotnet

grin-dotnet is a port to C# of the wallet, the keychain and the core types of
Grin, a Mimblewimble chain. The program is the wallet server: an ASP.NET Core
application (`src/src/Grin`) that keeps a wallet file, sends and receives
payments over HTTP and asks a Grin node, which is not part of the repository,
for the state of the chain. Its cryptography is the C library secp256k1-zkp,
whose sources are in `src/original/rust-secp256k1-zkp/depend/secp256k1-zkp` and
which `src/src/Secp256k1-zkp` calls by P/Invoke. This directory holds TLA+ models
of the wallet and of the library, the TLC configurations that check them, and
TLAPS proofs.

## 1. Inventory

| component | state | operations | who uses it |
|---|---|---|---|
| wallet file store (`WalletData.With_wallet`, `Read_wallet`, `Read_or_create`, `Read`, `Write`) | `wallet.dat` (JSON), `wallet.lock` | read under no lock; read, change and rewrite under the lock file | every request handler, in any number of processes on one directory |
| wallet contents (`WalletData`, `OutputData`) | outputs by key id: value, status, height, lock height, coinbase flag | `Add_output`, `Delete_output`, `Lock_output`, `Select`, `Next_child`, `eligible_to_spend` | sender, receiver, checker |
| sender (`Sender`) | none of its own | `issue_send_tx`: refresh, tip, select, record the change, build, POST, then lock the coins or delete the change; `issue_burn_tx` | `ServerController` |
| checker (`Checker`) | none | `refresh_outputs`: snapshot of the wallet, query of the node, application of the answer; `get_tip_from_node` | sender, info |
| receiver (`WalletReceiver`) | none | `receive_json_tx`: record the output, build and validate the transaction, push it to the node; `receive_coinbase` | HTTP, coinbase handler |
| coinbase handler (`CoinbaseHandler`) | none | `build_coinbase` | the miner |
| client (`Client`, `ApiClient`) | a shared `HttpClient`, 15 s timeout | `send_partial_tx`, `create_coinbase` with retries | sender, miner |
| info (`Info`) | none | refresh, totals | `ServerController` |
| server (`ServerController`, `Startup`, `Program`) | singletons: configuration, keychain | one thread for each request | users, other wallets, the miner |
| wallet seed (`WalletSeed`) | `wallet.seed` | `init_file`, `from_file` | startup |
| keychain (`Keychain`, `ExtendedKey`, `BlindSum`) | derivation cache, overrides | `Derived_key`, `Commit`, `Blind_sum`, signatures | sender, receiver, builder |
| transactions (`Build`, `Transaction`, `TxKernel`, `Committed`) | values | the builder's combinators, `verify_sig`, `Validate` | sender, receiver, blocks |
| blocks (`Block`, `Consensus`) | values | `New`, `with_reward`, `Compact`, `Merge`, `Validate` | coinbase handler (`Reward_output`), tests |
| serialization (`Ser`) | values | readers, writers, hashes | API, hashes |
| consensus and difficulty (`Consensus`, `Global`, `Difficulty`) | parameters | reward, weight, next difficulty, header versions | blocks |
| secp256k1 binding (`Secp256k1-zkp`) | native contexts | marshalling | keychain, transactions |
| library: field, scalars (`field_*`, `scalar_*`) | values in limbs | lazy reduction, products, inverses, splits, recodings | points, signatures |
| library: points, multiplication (`group_*`, `ecmult*`) | points, tables, the blinding pair of `ecmult_gen` | addition, doubling, the three multiplications | signatures, commitments |
| library: hashing (`hash_impl.h`) | a buffer and a length, an HMAC, a generator | write, finalize, draw | nonces, generators, range proofs |
| library: keys and signatures (`secp256k1.c`, `ecdsa_impl.h`, `eckey_impl.h`, recovery, ECDH) | caller's objects | parse, serialize, tweak, sign, verify, recover | binding |
| library: contexts (`secp256k1.c`) | heap blocks, callbacks | create, clone, randomize, destroy | binding (`Lib/Secp256k1.cs`) |
| library: commitments (generator and rangeproof modules) | caller's objects | generate, commit, blind sums, tally | binding |
| library: range proofs (`rangeproof_impl.h`, `borromean_impl.h`) | caller's objects | sign, verify, rewind, info | binding |
| Merkle range types, API types, configuration | values | none | - |

The rest of `src/original` is the Rust project that was ported, kept as a
reference; it is not run and not modelled.

How the parts interact: a request runs on a thread of its own and makes several
separate accesses to the wallet file and several HTTP calls; nothing is held
between them. A send therefore spans two wallets, the node and the miner. The
hard behaviours are

- concurrent requests, and a second process, on one `wallet.dat`; exceptions and
  crashes between opening the lock file and disposing of it;
- coins selected in one access and locked in another, after a remote call; a
  reply that is late although the payment went through;
- answers of the node applied to a wallet that has changed meanwhile; keys that
  come back after an output was deleted;
- arithmetic at the edges: confirmations, `amount - fee`, fees halved in one
  place and summed in another;
- a transaction that two parties build, and cut-through in blocks;
- in the library: lazily reduced limbs, whose bounds hold only if every caller
  respects magnitudes that a release build does not track; scalars, points and
  amounts at the edges, which random tests meet with probability 2^-128; secret
  values kept as pairs that have to change together; calls that fail half way
  and must leave their outputs in a defined state; bytes of others to parse. The
  wallet installs no illegal-argument callback, so a violated precondition ends
  the process.

The list of hazards, each at its line, is in `PROJECT.json`.

What makes each part correct: the store is one atomic object and loses no
update; a selection is spendable, bounded and sufficient; a wallet's view never
runs ahead of the chain, a payment's coins stay out of reach and its outputs stay
tracked; a request ends; a verified transaction balances; a validated block
creates the subsidy and nothing else. Of the library: limbs stand for the numbers
that arithmetic says, points for the ones that the group law says; what is signed
verifies and what was altered does not; commitments tally exactly when they
balance; a range proof proves the range its header states and can be rewound.

## 2. Modules

| module | models | state and actions |
|---|---|---|
| `WalletStore` | what `With_wallet` and `Read_wallet` promise | an atomic wallet; `Update` and `Observe` take effect in one step; a call that throws has none, unless a fault ended it after its update; only a fault may lose the wallet |
| `WalletFile` | `With_wallet`, `Read_wallet` as file-system calls | `lock`, `readers`, `writer`, `file`, `content`; one action for each call: `OpenLock`, `OpenLockFails` (retry or throw), `Read_or_create`, `Read`, `Closure`, `Write`, `Flush`, `FlushFails`, `Release`, `ReleaseFails`, and `Finalize`, `Crash`; `struck` remembers where a disk error hit a call |
| `WalletData` | `WalletData`, `OutputData`, `Types.tx_fee`, `Algo.Tuples`, the per-output part of `Checker` | operators on `Outputs`, a function from keys to records; a key is a root and a child index |
| `CoinSelection` | one call of `Select` from `build_send_tx` | a wallet, a request, the result |
| `WalletPayments` | sender, receiver, checker, coinbase handler, the POST between wallets; the node and the miner as far as the code relies on them (external) | each wallet's outputs; where each request is and what it holds; `utxo`, `pool`, `mined`, `tip` of the node; `late` and `orphaned` remember late replies and keys that were freed during a refresh |
| `Transaction` | `Build`, `Transaction`, `Committed`, `BlindSum`, the kernel message | operators; a commitment is its value and a sum of keys |
| `Block` | `Block`, `TxKernel.Verify`, `Consensus.Reward`, `Exceeds_weight` | operators; `Validate` is the error thrown, or `"ok"` |
| `Mimblewimble` | calls of `Build.Transaction` by sender and receiver, `Block.New`, `Block.Merge` | the state of each exchange, the blocks built |
| `MC...` | instances for TLC | - |
| `DataLemmas` | - | lemmas on least numbers, recursive functions, remainders and sequences that all proofs use |
| `WalletFileProofs`, `WalletDataProofs`, `CoinSelectionProofs`, `WalletPaymentsProofs`, `MimblewimbleProofs`, `RangeCallsProofs` | - | the proofs about the module of that name (section 4) |
| `SecpCallsProofs` | - | the proofs about `SecpContext`, `KeyCalls` and `SigCalls` |

The library, from the limbs up:

| module | models | state and actions |
|---|---|---|
| `Once` | - | an operator that evaluates an argument once |
| `Limbs` | - | numbers as arrays of words, and arithmetic to compare with |
| `Field10x26`, `Field5x52` | `field_10x26_impl.h`; `field_5x52_impl.h`, `field_5x52_int128_impl.h` | operators, limb by limb: normalization, products, storage, the VERIFY checks |
| `FieldCalls` | a caller of either | two elements and the residues they should be; one action for each call, guarded by the preconditions a VERIFY build asserts |
| `AdditionChain` | `fe_sqrt`, `fe_inv`, `scalar_inverse` | the exponent in each variable; a squaring or a product is a step |
| `Scalar`, `Wnaf` | `scalar_8x32_impl.h`, `scalar_impl.h`; the recodings of `ecmult_impl.h` and `ecmult_const_impl.h` | operators, limb by limb |
| `ScalarCalls` | a caller of them | two scalars and the numbers they should be; one action for each call |
| `CurveField`, `Group` | field elements with magnitudes; `group_impl.h` | operators, statement by statement |
| `Curve` | - | the textbook's group law on a small curve, the multiples of the generator |
| `GroupCalls` | a caller of `Group` | a Jacobian and an affine point and the multiples of the generator they should be |
| `Ecmult` | `ecmult_impl.h`, `ecmult_const_impl.h`, `ecmult_gen_impl.h` | tables, the generator's context, the running multiplication; an iteration of a loop is a step |
| `Hash` | `hash_impl.h` without the compression function | a hash, an HMAC, a generator; `Write`, `Seed`, `Draw`, `Wipe` |
| `Ecdsa` | `ecdsa_impl.h`, `eckey_impl.h`, recovery, the nonce loop | operators over a small curve's group |
| `KeyCalls`, `SigCalls` | the API on keys and on signatures | the caller's objects, what was done to them; one action for each API call |
| `SecpContext` | contexts in `secp256k1.c` | a heap of blocks, the contexts in it; one action for each API call |
| `Der` | the DER codec of `ecdsa_impl.h` | an input that is edited byte by byte |
| `Pedersen` | generators, commitments, `blind_sum`, `blind_generator_blind_sum`, `verify_tally` | a generator and a list of commitments; one action for each API call |
| `RangeParams`, `RangeCalls` | `range_proveparams`, `getheader_impl`, `rangeproof_info` | a request and a header, which may be edited |
| `RangeProof` | `rangeproof_impl.h`, `borromean_impl.h` | a proof, which may be edited; `sign`, `verify` and `rewind` of it |

`WalletPayments` and `CoinSelection` extend `WalletData`; `Mimblewimble` extends
`Block`, which extends `Transaction`. `WalletPayments` takes `With_wallet` to be
atomic, or to throw, without effect or (`With_wallet_throws`) after it: that is
`WalletStore`, which `WalletFile` is shown to implement. Once a fault has destroyed
`wallet.dat` every call throws; `WalletPayments` ends before that. It takes the validation of the final transaction to refuse
exactly what does not balance: that is `SignatureProvesBalance` of
`Mimblewimble`.

The library's modules rest on each other in the same way, each layer on what the
one below is checked to do. `FieldCalls` and `ScalarCalls` check that limbs
compute with residues as long as the preconditions hold. `CurveField` therefore
has residues, with the magnitude that tells whether the preconditions hold: a
call that breaks one gives an element that taints all that is computed from it,
and `PointsObeyGroupLaw` says there is none. `GroupCalls` and `Ecmult` check
against the multiples of the generator, so `Ecdsa` and `Pedersen` take those
multiples as given. `RangeProof` goes one step further and has points as their
logarithms. `MCSecpArithmetic` and `MCSecpCalls` put the callers of the units side
by side: the units share no state, so a behaviour is one caller of one of them.

Abstractions:

- The contents of `wallet.dat` in `WalletFile` are the set of the calls whose
  change they hold; a closure adds its own call. This keeps what the properties
  tell apart: which updates a wallet has and which wallet a call was given.
- Sharing modes are those of Windows. The native library is loaded from
  `Libs/x64/secp256k1.dll`, so that is where the program runs; there
  `FileShare.None` on the lock and the modes of `File.OpenText` and
  `File.CreateText` on the wallet exclude each other.
- In `WalletPayments` a fault stands for whatever makes a step throw: a lock that
  cannot be had or released, a node or a wallet that cannot be reached, a lost
  answer. Faults are counted; a fault may also be an error *after* the remote side,
  or the wallet file, has changed. The 15 s timeout on a reply of the receiver is not
  a fault: it may expire whenever a send waits. A node that does not answer is a
  fault of the step that asks it, which then ends. Key ids are hashes: `Select` sorts by them, so their order is a
  constant (`KeyRank`) that does not follow the child indexes.
- A blinding factor is a function from keys to integer coefficients, so that two
  sums are equal only when they are so for all keys. A signature verifies for a
  commitment to zero with the same factor or its negative, since
  `verify_from_commit` tries both parities. A sum that is the point at infinity
  makes `commit_sum` throw, a zero sum of blinding factors makes
  `Build.Transaction` throw.
- `ulong` arithmetic wraps where the code's does: `amount - fee`,
  confirmations, the sums of fees and the cast in `Overage`. The `uint` of
  `Next_child` (`WalletData.cs:294`) does not: a child index is a natural, since a
  wallet would need 2^32 outputs to wrap it.
- The receiver's own computation of the fee is modelled (`Fee_disputed`); it refuses
  nothing in these models, because a sender that runs this code always sets the fee
  that the receiver computes. The node's rules are those that the wallet relies on.
- In the library, sizes are constants and the runs scale them down; carries,
  masks, orders of statements and word widths relative to the limbs stay. Words
  wrap. The compression function of SHA-256, the hash and the generator behind
  range proofs, and the nonce functions of callers are parameters, with small
  definitions in the MC modules that do collide and do go out of range, so that
  the retries happen.
- `Transaction` has commitments, sums and signatures by what the binding and the
  library compute of them; `Pedersen` and `SigCalls` check that of the library.
- Field elements are packed for storage with the shifts and masks of the code
  (`Repack`). The `_fast` macros of the scalars drop the carries that the code says
  cannot be, in the columns where the code uses them.
- Where the code clears memory or takes both branches to be constant in time, the
  model has what is left in the objects a caller can see.

Definitions whose comment starts with "Mutant" are altered copies of the
definition that follows them, each with a plausible mistake; `PROJECT.json` says
which property finds it.

## 3. Runs

`tlc -config X.cfg M`, each in about two minutes at most.

| run | instance | shows |
|---|---|---|
| `wallet_file` | 3 writers and a reader in 2 processes, 2 retries, 2 faults; 290 903 states | `LockExclusion`, `NoLostUpdate`, `Serializable`, `ThrowLeavesNoTrace`, `TornOnlyByFault`; `WalletFile` implements `WalletStore`; every call ends |
| `coin_selection` | wallets of two outputs in every stage, and of four spendable ones; 7 amounts, 3 limits, 3 minima, both strategies; 190 754 states | `SelectionSpendable`, `FundsFound`, `NextChildFresh` |
| `coin_selection_spare` | the wallets of spendable outputs | *violated*: of two outputs of 1 both are taken to pay 1 |
| `payments` | 2 sends, one to the own wallet, a coinbase, 1 fault, timeouts at any time; 363 355 states | `SentCoinsStayLocked`, `LockedOnlyIfPushed`, `ReceivedTracked`, `UnspentWasMined`, `StatusMoves`, `RequestEnds` |
| `payments_double_spend` | 2 sends | *violated*: both post the same coin |
| `payments_change` | 1 send, no fault | *violated*: the change of a mined transaction is deleted after a timeout |
| `payments_stale_refresh` | a send, 2 refreshes | *violated*: an output in the UTXO set is marked spent for good |
| `payments_reused_key` | a send, a refresh, a coinbase, no fault | *violated*: a coinbase that is not on the chain is marked unspent |
| `blocks` | up to 3 of 9 exchanges, 2 blocks and a merge, 2 heights; 35 996 states | `SignatureProvesBalance`, `BlockOfValidTxs`, `SupplyKept`, `CutThrough` |
| `blocks_odd_fee` | the same | *violated*: two odd fees make a block that validates |
| `secp_arithmetic` | one caller of the field, scalars, chains, hashing, points or multiplication; 83 712 states | `FieldCorrect`, `ScalarCorrect`, `SplitIsShort`, `RecodingsAddUp`, `ChainsRaise`, `HashesStandard`, `PointsObeyGroupLaw`, `MultiplesRight`, `GenBlindingCancels` |
| `secp_calls` | one caller of keys, signatures, DER, contexts, commitments, range parameters or range proofs; 204 273 states | `KeyPairKept`, `SignaturesVerify`, `RecoveryRight`, `DerExact`, `ContextsOwnTables`, `ObjectsHoldPoints`, `TalliesBalance`, `RangesHold`, `ProofsRewindable`, `EditedRefused` |

Why the bounds are enough. The lock protocol is symmetric in its calls: three
writers give a holder, a leaked holder and one waiting, the reader makes the
unlocked open fail and be failed by; two faults give a crash after a torn write;
two retries give a first, a middle and a last attempt. Selection is decided by
how an amount compares with sums of at most `maxOutputs` outputs, so groups of
1 to 3 of four outputs reach full groups, a short last one, a later group that is the
first to cover the amount, and the fallback. Payments: the conflicts are between two requests on one coin, one key
or one output, and between a request and one or two blocks; a wallet that pays
itself makes the receiver and the sender meet in one file. Blocks: the nine
exchanges are one for each way an exchange can go (ordinary, chained, conflicting,
odd fee with two coins, a false amount, an amount below the fee, cancelling
factors at the receiver and at the sender, spending a reward), and three at a time
let a chained pair meet a third. `MaxBlockWeight` is set so that some of the blocks
exceed it, `Heights` so that a lock height is met by one block and not by another,
and a `ulong` has 8 bits, so that an amount below the fee wraps.

`CutThrough` speaks of one block, or of a merge whose transactions do not conflict.
Two blocks built apart may hold conflicting transactions; the second `Compact`
then sees what the first has left, and a commitment that one side spends twice is
not what the transactions together say. `Validate` refuses
such a merge, as every other: it has two rewards.

The library's instances. Field elements have 4 limbs of 5 bits modulo 2^19 - 35
and 5 limbs of 6 bits modulo 2^29 - 1, with words a few bits wider than the limbs
as in the code, so that the largest magnitude fits and one more would not; the
numbers loaded lie at 0, at p, at the top and where every limb is full. Scalars
are those below 4003 in four 3-bit limbs (calls) and below 229 in two 4-bit limbs
(multiplication), with a 2^w - n that has, like the real one, one limb more than
half and a last limb of 1. The addition chains are the real ones, for the real p
and n. Points are those of a curve with p = 223 and 229 points, multiplications
use windows of 3 and 4 bits and tables of 2 bits. `ecmult_const` is checked, with and
without the endomorphism, for the 16 scalars of `ConstScalars`: the ends, the middle,
lambda and its opposite, with their neighbours; for all 229 the run passes too, in
three minutes. That it never doubles infinity (`ConstNeverInfinity`, the VERIFY_CHECK
of `gej_double_nonzero`) rests there on the size of the two parts: a prefix of their
digits stands for a pair of numbers too small to be in the lattice of those that
cancel, and not zero, as its digits are odd. The API uses a curve with
p = 79 and 67 points and 7-bit strings, so that x coordinates exceed the order
and strings exceed both, as happens with probability 2^-128 at full size. Both
orders are prime and both curves have `y^2 = x^3 + b`, hence the endomorphism.
Hash blocks have 8 bytes, digests 4, and pieces of sizes around the block and
around the place of the length. DER is over 32 values of a byte with a `size_t`
of 2 bytes; at every position of an encoding a byte is replaced, inserted or
deleted. Amounts have 8 bits and exponents up to 2 in the parameters, 6 bits and
up to 1 in the proofs. The proofs' group has order 510007 and a fixed hash: large
enough that an edited proof does not pass by chance, which with a real hash is
only improbable. The heap for contexts has 6 blocks: a context that can
both sign and verify has four tables in it, one for a single purpose has two and can
be cloned twice, and the heap can run out between the allocations of a context.
A range proof whose value has a digit that its last ring does not have, for which
`rewind` reads numbers that were never set (`Unset`), would need a hash of a special
form (2^-13 here, 2^-129 in the code) and is not met at these bounds.

Fairness. `WalletFile!FairSpec` assumes that the thread of a call that can take
its next file-system call takes it. Nothing is assumed of the garbage collector,
so `EveryCallEnds` holds even if a leaked lock is never finalized.
`WalletPayments!FairSpec` assumes the same of the threads of a wallet's own requests,
the expiry of its `HttpClient`'s timeout (`ApiClient.cs:26`) included. Nothing is
assumed of the wallet that a send is posted to, which may never answer, nor of the
miner, of new requests or of faults. That is what the thread pool's scheduling and
the timeout give. `Crash`, `Finalize`, faults, `HandlerStep` and `Mine` are never
forced.

The library runs in the caller's thread and waits for nothing; its runs have no
fairness and no liveness property.

Deadlock is checked except in the `blocks` runs, where the bounded number of
library calls simply runs out.

## 4. Proofs

`tlapm M.tla` checks each of the modules below; all constants are arbitrary, so the
theorems hold for any number of calls, wallets, coins, orders, contexts and faults,
any curve of odd prime order and any keys, messages and amounts.

| module | theorem | property of the run | assumes |
|---|---|---|---|
| `WalletFileProofs` | `TypeCorrect`, `MutualExclusion`, `UpdatesKept`, `UpdatesSerializable`, `FailureAtomic`, `FileIntact` | `TypeOK`, `LockExclusion`, `NoLostUpdate`, `Serializable`, `ThrowLeavesNoTrace`, `TornOnlyByFault` | `CallsAssumption`, `BoundsAssumption` |
| | `Refinement` | `ImplementsStore` | the same |
| `CoinSelectionProofs` | `ChangeKeyIsFresh`, `SelectedMayBeSpent`, `FundsAreFound` | `NextChildFresh`, `SelectionSpendable`, `FundsFound` | `SelectionAssumption` |
| `WalletPaymentsProofs` | `StatusesMove`, `LockedArePushed`, `ReceivedAreTracked`, `UnspentIsMined` | `StatusMoves`, `LockedOnlyIfPushed`, `ReceivedTracked`, `UnspentWasMined` | `PaymentsAssumption` |
| | `SentStayLocked`, `ChangeIsKept`, each as long as `NothingFailed`: no fault, no late reply | `SentCoinsStayLocked`, `ChangeTracked` | also `KeyIdsDiffer` |
| `MimblewimbleProofs` | `SignaturesBalance`, `SupplyIsKept`, `CutThroughIsRight` | `SignatureProvesBalance`, `SupplyKept`, `CutThrough` | `BlockAssumption`, `OrdersAssumption` |
| `SecpCallsProofs` | `TablesAreOwned` | `ContextsOwnTables` | `BlocksAssumption` |
| | `KeysStayPaired` | `KeyPairKept` | `BytesAssumption`, `GroupAssumption`, `KeysAssumption` |
| | `MadeSignaturesVerify`, `RecoveryIsRight` | `SignaturesVerify`, `RecoveryRight` | `BytesAssumption`, `GroupAssumption`, `SignersAssumption` |
| `RangeCallsProofs` | `RangesAreHeld` | `RangesHold` | `WidthAssumption`, `AskedAssumption` |
| | `SixtyFourBitsAreRoomy` | - | nothing |

The assumptions are ASSUMEs of the modules they are about, which TLC evaluates, but
for `KeyIdsDiffer`, which speaks of all naturals and is a hypothesis of the two
theorems:

- `CallsAssumption`, `BoundsAssumption`: writers are calls, each call has a
  process, `NoCall` is none of them; bounds are naturals.
- `SelectionAssumption`: wallets are finite, key ids of one root differ, amounts are
  naturals and what a wallet may spend is worth less than 2^64.
- `PaymentsAssumption`: a call is of one kind and has a wallet, the outputs of the
  first block are finitely many and have keys of their own.
- `KeyIdsDiffer`: the key ids of a wallet are different; they are hashes of
  different public keys. Without it `OrderBy(o => o.KeyId)` has several results.
- `BlockAssumption`, `OrdersAssumption`: amounts are `ulong`s, fees so small that
  those of a block add up to less than half of a `ulong` (as the fees of `tx_fee`
  do), a miner's key is not the key of an output of a transaction. Orders are
  otherwise arbitrary: false amounts, reused keys, conflicting inputs.
- `BlocksAssumption`: no block of the heap is `NULL`.
- `BytesAssumption`: 32 bytes exceed neither the field nor the order of the group
  more than once, and no point has x = 0. `GroupAssumption`: the points of the curve
  are the multiples of the generator, of which the order is an odd prime; opposite
  multiples share x; `fe_sqrt` finds a root of every square. Both hold for secp256k1
  (cofactor 1, p = 3 modulo 4, 7 is not a square), and TLC evaluates them for the
  small curve. How points are added is not assumed: a multiple is the one that the
  group has, as `MultiplesRight` and `PointsObeyGroupLaw` check.
- `KeysAssumption`, `SignersAssumption`: keys, tweaks, messages and nonces are
  strings of 32 bytes, a nonce function may fail. No nonce gives r = 0 (`GivesR`):
  `ecdsa_sig_sign` asks that of its callers and none checks it, see section 5.
- `WidthAssumption`: the width of an amount and the largest exponent are `Roomy`, that
  is, no number of scaled bits lies so that it leaves neither half of the amounts free
  nor room for a minimum. It is needed: with 9 bits and exponents up to 2 the prover
  turns the value 226 with minimum 127 into a range that leaves the amounts, and the
  verifier refuses it. `SixtyFourBitsAreRoomy` proves it for the numbers of the code.
- `AskedAssumption`: amounts are unsigned numbers of that width, and at least two
  bytes follow the header.

Induction. The provers cannot use the library's induction theorems, so
`DataLemmas` has induction as the existence of a least number (`LeastNumber`),
which is proved from the naturals; from it follow that a recursively defined
function exists and obeys its equation (`Recursion`), that two that go in lockstep
agree (`SameSteps`), and that the position of an element under an injective rank
enumerates a finite set (`Ranking`). What `Sum`, `Keep`, `FlattenSeq`, `Total` and
the loops of the builder compute for every sequence rests on these, and so do the
powers and the digits of range proofs (`NatRecursion`) and the histories of keys.
The solver has no theory of remainders by a number it does not know; `Quotient`,
`SameRemainder` and `SameOperations` give it the rules of `%`.

### The wallet file

No property is inductive alone. `IInv` adds

- `LockInv`: who is between open and dispose holds the lock, and the holder is
  there or has thrown (a leaked handle still excludes, which is why a leak cannot
  break exclusion);
- `HandleInv`: the handles on `wallet.dat` agree with where calls are; a reader
  may have it open, so `Write` may fail, but never truncates under a reader;
- `CopyInv`: while a writer holds a `WalletData`, the file holds the same. This
  is the heart: it makes the read-modify-write atomic;
- `HistoryInv`: the file holds the changes of the calls that flushed one and of no
  other but crashed ones, each was given a part of the present wallet, and of any two
  exactly one saw the other. A call has flushed its change (`Wrote`) if it got beyond
  `Write`, or if it was its `Dispose` that threw;
- `TornInv`: a file that is cut short and closed was so by a call that a disk error
  struck inside `Write`, or that crashed.

`InitInv` and `StepInv` (one step for each action) give `Invariance`; the theorems
follow from it. For the refinement, `StepSim` shows that `Flush` is the abstract
`Update`, `Read` of a reader (or `Read_or_create` of a missing file) its
`Observe`, a throw its `Fail`, a crash or a disk error its `Fault`, which for a
`Dispose` that throws ends a call whose update is kept, and that every other step
stutters. The mapping shows a call's view only once its change is in
the file.

### Coin selection

`WalletDataProofs` says what the operations of `WalletData` do to any wallet:
`Next_child` is fresh, `Add_output`, `Delete_output`, `Lock_output` and the refresh
of an output keep the rest, `Eligible` lists the eligible outputs once each
(`EligibleIs`), `Select` returns a subsequence of them (`SelectIs`).
`CoinSelectionProofs` adds what sums do: they grow (`SumsGrow`) and any stretch of the
outputs has sums of its own (`StretchSums`), so `Select_from` takes enough of a group
that covers the amount, one output after that at most (`SelectFromCovers`, `TakenIs`),
and of any other none. `Select` gives what it takes of the first such group
(`SelectGroups`); outputs that fit in one transaction are one group (`OnePart`).
`SelectionInv` says that
what was returned is what `Select` returns for the request.

### Payments

`IInv` of `WalletPaymentsProofs` has `TypeInv` (each wallet has outputs under keys
of its own), `PushInv` (a sender that locks its coins has a transaction that the
node has taken), `NodeInv` (only coins that some wallet made reach the node),
`KeyInv` (received outputs and changes that are still held are tracked, under keys
that differ) and `LockedOnlyIfPushed`. `KeyInv` is where faults matter: a rollback
deletes the change of its own send only, because no other output has its key.
It holds with any number of faults.

Also with any number of faults, a refresh that is under way asks for outputs that its
wallet still tracks, unless a rollback has deleted them since, and then their keys are
in `orphaned` (`FlightInv`); heights come from blocks (`HeightInv`). So an answer that is
applied under another key than an orphaned one is about the output that has the key
(`RefreshedWasMined`), and `UnspentInv`, which is `UnspentWasMined`, is kept
(`RefreshInvariance`). Run `payments_reused_key` shows that the exception is needed.

`NoFaultInv` holds in addition until the first fault or late reply (`NothingFailed`): a
rollback follows only on an error of the receiver, before the transaction was pushed
(`InStep`), a send spends coins of its own wallet (`OwnCoins`), all that the node has is
tracked (`KnownTracked`) and a change that may still be deleted is not known to it
(`ChangeUnknown`). One late reply breaks it: the sender deletes the change of a
transaction that is mined, which is the finding of `payments_change`, and the freed key
is used again. That is why `SentStayLocked` and `ChangeIsKept` have the premise;
`SentCoinsStayLocked` holds in run `payments`, with a fault and with timeouts, and is
not proved for that case.

### Transactions and blocks

`MWInv` says of every exchange that its blinding factor is that of the outputs less
that of the inputs and is the one that signed (`Made`), and of every block that it
is made of commitments and small fees and, unless conflicting blocks were merged,
holds what its transactions spend and create (`IsBlock`).

- `SignaturesBalance`: a commitment to a sum has the sums of amounts and factors
  (`SumCommitments`), so the excess is a commitment to the imbalance under the
  factor that signed, and a signature verifies for it exactly when the imbalance is
  zero (`MadeVerifies`). The sender's and the receiver's parts keep `Made`,
  whatever the amounts (`SenderBuilds`, `ReceiverBuilds`, `BuiltIsMade`).
- `SupplyIsKept`: in a block that `Validate` accepts, each kernel's excess is a
  commitment to zero, hence so is their sum, which equals the sum of the outputs
  less the inputs and the overage (`ValidSupply`). The weight limits the number of
  kernels, so the fees do not wrap and the cast to `long` keeps them (`FeesFit`).
- `CutThroughIsRight`: `Compact` removes a commitment from both sides
  (`CompactIs`), `New` starts from all that the transactions hold (`NewIs`), and
  `Merge` compacts what is left of two blocks (`MergeIs`), which for transactions
  that do not conflict is what is left of all of them (`Apart`, `MergeKeeps`).

### Contexts

`CtxInv` says that the pointers of live contexts are a one-to-one enumeration of
the allocated blocks, each with what its field expects, and that a context has both
tables of a purpose or neither. The build has the endomorphism (`build.rs:39`), so the
two of verification are `pre_g` and `pre_g_128`; those of signing are `prec` and
`prec_switch`. The binding never sets the error callback (`Proxy.cs:36` has it as a
TODO), whose setter is left out. `NewContextOwns` (for
create and clone) and `DestroyOwns` are the two steps that change it.

### Keys

That two keys with equal histories belong together is not inductive: the calls on
the secret and on the public key come in any order, so most of the time the
histories differ. `KeyInv` therefore says of each key alone what its history makes
of the secret key that both were made from: a list of scalars leads from that one
to the key's, a step for each call (`StepOf`), and zero, which is never left again,
stands for a failure. For the secret key `SecretCalls` shows that a call takes that
step; for the public one `TweakedPoints` and `RoundTrip` show that it takes the same
step in the exponent, and fails exactly where the scalar becomes zero. Equal
histories lead to equal scalars (`HistoriesAgree`).

### Signatures

`SigInv` says of a signature object for a message that some nonce k gives its r and
that s k = r d + m modulo the order (`SigFor`), and of a recoverable one that its id
has the parity of the nonce's y and whether its x is above the order (`RSigFor`).
Such a signature verifies: the scalars of the verifier add up to k (`MadeVerifies`),
and x is r or r + n (`NonceX`). Negating s is the signature of the opposite nonce
(`NegatedSignature`), which is why normalization keeps it and why the sign flips a
bit of the id (`SignMakes`, `OppositeParity`). Recovery finds the nonce's point from
r and the id and from it the signer's key (`RecoverFinds`); whatever key it
finds for a compact signature of anyone, the signature is one of that key
(`RecoverValid`). The nonce's seed differs for different arguments because its length
tells which of them are given (`SeedParts`).

### Ranges

`RangeInv` only says that a header exists for arguments that the prover accepts; the
work is in what the two sides compute. `RangeFits` shows, for a precision that was
asked for and for one that the value needs, that the digits, scaled, and the minimum
stay below 2^W (this is where `Roomy` is used). `DigitsAddUp` and `DigitsInRings`
show that the rings' digits are the value's and that each is in its ring;
`RangeHeader`, `ExactHeader` and `ReadsRange` that the reader gets back what was
written, `ReadInRange` that it never reads a range that leaves the amounts, whatever
the bytes. `TwoTable` and `TenTable` tabulate the powers for 64 bits.

### Only model-checked

- Liveness (`EveryCallEnds`, `RequestEnds`), which is out of the prover's reach.
- `SentCoinsStayLocked` after a fault or a timeout, see above.
- `BlockOfValidTxs`: for arbitrary orders it is false, since orders that reuse keys
  can have excesses that cancel, and `commit_sum` cannot encode the sum. The
  instance has orders for which it holds.
- What is violated: the runs that expect it.
- Of the library: limbs (`FieldCorrect`, `ScalarCorrect`, `SplitIsShort`,
  `RecodingsAddUp`), whose reductions are right only for the modulus and the limbs of
  an instance; the addition chains (`ChainsRaise`), which are evaluated for the
  real exponents, so that TLC checks all there is; hashes and range proofs, which use
  bitwise operators that the provers do not accept; the formulas for points
  and the three multiplications (`PointsObeyGroupLaw`, `MultiplesRight`,
  `GenBlindingCancels`), for which the group law of a curve over any field would have
  to be proved first; DER, whose round trip through digits of any base was not
  attempted; generators and tallies
  (`ObjectsHoldPoints`, `TalliesBalance`), which rest on those formulas.
  `EditedRefused` also depends on a hash that does not collide, and is false for an
  arbitrary one.

## 5. Findings

`PROJECT.json` lists the six disagreements that runs show. Others were met while
modelling and have no run:

- `WalletData.Select` is documented to spend the smallest outputs first and, in the
  fallback, to return the largest amount it can; it sorts by key id and not by value,
  and where it says "use a sliding window" (`WalletData.cs:222`) the groups are
  disjoint (`Algo.Tuples`).
- A `Dispose` that fails makes `With_wallet` throw after the wallet was written
  (`WalletData.cs:104-107`): the caller cannot tell this from a call that changed
  nothing. A send whose coins were locked that way rolls back.
- An exception between `File.Open` and `Dispose` in `With_wallet` leaves
  `wallet.lock` open until the stream is finalized, although the comment says to
  hold the lock as short as possible (`WalletData.cs:47`). `WalletFile` has the
  leak (`Finalize`), and `EveryCallEnds` holds in spite of it.
- `eligible_to_spend` compares `Height + confirmations` with the current height
  in a way that selects outputs with too few confirmations, where
  `WalletData.cs:214` says "based on number of confirmations".
- `Read_wallet` takes no lock, so that a reader can make a writer's `Write` fail
  and the other way round; callers see an exception, and the wallet is intact.
- `receive_coinbase` with a key id always throws, in `retrieve_existing_key` or in
  `Add_output` (`WalletData.cs:170`).
- A test says of a merged block that it "should still be valid"
  (`BlockTests.cs:132`) without validating it; it has two rewards and is refused.
- A fee of 2^63 or more makes `Transaction.Overage` negative; `tx_fee` cannot
  produce one.
- `create_coinbase` says "retry forever" and retries five times, on `IOException`
  only.
- `secp256k1_switch_commit` uses 64 bits of a 256-bit blinding factor, where the
  comment in the rangeproof module's `main_impl.h:250` describes a commitment to
  all of it.
- `secp256k1_ecdsa_sig_sign` says of `r = 0` that it "should be checked before
  calling" (`ecdsa_impl.h:286`), and no caller checks it. The x coordinate n is on
  secp256k1, so there are two nonces for which it matters; nobody knows them. The
  second condition of that comment, `overflow == 0`, contradicts the code below it,
  which handles an overflow. `SignaturesVerify` is checked and proved for nonces
  that overflow, and for no nonce with `r = 0`.
- The first byte of the constant `secp256k1_generator_h` is `0x11`, while
  `generator_parse` accepts 10 and 11 in decimal: the library's own generator does
  not survive a round trip through parsing.
- A blinded generator whose parts add up to infinity is not looked for; it is saved
  as x = 0, which loads as no point (`GeneratorsValid` says so). `Pedersen` meets it on
  the small curve.
- `rangeproof_verify` looks at neither result of `fe_set_b32` and `ge_set_xquad` for a
  digit point (`rangeproof_impl.h:612-613`); a coordinate that is no point goes on into
  the rings. `EditedRefused` has such edits and they are refused, because the bytes
  are hashed.
- `generator_parse` and `pedersen_commitment_parse` accept any x coordinate; one
  that is on no point is met only when the object is loaded.

## 6. Not modelled, and the plan

Not modelled of the wallet: sends to `stdout` (`Sender.cs:85-92`) and
`issue_burn_tx`; routing, JSON and logging, API and configuration
types, the Rust sources under `src/original`. Of the library: the compression
function of SHA-256, which is a fixed formula; `scalar_4x64`, the GMP and the
assembly versions, which are other builds of what is modelled, and `scalar_low`,
which is for its tests; surjection proofs and the whitelist module, which the
wallet never calls; switch commitments; the setter of the error callback; the Java bindings, tests, benchmarks and
headers of declarations.

Planned, in this order:

1. `WalletSeed`: `init_file` and `from_file` with a crash between creating and
   writing the file, and two processes starting at once; `issue_burn_tx`, the
   destination `stdout` and `Info`'s totals in `WalletPayments`.
2. `Keychain`: `Derived_key` with its concurrent cache, its limit of 10000
   derivations and the burn overrides; it refines the abstract keys of
   `Transaction`.
3. `Serialization`: order on the wire and round trip of transactions and blocks.
4. `Difficulty`: `Next_difficulty`, `Valid_header_version`, against reference
   definitions.
5. `Client.create_coinbase` with its retries, composed with `receive_coinbase`.

Abstract specifications worth stating: a ledger of payments that
`WalletPayments` implements while nothing fails, and a UTXO set that a block
changes as its transactions would one by one.

Theorems worth proving next, with the group law of `gej_add_ge` as an assumption:
that the blinding pair of `ecmult_gen` cancels (`GenBlindingCancels`), that objects
hold points (`ObjectsHoldPoints`) and that tallies balance (`TalliesBalance`).
