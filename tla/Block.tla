-------------------------------- MODULE Block --------------------------------
(***************************************************************************)
(* Blocks: how they are built from transactions and a reward, compacted,   *)
(* merged and validated (CoreImpl/Core/Block/Block.cs, TxKernel.cs and the *)
(* consensus rules that they use).  The header is reduced to its height:   *)
(* the rest of it is proof of work and hashes.                             *)
(***************************************************************************)
EXTENDS Transaction

CONSTANTS RewardAmount,    \* Consensus.RewardAmount
          MaxBlockWeight   \* Consensus.MaxBlockWeight

ASSUME BlockAssumption == RewardAmount \in Nat \ {0} /\ MaxBlockWeight \in Nat \ {0}

Reward(fees) == (RewardAmount + fees \div 2) % (MaxUlong + 1)

Exceeds_weight(inputLen, outputLen, kernelLen) ==
  inputLen + 10 * outputLen + 2 * kernelLen > MaxBlockWeight

\* The sum of the fees of transactions or kernels, in ulongs.
Fees(s) == Sum([i \in DOMAIN s |-> s[i].fee]) % (MaxUlong + 1)

\* The coinbase output and its kernel, whose signature is that of a message of
\* zeros: the one for no fee and no lock height.
Reward_output(k, fees) ==
  LET commit == Commit(Reward(fees), k)
  IN [output |-> [features |-> "CoinbaseOutput", commit |-> commit],
      kernel |-> [features |-> "CoinbaseKernel",
                  excess |-> commit_sum(<<commit>>, <<commit_value(Reward(fees))>>),
                  excess_sig |-> Sign(kernel_sig_msg(0, 0), Derived_key(k)),
                  fee |-> 0, lock_height |-> 0]]

\* The elements of s that are in S, in the order of s.
Keep(s, S) ==
  LET kept[i \in 0 .. Len(s)] ==
        IF i = 0 THEN <<>> ELSE IF s[i] \in S THEN Append(kept[i - 1], s[i]) ELSE kept[i - 1]
  IN kept[Len(s)]

CoinbaseOutputs(b) == {o \in ToSet(b.outputs) : o.features = "CoinbaseOutput"}
CoinbaseKernels(b) == {k \in ToSet(b.kernels) : k.features = "CoinbaseKernel"}

\* Mutant: only the inputs are dropped.
Compact_inputs(b) ==
  LET outSet == {o.commit : o \in ToSet(b.outputs) \ CoinbaseOutputs(b)}
  IN [b EXCEPT !.inputs = Keep(@, ToSet(@) \ outSet)]

\* An output that is not a coinbase and the inputs that spend it are dropped.
Compact(b) ==
  LET inSet == ToSet(b.inputs)
      outSet == {o.commit : o \in ToSet(b.outputs) \ CoinbaseOutputs(b)}
      toCompact == inSet \cap outSet
  IN [b EXCEPT !.inputs = Keep(@, inSet \ toCompact),
               !.outputs = Keep(@, {o \in ToSet(@) : o.commit \notin toCompact})]

\* with_reward calls verify_sig on each transaction, which throws.
with_reward_throws(txs) == \E i \in DOMAIN txs : ~verify_sig(txs[i])

with_reward(prevHeight, txs, reward) ==
  Compact([height |-> prevHeight + 1,
           inputs |-> FlattenSeq([i \in DOMAIN txs |-> txs[i].inputs]),
           outputs |-> Append(FlattenSeq([i \in DOMAIN txs |-> txs[i].outputs]), reward.output),
           kernels |-> Append([i \in DOMAIN txs |-> Kernel(txs[i])], reward.kernel)])

\* Block.New.
New(prevHeight, txs, k) == with_reward(prevHeight, txs, Reward_output(k, Fees(txs)))

Merge(b, other) ==
  Compact([b EXCEPT !.inputs = @ \o other.inputs,
                    !.outputs = @ \o other.outputs,
                    !.kernels = @ \o other.kernels])

total_fees(b) == Fees(b.kernels)

\* Mutant: all of the fees are added to the reward.
Overage_full(b) == AsLong(total_fees(b)) - RewardAmount

\* The division truncates towards zero.
Overage(b) ==
  LET fees == AsLong(total_fees(b))
  IN (IF fees < 0 THEN -((-fees) \div 2) ELSE fees \div 2) - RewardAmount

\* TxKernel.Verify.
Verify(kernel) ==
  verify_from_commit(kernel_sig_msg(kernel.fee, kernel.lock_height), kernel.excess_sig, kernel.excess)

Excesses(kernels) == [i \in DOMAIN kernels |-> kernels[i].excess]

\* The error that verify_coinbase throws, or "ok".  A sum that commit_sum cannot
\* encode is a BlockError.Secp.
verify_coinbase(b) ==
  LET cbOuts == Commits(Keep(b.outputs, CoinbaseOutputs(b)))
      cbKerns == Excesses(Keep(b.kernels, CoinbaseKernels(b)))
      outAdjustSum == commit_sum(cbOuts, <<commit_value(Reward(total_fees(b)))>>)
      kernsSum == commit_sum(cbKerns, <<>>)
  IN IF Infinity \in {outAdjustSum, kernsSum} THEN "Secp"
     ELSE IF outAdjustSum # kernsSum THEN "CoinbaseSumMismatch"
     ELSE "ok"

\* Mutant: the two sums are not compared.
verify_kernels_unsummed(b) ==
  IF \E i \in DOMAIN b.kernels : b.kernels[i].lock_height > b.height THEN "KernelLockHeight"
  ELSE IF \E i \in DOMAIN b.kernels : ~Verify(b.kernels[i]) THEN "IncorrectSignature"
  ELSE "ok"

\* The loop over the kernels checks one lock height, the sums and all signatures
\* in each round.
verify_kernels(b) ==
  LET ioSum == sum_commitments(b.inputs, b.outputs, Overage(b))
      proofSum == commit_sum(Excesses(b.kernels), <<>>)
      Early(i) == b.kernels[i].lock_height > b.height
  IN IF b.kernels = <<>> THEN "ok"
     ELSE IF Early(1) THEN "KernelLockHeight"
     ELSE IF \E i \in DOMAIN b.outputs : ~Verify_proof(b.outputs[i]) THEN "InvalidRangeProof"
     ELSE IF Infinity \in {ioSum, proofSum} THEN "IncorrectCommitSum"
     ELSE IF ioSum # proofSum THEN "KernelSumMismatch"
     ELSE IF \E i \in DOMAIN b.kernels : ~Verify(b.kernels[i]) THEN "IncorrectSignature"
     ELSE IF \E i \in DOMAIN b.kernels : Early(i) THEN "KernelLockHeight"
     ELSE "ok"

\* Block.Validate.
Validate(b) ==
  IF Exceeds_weight(Len(b.inputs), Len(b.outputs), Len(b.kernels)) THEN "WeightExceeded"
  ELSE IF verify_coinbase(b) # "ok" THEN verify_coinbase(b)
  ELSE verify_kernels(b)
==============================================================================
