------------------------------ MODULE Transaction ------------------------------
(***************************************************************************)
(* Transactions and how they are built and verified:                       *)
(* CoreImpl/Core/Transaction, CoreImpl/Core/Build, CoreImpl/Core/Mod and   *)
(* the parts of KeychainImpl that they call.                               *)
(*                                                                         *)
(* A blinding factor is a sum of derived keys with integer coefficients,   *)
(* so no two sums are equal by accident.  A Pedersen commitment            *)
(* v.H + r.G is the pair of its value and its blinding factor.  Amounts    *)
(* are ulongs, but commitments are summed in the curve's group, whose      *)
(* order is far above them: the sums of values below do not wrap.          *)
(***************************************************************************)
EXTENDS Integers, SequencesExt

CONSTANTS Keys,            \* the derived keys of all parties
          MaxUlong,        \* the largest amount
          MaxBlockInputs   \* Consensus.MaxBlockInputs

ASSUME TransactionAssumption == MaxUlong \in Nat /\ MaxBlockInputs \in Nat

\* The sum of a sequence of numbers.
Sum(numbers) ==
  LET sum[i \in 0 .. Len(numbers)] == IF i = 0 THEN 0 ELSE sum[i - 1] + numbers[i]
  IN sum[Len(numbers)]

NoBlind == [k \in Keys |-> 0]

Plus(a, b) == [k \in Keys |-> a[k] + b[k]]
Minus(a, b) == [k \in Keys |-> a[k] - b[k]]

Derived_key(k) == [NoBlind EXCEPT ![k] = 1]

------------------------------------------------------------------------------
(* Secp256K1PedersonExtensions: what the binding and the library compute *)

Commit(value, k) == [value |-> value, blind |-> Derived_key(k)]

commit_value(value) == [value |-> value, blind |-> NoBlind]

\* The point at infinity has no encoding: commit_sum throws IncorrectCommitSum.
Infinity == commit_value(0)

Values(commits) == Sum([i \in DOMAIN commits |-> commits[i].value])
Blinds(commits) == [k \in Keys |-> Sum([i \in DOMAIN commits |-> commits[i].blind[k]])]

commit_sum(positive, negative) ==
  [value |-> Values(positive) - Values(negative),
   blind |-> Minus(Blinds(positive), Blinds(negative))]

Sign(msg, blind) == [msg |-> msg, blind |-> blind]

\* The commitment is taken for a public key of either parity.
verify_from_commit(msg, sig, commit) ==
  /\ msg = sig.msg
  /\ commit.value = 0
  /\ commit.blind \in {sig.blind, Minus(NoBlind, sig.blind)}

------------------------------------------------------------------------------
(* Transaction.cs, Output.cs, TransactionHelper.cs, Committed.cs *)

\* Fee and lock height go to disjoint bytes of the message.
kernel_sig_msg(fee, lockHeight) == <<fee, lockHeight>>

Empty ==
  [inputs |-> <<>>, outputs |-> <<>>, fee |-> 0, lock_height |-> 0,
   excess_sig |-> Sign(<<>>, NoBlind)]

with_input(tx, commit) == [tx EXCEPT !.inputs = Append(@, commit)]
with_output(tx, output) == [tx EXCEPT !.outputs = Append(@, output)]

\* A range proof exists for amounts that are ulongs.
Verify_proof(output) == output.commit.value \in 0 .. MaxUlong

Commits(outputs) == [i \in DOMAIN outputs |-> outputs[i].commit]

\* An overage is added to the outputs when it is positive, to the inputs when it
\* is negative.
sum_commitments(inputs, outputs, overage) ==
  LET over == IF overage < 0 THEN <<>> ELSE <<commit_value(overage)>>
      under == IF overage < 0 THEN <<commit_value(-overage)>> ELSE <<>>
  IN commit_sum(Commits(outputs) \o over, inputs \o under)

\* The cast of a ulong to a long.
AsLong(n) == IF n <= MaxUlong \div 2 THEN n ELSE n - (MaxUlong + 1)

\* The excess of a transaction: the sum of its commitments, Overage() being its fee.
Excess(tx) == sum_commitments(tx.inputs, tx.outputs, AsLong(tx.fee))

verify_sig(tx) ==
  /\ \A i \in DOMAIN tx.outputs : Verify_proof(tx.outputs[i])
  /\ Excess(tx) # Infinity
  /\ verify_from_commit(kernel_sig_msg(tx.fee, tx.lock_height), tx.excess_sig, Excess(tx))

\* The kernel that verify_sig returns.
Kernel(tx) ==
  [features |-> "DefaultKernel", excess |-> Excess(tx), excess_sig |-> tx.excess_sig,
   fee |-> tx.fee, lock_height |-> tx.lock_height]

\* Transaction.Validate.
ValidTx(tx) ==
  /\ tx.fee % 2 = 0
  /\ Len(tx.inputs) <= MaxBlockInputs
  /\ verify_sig(tx)

------------------------------------------------------------------------------
(* Build.cs, BlindSum.cs: a context is a transaction and a sum of blinds *)

NewContext == [tx |-> Empty, sum |-> NoBlind]

initial_tx(build, tx) == [build EXCEPT !.tx = tx]

\* Mutant: the excess of the partial transaction is left out.
with_excess_ignored(build, excess) == build

with_excess(build, excess) == [build EXCEPT !.sum = Plus(@, excess)]

Output(build, value, k) ==
  [tx |-> with_output(build.tx, [features |-> "DefaultOutput", commit |-> Commit(value, k)]),
   sum |-> Plus(build.sum, Derived_key(k))]

Input(build, value, k) ==
  [tx |-> with_input(build.tx, Commit(value, k)),
   sum |-> Minus(build.sum, Derived_key(k))]

with_fee(build, fee) == [build EXCEPT !.tx.fee = fee]
with_lock_height(build, lockHeight) == [build EXCEPT !.tx.lock_height = lockHeight]

\* Build.Transaction signs with the sum of the blinding factors; a sum of zero is
\* not a secret key and makes it throw.
Transaction_throws(build) == build.sum = NoBlind

Transaction(build) ==
  [tx |-> [build.tx EXCEPT !.excess_sig =
             Sign(kernel_sig_msg(build.tx.fee, build.tx.lock_height), build.sum)],
   blind |-> build.sum]
==============================================================================
