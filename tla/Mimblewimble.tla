----------------------------- MODULE Mimblewimble -----------------------------
(***************************************************************************)
(* Transactions exchanged by two parties and the blocks that hold them, as *)
(* calls of the library: Build.Transaction from scratch by the sender,     *)
(* Build.Transaction on the partial transaction by the receiver,           *)
(* Block.New and Block.Merge.                                              *)
(*                                                                         *)
(* An order is one such exchange: the coins, the change, the fee and the   *)
(* lock height that the sender uses, and the amount and the key that the   *)
(* receiver uses.  Only the library's checks tell whether the two agree,   *)
(* so the instances hold orders in which they do not.                      *)
(***************************************************************************)
EXTENDS Block

CONSTANTS Orders,        \* the exchanges
          MinerKeys,     \* the keys of rewards
          Heights,       \* the heights of previous blocks
          MaxExchanges,  \* bound: exchanges begun
          MaxBlocks      \* bound: blocks built

\* Amounts are ulongs.  Like those of tx_fee, fees are far below what the cast in
\* Overage() makes negative, also when those of a block are summed.  A key of a
\* reward is not the key of another output.
ASSUME OrdersAssumption ==
  /\ IsFiniteSet(Orders)
  /\ \A o \in Orders :
       /\ o.coins \in Seq([value : 0 .. MaxUlong, key : Keys])
       /\ o.change \in Seq([value : 0 .. MaxUlong, key : Keys \ MinerKeys])
       /\ o.fee \in 0 .. MaxUlong \div 2
       /\ o.fee <= MaxUlong \div MaxBlockWeight
       /\ o.amount \in 0 .. MaxUlong
       /\ o.key \in Keys \ MinerKeys
  /\ MinerKeys \subseteq Keys

VARIABLES exchange,  \* the state of each order
          blocks     \* the blocks built, each with the list of the transactions in it

vars == <<exchange, blocks>>

None == [state |-> "none"]
Failed == [state |-> "failed"]

Begun == {o \in Orders : exchange[o] # None}
Final == {o \in Orders : exchange[o].state = "final"}
TxOf(o) == exchange[o].tx

Init ==
  /\ exchange = [o \in Orders |-> None]
  /\ blocks = {}

\* An input, an output, for each of the coins.
InputAll(build, coins) ==
  LET b[i \in 0 .. Len(coins)] ==
        IF i = 0 THEN build ELSE Input(b[i - 1], coins[i].value, coins[i].key)
  IN b[Len(coins)]

OutputAll(build, coins) ==
  LET b[i \in 0 .. Len(coins)] ==
        IF i = 0 THEN build ELSE Output(b[i - 1], coins[i].value, coins[i].key)
  IN b[Len(coins)]

\* The parts that inputs_and_change and build_send_tx hand to Build.Transaction.
SenderParts(o) ==
  with_lock_height(OutputAll(InputAll(with_fee(NewContext, o.fee), o.coins), o.change),
                   o.lock_height)

\* The parts of receive_transaction; the fee is taken from the amount in ulongs.
ReceiverParts(o, partial) ==
  Output(with_excess(initial_tx(NewContext, partial.tx), partial.blind),
         (o.amount - partial.tx.fee) % (MaxUlong + 1), o.key)

\* What Build.Transaction makes of the parts.
Built(state, parts) ==
  IF Transaction_throws(parts) THEN Failed
  ELSE [state |-> state, tx |-> Transaction(parts).tx, blind |-> Transaction(parts).blind]

BuildPartial(o) ==
  /\ exchange[o] = None
  /\ Cardinality(Begun) < MaxExchanges
  /\ exchange' = [exchange EXCEPT ![o] = Built("partial", SenderParts(o))]
  /\ UNCHANGED blocks

BuildFinal(o) ==
  /\ exchange[o].state = "partial"
  /\ exchange' = [exchange EXCEPT ![o] = Built("final", ReceiverParts(o, exchange[o]))]
  /\ UNCHANGED blocks

\* Block.New; when with_reward throws there is no block.
NewBlock(h, T, k) ==
  LET txs == SetToSeq({TxOf(o) : o \in T})
  IN /\ Cardinality(blocks) < MaxBlocks
     /\ ~with_reward_throws(txs)
     /\ blocks' = blocks \cup {[body |-> New(h, txs, k), txs |-> txs, rewards |-> 1]}
     /\ UNCHANGED exchange

MergeBlocks(b, other) ==
  /\ Cardinality(blocks) < MaxBlocks
  /\ blocks' = blocks \cup {[body |-> Merge(b.body, other.body),
                             txs |-> b.txs \o other.txs,
                             rewards |-> b.rewards + other.rewards]}
  /\ UNCHANGED exchange

Next ==
  \/ \E o \in Orders : BuildPartial(o) \/ BuildFinal(o)
  \/ \E h \in Heights, T \in SUBSET Final, k \in MinerKeys : NewBlock(h, T, k)
  \/ \E b, other \in blocks : b # other /\ MergeBlocks(b, other)

Spec == Init /\ [][Next]_vars

------------------------------------------------------------------------------

\* The commitments of a block's coinbases, and those that transactions spend and create.
Coinbases(b) == {o.commit : o \in CoinbaseOutputs(b)}
Spent(T) == UNION {ToSet(tx.inputs) : tx \in T}
Created(T) == UNION {ToSet(Commits(tx.outputs)) : tx \in T}

\* Two of the transactions spend, or create, the same commitment.
Conflicting(T) ==
  \E tx, other \in T :
    /\ tx # other
    /\ \/ Spent({tx}) \cap Spent({other}) # {}
       \/ Created({tx}) \cap Created({other}) # {}

\* However sender and receiver disagree on the amount, and whatever was passed
\* between them as excess, the signature of the final transaction verifies exactly
\* when its inputs pay for its outputs and its fee (Build.Transaction by two
\* parties, Transaction.verify_sig).
SignatureProvesBalance ==
  \A o \in Final :
    verify_sig(TxOf(o)) <=> Values(TxOf(o).inputs) = Values(Commits(TxOf(o).outputs)) + TxOf(o).fee

\* A block that Block.New makes of valid transactions which do not conflict passes
\* Block.Validate, cut-through included, unless it is too heavy or comes before a
\* lock height.
BlockOfValidTxs ==
  \A b \in blocks :
    (b.rewards = 1 /\ (\A tx \in ToSet(b.txs) : ValidTx(tx)) /\ ~Conflicting(ToSet(b.txs))) =>
      \/ Validate(b.body) = "ok"
      \/ /\ Validate(b.body) = "WeightExceeded"
         /\ Exceeds_weight(Len(b.body.inputs), Len(b.body.outputs), Len(b.body.kernels))
      \/ /\ Validate(b.body) = "KernelLockHeight"
         /\ \E tx \in ToSet(b.txs) : tx.lock_height > b.body.height

\* A block that passes Block.Validate, built or merged, adds to the money there is
\* exactly the subsidy less the half of the fees that no output gets, and its
\* coinbases are worth one reward.
SupplyKept ==
  \A b \in blocks :
    Validate(b.body) = "ok" =>
      LET outs == Commits(b.body.outputs)
          cb == Commits(Keep(b.body.outputs, CoinbaseOutputs(b.body)))
      IN /\ Values(outs) - Values(b.body.inputs) = RewardAmount - total_fees(b.body) \div 2
         /\ Values(cb) = Reward(total_fees(b.body))

\* Cut-through leaves the effect of a block on the unspent outputs as it was and
\* nothing that the block itself creates and spends, coinbases apart (Compact, in
\* Block.New and in Block.Merge of blocks that share no transaction and have none
\* that conflict).
CutThrough ==
  \A b \in {x \in blocks :
             /\ IsInjective(x.txs)
             /\ x.rewards = 1 \/ ~Conflicting(ToSet(x.txs))} :
    LET T == ToSet(b.txs)
        ins == ToSet(b.body.inputs)
        outs == ToSet(Commits(b.body.outputs)) \ Coinbases(b.body)
    IN /\ ins \cap outs = {}
       /\ ins = Spent(T) \ Created(T)
       /\ outs = Created(T) \ Spent(T)

\* "Checks that all transactions are valid", says Block.with_reward: a block made by
\* it that Block.Validate accepts holds no transaction that Transaction.Validate
\* refuses.
ValidatedTxs ==
  \A b \in blocks : Validate(b.body) = "ok" => \A tx \in ToSet(b.txs) : ValidTx(tx)
==============================================================================
