------------------------------ MODULE WalletData ------------------------------
(***************************************************************************)
(* The wallet's contents and the operations on them:                       *)
(* WalletTypes/WalletData.cs from Add_output on, OutputData.cs, Types.cs,  *)
(* the output transitions of WalletChecker/Checker.cs, the totals of       *)
(* WalletInfo/Info.cs and Common/Algo/Algo.cs.                             *)
(*                                                                         *)
(* A derived key is a pair <<root, n>>: the n-th child of a root key.  The *)
(* dictionary Outputs is a function from keys to OutputData records.  A    *)
(* coin [key, value] stands for an OutputData clone that is to be spent    *)
(* and, since a Pedersen commitment binds its key and its value, for the   *)
(* commitment of the output as well.                                       *)
(*                                                                         *)
(* C# evaluates the ulong arithmetic below unchecked: it wraps at ULong,   *)
(* which is 2^64 in the code.                                              *)
(***************************************************************************)
EXTENDS Integers, SequencesExt

CONSTANTS ULong,       \* the number of ulong values
          BaseFee,     \* Types.DefaultBaseFee
          KeyRank(_)   \* the place of a key's KeyId in string order

ASSUME WalletDataAssumption == ULong \in Nat \ {0} /\ BaseFee \in Nat

OutputStatus == {"Unconfirmed", "Unspent", "Locked", "Spent"}

OutputData(value, isCoinbase) ==
  [value |-> value, status |-> "Unconfirmed", height |-> 0, lock_height |-> 0,
   is_coinbase |-> isCoinbase]

Coin(outputs, k) == [key |-> k, value |-> outputs[k].value]

Coins(outputs) == {Coin(outputs, k) : k \in DOMAIN outputs}

\* Aggregate((a, b) => a + b) over the values.
Total(coins) ==
  LET sum[i \in 0 .. Len(coins)] ==
        IF i = 0 THEN 0 ELSE (sum[i - 1] + coins[i].value) % ULong
  IN sum[Len(coins)]

------------------------------------------------------------------------------
(* OutputData.cs, Types.cs *)

num_confirmations(od, currentHeight) ==
  IF od.status = "Unconfirmed" \/ (od.status = "Spent" /\ od.height = 0)
  THEN 0
  ELSE (1 + currentHeight - od.height) % ULong

\* Mutant: the statuses that rule an output out are not looked at.
eligible_to_spend_any_status(od, currentHeight, minimumConfirmations) ==
  /\ od.lock_height <= currentHeight
  /\ (od.height + num_confirmations(od, currentHeight)) % ULong >= minimumConfirmations

eligible_to_spend(od, currentHeight, minimumConfirmations) ==
  /\ od.status \notin {"Spent", "Locked"}
  /\ ~(od.status = "Unconfirmed" /\ od.is_coinbase)
  /\ od.lock_height <= currentHeight
  /\ \/ /\ od.status = "Unspent"
        /\ (od.height + num_confirmations(od, currentHeight)) % ULong >= minimumConfirmations
     \/ /\ od.status = "Unconfirmed"
        /\ minimumConfirmations = 0

tx_fee(inputLen, outputLen) == Max({1, 4 * outputLen + 1 - inputLen}) * BaseFee

------------------------------------------------------------------------------
(* WalletData.cs *)

\* Dictionary.Add throws when the key is present.
Add_output_throws(outputs, k) == k \in DOMAIN outputs

Add_output(outputs, k, od) ==
  [j \in DOMAIN outputs \cup {k} |-> IF j = k THEN od ELSE outputs[j]]

Delete_output(outputs, k) == Restrict(outputs, DOMAIN outputs \ {k})

\* The indexer throws when a coin's key is missing.
Lock_output_throws(outputs, coins) ==
  \E coin \in ToSet(coins) : coin.key \notin DOMAIN outputs

\* Lock_output for each coin in turn.
Lock_output(outputs, coins) ==
  [k \in DOMAIN outputs |->
     IF Coin(outputs, k) \in ToSet(coins)
     THEN [outputs[k] EXCEPT !.status = "Locked"]
     ELSE outputs[k]]

\* Mutant: a last group that is not full is left out.
Tuples_whole(s, groupCount) ==
  [i \in 1 .. Len(s) \div groupCount |->
     SubSeq(s, (i - 1) * groupCount + 1, i * groupCount)]

\* Algo.Tuples: consecutive groups, the last one possibly shorter.
Tuples(s, groupCount) ==
  [i \in 1 .. (Len(s) + groupCount - 1) \div groupCount |->
     SubSeq(s, (i - 1) * groupCount + 1, Min({i * groupCount, Len(s)}))]

\* The loop adds a coin before it looks whether the coins so far suffice.
Select_from(amount, selectAll, outputs) ==
  LET covered == {i \in 1 .. Len(outputs) : Total(SubSeq(outputs, 1, i - 1)) >= amount}
  IN IF Total(outputs) < amount THEN <<>>
     ELSE IF selectAll \/ covered = {} THEN outputs
     ELSE SubSeq(outputs, 1, Min(covered))

\* The eligible outputs of a root key, OrderBy(o => o.KeyId).
Eligible(outputs, root, currentHeight, minimumConfirmations) ==
  LET found == {Coin(outputs, k) : k \in {j \in DOMAIN outputs :
                  /\ j[1] = root
                  /\ eligible_to_spend(outputs[j], currentHeight, minimumConfirmations)}}
      Before(coin) == {c \in found : KeyRank(c.key) < KeyRank(coin.key)}
  IN [i \in 1 .. Cardinality(found) |->
        CHOOSE coin \in found : Cardinality(Before(coin)) = i - 1]

\* Aggregate throws on an empty sequence, Tuples on a groupCount of 0.
Select_throws(eligible, maxOutputs) == eligible = <<>> \/ maxOutputs = 0

\* The part of Select that follows the sort.
Select(eligible, amount, maxOutputs, defaultStrategy) ==
  LET windows == IF Len(eligible) > maxOutputs
                 THEN Tuples(eligible, maxOutputs) ELSE <<eligible>>
      picked == [i \in DOMAIN windows |-> Select_from(amount, defaultStrategy, windows[i])]
      found == {i \in DOMAIN windows : picked[i] # <<>>}
  IN IF found # {} THEN picked[Min(found)]
     ELSE SubSeq(Reverse(eligible), 1, Min({maxOutputs, Len(eligible)}))

\* Mutant: the outputs are counted.
Next_child_counts(outputs, root) ==
  Cardinality({k \in DOMAIN outputs : k[1] = root}) + 1

\* A uint in the code, which far fewer than 2^32 outputs do not make wrap.
Next_child(outputs, root) ==
  Max({0} \cup {k[2] : k \in {j \in DOMAIN outputs : j[1] = root}}) + 1

------------------------------------------------------------------------------
(* Checker.cs *)

\* The outputs that refresh_outputs asks the node about.
RefreshCoins(outputs, root) ==
  {Coin(outputs, k) : k \in {j \in DOMAIN outputs :
     j[1] = root /\ outputs[j].status # "Spent"}}

\* Mutant: the status is not looked at.
refresh_output_any_status(od, apiOut) ==
  [od EXCEPT !.height = apiOut.height, !.lock_height = apiOut.lock_height, !.status = "Unspent"]

refresh_output(od, apiOut) ==
  [od EXCEPT !.height = apiOut.height,
             !.lock_height = apiOut.lock_height,
             !.status = IF @ = "Unconfirmed" THEN "Unspent" ELSE @]

mark_spent_output(od) ==
  [od EXCEPT !.status = IF @ \in {"Unspent", "Locked"} THEN "Spent" ELSE @]

\* Mutant: every output asked for is taken for one that the node knows.
ApplyRefreshBlindly(outputs, commits, apiOutputs) ==
  [k \in DOMAIN outputs |->
     IF \E c \in commits : c.key = k
     THEN refresh_output(outputs[k], [height |-> 1, lock_height |-> 0])
     ELSE outputs[k]]

\* The With_wallet closure of refresh_outputs.  The commitments were taken from
\* an earlier wallet; each is applied to whatever output now has its key.
ApplyRefresh(outputs, commits, apiOutputs) ==
  [k \in DOMAIN outputs |->
     LET asked == {c \in commits : c.key = k}
         known == asked \cap DOMAIN apiOutputs
     IN IF asked = {} THEN outputs[k]
        ELSE IF known # {}
        THEN refresh_output(outputs[k], apiOutputs[CHOOSE c \in known : TRUE])
        ELSE mark_spent_output(outputs[k])]
==============================================================================
