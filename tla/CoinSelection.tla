----------------------------- MODULE CoinSelection -----------------------------
(***************************************************************************)
(* One run of WalletData.Select, as build_send_tx calls it, on any wallet  *)
(* of a given set: the algorithm's promises checked against what they      *)
(* mean.  The statuses, heights and values of the wallets are those that   *)
(* the wallet's operations produce.                                        *)
(***************************************************************************)
EXTENDS WalletData

CONSTANTS Root,          \* the wallet's root key
          Wallets,       \* the contents that wallet.dat may have
          CurrentHeight, \* the height of the node's tip
          Amounts,       \* the amounts asked for
          Confirmations, \* the values of minimumConfirmations
          Limits         \* the values of maxOutputs

\* The value of coins, as a number that does not wrap.
Worth(coins) ==
  LET sum[i \in 0 .. Len(coins)] == IF i = 0 THEN 0 ELSE sum[i - 1] + coins[i].value
  IN sum[Len(coins)]

\* The KeyIds by which the dictionary Outputs finds its entries differ.  What a
\* wallet can spend is worth less than 2^64, as is all the money there is.
ASSUME SelectionAssumption ==
  /\ Amounts \subseteq Nat /\ Limits \subseteq Nat
  /\ \A o \in Wallets :
       /\ IsFiniteSet(DOMAIN o)
       /\ \A k \in DOMAIN o : k[2] \in Nat /\ KeyRank(k) \in Nat /\ o[k].value \in Nat
       /\ \A j, k \in DOMAIN o :
            j[1] = Root /\ k[1] = Root /\ KeyRank(j) = KeyRank(k) => j = k
       /\ \A m \in Confirmations : Worth(Eligible(o, Root, CurrentHeight, m)) < ULong

VARIABLES outputs,   \* the wallet: WalletData.Outputs
          request,   \* the arguments of Select, once it has been called
          coins      \* what it returned, <<>> when it threw

vars == <<outputs, request, coins>>

Requests ==
  [amount : Amounts, min : Confirmations, max : Limits, default : BOOLEAN]

NoRequest == [amount |-> 0, min |-> 0, max |-> 0, default |-> FALSE]

Candidates == Eligible(outputs, Root, CurrentHeight, request.min)

Init ==
  /\ outputs \in Wallets
  /\ request = NoRequest
  /\ coins = <<>>

\* Read_wallet(walletData => walletData.Select(...)) in build_send_tx.
SelectCoins(r) ==
  LET eligible == Eligible(outputs, Root, CurrentHeight, r.min)
  IN /\ request = NoRequest
     /\ request' = r
     /\ coins' = IF Select_throws(eligible, r.max) THEN <<>>
                 ELSE Select(eligible, r.amount, r.max, r.default)
     /\ UNCHANGED outputs

\* The call has returned.
Returned == request # NoRequest /\ UNCHANGED vars

Next == Returned \/ \E r \in Requests : SelectCoins(r)

Spec == Init /\ [][Next]_vars
------------------------------------------------------------------------------
(* Properties *)

Covers(s) == Total(s) >= request.amount

\* Select returns outputs of this wallet's own root key, none of them twice, and
\* none that is spent, promised to another transaction or still time-locked.
SelectionSpendable ==
  /\ IsInjective(coins)
  /\ ToSet(coins) \subseteq Coins(outputs)
  /\ \A coin \in ToSet(coins) :
       LET od == outputs[coin.key]
       IN /\ coin.key[1] = Root
          /\ od.status \in {"Unspent", "Unconfirmed"}
          /\ od.status = "Unconfirmed" => request.min = 0 /\ ~od.is_coinbase
          /\ od.lock_height <= CurrentHeight

\* The groups of maxOutputs candidates, in the order of their KeyIds; the last one
\* may be smaller.
Groups == 1 .. (Len(Candidates) + request.max - 1) \div request.max

Group(g) ==
  SubSeq(Candidates, (g - 1) * request.max + 1, Min({g * request.max, Len(Candidates)}))

\* The request is one that Select has answered.
Answered == Candidates # <<>> /\ request.max > 0

AtMostMaxOutputs == Len(coins) <= request.max

\* The first group that covers the amount is not passed over.  The coins are all of
\* it with the default strategy, otherwise its first ones: enough of them, and at
\* most one more than that.
FirstGroupTaken ==
  \A g \in Groups :
    Covers(Group(g)) /\ (\A h \in 1 .. g - 1 : ~Covers(Group(h))) =>
      /\ Covers(coins)
      /\ IsPrefix(coins, Group(g))
      /\ IF request.default THEN coins = Group(g)
         ELSE Len(coins) >= 2 => ~Covers(SubSeq(coins, 1, Len(coins) - 2))

\* Only when no group covers it are the coins the last candidates instead.
LastOnesElse ==
  (\A g \in Groups : ~Covers(Group(g))) =>
    coins = [i \in 1 .. Min({request.max, Len(Candidates)}) |-> Candidates[Len(Candidates) - i + 1]]

\* Select gives no more inputs than asked for, and it finds the funds whenever the
\* eligible outputs fit in one transaction, or one of the groups into which it
\* divides them, and add up to the amount.  Without the default strategy it gives
\* at most one more than it needs, so a send does not lock the whole wallet.
FundsFound == AtMostMaxOutputs /\ (Answered => FirstGroupTaken /\ LastOnesElse)

\* WalletData.cs:203 "Alternative strategy is to spend smallest outputs first but
\* only as many as necessary", :253 "Otherwise select just enough outputs to cover
\* the desired amount": the coins without the last one do not cover the amount.
NoSpareInput ==
  coins # <<>> /\ ~request.default /\ Covers(coins) => ~Covers(SubSeq(coins, 1, Len(coins) - 1))

\* The key that inputs_and_change derives for the change output is not in the
\* wallet, so its Add_output does not throw.
NextChildFresh ==
  ~Add_output_throws(outputs, <<Root, Next_child(outputs, Root)>>)
==============================================================================
