------------------------- MODULE WalletPaymentsProofs -------------------------
(***************************************************************************)
(* Proofs about the wallet server's requests, for any wallets, calls,      *)
(* amounts, coins at the start and faults.                                 *)
(***************************************************************************)
EXTENDS WalletPayments, WalletDataProofs

\* The places in the code where a send can be.
Steps ==
  {"idle", "querying", "applying", "refreshed", "tip", "selected", "built",
   "waiting", "updating", "rollback"} \cup Ended

\* The steps of a send from recording its change to keeping or deleting it.
Holding == {"built", "waiting", "updating", "rollback"}

\* The shape of the state: each wallet has outputs under keys of its own.
TypeInv ==
  /\ pc \in [Calls -> Steps]
  /\ handler \in [Sends -> {"none", "received", "recorded", "ok", "error"}]
  /\ DOMAIN outputs = Wallets
  /\ \A w \in Wallets : IsWallet(outputs[w], w)
  /\ DOMAIN commits = Sends \cup Infos /\ DOMAIN api = Sends \cup Infos
  /\ DOMAIN height = Sends /\ DOMAIN coins = Sends /\ DOMAIN change = Sends
  /\ DOMAIN received = Sends \cup Coinbases

\* The receiver works on a transaction that its sender has finished building, and
\* a sender locks its coins only once the node has the transaction.
PushInv ==
  /\ \A s \in Sends : handler[s] # "none" => pc[s] \in (Holding \ {"built"}) \cup Ended
  /\ \A s \in Sends : handler[s] = "ok" => Tx(s) \in pool \cup mined
  /\ \A s \in Sends : pc[s] \in {"updating", "done"} => handler[s] = "ok"

\* A coin of the chain or of a wallet, not the absence of one.
IsCoin(c) ==
  /\ c = [key |-> c.key, value |-> c.value]
  /\ c.key \in Wallets \X Nat

\* Only coins that wallets made reach the node.
NodeInv ==
  /\ \A s \in Sends : pc[s] = "built" \/ handler[s] # "none" => IsCoin(change[s])
  /\ \A s \in Sends : handler[s] \in {"recorded", "ok"} => IsCoin(received[s])
  /\ \A c \in Coinbases : pc[c] = "done" => IsCoin(received[c])
  /\ \A c \in DOMAIN utxo : IsCoin(c)
  /\ \A t \in pool \cup mined : \A c \in t.inputs \cup t.outputs : IsCoin(c)

\* Tracked, in the wallets o.
TrackedIn(o, coin) ==
  /\ coin.key \in DOMAIN o[coin.key[1]]
  /\ o[coin.key[1]][coin.key].value = coin.value

\* What was received, r, is tracked, under keys that no send will delete: those of
\* the changes d of the sends H that may yet delete theirs are others, and are
\* present so that they are not used again.
KeysOf(o, r, d, H) ==
  /\ \A c \in DOMAIN r : r[c] # NoCoin => IsCoin(r[c]) /\ TrackedIn(o, r[c])
  /\ \A s \in H :
       /\ d[s].key \in {WalletOf[s]} \X Nat
       /\ TrackedIn(o, d[s])
       /\ \A c \in DOMAIN r : r[c] # NoCoin => r[c].key # d[s].key
       /\ \A t \in H \ {s} : d[t].key # d[s].key

\* The sends that hold the change they have recorded.
Holders == {s \in Sends : pc[s] \in Holding}

\* KeysOf, of the present state.
KeyInv == KeysOf(outputs, received, change, Holders)

\* The inductive invariant.
IInv == TypeInv /\ PushInv /\ NodeInv /\ KeyInv /\ LockedOnlyIfPushed

-------------------------------------------------------------------------------
(* What the steps do to the wallets *)

\* Recording an output uses a key that the wallet does not have, and leaves every
\* other output of every wallet alone.
LEMMA RecordStep ==
  ASSUME TypeInv, NEW w \in Wallets, NEW value, NEW isCoinbase, Record(w, value, isCoinbase)
  PROVE  /\ NextKey(w) \in {w} \X Nat
         /\ NextKey(w) \notin DOMAIN outputs[w]
         /\ DOMAIN outputs' = Wallets
         /\ \A v \in Wallets : IsWallet(outputs'[v], v)
         /\ \A v \in Wallets \ {w} : outputs'[v] = outputs[v]
         /\ DOMAIN outputs'[w] = DOMAIN outputs[w] \cup {NextKey(w)}
         /\ outputs'[w][NextKey(w)].value = value
         /\ outputs'[w][NextKey(w)].status = "Unconfirmed"
         /\ \A k \in DOMAIN outputs[w] : outputs'[w][k] = outputs[w][k]
<1> DEFINE n == Next_child(outputs[w], w)
           k == <<w, n>>
<1>1. IsWallet(outputs[w], w) /\ DOMAIN outputs = Wallets
  BY DEF TypeInv
<1>2. IsFiniteSet(DOMAIN outputs[w]) /\ \A j \in DOMAIN outputs[w] : j[2] \in Nat
  BY <1>1 DEF IsWallet
<1>3. n \in Nat /\ k \notin DOMAIN outputs[w]
  BY <1>2, NextChildIsFresh
<1>4. NextKey(w) = k
  BY DEF NextKey
<1>5. /\ DOMAIN outputs' = Wallets
      /\ \A v \in Wallets \ {w} : outputs'[v] = outputs[v]
      /\ outputs'[w] = Add_output(outputs[w], k, OutputData(value, isCoinbase))
  BY <1>1, <1>4 DEF Record
<1> HIDE DEF n
<1>6. /\ IsWallet(outputs'[w], w)
      /\ DOMAIN outputs'[w] = DOMAIN outputs[w] \cup {k}
      /\ outputs'[w][k].value = value
      /\ outputs'[w][k].status = "Unconfirmed"
      /\ \A j \in DOMAIN outputs[w] \ {k} : outputs'[w][j] = outputs[w][j]
  BY <1>1, <1>3, <1>5, AddOutput
<1>7. \A v \in Wallets : IsWallet(outputs'[v], v)
  BY <1>5, <1>6 DEF TypeInv
<1> QED BY <1>3, <1>4, <1>5, <1>6, <1>7

\* No step takes a wallet's outputs out of shape, changes the value of an output
\* or moves its status other than StatusMoves allows.
StatusStep(a, b) ==
  <<a, b>> \in {<<x, x>> : x \in OutputStatus}
               \cup {<<"Unconfirmed", "Unspent">>, <<"Unconfirmed", "Locked">>,
                     <<"Unspent", "Locked">>, <<"Unspent", "Spent">>,
                     <<"Locked", "Spent">>, <<"Spent", "Locked">>}

\* Each wallet stays a wallet, and an output that stays in it keeps its value and
\* changes its status only as StatusStep allows.
WalletsKept ==
  /\ DOMAIN outputs' = Wallets
  /\ \A w \in Wallets :
       /\ IsWallet(outputs'[w], w)
       /\ \A k \in DOMAIN outputs[w] \cap DOMAIN outputs'[w] :
            /\ outputs'[w][k].value = outputs[w][k].value
            /\ StatusStep(outputs[w][k].status, outputs'[w][k].status)

\* A step that leaves the wallets alone does so.
LEMMA UnchangedWallets == ASSUME TypeInv, UNCHANGED outputs PROVE WalletsKept
  BY DEF TypeInv, WalletsKept, IsWallet, StatusStep

\* Recording an output under a fresh key keeps the wallets (Add_output).
LEMMA RecordKeeps ==
  ASSUME TypeInv, NEW w \in Wallets, NEW value, NEW isCoinbase, Record(w, value, isCoinbase)
  PROVE  WalletsKept
<1>1. ASSUME NEW v \in Wallets, NEW k \in DOMAIN outputs[v]
      PROVE  outputs'[v][k] = outputs[v][k] /\ outputs[v][k].status \in OutputStatus
  BY RecordStep DEF TypeInv, IsWallet
<1> QED BY <1>1, RecordStep DEF WalletsKept, StatusStep

\* One wallet is replaced by a wallet.
LEMMA ReplaceKeeps ==
  ASSUME TypeInv, NEW w \in Wallets, NEW o, outputs' = [outputs EXCEPT ![w] = o],
         IsWallet(o, w),
         \A k \in DOMAIN outputs[w] \cap DOMAIN o :
            o[k].value = outputs[w][k].value /\ StatusStep(outputs[w][k].status, o[k].status)
  PROVE  WalletsKept /\ outputs'[w] = o /\ \A v \in Wallets \ {w} : outputs'[v] = outputs[v]
<1>1. DOMAIN outputs = Wallets
  BY DEF TypeInv
<1>2. DOMAIN outputs' = Wallets /\ outputs'[w] = o /\ \A v \in Wallets \ {w} : outputs'[v] = outputs[v]
  BY <1>1
<1>3. ASSUME NEW v \in Wallets \ {w}, NEW k \in DOMAIN outputs[v]
      PROVE  StatusStep(outputs[v][k].status, outputs[v][k].status)
  BY DEF TypeInv, IsWallet, StatusStep
<1> QED BY <1>2, <1>3 DEF WalletsKept, TypeInv

\* The answer of the node adds and drops no output and locks none (apply_outputs).
LEMMA ApplyKeeps ==
  ASSUME TypeInv, NEW c \in Sends \cup Infos, Apply(c)
  PROVE  /\ WalletsKept
         /\ \A w \in Wallets : DOMAIN outputs'[w] = DOMAIN outputs[w]
         /\ \A w \in Wallets : \A k \in DOMAIN outputs[w] :
              outputs'[w][k].status = "Locked" => outputs[w][k].status = "Locked"
<1>1. CASE UNCHANGED outputs
  BY <1>1, UnchangedWallets
<1>2. CASE outputs' = [outputs EXCEPT ![WalletOf[c]] = ApplyRefresh(@, commits[c], api[c])]
  <2> DEFINE w == WalletOf[c]
             o == outputs[w]
             p == ApplyRefresh(o, commits[c], api[c])
  <2>1. w \in Wallets /\ IsWallet(o, w)
    BY PaymentsAssumption DEF TypeInv, Calls
  <2>0. p = ApplyRefresh(o, commits[c], api[c])
    OBVIOUS
  <2> HIDE DEF p
  <2>2. IsWallet(p, w) /\ DOMAIN p = DOMAIN o /\ \A k \in DOMAIN o : p[k].value = o[k].value
    BY <2>0, <2>1, RefreshOutputs
  <2>3. ASSUME NEW k \in DOMAIN o
        PROVE  /\ StatusStep(o[k].status, p[k].status)
               /\ p[k].status = "Locked" => o[k].status = "Locked"
    <3>1. \/ p[k].status = o[k].status
          \/ p[k].status = IF o[k].status = "Unconfirmed" THEN "Unspent" ELSE o[k].status
          \/ p[k].status = IF o[k].status \in {"Unspent", "Locked"} THEN "Spent" ELSE o[k].status
      BY <2>0, <2>1, RefreshOutputs
    <3>2. o[k].status \in OutputStatus
      BY <2>1 DEF IsWallet
    <3> HIDE DEF o
    <3> QED BY <3>1, <3>2 DEF StatusStep, OutputStatus
  <2>4. outputs' = [outputs EXCEPT ![w] = p]
    BY <1>2, <2>0
  <2> HIDE DEF w
  <2>5. WalletsKept /\ outputs'[w] = p /\ \A v \in Wallets \ {w} : outputs'[v] = outputs[v]
    BY <2>1, <2>2, <2>3, <2>4, ReplaceKeeps
  <2> QED BY <2>1, <2>2, <2>3, <2>5
<1> QED BY <1>1, <1>2 DEF Apply, With_wallet_throws

\* Updating the wallet locks the coins of the send and changes nothing else
\* (Lock_output).
LEMMA LockKeeps ==
  ASSUME TypeInv, NEW s \in Sends, UpdateWallet(s)
  PROVE  /\ WalletsKept
         /\ \A w \in Wallets : DOMAIN outputs'[w] = DOMAIN outputs[w]
         /\ \A w \in Wallets : \A k \in DOMAIN outputs[w] :
              /\ outputs'[w][k].height = outputs[w][k].height
              /\ \/ outputs'[w][k].status = outputs[w][k].status
                 \/ outputs'[w][k].status = "Locked" /\ Coin(outputs[w], k) \in ToSet(coins[s])
<1>1. CASE UNCHANGED outputs
  BY <1>1, UnchangedWallets
<1>2. CASE outputs' = [outputs EXCEPT ![WalletOf[s]] = Lock_output(@, coins[s])]
  <2> DEFINE w == WalletOf[s]
             o == outputs[w]
             p == Lock_output(o, coins[s])
  <2>1. w \in Wallets /\ IsWallet(o, w)
    BY PaymentsAssumption DEF TypeInv, Calls
  <2>0. p = Lock_output(o, coins[s])
    OBVIOUS
  <2> HIDE DEF p
  <2>2. IsWallet(p, w) /\ DOMAIN p = DOMAIN o /\ \A k \in DOMAIN o : p[k].value = o[k].value
    BY <2>0, <2>1, LockOutput
  <2>3. \A k \in DOMAIN o :
           /\ p[k].height = o[k].height
           /\ \/ p[k].status = o[k].status
              \/ p[k].status = "Locked" /\ Coin(o, k) \in ToSet(coins[s])
    BY <2>0, <2>1, LockOutput
  <2>4. ASSUME NEW k \in DOMAIN o PROVE StatusStep(o[k].status, p[k].status)
    <3>1. o[k].status \in OutputStatus
      BY <2>1 DEF IsWallet
    <3> HIDE DEF o
    <3> QED BY <3>1, <2>3 DEF StatusStep, OutputStatus
  <2>5. outputs' = [outputs EXCEPT ![w] = p]
    BY <1>2, <2>0
  <2> HIDE DEF w
  <2>6. WalletsKept /\ outputs'[w] = p /\ \A v \in Wallets \ {w} : outputs'[v] = outputs[v]
    BY <2>1, <2>2, <2>4, <2>5, ReplaceKeeps
  <2> QED BY <2>1, <2>2, <2>3, <2>6
<1> QED BY <1>1, <1>2 DEF UpdateWallet, With_wallet_throws

\* A rollback deletes the change of the send and no other output (Delete_output).
LEMMA RollbackKeeps ==
  ASSUME TypeInv, NEW s \in Sends, RollbackWallet(s)
  PROVE  /\ WalletsKept
         /\ \A w \in Wallets : DOMAIN outputs'[w] \subseteq DOMAIN outputs[w]
         /\ \A w \in Wallets : \A k \in DOMAIN outputs[w] :
              k \in DOMAIN outputs'[w] \/ (w = WalletOf[s] /\ k = change[s].key)
         /\ \A w \in Wallets : \A k \in DOMAIN outputs'[w] : outputs'[w][k] = outputs[w][k]
<1>1. CASE UNCHANGED outputs
  BY <1>1, UnchangedWallets
<1>2. CASE outputs' = [outputs EXCEPT ![WalletOf[s]] = Delete_output(@, change[s].key)]
  <2> DEFINE w == WalletOf[s]
             o == outputs[w]
             d == change[s].key
             p == Delete_output(o, d)
  <2>1. w \in Wallets /\ IsWallet(o, w)
    BY PaymentsAssumption DEF TypeInv, Calls
  <2>0. p = Delete_output(o, d) /\ w = WalletOf[s] /\ d = change[s].key
    OBVIOUS
  <2>2. /\ IsWallet(p, w)
        /\ DOMAIN p = DOMAIN o \ {d}
        /\ \A k \in DOMAIN o \ {d} : p[k] = o[k]
    BY <2>1, DeleteOutput, Zenon
  <2> HIDE DEF p, d
  <2>3. ASSUME NEW k \in DOMAIN o \cap DOMAIN p
        PROVE  p[k] = o[k] /\ StatusStep(o[k].status, p[k].status)
    <3>1. p[k] = o[k] /\ o[k].status \in OutputStatus
      BY <2>1, <2>2 DEF IsWallet
    <3> HIDE DEF o
    <3> QED BY <3>1 DEF StatusStep
  <2>4. outputs' = [outputs EXCEPT ![w] = p]
    BY <1>2, <2>0
  <2> HIDE DEF w
  <2>5. WalletsKept /\ outputs'[w] = p /\ \A v \in Wallets \ {w} : outputs'[v] = outputs[v]
    BY <2>1, <2>2, <2>3, <2>4, ReplaceKeeps
  <2> QED BY <2>0, <2>1, <2>2, <2>5
<1> QED BY <1>1, <1>2 DEF RollbackWallet
-------------------------------------------------------------------------------
(* The shape of the state *)

\* The initial state satisfies the invariant.
LEMMA InitInv == Init => IInv
<1> SUFFICES ASSUME Init PROVE IInv
  OBVIOUS
<1> DEFINE K(w) == {c.key : c \in {g \in Genesis : g.key[1] = w}}
<1>1. ASSUME NEW w \in Wallets PROVE IsWallet(outputs[w], w)
  <2>1. /\ DOMAIN outputs[w] = K(w)
        /\ \A k \in K(w) : outputs[w][k] =
             [OutputData((CHOOSE c \in Genesis : c.key = k).value, FALSE)
                EXCEPT !.status = "Unspent", !.height = 1]
    BY DEF Init
  <2>2. IsFiniteSet(K(w))
    <3> DEFINE G == {g \in Genesis : g.key[1] = w}
    <3>1. IsFiniteSet(G)
      BY PaymentsAssumption, FS_Subset
    <3>2. [c \in G |-> c.key] \in Surjection(G, K(w))
      BY DEF Surjection
    <3> QED BY <3>1, <3>2, FS_Surjection, Zenon
  <2>3. \A k \in K(w) : k \in {w} \X Nat
    BY PaymentsAssumption
  <2>4. \A k \in K(w) : DOMAIN outputs[w][k] = OutputFields /\ outputs[w][k].status = "Unspent"
    <3> SUFFICES ASSUME NEW k \in K(w)
                 PROVE  DOMAIN outputs[w][k] = OutputFields /\ outputs[w][k].status = "Unspent"
      BY Zenon
    <3> DEFINE v == (CHOOSE c \in Genesis : c.key = k).value
    <3>1. outputs[w][k] = [OutputData(v, FALSE) EXCEPT !.status = "Unspent", !.height = 1]
      BY <2>1
    <3> HIDE DEF v, K
    <3> QED BY <3>1 DEF OutputData, OutputFields
  <2> HIDE DEF K
  <2> QED BY <2>1, <2>2, <2>3, <2>4 DEF IsWallet, OutputStatus
<1>2. TypeInv
  BY <1>1 DEF TypeInv, Init, Steps, Ended
<1>3. PushInv
  BY DEF Init, PushInv, Holding, Ended, Calls
<1>4. NodeInv
  <2>1. \A c \in Genesis : IsCoin(c)
    BY PaymentsAssumption DEF IsCoin
  <2> QED BY <2>1 DEF Init, NodeInv, Calls
<1>5. KeyInv
  BY DEF Init, KeyInv, KeysOf, Holders, Holding, Calls
<1>6. LockedOnlyIfPushed
  <2>1. ASSUME NEW w \in Wallets, NEW k \in DOMAIN outputs[w]
        PROVE  outputs[w][k].status = "Unspent"
    BY DEF Init, OutputData
  <2> QED BY <2>1 DEF LockedOnlyIfPushed
<1> QED BY <1>2, <1>3, <1>4, <1>5, <1>6 DEF IInv

\* Every step keeps the wallets' shape and their outputs' values.
LEMMA NextKeeps == TypeInv /\ [Next]_vars => WalletsKept
<1> SUFFICES ASSUME TypeInv, [Next]_vars PROVE WalletsKept
  OBVIOUS
<1> USE PaymentsAssumption DEF wallet
<1>1. ASSUME NEW c \in Sends \cup Infos, Snapshot(c) \/ Query(c) \/ Apply(c) PROVE WalletsKept
  BY <1>1, ApplyKeeps, UnchangedWallets DEF Snapshot, Query
<1>2. ASSUME NEW s \in Sends,
             \/ get_tip_from_node(s) \/ SelectCoins(s) \/ send_partial_tx(s)
             \/ Reply(s) \/ Timeout(s) \/ Push(s)
      PROVE  WalletsKept
  BY <1>2, UnchangedWallets
     DEF get_tip_from_node, SelectCoins, send_partial_tx, Reply, Timeout, Push
<1>3. ASSUME NEW s \in Sends, inputs_and_change(s) PROVE WalletsKept
  <2>1. WalletOf[s] \in Wallets
    BY DEF Calls
  <2> QED BY <1>3, <2>1, RecordKeeps, UnchangedWallets DEF inputs_and_change, With_wallet_throws
<1>4. ASSUME NEW s \in Sends, UpdateWallet(s) \/ RollbackWallet(s) PROVE WalletsKept
  BY <1>4, LockKeeps, RollbackKeeps
<1>5. ASSUME NEW s \in Sends, receive_transaction(s) PROVE WalletsKept
  BY <1>5, RecordKeeps, UnchangedWallets DEF receive_transaction, With_wallet_throws
<1>6. ASSUME NEW c \in Coinbases, receive_coinbase(c) PROVE WalletsKept
  <2>1. WalletOf[c] \in Wallets
    BY DEF Calls
  <2> QED BY <1>6, <2>1, RecordKeeps, UnchangedWallets DEF receive_coinbase, With_wallet_throws
<1>7. ASSUME NEW T, NEW C, Mine(T, C) PROVE WalletsKept
  BY <1>7, UnchangedWallets DEF Mine
<1>8. CASE UNCHANGED vars
  BY <1>8, UnchangedWallets DEF vars
<1> QED BY <1>1, <1>2, <1>3, <1>4, <1>5, <1>6, <1>7, <1>8
           DEF Next, SendStep, HandlerStep, RefreshStep, Terminated

\* Every step keeps the shape of the state.
LEMMA TypeStep == TypeInv /\ [Next]_vars => TypeInv'
<1> SUFFICES ASSUME TypeInv, [Next]_vars PROVE TypeInv'
  OBVIOUS
<1>0. DOMAIN outputs' = Wallets /\ \A w \in Wallets : IsWallet(outputs'[w], w)
  BY NextKeeps DEF WalletsKept
<1> USE <1>0 DEF TypeInv, Goto, Steps, Ended, Calls, Refreshed, wallet, refresh, send, receive, node
<1>1. ASSUME NEW c \in Sends \cup Infos, Snapshot(c) \/ Query(c) \/ Apply(c) PROVE TypeInv'
  <2>1. CASE Snapshot(c)
    BY <2>1 DEF Snapshot
  <2>2. CASE Query(c)
    BY <2>2 DEF Query
  <2>3. CASE Apply(c)
    BY <2>3 DEF Apply
  <2> QED BY <1>1, <2>1, <2>2, <2>3
<1>2. ASSUME NEW s \in Sends, get_tip_from_node(s) PROVE TypeInv'
  BY <1>2 DEF get_tip_from_node
<1>3. ASSUME NEW s \in Sends, SelectCoins(s) PROVE TypeInv'
  BY <1>3 DEF SelectCoins
<1>4. ASSUME NEW s \in Sends, inputs_and_change(s) PROVE TypeInv'
  BY <1>4 DEF inputs_and_change
<1>5. ASSUME NEW s \in Sends, send_partial_tx(s) \/ Reply(s) \/ Timeout(s) PROVE TypeInv'
  BY <1>5 DEF send_partial_tx, Reply, Timeout
<1>6. ASSUME NEW s \in Sends, UpdateWallet(s) \/ RollbackWallet(s) PROVE TypeInv'
  BY <1>6 DEF UpdateWallet, RollbackWallet
<1>7. ASSUME NEW s \in Sends, receive_transaction(s) \/ Push(s) PROVE TypeInv'
  BY <1>7 DEF receive_transaction, Push
<1>8. ASSUME NEW c \in Coinbases, receive_coinbase(c) PROVE TypeInv'
  BY <1>8 DEF receive_coinbase
<1>9. ASSUME NEW T, NEW C, Mine(T, C) PROVE TypeInv'
  BY <1>9 DEF Mine
<1>10. CASE UNCHANGED vars
  BY <1>10 DEF vars
<1> QED BY <1>1, <1>2, <1>3, <1>4, <1>5, <1>6, <1>7, <1>8, <1>9, <1>10
           DEF Next, SendStep, HandlerStep, RefreshStep, Terminated
-------------------------------------------------------------------------------
(* Transactions on their way *)

\* The transaction of a send is settled before its receiver has pushed it, and
\* nothing leaves the node.
LEMMA PushStep == TypeInv /\ PushInv /\ [Next]_vars => PushInv'
<1> SUFFICES ASSUME TypeInv, PushInv, [Next]_vars PROVE PushInv'
  OBVIOUS
<1> USE PaymentsAssumption
        DEF TypeInv, PushInv, Goto, Holding, Ended, Calls, Refreshed, Tx, wallet, refresh, send, receive, node
<1>1. ASSUME NEW c \in Sends \cup Infos, Snapshot(c) \/ Query(c) \/ Apply(c) PROVE PushInv'
  <2>1. CASE Snapshot(c)
    BY <2>1 DEF Snapshot
  <2>2. CASE Query(c)
    BY <2>2 DEF Query
  <2>3. CASE Apply(c)
    BY <2>3 DEF Apply
  <2> QED BY <1>1, <2>1, <2>2, <2>3
<1>2. ASSUME NEW s \in Sends, get_tip_from_node(s) PROVE PushInv'
  BY <1>2 DEF get_tip_from_node
<1>3. ASSUME NEW s \in Sends, SelectCoins(s) PROVE PushInv'
  BY <1>3 DEF SelectCoins
<1>4. ASSUME NEW s \in Sends, inputs_and_change(s) PROVE PushInv'
  BY <1>4 DEF inputs_and_change
<1>5. ASSUME NEW s \in Sends, send_partial_tx(s) \/ Reply(s) \/ Timeout(s) PROVE PushInv'
  BY <1>5 DEF send_partial_tx, Reply, Timeout
<1>6. ASSUME NEW s \in Sends, UpdateWallet(s) \/ RollbackWallet(s) PROVE PushInv'
  BY <1>6 DEF UpdateWallet, RollbackWallet
<1>7. ASSUME NEW s \in Sends, receive_transaction(s) PROVE PushInv'
  BY <1>7 DEF receive_transaction
<1>8. ASSUME NEW s \in Sends, Push(s) PROVE PushInv'
  BY <1>8 DEF Push
<1>9. ASSUME NEW c \in Coinbases, receive_coinbase(c) PROVE PushInv'
  BY <1>9 DEF receive_coinbase
<1>10. ASSUME NEW T, NEW C, Mine(T, C) PROVE PushInv'
  BY <1>10 DEF Mine
<1>11. CASE UNCHANGED vars
  BY <1>11 DEF vars
<1> QED BY <1>1, <1>2, <1>3, <1>4, <1>5, <1>6, <1>7, <1>8, <1>9, <1>10, <1>11
           DEF Next, SendStep, HandlerStep, RefreshStep, Terminated

\* The node sees coins only, and of a transaction only ones that are settled.
LEMMA NodeStep == TypeInv /\ PushInv /\ NodeInv /\ [Next]_vars => NodeInv'
<1> SUFFICES ASSUME TypeInv, PushInv, NodeInv, [Next]_vars PROVE NodeInv'
  OBVIOUS
<1>0. ASSUME NEW w \in Wallets, NEW v, NEW b, Record(w, v, b)
      PROVE  IsCoin([key |-> NextKey(w), value |-> v])
  BY <1>0, RecordStep DEF IsCoin
<1> USE PaymentsAssumption
        DEF TypeInv, PushInv, NodeInv, Goto, Holding, Ended, Calls, Refreshed, wallet, refresh, send, receive, node
<1>1. ASSUME NEW c \in Sends \cup Infos, Snapshot(c) \/ Query(c) \/ Apply(c) PROVE NodeInv'
  <2>1. CASE Snapshot(c)
    BY <2>1 DEF Snapshot
  <2>2. CASE Query(c)
    BY <2>2 DEF Query
  <2>3. CASE Apply(c)
    BY <2>3 DEF Apply
  <2> QED BY <1>1, <2>1, <2>2, <2>3
<1>2. ASSUME NEW s \in Sends, get_tip_from_node(s) PROVE NodeInv'
  BY <1>2 DEF get_tip_from_node
<1>3. ASSUME NEW s \in Sends, SelectCoins(s) PROVE NodeInv'
  BY <1>3 DEF SelectCoins
<1>4. ASSUME NEW s \in Sends, inputs_and_change(s) PROVE NodeInv'
  <2> DEFINE w == WalletOf[s]
             v == Total(coins[s]) - Amount[s]
  <2>1. \/ UNCHANGED change /\ pc' = [pc EXCEPT ![s] = "failed"]
        \/ /\ Record(w, v, FALSE)
           /\ change' = [change EXCEPT ![s] = [key |-> NextKey(w), value |-> v]]
           /\ pc' = [pc EXCEPT ![s] = "built"]
    BY <1>4 DEF inputs_and_change
  <2> HIDE DEF v
  <2>2. Record(w, v, FALSE) => IsCoin([key |-> NextKey(w), value |-> v])
    BY <1>0
  <2>3. UNCHANGED <<handler, received, utxo, pool, mined>> /\ handler[s] = "none"
    BY <1>4 DEF inputs_and_change
  <2> QED BY <2>1, <2>2, <2>3
<1>5. ASSUME NEW s \in Sends, send_partial_tx(s) \/ Reply(s) \/ Timeout(s) PROVE NodeInv'
  BY <1>5 DEF send_partial_tx, Reply, Timeout
<1>6. ASSUME NEW s \in Sends, UpdateWallet(s) \/ RollbackWallet(s) PROVE NodeInv'
  BY <1>6 DEF UpdateWallet, RollbackWallet
<1>7. ASSUME NEW s \in Sends, receive_transaction(s) PROVE NodeInv'
  <2> DEFINE w == Dest[s]
             v == (Amount[s] - Fee(s)) % ULong
  <2>1. \/ UNCHANGED received /\ handler' = [handler EXCEPT ![s] = "error"]
        \/ /\ Record(w, v, FALSE)
           /\ received' = [received EXCEPT ![s] = [key |-> NextKey(w), value |-> v]]
           /\ \E h \in {"recorded", "error"} : handler' = [handler EXCEPT ![s] = h]
    BY <1>7 DEF receive_transaction
  <2> HIDE DEF v
  <2>2. Record(w, v, FALSE) => IsCoin([key |-> NextKey(w), value |-> v])
    BY <1>0
  <2>3. UNCHANGED <<pc, change, utxo, pool, mined>> /\ handler[s] = "received"
    BY <1>7 DEF receive_transaction
  <2> QED BY <2>1, <2>2, <2>3
<1>8. ASSUME NEW s \in Sends, Push(s) PROVE NodeInv'
  <2>1. IsCoin(change[s]) /\ IsCoin(received[s])
    BY <1>8 DEF Push
  <2>2. Accepts(Tx(s)) => \A c \in Tx(s).inputs \cup Tx(s).outputs : IsCoin(c)
    BY <2>1 DEF Accepts, Tx, PoolOutputs
  <2>3. pool' = pool \/ (Accepts(Tx(s)) /\ pool' = pool \cup {Tx(s)})
    BY <1>8 DEF Push
  <2> QED BY <1>8, <2>1, <2>2, <2>3 DEF Push
<1>9. ASSUME NEW c \in Coinbases, receive_coinbase(c) PROVE NodeInv'
  <2> DEFINE w == WalletOf[c]
  <2>1. \/ UNCHANGED received /\ pc' = [pc EXCEPT ![c] = "failed"]
        \/ /\ Record(w, Reward, TRUE)
           /\ received' = [received EXCEPT ![c] = [key |-> NextKey(w), value |-> Reward]]
           /\ pc' = [pc EXCEPT ![c] = "done"]
    BY <1>9 DEF receive_coinbase
  <2>2. Record(w, Reward, TRUE) => IsCoin([key |-> NextKey(w), value |-> Reward])
    BY <1>0
  <2>3. UNCHANGED <<handler, change, utxo, pool, mined>>
    BY <1>9 DEF receive_coinbase
  <2> QED BY <2>1, <2>2, <2>3
<1>10. ASSUME NEW T \in SUBSET pool, NEW C \in {{}} \cup {{c} : c \in {b \in Coinbases : pc[b] = "done"}},
              Mine(T, C)
       PROVE  NodeInv'
  <2>1. \A c \in C : IsCoin(received[c])
    OBVIOUS
  <2>2. \A c \in DOMAIN utxo' : IsCoin(c)
    BY <1>10, <2>1 DEF Mine
  <2>3. pool' \cup mined' \subseteq pool \cup mined
    BY <1>10 DEF Mine
  <2> QED BY <1>10, <2>2, <2>3 DEF Mine
<1>11. CASE UNCHANGED vars
  BY <1>11 DEF vars
<1> QED BY <1>1, <1>2, <1>3, <1>4, <1>5, <1>6, <1>7, <1>8, <1>9, <1>10, <1>11
           DEF Next, SendStep, HandlerStep, RefreshStep, Terminated

\* An output is locked by UpdateWallet alone, when the transaction is at the node.
LEMMA LockedStep ==
  TypeInv /\ PushInv /\ LockedOnlyIfPushed /\ [Next]_vars => LockedOnlyIfPushed'
<1> SUFFICES ASSUME TypeInv, PushInv, LockedOnlyIfPushed, [Next]_vars,
                    NEW w \in Wallets, NEW k \in DOMAIN outputs'[w], outputs'[w][k].status = "Locked"
             PROVE  \E t \in pool' \cup mined' : Coin(outputs'[w], k) \in t.inputs
  BY DEF LockedOnlyIfPushed
<1>1. pool \cup mined \subseteq pool' \cup mined'
  BY DEF Next, SendStep, HandlerStep, RefreshStep, Terminated, Snapshot, Query, Apply,
         get_tip_from_node, SelectCoins, inputs_and_change, send_partial_tx, Reply, Timeout,
         UpdateWallet, RollbackWallet, receive_transaction, Push, receive_coinbase, Mine, node, vars
<1>2. CASE k \in DOMAIN outputs[w] /\ outputs[w][k].status = "Locked"
  <2>1. Coin(outputs'[w], k) = Coin(outputs[w], k)
    BY <1>2, NextKeeps DEF WalletsKept, Coin
  <2> QED BY <1>1, <1>2, <2>1 DEF LockedOnlyIfPushed
<1>3. CASE k \notin DOMAIN outputs[w] \/ outputs[w][k].status # "Locked"
  <2>1. PICK s \in Sends : UpdateWallet(s) /\ Coin(outputs[w], k) \in ToSet(coins[s])
                           /\ k \in DOMAIN outputs[w]
    <3> USE PaymentsAssumption DEF wallet
    <3>0. ASSUME NEW v \in Wallets, NEW x, NEW b, Record(v, x, b) PROVE FALSE
      BY <1>3, <3>0, RecordStep
    <3>1. ~UNCHANGED outputs
      BY <1>3
    <3>2. ASSUME NEW c \in Sends \cup Infos, Snapshot(c) \/ Query(c) \/ Apply(c) PROVE FALSE
      <4>1. ~Apply(c)
        BY <1>3, ApplyKeeps
      <4> QED BY <3>1, <3>2, <4>1 DEF Snapshot, Query
    <3>3. ASSUME NEW s \in Sends,
                 \/ get_tip_from_node(s) \/ SelectCoins(s) \/ send_partial_tx(s)
                 \/ Reply(s) \/ Timeout(s) \/ Push(s)
          PROVE  FALSE
      BY <3>1, <3>3 DEF get_tip_from_node, SelectCoins, send_partial_tx, Reply, Timeout, Push
    <3>4. ASSUME NEW s \in Sends, inputs_and_change(s) PROVE FALSE
      BY <3>0, <3>1, <3>4 DEF inputs_and_change, With_wallet_throws, Calls
    <3>5. ASSUME NEW s \in Sends, RollbackWallet(s) PROVE FALSE
      BY <1>3, <3>5, RollbackKeeps
    <3>6. ASSUME NEW s \in Sends, receive_transaction(s) PROVE FALSE
      BY <3>0, <3>1, <3>6 DEF receive_transaction, With_wallet_throws
    <3>7. ASSUME NEW c \in Coinbases, receive_coinbase(c) PROVE FALSE
      BY <3>0, <3>1, <3>7 DEF receive_coinbase, With_wallet_throws, Calls
    <3>8. ASSUME NEW T, NEW C, Mine(T, C) PROVE FALSE
      BY <3>1, <3>8 DEF Mine
    <3>9. ASSUME NEW s \in Sends, UpdateWallet(s)
          PROVE  Coin(outputs[w], k) \in ToSet(coins[s]) /\ k \in DOMAIN outputs[w]
      BY <1>3, <3>9, LockKeeps
    <3> QED BY <3>1, <3>2, <3>3, <3>4, <3>5, <3>6, <3>7, <3>8, <3>9
               DEF Next, SendStep, HandlerStep, RefreshStep, Terminated, vars
  <2>2. Coin(outputs'[w], k) = Coin(outputs[w], k)
    BY <2>1, NextKeeps DEF WalletsKept, Coin
  <2>3. Tx(s) \in pool \cup mined /\ Tx(s).inputs = ToSet(coins[s])
    BY <2>1 DEF UpdateWallet, PushInv, Tx
  <2> QED BY <1>1, <2>1, <2>2, <2>3
<1> QED BY <1>2, <1>3
-------------------------------------------------------------------------------
(* Keys *)


\* A coin stays tracked as long as its key does.
LEMMA TrackedStays ==
  ASSUME WalletsKept, NEW c, c.key[1] \in Wallets, TrackedIn(outputs, c),
         c.key \in DOMAIN outputs'[c.key[1]]
  PROVE  TrackedIn(outputs', c)
  BY DEF WalletsKept, TrackedIn

\* A tracked coin does not have the key that is used next, and stays tracked.
LEMMA TrackedNotNext ==
  ASSUME TypeInv, NEW w \in Wallets, NEW v, NEW b, Record(w, v, b),
         NEW c, c.key \in Wallets \X Nat, TrackedIn(outputs, c)
  PROVE  c.key # NextKey(w) /\ TrackedIn(outputs', c)
<1>1. c.key[1] \in Wallets
  OBVIOUS
<1>2. c.key # NextKey(w)
  <2> SUFFICES ASSUME c.key = NextKey(w) PROVE FALSE
    OBVIOUS
  <2>1. c.key[1] = w
    BY DEF NextKey
  <2> QED BY <2>1, RecordStep DEF TrackedIn
<1>3. c.key \in DOMAIN outputs'[c.key[1]]
  BY <1>1, RecordStep DEF TrackedIn
<1>4. WalletsKept
  BY RecordKeeps
<1> QED BY <1>1, <1>2, <1>3, <1>4, TrackedStays

\* Where no output is deleted the keys stay in order.
LEMMA KeysKept ==
  ASSUME WalletsKept, \A w \in Wallets : DOMAIN outputs[w] \subseteq DOMAIN outputs'[w],
         NEW r, NEW d, NEW H \in SUBSET Sends, KeysOf(outputs, r, d, H),
         NEW G \in SUBSET H
  PROVE  KeysOf(outputs', r, d, G)
<1>1. ASSUME NEW c \in DOMAIN r, r[c] # NoCoin PROVE TrackedIn(outputs', r[c])
  <2>1. r[c].key \in Wallets \X Nat /\ TrackedIn(outputs, r[c])
    BY <1>1 DEF KeysOf, IsCoin
  <2>2. r[c].key[1] \in Wallets
    BY <2>1
  <2> QED BY <2>1, <2>2, TrackedStays DEF TrackedIn
<1>2. ASSUME NEW s \in G PROVE TrackedIn(outputs', d[s])
  <2>1. d[s].key \in {WalletOf[s]} \X Nat /\ TrackedIn(outputs, d[s])
    BY DEF KeysOf
  <2>2. d[s].key[1] \in Wallets
    BY <2>1, PaymentsAssumption DEF Calls
  <2> QED BY <2>1, <2>2, TrackedStays DEF TrackedIn
<1> QED BY <1>1, <1>2 DEF KeysOf

\* Recording an output adds a tracked coin, under a key of its own.
LEMMA KeysRecord ==
  ASSUME TypeInv, NEW w \in Wallets, NEW v, NEW b, Record(w, v, b),
         NEW r, NEW d, NEW H \in SUBSET Sends, KeysOf(outputs, r, d, H),
         NEW coin, coin = [key |-> NextKey(w), value |-> v]
  PROVE  /\ KeysOf(outputs', r, d, H)
         /\ \A c \in DOMAIN r : r[c] # NoCoin => r[c].key # coin.key
         /\ \A s \in H : d[s].key # coin.key
         /\ coin.key \in {w} \X Nat
         /\ IsCoin(coin)
         /\ TrackedIn(outputs', coin)
<1>1. coin.key = NextKey(w) /\ coin.value = v /\ NextKey(w)[1] = w
  BY DEF NextKey
<1>2. /\ coin.key \in {w} \X Nat
      /\ IsCoin(coin)
      /\ TrackedIn(outputs', coin)
  BY <1>1, RecordStep DEF IsCoin, TrackedIn
<1>3. ASSUME NEW c \in DOMAIN r, r[c] # NoCoin PROVE r[c].key # coin.key
  BY <1>1, <1>3, TrackedNotNext DEF KeysOf, IsCoin
<1>4. ASSUME NEW s \in H PROVE d[s].key # coin.key
  <2>1. d[s].key \in Wallets \X Nat /\ TrackedIn(outputs, d[s])
    BY PaymentsAssumption DEF KeysOf, Calls
  <2> QED BY <1>1, <2>1, TrackedNotNext
<1>5. WalletsKept /\ \A x \in Wallets : DOMAIN outputs[x] \subseteq DOMAIN outputs'[x]
  BY RecordKeeps, RecordStep
<1>6. KeysOf(outputs', r, d, H)
  BY <1>5, KeysKept
<1> QED BY <1>2, <1>3, <1>4, <1>6

\* No send deletes what was received.
LEMMA KeyStep == TypeInv /\ PushInv /\ KeyInv /\ [Next]_vars => KeyInv'
<1> SUFFICES ASSUME TypeInv, PushInv, KeyInv, [Next]_vars PROVE KeyInv'
  OBVIOUS
<1>0. WalletsKept /\ Holders \in SUBSET Sends
  BY NextKeeps DEF Holders
<1>k. ASSUME UNCHANGED <<received, change>>,
             \A w \in Wallets : DOMAIN outputs[w] \subseteq DOMAIN outputs'[w],
             \A s \in Sends : pc'[s] \in Holding => pc[s] \in Holding
      PROVE  KeyInv'
  <2>1. Holders' \in SUBSET Holders
    BY <1>k DEF Holders
  <2> QED BY <1>0, <1>k, <2>1, KeysKept DEF KeyInv
<1>r. ASSUME NEW w \in Wallets, NEW v, NEW b, Record(w, v, b), UNCHANGED <<received, change>>,
             \A s \in Sends : pc'[s] \in Holding => pc[s] \in Holding
      PROVE  KeyInv'
  BY <1>r, <1>k, RecordStep
<1> USE PaymentsAssumption DEF Goto, Calls, wallet, refresh, send, receive, node
<1>1. ASSUME NEW c \in Sends \cup Infos, Snapshot(c) \/ Query(c) \/ Apply(c) PROVE KeyInv'
  <2>1. UNCHANGED <<received, change>> /\ \A w \in Wallets : DOMAIN outputs[w] \subseteq DOMAIN outputs'[w]
    BY <1>1, ApplyKeeps DEF Snapshot, Query, Apply
  <2>2. \A s \in Sends : pc'[s] \in Holding => pc[s] \in Holding
    BY <1>1 DEF Snapshot, Query, Apply, Holding, Refreshed, TypeInv
  <2> QED BY <1>k, <2>1, <2>2
<1>2. ASSUME NEW s \in Sends,
             \/ get_tip_from_node(s) \/ SelectCoins(s) \/ send_partial_tx(s)
             \/ Reply(s) \/ Timeout(s) \/ UpdateWallet(s) \/ Push(s)
      PROVE  KeyInv'
  <2>1. UNCHANGED <<received, change>> /\ \A w \in Wallets : DOMAIN outputs[w] \subseteq DOMAIN outputs'[w]
    BY <1>2, LockKeeps
       DEF get_tip_from_node, SelectCoins, send_partial_tx, Reply, Timeout, UpdateWallet, Push
  <2>2. \A t \in Sends : pc'[t] \in Holding => pc[t] \in Holding
    BY <1>2 DEF get_tip_from_node, SelectCoins, send_partial_tx, Reply, Timeout, UpdateWallet,
                Push, Holding, TypeInv
  <2> QED BY <1>k, <2>1, <2>2
<1>3. ASSUME NEW s \in Sends, NEW w \in Wallets, w = WalletOf[s], NEW v, NEW b, Record(w, v, b),
             change' = [change EXCEPT ![s] = [key |-> NextKey(w), value |-> v]],
             pc[s] = "selected", pc' = [pc EXCEPT ![s] = "built"], UNCHANGED received
      PROVE  KeyInv'
  <2> DEFINE coin == [key |-> NextKey(w), value |-> v]
  <2>1. Holders' = Holders \cup {s} /\ s \notin Holders
    BY <1>3 DEF Holders, Holding, TypeInv
  <2>2. coin = [key |-> NextKey(w), value |-> v]
    OBVIOUS
  <2>3. change'[s] = coin /\ \A t \in Sends \ {s} : change'[t] = change[t]
    BY <1>3 DEF TypeInv
  <2> HIDE DEF coin
  <2>4. /\ KeysOf(outputs', received, change, Holders)
        /\ \A c \in DOMAIN received : received[c] # NoCoin => received[c].key # coin.key
        /\ \A t \in Holders : change[t].key # coin.key
        /\ coin.key \in {w} \X Nat
        /\ TrackedIn(outputs', coin)
    BY <1>0, <1>3, <2>2, KeysRecord DEF KeyInv
  <2> QED BY <1>0, <1>3, <2>1, <2>3, <2>4 DEF KeyInv, KeysOf
<1>4. ASSUME NEW c \in DOMAIN received, NEW w \in Wallets, NEW v, NEW b, Record(w, v, b),
             received' = [received EXCEPT ![c] = [key |-> NextKey(w), value |-> v]],
             UNCHANGED change, \A s \in Sends : pc'[s] = pc[s]
      PROVE  KeyInv'
  <2> DEFINE coin == [key |-> NextKey(w), value |-> v]
  <2>1. Holders' = Holders
    BY <1>4 DEF Holders
  <2>2. coin = [key |-> NextKey(w), value |-> v]
    OBVIOUS
  <2>3. received'[c] = coin /\ DOMAIN received' = DOMAIN received
        /\ \A e \in DOMAIN received \ {c} : received'[e] = received[e]
    BY <1>4
  <2> HIDE DEF coin
  <2>4. /\ KeysOf(outputs', received, change, Holders)
        /\ \A s \in Holders : change[s].key # coin.key
        /\ IsCoin(coin)
        /\ TrackedIn(outputs', coin)
    BY <1>0, <1>4, <2>2, KeysRecord DEF KeyInv
  <2> QED BY <1>4, <2>1, <2>3, <2>4 DEF KeyInv, KeysOf
<1>5. ASSUME NEW s \in Sends, receive_transaction(s) PROVE KeyInv'
  <2> DEFINE v == (Amount[s] - Fee(s)) % ULong
  <2>1. \/ UNCHANGED <<outputs, received>>
        \/ Record(Dest[s], v, FALSE) /\ UNCHANGED received
        \/ Record(Dest[s], v, FALSE) /\ received' = [received EXCEPT ![s] = [key |-> NextKey(Dest[s]), value |-> v]]
    BY <1>5 DEF receive_transaction, With_wallet_throws
  <2> HIDE DEF v
  <2>2. UNCHANGED <<change, pc>> /\ s \in DOMAIN received /\ Dest[s] \in Wallets
    BY <1>5 DEF receive_transaction, TypeInv
  <2> QED BY <1>k, <1>r, <1>4, <2>1, <2>2
<1>6. ASSUME NEW c \in Coinbases, receive_coinbase(c) PROVE KeyInv'
  <2> DEFINE w == WalletOf[c]
  <2>1. \/ UNCHANGED <<outputs, received>>
        \/ Record(w, Reward, TRUE) /\ UNCHANGED received
        \/ Record(w, Reward, TRUE) /\ received' = [received EXCEPT ![c] = [key |-> NextKey(w), value |-> Reward]]
    BY <1>6 DEF receive_coinbase, With_wallet_throws
  <2>2. UNCHANGED change /\ c \in DOMAIN received /\ w \in Wallets /\ \A s \in Sends : pc'[s] = pc[s]
    BY <1>6 DEF receive_coinbase, TypeInv
  <2> HIDE DEF w
  <2> QED BY <1>k, <1>r, <1>4, <2>1, <2>2
<1>7. ASSUME NEW s \in Sends, RollbackWallet(s) PROVE KeyInv'
  <2>1. Holders' = Holders \ {s} /\ s \in Holders /\ UNCHANGED <<received, change>>
    BY <1>7 DEF Holders, Holding, TypeInv, RollbackWallet
  <2>2. ASSUME NEW coin, coin.key \in Wallets \X Nat, TrackedIn(outputs, coin), coin.key # change[s].key
        PROVE  TrackedIn(outputs', coin)
    <3>1. coin.key[1] \in Wallets
      BY <2>2
    <3>2. coin.key \in DOMAIN outputs'[coin.key[1]]
      BY <1>7, <2>2, <3>1, RollbackKeeps DEF TrackedIn
    <3> QED BY <1>0, <2>2, <3>1, <3>2, TrackedStays
  <2>3. ASSUME NEW c \in DOMAIN received, received[c] # NoCoin PROVE TrackedIn(outputs', received[c])
    BY <2>1, <2>2, <2>3 DEF KeyInv, KeysOf, IsCoin
  <2>4. ASSUME NEW t \in Holders \ {s} PROVE TrackedIn(outputs', change[t])
    <3>1. change[t].key \in Wallets \X Nat /\ TrackedIn(outputs, change[t]) /\ change[t].key # change[s].key
      BY <1>0, <2>1 DEF KeyInv, KeysOf
    <3> QED BY <2>2, <3>1
  <2> QED BY <2>1, <2>3, <2>4 DEF KeyInv, KeysOf
<1>8. ASSUME NEW T, NEW C, Mine(T, C) PROVE KeyInv'
  BY <1>8, <1>k DEF Mine
<1>9. CASE UNCHANGED vars
  BY <1>9, <1>k DEF vars
<1>10. ASSUME NEW s \in Sends, inputs_and_change(s) PROVE KeyInv'
  <2> DEFINE w == WalletOf[s]
             v == Total(coins[s]) - Amount[s]
  <2>1. \/ UNCHANGED <<outputs, change>> /\ pc' = [pc EXCEPT ![s] = "failed"]
        \/ Record(w, v, FALSE) /\ UNCHANGED change /\ pc' = [pc EXCEPT ![s] = "failed"]
        \/ /\ Record(w, v, FALSE)
           /\ change' = [change EXCEPT ![s] = [key |-> NextKey(w), value |-> v]]
           /\ pc' = [pc EXCEPT ![s] = "built"]
    BY <1>10 DEF inputs_and_change, With_wallet_throws
  <2>2. pc[s] = "selected" /\ UNCHANGED received /\ w \in Wallets
    BY <1>10 DEF inputs_and_change
  <2> HIDE DEF v
  <2> QED BY <1>k, <1>r, <1>3, <2>1, <2>2 DEF Holding, TypeInv
<1> QED BY <1>1, <1>2, <1>10, <1>5, <1>6, <1>7, <1>8, <1>9
           DEF Next, SendStep, HandlerStep, RefreshStep, Terminated
-------------------------------------------------------------------------------
(* The properties *)

\* Every step keeps the invariant.
LEMMA StepInv == IInv /\ [Next]_vars => IInv'
  BY TypeStep, PushStep, NodeStep, KeyStep, LockedStep DEF IInv

\* The invariant holds in every state.
LEMMA Invariance == Spec => []IInv
  BY InitInv, StepInv, PTL DEF Spec

\* Whatever calls and faults interleave, no step of any of them makes a locked
\* output spendable again or forgets that an output was confirmed.
THEOREM StatusesMove == Spec => StatusMoves
<1>1. IInv /\ [Next]_vars =>
      [\A w \in Wallets : \A k \in DOMAIN outputs[w] \cap DOMAIN outputs'[w] :
         <<outputs[w][k].status, outputs'[w][k].status>> \in
           {<<a, a>> : a \in OutputStatus}
           \cup {<<"Unconfirmed", "Unspent">>, <<"Unconfirmed", "Locked">>,
                 <<"Unspent", "Locked">>, <<"Unspent", "Spent">>,
                 <<"Locked", "Spent">>, <<"Spent", "Locked">>}]_vars
  <2> SUFFICES ASSUME IInv, [Next]_vars,
                      NEW w \in Wallets, NEW k \in DOMAIN outputs[w] \cap DOMAIN outputs'[w]
               PROVE  StatusStep(outputs[w][k].status, outputs'[w][k].status)
    BY DEF StatusStep
  <2> QED BY NextKeeps DEF IInv, WalletsKept
<1> QED BY <1>1, Invariance, PTL DEF Spec, StatusMoves

\* An output is locked only when a transaction that spends it has reached the
\* node, however many sends, refreshes, timeouts and failures interleave.
THEOREM LockedArePushed == Spec => []LockedOnlyIfPushed
<1>1. IInv => LockedOnlyIfPushed
  BY DEF IInv
<1> QED BY <1>1, Invariance, PTL

\* No rollback deletes an output that another request has recorded, although all
\* of them take the key after the greatest: what a wallet was paid, or mined, and
\* the chain has, the wallet tracks, for any number of faults.
THEOREM ReceivedAreTracked == Spec => []ReceivedTracked
<1>1. IInv => ReceivedTracked
  <2> SUFFICES ASSUME IInv, NEW c \in Sends \cup Coinbases, received[c] \in OnChain
               PROVE  Tracked(received[c])
    BY DEF ReceivedTracked
  <2>1. IsCoin(received[c])
    BY DEF IInv, NodeInv, OnChain
  <2>2. received[c] # NoCoin
    <3>1. NoCoin.key = <<>> /\ <<>> \notin Wallets \X Nat
      BY DEF NoCoin
    <3> QED BY <2>1, <3>1 DEF IsCoin
  <2> QED BY <2>2 DEF IInv, TypeInv, KeyInv, KeysOf, TrackedIn, Tracked
<1> QED BY <1>1, Invariance, PTL
-------------------------------------------------------------------------------
(* The heights and the answers of the node, and runs in which nothing has   *)
(* failed: no timeout, no unreachable peer, no lock missed                  *)

\* The KeyIds of a wallet's keys differ, so that OrderBy(o => o.KeyId) has one
\* result.
KeyIdsDiffer ==
  \A w \in Wallets : \A m, n \in Nat :
    /\ KeyRank(<<w, n>>) \in Int
    /\ KeyRank(<<w, m>>) = KeyRank(<<w, n>>) => m = n

\* The coins that the node has, or had.
Known == DOMAIN utxo \cup UNION {t.inputs \cup t.outputs : t \in pool \cup mined}

\* A rollback follows on an error of the receiver, which has then stopped, and the
\* receiver works while the sender waits.
InStep ==
  \A s \in Sends :
    /\ pc[s] = "rollback" => handler[s] = "error"
    /\ handler[s] \in {"received", "recorded"} => pc[s] = "waiting"

\* A send spends coins of its own wallet.
OwnCoins ==
  \A s \in Sends : pc[s] \in {"selected", "built", "waiting", "updating", "done"} =>
    \A c \in ToSet(coins[s]) : c.key[1] = WalletOf[s]

\* What the node has, or had, is tracked.
KnownTracked == \A c \in Known : TrackedIn(outputs, c)

\* A change that may be deleted is not known to the node.
ChangeUnknown ==
  \A s \in Sends : pc[s] \in {"built", "waiting", "rollback"} /\ handler[s] # "ok" =>
    \A c \in Known : c.key # change[s].key

\* The heights that the node has given are those of blocks.
HeightInv ==
  /\ faults \in Nat /\ tip \in Nat
  /\ \A c \in DOMAIN utxo : utxo[c].height \in 0 .. tip
  /\ \A c \in Sends \cup Infos : \A d \in DOMAIN api[c] :
       d \in OnChain /\ api[c][d].height \in 0 .. tip

\* A refresh under way asks for outputs of its wallet, which still has them unless
\* a rollback has deleted them since.
FlightInv ==
  \A c \in Sends \cup Infos : \A d \in commits[c] :
    /\ IsCoin(d) /\ d.key[1] = WalletOf[c]
    /\ d.key \in orphaned \/ TrackedIn(outputs, d)

\* UnspentWasMined, with the heights' type.
UnspentInv ==
  \A w \in Wallets : \A k \in DOMAIN outputs[w] :
    outputs[w][k].status = "Unspent" =>
      /\ outputs[w][k].height \in 0 .. tip
      /\ Coin(outputs[w], k) \in OnChain \/ k \in orphaned

\* What holds in addition as long as nothing has failed.
NoFaultInv ==
  InStep /\ OwnCoins /\ KnownTracked /\ ChangeUnknown /\ SentCoinsStayLocked

\* A step meets at most one fault, and what has timed out is not forgotten.
LEMMA FaultsStep == [Next]_vars => (UNCHANGED faults \/ Fault) /\ late \subseteq late'
<1>1. ASSUME NEW c, Snapshot(c) \/ Query(c) \/ Apply(c) \/ receive_coinbase(c)
      PROVE  (UNCHANGED faults \/ Fault) /\ UNCHANGED late
  BY <1>1 DEF Snapshot, Query, Apply, receive_coinbase, NoFault
<1>2. ASSUME NEW s, get_tip_from_node(s) \/ SelectCoins(s) \/ inputs_and_change(s)
                    \/ send_partial_tx(s) \/ Reply(s) \/ Timeout(s)
      PROVE  (UNCHANGED faults \/ Fault) /\ late \subseteq late'
  BY <1>2 DEF get_tip_from_node, SelectCoins, inputs_and_change, send_partial_tx, Reply, Timeout, NoFault
<1>3. ASSUME NEW s, UpdateWallet(s) \/ RollbackWallet(s) \/ receive_transaction(s) \/ Push(s)
      PROVE  (UNCHANGED faults \/ Fault) /\ UNCHANGED late
  BY <1>3 DEF UpdateWallet, RollbackWallet, receive_transaction, Push, NoFault
<1>4. ASSUME NEW T, NEW C, Mine(T, C) PROVE UNCHANGED <<faults, late>>
  BY <1>4 DEF Mine
<1> QED BY <1>1, <1>2, <1>3, <1>4 DEF Next, SendStep, HandlerStep, RefreshStep, Terminated, vars

\* The heights come from the chain, whose coins stay on it.
LEMMA HeightStep == TypeInv /\ HeightInv /\ [Next]_vars => HeightInv' /\ OnChain \subseteq OnChain' /\ tip <= tip'
<1> SUFFICES ASSUME TypeInv, HeightInv, [Next]_vars
             PROVE  HeightInv' /\ OnChain \subseteq OnChain' /\ tip <= tip'
  OBVIOUS
<1>0. faults' \in Nat
  BY FaultsStep DEF HeightInv, Fault
<1>1. ASSUME UNCHANGED <<utxo, mined, tip, api>>
      PROVE  HeightInv' /\ OnChain \subseteq OnChain' /\ tip <= tip'
  BY <1>0, <1>1 DEF HeightInv, OnChain
<1>2. ASSUME NEW c \in Sends \cup Infos, Query(c)
      PROVE  HeightInv' /\ OnChain \subseteq OnChain' /\ tip <= tip'
  <2>1. UNCHANGED <<utxo, mined, tip>>
    BY <1>2 DEF Query, node
  <2>2. CASE UNCHANGED api
    BY <1>1, <2>1, <2>2
  <2>3. CASE api' = [api EXCEPT ![c] = Restrict(utxo, commits[c] \cap DOMAIN utxo)]
    <3> DEFINE r == Restrict(utxo, commits[c] \cap DOMAIN utxo)
    <3>1. DOMAIN r \subseteq DOMAIN utxo /\ \A d \in DOMAIN r : r[d] = utxo[d]
      BY DEF Restrict
    <3>2. api'[c] = r /\ \A e \in (Sends \cup Infos) \ {c} : api'[e] = api[e]
      BY <2>3 DEF TypeInv
    <3>3. \A d \in DOMAIN r : d \in OnChain /\ r[d].height \in 0 .. tip
      BY <3>1 DEF HeightInv, OnChain
    <3> HIDE DEF r
    <3> QED BY <1>0, <2>1, <3>2, <3>3 DEF HeightInv, OnChain
  <2> QED BY <1>2, <2>2, <2>3 DEF Query
<1>3. ASSUME NEW c \in Sends \cup Infos, Apply(c)
      PROVE  HeightInv' /\ OnChain \subseteq OnChain' /\ tip <= tip'
  <2>1. UNCHANGED <<utxo, mined, tip>> /\ api' = [api EXCEPT ![c] = <<>>]
    BY <1>3 DEF Apply, node
  <2>2. DOMAIN api'[c] = {} /\ \A e \in (Sends \cup Infos) \ {c} : api'[e] = api[e]
    BY <2>1 DEF TypeInv
  <2> QED BY <1>0, <2>1, <2>2 DEF HeightInv, OnChain
<1>4. ASSUME NEW T, NEW C, Mine(T, C)
      PROVE  HeightInv' /\ OnChain \subseteq OnChain' /\ tip <= tip'
  <2>1. tip' = tip + 1 /\ tip \in Nat /\ UNCHANGED api /\ mined' = mined \cup T
    BY <1>4 DEF Mine, HeightInv, refresh
  <2>2. \A h \in 0 .. tip : h \in 0 .. tip'
    BY <2>1
  <2>3. /\ DOMAIN utxo \ UNION {t.inputs : t \in T} \subseteq DOMAIN utxo'
        /\ \A c \in DOMAIN utxo' : utxo'[c].height = tip + 1 \/ (c \in DOMAIN utxo /\ utxo'[c] = utxo[c])
    BY <1>4 DEF Mine
  <2>4. OnChain \subseteq OnChain'
    BY <2>1, <2>3 DEF OnChain
  <2>5. \A c \in DOMAIN utxo' : utxo'[c].height \in 0 .. tip'
    BY <2>1, <2>2, <2>3 DEF HeightInv
  <2>6. \A c \in Sends \cup Infos : \A d \in DOMAIN api'[c] : d \in OnChain' /\ api'[c][d].height \in 0 .. tip'
    BY <2>1, <2>2, <2>4 DEF HeightInv
  <2> QED BY <1>0, <2>1, <2>4, <2>5, <2>6 DEF HeightInv
<1>5. ASSUME NEW s \in Sends,
             \/ get_tip_from_node(s) \/ SelectCoins(s) \/ inputs_and_change(s) \/ send_partial_tx(s)
             \/ Reply(s) \/ Timeout(s) \/ UpdateWallet(s) \/ RollbackWallet(s)
             \/ receive_transaction(s) \/ Push(s)
      PROVE  UNCHANGED <<utxo, mined, tip, api>>
  BY <1>5 DEF get_tip_from_node, SelectCoins, inputs_and_change, send_partial_tx, Reply, Timeout,
              UpdateWallet, RollbackWallet, receive_transaction, Push, refresh, node
<1>6. ASSUME NEW c, Snapshot(c) \/ receive_coinbase(c) PROVE UNCHANGED <<utxo, mined, tip, api>>
  BY <1>6 DEF Snapshot, receive_coinbase, refresh, node
<1>7. CASE UNCHANGED vars
  BY <1>1, <1>7 DEF vars, refresh, node
<1> QED BY <1>1, <1>2, <1>3, <1>4, <1>5, <1>6, <1>7
           DEF Next, SendStep, HandlerStep, RefreshStep, Terminated

\* The coins of a send that is about to lock them, or has, are at the node.
LEMMA SentAreKnown ==
  ASSUME PushInv, NEW s \in Sends, pc[s] \in {"updating", "done"}
  PROVE  ToSet(coins[s]) \subseteq Known
<1>1. Tx(s) \in pool \cup mined /\ Tx(s).inputs = ToSet(coins[s])
  BY DEF PushInv, Tx
<1> QED BY <1>1 DEF Known

\* What is known to the node are coins.
LEMMA KnownAreCoins == ASSUME NodeInv PROVE \A c \in Known : IsCoin(c)
  BY DEF NodeInv, Known

\* Locking the coins does not throw, as no output that is known is deleted.
LEMMA LockSucceeds ==
  ASSUME PushInv, OwnCoins, KnownTracked, NEW s \in Sends, pc[s] = "updating"
  PROVE  ~Lock_output_throws(outputs[WalletOf[s]], coins[s])
<1>1. \A c \in ToSet(coins[s]) : c \in Known /\ c.key[1] = WalletOf[s]
  BY SentAreKnown DEF OwnCoins
<1> QED BY <1>1 DEF Lock_output_throws, KnownTracked, TrackedIn

\* Without faults a send and its receiver stay in step.
LEMMA InStepStep ==
  ASSUME TypeInv, PushInv, OwnCoins, KnownTracked, InStep, ~Fault, late' = {}, [Next]_vars
  PROVE  InStep'
<1> USE PaymentsAssumption
        DEF TypeInv, PushInv, InStep, Goto, Holding, Ended, Calls, Refreshed, wallet, refresh, send, receive, node
<1>1. ASSUME NEW c \in Sends \cup Infos, Snapshot(c) \/ Query(c) \/ Apply(c) PROVE InStep'
  <2>1. CASE Snapshot(c)
    BY <2>1 DEF Snapshot
  <2>2. CASE Query(c)
    BY <2>2 DEF Query
  <2>3. CASE Apply(c)
    BY <2>3 DEF Apply
  <2> QED BY <1>1, <2>1, <2>2, <2>3
<1>2. ASSUME NEW s \in Sends, get_tip_from_node(s) \/ SelectCoins(s) PROVE InStep'
  BY <1>2 DEF get_tip_from_node, SelectCoins
<1>3. ASSUME NEW s \in Sends, inputs_and_change(s) PROVE InStep'
  BY <1>3 DEF inputs_and_change
<1>4. ASSUME NEW s \in Sends, send_partial_tx(s) \/ Reply(s) PROVE InStep'
  BY <1>4 DEF send_partial_tx, Reply
<1>5. ASSUME NEW s \in Sends, Timeout(s) PROVE FALSE
  BY <1>5 DEF Timeout
<1>6. ASSUME NEW s \in Sends, UpdateWallet(s) PROVE InStep'
  <2>1. pc[s] = "updating" /\ UNCHANGED handler
    BY <1>6 DEF UpdateWallet
  <2>2. ~Lock_output_throws(outputs[WalletOf[s]], coins[s])
    BY <2>1, LockSucceeds
  <2>3. pc' = [pc EXCEPT ![s] = "done"]
    BY <1>6, <2>2 DEF UpdateWallet
  <2> QED BY <2>1, <2>3
<1>7. ASSUME NEW s \in Sends, RollbackWallet(s) PROVE InStep'
  BY <1>7 DEF RollbackWallet
<1>8. ASSUME NEW s \in Sends, receive_transaction(s) PROVE InStep'
  BY <1>8 DEF receive_transaction
<1>9. ASSUME NEW s \in Sends, Push(s) PROVE InStep'
  BY <1>9 DEF Push
<1>10. ASSUME NEW c \in Coinbases, receive_coinbase(c) PROVE InStep'
  BY <1>10 DEF receive_coinbase
<1>11. ASSUME NEW T, NEW C, Mine(T, C) PROVE InStep'
  BY <1>11 DEF Mine
<1>12. CASE UNCHANGED vars
  BY <1>12 DEF vars
<1> QED BY <1>1, <1>2, <1>3, <1>4, <1>5, <1>6, <1>7, <1>8, <1>9, <1>10, <1>11, <1>12
           DEF Next, SendStep, HandlerStep, RefreshStep, Terminated

\* Select gives coins of the wallet it reads.
LEMMA SelectedAreOwn ==
  ASSUME KeyIdsDiffer, NEW w \in Wallets, NEW o, IsWallet(o, w), NEW h, NEW amount, NEW all,
         NEW e, e = Eligible(o, w, h, MinConf), ~Select_throws(e, MaxOutputs)
  PROVE  \A c \in ToSet(Select(e, amount, MaxOutputs, all)) : c.key[1] = w
<1> DEFINE S == EligibleCoins(o, w, h, MinConf)
           t == Select(e, amount, MaxOutputs, all)
<1>1. RanksDiffer(o, w) /\ IsFiniteSet(DOMAIN o)
  <2>1. \A k \in DOMAIN o : k = <<w, k[2]>> /\ k[2] \in Nat
    BY DEF IsWallet
  <2>2. \A j, k \in DOMAIN o : KeyRank(k) \in Int /\ (KeyRank(j) = KeyRank(k) => j = k)
    <3> SUFFICES ASSUME NEW j \in DOMAIN o, NEW k \in DOMAIN o
                 PROVE  KeyRank(k) \in Int /\ (KeyRank(j) = KeyRank(k) => j = k)
      OBVIOUS
    <3>1. PICK m \in Nat : j = <<w, m>>
      BY <2>1
    <3>2. PICK n \in Nat : k = <<w, n>>
      BY <2>1
    <3> QED BY <3>1, <3>2 DEF KeyIdsDiffer
  <2> QED BY <2>2 DEF RanksDiffer, IsWallet
<1>2. e \in Seq(S) /\ IsInjective(e)
  BY <1>1, EligibleIs
<1>3. MaxOutputs \in Nat /\ MaxOutputs # 0
  BY PaymentsAssumption DEF Select_throws
<1>4. \A c \in S : c.key[1] = w
  BY DEF EligibleCoins, Coin
<1> HIDE DEF S
<1>5. t \in Seq(S)
  BY <1>2, <1>3, SelectIs DEF Selection
<1> HIDE DEF t
<1>6. ToSet(t) \subseteq S
  BY <1>5 DEF ToSet
<1> QED BY <1>4, <1>6 DEF t

\* The coins of a send stay those of its wallet.
LEMMA OwnCoinsStep == ASSUME KeyIdsDiffer, TypeInv, OwnCoins, [Next]_vars PROVE OwnCoins'
<1> DEFINE Mid == {"selected", "built", "waiting", "updating", "done"}
<1>0. ASSUME UNCHANGED coins, \A s \in Sends : pc'[s] \in Mid => pc[s] \in Mid PROVE OwnCoins'
  BY <1>0 DEF OwnCoins
<1> USE PaymentsAssumption DEF TypeInv, Goto, Calls, Refreshed, wallet, refresh, send, receive, node
<1>1. ASSUME NEW c \in Sends \cup Infos, Snapshot(c) \/ Query(c) \/ Apply(c)
      PROVE  UNCHANGED coins /\ \A s \in Sends : pc'[s] \in Mid => pc[s] \in Mid
  <2>1. CASE Snapshot(c)
    BY <2>1 DEF Snapshot
  <2>2. CASE Query(c)
    BY <2>2 DEF Query
  <2>3. CASE Apply(c)
    BY <2>3 DEF Apply
  <2> QED BY <1>1, <2>1, <2>2, <2>3
<1>2. ASSUME NEW s \in Sends, get_tip_from_node(s) \/ inputs_and_change(s)
      PROVE  UNCHANGED coins /\ \A t \in Sends : pc'[t] \in Mid => pc[t] \in Mid
  BY <1>2 DEF get_tip_from_node, inputs_and_change
<1>3. ASSUME NEW s \in Sends, send_partial_tx(s) \/ Reply(s) \/ Timeout(s)
      PROVE  UNCHANGED coins /\ \A t \in Sends : pc'[t] \in Mid => pc[t] \in Mid
  BY <1>3 DEF send_partial_tx, Reply, Timeout
<1>4. ASSUME NEW s \in Sends, UpdateWallet(s) \/ RollbackWallet(s)
      PROVE  UNCHANGED coins /\ \A t \in Sends : pc'[t] \in Mid => pc[t] \in Mid
  BY <1>4 DEF UpdateWallet, RollbackWallet
<1>5. ASSUME NEW s \in Sends, receive_transaction(s) \/ Push(s) PROVE UNCHANGED <<coins, pc>>
  BY <1>5 DEF receive_transaction, Push
<1>6. ASSUME NEW c \in Coinbases, receive_coinbase(c)
      PROVE  UNCHANGED coins /\ \A t \in Sends : pc'[t] \in Mid => pc[t] \in Mid
  BY <1>6 DEF receive_coinbase
<1>7. ASSUME NEW T, NEW C, Mine(T, C) PROVE UNCHANGED <<coins, pc>>
  BY <1>7 DEF Mine
<1>8. CASE UNCHANGED vars
  BY <1>8, <1>0 DEF vars
<1>9. ASSUME NEW s \in Sends, SelectCoins(s) PROVE OwnCoins'
  <2> DEFINE w == WalletOf[s]
             e == Eligible(outputs[w], w, height[s], MinConf)
  <2>1. \/ UNCHANGED coins /\ pc' = [pc EXCEPT ![s] = "failed"]
        \/ /\ ~Select_throws(e, MaxOutputs)
           /\ coins' = [coins EXCEPT ![s] = Select(e, Amount[s], MaxOutputs, FALSE)]
           /\ pc' = [pc EXCEPT ![s] = "selected"]
    BY <1>9 DEF SelectCoins
  <2>2. CASE UNCHANGED coins /\ pc' = [pc EXCEPT ![s] = "failed"]
    BY <1>0, <2>2
  <2>3. ASSUME ~Select_throws(e, MaxOutputs), NEW all,
               coins' = [coins EXCEPT ![s] = Select(e, Amount[s], MaxOutputs, all)],
               pc' = [pc EXCEPT ![s] = "selected"]
        PROVE  OwnCoins'
    <3>1. w \in Wallets /\ IsWallet(outputs[w], w)
      OBVIOUS
    <3>2. e = Eligible(outputs[w], w, height[s], MinConf)
      OBVIOUS
    <3> HIDE DEF e
    <3>3. \A c \in ToSet(Select(e, Amount[s], MaxOutputs, all)) : c.key[1] = w
      BY <2>3, <3>1, <3>2, SelectedAreOwn
    <3>4. coins'[s] = Select(e, Amount[s], MaxOutputs, all)
          /\ \A t \in Sends \ {s} : coins'[t] = coins[t] /\ pc'[t] = pc[t]
      BY <2>3
    <3> QED BY <3>3, <3>4 DEF OwnCoins
  <2> HIDE DEF e
  <2> QED BY <2>1, <2>2, <2>3
<1> QED BY <1>0, <1>1, <1>2, <1>3, <1>4, <1>5, <1>6, <1>7, <1>8, <1>9
           DEF Next, SendStep, HandlerStep, RefreshStep, Terminated

\* Without faults no output that the node knows of is deleted, and the change that
\* a send deletes is one that the node has not seen.
LEMMA KnownStep ==
  ASSUME IInv, InStep, OwnCoins, KnownTracked, ChangeUnknown, ~Fault, late' = {}, [Next]_vars
  PROVE  KnownTracked' /\ ChangeUnknown'
<1> DEFINE Early == {"built", "waiting", "rollback"}
           Unsent(s) == pc[s] \in Early /\ handler[s] # "ok"
<1>0. /\ TypeInv /\ PushInv /\ NodeInv /\ KeyInv /\ WalletsKept
      /\ \A c \in Known : IsCoin(c) /\ c.key \in Wallets \X Nat /\ c.key[1] \in Wallets /\ TrackedIn(outputs, c)
  BY NextKeeps, KnownAreCoins DEF IInv, IsCoin, KnownTracked
<1>a. ASSUME \A w \in Wallets : DOMAIN outputs[w] \subseteq DOMAIN outputs'[w], NEW c,
             c.key[1] \in Wallets, TrackedIn(outputs, c)
      PROVE  TrackedIn(outputs', c)
  BY <1>0, <1>a, TrackedStays DEF TrackedIn
<1>k. ASSUME UNCHANGED <<utxo, pool, mined, change>>,
             \A w \in Wallets : DOMAIN outputs[w] \subseteq DOMAIN outputs'[w],
             \A s \in Sends : Unsent(s)' => Unsent(s)
      PROVE  KnownTracked' /\ ChangeUnknown'
  <2>1. Known' = Known
    BY <1>k DEF Known
  <2>2. KnownTracked'
    BY <1>0, <1>a, <1>k, <2>1 DEF KnownTracked
  <2>3. ChangeUnknown'
    BY <1>k, <2>1 DEF ChangeUnknown
  <2> QED BY <2>2, <2>3
<1> USE PaymentsAssumption DEF Goto, Calls, wallet, refresh, send, receive, node
<1>1. ASSUME NEW c \in Sends \cup Infos, Snapshot(c) \/ Query(c) \/ Apply(c)
      PROVE  KnownTracked' /\ ChangeUnknown'
  <2>1. UNCHANGED <<utxo, pool, mined, change, handler>>
        /\ \A w \in Wallets : DOMAIN outputs[w] \subseteq DOMAIN outputs'[w]
    BY <1>0, <1>1, ApplyKeeps DEF Snapshot, Query, Apply
  <2>2. \A s \in Sends : pc'[s] \in Early => pc[s] \in Early
    BY <1>0, <1>1 DEF Snapshot, Query, Apply, Refreshed, TypeInv
  <2> QED BY <1>k, <2>1, <2>2
<1>2. ASSUME NEW s \in Sends, get_tip_from_node(s) \/ SelectCoins(s) \/ UpdateWallet(s)
      PROVE  KnownTracked' /\ ChangeUnknown'
  <2>1. UNCHANGED <<utxo, pool, mined, change, handler>>
        /\ \A w \in Wallets : DOMAIN outputs[w] \subseteq DOMAIN outputs'[w]
    BY <1>0, <1>2, LockKeeps DEF get_tip_from_node, SelectCoins, UpdateWallet
  <2>2. pc[s] = "updating" => ~Lock_output_throws(outputs[WalletOf[s]], coins[s])
    BY <1>0, LockSucceeds
  <2>3. \A t \in Sends : pc'[t] \in Early => pc[t] \in Early
    BY <1>0, <1>2, <2>2 DEF get_tip_from_node, SelectCoins, UpdateWallet, TypeInv
  <2> QED BY <1>k, <2>1, <2>3
<1>3. ASSUME NEW s \in Sends, send_partial_tx(s) \/ Reply(s)
      PROVE  KnownTracked' /\ ChangeUnknown'
  <2>1. UNCHANGED <<utxo, pool, mined, change, outputs>>
    BY <1>3 DEF send_partial_tx, Reply
  <2>2. \A t \in Sends : Unsent(t)' => Unsent(t)
    BY <1>0, <1>3 DEF send_partial_tx, Reply, TypeInv, PushInv, Holding, Ended
  <2> QED BY <1>k, <2>1, <2>2
<1>4. ASSUME NEW s \in Sends, Timeout(s) PROVE FALSE
  BY <1>4 DEF Timeout
<1>5. ASSUME NEW s \in Sends, inputs_and_change(s) PROVE KnownTracked' /\ ChangeUnknown'
  <2> DEFINE w == WalletOf[s]
             v == Total(coins[s]) - Amount[s]
  <2>1. /\ Record(w, v, FALSE)
        /\ change' = [change EXCEPT ![s] = [key |-> NextKey(w), value |-> v]]
        /\ pc' = [pc EXCEPT ![s] = "built"]
        /\ UNCHANGED <<handler, utxo, pool, mined>> /\ w \in Wallets
    BY <1>5 DEF inputs_and_change
  <2>2. change'[s].key = NextKey(w) /\ \A t \in Sends \ {s} : change'[t] = change[t] /\ pc'[t] = pc[t]
    BY <1>0, <2>1 DEF TypeInv
  <2> HIDE DEF v
  <2>3. Known' = Known
    BY <2>1 DEF Known
  <2>4. \A c \in Known : c.key # NextKey(w) /\ TrackedIn(outputs', c)
    <3>1. PICK b : Record(w, v, b)
      BY <2>1
    <3> QED BY <1>0, <2>1, <3>1, TrackedNotNext
  <2> QED BY <2>1, <2>2, <2>3, <2>4 DEF KnownTracked, ChangeUnknown
<1>6. ASSUME NEW s \in Sends, RollbackWallet(s) PROVE KnownTracked' /\ ChangeUnknown'
  <2>1. UNCHANGED <<utxo, pool, mined, change, handler>> /\ pc[s] = "rollback"
        /\ pc' = [pc EXCEPT ![s] = "aborted"]
    BY <1>6 DEF RollbackWallet
  <2>2. Known' = Known
    BY <2>1 DEF Known
  <2>3. \A c \in Known : c.key # change[s].key
    BY <2>1 DEF InStep, ChangeUnknown
  <2>4. ASSUME NEW c \in Known PROVE TrackedIn(outputs', c)
    <3>1. c.key \in DOMAIN outputs'[c.key[1]]
      BY <1>0, <1>6, <2>3, RollbackKeeps DEF TrackedIn
    <3> QED BY <1>0, <3>1, TrackedStays
  <2>5. \A t \in Sends : Unsent(t)' => Unsent(t)
    BY <1>0, <2>1 DEF TypeInv
  <2> QED BY <2>1, <2>2, <2>4, <2>5 DEF KnownTracked, ChangeUnknown
<1>7. ASSUME NEW s \in Sends, receive_transaction(s) PROVE KnownTracked' /\ ChangeUnknown'
  <2> DEFINE v == (Amount[s] - Fee(s)) % ULong
  <2>1. /\ Record(Dest[s], v, FALSE) \/ UNCHANGED outputs
        /\ UNCHANGED <<utxo, pool, mined, change, pc>>
        /\ handler[s] = "received"
        /\ \E h \in {"recorded", "error"} : handler' = [handler EXCEPT ![s] = h]
    BY <1>7 DEF receive_transaction
  <2> HIDE DEF v
  <2>2. \A w \in Wallets : DOMAIN outputs[w] \subseteq DOMAIN outputs'[w]
    <3>1. UNCHANGED outputs \/ \E b : Record(Dest[s], v, b)
      BY <2>1
    <3>2. Dest[s] \in Wallets
      OBVIOUS
    <3> QED BY <1>0, <3>1, <3>2, RecordStep
  <2>3. \A t \in Sends : Unsent(t)' => Unsent(t)
    BY <1>0, <2>1 DEF TypeInv
  <2> QED BY <1>k, <2>1, <2>2, <2>3
<1>8. ASSUME NEW c \in Coinbases, receive_coinbase(c) PROVE KnownTracked' /\ ChangeUnknown'
  <2>1. /\ UNCHANGED <<utxo, pool, mined, change, handler>>
        /\ Record(WalletOf[c], Reward, TRUE) \/ UNCHANGED outputs
    BY <1>8 DEF receive_coinbase
  <2>2. \A w \in Wallets : DOMAIN outputs[w] \subseteq DOMAIN outputs'[w]
    BY <1>0, <2>1, RecordStep
  <2>3. \A t \in Sends : pc'[t] = pc[t]
    BY <1>0, <1>8 DEF receive_coinbase, TypeInv
  <2> QED BY <1>k, <2>1, <2>2, <2>3
<1>9. ASSUME NEW s \in Sends, Push(s) PROVE KnownTracked' /\ ChangeUnknown'
  <2>1. UNCHANGED <<utxo, mined, change, outputs, pc>> /\ handler[s] = "recorded" /\ pc[s] = "waiting"
    BY <1>9 DEF Push, InStep
  <2>2. CASE pool' = pool
    <3>1. \A t \in Sends : Unsent(t)' => Unsent(t)
      BY <1>0, <1>9, <2>1 DEF TypeInv, Push
    <3> QED BY <1>k, <2>1, <2>2, <3>1
  <2>3. CASE Accepts(Tx(s)) /\ pool' = pool \cup {Tx(s)} /\ handler' = [handler EXCEPT ![s] = "ok"]
    <3>1. Tx(s).inputs \subseteq Known
      BY <2>3 DEF Accepts, Known, PoolOutputs
    <3>2. Tx(s).outputs = {change[s], received[s]}
      BY DEF Tx
    <3>3. Known' \subseteq Known \cup {change[s], received[s]}
      BY <2>1, <2>3, <3>1, <3>2 DEF Known
    <3>4. s \in Holders /\ s \in DOMAIN received /\ received[s] # NoCoin
      <4>1. IsCoin(received[s])
        BY <1>0, <2>1 DEF NodeInv
      <4>2. NoCoin.key = <<>> /\ <<>> \notin Wallets \X Nat
        BY DEF NoCoin
      <4> QED BY <1>0, <2>1, <4>1, <4>2 DEF Holders, Holding, TypeInv, IsCoin
    <3>5. TrackedIn(outputs, change[s]) /\ TrackedIn(outputs, received[s])
      BY <1>0, <3>4 DEF KeyInv, KeysOf
    <3>6. KnownTracked'
      BY <1>0, <2>1, <3>3, <3>5 DEF KnownTracked
    <3>7. ASSUME NEW t \in Sends, Unsent(t)', NEW c \in Known' PROVE c.key # change[t].key
      <4>1. t # s /\ Unsent(t) /\ t \in Holders
        BY <1>0, <2>1, <2>3, <3>7 DEF TypeInv, Holders, Holding
      <4>2. change[s].key # change[t].key /\ received[s].key # change[t].key
        BY <1>0, <3>4, <4>1 DEF KeyInv, KeysOf
      <4> QED BY <3>3, <4>1, <4>2 DEF ChangeUnknown
    <3> QED BY <2>1, <3>6, <3>7 DEF ChangeUnknown
  <2> QED BY <1>9, <2>2, <2>3 DEF Push
<1>10. ASSUME NEW T \in SUBSET pool, NEW C \in {{}} \cup {{c} : c \in {b \in Coinbases : pc[b] = "done"}},
              Mine(T, C)
       PROVE  KnownTracked' /\ ChangeUnknown'
  <2>1. UNCHANGED <<change, outputs, pc, handler>> /\ pool' \cup mined' \subseteq pool \cup mined
    BY <1>10 DEF Mine
  <2>2. Known' \subseteq Known \cup {received[c] : c \in C}
    <3>1. DOMAIN utxo' \subseteq DOMAIN utxo \cup (UNION {t.outputs : t \in T}) \cup {received[c] : c \in C}
      BY <1>10 DEF Mine
    <3> QED BY <2>1, <3>1 DEF Known
  <2>3. ASSUME NEW c \in C
        PROVE  /\ TrackedIn(outputs, received[c])
               /\ \A s \in Holders : received[c].key # change[s].key
    <3>1. IsCoin(received[c]) /\ c \in DOMAIN received
      BY <1>0 DEF NodeInv, TypeInv
    <3>2. received[c] # NoCoin
      <4>1. NoCoin.key = <<>> /\ <<>> \notin Wallets \X Nat
        BY DEF NoCoin
      <4> QED BY <3>1, <4>1 DEF IsCoin
    <3> QED BY <1>0, <3>1, <3>2 DEF KeyInv, KeysOf
  <2>4. KnownTracked'
    BY <1>0, <2>1, <2>2, <2>3 DEF KnownTracked
  <2>5. ASSUME NEW s \in Sends, Unsent(s), NEW c \in Known' PROVE c.key # change[s].key
    <3>1. s \in Holders
      BY <2>5 DEF Holders, Holding
    <3> QED BY <2>2, <2>3, <2>5, <3>1 DEF ChangeUnknown
  <2> QED BY <2>1, <2>4, <2>5 DEF ChangeUnknown
<1>11. CASE UNCHANGED vars
  BY <1>11, <1>k DEF vars
<1> QED BY <1>1, <1>2, <1>3, <1>4, <1>5, <1>6, <1>7, <1>8, <1>9, <1>10, <1>11
           DEF Next, SendStep, HandlerStep, RefreshStep, Terminated

\* What a refresh asks for stays in its wallet or is among the orphaned.
LEMMA FlightStep == ASSUME TypeInv, FlightInv, [Next]_vars PROVE FlightInv' /\ orphaned \subseteq orphaned'
<1>0. WalletsKept
  BY NextKeeps
<1>k. ASSUME \A w \in Wallets : DOMAIN outputs[w] \subseteq DOMAIN outputs'[w],
             UNCHANGED orphaned,
             \A c \in Sends \cup Infos : commits'[c] \subseteq commits[c]
      PROVE  FlightInv' /\ orphaned \subseteq orphaned'
  <2>1. ASSUME NEW d, IsCoin(d), TrackedIn(outputs, d) PROVE TrackedIn(outputs', d)
    <3>1. d.key[1] \in Wallets
      BY <2>1 DEF IsCoin
    <3>2. d.key \in DOMAIN outputs'[d.key[1]]
      BY <1>k, <2>1, <3>1 DEF TrackedIn
    <3> QED BY <1>0, <2>1, <3>1, <3>2, TrackedStays
  <2> QED BY <1>k, <2>1 DEF FlightInv
<1>r. ASSUME NEW w \in Wallets, NEW v, NEW b, Record(w, v, b), UNCHANGED <<commits, orphaned>>
      PROVE  FlightInv' /\ orphaned \subseteq orphaned'
  BY <1>k, <1>r, RecordStep
<1>u. ASSUME UNCHANGED <<outputs, commits, orphaned>>
      PROVE  FlightInv' /\ orphaned \subseteq orphaned'
  BY <1>k, <1>u
<1> USE PaymentsAssumption DEF Calls, wallet, refresh
<1>1. ASSUME NEW c \in Sends \cup Infos, Snapshot(c) PROVE FlightInv' /\ orphaned \subseteq orphaned'
  <2> DEFINE w == WalletOf[c]
             R == RefreshCoins(outputs[w], w)
  <2>1. w \in Wallets /\ IsWallet(outputs[w], w) /\ DOMAIN commits = Sends \cup Infos
    BY DEF TypeInv
  <2>2. UNCHANGED <<outputs, orphaned>>
        /\ (UNCHANGED commits \/ commits' = [commits EXCEPT ![c] = R])
    BY <1>1 DEF Snapshot
  <2>3. CASE UNCHANGED commits
    BY <1>u, <2>2, <2>3
  <2>4. CASE commits' = [commits EXCEPT ![c] = R]
    <3>1. ASSUME NEW d \in R PROVE IsCoin(d) /\ d.key[1] = w /\ TrackedIn(outputs, d)
      <4>1. PICK k \in DOMAIN outputs[w] : d = Coin(outputs[w], k)
        BY DEF RefreshCoins
      <4>2. k[1] = w /\ k \in Wallets \X Nat /\ d.key = k /\ d.value = outputs[w][k].value
        BY <2>1, <4>1 DEF IsWallet, Coin
      <4>3. d = [key |-> d.key, value |-> d.value]
        BY <4>1 DEF Coin
      <4> QED BY <4>2, <4>3 DEF IsCoin, TrackedIn
    <3>2. commits'[c] = R /\ \A e \in (Sends \cup Infos) \ {c} : commits'[e] = commits[e]
      BY <2>1, <2>4
    <3> HIDE DEF R, w
    <3>3. w = WalletOf[c]
      BY DEF w
    <3>4. ASSUME NEW e \in Sends \cup Infos, NEW d \in commits'[e]
          PROVE  IsCoin(d) /\ d.key[1] = WalletOf[e] /\ (d.key \in orphaned \/ TrackedIn(outputs, d))
      <4>1. CASE e = c
        BY <3>1, <3>2, <3>3, <4>1
      <4>2. CASE e # c
        BY <3>2, <4>2 DEF FlightInv
      <4> QED BY <4>1, <4>2
    <3> QED BY <2>2, <3>4 DEF FlightInv
  <2> QED BY <2>2, <2>3, <2>4
<1>2. ASSUME NEW c \in Sends \cup Infos, Query(c) \/ Apply(c) PROVE FlightInv' /\ orphaned \subseteq orphaned'
  <2>1. UNCHANGED orphaned /\ (UNCHANGED commits \/ commits' = [commits EXCEPT ![c] = {}])
    BY <1>2 DEF Query, Apply
  <2>2. \A e \in Sends \cup Infos : commits'[e] \subseteq commits[e]
    BY <2>1 DEF TypeInv
  <2>3. \A w \in Wallets : DOMAIN outputs[w] \subseteq DOMAIN outputs'[w]
    BY <1>2, ApplyKeeps DEF Query
  <2> QED BY <1>k, <2>1, <2>2, <2>3
<1>3. ASSUME NEW s \in Sends,
             \/ get_tip_from_node(s) \/ SelectCoins(s) \/ send_partial_tx(s)
             \/ Reply(s) \/ Timeout(s) \/ Push(s)
      PROVE  UNCHANGED <<outputs, commits, orphaned>>
  BY <1>3 DEF get_tip_from_node, SelectCoins, send_partial_tx, Reply, Timeout, Push
<1>4. ASSUME NEW s \in Sends, UpdateWallet(s) PROVE FlightInv' /\ orphaned \subseteq orphaned'
  <2>1. UNCHANGED <<commits, orphaned>>
    BY <1>4 DEF UpdateWallet
  <2>2. \A w \in Wallets : DOMAIN outputs[w] \subseteq DOMAIN outputs'[w]
    BY <1>4, LockKeeps
  <2> QED BY <1>k, <2>1, <2>2
<1>5. ASSUME NEW s \in Sends, inputs_and_change(s) PROVE FlightInv' /\ orphaned \subseteq orphaned'
  BY <1>5, <1>r, <1>u DEF inputs_and_change, With_wallet_throws
<1>6. ASSUME NEW s \in Sends, receive_transaction(s) PROVE FlightInv' /\ orphaned \subseteq orphaned'
  BY <1>6, <1>r, <1>u DEF receive_transaction, With_wallet_throws
<1>7. ASSUME NEW c \in Coinbases, receive_coinbase(c) PROVE FlightInv' /\ orphaned \subseteq orphaned'
  BY <1>7, <1>r, <1>u DEF receive_coinbase, With_wallet_throws
<1>8. ASSUME NEW s \in Sends, RollbackWallet(s) PROVE FlightInv' /\ orphaned \subseteq orphaned'
  <2> DEFINE key == change[s].key
             asked == \E c \in Sends \cup Infos : \E d \in commits[c] : d.key = key
  <2>1. UNCHANGED commits
        /\ (UNCHANGED <<outputs, orphaned>> \/ orphaned' = orphaned \cup (IF asked THEN {key} ELSE {}))
    BY <1>8 DEF RollbackWallet
  <2>2. ASSUME orphaned' = orphaned \cup (IF asked THEN {key} ELSE {}),
               NEW c \in Sends \cup Infos, NEW d \in commits[c]
        PROVE  d.key \in orphaned' \/ TrackedIn(outputs', d)
    <3>1. CASE d.key = key
      BY <2>2, <3>1
    <3>2. CASE d.key # key /\ d.key \notin orphaned
      <4>1. IsCoin(d) /\ TrackedIn(outputs, d) /\ d.key[1] \in Wallets
        BY <3>2 DEF FlightInv, IsCoin
      <4>2. d.key \in DOMAIN outputs'[d.key[1]]
        BY <1>8, <3>2, <4>1, RollbackKeeps DEF TrackedIn
      <4> QED BY <1>0, <4>1, <4>2, TrackedStays
    <3> QED BY <2>2, <3>1, <3>2
  <2> HIDE DEF key, asked
  <2>3. CASE UNCHANGED <<outputs, orphaned>>
    BY <1>u, <2>1, <2>3
  <2>4. CASE orphaned' = orphaned \cup (IF asked THEN {key} ELSE {})
    BY <2>1, <2>2, <2>4 DEF FlightInv
  <2> QED BY <2>1, <2>3, <2>4
<1>9. ASSUME NEW T, NEW C, Mine(T, C) PROVE UNCHANGED <<outputs, commits, orphaned>>
  BY <1>9 DEF Mine
<1>10. CASE UNCHANGED vars
  BY <1>10, <1>u DEF vars
<1> QED BY <1>u, <1>1, <1>2, <1>3, <1>4, <1>5, <1>6, <1>7, <1>8, <1>9, <1>10
           DEF Next, SendStep, HandlerStep, RefreshStep, Terminated

\* A refresh makes an output unspent only when the node has it: the commitment that
\* the node knows is still that of the output under its key, unless that was deleted.
LEMMA RefreshedWasMined ==
  ASSUME IInv, FlightInv, HeightInv, NEW c \in Sends \cup Infos, Apply(c),
         NEW w \in Wallets, NEW k \in DOMAIN outputs[w], outputs'[w][k].status = "Unspent"
  PROVE  \/ outputs'[w][k] = outputs[w][k]
         \/ /\ Coin(outputs[w], k) \in OnChain \/ k \in orphaned
            /\ outputs'[w][k].height \in 0 .. tip
<1> DEFINE v == WalletOf[c]
           o == outputs[v]
           p == ApplyRefresh(o, commits[c], api[c])
<1>1. v \in Wallets /\ IsWallet(o, v) /\ DOMAIN outputs = Wallets
  BY PaymentsAssumption DEF IInv, TypeInv, Calls
<1>2. UNCHANGED outputs \/ outputs' = [outputs EXCEPT ![v] = p]
  BY DEF Apply, With_wallet_throws
<1>3. CASE UNCHANGED outputs \/ w # v
  BY <1>1, <1>2, <1>3
<1>4. CASE outputs' = [outputs EXCEPT ![v] = p] /\ w = v
  <2>1. outputs'[v] = p /\ p = ApplyRefresh(o, commits[c], api[c])
    BY <1>1, <1>4
  <2> HIDE DEF p
  <2>2. \/ p[k] = o[k]
        \/ \E d \in commits[c] \cap DOMAIN api[c] :
             d.key = k /\ p[k].height = api[c][d].height
        \/ p[k].status = IF o[k].status \in {"Unspent", "Locked"} THEN "Spent" ELSE o[k].status
    BY <1>1, <1>4, <2>1, RefreshOutputs
  <2>3. CASE p[k] = o[k]
    BY <1>4, <2>1, <2>3
  <2>4. ASSUME NEW d \in commits[c] \cap DOMAIN api[c], d.key = k, p[k].height = api[c][d].height
        PROVE  /\ Coin(outputs[w], k) \in OnChain \/ k \in orphaned
               /\ outputs'[w][k].height \in 0 .. tip
    <3>1. d \in OnChain /\ api[c][d].height \in 0 .. tip
      BY DEF HeightInv
    <3>2. IsCoin(d) /\ d.key[1] = v /\ (d.key \in orphaned \/ TrackedIn(outputs, d))
      BY DEF FlightInv
    <3>3. TrackedIn(outputs, d) => Coin(outputs[w], k) = d
      BY <1>4, <2>4, <3>2 DEF IsCoin, TrackedIn, Coin
    <3> QED BY <1>4, <2>1, <2>4, <3>1, <3>2, <3>3
  <2>5. CASE p[k].status = IF o[k].status \in {"Unspent", "Locked"} THEN "Spent" ELSE o[k].status
    <3>1. p[k].status = "Unspent"
      BY <1>4, <2>1
    <3> HIDE DEF o
    <3> QED BY <2>5, <3>1
  <2> QED BY <2>2, <2>3, <2>4, <2>5
<1> QED BY <1>2, <1>3, <1>4

\* An output is unspent only when its coin is, or was, in the chain, or its key that
\* of an orphaned output.
LEMMA UnspentStep ==
  ASSUME IInv, FlightInv, HeightInv, UnspentInv, [Next]_vars PROVE UnspentInv'
<1> SUFFICES ASSUME NEW w \in Wallets, NEW k \in DOMAIN outputs'[w], outputs'[w][k].status = "Unspent"
             PROVE  /\ outputs'[w][k].height \in 0 .. tip'
                    /\ Coin(outputs'[w], k) \in OnChain' \/ k \in orphaned'
  BY DEF UnspentInv
<1> DEFINE Fine == /\ k \in DOMAIN outputs[w]
                   /\ \/ outputs'[w][k].height = outputs[w][k].height /\ outputs[w][k].status = "Unspent"
                      \/ /\ Coin(outputs[w], k) \in OnChain \/ k \in orphaned
                         /\ outputs'[w][k].height \in 0 .. tip
<1>0. TypeInv /\ WalletsKept
  BY NextKeeps DEF IInv
<1> USE PaymentsAssumption DEF wallet
<1>1. ASSUME UNCHANGED outputs PROVE Fine
  BY <1>1
<1>2. ASSUME NEW v \in Wallets, NEW x, NEW b, Record(v, x, b) PROVE Fine
  BY <1>0, <1>2, RecordStep
<1>3. ASSUME NEW c \in Sends \cup Infos, Snapshot(c) \/ Query(c) \/ Apply(c) PROVE Fine
  <2>1. CASE Apply(c)
    <3>1. k \in DOMAIN outputs[w]
      BY <1>0, <2>1, ApplyKeeps
    <3> QED BY <2>1, <3>1, RefreshedWasMined
  <2> QED BY <1>1, <1>3, <2>1 DEF Snapshot, Query
<1>4. ASSUME NEW s \in Sends,
             \/ get_tip_from_node(s) \/ SelectCoins(s) \/ send_partial_tx(s)
             \/ Reply(s) \/ Timeout(s) \/ Push(s)
      PROVE  UNCHANGED outputs
  BY <1>4 DEF get_tip_from_node, SelectCoins, send_partial_tx, Reply, Timeout, Push
<1>5. ASSUME NEW s \in Sends, inputs_and_change(s) PROVE Fine
  BY <1>1, <1>2, <1>5 DEF inputs_and_change, With_wallet_throws, Calls
<1>6. ASSUME NEW s \in Sends, UpdateWallet(s) PROVE Fine
  BY <1>0, <1>6, LockKeeps
<1>7. ASSUME NEW s \in Sends, RollbackWallet(s) PROVE Fine
  BY <1>0, <1>7, RollbackKeeps
<1>8. ASSUME NEW s \in Sends, receive_transaction(s) PROVE Fine
  BY <1>1, <1>2, <1>8 DEF receive_transaction, With_wallet_throws
<1>9. ASSUME NEW c \in Coinbases, receive_coinbase(c) PROVE Fine
  BY <1>1, <1>2, <1>9 DEF receive_coinbase, With_wallet_throws, Calls
<1>10. ASSUME NEW T, NEW C, Mine(T, C) PROVE UNCHANGED outputs
  BY <1>10 DEF Mine
<1>11. Fine
  <2> HIDE DEF Fine
  <2> QED BY <1>1, <1>3, <1>4, <1>5, <1>6, <1>7, <1>8, <1>9, <1>10
             DEF Next, SendStep, HandlerStep, RefreshStep, Terminated, vars
<1>12. (Coin(outputs[w], k) \in OnChain \/ k \in orphaned) /\ outputs'[w][k].height \in 0 .. tip
  BY <1>11 DEF UnspentInv
<1>13. Coin(outputs'[w], k) = Coin(outputs[w], k)
  BY <1>0, <1>11 DEF WalletsKept, Coin
<1>14. OnChain \subseteq OnChain' /\ tip <= tip' /\ tip \in Nat /\ tip' \in Nat
  BY <1>0, HeightStep DEF HeightInv
<1>15. orphaned \subseteq orphaned'
  BY <1>0, FlightStep
<1> QED BY <1>12, <1>13, <1>14, <1>15

\* The coins of a send that ended well stay locked or spent.
LEMMA SentStep ==
  ASSUME IInv, OwnCoins, KnownTracked, SentCoinsStayLocked, ~Fault, late' = {}, [Next]_vars
  PROVE  SentCoinsStayLocked'
<1> SUFFICES ASSUME NEW s \in Sends, pc'[s] = "done", NEW c \in ToSet(coins'[s]), Tracked(c)'
             PROVE  outputs'[c.key[1]][c.key].status \in {"Locked", "Spent"}
  BY DEF SentCoinsStayLocked
<1>0. TypeInv /\ PushInv /\ NodeInv /\ WalletsKept
  BY NextKeeps DEF IInv
<1>1. coins'[s] = coins[s] /\ (pc[s] = "done" \/ UpdateWallet(s))
  <2> USE PaymentsAssumption DEF TypeInv, Goto, Calls, Refreshed, wallet, refresh, send, receive, node
  <2>1. ASSUME NEW e \in Sends \cup Infos, Snapshot(e) \/ Query(e) \/ Apply(e)
        PROVE  coins'[s] = coins[s] /\ pc[s] = "done"
    BY <1>0, <2>1 DEF Snapshot, Query, Apply
  <2>2. ASSUME NEW t \in Sends, get_tip_from_node(t) \/ inputs_and_change(t)
               \/ send_partial_tx(t) \/ Reply(t) \/ Timeout(t) \/ RollbackWallet(t)
        PROVE  coins'[s] = coins[s] /\ pc[s] = "done"
    BY <1>0, <2>2 DEF get_tip_from_node, inputs_and_change, send_partial_tx, Reply, Timeout, RollbackWallet
  <2>3. ASSUME NEW t \in Sends, SelectCoins(t)
        PROVE  coins'[s] = coins[s] /\ pc[s] = "done"
    BY <1>0, <2>3 DEF SelectCoins
  <2>4. ASSUME NEW t \in Sends, UpdateWallet(t)
        PROVE  coins'[s] = coins[s] /\ (pc[s] = "done" \/ UpdateWallet(s))
    <3>1. UNCHANGED coins /\ (s = t \/ pc'[s] = pc[s])
      BY <1>0, <2>4 DEF UpdateWallet
    <3> QED BY <2>4, <3>1
  <2>5. ASSUME NEW t \in Sends, receive_transaction(t) \/ Push(t)
        PROVE  coins'[s] = coins[s] /\ pc[s] = "done"
    BY <2>5 DEF receive_transaction, Push
  <2>6. ASSUME NEW e \in Coinbases, receive_coinbase(e)
        PROVE  coins'[s] = coins[s] /\ pc[s] = "done"
    BY <1>0, <2>6 DEF receive_coinbase
  <2>7. ASSUME NEW T, NEW C, Mine(T, C) PROVE coins'[s] = coins[s] /\ pc[s] = "done"
    BY <2>7 DEF Mine
  <2>8. CASE UNCHANGED vars
    BY <2>8 DEF vars
  <2> QED BY <2>1, <2>2, <2>3, <2>4, <2>5, <2>6, <2>7, <2>8
             DEF Next, SendStep, HandlerStep, RefreshStep, Terminated
<1>2. c \in ToSet(coins[s])
  BY <1>1
<1>3. c \in Known
  BY <1>0, <1>1, <1>2, SentAreKnown DEF UpdateWallet
<1>4. IsCoin(c) /\ c.key \in Wallets \X Nat /\ c.key[1] \in Wallets /\ TrackedIn(outputs, c)
  BY <1>0, <1>3, KnownAreCoins DEF KnownTracked, IsCoin
<1>5. CASE pc[s] = "done"
  <2>1. outputs[c.key[1]][c.key].status \in {"Locked", "Spent"}
    BY <1>2, <1>4, <1>5 DEF SentCoinsStayLocked, Tracked, TrackedIn
  <2>2. StatusStep(outputs[c.key[1]][c.key].status, outputs'[c.key[1]][c.key].status)
    BY <1>0, <1>4 DEF WalletsKept, Tracked, TrackedIn
  <2> QED BY <2>1, <2>2 DEF StatusStep, OutputStatus
<1>6. CASE UpdateWallet(s)
  <2> DEFINE w == WalletOf[s]
             o == outputs[w]
  <2>1. pc[s] = "updating" /\ w \in Wallets /\ IsWallet(o, w) /\ DOMAIN outputs = Wallets
    BY <1>0, <1>6, PaymentsAssumption DEF UpdateWallet, TypeInv, Calls
  <2>2. outputs' = [outputs EXCEPT ![w] = Lock_output(o, coins[s])]
    BY <1>0, <1>6, <2>1 DEF UpdateWallet, Goto, TypeInv, Calls
  <2>3. c.key[1] = w /\ c.key \in DOMAIN o /\ Coin(o, c.key) = c
    BY <1>2, <1>4, <2>1 DEF OwnCoins, TrackedIn, Coin, IsCoin
  <2>4. outputs'[w] = Lock_output(o, coins[s])
    BY <2>1, <2>2
  <2>5. outputs'[w][c.key].status = "Locked"
    BY <1>2, <2>1, <2>3, <2>4, LockOutput
  <2> QED BY <2>3, <2>5
<1> QED BY <1>1, <1>5, <1>6

\* At the start the wallets have the coins of the chain.
LEMMA InitNoFault == Init => HeightInv /\ FlightInv /\ UnspentInv /\ NoFaultInv
<1> SUFFICES ASSUME Init PROVE HeightInv /\ FlightInv /\ UnspentInv /\ NoFaultInv
  OBVIOUS
<1> USE DEF Calls
<1>1. FlightInv /\ InStep /\ OwnCoins /\ ChangeUnknown /\ SentCoinsStayLocked
  BY DEF Init, FlightInv, InStep, OwnCoins, ChangeUnknown, SentCoinsStayLocked
<1>2. Known = Genesis /\ OnChain = Genesis
  BY DEF Init, Known, OnChain
<1>3. HeightInv
  <2>1. tip = 1 /\ faults = 0 /\ \A c \in DOMAIN utxo : utxo[c].height = 1
    BY DEF Init
  <2>2. \A c \in Sends \cup Infos : api[c] = <<>>
    BY DEF Init
  <2> QED BY <2>1, <2>2 DEF HeightInv
<1> DEFINE K(w) == {c.key : c \in {g \in Genesis : g.key[1] = w}}
<1>4. ASSUME NEW w \in Wallets, NEW k \in K(w)
      PROVE  /\ DOMAIN outputs[w] = K(w)
             /\ \E c \in Genesis :
                  /\ c.key = k /\ c = Coin(outputs[w], k)
                  /\ outputs[w][k].value = c.value /\ outputs[w][k].height = 1
  <2> DEFINE c == CHOOSE c \in Genesis : c.key = k
  <2>1. c \in Genesis /\ c.key = k
    <3>1. \E d \in Genesis : d.key = k
      OBVIOUS
    <3> QED BY <3>1
  <2>2. /\ DOMAIN outputs[w] = K(w)
        /\ outputs[w][k] = [OutputData(c.value, FALSE) EXCEPT !.status = "Unspent", !.height = 1]
    BY DEF Init
  <2> HIDE DEF c
  <2>3. outputs[w][k].value = c.value /\ outputs[w][k].height = 1
    <3> HIDE DEF K
    <3> QED BY <2>2 DEF OutputData
  <2>4. c = [key |-> c.key, value |-> c.value]
    BY <2>1, PaymentsAssumption
  <2>5. c = Coin(outputs[w], k)
    BY <2>1, <2>3, <2>4 DEF Coin
  <2> QED BY <2>1, <2>2, <2>3, <2>5
<1>5. KnownTracked
  <2> SUFFICES ASSUME NEW d \in Genesis PROVE TrackedIn(outputs, d)
    BY <1>2 DEF KnownTracked
  <2>1. d.key[1] \in Wallets /\ d.key \in K(d.key[1])
    BY PaymentsAssumption
  <2> HIDE DEF K
  <2>2. PICK c \in Genesis : c.key = d.key /\ outputs[d.key[1]][d.key].value = c.value
    BY <1>4, <2>1
  <2>3. c = d
    BY <2>2, PaymentsAssumption
  <2> QED BY <1>4, <2>1, <2>2, <2>3 DEF TrackedIn
<1>6. UnspentInv
  <2> SUFFICES ASSUME NEW w \in Wallets, NEW k \in DOMAIN outputs[w]
               PROVE  Coin(outputs[w], k) \in OnChain /\ outputs[w][k].height \in 0 .. tip
    BY DEF UnspentInv
  <2>1. k \in K(w)
    BY DEF Init
  <2> HIDE DEF K
  <2>2. Coin(outputs[w], k) \in Genesis /\ outputs[w][k].height = 1
    BY <1>4, <2>1
  <2>3. tip = 1
    BY DEF Init
  <2> QED BY <1>2, <2>2, <2>3
<1> QED BY <1>1, <1>3, <1>5, <1>6 DEF NoFaultInv

\* What the node answers, and what a refresh makes of it, for any number of faults.
LEMMA RefreshInvariance == Spec => [](IInv /\ HeightInv /\ FlightInv /\ UnspentInv)
<1>1. Init => IInv /\ HeightInv /\ FlightInv /\ UnspentInv
  BY InitInv, InitNoFault
<1>2. IInv /\ HeightInv /\ FlightInv /\ UnspentInv /\ [Next]_vars
      => (IInv /\ HeightInv /\ FlightInv /\ UnspentInv)'
  BY StepInv, HeightStep, FlightStep, UnspentStep DEF IInv
<1> QED BY <1>1, <1>2, PTL DEF Spec

\* Nothing has failed: no fault, and no reply later than its timeout.
NothingFailed == faults = 0 /\ late = {}

\* The invariant holds as long as nothing has failed.
LEMMA NoFaultInvariance ==
  ASSUME KeyIdsDiffer
  PROVE  Spec => [](NothingFailed => NoFaultInv)
<1> DEFINE J == IInv /\ HeightInv /\ (NothingFailed => NoFaultInv)
<1>1. Init => J
  BY InitInv, InitNoFault
<1>2. J /\ [Next]_vars => J'
  <2> SUFFICES ASSUME J, [Next]_vars PROVE J'
    OBVIOUS
  <2>1. IInv' /\ HeightInv'
    BY StepInv, HeightStep DEF IInv
  <2>2. ASSUME NothingFailed' PROVE NoFaultInv'
    <3>1. NothingFailed /\ ~Fault /\ late' = {}
      BY <2>2, FaultsStep DEF Fault, HeightInv, NothingFailed
    <3>2. /\ TypeInv /\ PushInv /\ InStep /\ OwnCoins /\ KnownTracked /\ ChangeUnknown
          /\ SentCoinsStayLocked
      BY <3>1 DEF NoFaultInv, IInv
    <3> QED BY <3>1, <3>2, InStepStep, OwnCoinsStep, KnownStep, SentStep DEF NoFaultInv
  <2> QED BY <2>1, <2>2
<1> QED BY <1>1, <1>2, PTL DEF Spec

\* Whatever has failed or timed out, an output that a wallet believes unspent is or
\* was in a block, no later than now: the answer that refresh_outputs applies is
\* about the output that still has the key, except under a key whose output a
\* rollback deleted while a refresh was asking about it.
THEOREM UnspentIsMined == Spec => []UnspentWasMined
<1>1. HeightInv /\ UnspentInv => UnspentWasMined
  BY DEF HeightInv, UnspentInv, UnspentWasMined
<1> QED BY <1>1, RefreshInvariance, PTL

\* As long as nothing has failed, the coins of a send that ended well are never
\* offered by Select again.
THEOREM SentStayLocked ==
  ASSUME KeyIdsDiffer PROVE Spec => [](NothingFailed => SentCoinsStayLocked)
<1>1. (NothingFailed => NoFaultInv) => (NothingFailed => SentCoinsStayLocked)
  BY DEF NoFaultInv
<1> QED BY <1>1, NoFaultInvariance, PTL

\* The change that rollback_wallet loses is lost to faults and timeouts only: as
\* long as nothing has failed, a change that the chain has is tracked.
THEOREM ChangeIsKept ==
  ASSUME KeyIdsDiffer PROVE Spec => [](NothingFailed => ChangeTracked)
<1>1. (NothingFailed => NoFaultInv) => (NothingFailed => ChangeTracked)
  BY DEF NoFaultInv, KnownTracked, Known, OnChain, ChangeTracked, Tracked, TrackedIn
<1> QED BY <1>1, NoFaultInvariance, PTL
===============================================================================
