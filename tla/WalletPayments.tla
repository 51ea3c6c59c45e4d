---------------------------- MODULE WalletPayments ----------------------------
(***************************************************************************)
(* The requests of the wallet server: issue_send_tx (WalletSender), the    *)
(* receiving side receive_json_tx and receive_coinbase (WalletReceiver,    *)
(* WalletHandlers), and the refresh_outputs (WalletChecker) that sends and *)
(* build_info start with.  Kestrel runs every request on its own thread,   *)
(* and the wallets, the node and the miner are separate processes, so the  *)
(* steps below interleave.                                                 *)
(*                                                                         *)
(* A step is one access to the wallet file, one HTTP exchange with the     *)
(* node, or one end of an HTTP exchange between wallets.  With_wallet and  *)
(* Read_wallet are atomic here, as WalletFile is shown to implement; a     *)
(* wallet file that a fault has destroyed is not modelled, its calls all   *)
(* throw.  A wallet is identified with its root key.                       *)
(*                                                                         *)
(* A fault may hit any step, and MaxFaults bounds their number: a node or  *)
(* a wallet that cannot be reached, a With_wallet call that does not get   *)
(* the lock or that cannot release it, and so throws after its change was  *)
(* written.  The 15 s timeout of ApiClient is not a fault: it may expire   *)
(* whenever a send waits for a reply.                                      *)
(***************************************************************************)
EXTENDS WalletData

CONSTANTS Sends,         \* the calls of issue_send_tx
          Infos,         \* the calls of build_info
          Coinbases,     \* the calls of receive_coinbase
          Wallets,       \* the wallets
          WalletOf,      \* the wallet a call runs on
          Dest,          \* the wallet a send pays
          Amount,        \* the amount of a send
          MinConf,       \* minimumConfirmations of the sends
          MaxOutputs,    \* maxOutputs of the sends
          Reward,        \* Consensus.Reward of a block without fees
          Maturity,      \* coinbase maturity of the chain
          Genesis,       \* the coins on the chain, known to their wallets, at first
          MaxHeight,     \* bound on the chain's height
          MaxFaults      \* bound on the faults

Calls == Sends \cup Infos \cup Coinbases

ASSUME PaymentsAssumption ==
  /\ WalletOf \in [Calls -> Wallets]
  /\ Dest \in [Sends -> Wallets]
  /\ Amount \in [Sends -> Nat]
  /\ Sends \cap Infos = {} /\ Sends \cap Coinbases = {} /\ Infos \cap Coinbases = {}
  /\ MaxOutputs \in Nat
  /\ IsFiniteSet(Genesis) /\ Genesis \subseteq [key : Wallets \X Nat, value : Nat]
  /\ \A c, d \in Genesis : c.key = d.key => c = d

VARIABLES outputs,   \* WalletData.Outputs of each wallet
          pc,        \* where each call is
          commits,   \* refresh_outputs: the commitments asked for
          api,       \* refresh_outputs: the node's answer
          height,    \* issue_send_tx: the node's tip when it asked
          coins,     \* issue_send_tx: the outputs to spend
          change,    \* issue_send_tx: the change output
          handler,   \* receive_json_tx, for each send: where it is
          received,  \* receive_json_tx and receive_coinbase: the output recorded
          utxo,      \* node: the unspent outputs, with height and lock_height
          pool,      \* node: the transactions waiting to be mined
          mined,     \* node: the transactions in blocks
          tip,       \* node: the height of the chain
          late,      \* history: the sends whose reply missed the timeout
          orphaned,  \* history: the keys of outputs that were deleted while a
                     \* refresh that asks for them was under way
          faults     \* the number of faults so far

wallet == <<outputs>>
refresh == <<commits, api>>
send == <<height, coins, change>>
receive == <<handler, received>>
node == <<utxo, pool, mined, tip>>
vars == <<wallet, pc, refresh, send, receive, node, late, orphaned, faults>>

NoCoin == [key |-> <<>>, value |-> 0]

Ended == {"done", "aborted", "failed"}

Init ==
  /\ outputs = [w \in Wallets |->
       [k \in {c.key : c \in {g \in Genesis : g.key[1] = w}} |->
          [OutputData((CHOOSE c \in Genesis : c.key = k).value, FALSE)
             EXCEPT !.status = "Unspent", !.height = 1]]]
  /\ pc = [c \in Calls |-> "idle"]
  /\ commits = [c \in Sends \cup Infos |-> {}]
  /\ api = [c \in Sends \cup Infos |-> <<>>]
  /\ height = [s \in Sends |-> 0]
  /\ coins = [s \in Sends |-> <<>>]
  /\ change = [s \in Sends |-> NoCoin]
  /\ handler = [s \in Sends |-> "none"]
  /\ received = [s \in Sends \cup Coinbases |-> NoCoin]
  /\ utxo = [c \in Genesis |-> [height |-> 1, lock_height |-> 0]]
  /\ pool = {}
  /\ mined = {}
  /\ tip = 1
  /\ late = {}
  /\ orphaned = {}
  /\ faults = 0

Goto(c, p) == pc' = [pc EXCEPT ![c] = p]

NoFault == UNCHANGED faults
Fault == faults < MaxFaults /\ faults' = faults + 1

\* With_wallet throws: the closure's change is in the wallet only when it was
\* the release of the lock that failed.
With_wallet_throws(closure) == closure \/ UNCHANGED outputs

\* next_available_key.
NextKey(w) == <<w, Next_child(outputs[w], w)>>

\* Record an unconfirmed output under that key.
Record(w, value, isCoinbase) ==
  outputs' = [outputs EXCEPT ![w] = Add_output(@, NextKey(w), OutputData(value, isCoinbase))]
------------------------------------------------------------------------------
(* refresh_outputs, called by issue_send_tx and build_info *)

Refreshed(c) == IF c \in Sends THEN "refreshed" ELSE "done"

\* Read_wallet: the commitments of the outputs that are not spent.
Snapshot(c) ==
  /\ pc[c] = "idle"
  /\ \/ /\ NoFault
        /\ commits' = [commits EXCEPT ![c] = RefreshCoins(outputs[WalletOf[c]], WalletOf[c])]
        /\ Goto(c, "querying")
     \/ /\ Fault
        /\ Goto(c, "failed")
        /\ UNCHANGED commits
  /\ UNCHANGED <<wallet, api, send, receive, node, late, orphaned>>

\* GET chain/utxos/byids: the node answers with those that it has.  When it does
\* not answer refresh_outputs returns false, which its callers do not look at; an
\* answer that cannot be read makes it throw.
Query(c) ==
  /\ pc[c] = "querying"
  /\ \/ /\ NoFault
        /\ api' = [api EXCEPT ![c] = Restrict(utxo, commits[c] \cap DOMAIN utxo)]
        /\ Goto(c, "applying")
        /\ UNCHANGED commits
     \/ /\ Fault
        /\ Goto(c, Refreshed(c)) \/ Goto(c, "failed")
        /\ commits' = [commits EXCEPT ![c] = {}]
        /\ UNCHANGED api
  /\ UNCHANGED <<wallet, send, receive, node, late, orphaned>>

\* With_wallet: the answer is applied to the wallet as it now is.
Apply(c) ==
  LET closure ==
        outputs' = [outputs EXCEPT ![WalletOf[c]] = ApplyRefresh(@, commits[c], api[c])]
  IN /\ pc[c] = "applying"
     /\ \/ NoFault /\ closure /\ Goto(c, Refreshed(c))
        \/ Fault /\ With_wallet_throws(closure) /\ Goto(c, "failed")
     /\ commits' = [commits EXCEPT ![c] = {}]
     /\ api' = [api EXCEPT ![c] = <<>>]
     /\ UNCHANGED <<send, receive, node, late, orphaned>>
------------------------------------------------------------------------------
(* issue_send_tx *)

get_tip_from_node(s) ==
  /\ pc[s] = "refreshed"
  /\ \/ /\ NoFault
        /\ height' = [height EXCEPT ![s] = tip]
        /\ Goto(s, "tip")
     \/ /\ Fault
        /\ Goto(s, "failed")
        /\ UNCHANGED height
  /\ UNCHANGED <<wallet, refresh, coins, change, receive, node, late, orphaned>>

\* build_send_tx: Read_wallet(Select), without the write lock, then the check of
\* inputs_and_change that the coins suffice.
SelectCoins(s) ==
  /\ pc[s] = "tip"
  /\ \E eligible \in {Eligible(outputs[WalletOf[s]], WalletOf[s], height[s], MinConf)} :
       \/ /\ NoFault
          /\ ~Select_throws(eligible, MaxOutputs)
          /\ \E found \in {Select(eligible, Amount[s], MaxOutputs, FALSE)} :
               \/ /\ Total(found) >= Amount[s]
                  /\ coins' = [coins EXCEPT ![s] = found]
                  /\ Goto(s, "selected")
               \/ /\ Total(found) < Amount[s]
                  /\ Goto(s, "failed")
                  /\ UNCHANGED coins
       \/ /\ Fault \/ (NoFault /\ Select_throws(eligible, MaxOutputs))
          /\ Goto(s, "failed")
          /\ UNCHANGED coins
  /\ UNCHANGED <<wallet, refresh, height, change, receive, node, late, orphaned>>

\* With_wallet: the change is recorded under the wallet's next key.
inputs_and_change(s) ==
  LET w == WalletOf[s]
      rest == Total(coins[s]) - Amount[s]
  IN /\ pc[s] = "selected"
     /\ \/ /\ NoFault
           /\ Record(w, rest, FALSE)
           /\ change' = [change EXCEPT ![s] = [key |-> NextKey(w), value |-> rest]]
           /\ Goto(s, "built")
        \/ /\ Fault
           /\ With_wallet_throws(Record(w, rest, FALSE))
           /\ Goto(s, "failed")
           /\ UNCHANGED change
     /\ UNCHANGED <<refresh, height, coins, receive, node, late, orphaned>>

\* Build.Transaction, outside of any try block, may throw; then send_partial_tx
\* POSTs the partial transaction to the receiver, or fails to.
send_partial_tx(s) ==
  /\ pc[s] = "built"
  /\ \/ /\ NoFault
        /\ handler' = [handler EXCEPT ![s] = "received"]
        /\ Goto(s, "waiting")
     \/ /\ Fault
        /\ Goto(s, "rollback") \/ Goto(s, "failed")
        /\ UNCHANGED handler
  /\ UNCHANGED <<wallet, refresh, send, received, node, late, orphaned>>

\* Mutant: the status of the reply is not looked at.
ReplyUnchecked(s) ==
  /\ pc[s] = "waiting"
  /\ handler[s] \in {"ok", "error"}
  /\ Goto(s, "updating")
  /\ UNCHANGED <<wallet, refresh, send, receive, node, late, orphaned, faults>>

\* The reply arrives; anything but success is an exception.
Reply(s) ==
  /\ pc[s] = "waiting"
  /\ \/ handler[s] = "ok" /\ Goto(s, "updating")
     \/ handler[s] = "error" /\ Goto(s, "rollback")
  /\ UNCHANGED <<wallet, refresh, send, receive, node, late, orphaned, faults>>

\* Mutant: the clock of the timeout starts when the reply begins to arrive.
TimeoutOfReply(s) ==
  /\ pc[s] = "waiting"
  /\ handler[s] \in {"ok", "error"}
  /\ late' = late \cup {s}
  /\ Goto(s, "rollback")
  /\ UNCHANGED <<wallet, refresh, send, receive, node, orphaned, faults>>

\* The HttpClient gives up on the reply.  The receiver does not notice.
Timeout(s) ==
  /\ pc[s] = "waiting"
  /\ late' = late \cup {s}
  /\ Goto(s, "rollback")
  /\ UNCHANGED <<wallet, refresh, send, receive, node, orphaned, faults>>

\* Mutant: the coins are left as they are.
UpdateWalletForgets(s) ==
  /\ pc[s] = "updating"
  /\ Goto(s, "done")
  /\ UNCHANGED <<wallet, refresh, send, receive, node, late, orphaned, faults>>

\* With_wallet: lock the coins.  A coin whose output has gone makes Lock_output
\* throw.  The catch clause then rolls back, also when the coins were locked.
UpdateWallet(s) ==
  LET w == WalletOf[s]
      throws == Lock_output_throws(outputs[w], coins[s])
      closure == ~throws /\ outputs' = [outputs EXCEPT ![w] = Lock_output(@, coins[s])]
  IN /\ pc[s] = "updating"
     /\ \/ NoFault /\ closure /\ Goto(s, "done")
        \/ NoFault /\ throws /\ UNCHANGED outputs /\ Goto(s, "rollback")
        \/ Fault /\ With_wallet_throws(closure) /\ Goto(s, "rollback")
     /\ UNCHANGED <<refresh, send, receive, node, late, orphaned>>

\* Mutant: the output that was added last is deleted.
RollbackWalletLast(s) ==
  LET w == WalletOf[s]
  IN /\ pc[s] = "rollback"
     /\ outputs' = [outputs EXCEPT ![w] =
                      Delete_output(@, <<w, Next_child(outputs[w], w) - 1>>)]
     /\ Goto(s, "aborted")
     /\ UNCHANGED <<refresh, send, receive, node, late, orphaned, faults>>

\* With_wallet: delete the change output.  A refresh under way that asked for it
\* will look for its key.
RollbackWallet(s) ==
  LET key == change[s].key
      asked == \E c \in Sends \cup Infos : \E coin \in commits[c] : coin.key = key
      delete == /\ outputs' = [outputs EXCEPT ![WalletOf[s]] = Delete_output(@, key)]
                /\ orphaned' = orphaned \cup (IF asked THEN {key} ELSE {})
  IN /\ pc[s] = "rollback"
     /\ \/ NoFault /\ delete /\ Goto(s, "aborted")
        \/ Fault /\ (delete \/ UNCHANGED <<outputs, orphaned>>) /\ Goto(s, "failed")
     /\ UNCHANGED <<refresh, send, receive, node, late>>
------------------------------------------------------------------------------
(* The node: external *)

PoolInputs == UNION {t.inputs : t \in pool}
PoolOutputs == UNION {t.outputs : t \in pool}

\* POST pool/push: the transaction spends outputs of the chain that are mature,
\* or of the pool, that no other one spends, and creates new ones.
Accepts(t) ==
  /\ t \notin pool
  /\ t.lock_height <= tip
  /\ \A c \in t.inputs :
       /\ c \notin PoolInputs
       /\ c \in PoolOutputs \/ (c \in DOMAIN utxo /\ utxo[c].lock_height <= tip)
  /\ t.outputs \cap (DOMAIN utxo \cup PoolOutputs) = {}

\* A block with the transactions of T and the coinbase outputs of C, which a
\* wallet has built before.
Mine(T, C) ==
  LET spent == UNION {t.inputs : t \in T}
      plain == UNION {t.outputs : t \in T}
      reward == {received[c] : c \in C}
  IN /\ tip < MaxHeight
     /\ spent \subseteq DOMAIN utxo
     /\ reward \cap (DOMAIN utxo \cup PoolOutputs) = {}
     /\ tip' = tip + 1
     /\ utxo' = [c \in (DOMAIN utxo \ spent) \cup plain \cup reward |->
                   IF c \in plain THEN [height |-> tip + 1, lock_height |-> 0]
                   ELSE IF c \in reward
                   THEN [height |-> tip + 1, lock_height |-> tip + 1 + Maturity]
                   ELSE utxo[c]]
     /\ pool' = pool \ T
     /\ mined' = mined \cup T
     /\ UNCHANGED <<wallet, pc, refresh, send, receive, late, orphaned, faults>>
------------------------------------------------------------------------------
(* receive_json_tx, in the wallet that a send pays *)

\* The fee that the sender has put in the partial transaction.
Fee(s) == tx_fee(Len(coins[s]), 2)

\* The receiver computes it again: FeeDispute.
Fee_disputed(s) ==
  Fee(s) # tx_fee(Cardinality(ToSet(coins[s])), Cardinality({change[s]}) + 1)

\* receive_transaction: the fee is checked, With_wallet records the output, amount
\* less the fee, and only then is the transaction built and validated.  It does
\* not balance when the subtraction wrapped.
receive_transaction(s) ==
  LET w == Dest[s]
      outAmount == (Amount[s] - Fee(s)) % ULong
  IN /\ handler[s] = "received"
     /\ \/ /\ NoFault
           /\ ~Fee_disputed(s)
           /\ Record(w, outAmount, FALSE)
           /\ received' = [received EXCEPT ![s] = [key |-> NextKey(w), value |-> outAmount]]
           /\ handler' = [handler EXCEPT ![s] =
                            IF Amount[s] >= Fee(s) THEN "recorded" ELSE "error"]
        \/ /\ \/ NoFault /\ Fee_disputed(s) /\ UNCHANGED outputs
              \/ Fault /\ With_wallet_throws(Record(w, outAmount, FALSE))
           /\ handler' = [handler EXCEPT ![s] = "error"]
           /\ UNCHANGED received
     /\ UNCHANGED <<pc, refresh, send, node, late, orphaned>>

Tx(s) ==
  [inputs |-> ToSet(coins[s]), outputs |-> {change[s], received[s]}, lock_height |-> height[s]]

\* The final transaction is pushed to the node, which accepts or refuses it; a
\* fault loses the request or the answer.
Push(s) ==
  /\ handler[s] = "recorded"
  /\ \/ /\ NoFault
        /\ Accepts(Tx(s))
        /\ pool' = pool \cup {Tx(s)}
        /\ handler' = [handler EXCEPT ![s] = "ok"]
     \/ /\ NoFault
        /\ ~Accepts(Tx(s))
        /\ handler' = [handler EXCEPT ![s] = "error"]
        /\ UNCHANGED pool
     \/ /\ Fault
        /\ handler' = [handler EXCEPT ![s] = "error"]
        /\ pool' \in {pool} \cup {pool \cup {t} : t \in {u \in {Tx(s)} : Accepts(u)}}
  /\ UNCHANGED <<wallet, pc, refresh, send, received, utxo, mined, tip, late, orphaned>>
------------------------------------------------------------------------------
(* receive_coinbase *)

\* Without a key id With_wallet records the reward under the next key.  With one
\* it throws: in retrieve_existing_key when the wallet has no output of that key,
\* in Add_output when it has.
receive_coinbase(c) ==
  LET w == WalletOf[c]
  IN /\ pc[c] = "idle"
     /\ \/ /\ NoFault
           /\ Record(w, Reward, TRUE)
           /\ received' = [received EXCEPT ![c] = [key |-> NextKey(w), value |-> Reward]]
           /\ Goto(c, "done")
        \/ /\ NoFault
           /\ \E k \in DOMAIN outputs[w] \cup {NextKey(w)} :
                k \notin DOMAIN outputs[w] \/ Add_output_throws(outputs[w], k)
           /\ Goto(c, "failed")
           /\ UNCHANGED <<outputs, received>>
        \/ /\ Fault
           /\ With_wallet_throws(Record(w, Reward, TRUE))
           /\ Goto(c, "failed")
           /\ UNCHANGED received
     /\ UNCHANGED <<refresh, send, handler, node, late, orphaned>>
------------------------------------------------------------------------------
RefreshStep(c) == Snapshot(c) \/ Query(c) \/ Apply(c)

SendStep(s) ==
  \/ get_tip_from_node(s) \/ SelectCoins(s) \/ inputs_and_change(s)
  \/ send_partial_tx(s) \/ Reply(s) \/ Timeout(s)
  \/ UpdateWallet(s) \/ RollbackWallet(s)

HandlerStep(s) == receive_transaction(s) \/ Push(s)

\* All calls have ended and the chain has reached its bound.
Terminated ==
  /\ \A c \in Calls : pc[c] \in Ended
  /\ tip = MaxHeight
  /\ UNCHANGED vars

Next ==
  \/ \E c \in Sends \cup Infos : RefreshStep(c)
  \/ \E s \in Sends : SendStep(s) \/ HandlerStep(s)
  \/ \E c \in Coinbases : receive_coinbase(c)
  \/ \E T \in SUBSET pool, C \in {{}} \cup {{c} : c \in {b \in Coinbases : pc[b] = "done"}} : Mine(T, C)
  \/ Terminated

Spec == Init /\ [][Next]_vars

\* A step of the thread of a request.
RequestStep(c) == RefreshStep(c) \/ (c \in Sends /\ SendStep(c))

\* The threads of the wallet's own requests are scheduled, and a send's timeout
\* expires.  Nothing is assumed of the receiver's wallet, nor of the miner.
FairSpec == Spec /\ \A c \in Sends \cup Infos : WF_vars(RequestStep(c))
------------------------------------------------------------------------------
(* Properties *)

OnChain == DOMAIN utxo \cup UNION {t.inputs : t \in mined}

Tracked(coin) ==
  LET w == coin.key[1]
  IN coin.key \in DOMAIN outputs[w] /\ outputs[w][coin.key].value = coin.value

Posted(s) == handler[s] # "none"

\* A send that ended well has its coins out of the reach of Select: as long as
\* the wallet tracks them they are locked or spent, whatever refreshes, rollbacks
\* and other sends ran meanwhile.
SentCoinsStayLocked ==
  \A s \in Sends : pc[s] = "done" =>
    \A coin \in ToSet(coins[s]) :
      Tracked(coin) => outputs[coin.key[1]][coin.key].status \in {"Locked", "Spent"}

\* An output is only locked when the transaction that spends it has reached the
\* node: a send that failed before leaves its coins spendable.
LockedOnlyIfPushed ==
  \A w \in Wallets : \A k \in DOMAIN outputs[w] :
    outputs[w][k].status = "Locked" =>
      \E t \in pool \cup mined : Coin(outputs[w], k) \in t.inputs

\* An output is recorded before its transaction leaves for the node, and no
\* rollback of a send deletes it: what is paid to a wallet, or mined by it, is
\* tracked by it.
ReceivedTracked ==
  \A c \in Sends \cup Coinbases :
    received[c] \in OnChain => Tracked(received[c])

\* An output that a wallet believes unspent has been in a block, no later than
\* now, whatever has failed or timed out: a refresh applies an answer about this
\* very output.  The exception is an output under a key whose former output a
\* rollback deleted while a refresh was asking about it.
UnspentWasMined ==
  \A w \in Wallets : \A k \in DOMAIN outputs[w] :
    outputs[w][k].status = "Unspent" =>
      /\ outputs[w][k].height <= tip
      /\ Coin(outputs[w], k) \in OnChain \/ k \in orphaned

\* No step makes a locked output spendable again or forgets that an output was
\* confirmed.
StatusMoves ==
  [][\A w \in Wallets : \A k \in DOMAIN outputs[w] \cap DOMAIN outputs'[w] :
       <<outputs[w][k].status, outputs'[w][k].status>> \in
         {<<a, a>> : a \in OutputStatus}
         \cup {<<"Unconfirmed", "Unspent">>, <<"Unconfirmed", "Locked">>,
               <<"Unspent", "Locked">>, <<"Unspent", "Spent">>,
               <<"Locked", "Spent">>, <<"Spent", "Locked">>}]_vars

\* Every request ends, finished, rolled back or with an exception, although the
\* wallet that a send has posted to may never answer.
RequestEnds ==
  \A c \in Sends \cup Infos : (pc[c] # "idle") ~> (pc[c] \in Ended)

\* Sender.cs:60 "Closure to acquire walvar lock and lock the coins being spent
\* so we avoid accidental double spend attempt."
NoDoubleSpendAttempt ==
  \A s, t \in Sends : s # t /\ Posted(s) /\ Posted(t) =>
    ToSet(coins[s]) \cap ToSet(coins[t]) = {}

\* Sender.cs:74 "Closure to acquire walvar lock and devare the change output in
\* case of tx failure": the change of a transaction that did not fail is kept.
ChangeTracked ==
  \A s \in Sends : change[s] \in OnChain => Tracked(change[s])

\* Checker.cs:36 "Transitions a local wallet output (based on it not being in the
\* node utxo set)": what is marked spent is not in the UTXO set.
SpentNotInUtxo ==
  \A w \in Wallets : \A k \in DOMAIN outputs[w] :
    outputs[w][k].status = "Spent" => Coin(outputs[w], k) \notin DOMAIN utxo

\* Checker.cs:128 "now for each commit, find the output in the wallet and the
\* corresponding api output (if it exists) and refresh it in-place in the wallet":
\* the output that is made unspent is the one that the node has told of.
UnspentOnChain ==
  \A w \in Wallets : \A k \in DOMAIN outputs[w] :
    outputs[w][k].status = "Unspent" => Coin(outputs[w], k) \in OnChain
==============================================================================
