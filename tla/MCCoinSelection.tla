---------------------------- MODULE MCCoinSelection ----------------------------
(***************************************************************************)
(* Small wallets for CoinSelection: up to four outputs of the wallet's own *)
(* root key and possibly one of another root.                              *)
(***************************************************************************)
EXTENDS CoinSelection

CONSTANTS MCValues,   \* the values of outputs
          MCChildren, \* the child indexes in use, when outputs are in any stage
          MCMatures   \* the child indexes in use, when all outputs are spendable

\* KeyIds are hashes: their order is not the order of the child indexes.
MCKeyRank(k) == (k[2] * 3) % 5

MCOwn == "own"
MCForeign == <<"other", 1>>

\* What the wallet's operations make of an output: recorded by a handler, seen in
\* a block by refresh_outputs, locked by a send, gone from the UTXO set.
MCLife(v) ==
  {OutputData(v, b) : b \in BOOLEAN}
  \cup {[OutputData(v, FALSE) EXCEPT !.status = s, !.height = h] :
          s \in {"Unspent"}, h \in {1, CurrentHeight}}
  \cup {[OutputData(v, TRUE) EXCEPT !.status = "Unspent", !.height = h, !.lock_height = h + 3] :
          h \in {1, CurrentHeight}}
  \cup {[OutputData(v, FALSE) EXCEPT !.status = s, !.height = 1] : s \in {"Locked", "Spent"}}

MCWallets ==
  LET Life == UNION {MCLife(v) : v \in MCValues}
      Own == UNION {[{<<"own", n>> : n \in S} -> Life] : S \in SUBSET MCChildren}
      Other == [{MCForeign} -> {[OutputData(9, FALSE) EXCEPT !.status = "Unspent", !.height = 1]}]
  IN Own \cup {[k \in DOMAIN o \cup DOMAIN f |-> IF k \in DOMAIN o THEN o[k] ELSE f[k]] :
                 o \in Own, f \in Other}

\* Wallets of mature outputs only, for the selection among many.
MCMature ==
  UNION {[{<<"own", n>> : n \in S} ->
           {[OutputData(v, FALSE) EXCEPT !.status = "Unspent", !.height = 1] : v \in MCValues}] :
         S \in SUBSET MCMatures}

MCAll == MCWallets \cup MCMature
==============================================================================
