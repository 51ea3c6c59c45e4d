--------------------------- MODULE MCWalletPayments ---------------------------
(***************************************************************************)
(* Instances of WalletPayments: alice pays bob or herself, up to two sends *)
(* at once.                                                                *)
(***************************************************************************)
EXTENDS WalletPayments

CONSTANTS s1, s2, i1, i2, b1

\* KeyIds are hashes: they differ, and their order is not the order of the child
\* indexes.
MCKeyRank(k) == IF k[2] % 2 = 0 THEN k[2] - 1 ELSE k[2] + 1

MCWalletOf == [c \in Calls |-> "alice"]
MCDest == [s \in Sends |-> "bob"]
MCDestMixed == [s \in Sends |-> IF s = s1 THEN "alice" ELSE "bob"]
MCAmount == [s \in Sends |-> IF s = s1 THEN 10 ELSE 9]
MCOneCoin == {[key |-> <<"alice", 1>>, value |-> 20]}
===============================================================================
