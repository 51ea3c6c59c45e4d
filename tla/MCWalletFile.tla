----------------------------- MODULE MCWalletFile -----------------------------
(***************************************************************************)
(* Instances of WalletFile for TLC: up to three With_wallet calls and a    *)
(* Read_wallet call in one or two processes.                               *)
(***************************************************************************)
EXTENDS WalletFile

CONSTANTS w1, w2, w3, r1, server, tool

\* Two writers run in the server, the third and the reader in another process.
MCProcessOf ==
  [c \in Calls |-> IF c \in {w3, r1} THEN tool ELSE server]
==============================================================================
