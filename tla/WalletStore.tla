----------------------------- MODULE WalletStore -----------------------------
(***************************************************************************)
(* What WalletData.With_wallet and WalletData.Read_wallet promise their    *)
(* callers: the wallet is one object, a With_wallet call reads it and      *)
(* replaces it in a single step, a Read_wallet call reads it in a single   *)
(* step, and a call that throws has changed nothing.  Faults (the process  *)
(* dies, or the disk fails) are the exceptions: one that strikes while the *)
(* wallet is being replaced may lose all of it, and one that strikes after *)
(* that ends a call whose change is in the wallet as if it had failed.     *)
(*                                                                         *)
(* The wallet's contents are abstracted to the set of the calls whose      *)
(* change it holds.  WalletFile is shown to implement this module.         *)
(***************************************************************************)

CONSTANTS Calls,      \* the With_wallet and Read_wallet calls
          Writers     \* those of them that are With_wallet calls

VARIABLES store,      \* the calls whose change the wallet holds
          lost,       \* a fault destroyed the wallet
          status,     \* where each call is
          view        \* the wallet each call was given

vars == <<store, lost, status, view>>

TypeOK ==
  /\ store \subseteq Writers
  /\ lost \in BOOLEAN
  /\ status \in [Calls -> {"idle", "pending", "applied", "ok", "failed"}]
  /\ view \in [Calls -> SUBSET Calls]

Init ==
  /\ store = {}
  /\ lost = FALSE
  /\ status = [c \in Calls |-> "idle"]
  /\ view = [c \in Calls |-> {}]

Begin(c) ==
  /\ status[c] = "idle"
  /\ status' = [status EXCEPT ![c] = "pending"]
  /\ UNCHANGED <<store, lost, view>>

\* With_wallet: the closure is given the wallet and its change is added to it.
Update(c) ==
  /\ c \in Writers
  /\ status[c] = "pending"
  /\ ~lost
  /\ status' = [status EXCEPT ![c] = "applied"]
  /\ view' = [view EXCEPT ![c] = store]
  /\ store' = store \cup {c}
  /\ UNCHANGED lost

\* Read_wallet: the closure is given the wallet.
Observe(c) ==
  /\ c \notin Writers
  /\ status[c] = "pending"
  /\ ~lost
  /\ status' = [status EXCEPT ![c] = "applied"]
  /\ view' = [view EXCEPT ![c] = store]
  /\ UNCHANGED <<store, lost>>

Return(c) ==
  /\ status[c] = "applied"
  /\ status' = [status EXCEPT ![c] = "ok"]
  /\ UNCHANGED <<store, lost, view>>

\* An exception without a fault: only a call that has changed nothing throws.
Fail(c) ==
  /\ \/ status[c] = "pending"
     \/ status[c] = "applied" /\ c \notin Writers
  /\ status' = [status EXCEPT ![c] = "failed"]
  /\ UNCHANGED <<store, lost, view>>

\* A fault ends the calls in S.  It may lose the wallet when one of them had not
\* finished its update; the change of one that had is kept.
Fault(S) ==
  /\ \A c \in S : status[c] \in {"pending", "applied"}
  /\ status' = [c \in Calls |-> IF c \in S THEN "failed" ELSE status[c]]
  /\ lost' \in {lost, \E c \in S \cap Writers : status[c] = "pending"}
  /\ lost => lost'
  /\ UNCHANGED <<store, view>>

Next ==
  \/ \E c \in Calls : Begin(c) \/ Update(c) \/ Observe(c) \/ Return(c) \/ Fail(c)
  \/ \E S \in SUBSET Calls : Fault(S)

Spec == Init /\ [][Next]_vars
==============================================================================
