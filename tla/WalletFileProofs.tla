--------------------------- MODULE WalletFileProofs ---------------------------
(***************************************************************************)
(* Proofs, for any set of calls, processes, retries and faults, that the   *)
(* file protocol of WalletData.With_wallet and Read_wallet keeps the       *)
(* safety properties stated in WalletFile, and that it implements          *)
(* WalletStore.                                                            *)
(***************************************************************************)
EXTENDS WalletFile, TLAPS

\* Whoever runs between File.Open on wallet.lock and its Dispose has the lock;
\* whoever has it is there, or has thrown.
LockInv ==
  /\ \A c \in Writers : pc[c] \in Locked => lock = c
  /\ lock # NoCall => lock \in Writers /\ pc[lock] \in Locked \cup {"failed"}

\* The handles on wallet.dat agree with the steps of the calls.
HandleInv ==
  /\ \A c \in Calls : pc[c] \in {"locking", "applied", "writing", "written"} => c \in Writers
  /\ \A c \in Calls : c \in readers => pc[c] = "reading"
  /\ \A c \in Calls : pc[c] = "writing" => writer = c
  /\ writer # NoCall => pc[writer] = "writing"

\* While a With_wallet call holds a WalletData, the file holds the same.
CopyInv ==
  /\ \A c \in Writers : pc[c] \in {"loaded", "applied", "writing"} => seen[c] = content
  /\ \A c \in Writers : pc[c] \in {"loaded", "applied"} => file # "torn"
  /\ file = "missing" => content = {}

\* The changes in the file are those of the calls that flushed one, and each of
\* these was given a wallet that is a part of the present one; of any two, one
\* was given the other's change and not conversely.
HistoryInv ==
  /\ \A c \in content : Wrote(c) \/ pc[c] = "crashed"
  /\ \A c \in Writers : Wrote(c) => c \in content
  /\ \A c \in Calls : struck[c] # "none" => pc[c] = "failed"
  /\ \A c \in content : seen[c] \subseteq content
  /\ \A c, d \in content : c # d => (c \in seen[d]) # (d \in seen[c])

\* A file that was cut short and closed was so by a call that a fault ended.
TornInv ==
  file = "torn" /\ writer = NoCall
    => \E c \in Writers : struck[c] = "Write" \/ pc[c] = "crashed"

\* The inductive invariant.
IInv ==
  /\ TypeOK
  /\ LockInv
  /\ HandleInv
  /\ CopyInv
  /\ HistoryInv
  /\ TornInv
  /\ TornOnlyByFault
-------------------------------------------------------------------------------
\* The initial state, no call started and no file, satisfies the invariant.
LEMMA InitInv == Init => IInv
  BY CallsAssumption, BoundsAssumption
     DEF Init, IInv, TypeOK, LockInv, HandleInv, CopyInv, HistoryInv,
         TornInv, TornOnlyByFault, Wrote, Steps, Locked, Ended

\* Every step of every call, a finalizer and a crash keep the invariant.
LEMMA StepInv == IInv /\ [Next]_vars => IInv'
  <1> SUFFICES ASSUME IInv, [Next]_vars
               PROVE  IInv'
    OBVIOUS
  <1> USE CallsAssumption, BoundsAssumption
  <1> USE DEF IInv, TypeOK, LockInv, HandleInv, CopyInv, HistoryInv,
              TornInv, TornOnlyByFault, Wrote, Steps, Locked, Ended, Goto, Throw
  <1>1. ASSUME NEW c \in Calls, With_wallet(c)
        PROVE  IInv'
    BY <1>1 DEF With_wallet
  <1>2. ASSUME NEW c \in Calls, Read_wallet(c)
        PROVE  IInv'
    BY <1>2 DEF Read_wallet
  <1>3. ASSUME NEW c \in Calls, OpenLock(c)
        PROVE  IInv'
    BY <1>3 DEF OpenLock
  <1>4. ASSUME NEW c \in Calls, OpenLockFails(c)
        PROVE  IInv'
    BY <1>4 DEF OpenLockFails
  <1>5. ASSUME NEW c \in Calls, Read_or_create(c)
        PROVE  IInv'
    <2> USE DEF Read_or_create
    <2>1. CASE file = "missing"
      <3>1. content = {} /\ content' = {} /\ c \notin readers
        BY <1>5, <2>1
      <3>2. TypeOK' /\ LockInv' /\ HandleInv'
        BY <1>5, <2>1, <3>1
      <3>3. CopyInv' /\ TornInv' /\ TornOnlyByFault'
        BY <1>5, <2>1, <3>1
      <3>4. HistoryInv'
        BY <1>5, <2>1, <3>1
      <3> QED
        BY <3>2, <3>3, <3>4
    <2>2. CASE file # "missing" /\ writer = NoCall
      BY <1>5, <2>2
    <2>3. CASE file # "missing" /\ writer # NoCall
      BY <1>5, <2>3
    <2> QED
      BY <2>1, <2>2, <2>3
  <1>6. ASSUME NEW c \in Calls, Read(c)
        PROVE  IInv'
    BY <1>6 DEF Read
  <1>7. ASSUME NEW c \in Calls, Closure(c)
        PROVE  IInv'
    BY <1>7 DEF Closure
  <1>8. ASSUME NEW c \in Calls, Write(c)
        PROVE  IInv'
    BY <1>8 DEF Write
  <1>9. ASSUME NEW c \in Calls, Flush(c)
        PROVE  IInv'
    BY <1>9 DEF Flush
  <1>10. ASSUME NEW c \in Calls, FlushFails(c)
        PROVE  IInv'
    BY <1>10 DEF FlushFails
  <1>11. ASSUME NEW c \in Calls, Release(c)
        PROVE  IInv'
    BY <1>11 DEF Release
  <1>12. ASSUME NEW c \in Calls, ReleaseFails(c)
        PROVE  IInv'
    BY <1>12 DEF ReleaseFails
  <1>13. CASE Finalize
    BY <1>13 DEF Finalize
  <1>14. ASSUME NEW p \in Processes, Crash(p)
        PROVE  IInv'
    BY <1>14 DEF Crash
  <1>15. CASE Terminated \/ UNCHANGED vars
    BY <1>15 DEF Terminated, vars
  <1> QED
    BY <1>1, <1>2, <1>3, <1>4, <1>5, <1>6, <1>7, <1>8, <1>9, <1>10, <1>11, <1>12, <1>13, <1>14, <1>15 DEF Next, Step

\* It holds in every state.
LEMMA Invariance == Spec => []IInv
  BY InitInv, StepInv, PTL DEF Spec

\* Type correctness: every handle, step and counter of the file protocol stays
\* in its set, for any number of calls, processes and retries.
THEOREM TypeCorrect == Spec => []TypeOK
  BY Invariance, PTL DEF IInv

\* At most one With_wallet call runs between File.Open on wallet.lock and its
\* Dispose, although an exception leaves the file open.
THEOREM MutualExclusion == Spec => []LockExclusion
  <1>1. IInv => LockExclusion
    BY DEF IInv, LockInv, LockExclusion
  <1> QED
    BY Invariance, <1>1, PTL

\* No With_wallet call overwrites the change of an earlier one.
THEOREM UpdatesKept == Spec => []NoLostUpdate
  <1>1. IInv => NoLostUpdate
    BY DEF IInv, HistoryInv, NoLostUpdate
  <1> QED
    BY Invariance, <1>1, PTL

\* The With_wallet calls that wrote are totally ordered by what they read,
\* so no two of them derived the same child index from the same wallet.
THEOREM UpdatesSerializable == Spec => []Serializable
  <1>1. IInv => Serializable
    BY DEF IInv, HistoryInv, Serializable
  <1> QED
    BY Invariance, <1>1, PTL

\* A With_wallet call that throws has changed the wallet if and only if it was the
\* Dispose after the write that failed; a wallet.dat that is cut short is due to a
\* call that a disk error struck inside Write, or that crashed.
THEOREM FailureAtomic == Spec => []ThrowLeavesNoTrace
  <1>1. IInv => ThrowLeavesNoTrace
    BY CallsAssumption DEF IInv, TypeOK, HistoryInv, TornInv, ThrowLeavesNoTrace, Wrote
  <1> QED
    BY Invariance, <1>1, PTL

\* Only a crash or a disk error inside Write leaves wallet.dat cut short.
THEOREM FileIntact == Spec => []TornOnlyByFault
  BY Invariance, PTL DEF IInv
-------------------------------------------------------------------------------
\* The initial file maps to the initial store.
LEMMA InitSim == Init => Store!Init
  BY CallsAssumption DEF Init, Store!Init, Progress, Given

\* Every step of the file protocol maps to a step of the store, or to none.
LEMMA StepSim == IInv /\ [Next]_vars => [Store!Next]_(Store!vars)
  <1> SUFFICES ASSUME IInv, [Next]_vars
               PROVE  Store!Next \/ UNCHANGED Store!vars
    OBVIOUS
  <1> USE CallsAssumption
  <1> USE DEF Progress, Given, Goto, Throw, Ended, Wrote
  <1>1. ASSUME NEW c \in Calls, With_wallet(c) \/ Read_wallet(c)
        PROVE  Store!Begin(c)
    BY <1>1 DEF With_wallet, Read_wallet, Store!Begin, IInv, TypeOK
  <1>2. ASSUME NEW c \in Calls, OpenLock(c)
        PROVE  UNCHANGED Store!vars
    BY <1>2 DEF OpenLock, Store!vars, IInv, TypeOK
  <1>3. ASSUME NEW c \in Calls, OpenLockFails(c)
        PROVE  Store!Fail(c) \/ UNCHANGED Store!vars
    BY <1>3 DEF OpenLockFails, Store!Fail, Store!vars, IInv, TypeOK
  <1>4. ASSUME NEW c \in Calls, Read_or_create(c)
        PROVE  Store!Observe(c) \/ Store!Fail(c) \/ UNCHANGED Store!vars
    <2> USE <1>4 DEF Read_or_create, IInv, TypeOK
    <2>1. CASE file = "missing" /\ c \in Writers
      BY <2>1 DEF Store!vars, HistoryInv
    <2>2. CASE file = "missing" /\ c \notin Writers
      <3>1. \A d \in Calls : Progress(d)' = IF d = c THEN "applied" ELSE Progress(d)
        BY <2>2
      <3>2. \A d \in Calls : Given(d)' = IF d = c THEN content ELSE Given(d)
        BY <2>2 DEF CopyInv
      <3>3. Progress(c) = "pending" /\ c \notin Writers /\ file # "torn" /\ file' # "torn"
        BY <2>2
      <3> QED
        BY <3>1, <3>2, <3>3 DEF Store!Observe
    <2>3. CASE file # "missing" /\ writer = NoCall
      BY <2>3 DEF Store!vars
    <2>4. CASE file # "missing" /\ writer # NoCall
      BY <2>4 DEF Store!Fail
    <2> QED
      BY <2>1, <2>2, <2>3, <2>4
  <1>5. ASSUME NEW c \in Calls, Read(c)
        PROVE  Store!Observe(c) \/ Store!Fail(c) \/ UNCHANGED Store!vars
    <2> USE <1>5 DEF Read, IInv, TypeOK
    <2>1. CASE file = "json" /\ c \in Writers
      BY <2>1 DEF Store!vars, HistoryInv
    <2>2. CASE file = "json" /\ c \notin Writers
      <3>1. \A d \in Calls : Progress(d)' = IF d = c THEN "applied" ELSE Progress(d)
        BY <2>2
      <3>2. \A d \in Calls : Given(d)' = IF d = c THEN content ELSE Given(d)
        BY <2>2
      <3>3. Progress(c) = "pending" /\ c \notin Writers /\ file # "torn" /\ file' # "torn"
        BY <2>2
      <3> QED
        BY <3>1, <3>2, <3>3 DEF Store!Observe
    <2>3. CASE file = "torn"
      BY <2>3 DEF Store!Fail
    <2> QED
      BY <2>1, <2>2, <2>3
  <1>6. ASSUME NEW c \in Calls, Closure(c)
        PROVE  Store!Return(c) \/ Store!Fail(c) \/ UNCHANGED Store!vars
    <2> USE <1>6 DEF Closure, IInv, TypeOK
    <2>1. CASE Throw(c)
      BY <2>1 DEF Store!Fail
    <2>2. CASE c \in Writers /\ Goto(c, "applied")
      BY <2>2 DEF Store!vars
    <2>3. CASE c \notin Writers /\ Goto(c, "done")
      BY <2>3 DEF Store!Return
    <2> QED
      BY <2>1, <2>2, <2>3
  <1>7. ASSUME NEW c \in Calls, Write(c)
        PROVE  Store!Fail(c) \/ UNCHANGED Store!vars
    <2> USE <1>7 DEF Write, IInv, TypeOK
    <2>1. c \in Writers /\ Progress(c) = "pending" /\ file # "torn"
      BY DEF HandleInv, CopyInv
    <2>2. CASE readers = {} /\ writer = NoCall
      <3>1. \A d \in Calls : Progress(d)' = Progress(d) /\ Given(d)' = Given(d)
        BY <2>1, <2>2
      <3>2. ~(file = "torn" /\ writer = NoCall) /\ ~(file' = "torn" /\ writer' = NoCall)
        BY <2>1, <2>2
      <3> QED
        BY <3>1, <3>2 DEF Store!vars
    <2>3. CASE readers # {} \/ writer # NoCall
      <3>1. \A d \in Calls : Progress(d)' = IF d = c THEN "failed" ELSE Progress(d)
        BY <2>1, <2>3
      <3>2. \A d \in Calls : Given(d)' = Given(d)
        BY <2>1, <2>3
      <3> QED
        BY <2>1, <2>3, <3>1, <3>2 DEF Store!Fail
    <2> QED
      BY <2>2, <2>3
  <1>8. ASSUME NEW c \in Calls, Flush(c)
        PROVE  Store!Update(c)
    <2> USE <1>8 DEF Flush, IInv, TypeOK
    <2>1. c \in Writers /\ writer = c /\ seen[c] = content
      BY DEF HandleInv, CopyInv
    <2>2. Progress(c) = "pending" /\ content' = content \cup {c}
      BY <2>1
    <2>3. \A d \in Calls : Progress(d)' = IF d = c THEN "applied" ELSE Progress(d)
      BY <2>1
    <2>4. \A d \in Calls : Given(d)' = IF d = c THEN content ELSE Given(d)
      BY <2>1, <2>2
    <2> QED
      BY <2>1, <2>2, <2>3, <2>4 DEF Store!Update
  <1>9. ASSUME NEW c \in Calls, FlushFails(c)
        PROVE  Store!Fault({c})
    BY <1>9 DEF FlushFails, Store!Fault, IInv, TypeOK, HandleInv
  <1>10. ASSUME NEW c \in Calls, Release(c)
         PROVE  Store!Return(c)
    BY <1>10 DEF Release, Store!Return, IInv, TypeOK, HandleInv
  <1>11. ASSUME NEW c \in Calls, ReleaseFails(c)
         PROVE  Store!Fault({c})
    BY <1>11 DEF ReleaseFails, Store!Fault, IInv, TypeOK, HandleInv
  <1>12. CASE Finalize
    BY <1>12 DEF Finalize, Store!vars
  <1>13. ASSUME NEW p \in Processes, Crash(p)
         PROVE  \E S \in SUBSET Calls : Store!Fault(S)
    <2> USE <1>13 DEF Crash, IInv, TypeOK
    <2>1. PICK S \in SUBSET Calls :
            S = {c \in Calls : ProcessOf[c] = p /\ pc[c] \notin Ended \cup {"idle"}}
      OBVIOUS
    <2>2. \A c \in S : Progress(c) \in {"pending", "applied"}
      BY <2>1
    <2>3. \A c \in Calls : Progress(c)' = IF c \in S THEN "failed" ELSE Progress(c)
      BY <2>1
    <2>4. \A c \in Calls : Given(c)' = Given(c)
      OBVIOUS
    <2>5. file = "torn" /\ writer # NoCall /\ writer' = NoCall
          => \E c \in S \cap Writers : Progress(c) = "pending"
      BY <2>1 DEF HandleInv
    <2>6. file = "torn" /\ writer = NoCall => file' = "torn" /\ writer' = NoCall
      BY DEF HandleInv
    <2> DEFINE lost == file = "torn" /\ writer = NoCall
               cause == \E c \in S \cap Writers : Progress(c) = "pending"
    <2>7. lost' \in {lost, cause} /\ (lost => lost')
      <3>1. lost \in BOOLEAN /\ cause \in BOOLEAN
        OBVIOUS
      <3> QED
        BY <2>5, <2>6, <3>1
    <2>8. Store!Fault(S)
      <3>1. \A c \in S : [d \in Calls |-> Progress(d)][c] = Progress(c)
        BY <2>1
      <3>2. cause = \E c \in S \cap Writers : [d \in Calls |-> Progress(d)][c] = "pending"
        BY <3>1
      <3>3. [c \in Calls |-> Progress(c)]' =
              [c \in Calls |-> IF c \in S THEN "failed" ELSE [d \in Calls |-> Progress(d)][c]]
        BY <2>3
      <3>4. [c \in Calls |-> Given(c)]' = [c \in Calls |-> Given(c)]
        BY <2>4
      <3>5. content' = content
        OBVIOUS
      <3> HIDE DEF Crash, IInv, TypeOK, Progress, Given, Goto, Throw, Ended, Wrote
      <3>6. \A c \in S : [d \in Calls |-> Progress(d)][c] \in {"pending", "applied"}
        BY <2>2, <3>1
      <3> QED
        BY <2>7, <3>2, <3>3, <3>4, <3>5, <3>6 DEF Store!Fault
    <2> QED
      BY <2>8
  <1>14. CASE Terminated \/ UNCHANGED vars
    BY <1>14 DEF Terminated, vars, Store!vars
  <1> QED
    BY <1>1, <1>2, <1>3, <1>4, <1>5, <1>6, <1>7, <1>8, <1>9, <1>10, <1>11,
       <1>12, <1>13, <1>14
       DEF Next, Step, Store!Next

\* The file protocol, with its lock, its unlocked readers, its exceptions, a release
\* that throws after the write included, and its crashes, is an atomic wallet.
THEOREM Refinement == Spec => ImplementsStore
  BY InitSim, StepSim, Invariance, PTL DEF Spec, ImplementsStore, Store!Spec
===============================================================================
