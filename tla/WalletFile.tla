------------------------------ MODULE WalletFile ------------------------------
(***************************************************************************)
(* WalletData.With_wallet and WalletData.Read_wallet of                    *)
(* WalletImpl/WalletTypes/WalletData.cs: the file protocol under which     *)
(* every request handler reads and changes wallet.dat.                     *)
(*                                                                         *)
(* An element of Calls is one call of With_wallet (when it is in Writers)  *)
(* or of Read_wallet; it runs in the process ProcessOf[c], on a thread of  *)
(* its own.  Every step below is one file-system call or one run of the    *)
(* caller's closure, so all of them interleave.                            *)
(*                                                                         *)
(* The native library is loaded from Libs/x64/secp256k1.dll, so the        *)
(* program runs on Windows, where the FileShare arguments are enforced:    *)
(*   - File.Open(..., FileShare.None) on wallet.lock excludes every other; *)
(*   - File.OpenText takes a handle that tolerates readers only, so it     *)
(*     fails while a writer has the file open and makes a writer fail;     *)
(*   - File.CreateText truncates the file once it is open.                 *)
(*                                                                         *)
(* The contents of wallet.dat are abstracted to the set of the calls whose *)
(* change they hold: With_wallet's closure adds its own call to the        *)
(* WalletData that it was given.                                           *)
(***************************************************************************)
EXTENDS Naturals

CONSTANTS Calls,         \* the calls of With_wallet and Read_wallet
          Writers,       \* those of them that are With_wallet calls
          Processes,     \* the processes that use this wallet directory
          ProcessOf,     \* the process a call runs in
          LockRetries,   \* retries of File.Open on wallet.lock (5 in the code)
          MaxFaults,     \* bound on the crashes and disk errors
          NoCall         \* not a call: no handle is open

ASSUME CallsAssumption ==
  /\ Writers \subseteq Calls
  /\ ProcessOf \in [Calls -> Processes]
  /\ NoCall \notin Calls

ASSUME BoundsAssumption ==
  /\ LockRetries \in Nat
  /\ MaxFaults \in Nat

VARIABLES pc,        \* where each call is
          attempts,  \* failed attempts of each call to open wallet.lock
          seen,      \* the contents each call read: its WalletData
          lock,      \* the call whose FileStream has wallet.lock open
          readers,   \* the calls that have wallet.dat open for reading
          writer,    \* the call that has wallet.dat open for writing
          content,   \* the contents wallet.dat last held in full
          file,      \* "missing", "json" (holds content) or "torn"
          struck,    \* history: the step of a call that a disk error struck
          faults     \* crashes and disk errors so far

vars ==
  <<pc, attempts, seen, lock, readers, writer, content, file, struck, faults>>

Ended == {"done", "failed", "crashed"}

\* The steps of With_wallet that run with the lock file open.
Locked == {"opening", "reading", "loaded", "applied", "writing", "written"}

Steps == {"idle", "locking"} \cup Locked \cup Ended

TypeOK ==
  /\ pc \in [Calls -> Steps]
  /\ attempts \in [Calls -> 0 .. LockRetries]
  /\ seen \in [Calls -> SUBSET Writers]
  /\ lock \in Calls \cup {NoCall}
  /\ readers \subseteq Calls
  /\ writer \in Calls \cup {NoCall}
  /\ content \subseteq Writers
  /\ file \in {"missing", "json", "torn"}
  /\ struck \in [Calls -> {"none", "Write", "Dispose"}]
  /\ faults \in 0 .. MaxFaults

Init ==
  /\ pc = [c \in Calls |-> "idle"]
  /\ attempts = [c \in Calls |-> 0]
  /\ seen = [c \in Calls |-> {}]
  /\ lock = NoCall
  /\ readers = {}
  /\ writer = NoCall
  /\ content = {}
  /\ file = "missing"
  /\ struck = [c \in Calls |-> "none"]
  /\ faults = 0

Goto(c, s) == pc' = [pc EXCEPT ![c] = s]

\* An exception leaves With_wallet between the File.Open and the Dispose of the
\* lock's FileStream: no try block encloses them, so the handle stays open.
Throw(c) == Goto(c, "failed")

------------------------------------------------------------------------------

With_wallet(c) ==
  /\ c \in Writers
  /\ pc[c] = "idle"
  /\ Goto(c, "locking")
  /\ UNCHANGED <<attempts, seen, lock, readers, writer, content, file, struck, faults>>

Read_wallet(c) ==
  /\ c \notin Writers
  /\ pc[c] = "idle"
  /\ Goto(c, "opening")
  /\ UNCHANGED <<attempts, seen, lock, readers, writer, content, file, struck, faults>>

\* Mutant: the lock file is opened with a share mode that lets others in.
OpenLockShared(c) ==
  /\ pc[c] = "locking"
  /\ lock' = c
  /\ Goto(c, "opening")
  /\ UNCHANGED <<attempts, seen, readers, writer, content, file, struck, faults>>

\* With_wallet's Action(): File.Open succeeds.
OpenLock(c) ==
  /\ pc[c] = "locking"
  /\ lock = NoCall
  /\ lock' = c
  /\ Goto(c, "opening")
  /\ UNCHANGED <<attempts, seen, readers, writer, content, file, struck, faults>>

\* Mutant: the retries are not counted.
OpenLockRetriesForever(c) ==
  /\ pc[c] = "locking"
  /\ lock # NoCall
  /\ UNCHANGED vars

\* Mutant: one retry too many.
OpenLockFailsOnceMore(c) ==
  /\ pc[c] = "locking"
  /\ lock # NoCall
  /\ \/ /\ attempts[c] <= LockRetries
        /\ attempts' = [attempts EXCEPT ![c] = @ + 1]
        /\ UNCHANGED pc
     \/ /\ attempts[c] > LockRetries
        /\ Throw(c)
        /\ UNCHANGED attempts
  /\ UNCHANGED <<seen, lock, readers, writer, content, file, struck, faults>>

\* File.Open throws an IOException: Polly's WaitAndRetry waits and tries again,
\* and once the retries are used up With_wallet throws a WalletErrorException.
OpenLockFails(c) ==
  /\ pc[c] = "locking"
  /\ lock # NoCall
  /\ \/ /\ attempts[c] < LockRetries
        /\ attempts' = [attempts EXCEPT ![c] = @ + 1]
        /\ UNCHANGED pc
     \/ /\ attempts[c] = LockRetries
        /\ Throw(c)
        /\ UNCHANGED attempts
  /\ UNCHANGED <<seen, lock, readers, writer, content, file, struck, faults>>

\* File.Exists, then File.OpenText.
Read_or_create(c) ==
  /\ pc[c] = "opening"
  /\ \/ /\ file = "missing"
        /\ seen' = [seen EXCEPT ![c] = {}]
        /\ Goto(c, "loaded")
        /\ UNCHANGED readers
     \/ /\ file # "missing"
        /\ writer = NoCall
        /\ readers' = readers \cup {c}
        /\ Goto(c, "reading")
        /\ UNCHANGED seen
     \/ /\ file # "missing"
        /\ writer # NoCall
        /\ Throw(c)
        /\ UNCHANGED <<seen, readers>>
  /\ UNCHANGED <<attempts, lock, writer, content, file, struck, faults>>

\* Deserialize and close.  A file cut short gives null or a JsonException, and
\* the closure dereferences the null: either way the call throws.
Read(c) ==
  /\ pc[c] = "reading"
  /\ readers' = readers \ {c}
  /\ \/ /\ file = "json"
        /\ seen' = [seen EXCEPT ![c] = content]
        /\ Goto(c, "loaded")
     \/ /\ file = "torn"
        /\ Throw(c)
        /\ UNCHANGED seen
  /\ UNCHANGED <<attempts, lock, writer, content, file, struck, faults>>

\* The caller's closure f(wdat) returns, or throws.  Read_wallet then returns.
Closure(c) ==
  /\ pc[c] = "loaded"
  /\ \/ Goto(c, IF c \in Writers THEN "applied" ELSE "done")
     \/ Throw(c)
  /\ UNCHANGED <<attempts, seen, lock, readers, writer, content, file, struck, faults>>

\* Mutant: the file is truncated even when it cannot be opened for writing.
WriteTruncatesFirst(c) ==
  /\ pc[c] = "applied"
  /\ file' = "torn"
  /\ \/ /\ readers = {}
        /\ writer = NoCall
        /\ writer' = c
        /\ Goto(c, "writing")
     \/ /\ readers # {} \/ writer # NoCall
        /\ Throw(c)
        /\ UNCHANGED writer
  /\ UNCHANGED <<attempts, seen, lock, readers, content, struck, faults>>

\* WalletData.Write: File.CreateText opens and truncates wallet.dat, or throws
\* because some call has it open.
Write(c) ==
  /\ pc[c] = "applied"
  /\ \/ /\ readers = {}
        /\ writer = NoCall
        /\ writer' = c
        /\ file' = "torn"
        /\ Goto(c, "writing")
     \/ /\ readers # {} \/ writer # NoCall
        /\ Throw(c)
        /\ UNCHANGED <<writer, file>>
  /\ UNCHANGED <<attempts, seen, lock, readers, content, struck, faults>>

\* Mutant: only the closure's own change is written.
FlushForgets(c) ==
  /\ pc[c] = "writing"
  /\ content' = {c}
  /\ file' = "json"
  /\ writer' = NoCall
  /\ Goto(c, "written")
  /\ UNCHANGED <<attempts, seen, lock, readers, struck, faults>>

\* Serialize, flush and close.
Flush(c) ==
  /\ pc[c] = "writing"
  /\ content' = seen[c] \cup {c}
  /\ file' = "json"
  /\ writer' = NoCall
  /\ Goto(c, "written")
  /\ UNCHANGED <<attempts, seen, lock, readers, struck, faults>>

\* The disk fails during the write: the using block closes the file, the catch
\* clause throws a WalletErrorException.
FlushFails(c) ==
  /\ pc[c] = "writing"
  /\ faults < MaxFaults
  /\ faults' = faults + 1
  /\ struck' = [struck EXCEPT ![c] = "Write"]
  /\ writer' = NoCall
  /\ Throw(c)
  /\ UNCHANGED <<attempts, seen, lock, readers, content, file>>

\* Mutant: the lock file is deleted once it is closed, as the comment at this
\* point says, which throws when another call has opened it meanwhile.
ReleaseDeletes(c) ==
  /\ pc[c] = "written"
  /\ lock' = NoCall
  /\ Goto(c, "done") \/ Throw(c)
  /\ UNCHANGED <<attempts, seen, readers, writer, content, file, struck, faults>>

\* lf.Dispose(), then With_wallet returns.
Release(c) ==
  /\ pc[c] = "written"
  /\ lock' = NoCall
  /\ Goto(c, "done")
  /\ UNCHANGED <<attempts, seen, readers, writer, content, file, struck, faults>>

\* lf.Dispose() throws an IOException, which becomes a WalletErrorException: the
\* caller is told of a failure although wallet.dat holds its change.  Whether
\* the handle was closed depends on where Dispose failed.
ReleaseFails(c) ==
  /\ pc[c] = "written"
  /\ faults < MaxFaults
  /\ faults' = faults + 1
  /\ struck' = [struck EXCEPT ![c] = "Dispose"]
  /\ lock' \in {NoCall, c}
  /\ Throw(c)
  /\ UNCHANGED <<attempts, seen, readers, writer, content, file>>

\* The finalizer of a FileStream that With_wallet left open closes it.
Finalize ==
  /\ lock # NoCall
  /\ pc[lock] = "failed"
  /\ lock' = NoCall
  /\ UNCHANGED <<pc, attempts, seen, readers, writer, content, file, struck, faults>>

\* A process dies: its calls end where they are and its handles are closed.
Crash(p) ==
  LET mine == {c \in Calls : ProcessOf[c] = p}
  IN /\ faults < MaxFaults
     /\ \E c \in mine : pc[c] \notin Ended \cup {"idle"}
     /\ faults' = faults + 1
     /\ pc' = [c \in Calls |->
                 IF c \in mine /\ pc[c] \notin Ended \cup {"idle"}
                 THEN "crashed" ELSE pc[c]]
     /\ lock' = IF lock \in mine THEN NoCall ELSE lock
     /\ writer' = IF writer \in mine THEN NoCall ELSE writer
     /\ readers' = readers \ mine
     /\ UNCHANGED <<attempts, seen, content, file, struck>>

Step(c) ==
  \/ OpenLock(c) \/ OpenLockFails(c)
  \/ Read_or_create(c) \/ Read(c) \/ Closure(c)
  \/ Write(c) \/ Flush(c) \/ FlushFails(c)
  \/ Release(c) \/ ReleaseFails(c)

\* Every call has ended.
Terminated ==
  /\ \A c \in Calls : pc[c] \in Ended
  /\ lock = NoCall
  /\ UNCHANGED vars

Next ==
  \/ \E c \in Calls : With_wallet(c) \/ Read_wallet(c) \/ Step(c)
  \/ Finalize
  \/ \E p \in Processes : Crash(p)
  \/ Terminated

Spec == Init /\ [][Next]_vars

\* The thread that runs a call is scheduled: a call that can take its next step
\* does so.  Nothing is assumed of the garbage collector (Finalize), of new
\* calls or of faults.
FairSpec == Spec /\ \A c \in Calls : WF_vars(Step(c))
------------------------------------------------------------------------------
(* Properties *)

\* With_wallet calls exclude one another: from File.Open on wallet.lock to its
\* Dispose at most one of them runs.
LockExclusion ==
  \A c, d \in Writers : pc[c] \in Locked /\ pc[d] \in Locked => c = d

\* The call has written its change, whether its caller learns of it or not.
Wrote(c) == pc[c] \in {"written", "done"} \/ struck[c] = "Dispose"

\* The change of a With_wallet call that got as far as releasing the lock is
\* never overwritten by a later call, also when the release then throws.
NoLostUpdate ==
  \A c \in Writers : Wrote(c) => c \in content

\* Of two With_wallet calls that wrote, exactly one was given a wallet with the
\* other's change in it.  This is what keeps Next_child from handing the same
\* child index, hence the same key, to two outputs.
Serializable ==
  \A c, d \in Writers :
    c # d /\ Wrote(c) /\ Wrote(d) => (c \in seen[d]) # (d \in seen[c])

\* What an exception of With_wallet means to its caller.  The change is in the
\* wallet if and only if it was the Dispose after the write that failed
\* (WalletData.cs:104-107); every other exception, at whichever step, leaves the
\* contents as they were, and it leaves wallet.dat readable unless a disk error
\* or a crash struck a call inside Write.
ThrowLeavesNoTrace ==
  /\ \A c \in Writers :
       pc[c] = "failed" => (c \in content <=> struck[c] = "Dispose")
  /\ file = "torn" /\ writer = NoCall
       => \E c \in Writers : struck[c] = "Write" \/ pc[c] = "crashed"

\* No exception path leaves wallet.dat cut short: only a crash or a disk error
\* during Write does.
TornOnlyByFault ==
  file = "torn" => writer # NoCall \/ faults > 0

\* The protocol implements the atomic wallet of WalletStore: a With_wallet call
\* takes effect when Write has flushed the file, a Read_wallet call when Read has
\* closed it.
Progress(c) ==
  IF pc[c] = "idle" THEN "idle"
  ELSE IF pc[c] = "done" THEN "ok"
  ELSE IF pc[c] \in {"failed", "crashed"} THEN "failed"
  ELSE IF pc[c] = (IF c \in Writers THEN "written" ELSE "loaded") THEN "applied"
  ELSE "pending"

Given(c) ==
  IF c \in content \/ (c \notin Writers) THEN seen[c] ELSE {}

Store ==
  INSTANCE WalletStore
  WITH store <- content,
       lost <- file = "torn" /\ writer = NoCall,
       status <- [c \in Calls |-> Progress(c)],
       view <- [c \in Calls |-> Given(c)]

ImplementsStore == Store!Spec

\* Every call that was started ends, with a result or with an exception: a lock
\* that is never released costs a caller its retries, not its thread.
EveryCallEnds ==
  \A c \in Calls : (pc[c] # "idle") ~> (pc[c] \in Ended)
==============================================================================
