------------------------------- MODULE UpdateSwap -------------------------------
(***************************************************************************)
(* "devdiag update": Options.Apply and SwapBinary, run by several          *)
(* processes on one installed binary.  The target file, its backup         *)
(* (.old), the staged binary (.new) and the lock file (.update-lock) are   *)
(* shared; a copy is two steps, the truncation of its destination and its  *)
(* completion, so that a crash or another process may come in between.     *)
(* Any I/O step may fail, and a process may die at any step.               *)
(***************************************************************************)
EXTENDS Integers, FiniteSets

CONSTANTS Updaters,     \* processes that run devdiag update
          Newest,       \* releases are 1..Newest; release 1 is installed
          MaxCrashes,   \* bound on crashes
          Overruns,     \* may a swap take longer than an hour (a suspended machine)?
          NoOne         \* no updater

ASSUME UpdateAssumption ==
    /\ Newest \in Nat \ {0} /\ MaxCrashes \in Nat /\ Overruns \in BOOLEAN
    /\ NoOne \notin Updaters

Releases == 1..Newest
Absent   == 0    \* no such file
Torn     == -1   \* truncated, or written in part
Contents == Releases \cup {Absent, Torn}

VARIABLES target, old, staged,  \* contents of the installed binary, .old and .new
          lock,      \* [owner, stale] of the lock file; owner NoOne: no file
          pc,        \* where each updater is
          rel,       \* the release each updater resolved and verified
          attempt,   \* acquireLock's loop variable
          backedUp,  \* SwapBinary's backedUp
          result,    \* how its SwapBinary ends
          runs,      \* does this process run the very file target names?
          crashes,   \* crashes so far
          stolen,    \* history: a lock was removed while its owner swapped
          overtaken  \* history: a lock was broken by a process whose own binary
                     \* had been replaced since it was started

history == <<stolen, overtaken>>
locals  == <<rel, attempt, backedUp, result, runs>>
files   == <<target, old, staged>>
vars    == <<files, lock, pc, locals, crashes, history>>

NoLock == [owner |-> NoOne, stale |-> FALSE]

\* The steps under the lock.
Swapping == {"backup", "copyBackup", "stage", "copyStaged", "rename", "syncDir",
             "rollback", "restore", "copyRestore", "unlock"}

TypeOK ==
    /\ target \in Contents /\ old \in Contents /\ staged \in Contents
    /\ lock \in [owner: Updaters \cup {NoOne}, stale: BOOLEAN]
    /\ pc \in [Updaters -> {"idle", "verify", "check", "open", "stat", "break"} \cup Swapping]
    /\ rel \in [Updaters -> Releases] /\ attempt \in [Updaters -> 0..1]
    /\ backedUp \in [Updaters -> BOOLEAN] /\ runs \in [Updaters -> BOOLEAN]
    /\ result \in [Updaters -> {"none", "ok", "failed", "rollbackFailed"}]
    /\ crashes \in 0..MaxCrashes
    /\ stolen \in BOOLEAN /\ overtaken \in BOOLEAN

Init ==
    /\ target = 1 /\ old = Absent /\ staged = Absent
    /\ lock = NoLock
    /\ pc = [u \in Updaters |-> "idle"]
    /\ rel = [u \in Updaters |-> 1]
    /\ attempt = [u \in Updaters |-> 0]
    /\ backedUp = [u \in Updaters |-> FALSE]
    /\ runs = [u \in Updaters |-> FALSE]
    /\ result = [u \in Updaters |-> "none"]
    /\ crashes = 0
    /\ stolen = FALSE /\ overtaken = FALSE
---------------------------------------------------------------------------------
Goto(u, l) == pc' = [pc EXCEPT ![u] = l]

\* The process exits, and with it all it knew.
Exit(u) == /\ Goto(u, "idle")
           /\ rel' = [rel EXCEPT ![u] = 1] /\ attempt' = [attempt EXCEPT ![u] = 0]
           /\ backedUp' = [backedUp EXCEPT ![u] = FALSE]
           /\ result' = [result EXCEPT ![u] = "none"]
           /\ runs' = [runs EXCEPT ![u] = FALSE]

(* Before the lock.                                                        *)

\* The user runs the installed binary, which finds a newer release.
Start(u) ==
    /\ pc[u] = "idle" /\ target \in Releases
    /\ \E r \in Releases : r > target /\ rel' = [rel EXCEPT ![u] = r]
    /\ Goto(u, "verify")
    /\ runs' = [runs EXCEPT ![u] = TRUE]
    /\ UNCHANGED <<files, lock, attempt, backedUp, result, crashes, history>>

\* Download, checksum, attestation and extraction: each of them may refuse.
Verify(u) ==
    /\ pc[u] = "verify"
    /\ (Goto(u, "check") /\ UNCHANGED locals) \/ Exit(u)
    /\ UNCHANGED <<files, lock, crashes, history>>

\* Lstat (symlinks are refused) and checkWritable.
CheckTarget(u) ==
    /\ pc[u] = "check"
    /\ (Goto(u, "open") /\ UNCHANGED locals) \/ Exit(u)
    /\ UNCHANGED <<files, lock, crashes, history>>

\* Mutant: the lock file is opened without O_EXCL.
OpenLockShared(u) ==
    /\ pc[u] = "open"
    /\ lock' = [owner |-> u, stale |-> FALSE] /\ Goto(u, "backup")
    /\ UNCHANGED <<files, locals, crashes, history>>

\* O_CREATE|O_EXCL on the lock file; any error but EEXIST ends the update.
OpenLock(u) ==
    /\ pc[u] = "open"
    /\ \/ /\ lock.owner = NoOne
          /\ lock' = [owner |-> u, stale |-> FALSE] /\ Goto(u, "backup") /\ UNCHANGED locals
       \/ lock.owner # NoOne /\ Goto(u, "stat") /\ UNCHANGED <<lock, locals>>
       \/ Exit(u) /\ UNCHANGED lock
    /\ UNCHANGED <<files, crashes, history>>

\* The file exists: another update, unless the lock is older than an hour.
StatLock(u) ==
    /\ pc[u] = "stat"
    /\ IF lock.owner # NoOne /\ lock.stale
       THEN Goto(u, "break") /\ UNCHANGED locals
       ELSE Exit(u)
    /\ UNCHANGED <<files, lock, crashes, history>>

\* The loop of acquireLock makes two attempts.
Retry(u) ==
    IF attempt[u] = 0
    THEN /\ attempt' = [attempt EXCEPT ![u] = 1] /\ Goto(u, "open")
         /\ UNCHANGED <<rel, backedUp, result, runs>>
    ELSE Exit(u)

\* Mutant: the stale lock is reported as removed, but stays.
BreakLockNot(u) ==
    /\ pc[u] = "break"
    /\ Retry(u)
    /\ UNCHANGED <<files, lock, crashes, history>>

\* os.Remove of the path, whatever lock it names by now; then the loop.
BreakLock(u) ==
    /\ pc[u] = "break"
    /\ lock' = NoLock
    /\ stolen' = (stolen \/ (lock.owner # NoOne /\ pc[lock.owner] \in Swapping))
    /\ overtaken' = (overtaken \/ ~runs[u])
    /\ Retry(u)
    /\ UNCHANGED <<files, crashes>>
---------------------------------------------------------------------------------
(* Under the lock.                                                         *)

\* The error return of SwapBinary before the rollback is deferred.
Fail(u) == Goto(u, "unlock") /\ result' = [result EXCEPT ![u] = "failed"]

\* Without an installed file there is nothing to back up, and with one that os.Stat
\* cannot look at there is no backup either.
OpenBackup(u) ==
    /\ pc[u] = "backup"
    /\ \/ Goto(u, "stage") /\ UNCHANGED <<old, result>>
       \/ target # Absent /\ old' = Torn /\ Goto(u, "copyBackup") /\ UNCHANGED result
       \/ target # Absent /\ Fail(u) /\ UNCHANGED old
    /\ UNCHANGED <<target, staged, lock, rel, attempt, backedUp, runs, crashes, history>>

\* copyFileSyncMode removes the file it could not write or sync; an error of
\* Close, after that, leaves it complete.
CopyBackup(u) ==
    /\ pc[u] = "copyBackup"
    /\ \/ /\ old' = target /\ Goto(u, "stage")
          /\ backedUp' = [backedUp EXCEPT ![u] = TRUE] /\ UNCHANGED result
       \/ old' \in {target, Absent} /\ Fail(u) /\ UNCHANGED backedUp
    /\ UNCHANGED <<target, staged, lock, rel, attempt, runs, crashes, history>>

OpenStaged(u) ==
    /\ pc[u] = "stage"
    /\ \/ staged' = Torn /\ Goto(u, "copyStaged") /\ UNCHANGED result
       \/ Fail(u) /\ UNCHANGED staged
    /\ UNCHANGED <<target, old, lock, rel, attempt, backedUp, runs, crashes, history>>

CopyStaged(u) ==
    /\ pc[u] = "copyStaged"
    /\ \/ staged' = rel[u] /\ Goto(u, "rename") /\ UNCHANGED result
       \/ staged' \in {rel[u], Absent} /\ Fail(u)
    /\ UNCHANGED <<target, old, lock, rel, attempt, backedUp, runs, crashes, history>>

\* Mutant: the backup is removed as soon as the new binary is in place.
RenameDropsBackup(u) ==
    /\ pc[u] = "rename"
    /\ \/ /\ target' = staged /\ staged' = Absent /\ old' = Absent
          /\ runs' = [v \in Updaters |-> FALSE]
          /\ Goto(u, "syncDir")
       \/ Goto(u, "rollback") /\ UNCHANGED <<files, runs>>
    /\ UNCHANGED <<lock, rel, attempt, backedUp, result, crashes, history>>

\* os.Rename is atomic; processes keep running the inode they were started from.
Rename(u) ==
    /\ pc[u] = "rename"
    /\ \/ /\ target' = staged /\ staged' = Absent
          /\ runs' = [v \in Updaters |-> FALSE]
          /\ Goto(u, "syncDir")
       \/ Goto(u, "rollback") /\ UNCHANGED <<target, staged, runs>>
    /\ UNCHANGED <<old, lock, rel, attempt, backedUp, result, crashes, history>>

SyncDir(u) ==
    /\ pc[u] = "syncDir"
    /\ \/ Goto(u, "unlock") /\ result' = [result EXCEPT ![u] = "ok"]
       \/ Goto(u, "rollback") /\ UNCHANGED result
    /\ UNCHANGED <<files, lock, rel, attempt, backedUp, runs, crashes, history>>

\* Mutant: only .new is removed.
RollBackStagedOnly(u) ==
    /\ pc[u] = "rollback"
    /\ staged' = Absent /\ Fail(u)
    /\ UNCHANGED <<target, old, lock, rel, attempt, backedUp, runs, crashes, history>>

\* The deferred function: remove .new, then restore the backup, if any.
RollBack(u) ==
    /\ pc[u] = "rollback"
    /\ staged' = Absent
    /\ IF backedUp[u] THEN Goto(u, "restore") /\ UNCHANGED result ELSE Fail(u)
    /\ UNCHANGED <<target, old, lock, rel, attempt, backedUp, runs, crashes, history>>

RollbackFails(u) ==
    Goto(u, "unlock") /\ result' = [result EXCEPT ![u] = "rollbackFailed"]

\* A file that is being executed cannot be opened for writing (ETXTBSY).
OpenTarget(u) ==
    /\ pc[u] = "restore"
    /\ \/ /\ \A v \in Updaters : ~runs[v]
          /\ target' = Torn /\ Goto(u, "copyRestore") /\ UNCHANGED result
       \/ RollbackFails(u) /\ UNCHANGED target
    /\ UNCHANGED <<old, staged, lock, rel, attempt, backedUp, runs, crashes, history>>

CopyRestore(u) ==
    /\ pc[u] = "copyRestore"
    /\ \/ target' = old /\ Fail(u)
       \/ target' \in {old, Absent} /\ RollbackFails(u)
    /\ UNCHANGED <<old, staged, lock, rel, attempt, backedUp, runs, crashes, history>>

\* os.Remove of the lock file, whoever made it.
Unlock(u) ==
    /\ pc[u] = "unlock"
    /\ lock' = NoLock
    /\ Exit(u)
    /\ UNCHANGED <<files, crashes, history>>
---------------------------------------------------------------------------------
\* The process dies; files and lock stay as they are.
Crash(u) ==
    /\ pc[u] # "idle" /\ crashes < MaxCrashes
    /\ crashes' = crashes + 1
    /\ Exit(u)
    /\ UNCHANGED <<files, lock, history>>

\* The owner of the lock died.
Orphaned == lock.owner # NoOne /\ pc[lock.owner] \notin Swapping

\* The lock file gets older than an hour.
LockAges ==
    /\ lock.owner # NoOne /\ ~lock.stale /\ (Orphaned \/ Overruns)
    /\ lock' = [lock EXCEPT !.stale = TRUE]
    /\ UNCHANGED <<files, pc, locals, crashes, history>>

Acquire(u) == OpenLock(u) \/ StatLock(u) \/ BreakLock(u)
Swap(u) == \/ OpenBackup(u) \/ CopyBackup(u) \/ OpenStaged(u) \/ CopyStaged(u)
           \/ Rename(u) \/ SyncDir(u) \/ RollBack(u) \/ OpenTarget(u) \/ CopyRestore(u)
           \/ Unlock(u)
Step(u) == Verify(u) \/ CheckTarget(u) \/ Acquire(u) \/ Swap(u)

Next == \/ \E u \in Updaters : Start(u) \/ Step(u) \/ Crash(u)
        \/ LockAges

\* A process that runs makes progress, and time passes.
Fairness == (\A u \in Updaters : WF_vars(Step(u))) /\ SF_vars(LockAges /\ Orphaned)

\* Users keep retrying, and some get past the network and the file system.
Retries == /\ SF_vars(\E u \in Updaters : Start(u))
           /\ SF_vars(\E u \in Updaters : Verify(u) /\ Goto(u, "check"))
           /\ SF_vars(\E u \in Updaters : CheckTarget(u) /\ Goto(u, "open"))
           /\ SF_vars(\E u \in Updaters : OpenLock(u) /\ pc'[u] # "idle")

Spec     == Init /\ [][Next]_vars
FairSpec == Spec /\ Fairness /\ Retries
---------------------------------------------------------------------------------
(* Properties.                                                             *)

\* "two concurrent updaters must not interleave backup/stage/rename"
MutualExclusion == Cardinality({u \in Updaters : pc[u] \in Swapping}) <= 1

\* Two updaters swap at once only when a lock that looked old was removed while its
\* owner was at work: a swap that took an hour, or a lock that was made anew after
\* it had been found stale.  Nothing else - no retry, no crash, no unlock - does it.
OnlyTheftInterleaves == stolen \/ MutualExclusion

\* "devdiag.old itself survives as a recovery point"
RecoveryPoint == target \in Releases \/ old \in Releases

\* Whatever fails, and wherever a process dies, the installed binary or its backup
\* is a complete release - unless a lock was stolen, or broken by a process that had
\* waited since before the binary it was started from was replaced.
OnlyOvertakingLosesBoth == stolen \/ overtaken \/ RecoveryPoint

\* An update that ended without error has installed what it verified, and one
\* that failed but could roll back has left the binary it found.
SwapIsAllOrNothing ==
    [][stolen \/
       \A u \in Updaters :
         /\ pc[u] = "syncDir" /\ result'[u] = "ok" => target = rel[u]
         /\ pc[u] \in Swapping /\ result[u] # "failed" /\ result'[u] = "failed" =>
              target' = IF backedUp[u] THEN old ELSE target]_vars

\* "a crashed updater cannot hold updates hostage forever": as long as there is
\* a newer release for the user to ask for, the lock it left is broken.
Behind == target \in Releases /\ target < Newest
LockIsFreedAgain == Orphaned /\ Behind ~> ~Orphaned

\* "Any failure leaves the installed binary untouched."
FailureLeavesTarget ==
    [][\A u \in Updaters :
         pc[u] = "unlock" /\ pc'[u] = "idle" /\ result[u] \in {"failed", "rollbackFailed"}
           => target \in Releases]_vars
=================================================================================
