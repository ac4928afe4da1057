---------------------------- MODULE UpdateSwapProofs ----------------------------
(***************************************************************************)
(* Safety of the self-update for every number of updaters, releases and    *)
(* crashes, with locks that get old under any owner.                       *)
(*                                                                         *)
(* As long as no lock is stolen, who swaps owns the lock (Held), is alone, *)
(* and knows what it wrote (Swaps).  As long as no updater overtakes       *)
(* another either, Recoverable says for each step under the lock which     *)
(* files are complete: the binary an updater runs is, because one that is  *)
(* executed is not written to, so that a lock is only broken over a        *)
(* complete binary.                                                        *)
(***************************************************************************)
EXTENDS UpdateSwap, FiniteSetTheorems, TLAPS

Early == {"idle", "verify", "check", "open", "stat", "break", "backup", "copyBackup"}

NoBackupYet == \A u \in Updaters : pc[u] \in Early => ~backedUp[u]

Held == \A u \in Updaters : pc[u] \in Swapping => lock.owner = u

\* What updater u knows of the files it wrote.
Knows(u) ==
    /\ pc[u] \in {"stage", "copyStaged", "rename"} /\ backedUp[u] => old = target
    /\ pc[u] = "rename" => staged = rel[u]
    /\ pc[u] = "syncDir" => target = rel[u]
    /\ pc[u] \in {"restore", "copyRestore"} => backedUp[u]

Swaps == \A u \in Updaters : Knows(u)

\* What updater u may rely on.
Relies(u) ==
    /\ runs[u] => target \in Releases
    /\ pc[u] \in Swapping \ {"copyRestore"} => target # Torn
    /\ pc[u] = "copyRestore" => target = Torn
    /\ pc[u] = "copyBackup" => target \in Releases
    /\ pc[u] \in Swapping /\ backedUp[u] => old \in Releases

Recoverable ==
    /\ RecoveryPoint
    /\ lock.owner = NoOne => target # Torn
    /\ \A u \in Updaters : Relies(u)

IInv ==
    /\ TypeOK /\ NoBackupYet
    /\ stolen \/ (Held /\ Swaps)
    /\ stolen \/ overtaken \/ Recoverable
--------------------------------------------------------------------------------
LEMMA InitIInv == Init => IInv
<1> SUFFICES ASSUME Init PROVE IInv
  OBVIOUS
<1> USE UpdateAssumption DEF Init, Releases, Absent, Torn, Contents, NoLock
<1>1. TypeOK
  <2>1. lock \in [owner: Updaters \cup {NoOne}, stale: BOOLEAN]
    BY Zenon DEF NoLock
  <2>2. 1 \in 1..Newest
    OBVIOUS
  <2>3. stolen \in BOOLEAN /\ overtaken \in BOOLEAN
    OBVIOUS
  <2>4. rel \in [Updaters -> Releases] /\ target \in Contents /\ crashes \in 0..MaxCrashes
    BY <2>2
  <2> QED BY <2>1, <2>3, <2>4 DEF TypeOK
<1>2. NoBackupYet /\ Held /\ Swaps
  BY DEF NoBackupYet, Held, Swaps, Knows, Swapping
<1>3. Recoverable
  BY DEF Recoverable, RecoveryPoint, Relies, Swapping
<1> QED BY <1>1, <1>2, <1>3 DEF IInv

LEMMA LockType ==
  ASSUME NEW u \in Updaters
  PROVE  /\ NoLock \in [owner: Updaters \cup {NoOne}, stale: BOOLEAN]
         /\ [owner |-> u, stale |-> FALSE] \in [owner: Updaters \cup {NoOne}, stale: BOOLEAN]
BY Zenon DEF NoLock

LEMMA ExitType ==
  ASSUME TypeOK, NEW u \in Updaters, Exit(u)
  PROVE  /\ pc' \in [Updaters -> {"idle", "verify", "check", "open", "stat", "break"} \cup Swapping]
         /\ rel' \in [Updaters -> Releases] /\ attempt' \in [Updaters -> 0..1]
         /\ backedUp' \in [Updaters -> BOOLEAN] /\ runs' \in [Updaters -> BOOLEAN]
         /\ result' \in [Updaters -> {"none", "ok", "failed", "rollbackFailed"}]
<1>1. 1 \in Releases
  BY UpdateAssumption DEF Releases
<1>2. rel' \in [Updaters -> Releases]
  BY <1>1 DEF TypeOK, Exit
<1> QED BY <1>2 DEF TypeOK, Exit, Goto

LEMMA TypeStep == TypeOK /\ [Next]_vars => TypeOK'
<1> SUFFICES ASSUME TypeOK, [Next]_vars PROVE TypeOK'
  OBVIOUS
<1> USE UpdateAssumption DEF TypeOK, Swapping, Contents, Absent, Torn, Releases
<1>1. ASSUME NEW u \in Updaters, Start(u) PROVE TypeOK'
  BY <1>1 DEF Start, Goto, files, history
<1>2. ASSUME NEW u \in Updaters, Verify(u) PROVE TypeOK'
  <2>1. CASE Goto(u, "check") /\ UNCHANGED locals
    BY <1>2, <2>1 DEF Verify, Goto, locals, files, history
  <2>2. CASE Exit(u)
    BY <1>2, <2>2, ExitType DEF Verify, files, history
  <2> QED BY <1>2, <2>1, <2>2 DEF Verify
<1>3. ASSUME NEW u \in Updaters, CheckTarget(u) PROVE TypeOK'
  <2>1. CASE Goto(u, "open") /\ UNCHANGED locals
    BY <1>3, <2>1 DEF CheckTarget, Goto, locals, files, history
  <2>2. CASE Exit(u)
    BY <1>3, <2>2, ExitType DEF CheckTarget, files, history
  <2> QED BY <1>3, <2>1, <2>2 DEF CheckTarget
<1>4. ASSUME NEW u \in Updaters, OpenLock(u) PROVE TypeOK'
  <2>1. lock' \in [owner: Updaters \cup {NoOne}, stale: BOOLEAN]
    BY <1>4, LockType DEF OpenLock
  <2>2. CASE lock.owner = NoOne /\ Goto(u, "backup") /\ UNCHANGED locals
    BY <1>4, <2>1, <2>2 DEF OpenLock, Goto, locals, files, history
  <2>3. CASE Goto(u, "stat") /\ UNCHANGED <<lock, locals>>
    BY <1>4, <2>1, <2>3 DEF OpenLock, Goto, locals, files, history
  <2>4. CASE Exit(u) /\ UNCHANGED lock
    BY <1>4, <2>1, <2>4, ExitType DEF OpenLock, files, history
  <2> QED BY <1>4, <2>2, <2>3, <2>4 DEF OpenLock
<1>5. ASSUME NEW u \in Updaters, StatLock(u) PROVE TypeOK'
  <2>1. CASE Goto(u, "break") /\ UNCHANGED locals
    BY <1>5, <2>1 DEF StatLock, Goto, locals, files, history
  <2>2. CASE Exit(u)
    BY <1>5, <2>2, ExitType DEF StatLock, files, history
  <2> QED BY <1>5, <2>1, <2>2 DEF StatLock
<1>6. ASSUME NEW u \in Updaters, BreakLock(u) PROVE TypeOK'
  <2>1. lock' \in [owner: Updaters \cup {NoOne}, stale: BOOLEAN]
    BY <1>6, LockType DEF BreakLock
  <2>2. stolen' \in BOOLEAN /\ overtaken' \in BOOLEAN
    BY <1>6 DEF BreakLock
  <2>3. CASE attempt[u] = 0
    BY <1>6, <2>1, <2>2, <2>3 DEF BreakLock, Retry, Goto, files
  <2>4. CASE attempt[u] # 0
    BY <1>6, <2>1, <2>2, <2>4, ExitType DEF BreakLock, Retry, files
  <2> QED BY <2>3, <2>4
<1>7. ASSUME NEW u \in Updaters, OpenBackup(u) PROVE TypeOK'
  BY <1>7 DEF OpenBackup, Goto, Fail, files, history
<1>8. ASSUME NEW u \in Updaters, CopyBackup(u) PROVE TypeOK'
  BY <1>8 DEF CopyBackup, Goto, Fail, files, history
<1>9. ASSUME NEW u \in Updaters, OpenStaged(u) PROVE TypeOK'
  BY <1>9 DEF OpenStaged, Goto, Fail, files, history
<1>10. ASSUME NEW u \in Updaters, CopyStaged(u) PROVE TypeOK'
  <2>1. CASE staged' = rel[u] /\ Goto(u, "rename") /\ UNCHANGED result
    BY <1>10, <2>1 DEF CopyStaged, Goto, history
  <2>2. CASE staged' \in {rel[u], Absent} /\ Fail(u)
    BY <1>10, <2>2 DEF CopyStaged, Goto, Fail, history
  <2> QED BY <1>10, <2>1, <2>2 DEF CopyStaged
<1>11. ASSUME NEW u \in Updaters, Rename(u) PROVE TypeOK'
  BY <1>11 DEF Rename, Goto, files, history
<1>12. ASSUME NEW u \in Updaters, SyncDir(u) PROVE TypeOK'
  BY <1>12 DEF SyncDir, Goto, files, history
<1>13. ASSUME NEW u \in Updaters, RollBack(u) PROVE TypeOK'
  BY <1>13 DEF RollBack, Goto, Fail, files, history
<1>14. ASSUME NEW u \in Updaters, OpenTarget(u) PROVE TypeOK'
  BY <1>14 DEF OpenTarget, Goto, RollbackFails, files, history
<1>15. ASSUME NEW u \in Updaters, CopyRestore(u) PROVE TypeOK'
  BY <1>15 DEF CopyRestore, Goto, Fail, RollbackFails, files, history
<1>16. ASSUME NEW u \in Updaters, Unlock(u) PROVE TypeOK'
  BY <1>16, ExitType, LockType DEF Unlock, files, history
<1>17. ASSUME NEW u \in Updaters, Crash(u) PROVE TypeOK'
  BY <1>17, ExitType DEF Crash, files, history
<1>18. ASSUME LockAges PROVE TypeOK'
  BY <1>18 DEF LockAges, locals, files, history
<1>19. ASSUME UNCHANGED vars PROVE TypeOK'
  BY <1>19 DEF vars, locals, files, history
<1> QED BY <1>1, <1>2, <1>3, <1>4, <1>5, <1>6, <1>7, <1>8, <1>9, <1>10, <1>11, <1>12,
   <1>13, <1>14, <1>15, <1>16, <1>17, <1>18, <1>19 DEF Next, Step, Acquire, Swap

LEMMA BackupStep ==
  ASSUME TypeOK, NoBackupYet, [Next]_vars
  PROVE  NoBackupYet'
<1> USE DEF TypeOK, NoBackupYet, Early
<1>1. ASSUME NEW u \in Updaters, Start(u) PROVE NoBackupYet'
  BY <1>1 DEF Start, Goto, files, history
<1>2. ASSUME NEW u \in Updaters, Verify(u) PROVE NoBackupYet'
  BY <1>2 DEF Verify, Goto, Exit, locals, files, history
<1>3. ASSUME NEW u \in Updaters, CheckTarget(u) PROVE NoBackupYet'
  BY <1>3 DEF CheckTarget, Goto, Exit, locals, files, history
<1>4. ASSUME NEW u \in Updaters, OpenLock(u) PROVE NoBackupYet'
  BY <1>4 DEF OpenLock, Goto, Exit, locals, files, history
<1>5. ASSUME NEW u \in Updaters, StatLock(u) PROVE NoBackupYet'
  BY <1>5 DEF StatLock, Goto, Exit, locals, files, history
<1>6. ASSUME NEW u \in Updaters, BreakLock(u) PROVE NoBackupYet'
  BY <1>6 DEF BreakLock, Retry, Goto, Exit, locals, NoLock, files, history
<1>7. ASSUME NEW u \in Updaters, OpenBackup(u) PROVE NoBackupYet'
  BY <1>7 DEF OpenBackup, Goto, Fail, files, history
<1>8. ASSUME NEW u \in Updaters, CopyBackup(u) PROVE NoBackupYet'
  BY <1>8 DEF CopyBackup, Goto, Fail, files, history
<1>9. ASSUME NEW u \in Updaters, OpenStaged(u) PROVE NoBackupYet'
  BY <1>9 DEF OpenStaged, Goto, Fail, files, history
<1>10. ASSUME NEW u \in Updaters, CopyStaged(u) PROVE NoBackupYet'
  BY <1>10 DEF CopyStaged, Goto, Fail, files, history
<1>11. ASSUME NEW u \in Updaters, Rename(u) PROVE NoBackupYet'
  BY <1>11 DEF Rename, Goto, files, history
<1>12. ASSUME NEW u \in Updaters, SyncDir(u) PROVE NoBackupYet'
  BY <1>12 DEF SyncDir, Goto, files, history
<1>13. ASSUME NEW u \in Updaters, RollBack(u) PROVE NoBackupYet'
  BY <1>13 DEF RollBack, Goto, Fail, files, history
<1>14. ASSUME NEW u \in Updaters, OpenTarget(u) PROVE NoBackupYet'
  BY <1>14 DEF OpenTarget, Goto, RollbackFails, files, history
<1>15. ASSUME NEW u \in Updaters, CopyRestore(u) PROVE NoBackupYet'
  BY <1>15 DEF CopyRestore, Goto, Fail, RollbackFails, files, history
<1>16. ASSUME NEW u \in Updaters, Unlock(u) PROVE NoBackupYet'
  BY <1>16 DEF Unlock, Goto, Exit, locals, NoLock, files, history
<1>17. ASSUME NEW u \in Updaters, Crash(u) PROVE NoBackupYet'
  BY <1>17 DEF Crash, Goto, Exit, locals, files, history
<1>18. ASSUME LockAges PROVE NoBackupYet'
  BY <1>18 DEF LockAges, locals, files, history
<1>19. ASSUME UNCHANGED vars PROVE NoBackupYet'
  BY <1>19 DEF vars, locals, files, history
<1> QED BY <1>1, <1>2, <1>3, <1>4, <1>5, <1>6, <1>7, <1>8, <1>9, <1>10, <1>11, <1>12,
   <1>13, <1>14, <1>15, <1>16, <1>17, <1>18, <1>19 DEF Next, Step, Acquire, Swap

\* Whoever breaks a lock without stealing it is alone.
LEMMA NobodySwaps ==
  ASSUME Held, ~stolen', NEW u \in Updaters, BreakLock(u)
  PROVE  \A v \in Updaters : pc[v] \notin Swapping
<1>1. ~(lock.owner # NoOne /\ pc[lock.owner] \in Swapping)
  BY DEF BreakLock
<1> QED BY <1>1, UpdateAssumption DEF Held

LEMMA LockStep ==
  ASSUME TypeOK, NoBackupYet, Held, Swaps, ~stolen, ~stolen', [Next]_vars
  PROVE  Held' /\ Swaps'
<1> USE UpdateAssumption DEF TypeOK, NoBackupYet, Early, Held, Swaps, Knows, Orphaned, Swapping
<1>1. ASSUME NEW u \in Updaters, Start(u) PROVE Held' /\ Swaps'
  BY <1>1 DEF Start, Goto, files, history
<1>2. ASSUME NEW u \in Updaters, Verify(u) PROVE Held' /\ Swaps'
  BY <1>2 DEF Verify, Goto, Exit, locals, files, history
<1>3. ASSUME NEW u \in Updaters, CheckTarget(u) PROVE Held' /\ Swaps'
  BY <1>3 DEF CheckTarget, Goto, Exit, locals, files, history
<1>4. ASSUME NEW u \in Updaters, OpenLock(u) PROVE Held' /\ Swaps'
  BY <1>4 DEF OpenLock, Goto, Exit, locals, files, history
<1>5. ASSUME NEW u \in Updaters, StatLock(u) PROVE Held' /\ Swaps'
  BY <1>5 DEF StatLock, Goto, Exit, locals, files, history
<1>6. ASSUME NEW u \in Updaters, BreakLock(u) PROVE Held' /\ Swaps'
  <2>1. \A v \in Updaters : pc[v] \notin Swapping
    BY <1>6, NobodySwaps
  <2>2. \A v \in Updaters : pc'[v] = pc[v] \/ pc'[v] \in {"open", "idle"}
    BY <1>6 DEF BreakLock, Retry, Goto, Exit
  <2> QED BY <2>1, <2>2
<1>7. ASSUME NEW u \in Updaters, OpenBackup(u) PROVE Held' /\ Swaps'
  BY <1>7 DEF OpenBackup, Goto, Fail, files, history
<1>8. ASSUME NEW u \in Updaters, CopyBackup(u) PROVE Held' /\ Swaps'
  BY <1>8 DEF CopyBackup, Goto, Fail, files, history
<1>9. ASSUME NEW u \in Updaters, OpenStaged(u) PROVE Held' /\ Swaps'
  BY <1>9 DEF OpenStaged, Goto, Fail, files, history
<1>10. ASSUME NEW u \in Updaters, CopyStaged(u) PROVE Held' /\ Swaps'
  <2>1. CASE staged' = rel[u] /\ Goto(u, "rename") /\ UNCHANGED result
    BY <1>10, <2>1 DEF CopyStaged, Goto, history
  <2>2. CASE staged' \in {rel[u], Absent} /\ Fail(u)
    BY <1>10, <2>2 DEF CopyStaged, Goto, Fail, history
  <2> QED BY <1>10, <2>1, <2>2 DEF CopyStaged
<1>11. ASSUME NEW u \in Updaters, Rename(u) PROVE Held' /\ Swaps'
  BY <1>11 DEF Rename, Goto, files, history
<1>12. ASSUME NEW u \in Updaters, SyncDir(u) PROVE Held' /\ Swaps'
  BY <1>12 DEF SyncDir, Goto, files, history
<1>13. ASSUME NEW u \in Updaters, RollBack(u) PROVE Held' /\ Swaps'
  BY <1>13 DEF RollBack, Goto, Fail, files, history
<1>14. ASSUME NEW u \in Updaters, OpenTarget(u) PROVE Held' /\ Swaps'
  BY <1>14 DEF OpenTarget, Goto, RollbackFails, files, history
<1>15. ASSUME NEW u \in Updaters, CopyRestore(u) PROVE Held' /\ Swaps'
  BY <1>15 DEF CopyRestore, Goto, Fail, RollbackFails, files, history
<1>16. ASSUME NEW u \in Updaters, Unlock(u) PROVE Held' /\ Swaps'
  BY <1>16 DEF Unlock, Goto, Exit, locals, NoLock, files, history
<1>17. ASSUME NEW u \in Updaters, Crash(u) PROVE Held' /\ Swaps'
  BY <1>17 DEF Crash, Goto, Exit, locals, files, history
<1>18. ASSUME LockAges PROVE Held' /\ Swaps'
  BY <1>18 DEF LockAges, locals, files, history
<1>19. ASSUME UNCHANGED vars PROVE Held' /\ Swaps'
  BY <1>19 DEF vars, locals, files, history
<1> QED BY <1>1, <1>2, <1>3, <1>4, <1>5, <1>6, <1>7, <1>8, <1>9, <1>10, <1>11, <1>12,
   <1>13, <1>14, <1>15, <1>16, <1>17, <1>18, <1>19 DEF Next, Step, Acquire, Swap

LEMMA FilesStep ==
  ASSUME TypeOK, NoBackupYet, Held, Swaps, ~stolen, ~stolen', ~overtaken', Recoverable, [Next]_vars
  PROVE  Recoverable'
<1> USE UpdateAssumption DEF TypeOK, NoBackupYet, Early, Held, Swaps, Knows, Swapping, Recoverable, RecoveryPoint,
                             Relies, Contents, Absent, Torn, Releases
<1>1. ASSUME NEW u \in Updaters, Start(u) PROVE Recoverable'
  BY <1>1 DEF Start, Goto, files, history
<1>2. ASSUME NEW u \in Updaters, Verify(u) PROVE Recoverable'
  BY <1>2 DEF Verify, Goto, Exit, locals, files, history
<1>3. ASSUME NEW u \in Updaters, CheckTarget(u) PROVE Recoverable'
  BY <1>3 DEF CheckTarget, Goto, Exit, locals, files, history
<1>4. ASSUME NEW u \in Updaters, OpenLock(u) PROVE Recoverable'
  BY <1>4 DEF OpenLock, Goto, Exit, locals, files, history
<1>5. ASSUME NEW u \in Updaters, StatLock(u) PROVE Recoverable'
  BY <1>5 DEF StatLock, Goto, Exit, locals, files, history
<1>6. ASSUME NEW u \in Updaters, BreakLock(u) PROVE Recoverable'
  <2>1. \A v \in Updaters : pc[v] \notin Swapping
    BY <1>6, NobodySwaps
  <2>2. \A v \in Updaters : pc'[v] = pc[v] \/ pc'[v] \in {"open", "idle"}
    BY <1>6 DEF BreakLock, Retry, Goto, Exit
  <2>3. runs[u] /\ target \in Releases
    BY <1>6 DEF BreakLock
  <2>4. \A v \in Updaters : runs'[v] => runs[v]
    BY <1>6 DEF BreakLock, Retry, Exit
  <2>5. target' = target /\ old' = old
    BY <1>6 DEF BreakLock, files
  <2> QED BY <2>1, <2>2, <2>3, <2>4, <2>5
<1>7. ASSUME NEW u \in Updaters, OpenBackup(u) PROVE Recoverable'
  BY <1>7 DEF OpenBackup, Goto, Fail, files, history
<1>8. ASSUME NEW u \in Updaters, CopyBackup(u) PROVE Recoverable'
  BY <1>8 DEF CopyBackup, Goto, Fail, files, history
<1>9. ASSUME NEW u \in Updaters, OpenStaged(u) PROVE Recoverable'
  BY <1>9 DEF OpenStaged, Goto, Fail, files, history
<1>10. ASSUME NEW u \in Updaters, CopyStaged(u) PROVE Recoverable'
  <2>1. CASE staged' = rel[u] /\ Goto(u, "rename") /\ UNCHANGED result
    BY <1>10, <2>1 DEF CopyStaged, Goto, history
  <2>2. CASE staged' \in {rel[u], Absent} /\ Fail(u)
    BY <1>10, <2>2 DEF CopyStaged, Goto, Fail, history
  <2> QED BY <1>10, <2>1, <2>2 DEF CopyStaged
<1>11. ASSUME NEW u \in Updaters, Rename(u) PROVE Recoverable'
  BY <1>11 DEF Rename, Goto, files, history
<1>12. ASSUME NEW u \in Updaters, SyncDir(u) PROVE Recoverable'
  BY <1>12 DEF SyncDir, Goto, files, history
<1>13. ASSUME NEW u \in Updaters, RollBack(u) PROVE Recoverable'
  BY <1>13 DEF RollBack, Goto, Fail, files, history
<1>14. ASSUME NEW u \in Updaters, OpenTarget(u) PROVE Recoverable'
  BY <1>14 DEF OpenTarget, Goto, RollbackFails, files, history
<1>15. ASSUME NEW u \in Updaters, CopyRestore(u) PROVE Recoverable'
  BY <1>15 DEF CopyRestore, Goto, Fail, RollbackFails, files, history
<1>16. ASSUME NEW u \in Updaters, Unlock(u) PROVE Recoverable'
  BY <1>16 DEF Unlock, Goto, Exit, locals, NoLock, files, history
<1>17. ASSUME NEW u \in Updaters, Crash(u) PROVE Recoverable'
  BY <1>17 DEF Crash, Goto, Exit, locals, files, history
<1>18. ASSUME LockAges PROVE Recoverable'
  BY <1>18 DEF LockAges, locals, files, history
<1>19. ASSUME UNCHANGED vars PROVE Recoverable'
  BY <1>19 DEF vars, locals, files, history
<1> QED BY <1>1, <1>2, <1>3, <1>4, <1>5, <1>6, <1>7, <1>8, <1>9, <1>10, <1>11, <1>12,
   <1>13, <1>14, <1>15, <1>16, <1>17, <1>18, <1>19 DEF Next, Step, Acquire, Swap

\* What was stolen or overtaken stays so.
LEMMA HistoryStays ==
  ASSUME [Next]_vars
  PROVE  (stolen => stolen') /\ (overtaken => overtaken')
<1>1. ASSUME NEW u \in Updaters, Start(u) PROVE (stolen => stolen') /\ (overtaken => overtaken')
  BY <1>1 DEF Start, Goto, files, history
<1>2. ASSUME NEW u \in Updaters, Verify(u) PROVE (stolen => stolen') /\ (overtaken => overtaken')
  BY <1>2 DEF Verify, Goto, Exit, locals, files, history
<1>3. ASSUME NEW u \in Updaters, CheckTarget(u) PROVE (stolen => stolen') /\ (overtaken => overtaken')
  BY <1>3 DEF CheckTarget, Goto, Exit, locals, files, history
<1>4. ASSUME NEW u \in Updaters, OpenLock(u) PROVE (stolen => stolen') /\ (overtaken => overtaken')
  BY <1>4 DEF OpenLock, Goto, Exit, locals, files, history
<1>5. ASSUME NEW u \in Updaters, StatLock(u) PROVE (stolen => stolen') /\ (overtaken => overtaken')
  BY <1>5 DEF StatLock, Goto, Exit, locals, files, history
<1>6. ASSUME NEW u \in Updaters, BreakLock(u) PROVE (stolen => stolen') /\ (overtaken => overtaken')
  BY <1>6 DEF BreakLock, Retry, Goto, Exit, locals, NoLock, files, history
<1>7. ASSUME NEW u \in Updaters, OpenBackup(u) PROVE (stolen => stolen') /\ (overtaken => overtaken')
  BY <1>7 DEF OpenBackup, Goto, Fail, files, history
<1>8. ASSUME NEW u \in Updaters, CopyBackup(u) PROVE (stolen => stolen') /\ (overtaken => overtaken')
  BY <1>8 DEF CopyBackup, Goto, Fail, files, history
<1>9. ASSUME NEW u \in Updaters, OpenStaged(u) PROVE (stolen => stolen') /\ (overtaken => overtaken')
  BY <1>9 DEF OpenStaged, Goto, Fail, files, history
<1>10. ASSUME NEW u \in Updaters, CopyStaged(u) PROVE (stolen => stolen') /\ (overtaken => overtaken')
  BY <1>10 DEF CopyStaged, Goto, Fail, files, history
<1>11. ASSUME NEW u \in Updaters, Rename(u) PROVE (stolen => stolen') /\ (overtaken => overtaken')
  BY <1>11 DEF Rename, Goto, files, history
<1>12. ASSUME NEW u \in Updaters, SyncDir(u) PROVE (stolen => stolen') /\ (overtaken => overtaken')
  BY <1>12 DEF SyncDir, Goto, files, history
<1>13. ASSUME NEW u \in Updaters, RollBack(u) PROVE (stolen => stolen') /\ (overtaken => overtaken')
  BY <1>13 DEF RollBack, Goto, Fail, files, history
<1>14. ASSUME NEW u \in Updaters, OpenTarget(u) PROVE (stolen => stolen') /\ (overtaken => overtaken')
  BY <1>14 DEF OpenTarget, Goto, RollbackFails, files, history
<1>15. ASSUME NEW u \in Updaters, CopyRestore(u) PROVE (stolen => stolen') /\ (overtaken => overtaken')
  BY <1>15 DEF CopyRestore, Goto, Fail, RollbackFails, files, history
<1>16. ASSUME NEW u \in Updaters, Unlock(u) PROVE (stolen => stolen') /\ (overtaken => overtaken')
  BY <1>16 DEF Unlock, Goto, Exit, locals, NoLock, files, history
<1>17. ASSUME NEW u \in Updaters, Crash(u) PROVE (stolen => stolen') /\ (overtaken => overtaken')
  BY <1>17 DEF Crash, Goto, Exit, locals, files, history
<1>18. ASSUME LockAges PROVE (stolen => stolen') /\ (overtaken => overtaken')
  BY <1>18 DEF LockAges, locals, files, history
<1>19. ASSUME UNCHANGED vars PROVE (stolen => stolen') /\ (overtaken => overtaken')
  BY <1>19 DEF vars, locals, files, history
<1> QED BY <1>1, <1>2, <1>3, <1>4, <1>5, <1>6, <1>7, <1>8, <1>9, <1>10, <1>11, <1>12,
   <1>13, <1>14, <1>15, <1>16, <1>17, <1>18, <1>19 DEF Next, Step, Acquire, Swap
--------------------------------------------------------------------------------
(* The theorems.                                                           *)

\* Every variable keeps its type.
THEOREM TypeCorrect == Spec => []TypeOK
<1>1. Init => TypeOK
  BY InitIInv DEF IInv
<1> QED BY <1>1, TypeStep, PTL DEF Spec

\* The inductive invariant of updaters that may die anywhere and find each other's
\* locks, whoever left them and however many meet them (SwapBinary, acquireLock).
THEOREM IInvHolds == Spec => []IInv
<1>1. IInv /\ [Next]_vars => IInv'
  <2> SUFFICES ASSUME IInv, [Next]_vars PROVE IInv'
    OBVIOUS
  <2>1. TypeOK' /\ NoBackupYet'
    BY TypeStep, BackupStep DEF IInv
  <2>2. stolen' \/ (Held' /\ Swaps')
    BY LockStep, HistoryStays DEF IInv
  <2>3. stolen' \/ overtaken' \/ Recoverable'
    BY FilesStep, HistoryStays DEF IInv
  <2> QED BY <2>1, <2>2, <2>3 DEF IInv
<1> QED BY <1>1, InitIInv, PTL DEF Spec

\* Two updaters are between acquireLock and unlock at once only after a lock was
\* removed under its owner's hands (os.Remove by name in acquireLock): retries,
\* crashes, unlocks and locks of the dead do not bring it about.
THEOREM TheftAloneInterleaves == Spec => []OnlyTheftInterleaves
<1>1. IInv => OnlyTheftInterleaves
  <2> SUFFICES ASSUME Held PROVE MutualExclusion
    BY DEF IInv, OnlyTheftInterleaves
  <2> DEFINE S == {u \in Updaters : pc[u] \in Swapping}
  <2>1. S = {} \/ S = {lock.owner}
    BY DEF Held
  <2>2. Cardinality({}) = 0 /\ Cardinality({lock.owner}) = 1
    BY FS_EmptySet, FS_Singleton
  <2> QED BY <2>1, <2>2 DEF MutualExclusion
<1> QED BY <1>1, IInvHolds, PTL

\* Whatever fails and whoever dies in SwapBinary, the target or its backup is a
\* complete release, unless a lock was stolen or broken by a process whose own
\* binary had been replaced since it was started.
THEOREM OvertakingAloneLosesBoth == Spec => []OnlyOvertakingLosesBoth
<1>1. IInv => OnlyOvertakingLosesBoth
  BY DEF IInv, Recoverable, OnlyOvertakingLosesBoth
<1> QED BY <1>1, IInvHolds, PTL

\* SwapBinary returns nil only with the new release in place, and an error only
\* with the old one in place, unless it says that the rollback failed.
THEOREM SwapsAreAllOrNothing == Spec => SwapIsAllOrNothing
<1> DEFINE Installed(v) == pc[v] = "syncDir" /\ result'[v] = "ok" => target = rel[v]
           RolledBack(v) == pc[v] \in Swapping /\ result[v] # "failed" /\ result'[v] = "failed" =>
                              target' = IF backedUp[v] THEN old ELSE target
<1>1. IInv => stolen \/ \A v \in Updaters : Installed(v)
  BY DEF IInv, Swaps, Knows
<1>2. IInv /\ [Next]_vars => stolen \/ \A v \in Updaters : RolledBack(v)
  <2> SUFFICES ASSUME TypeOK, NoBackupYet, Held, Swaps, [Next]_vars PROVE \A v \in Updaters : RolledBack(v)
    BY DEF IInv
  <2> USE DEF TypeOK, NoBackupYet, Early, Swaps, Knows, Swapping
  <2>1. ASSUME NEW u \in Updaters, Start(u) PROVE \A v \in Updaters : RolledBack(v)
    BY <2>1 DEF Start, Goto, files, history
  <2>2. ASSUME NEW u \in Updaters, Verify(u) PROVE \A v \in Updaters : RolledBack(v)
    BY <2>2 DEF Verify, Goto, Exit, locals, files, history
  <2>3. ASSUME NEW u \in Updaters, CheckTarget(u) PROVE \A v \in Updaters : RolledBack(v)
    BY <2>3 DEF CheckTarget, Goto, Exit, locals, files, history
  <2>4. ASSUME NEW u \in Updaters, OpenLock(u) PROVE \A v \in Updaters : RolledBack(v)
    BY <2>4 DEF OpenLock, Goto, Exit, locals, files, history
  <2>5. ASSUME NEW u \in Updaters, StatLock(u) PROVE \A v \in Updaters : RolledBack(v)
    BY <2>5 DEF StatLock, Goto, Exit, locals, files, history
  <2>6. ASSUME NEW u \in Updaters, BreakLock(u) PROVE \A v \in Updaters : RolledBack(v)
    BY <2>6 DEF BreakLock, Retry, Goto, Exit, locals, NoLock, files, history
  <2>7. ASSUME NEW u \in Updaters, OpenBackup(u) PROVE \A v \in Updaters : RolledBack(v)
    BY <2>7 DEF OpenBackup, Goto, Fail, files, history
  <2>8. ASSUME NEW u \in Updaters, CopyBackup(u) PROVE \A v \in Updaters : RolledBack(v)
    BY <2>8 DEF CopyBackup, Goto, Fail, files, history
  <2>9. ASSUME NEW u \in Updaters, OpenStaged(u) PROVE \A v \in Updaters : RolledBack(v)
    BY <2>9 DEF OpenStaged, Goto, Fail, files, history
  <2>10. ASSUME NEW u \in Updaters, CopyStaged(u) PROVE \A v \in Updaters : RolledBack(v)
    BY <2>10 DEF CopyStaged, Goto, Fail, files, history
  <2>11. ASSUME NEW u \in Updaters, Rename(u) PROVE \A v \in Updaters : RolledBack(v)
    BY <2>11 DEF Rename, Goto, files, history
  <2>12. ASSUME NEW u \in Updaters, SyncDir(u) PROVE \A v \in Updaters : RolledBack(v)
    BY <2>12 DEF SyncDir, Goto, files, history
  <2>13. ASSUME NEW u \in Updaters, RollBack(u) PROVE \A v \in Updaters : RolledBack(v)
    BY <2>13 DEF RollBack, Goto, Fail, files, history
  <2>14. ASSUME NEW u \in Updaters, OpenTarget(u) PROVE \A v \in Updaters : RolledBack(v)
    BY <2>14 DEF OpenTarget, Goto, RollbackFails, files, history
  <2>15. ASSUME NEW u \in Updaters, CopyRestore(u) PROVE \A v \in Updaters : RolledBack(v)
    BY <2>15 DEF CopyRestore, Goto, Fail, RollbackFails, files, history
  <2>16. ASSUME NEW u \in Updaters, Unlock(u) PROVE \A v \in Updaters : RolledBack(v)
    BY <2>16 DEF Unlock, Goto, Exit, locals, NoLock, files, history
  <2>17. ASSUME NEW u \in Updaters, Crash(u) PROVE \A v \in Updaters : RolledBack(v)
    BY <2>17 DEF Crash, Goto, Exit, locals, files, history
  <2>18. ASSUME LockAges PROVE \A v \in Updaters : RolledBack(v)
    BY <2>18 DEF LockAges, locals, files, history
  <2>19. ASSUME UNCHANGED vars PROVE \A v \in Updaters : RolledBack(v)
    BY <2>19 DEF vars, locals, files, history
  <2> QED BY <2>1, <2>2, <2>3, <2>4, <2>5, <2>6, <2>7, <2>8, <2>9, <2>10, <2>11, <2>12,
     <2>13, <2>14, <2>15, <2>16, <2>17, <2>18, <2>19 DEF Next, Step, Acquire, Swap
<1>3. IInv /\ [Next]_vars =>
        [stolen \/
         \A u \in Updaters :
            /\ pc[u] = "syncDir" /\ result'[u] = "ok" => target = rel[u]
            /\ pc[u] \in Swapping /\ result[u] # "failed" /\ result'[u] = "failed" =>
                 target' = IF backedUp[u] THEN old ELSE target]_vars
  BY <1>1, <1>2
<1> QED BY <1>3, IInvHolds, PTL DEF Spec, SwapIsAllOrNothing
================================================================================
